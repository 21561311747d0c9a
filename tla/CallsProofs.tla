----------------------------- MODULE CallsProofs -----------------------------
(***************************************************************************)
(* Proofs about the calls MCServices composes, for any number of threads,  *)
(* endpoints, calls, retries, files, kinds and projects: the circuits of   *)
(* ZephyrClient, the requests of QTestClient, the wrappers of              *)
(* RetryHandler, the uploads, the fetches of DataFetcher, the incremental  *)
(* runs, and the commands and the rollback of the orchestrator.            *)
(***************************************************************************)
EXTENDS MCServices, FiniteSetTheorems, SequenceTheorems, TLAPS

-----------------------------------------------------------------------------
(***************************************************************************)
(* Requests through a circuit.                                             *)
(***************************************************************************)
CircuitRecords == [state : CircuitStates, failures : Nat, last : Nat, total : Nat]

\* A thread that is not idle has looked up a circuit.
CallsHaveCircuits ==
    \A t \in Requesters : request[t].pc # "idle" => Mine(t) \in 1..Len(circuits)

-----------------------------------------------------------------------------
(* Helpers. *)

LEMMA NoRequestType ==
  NoRequest.endpoint \in Endpoints /\ NoRequest.pc = "idle"
  /\ NoRequest = [pc |-> "idle", endpoint |-> NoRequest.endpoint, circuit |-> 0, retries |-> 0]
BY ZephyrAssumption DEF NoRequest

\* The invariant by the variable it is about.  The ghost total counts what
\* failures forgets and so never falls behind it: this is what makes
\* TripsAfterThreshold inductive, as a circuit trips on its failures, which
\* another thread may reset right after.
CircuitOK(c) ==
    c \in CircuitRecords /\ c.failures <= c.total /\ (c.state # "closed" => c.total >= Threshold)
CircuitsOK ==
    circuits \in Seq(CircuitRecords) /\ \A i \in 1..Len(circuits) : CircuitOK(circuits[i])
RegistryOK == registry \in [Endpoints -> 0..Len(circuits)] /\ CircuitsApart
RequestFields ==
    [pc : {"idle", "check", "limit", "send", "success", "closing", "failure"},
     endpoint : Endpoints, circuit : 0..Len(circuits), retries : 0..ZephyrRetries]
RequestsOK == request \in [Requesters -> RequestFields] /\ CallsHaveCircuits
ClockOK ==
    clock \in [now : 1..MaxTime, calls : 0..MaxZephyrCalls, resets : 0..MaxResets,
               limited : Nat]

CircuitsInv == CircuitsOK /\ RegistryOK /\ RequestsOK /\ ClockOK

LEMMA InvImpliesSound == CircuitsInv => CircuitsSound
<1> SUFFICES ASSUME CircuitsInv PROVE CircuitsSound
  OBVIOUS
<1>1. ZephyrTypeOK
  BY DEF CircuitsInv, ZephyrTypeOK, CircuitsOK, RegistryOK, RequestsOK, ClockOK, CircuitRecords,
         RequestFields
<1>2. TripsAfterThreshold
  BY DEF CircuitsInv, CircuitsOK, CircuitOK, TripsAfterThreshold
<1> QED
  BY <1>1, <1>2 DEF CircuitsSound, CircuitsInv, RegistryOK

LEMMA InitCircuits == ZephyrInit => CircuitsInv
<1> SUFFICES ASSUME ZephyrInit PROVE CircuitsInv
  OBVIOUS
<1>1. circuits \in Seq(CircuitRecords) /\ Len(circuits) = 0
  BY DEF ZephyrInit
<1>2. CircuitsOK
  BY <1>1 DEF CircuitsOK
<1>3. RegistryOK
  BY <1>1 DEF ZephyrInit, RegistryOK, CircuitsApart
<1>4. RequestsOK
  BY <1>1, NoRequestType, ZephyrAssumption
     DEF ZephyrInit, RequestsOK, RequestFields, CallsHaveCircuits
<1>5. ClockOK
  BY ZephyrAssumption DEF ZephyrInit, ClockOK
<1> QED
  BY <1>2, <1>3, <1>4, <1>5 DEF CircuitsInv

-----------------------------------------------------------------------------
(* What keeps the part of the invariant about one variable. *)

LEMMA LengthType == ASSUME CircuitsOK PROVE Len(circuits) \in Nat
BY DEF CircuitsOK

\* One circuit is given new values.
LEMMA CircuitUpdated ==
  ASSUME CircuitsOK, NEW i \in 1..Len(circuits), NEW c, CircuitOK(c),
         circuits' = [circuits EXCEPT ![i] = c]
  PROVE  CircuitsOK' /\ Len(circuits') = Len(circuits)
<1>1. c \in CircuitRecords /\ circuits \in Seq(CircuitRecords)
  BY DEF CircuitOK, CircuitsOK
<1>2. /\ circuits' \in Seq(CircuitRecords)
      /\ Len(circuits') = Len(circuits)
      /\ \A j \in 1..Len(circuits) : circuits'[j] = IF j = i THEN c ELSE circuits[j]
  <2>1. /\ [circuits EXCEPT ![i] = c] \in Seq(CircuitRecords)
        /\ Len([circuits EXCEPT ![i] = c]) = Len(circuits)
        /\ \A j \in 1..Len(circuits) :
             [circuits EXCEPT ![i] = c][j] = IF j = i THEN c ELSE circuits[j]
    BY <1>1, ExceptSeq
  <2> QED
    BY <2>1, Zenon
<1>3. \A j \in 1..Len(circuits') : CircuitOK(circuits'[j])
  BY <1>2 DEF CircuitsOK
<1> QED
  BY <1>2, <1>3 DEF CircuitsOK, CircuitOK, CircuitRecords

\* The calls, when the circuits stay as many as they are: a call moves on, ...
LEMMA CallMoves ==
  ASSUME RequestsOK, NEW t \in Requesters, request[t].pc # "idle",
         NEW pc \in {"check", "limit", "send", "success", "closing", "failure"},
         Move(t, pc), Len(circuits') = Len(circuits)
  PROVE  RequestsOK'
BY DEF RequestsOK, RequestFields, CallsHaveCircuits, Move, Mine

\* ... or ends, ...
LEMMA RequestReturns ==
  ASSUME RequestsOK, NEW t \in Requesters, Return(t), CircuitsOK,
         Len(circuits') = Len(circuits)
  PROVE  RequestsOK'
<1>1. NoRequest \in RequestFields /\ NoRequest.pc = "idle"
  BY NoRequestType, LengthType, ZephyrAssumption DEF RequestFields
<1>2. request' \in [Requesters -> RequestFields]
  BY <1>1 DEF Return, RequestsOK
<1>3. \A s \in Requesters : request'[s].pc # "idle" => request'[s] = request[s]
  BY <1>1 DEF Return, RequestsOK
<1> QED
  BY <1>2, <1>3 DEF RequestsOK, RequestFields, CallsHaveCircuits, Mine

\* ... or is left alone.
LEMMA CallsStay ==
  ASSUME RequestsOK, UNCHANGED request, Len(circuits') = Len(circuits)
  PROVE  RequestsOK'
BY DEF RequestsOK, RequestFields, CallsHaveCircuits, Mine

LEMMA RegistryStays ==
  ASSUME RegistryOK, UNCHANGED registry, Len(circuits') = Len(circuits)
  PROVE  RegistryOK'
BY DEF RegistryOK, CircuitsApart

LEMMA ClockStays == ASSUME ClockOK, UNCHANGED clock PROVE ClockOK'
BY DEF ClockOK

LEMMA CircuitsStay ==
  ASSUME CircuitsOK, UNCHANGED circuits PROVE CircuitsOK' /\ Len(circuits') = Len(circuits)
BY DEF CircuitsOK, CircuitOK, CircuitRecords

\* A clean-up only takes circuits out of the dictionary.
LEMMA CleanedDrops ==
  ASSUME CircuitsOK, RegistryOK
  PROVE  /\ Cleaned(registry) \in [Endpoints -> 0..Len(circuits)]
         /\ \A e \in Endpoints : Cleaned(registry)[e] \in {0, registry[e]}
BY LengthType DEF RegistryOK, Cleaned

-----------------------------------------------------------------------------
(* The steps of a call. *)

LEMMA MineType ==
  ASSUME CircuitsInv, NEW t \in Requesters, request[t].pc # "idle"
  PROVE  Mine(t) \in 1..Len(circuits) /\ CircuitOK(circuits[Mine(t)])
BY DEF CircuitsInv, RequestsOK, CallsHaveCircuits, CircuitsOK

\* Only the call and perhaps the rate limit change.
LEMMA OnlyTheCall ==
  ASSUME CircuitsInv, NEW t \in Requesters, request[t].pc # "idle",
         \/ PassCircuit(t) \/ FailFast(t) \/ PassLimit(t) \/ AnswerSuccess(t)
         \/ AnswerPermanent(t) \/ AnswerMalformed(t)
  PROVE  CircuitsInv'
<1>1. CircuitsOK /\ RegistryOK /\ RequestsOK /\ ClockOK
  BY DEF CircuitsInv
<1>2. UNCHANGED <<circuits, registry, clock>>
  BY DEF PassCircuit, FailFast, PassLimit, AnswerSuccess, AnswerPermanent, AnswerMalformed
<1>3. CircuitsOK' /\ RegistryOK' /\ ClockOK' /\ Len(circuits') = Len(circuits)
  BY <1>1, <1>2, CircuitsStay, RegistryStays, ClockStays
<1>4. Return(t) \/ \E pc \in {"limit", "send", "success", "failure"} : Move(t, pc)
  BY DEF PassCircuit, FailFast, PassLimit, AnswerSuccess, AnswerPermanent, AnswerMalformed
<1>5. RequestsOK'
  BY <1>1, <1>3, <1>4, CallMoves, RequestReturns
<1> QED
  BY <1>3, <1>5 DEF CircuitsInv

LEMMA AnswerTransientKeeps ==
  ASSUME CircuitsInv, NEW t \in Requesters, NEW limited \in BOOLEAN, AnswerTransient(t, limited)
  PROVE  CircuitsInv'
<1>1. CircuitsOK /\ RegistryOK /\ RequestsOK /\ ClockOK
  BY DEF CircuitsInv
<1>2. CircuitsOK' /\ RegistryOK' /\ Len(circuits') = Len(circuits)
  BY <1>1, CircuitsStay, RegistryStays DEF AnswerTransient
<1>3. ClockOK'
  BY <1>1 DEF AnswerTransient, ClockOK
<1>4. request[t].retries \in 0..ZephyrRetries /\ request[t].pc = "send"
  BY <1>1 DEF AnswerTransient, RequestsOK, RequestFields
<1> DEFINE pc == IF request[t].retries + 1 > ZephyrRetries THEN "failure" ELSE "limit"
           n  == IF request[t].retries + 1 > ZephyrRetries THEN request[t].retries
                 ELSE request[t].retries + 1
<1>5. /\ request' = [request EXCEPT ![t].pc = pc, ![t].retries = n]
      /\ pc \in {"failure", "limit"} /\ n \in 0..ZephyrRetries
  BY <1>4, ZephyrAssumption DEF AnswerTransient
<1> HIDE DEF pc, n
<1>6. RequestsOK'
  BY <1>1, <1>2, <1>4, <1>5 DEF RequestsOK, RequestFields, CallsHaveCircuits, Mine
<1> QED
  BY <1>2, <1>3, <1>6 DEF CircuitsInv

\* The outcome of a call, or its trial, changes its circuit.
LEMMA CircuitChanges ==
  ASSUME CircuitsInv, NEW t \in Requesters, request[t].pc # "idle",
         NEW c, CircuitOK(c), circuits' = [circuits EXCEPT ![Mine(t)] = c],
         UNCHANGED <<registry, clock>>,
         Return(t) \/ Move(t, "limit") \/ Move(t, "closing")
  PROVE  CircuitsInv'
<1>1. CircuitsOK /\ RegistryOK /\ RequestsOK /\ ClockOK /\ Mine(t) \in 1..Len(circuits)
  BY MineType DEF CircuitsInv
<1>2. CircuitsOK' /\ Len(circuits') = Len(circuits)
  BY <1>1, CircuitUpdated
<1>3. RegistryOK' /\ ClockOK'
  BY <1>1, <1>2, RegistryStays, ClockStays
<1>4. RequestsOK'
  BY <1>1, <1>2, CallMoves, RequestReturns
<1> QED
  BY <1>2, <1>3, <1>4 DEF CircuitsInv

LEMMA HalfOpenKeeps ==
  ASSUME CircuitsInv, NEW t \in Requesters, HalfOpen(t) PROVE CircuitsInv'
<1> DEFINE c == [circuits[Mine(t)] EXCEPT !.state = "half_open"]
<1>1. request[t].pc # "idle" /\ CircuitOK(circuits[Mine(t)])
  BY MineType DEF HalfOpen
<1>2. CircuitOK(c)
  BY <1>1 DEF CircuitOK, CircuitRecords, CircuitStates, HalfOpen
<1>3. circuits' = [circuits EXCEPT ![Mine(t)] = c]
  BY DEF HalfOpen
<1> QED
  BY <1>1, <1>2, <1>3, CircuitChanges DEF HalfOpen

LEMMA SuccessKeeps ==
  ASSUME CircuitsInv, NEW t \in Requesters, Success(t) PROVE CircuitsInv'
<1> DEFINE c == [circuits[Mine(t)] EXCEPT !.state = "closed"]
<1>1. request[t].pc # "idle" /\ CircuitOK(circuits[Mine(t)])
  BY MineType DEF Success
<1>2. CASE circuits[Mine(t)].state = "half_open"
  <2>1. CircuitOK(c)
    BY <1>1 DEF CircuitOK, CircuitRecords, CircuitStates
  <2>2. circuits' = [circuits EXCEPT ![Mine(t)] = c]
    BY <1>2 DEF Success
  <2> QED
    BY <1>1, <1>2, <2>1, <2>2, CircuitChanges DEF Success
<1>3. CASE circuits[Mine(t)].state # "half_open"
  <2>1. Return(t) /\ UNCHANGED <<circuits, registry, clock>>
    BY <1>3 DEF Success
  <2>2. CircuitsOK' /\ RegistryOK' /\ ClockOK' /\ Len(circuits') = Len(circuits)
    BY <2>1, CircuitsStay, RegistryStays, ClockStays DEF CircuitsInv
  <2> QED
    BY <2>1, <2>2, RequestReturns DEF CircuitsInv
<1> QED
  BY <1>2, <1>3

LEMMA ForgetFailuresKeeps ==
  ASSUME CircuitsInv, NEW t \in Requesters, ForgetFailures(t) PROVE CircuitsInv'
<1> DEFINE c == [circuits[Mine(t)] EXCEPT !.failures = 0]
<1>1. request[t].pc # "idle" /\ CircuitOK(circuits[Mine(t)])
  BY MineType DEF ForgetFailures
<1>2. CircuitOK(c)
  BY <1>1 DEF CircuitOK, CircuitRecords
<1>3. circuits' = [circuits EXCEPT ![Mine(t)] = c]
  BY DEF ForgetFailures
<1> QED
  BY <1>1, <1>2, <1>3, CircuitChanges DEF ForgetFailures

LEMMA FailureKeeps ==
  ASSUME CircuitsInv, NEW t \in Requesters, Failure(t) PROVE CircuitsInv'
<1> DEFINE b == circuits[Mine(t)]
           c == [state |-> IF b.state = "closed" /\ b.failures + 1 >= Threshold
                           THEN "open" ELSE b.state,
                 failures |-> b.failures + 1, last |-> clock.now, total |-> b.total + 1]
<1>1. request[t].pc # "idle" /\ CircuitOK(b)
  BY MineType DEF Failure
<1>2. clock.now \in Nat
  BY DEF CircuitsInv, ClockOK
<1>3. CircuitOK(c)
  BY <1>1, <1>2, ZephyrAssumption DEF CircuitOK, CircuitRecords, CircuitStates
<1>4. circuits' = [circuits EXCEPT ![Mine(t)] = c]
  BY DEF Failure
<1> QED
  BY <1>1, <1>3, <1>4, CircuitChanges DEF Failure

-----------------------------------------------------------------------------
(* The dictionary of circuits. *)

LEMMA LookUpKeeps ==
  ASSUME CircuitsInv, NEW t \in Requesters, NEW e \in Endpoints, NEW cleaning \in BOOLEAN,
         LookUpCircuit(t, e, cleaning)
  PROVE  CircuitsInv'
<1> DEFINE reg == IF cleaning THEN Cleaned(registry) ELSE registry
           id  == IF reg[e] = 0 THEN Len(circuits) + 1 ELSE reg[e]
<1>1. CircuitsOK /\ RegistryOK /\ RequestsOK /\ ClockOK /\ Len(circuits) \in Nat
  BY LengthType DEF CircuitsInv
<1>2. /\ reg \in [Endpoints -> 0..Len(circuits)]
      /\ \A d \in Endpoints : reg[d] \in {0, registry[d]}
  BY <1>1, CleanedDrops DEF RegistryOK
<1>3. /\ registry' = [reg EXCEPT ![e] = id]
      /\ circuits' = IF reg[e] = 0 THEN Append(circuits, NewCircuit) ELSE circuits
      /\ request' = [request EXCEPT ![t] =
            [pc |-> "check", endpoint |-> e, circuit |-> id, retries |-> 0]]
      /\ clock' = [clock EXCEPT !.calls = @ + 1] /\ clock.calls < MaxZephyrCalls
  BY DEF LookUpCircuit
<1> HIDE DEF reg, id
<1>4. CircuitOK(NewCircuit)
  BY ZephyrAssumption DEF CircuitOK, CircuitRecords, CircuitStates, NewCircuit
<1>5. /\ CircuitsOK'
      /\ Len(circuits') = IF reg[e] = 0 THEN Len(circuits) + 1 ELSE Len(circuits)
  <2>1. CASE reg[e] = 0
    <3>1. NewCircuit \in CircuitRecords /\ circuits \in Seq(CircuitRecords)
      BY <1>1, <1>4 DEF CircuitOK, CircuitsOK
    <3>2. /\ circuits' \in Seq(CircuitRecords)
          /\ Len(circuits') = Len(circuits) + 1
          /\ \A i \in 1..Len(circuits) : circuits'[i] = circuits[i]
          /\ circuits'[Len(circuits) + 1] = NewCircuit
      BY <1>3, <2>1, <3>1, AppendProperties
    <3>3. \A i \in 1..Len(circuits') : CircuitOK(circuits'[i])
      <4> SUFFICES ASSUME NEW i \in 1..Len(circuits') PROVE CircuitOK(circuits'[i])
        OBVIOUS
      <4>1. i \in 1..Len(circuits) \/ i = Len(circuits) + 1
        BY <1>1, <3>2
      <4> QED
        BY <1>1, <1>4, <3>2, <4>1 DEF CircuitsOK
    <3> QED
      BY <2>1, <3>2, <3>3 DEF CircuitsOK, CircuitOK, CircuitRecords
  <2>2. CASE reg[e] # 0
    BY <1>1, <1>3, <2>2, CircuitsStay
  <2> QED
    BY <2>1, <2>2
<1>6. id \in 1..Len(circuits')
  BY <1>1, <1>2, <1>5 DEF id
<1>7. RegistryOK'
  <2>1. registry' \in [Endpoints -> 0..Len(circuits')]
    BY <1>1, <1>2, <1>3, <1>5, <1>6
  <2>2. ASSUME NEW d \in Endpoints, d # e, registry'[d] # 0 PROVE registry'[d] # id
    <3>1. registry'[d] = registry[d] /\ registry[d] \in 1..Len(circuits)
      BY <1>1, <1>2, <1>3, <2>2 DEF RegistryOK
    <3>2. CASE reg[e] = 0
      BY <1>1, <3>1, <3>2 DEF id
    <3>3. CASE reg[e] # 0
      <4>1. id = registry[e]
        BY <1>2, <3>3 DEF id
      <4> QED
        BY <1>1, <2>2, <3>1, <4>1 DEF RegistryOK, CircuitsApart
    <3> QED
      BY <3>2, <3>3
  <2>3. registry'[e] = id
    BY <1>2, <1>3
  <2>4. ASSUME NEW d \in Endpoints, NEW f \in Endpoints,
               registry'[d] = registry'[f], registry'[d] # 0
        PROVE  d = f
    <3>1. CASE d = e \/ f = e
      BY <2>2, <2>3, <2>4, <3>1
    <3>2. CASE d # e /\ f # e
      <4>1. registry'[d] = registry[d] /\ registry'[f] = registry[f]
        BY <1>2, <1>3, <2>4, <3>2
      <4> QED
        BY <1>1, <2>4, <4>1 DEF RegistryOK, CircuitsApart
    <3> QED
      BY <3>1, <3>2
  <2> QED
    BY <2>1, <2>4 DEF RegistryOK, CircuitsApart
<1>8. RequestsOK'
  <2>1. [pc |-> "check", endpoint |-> e, circuit |-> id, retries |-> 0] \in RequestFields'
    BY <1>6, ZephyrAssumption DEF RequestFields
  <2>2. \A s \in Requesters : request[s] \in RequestFields'
    BY <1>1, <1>5 DEF RequestsOK, RequestFields
  <2>3. request' \in [Requesters -> RequestFields']
    BY <1>1, <1>3, <2>1, <2>2 DEF RequestsOK
  <2>4. CallsHaveCircuits'
    <3> SUFFICES ASSUME NEW s \in Requesters, request'[s].pc # "idle"
                 PROVE  request'[s].circuit \in 1..Len(circuits')
      BY DEF CallsHaveCircuits, Mine
    <3>1. CASE s = t
      BY <1>1, <1>3, <1>6, <3>1 DEF RequestsOK
    <3>2. CASE s # t
      <4>1. request'[s] = request[s]
        BY <1>1, <1>3, <3>2 DEF RequestsOK
      <4>2. request[s].circuit \in 1..Len(circuits)
        BY <1>1, <4>1 DEF RequestsOK, CallsHaveCircuits, Mine
      <4> QED
        BY <1>1, <1>5, <4>1, <4>2
    <3> QED
      BY <3>1, <3>2
  <2> QED
    BY <2>3, <2>4 DEF RequestsOK
<1>9. ClockOK'
  BY <1>1, <1>3, ZephyrAssumption, SMTT(20) DEF ClockOK
<1> QED
  BY <1>5, <1>7, <1>8, <1>9 DEF CircuitsInv

\* The owner of the client resets or cleans up, and time passes.
LEMMA OwnerKeeps ==
  ASSUME CircuitsInv, ResetCircuits \/ CleanUp \/ Tick PROVE CircuitsInv'
<1>1. CircuitsOK /\ RegistryOK /\ RequestsOK /\ ClockOK /\ Len(circuits) \in Nat
  BY LengthType DEF CircuitsInv
<1>2. CircuitsOK' /\ RequestsOK' /\ Len(circuits') = Len(circuits)
  BY <1>1, CircuitsStay, CallsStay DEF ResetCircuits, CleanUp, Tick
<1>3. RegistryOK'
  <2>1. CASE ResetCircuits
    BY <1>1, <1>2, <2>1 DEF ResetCircuits, RegistryOK, CircuitsApart
  <2>2. CASE CleanUp
    BY <1>1, <1>2, <2>2, CleanedDrops DEF CleanUp, RegistryOK, CircuitsApart
  <2>3. CASE Tick
    BY <1>1, <1>2, <2>3, RegistryStays DEF Tick
  <2> QED
    BY <2>1, <2>2, <2>3
<1>4. ClockOK'
  <2>1. CASE ResetCircuits
    BY <1>1, <2>1, ZephyrAssumption DEF ResetCircuits, ClockOK
  <2>2. CASE CleanUp
    BY <1>1, <2>2, ClockStays DEF CleanUp
  <2>3. CASE Tick
    <3> DEFINE l == IF clock.now + 1 = MaxTime THEN 0 ELSE clock.limited
    <3>1. clock' = [clock EXCEPT !.now = clock.now + 1, !.limited = l]
          /\ clock.now \in 1..MaxTime /\ clock.now < MaxTime /\ clock.limited \in Nat
      BY <1>1, <2>3 DEF Tick, ClockOK
    <3>2. clock.now + 1 \in 1..MaxTime /\ l \in Nat
      BY <3>1, ZephyrAssumption
    <3> HIDE DEF l
    <3> QED
      BY <1>1, <3>1, <3>2 DEF ClockOK
  <2> QED
    BY <2>1, <2>2, <2>3
<1> QED
  BY <1>2, <1>3, <1>4 DEF CircuitsInv

LEMMA CircuitsInvStep == CircuitsInv /\ [ZephyrNext]_zephyrVars => CircuitsInv'
<1> SUFFICES ASSUME CircuitsInv, [ZephyrNext]_zephyrVars PROVE CircuitsInv'
  OBVIOUS
<1>1. ASSUME NEW t \in Requesters, RequestStep(t) PROVE CircuitsInv'
  <2>1. CASE \/ PassCircuit(t) \/ FailFast(t) \/ PassLimit(t) \/ AnswerSuccess(t)
             \/ AnswerPermanent(t) \/ AnswerMalformed(t)
    <3>1. request[t].pc # "idle"
      BY <2>1 DEF PassCircuit, FailFast, PassLimit, AnswerSuccess, AnswerPermanent,
                  AnswerMalformed
    <3> QED
      BY <2>1, <3>1, OnlyTheCall
  <2>2. CASE \E limited \in BOOLEAN : AnswerTransient(t, limited)
    BY <2>2, AnswerTransientKeeps
  <2>3. CASE HalfOpen(t) \/ Success(t) \/ ForgetFailures(t) \/ Failure(t)
    BY <2>3, HalfOpenKeeps, SuccessKeeps, ForgetFailuresKeeps, FailureKeeps
  <2>4. (clock.now < MaxTime) \in BOOLEAN
    OBVIOUS
  <2> QED
    BY <1>1, <2>1, <2>2, <2>3, <2>4 DEF RequestStep
<1>2. ASSUME NEW t \in Requesters, NEW e \in Endpoints, NEW cleaning \in BOOLEAN,
             LookUpCircuit(t, e, cleaning)
      PROVE  CircuitsInv'
  BY <1>2, LookUpKeeps
<1>3. CASE UNCHANGED zephyrVars
  BY <1>3, CircuitsStay, RegistryStays, CallsStay, ClockStays DEF CircuitsInv, zephyrVars
<1> QED
  BY <1>1, <1>2, <1>3, OwnerKeeps DEF ZephyrNext

-----------------------------------------------------------------------------
(* Results. *)

LEMMA CircuitsInvariant == ZephyrSpec => []CircuitsInv
<1> QED
  BY InitCircuits, CircuitsInvStep, PTL DEF ZephyrSpec

\* CircuitBreaker and get_circuit_breaker: with any number of threads in one
\* breaker, which change its fields without a lock, a circuit trips only after
\* failure_threshold failures of its own, and endpoints never share one.
THEOREM CircuitsAreSound == ZephyrSpec => []CircuitsSound
BY CircuitsInvariant, InvImpliesSound, PTL

\* A circuit that a clean-up drops is not in its cooling-off period: an open
\* circuit has failed, and its last failure was a reset timeout ago.
LEMMA CoolingNotIdle ==
  ASSUME CircuitsInv, NEW i \in 1..Len(circuits), circuits[i].state = "open",
         clock.now - circuits[i].last < 1
  PROVE  ~Idle(circuits[i])
<1>1. circuits[i] \in CircuitRecords /\ clock.now \in 1..MaxTime
  BY DEF CircuitsInv, CircuitsOK, CircuitOK, ClockOK
<1>2. circuits[i].last # 0
  BY <1>1, ZephyrAssumption DEF CircuitRecords
<1> QED
  BY <1>1, <1>2, ZephyrAssumption DEF Idle, CircuitRecords

LEMMA CleanedKeepsCooling ==
  ASSUME CircuitsInv, NEW e \in Endpoints, registry[e] # 0,
         circuits[registry[e]].state = "open",
         clock.now - circuits[registry[e]].last < 1
  PROVE  Cleaned(registry)[e] = registry[e]
<1>1. registry[e] \in 1..Len(circuits)
  BY LengthType DEF CircuitsInv, RegistryOK
<1> QED
  BY <1>1, CoolingNotIdle DEF Cleaned

LEMMA CoolingStep ==
  ASSUME CircuitsInv, [ZephyrNext]_zephyrVars, NEW e \in Endpoints,
         registry[e] # 0, registry'[e] # registry[e],
         circuits[registry[e]].state = "open",
         clock.now - circuits[registry[e]].last < 1
  PROVE  clock'.resets > clock.resets
<1>1. Cleaned(registry)[e] = registry[e]
  BY CleanedKeepsCooling
<1>2. ASSUME NEW t \in Requesters, RequestStep(t) PROVE FALSE
  BY <1>2 DEF RequestStep, PassCircuit, FailFast, HalfOpen, PassLimit, AnswerSuccess,
     AnswerTransient, AnswerPermanent, AnswerMalformed, Success, ForgetFailures, Failure
<1>3. ASSUME NEW t \in Requesters, NEW d \in Endpoints, NEW cleaning \in BOOLEAN,
             LookUpCircuit(t, d, cleaning)
      PROVE  FALSE
  <2> DEFINE reg == IF cleaning THEN Cleaned(registry) ELSE registry
             id  == IF reg[d] = 0 THEN Len(circuits) + 1 ELSE reg[d]
  <2>1. registry' = [reg EXCEPT ![d] = id]
    BY <1>3 DEF LookUpCircuit
  <2>2. reg[e] = registry[e] /\ reg \in [Endpoints -> 0..Len(circuits)]
    BY <1>1, CleanedDrops DEF CircuitsInv, RegistryOK
  <2> HIDE DEF reg
  <2>3. registry'[e] = registry[e]
    BY <2>1, <2>2
  <2> QED
    BY <2>3
<1>4. CASE CleanUp
  BY <1>1, <1>4 DEF CleanUp
<1>5. CASE Tick \/ UNCHANGED zephyrVars
  BY <1>5 DEF Tick, zephyrVars
<1>6. CASE ResetCircuits
  BY <1>6 DEF CircuitsInv, ResetCircuits, ClockOK
<1> QED
  BY <1>2, <1>3, <1>4, <1>5, <1>6 DEF ZephyrNext

\* cleanup_idle_circuits, also when a call runs it before its look-up: an open
\* circuit stays in the dictionary for its whole cooling-off period unless
\* reset_circuit_breakers drops it.
THEOREM CoolingCircuitsAreKept == ZephyrSpec => CoolingCircuitsKept
<1>1. CircuitsInv /\ [ZephyrNext]_zephyrVars =>
        [\A e \in Endpoints :
           (registry[e] # 0 /\ registry'[e] # registry[e]
              /\ circuits[registry[e]].state = "open"
              /\ clock.now - circuits[registry[e]].last < 1)
           => clock'.resets > clock.resets]_zephyrVars
  BY CoolingStep
<1> QED
  BY <1>1, CircuitsInvariant, PTL DEF ZephyrSpec, CoolingCircuitsKept

-----------------------------------------------------------------------------
(***************************************************************************)
(* Calls over one QTestClient.  A frame of _make_request that has counted  *)
(* its request and has not ended is open: it holds a session from the      *)
(* moment it sends, and will count at most one error, or two and a failed  *)
(* authentication.                                                         *)
(***************************************************************************)
Call == [pc : CallStates, op : Ops, retry : 0..AuthRetries, custom : BOOLEAN, header : BOOLEAN,
         answer : Answers, left : Nat, resets : Nat, sessions : Nat]

Fields == [token : BOOLEAN, header : BOOLEAN, remaining : Nat, reset : Nat, requests : Nat,
           errors : Nat, calls : 0..MaxApiCalls, authFailed : Nat]

Server == [accepts : BOOLEAN, window : 0..LastWindow, left : 0..WindowBudget, refused : Nat]

\* The sessions a thread holds, by where it is.
HeldSessions(c) ==
    CASE c.pc \in {"idle", "ok", "cleared"} -> 0
      [] c.pc \in {"enter", "sleep", "auth", "copy", "send"} -> c.retry
      [] c.pc \in {"wait", "reauth", "unwind"} -> c.retry + 1

\* The requests of a thread that are counted and have not ended.
Frames(c) ==
    CASE c.pc \in {"idle", "ok", "cleared"} -> 0
      [] c.pc = "enter" -> c.retry
      [] c.pc \in {"sleep", "auth", "copy", "send", "wait", "reauth", "unwind"} -> c.retry + 1

OpenFrames == {f \in Callers \X (0..AuthRetries) : f[2] < Frames(call[f[1]])}

\* A request without the header was sent by a thread that saw it dropped, after the server
\* had accepted a revocation.
Refusable(c) ==
    \/ ~c.custom \/ ~c.header \/ c.pc \in {"ok", "cleared"}
    \/ c.pc = "wait" /\ (c.answer = "401" \/ (c.answer = "ok" /\ c.op = "revoke"))

CallShape(c) ==
    /\ c \in Call /\ c.sessions = HeldSessions(c)
    /\ c.pc = "reauth" => c.retry < AuthRetries

CallInv(c) == CallShape(c) /\ (Refusable(c) => ~api.accepts)

CallsInv ==
    /\ ClientTypeOK
    /\ \A t \in Callers : CallInv(call[t])
    /\ ~client.header \/ client.authFailed > 0 => ~api.accepts

\* What a step of thread t leaves of the calls.
Moves(t, c) == call'[t] = c /\ \A u \in Callers \ {t} : call'[u] = call[u]

LEMMA SetMoves ==
  ASSUME ClientTypeOK, NEW t \in Callers, NEW c \in Call, Set(t, c)
  PROVE  Moves(t, c) /\ call' \in [Callers -> Call]
BY DEF ClientTypeOK, Set, Moves, Call

LEMMA CallsInvMeans == CallsInv => ClientTypeOK /\ SessionsReturned /\ AuthFailureIsReal
<1> SUFFICES ASSUME CallsInv PROVE ClientTypeOK /\ SessionsReturned /\ AuthFailureIsReal
  OBVIOUS
<1>1. SessionsReturned
  BY ClientAssumption DEF CallsInv, CallInv, CallShape, Call, HeldSessions, CallStates, SessionsReturned
<1> QED
  BY <1>1 DEF CallsInv, AuthFailureIsReal

LEMMA NoCallShape == CallShape(NoCall) /\ ~Refusable(NoCall) /\ NoCall \in Call
BY ClientAssumption DEF CallShape, NoCall, Call, CallStates, Ops, Answers, HeldSessions, Refusable

LEMMA CallsInit == ClientInit => CallsInv
<1> SUFFICES ASSUME ClientInit PROVE CallsInv
  OBVIOUS
<1>1. CallShape(NoCall) /\ ~Refusable(NoCall)
  BY NoCallShape
<1>2. \A t \in Callers : call[t] = NoCall
  BY DEF ClientInit
<1>3. ClientTypeOK
  <2>1. call \in [Callers -> Call]
    BY <1>1 DEF ClientInit, CallShape
  <2> QED
    BY <2>1, ClientAssumption DEF ClientInit, ClientTypeOK, Call
<1> QED
  BY <1>1, <1>2, <1>3 DEF CallsInv, CallInv, ClientInit

\* What has to be shown of a step of one thread.
LEMMA OneCall ==
  ASSUME CallsInv, NEW t \in Callers, NEW c, Set(t, c),
         CallShape(c), Refusable(c) => ~api'.accepts,
         api'.accepts => api.accepts,
         client' \in Fields,
         api' \in Server,
         ~client'.header \/ client'.authFailed > 0 => ~api'.accepts
  PROVE  CallsInv'
<1>1. ClientTypeOK /\ Moves(t, c) /\ call' \in [Callers -> Call]
  BY SetMoves DEF CallsInv, CallShape
<1>2. ClientTypeOK'
  BY <1>1 DEF ClientTypeOK, Call, Fields, Server
<1>3. ASSUME NEW u \in Callers PROVE CallInv(call[u])'
  <2>1. CASE u = t
    BY <1>1, <2>1 DEF Moves, CallInv, CallShape, Refusable, HeldSessions
  <2>2. CASE u # t
    BY <1>1, <2>2 DEF CallsInv, Moves, CallInv, CallShape, Refusable, HeldSessions
  <2> QED
    BY <2>1, <2>2
<1> QED
  BY <1>2, <1>3 DEF CallsInv

\* Parts of CallsInv that the steps use of a thread.
LEMMA CallFacts ==
  ASSUME CallsInv, NEW t \in Callers
  PROVE  /\ CallShape(call[t]) /\ call[t] \in Call
         /\ Refusable(call[t]) => ~api.accepts
         /\ client \in Fields
         /\ api \in Server
         /\ ~client.header \/ client.authFailed > 0 => ~api.accepts
BY DEF CallsInv, CallInv, CallShape, ClientTypeOK, Fields, Server

\* Steps that move a thread inside its call, and may authenticate or count a request.
LEMMA MoveKeeps ==
  ASSUME CallsInv, NEW t \in Callers, NEW p \in CallStates, NEW r \in Nat,
         HeldSessions([call[t] EXCEPT !.pc = p]) = HeldSessions(call[t]),
         call[t].pc # "wait", p \notin {"wait", "reauth", "ok", "cleared"},
         Set(t, [call[t] EXCEPT !.pc = p, !.resets = r]), UNCHANGED api,
         \/ client' = client \/ client' = Authenticated(client)
         \/ client' = [client EXCEPT !.requests = @ + 1]
  PROVE  CallsInv'
<1> DEFINE c == [call[t] EXCEPT !.pc = p, !.resets = r]
<1>1. CallShape(c) /\ (Refusable(c) => Refusable(call[t]))
  <2>1. call[t] \in Call
    BY CallFacts
  <2>2. c \in Call /\ c.sessions = call[t].sessions
    BY <2>1 DEF Call
  <2>3. HeldSessions(c) = HeldSessions([call[t] EXCEPT !.pc = p])
    BY <2>1 DEF Call, HeldSessions
  <2> QED
    BY <2>1, <2>2, <2>3, CallFacts DEF CallShape, Call, Refusable
<1>2. /\ client' \in Fields
      /\ client'.authFailed = client.authFailed /\ (client.header => client'.header)
  <2>1. client \in Fields
    BY CallFacts
  <2>2. CASE client' = client
    BY <2>1, <2>2
  <2>3. CASE client' = Authenticated(client)
    BY <2>1, <2>3 DEF Authenticated, Fields
  <2>4. CASE client' = [client EXCEPT !.requests = @ + 1]
    BY <2>1, <2>4 DEF Fields
  <2> QED
    BY <2>2, <2>3, <2>4
<1> HIDE DEF c
<1>3. Set(t, c)
  BY DEF c
<1> QED
  BY <1>1, <1>2, <1>3, CallFacts, OneCall

LEMMA InsideKeeps ==
  ASSUME CallsInv, NEW t \in Callers,
         EnterRequest(t) \/ WakeUp(t) \/ CheckToken(t) \/ CopyHeaders(t) \/ Reauthenticate(t)
         \/ ForgetToken(t) \/ DropHeader(t)
  PROVE  CallsInv'
<1> USE CallFacts, ClientAssumption
<1>1. CASE EnterRequest(t)
  <2> DEFINE p == IF client.remaining <= 0 /\ client.reset > api.window THEN "sleep" ELSE "auth"
  <2>1. p \in {"sleep", "auth"} /\ client.reset \in Nat
    BY DEF Fields
  <2>2. HeldSessions([call[t] EXCEPT !.pc = p]) = HeldSessions(call[t])
    BY <1>1, <2>1 DEF EnterRequest, HeldSessions, Call
  <2> QED
    BY <1>1, <2>1, <2>2, MoveKeeps DEF EnterRequest, CallStates
<1>2. CASE WakeUp(t)
  <2>1. Set(t, [call[t] EXCEPT !.pc = "auth", !.resets = call[t].resets])
    BY <1>2 DEF WakeUp, Set, Call
  <2> QED
    BY <1>2, <2>1, MoveKeeps DEF WakeUp, HeldSessions, CallStates, Call
<1>3. CASE CheckToken(t)
  <2>1. Set(t, [call[t] EXCEPT !.pc = "copy", !.resets = call[t].resets])
    BY <1>3 DEF CheckToken, Set, Call
  <2> QED
    BY <1>3, <2>1, MoveKeeps, ZenonT(30) DEF CheckToken, HeldSessions, CallStates, Call
<1>4. CASE CopyHeaders(t)
  <2> DEFINE c == [call[t] EXCEPT !.pc = "send",
                     !.header = IF call[t].op = "upload" THEN call[t].custom ELSE client.header]
  <2>1. CallShape(c)
    BY <1>4, ZenonT(30) DEF CopyHeaders, CallShape, Call, CallStates, HeldSessions, Fields
  <2>2. Refusable(c) => Refusable(call[t]) \/ ~client.header
    BY <1>4 DEF CopyHeaders, Call, Refusable
  <2>3. Set(t, c) /\ UNCHANGED <<client, api>>
    BY <1>4 DEF CopyHeaders
  <2> HIDE DEF c
  <2> QED
    BY <2>1, <2>2, <2>3, OneCall
<1>5. CASE Reauthenticate(t)
  <2> DEFINE c == [call[t] EXCEPT !.pc = "enter", !.retry = call[t].retry + 1]
  <2>1. CallShape(c) /\ (Refusable(c) => Refusable(call[t]))
    <3>1. call[t].pc = "reauth" /\ call[t].retry \in 0..AuthRetries - 1 /\ call[t].retry + 1 \in 0..AuthRetries
      BY <1>5 DEF Reauthenticate, CallShape, Call
    <3>2. c \in Call /\ c.pc = "enter" /\ c.retry = call[t].retry + 1 /\ c.sessions = call[t].sessions
      BY <3>1 DEF Call, CallStates
    <3>3. c.sessions = HeldSessions(c)
      BY <3>1, <3>2 DEF CallShape, HeldSessions
    <3>4. Refusable(c) => Refusable(call[t])
      BY <3>1 DEF Call, Refusable
    <3> QED
      BY <3>2, <3>3, <3>4 DEF CallShape
  <2>2. Set(t, c) /\ client' = Authenticated(client) /\ UNCHANGED api
    BY <1>5 DEF Reauthenticate
  <2>3. client' \in Fields /\ client'.authFailed = client.authFailed /\ client'.header
    BY <2>2 DEF Authenticated, Fields
  <2> HIDE DEF c
  <2> QED
    BY <2>1, <2>2, <2>3, OneCall
<1>6. CASE ForgetToken(t)
  <2> DEFINE c == [call[t] EXCEPT !.pc = "cleared"]
  <2>1. CallShape(c) /\ (Refusable(c) => Refusable(call[t]))
    BY <1>6 DEF ForgetToken, CallShape, Call, CallStates, HeldSessions, Refusable
  <2>2. Set(t, c) /\ UNCHANGED api /\ client' = [client EXCEPT !.token = FALSE]
    BY <1>6 DEF ForgetToken
  <2>3. /\ client' \in Fields
        /\ client'.authFailed = client.authFailed /\ client'.header = client.header
    BY <2>2 DEF Fields
  <2> HIDE DEF c
  <2> QED
    BY <2>1, <2>2, <2>3, OneCall
<1>7. CASE DropHeader(t)
  <2>1. CallShape(NoCall) /\ ~Refusable(NoCall)
    BY NoCallShape
  <2>2. Set(t, NoCall) /\ UNCHANGED api /\ client' = [client EXCEPT !.header = FALSE]
    BY <1>7 DEF DropHeader
  <2>3. client' \in Fields /\ Refusable(call[t])
    BY <1>7, <2>2 DEF DropHeader, Fields, Refusable
  <2> QED
    BY <2>1, <2>2, <2>3, OneCall
<1> QED
  BY <1>1, <1>2, <1>3, <1>4, <1>5, <1>6, <1>7

\* An answer of the service, kept in the call until it is read.
LEMMA ServeKeeps ==
  ASSUME CallsInv, NEW t \in Callers, Serve(t)
  PROVE  CallsInv'
<1> USE CallFacts, ClientAssumption
<1> DEFINE left == IF api.left = 0 THEN 0 ELSE api.left - 1
<1>1. PICK a \in Answers \ {"none"} :
        /\ (api.left = 0 /\ api.window < LastWindow) => a \in {"limited", "lost"}
        /\ ~(api.left = 0 /\ api.window < LastWindow) /\ ~(call[t].header /\ api.accepts) => a \in {"401", "lost"}
        /\ ~(api.left = 0 /\ api.window < LastWindow) /\ (call[t].header /\ api.accepts)
              => a \in {"ok", "error", "lost"}
        /\ Set(t, [call[t] EXCEPT !.pc = "wait", !.answer = a, !.sessions = call[t].sessions + 1,
                       !.left = IF api.window = LastWindow THEN WindowBudget ELSE left,
                       !.resets = api.window + 1])
        /\ api' = [api EXCEPT
             !.left = left,
             !.refused = IF a = "limited" THEN @ + 1 ELSE @,
             !.accepts = @ /\ ~(call[t].op = "revoke" /\ a = "ok")]
  BY DEF Serve
<1>2. call[t].pc = "send" /\ UNCHANGED client
  BY DEF Serve
<1>3. left \in 0..WindowBudget /\ left \in Nat
  BY DEF Server
<1> DEFINE given == IF api.window = LastWindow THEN WindowBudget ELSE left
<1>4. given \in Nat /\ api.window + 1 \in Nat
  BY <1>3 DEF Server
<1> DEFINE c == [call[t] EXCEPT !.pc = "wait", !.answer = a, !.sessions = call[t].sessions + 1,
                                !.left = given, !.resets = api.window + 1]
<1> HIDE DEF given, left
<1>5. /\ c \in Call /\ c.pc = "wait" /\ c.retry = call[t].retry /\ c.sessions = call[t].sessions + 1
      /\ c.custom = call[t].custom /\ c.header = call[t].header /\ c.answer = a /\ c.op = call[t].op
  <2>1. call[t] \in Call /\ call[t].sessions + 1 \in Nat
    BY DEF Call
  <2> QED
    BY <1>4, <2>1 DEF Call, CallStates
<1>6. CallShape(c)
  BY <1>2, <1>5 DEF CallShape, HeldSessions, Call
<1>7. /\ api' \in Server
      /\ api'.accepts = (api.accepts /\ ~(call[t].op = "revoke" /\ a = "ok"))
  <2>1. api \in Server /\ api.refused + 1 \in Nat
    BY DEF Server
  <2>2. api'.accepts \in BOOLEAN /\ api'.accepts = (api.accepts /\ ~(call[t].op = "revoke" /\ a = "ok"))
    BY <1>1, <2>1 DEF Server
  <2> QED
    BY <1>1, <1>3, <2>1, <2>2 DEF Server
<1>8. Refusable(c) => ~api'.accepts
  <2> SUFFICES ASSUME api'.accepts PROVE ~Refusable(c)
    OBVIOUS
  <2>1. api.accepts /\ call[t].custom /\ call[t].header
    BY <1>7 DEF Refusable, Server
  <2>2. a # "401"
    BY <1>1, <2>1
  <2> QED
    BY <1>5, <1>7, <2>1, <2>2 DEF Refusable
<1>9. Set(t, c)
  BY <1>1 DEF given
<1> HIDE DEF c
<1> QED
  BY <1>2, <1>6, <1>7, <1>8, <1>9, OneCall DEF Server

\* Reading an answer changes the limits and nothing else.
LEMMA LimitsType ==
  ASSUME CallsInv, NEW t \in Callers
  PROVE  /\ Limits(t, client) \in Fields
         /\ Limits(t, client).header = client.header
         /\ Limits(t, client).requests = client.requests
         /\ Limits(t, client).errors = client.errors
         /\ Limits(t, client).authFailed = client.authFailed
<1>1. client \in Fields /\ call[t] \in Call
  BY CallFacts
<1> QED
  BY <1>1 DEF Limits, Fields, Call

\* The call that is left when a frame ends.
LEMMA RaiseShape ==
  ASSUME CallsInv, NEW t \in Callers, FrameRaises(t), call[t].pc \in {"wait", "unwind"}
  PROVE  \E c : Set(t, c) /\ CallShape(c) /\ (Refusable(c) => Refusable(call[t]))
<1> USE CallFacts, ClientAssumption
<1>0. call[t] \in Call /\ call[t].sessions = call[t].retry + 1 /\ call[t].retry \in 0..AuthRetries
  BY DEF CallShape, HeldSessions, Call
<1>1. CASE call[t].retry = 0
  <2> DEFINE c == [NoCall EXCEPT !.sessions = call[t].sessions - 1]
  <2>1. Set(t, c)
    BY <1>1 DEF FrameRaises
  <2>2. c = NoCall
    BY <1>0, <1>1 DEF NoCall
  <2>3. CallShape(NoCall) /\ ~Refusable(NoCall)
    BY NoCallShape
  <2> QED
    BY <2>1, <2>2, <2>3
<1>2. CASE call[t].retry # 0
  <2> DEFINE c == [call[t] EXCEPT !.pc = "unwind", !.retry = @ - 1, !.sessions = @ - 1]
  <2>1. Set(t, c)
    BY <1>2 DEF FrameRaises
  <2>2. /\ c \in Call /\ c.pc = "unwind" /\ c.retry = call[t].retry - 1 /\ c.sessions = c.retry + 1
        /\ c.custom = call[t].custom /\ c.header = call[t].header
    <3>1. call[t].retry - 1 \in 0..AuthRetries /\ call[t].sessions - 1 = (call[t].retry - 1) + 1
          /\ call[t].sessions - 1 \in Nat
      BY <1>0, <1>2
    <3> QED
      BY <1>0, <3>1 DEF Call, CallStates
  <2>3. CallShape(c) /\ (Refusable(c) => Refusable(call[t]))
    BY <2>2 DEF CallShape, HeldSessions, Refusable
  <2> QED
    BY <2>1, <2>3
<1> QED
  BY <1>1, <1>2

LEMMA AnswersKeep ==
  ASSUME CallsInv, NEW t \in Callers,
         AnswerOk(t) \/ Answer401(t) \/ Final401(t) \/ AnswerError(t) \/ Unwind(t)
  PROVE  CallsInv'
<1> USE CallFacts, ClientAssumption
<1>1. CASE AnswerOk(t)
  <2> DEFINE c == [NoCall EXCEPT !.pc = IF call[t].op = "revoke" THEN "ok" ELSE "idle",
                                 !.op = IF call[t].op = "revoke" THEN "revoke" ELSE "plain",
                                 !.sessions = call[t].sessions - (call[t].retry + 1)]
  <2>1. call[t].sessions - (call[t].retry + 1) = 0
    BY <1>1 DEF AnswerOk, CallShape, HeldSessions, Call
  <2>2. CallShape(c)
    <3>1. c.sessions = 0 /\ c.pc \in {"ok", "idle"} /\ c.op \in Ops
      BY <2>1 DEF NoCall, Ops
    <3>2. c \in Call
      <4>1. \A p \in CallStates, o \in Ops : [NoCall EXCEPT !.pc = p, !.op = o, !.sessions = 0] \in Call
        BY NoCallShape DEF Call
      <4> QED
        BY <2>1, <4>1 DEF CallStates, Ops
    <3> QED
      BY <3>1, <3>2 DEF CallShape, HeldSessions
  <2>3. Refusable(c) => Refusable(call[t])
    BY <1>1 DEF AnswerOk, Refusable, NoCall
  <2>4. Set(t, c) /\ UNCHANGED api /\ client' = Limits(t, client)
    BY <1>1 DEF AnswerOk
  <2> HIDE DEF c
  <2> QED
    BY <2>2, <2>3, <2>4, LimitsType, OneCall
<1>2. CASE Answer401(t)
  <2> DEFINE c == [call[t] EXCEPT !.pc = "reauth"]
  <2>1. CallShape(c) /\ (Refusable(c) => Refusable(call[t]))
    BY <1>2 DEF Answer401, CallShape, Call, CallStates, HeldSessions, Refusable
  <2>2. Set(t, c) /\ UNCHANGED api /\ client' = [Limits(t, client) EXCEPT !.token = FALSE]
    BY <1>2 DEF Answer401
  <2>3. client' \in Fields /\ client'.header = client.header /\ client'.authFailed = client.authFailed
    BY <2>2, LimitsType DEF Fields
  <2> HIDE DEF c
  <2> QED
    BY <2>1, <2>2, <2>3, OneCall
<1>3. CASE Final401(t)
  <2>1. PICK c : Set(t, c) /\ CallShape(c) /\ (Refusable(c) => Refusable(call[t]))
    BY <1>3, RaiseShape DEF Final401
  <2>2. ~api.accepts /\ UNCHANGED api
    BY <1>3 DEF Final401, Refusable
  <2>3. client' \in Fields
    <3> DEFINE d == Limits(t, client)
    <3>1. d \in Fields
      BY LimitsType
    <3>2. client' = [d EXCEPT !.errors = @ + 2, !.authFailed = @ + 1]
      BY <1>3 DEF Final401
    <3> HIDE DEF d
    <3>3. d.errors + 2 \in Nat /\ d.authFailed + 1 \in Nat
      BY <3>1 DEF Fields
    <3> QED
      BY <3>1, <3>2, <3>3 DEF Fields
  <2> QED
    BY <2>1, <2>2, <2>3, OneCall
<1>4. CASE AnswerError(t)
  <2>1. PICK c : Set(t, c) /\ CallShape(c) /\ (Refusable(c) => Refusable(call[t]))
    BY <1>4, RaiseShape DEF AnswerError
  <2>2. UNCHANGED api
    BY <1>4 DEF AnswerError
  <2>3. client' \in Fields /\ client'.header = client.header /\ client'.authFailed = client.authFailed
    BY <1>4, LimitsType DEF AnswerError, Fields
  <2> QED
    BY <2>1, <2>2, <2>3, OneCall
<1>5. CASE Unwind(t)
  <2>1. PICK c : Set(t, c) /\ CallShape(c) /\ (Refusable(c) => Refusable(call[t]))
    BY <1>5, RaiseShape DEF Unwind
  <2>2. UNCHANGED api
    BY <1>5 DEF Unwind
  <2>3. client' \in Fields /\ client'.header = client.header /\ client'.authFailed = client.authFailed
    BY <1>5 DEF Unwind, Fields
  <2> QED
    BY <2>1, <2>2, <2>3, OneCall
<1> QED
  BY <1>1, <1>2, <1>3, <1>4, <1>5

LEMMA StartKeeps ==
  ASSUME CallsInv, NEW t \in Callers, NEW op \in Ops, StartCall(t, op)
  PROVE  CallsInv'
<1> USE CallFacts, ClientAssumption
<1> DEFINE c == [NoCall EXCEPT !.pc = "enter", !.op = op, !.custom = client.header,
                               !.sessions = call[t].sessions]
<1>1. call[t].sessions = 0
  BY DEF StartCall, CallShape, HeldSessions
<1>2. CallShape(c)
  <2>1. client.header \in BOOLEAN
    BY DEF Fields
  <2>2. NoCall \in Call /\ "enter" \in CallStates /\ NoCall.retry = 0
    BY NoCallShape DEF NoCall, CallStates
  <2>3. c \in Call /\ c.pc = "enter" /\ c.retry = 0 /\ c.sessions = 0
    BY <1>1, <2>1, <2>2 DEF Call
  <2> QED
    BY <2>3 DEF CallShape, HeldSessions
<1>3. Refusable(c) => ~client.header
  BY DEF Refusable, NoCall
<1>4. Set(t, c) /\ UNCHANGED api /\ client' = [client EXCEPT !.calls = @ + 1] /\ client.calls < MaxApiCalls
  BY DEF StartCall
<1>5. client' \in Fields /\ client'.header = client.header /\ client'.authFailed = client.authFailed
  BY <1>4 DEF Fields
<1> HIDE DEF c
<1> QED
  BY <1>2, <1>3, <1>4, <1>5, OneCall

LEMMA ServerKeeps == CallsInv /\ (TokenExpires \/ NextWindow) => CallsInv'
<1> SUFFICES ASSUME CallsInv, TokenExpires \/ NextWindow PROVE CallsInv'
  OBVIOUS
<1>1. api \in Server /\ UNCHANGED <<client, call>>
  BY DEF CallsInv, ClientTypeOK, Server, TokenExpires, NextWindow
<1>2. api' \in Server /\ (api'.accepts => api.accepts)
  <2>1. CASE TokenExpires
    BY <1>1, <2>1 DEF TokenExpires, Server
  <2>2. CASE NextWindow
    <3>1. api.window + 1 \in 0..LastWindow /\ WindowBudget \in 0..WindowBudget
      BY <1>1, <2>2, ClientAssumption DEF NextWindow, Server
    <3> QED
      BY <1>1, <2>2, <3>1 DEF NextWindow, Server
  <2> QED
    BY <2>1, <2>2
<1>3. ClientTypeOK'
  BY <1>1, <1>2 DEF CallsInv, ClientTypeOK, Server
<1> QED
  BY <1>1, <1>2, <1>3 DEF CallsInv, CallInv, CallShape, Refusable, HeldSessions

LEMMA CallsNext == CallsInv /\ [ClientNext]_clientVars => CallsInv'
<1> SUFFICES ASSUME CallsInv, [ClientNext]_clientVars PROVE CallsInv'
  OBVIOUS
<1>1. ASSUME NEW t \in Callers, CallStep(t) PROVE CallsInv'
  BY <1>1, InsideKeeps, ServeKeeps, AnswersKeep DEF CallStep
<1>2. CASE UNCHANGED clientVars
  BY <1>2 DEF clientVars, CallsInv, ClientTypeOK, CallInv, CallShape, Refusable, HeldSessions
<1> QED
  BY <1>1, <1>2, StartKeeps, ServerKeeps DEF ClientNext
-----------------------------------------------------------------------------
\* Every error is counted for a request that ended: the ones still open have their count to come.
ErrorsInv == client.errors + Cardinality(OpenFrames) <= client.requests + client.authFailed

LEMMA OpenFramesFinite == IsFiniteSet(OpenFrames) /\ Cardinality(OpenFrames) \in Nat
<1>1. IsFiniteSet(0..AuthRetries)
  BY FS_Interval, ClientAssumption
<1>2. IsFiniteSet(Callers \X (0..AuthRetries))
  BY <1>1, FS_Product, ClientAssumption
<1> QED
  BY <1>2, FS_Subset, FS_CardinalityType DEF OpenFrames

LEMMA FramesType ==
  ASSUME NEW c \in Call
  PROVE  Frames(c) \in 0..AuthRetries + 1
BY ClientAssumption DEF Frames, Call, CallStates

\* A thread that moves from n open frames to m.
LEMMA FramesStep ==
  ASSUME CallsInv, NEW t \in Callers, NEW c \in Call, Set(t, c)
  PROVE  /\ Frames(c) <= Frames(call[t]) => Cardinality(OpenFrames') <= Cardinality(OpenFrames)
         /\ Frames(c) = Frames(call[t]) + 1 => Cardinality(OpenFrames') = Cardinality(OpenFrames) + 1
         /\ Frames(c) + 1 = Frames(call[t]) => Cardinality(OpenFrames') = Cardinality(OpenFrames) - 1
         /\ Cardinality(OpenFrames') \in Nat
<1> DEFINE n == Frames(call[t])
<1>1. Moves(t, c) /\ call[t] \in Call
  BY SetMoves, CallFacts DEF CallsInv
<1>2. n \in 0..AuthRetries + 1 /\ Frames(c) \in 0..AuthRetries + 1
  BY <1>1, FramesType
<1> DEFINE Pairs == Callers \X (0..AuthRetries)
<1>3. OpenFrames \subseteq Pairs /\ OpenFrames' \subseteq Pairs
  BY DEF OpenFrames
<1>4. \A u \in Callers, i \in 0..AuthRetries :
        /\ <<u, i>> \in OpenFrames <=> i < Frames(call[u])
        /\ <<u, i>> \in OpenFrames' <=> i < (IF u = t THEN Frames(c) ELSE Frames(call[u]))
  BY <1>1 DEF OpenFrames, Moves, Frames
<1> HIDE DEF n
<1>5. ASSUME Frames(c) <= n PROVE Cardinality(OpenFrames') <= Cardinality(OpenFrames)
  <2>1. \A u \in Callers, i \in 0..AuthRetries : <<u, i>> \in OpenFrames' => <<u, i>> \in OpenFrames
    <3> SUFFICES ASSUME NEW u \in Callers, NEW i \in 0..AuthRetries, <<u, i>> \in OpenFrames'
                 PROVE  <<u, i>> \in OpenFrames
      OBVIOUS
    <3>1. CASE u = t
      BY <1>2, <1>4, <1>5, <3>1 DEF n
    <3>2. CASE u # t
      BY <1>4, <3>2
    <3> QED
      BY <3>1, <3>2
  <2>2. OpenFrames' \subseteq OpenFrames
    BY <1>3, <2>1
  <2> QED
    BY <2>2, OpenFramesFinite, FS_Subset
<1>6. ASSUME Frames(c) = n + 1 PROVE Cardinality(OpenFrames') = Cardinality(OpenFrames) + 1
  <2>1. n \in 0..AuthRetries
    BY <1>2, <1>6, ClientAssumption
  <2>2. <<t, n>> \notin OpenFrames
    BY <1>2, <1>4, <2>1 DEF n
  <2>3. \A u \in Callers, i \in 0..AuthRetries :
          <<u, i>> \in OpenFrames' <=> <<u, i>> \in OpenFrames \/ (u = t /\ i = n)
    <3> SUFFICES ASSUME NEW u \in Callers, NEW i \in 0..AuthRetries
                 PROVE  <<u, i>> \in OpenFrames' <=> <<u, i>> \in OpenFrames \/ (u = t /\ i = n)
      OBVIOUS
    <3>1. CASE u = t
      BY <1>2, <1>4, <1>6, <3>1 DEF n
    <3>2. CASE u # t
      BY <1>4, <3>2
    <3> QED
      BY <3>1, <3>2
  <2>4. OpenFrames' = OpenFrames \cup {<<t, n>>}
    <3> DEFINE B == OpenFrames \cup {<<t, n>>}
    <3>1. B \subseteq Pairs
      BY <1>3, <2>1
    <3>2. \A u \in Callers, i \in 0..AuthRetries : <<u, i>> \in OpenFrames' <=> <<u, i>> \in B
      BY <2>3
    <3> HIDE DEF B
    <3>3. OpenFrames' = B
      BY <1>3, <3>1, <3>2
    <3> QED
      BY <3>3 DEF B
  <2> QED
    BY <2>2, <2>4, OpenFramesFinite, FS_AddElement
<1>7. ASSUME Frames(c) + 1 = n PROVE Cardinality(OpenFrames') = Cardinality(OpenFrames) - 1
  <2> DEFINE m == Frames(c)
  <2>1. m \in 0..AuthRetries
    BY <1>2, <1>7, ClientAssumption
  <2>2. <<t, m>> \in OpenFrames
    BY <1>2, <1>4, <1>7, <2>1 DEF n
  <2>3. \A u \in Callers, i \in 0..AuthRetries :
          <<u, i>> \in OpenFrames' <=> <<u, i>> \in OpenFrames /\ ~(u = t /\ i = m)
    <3> SUFFICES ASSUME NEW u \in Callers, NEW i \in 0..AuthRetries
                 PROVE  <<u, i>> \in OpenFrames' <=> <<u, i>> \in OpenFrames /\ ~(u = t /\ i = m)
      OBVIOUS
    <3>1. CASE u = t
      BY <1>2, <1>4, <1>7, <3>1 DEF n
    <3>2. CASE u # t
      BY <1>4, <3>2
    <3> QED
      BY <3>1, <3>2
  <2>4. OpenFrames' = OpenFrames \ {<<t, m>>}
    <3> DEFINE B == OpenFrames \ {<<t, m>>}
    <3>1. B \subseteq Pairs
      BY <1>3
    <3>2. \A u \in Callers, i \in 0..AuthRetries : <<u, i>> \in OpenFrames' <=> <<u, i>> \in B
      BY <2>3
    <3> HIDE DEF B
    <3>3. OpenFrames' = B
      BY <1>3, <3>1, <3>2
    <3> QED
      BY <3>3 DEF B
  <2> QED
    BY <2>2, <2>4, OpenFramesFinite, FS_RemoveElement
<1>8. Cardinality(OpenFrames') \in Nat
  <2>1. IsFiniteSet(0..AuthRetries)
    BY FS_Interval, ClientAssumption
  <2>2. IsFiniteSet(Pairs)
    BY <2>1, FS_Product, ClientAssumption DEF Pairs
  <2> QED
    BY <1>3, <2>2, FS_Subset, FS_CardinalityType
<1> QED
  BY <1>5, <1>6, <1>7, <1>8 DEF n
\* The counts of a step that opens or ends no frame, and of the frame that a raise ends.
LEMMA SameFrames ==
  ASSUME CallsInv, ErrorsInv, NEW t \in Callers, NEW c \in Call, Set(t, c),
         Frames(c) <= Frames(call[t]), client'.errors = client.errors,
         client'.requests = client.requests, client'.authFailed = client.authFailed
  PROVE  ErrorsInv'
<1>1. Cardinality(OpenFrames') <= Cardinality(OpenFrames)
      /\ Cardinality(OpenFrames') \in Nat /\ Cardinality(OpenFrames) \in Nat
  BY FramesStep, OpenFramesFinite
<1>2. client.errors \in Nat /\ client.requests \in Nat /\ client.authFailed \in Nat
  BY CallFacts DEF Fields
<1> QED
  BY <1>1, <1>2 DEF ErrorsInv

LEMMA RaiseFrames ==
  ASSUME CallsInv, NEW t \in Callers, FrameRaises(t), call[t].pc \in {"wait", "unwind"}
  PROVE  Cardinality(OpenFrames') = Cardinality(OpenFrames) - 1
<1>1. PICK c : Set(t, c) /\ CallShape(c)
  BY RaiseShape
<1>2. c = call'[t] /\ c \in Call
  BY <1>1, SetMoves DEF CallShape, Moves, CallsInv
<1>3. call[t] \in Call /\ call \in [Callers -> Call] /\ Frames(call[t]) = call[t].retry + 1
  BY CallFacts DEF Frames, CallsInv, ClientTypeOK, Call
<1>4. Frames(c) + 1 = Frames(call[t])
  <2>1. CASE call[t].retry = 0
    <3>1. c.pc = "idle"
      BY <1>2, <1>3, <2>1 DEF FrameRaises, Set, NoCall
    <3> QED
      BY <1>3, <2>1, <3>1 DEF Frames
  <2>2. CASE call[t].retry # 0
    <3>1. c.pc = "unwind" /\ c.retry = call[t].retry - 1
      BY <1>2, <1>3, <2>2 DEF FrameRaises, Set, Call
    <3>2. Frames(c) = c.retry + 1
      BY <3>1 DEF Frames
    <3> QED
      BY <1>3, <3>1, <3>2 DEF Call
  <2> QED
    BY <2>1, <2>2
<1> QED
  BY <1>1, <1>2, <1>4, FramesStep

LEMMA ErrorsNext == CallsInv /\ ErrorsInv /\ [ClientNext]_clientVars => ErrorsInv'
<1> SUFFICES ASSUME CallsInv, ErrorsInv, [ClientNext]_clientVars PROVE ErrorsInv'
  OBVIOUS
<1>0. /\ client.errors \in Nat /\ client.requests \in Nat /\ client.authFailed \in Nat
      /\ call \in [Callers -> Call] /\ Cardinality(OpenFrames) \in Nat
  BY CallFacts, OpenFramesFinite DEF Fields, CallsInv, ClientTypeOK, Call
<1>1. ASSUME NEW t \in Callers, CallStep(t) \/ \E op \in Ops : StartCall(t, op) PROVE ErrorsInv'
  <2> DEFINE c == call'[t]
  <2>0. c \in Call /\ call[t] \in Call /\ client \in Fields
    BY <1>1, CallFacts, CallsNext DEF CallsInv, ClientTypeOK, ClientNext, Call
  <2>1. ASSUME NEW d, Set(t, d) PROVE d = c /\ Set(t, c)
    BY <1>0, <2>1 DEF Set
  <2>2. CASE EnterRequest(t)
    <3>1. Set(t, c) /\ Frames(c) = Frames(call[t]) + 1
      BY <1>0, <2>2 DEF EnterRequest, Set, Frames, Call
    <3>2. Cardinality(OpenFrames') = Cardinality(OpenFrames) + 1
      BY <2>0, <3>1, FramesStep
    <3>3. /\ client'.requests = client.requests + 1
          /\ client'.errors = client.errors /\ client'.authFailed = client.authFailed
      BY <2>0, <2>2 DEF EnterRequest, Fields
    <3> HIDE DEF c
    <3> QED
      BY <1>0, <3>2, <3>3 DEF ErrorsInv
  <2>3. ASSUME WakeUp(t) \/ CheckToken(t) \/ CopyHeaders(t) \/ Serve(t) \/ AnswerOk(t) \/ Answer401(t)
               \/ Reauthenticate(t) \/ ForgetToken(t) \/ DropHeader(t) \/ \E op \in Ops : StartCall(t, op)
        PROVE  ErrorsInv'
    <3>1. Set(t, c) /\ Frames(c) <= Frames(call[t])
      <4>1. CASE WakeUp(t) \/ CheckToken(t) \/ CopyHeaders(t)
        <5>1. /\ Set(t, c) /\ c.retry = call[t].retry
              /\ {c.pc, call[t].pc} \subseteq {"sleep", "auth", "copy", "send"}
          <6>1. CASE WakeUp(t)
            BY <1>0, <6>1 DEF WakeUp, Set, Call
          <6>2. CASE CheckToken(t)
            BY <1>0, <6>2 DEF CheckToken, Set, Call
          <6>3. CASE CopyHeaders(t)
            BY <1>0, <6>3 DEF CopyHeaders, Set, Call
          <6> QED
            BY <4>1, <6>1, <6>2, <6>3
        <5>2. Frames(c) = c.retry + 1 /\ Frames(call[t]) = call[t].retry + 1
          BY <5>1 DEF Frames
        <5> QED
          BY <2>0, <5>1, <5>2 DEF Call
      <4>2. CASE Serve(t)
        <5>1. c.pc = "wait" /\ c.retry = call[t].retry /\ call[t].pc = "send" /\ Set(t, c)
          BY <1>0, <4>2 DEF Serve, Set, Call
        <5> QED
          BY <2>0, <5>1 DEF Frames, Call
      <4>3. CASE AnswerOk(t)
        <5>1. c.pc \in {"ok", "idle"} /\ Set(t, c)
          BY <1>0, <4>3 DEF AnswerOk, Set, NoCall
        <5>2. Frames(c) = 0 /\ Frames(call[t]) \in 0..AuthRetries + 1
          BY <2>0, <5>1, FramesType DEF Frames
        <5> QED
          BY <5>1, <5>2, ClientAssumption
      <4>4. CASE Answer401(t)
        BY <1>0, <4>4 DEF Answer401, Set, Frames, Call
      <4>5. CASE Reauthenticate(t)
        BY <1>0, <4>5 DEF Reauthenticate, Set, Frames, Call
      <4>6. CASE ForgetToken(t) \/ DropHeader(t)
        BY <1>0, <4>6 DEF ForgetToken, DropHeader, Set, Frames, Call, NoCall
      <4>7. ASSUME NEW op \in Ops, StartCall(t, op) PROVE Set(t, c) /\ Frames(c) <= Frames(call[t])
        <5>1. c.pc = "enter" /\ c.retry = 0 /\ Set(t, c)
          BY <1>0, <4>7 DEF StartCall, Set, NoCall
        <5>2. Frames(c) = 0 /\ Frames(call[t]) \in 0..AuthRetries + 1
          BY <2>0, <5>1, FramesType DEF Frames
        <5> QED
          BY <5>1, <5>2, ClientAssumption
      <4> QED
        BY <2>3, <4>1, <4>2, <4>3, <4>4, <4>5, <4>6, <4>7
    <3>2. /\ client'.requests = client.requests
          /\ client'.errors = client.errors /\ client'.authFailed = client.authFailed
      <4>1. LET d == Limits(t, client) IN
              client' \in {client, Authenticated(client), d, [d EXCEPT !.token = FALSE],
                           [client EXCEPT !.token = FALSE], [client EXCEPT !.header = FALSE],
                           [client EXCEPT !.calls = @ + 1]}
        BY <2>3 DEF WakeUp, CheckToken, CopyHeaders, Serve, AnswerOk, Answer401, Reauthenticate,
                    ForgetToken, DropHeader, StartCall
      <4>2. Limits(t, client) \in Fields
        BY LimitsType
      <4> QED
        BY <2>0, <4>1, <4>2, LimitsType DEF Authenticated, Fields
    <3> QED
      BY <2>0, <3>1, <3>2, SameFrames
  <2>4. CASE Final401(t)
    <3>1. Cardinality(OpenFrames') = Cardinality(OpenFrames) - 1
      BY <2>4, RaiseFrames DEF Final401
    <3>2. /\ client'.requests = client.requests
          /\ client'.errors = client.errors + 2 /\ client'.authFailed = client.authFailed + 1
      <4> DEFINE d == Limits(t, client)
      <4>1. d \in Fields /\ client' = [d EXCEPT !.errors = @ + 2, !.authFailed = @ + 1]
        BY <2>4, LimitsType DEF Final401
      <4>2. d.errors = client.errors /\ d.requests = client.requests /\ d.authFailed = client.authFailed
        BY LimitsType
      <4> HIDE DEF d
      <4> QED
        BY <4>1, <4>2 DEF Fields
    <3> QED
      BY <1>0, <3>1, <3>2 DEF ErrorsInv
  <2>5. CASE AnswerError(t) \/ Unwind(t)
    <3>1. Cardinality(OpenFrames') = Cardinality(OpenFrames) - 1
      BY <2>5, RaiseFrames DEF AnswerError, Unwind
    <3>2. /\ client'.requests = client.requests
          /\ client'.errors = client.errors + 1 /\ client'.authFailed = client.authFailed
      <4> DEFINE d == Limits(t, client)
      <4>1. d \in Fields /\ client' \in {[d EXCEPT !.errors = @ + 1], [client EXCEPT !.errors = @ + 1]}
        BY <2>5, LimitsType DEF AnswerError, Unwind
      <4>2. d.errors = client.errors /\ d.requests = client.requests /\ d.authFailed = client.authFailed
        BY LimitsType
      <4> HIDE DEF d
      <4> QED
        BY <2>0, <4>1, <4>2 DEF Fields
    <3> QED
      BY <1>0, <3>1, <3>2 DEF ErrorsInv
  <2> QED
    BY <1>1, <2>2, <2>3, <2>4, <2>5 DEF CallStep
<1>2. ASSUME call' = call, client' = client PROVE ErrorsInv'
  BY <1>2 DEF ErrorsInv, OpenFrames, Frames
<1> QED
  BY <1>1, <1>2 DEF ClientNext, clientVars, TokenExpires, NextWindow

LEMMA ErrorsInit == ClientInit => ErrorsInv
<1> SUFFICES ASSUME ClientInit PROVE ErrorsInv
  OBVIOUS
<1>1. \A t \in Callers : Frames(call[t]) = 0
  BY DEF ClientInit, NoCall, Frames
<1>2. OpenFrames = {}
  BY <1>1 DEF OpenFrames
<1> QED
  BY <1>2, FS_EmptySet DEF ErrorsInv, ClientInit

LEMMA ErrorsInvMeans == CallsInv /\ ErrorsInv => ErrorsCounted
<1> SUFFICES ASSUME CallsInv, ErrorsInv PROVE ErrorsCounted
  OBVIOUS
<1>1. client.errors \in Nat /\ client.requests \in Nat /\ client.authFailed \in Nat
  BY DEF CallsInv, ClientTypeOK
<1> QED
  BY <1>1, OpenFramesFinite DEF ErrorsInv, ErrorsCounted
-----------------------------------------------------------------------------
(***************************************************************************)
(* Refusals.  A thread that is past the test of the limit will send, and   *)
(* may be refused; a thread that reads an answer will overwrite the limit  *)
(* and closes it or reopens it for the others.  A thread is one of these   *)
(* at a time.                                                              *)
(***************************************************************************)
Past(c) == c.pc \in {"auth", "copy", "send"} \/ (c.pc = "sleep" /\ c.resets <= api.window)
Reads(c) == c.pc = "wait" /\ c.answer # "lost"
UsedUp(c) == c.left <= 0 /\ c.resets > api.window

Role(c) == IF Past(c) THEN "past"
           ELSE IF Reads(c) THEN IF UsedUp(c) THEN "closing" ELSE "reopening"
           ELSE "none"

Having(r) == {t \in Callers : Role(call[t]) = r}
HowMany(r) == Cardinality(Having(r))
LimitOpen == ~(client.remaining <= 0 /\ client.reset > api.window)

\* The refusals still to come: the threads that can get past the test, now, or after each
\* of the readers that can reopen the limit, which cannot get past it itself by then.
Potential ==
    LET N == Cardinality(Callers)
        k == HowMany("reopening")
    IN (IF LimitOpen THEN 2 * (N - k - HowMany("closing")) ELSE 2 * HowMany("past"))
       + k * (2 * N - k + 1)

RefusalsInv ==
    /\ api.refused > 0 => api.left = 0 /\ api.window < LastWindow
    /\ 2 * api.refused + Potential <= Cardinality(Callers) * (Cardinality(Callers) + 1)

RolesAdd ==
    /\ Cardinality(Callers) \in Nat
    /\ \A r : HowMany(r) \in Nat
    /\ HowMany("past") + HowMany("closing") + HowMany("reopening") <= Cardinality(Callers)

LEMMA HowManySum == RolesAdd
<1>1. IsFiniteSet(Callers)
  BY ClientAssumption
<1>2. \A r : Having(r) \subseteq Callers
  BY DEF Having
<1>3. \A r : IsFiniteSet(Having(r)) /\ HowMany(r) \in Nat
  BY <1>1, <1>2, FS_Subset, FS_CardinalityType DEF HowMany
<1> DEFINE two == Having("past") \cup Having("closing")
           all == two \cup Having("reopening")
<1>4. Having("past") \cap Having("closing") = {} /\ two \cap Having("reopening") = {}
  BY DEF Having
<1>5. IsFiniteSet(two) /\ Cardinality(two) = HowMany("past") + HowMany("closing")
  BY <1>3, <1>4, FS_Union, FS_EmptySet DEF HowMany
<1>6. Cardinality(all) = Cardinality(two) + HowMany("reopening")
  <2> HIDE DEF two
  <2> QED
    BY <1>3, <1>4, <1>5, FS_Union, FS_EmptySet DEF HowMany
<1>7. Cardinality(all) <= Cardinality(Callers)
  BY <1>1, <1>2, FS_Subset
<1> QED
  BY <1>1, <1>3, <1>5, <1>6, <1>7, FS_CardinalityType DEF RolesAdd

\* A thread that moves changes the count of the role it leaves and of the one it takes.
LEMMA HowManyStep ==
  ASSUME CallsInv, NEW t \in Callers, NEW c \in Call, Set(t, c), api'.window = api.window, NEW r
  PROVE  HowMany(r)' = (HowMany(r) - (IF Role(call[t]) = r THEN 1 ELSE 0)) + (IF Role(c) = r THEN 1 ELSE 0)
<1>1. Moves(t, c)
  BY SetMoves DEF CallsInv
<1>2. Having(r)' = IF Role(c) = r THEN (Having(r) \ {t}) \cup {t} ELSE Having(r) \ {t}
  BY <1>1 DEF Having, Moves, Role, Past, Reads, UsedUp
<1>3. IsFiniteSet(Having(r)) /\ HowMany(r) \in Nat
  BY ClientAssumption, FS_Subset, FS_CardinalityType DEF Having, HowMany
<1>4. /\ IsFiniteSet(Having(r) \ {t}) /\ t \notin Having(r) \ {t}
      /\ Cardinality(Having(r) \ {t}) = HowMany(r) - (IF Role(call[t]) = r THEN 1 ELSE 0)
  BY <1>3, FS_RemoveElement DEF Having, HowMany
<1>5. Cardinality((Having(r) \ {t}) \cup {t}) = Cardinality(Having(r) \ {t}) + 1
  BY <1>4, FS_AddElement
<1>6. Cardinality(Having(r) \ {t}) \in Nat
  BY <1>4, FS_CardinalityType
<1> QED
  BY <1>2, <1>4, <1>5, <1>6 DEF HowMany

\* Before the first refusal there is room for all of them.
LEMMA RoomForAll ==
  ASSUME NEW N \in Nat, NEW k \in Nat, NEW c \in Nat, NEW p \in Nat, p + c + k <= N
  PROVE  /\ 2 * (N - k - c) + k * (2 * N - k + 1) <= N * (N + 1)
         /\ 2 * p + k * (2 * N - k + 1) <= N * (N + 1)
<1> DEFINE d == N - k
<1>1. d \in Nat /\ N = d + k
  OBVIOUS
<1>2. d * d >= d
  BY <1>1
<1>3. k * (2 * N - k + 1) = 2 * (k * d) + k * k + k
  BY <1>1
<1>4. N * (N + 1) = d * d + 2 * (k * d) + k * k + d + k
  BY <1>1
<1>5. k * d \in Int /\ k * k \in Int /\ d * d \in Int
  BY <1>1
<1> QED
  BY <1>1, <1>2, <1>3, <1>4, <1>5

\* A reader that reopens pays for the threads that it lets pass.
LEMMA ReopenPays ==
  ASSUME NEW N \in Nat, NEW k \in Nat, k >= 1, k <= N
  PROVE  2 * (N - k + 1) + (k - 1) * (2 * N - (k - 1) + 1) = k * (2 * N - k + 1)
OBVIOUS
\* What a step of thread t does to its role, the limit and the refusals, in a window
\* that has refused.
Turn(t) ==
    LET from == Role(call[t])
        to == Role(call[t])'
        same == api'.refused = api.refused
    IN \/ same /\ from = to /\ LimitOpen' = LimitOpen
       \/ same /\ from = "none" /\ to = "past" /\ LimitOpen /\ LimitOpen'
       \/ api'.refused = api.refused + 1 /\ from = "past" /\ to = "closing" /\ LimitOpen' = LimitOpen
       \/ same /\ from = "past" /\ to = "none" /\ LimitOpen' = LimitOpen
       \/ same /\ from = "closing" /\ to = "none" /\ ~LimitOpen'
       \/ same /\ from = "reopening" /\ to = "none" /\ LimitOpen'

\* Reading an answer sets the limit as the role of the reader says.
LEMMA ReadTurns ==
  ASSUME CallsInv, NEW t \in Callers, call[t].pc = "wait",
         call'[t].pc \in {"idle", "ok", "reauth", "unwind"},
         client'.remaining = Limits(t, client).remaining,
         client'.reset = Limits(t, client).reset, UNCHANGED api
  PROVE  Turn(t)
<1>1. client \in Fields /\ call[t] \in Call
  BY CallFacts
<1>2. Role(call[t])' = "none"
  BY DEF Role, Past, Reads
<1>3. CASE call[t].answer = "lost"
  BY <1>2, <1>3 DEF Limits, Role, Past, Reads, Turn, LimitOpen
<1>4. CASE call[t].answer # "lost"
  <2>1. client'.remaining = call[t].left /\ client'.reset = call[t].resets
    BY <1>1, <1>4 DEF Limits, Fields
  <2>2. LimitOpen' = ~UsedUp(call[t])
    BY <2>1 DEF LimitOpen, UsedUp
  <2> QED
    BY <1>2, <1>4, <2>2 DEF Role, Past, Reads, Turn
<1> QED
  BY <1>3, <1>4

LEMMA RaiseReads ==
  ASSUME CallsInv, NEW t \in Callers, FrameRaises(t)
  PROVE  call'[t].pc \in {"idle", "unwind"}
BY CallFacts DEF FrameRaises, Set, NoCall, CallsInv, ClientTypeOK

LEMMA Turns ==
  ASSUME CallsInv, RefusalsInv, api'.refused > 0, NEW t \in Callers,
         CallStep(t) \/ \E op \in Ops : StartCall(t, op)
  PROVE  Turn(t) /\ api'.window = api.window /\ api'.left = 0 /\ api.window < LastWindow
<1>0. /\ call \in [Callers -> Call] /\ call[t] \in Call /\ client \in Fields /\ api \in Server
      /\ LimitOpen \in BOOLEAN
  BY CallFacts DEF CallsInv, ClientTypeOK, Call, LimitOpen
<1>1. ASSUME UNCHANGED api PROVE api'.window = api.window /\ api'.left = 0 /\ api.window < LastWindow
  BY <1>1 DEF RefusalsInv
<1>2. CASE EnterRequest(t)
  <2>1. /\ UNCHANGED api /\ client'.remaining = client.remaining /\ client'.reset = client.reset
        /\ call[t].pc = "enter"
        /\ call'[t].pc = IF LimitOpen THEN "auth" ELSE "sleep"
        /\ call'[t].resets = client.reset
    BY <1>0, <1>2 DEF EnterRequest, Set, Call, Fields, LimitOpen
  <2>2. LimitOpen' = LimitOpen /\ Role(call[t]) = "none"
    BY <2>1 DEF LimitOpen, Role, Past, Reads
  <2>3. CASE LimitOpen
    BY <1>1, <2>1, <2>2, <2>3 DEF Turn, Role, Past
  <2>4. CASE ~LimitOpen
    <3>1. ~(client.reset <= api.window)
      BY <1>0, <2>4 DEF LimitOpen, Fields, Server
    <3>2. Role(call[t])' = "none"
      BY <2>1, <2>4, <3>1 DEF Role, Past, Reads
    <3> QED
      BY <1>1, <2>1, <2>2, <3>2 DEF Turn
  <2> QED
    BY <2>3, <2>4
<1>3. CASE WakeUp(t) \/ CheckToken(t) \/ CopyHeaders(t)
  <2>1. UNCHANGED api /\ client'.remaining = client.remaining /\ client'.reset = client.reset
    BY <1>0, <1>3 DEF WakeUp, CheckToken, CopyHeaders, Authenticated, Fields
  <2>2. Past(call[t]) /\ call'[t].pc \in {"auth", "copy", "send"}
    <3>1. CASE WakeUp(t)
      BY <1>0, <3>1 DEF WakeUp, Set, Past, Call, Server
    <3>2. CASE CheckToken(t) \/ CopyHeaders(t)
      BY <1>0, <3>2, ZenonT(30) DEF CheckToken, CopyHeaders, Set, Past, Call
    <3> QED
      BY <1>3, <3>1, <3>2
  <2>3. Role(call[t]) = "past" /\ Role(call[t])' = "past" /\ LimitOpen' = LimitOpen
    BY <2>1, <2>2 DEF Role, Past, LimitOpen
  <2> QED
    BY <1>1, <2>1, <2>3 DEF Turn
<1>4. CASE Serve(t)
  <2> DEFINE left == IF api.left = 0 THEN 0 ELSE api.left - 1
  <2>1. PICK a \in Answers \ {"none"} :
          /\ (api.left = 0 /\ api.window < LastWindow) => a \in {"limited", "lost"}
          /\ ~(api.left = 0 /\ api.window < LastWindow) => a # "limited"
          /\ call'[t].pc = "wait" /\ call'[t].answer = a
          /\ call'[t].left = (IF api.window = LastWindow THEN WindowBudget ELSE left)
          /\ call'[t].resets = api.window + 1
          /\ api'.left = left /\ api'.window = api.window
          /\ api'.refused = IF a = "limited" THEN api.refused + 1 ELSE api.refused
    BY <1>0, <1>4 DEF Serve, Set, Call, Server
  <2>2. call[t].pc = "send" /\ UNCHANGED client
    BY <1>4 DEF Serve
  <2>3. api.left = 0 /\ api.window < LastWindow /\ a \in {"limited", "lost"}
    BY <1>0, <2>1 DEF RefusalsInv, Server
  <2>4. api'.left = 0 /\ LimitOpen' = LimitOpen /\ Role(call[t]) = "past"
    BY <2>1, <2>2, <2>3 DEF LimitOpen, Role, Past
  <2>5. CASE a = "limited"
    <3>1. UsedUp(call[t])'
      BY <1>0, <2>1, <2>3, ClientAssumption DEF UsedUp, Server
    <3>2. Role(call[t])' = "closing"
      BY <2>1, <2>5, <3>1 DEF Role, Past, Reads
    <3> QED
      BY <2>1, <2>3, <2>4, <2>5, <3>2 DEF Turn
  <2>6. CASE a = "lost"
    <3>1. Role(call[t])' = "none"
      BY <2>1, <2>6 DEF Role, Past, Reads
    <3> QED
      BY <2>1, <2>3, <2>4, <2>6, <3>1 DEF Turn
  <2> QED
    BY <2>3, <2>5, <2>6
<1>5. CASE AnswerOk(t) \/ Answer401(t) \/ Final401(t) \/ AnswerError(t)
  <2> DEFINE d == Limits(t, client)
  <2>1. d \in Fields
    BY LimitsType
  <2>2. /\ call[t].pc = "wait" /\ UNCHANGED api
        /\ client' \in {d, [d EXCEPT !.token = FALSE], [d EXCEPT !.errors = @ + 1],
                        [d EXCEPT !.errors = @ + 2, !.authFailed = @ + 1]}
    BY <1>5 DEF AnswerOk, Answer401, Final401, AnswerError
  <2>3. client'.remaining = d.remaining /\ client'.reset = d.reset
    <3> HIDE DEF d
    <3> QED
      BY <2>1, <2>2 DEF Fields
  <2>4. call'[t].pc \in {"idle", "ok", "reauth", "unwind"}
    <3>1. CASE AnswerOk(t)
      BY <1>0, <3>1 DEF AnswerOk, Set, NoCall
    <3>2. CASE Answer401(t)
      BY <1>0, <3>2 DEF Answer401, Set, Call
    <3>3. CASE Final401(t) \/ AnswerError(t)
      BY <3>3, RaiseReads DEF Final401, AnswerError
    <3> QED
      BY <1>5, <3>1, <3>2, <3>3
  <2> QED
    BY <1>1, <2>2, <2>3, <2>4, ReadTurns
<1>6. CASE Reauthenticate(t) \/ Unwind(t) \/ ForgetToken(t) \/ DropHeader(t) \/ \E op \in Ops : StartCall(t, op)
  <2>1. UNCHANGED api
    BY <1>6 DEF Reauthenticate, Unwind, ForgetToken, DropHeader, StartCall
  <2>2. client' \in {Authenticated(client), [client EXCEPT !.errors = @ + 1],
                     [client EXCEPT !.token = FALSE], [client EXCEPT !.header = FALSE],
                     [client EXCEPT !.calls = @ + 1]}
    BY <1>6 DEF Reauthenticate, Unwind, ForgetToken, DropHeader, StartCall
  <2>3. client'.remaining = client.remaining /\ client'.reset = client.reset
    BY <1>0, <2>2 DEF Authenticated, Fields
  <2>4. /\ call[t].pc \in {"reauth", "unwind", "ok", "cleared", "idle"}
        /\ call'[t].pc \in {"enter", "idle", "unwind", "cleared"}
    <3>1. CASE Reauthenticate(t)
      BY <1>0, <3>1 DEF Reauthenticate, Set, Call
    <3>2. CASE Unwind(t)
      BY <3>2, RaiseReads DEF Unwind
    <3>3. CASE ForgetToken(t)
      BY <1>0, <3>3 DEF ForgetToken, Set, Call
    <3>4. CASE DropHeader(t)
      BY <1>0, <3>4 DEF DropHeader, Set, NoCall
    <3>5. ASSUME NEW op \in Ops, StartCall(t, op)
          PROVE  call[t].pc = "idle" /\ call'[t].pc = "enter"
      BY <1>0, <3>5 DEF StartCall, Set, NoCall
    <3> QED
      BY <1>6, <3>1, <3>2, <3>3, <3>4, <3>5
  <2>5. Role(call[t]) = "none" /\ Role(call[t])' = "none" /\ LimitOpen' = LimitOpen
    BY <2>3, <2>1, <2>4 DEF Role, Past, Reads, LimitOpen
  <2> QED
    BY <1>1, <2>1, <2>5 DEF Turn
<1> QED
  BY <1>2, <1>3, <1>4, <1>5, <1>6 DEF CallStep
LEMMA TurnKeeps ==
  ASSUME CallsInv, CallsInv', RefusalsInv, NEW t \in Callers, Turn(t), api'.window = api.window,
         \E c : Set(t, c)
  PROVE  2 * api'.refused + Potential' <= Cardinality(Callers) * (Cardinality(Callers) + 1)
<1> DEFINE N == Cardinality(Callers)
           k == HowMany("reopening")
           h == HowMany("closing")
           p == HowMany("past")
<1>1. PICK c : Set(t, c)
  OBVIOUS
<1>2. c = call'[t] /\ c \in Call
  BY <1>1 DEF Set, CallsInv, ClientTypeOK, Call
<1>3. Role(c) = Role(call[t])'
  BY <1>2 DEF Role, Past, Reads, UsedUp
<1>4. /\ k' = (k - (IF Role(call[t]) = "reopening" THEN 1 ELSE 0)) + (IF Role(c) = "reopening" THEN 1 ELSE 0)
      /\ h' = (h - (IF Role(call[t]) = "closing" THEN 1 ELSE 0)) + (IF Role(c) = "closing" THEN 1 ELSE 0)
      /\ p' = (p - (IF Role(call[t]) = "past" THEN 1 ELSE 0)) + (IF Role(c) = "past" THEN 1 ELSE 0)
  BY <1>1, <1>2, HowManyStep
<1>5. N \in Nat /\ k \in Nat /\ h \in Nat /\ p \in Nat /\ p + h + k <= N
  BY HowManySum DEF RolesAdd
<1>6. k' \in Nat /\ h' \in Nat /\ p' \in Nat
  <2>1. RolesAdd'
    BY HowManySum, PTL
  <2> QED
    BY <2>1 DEF RolesAdd
<1>7. api.refused \in Nat
  BY CallFacts DEF Server
<1>8. Potential = (IF LimitOpen THEN 2 * (N - k - h) ELSE 2 * p) + k * (2 * N - k + 1)
  BY DEF Potential
<1>9. Potential' = (IF LimitOpen' THEN 2 * (N - k' - h') ELSE 2 * p') + k' * (2 * N - k' + 1)
  BY DEF Potential
<1>10. 2 * api.refused + Potential <= N * (N + 1)
  BY DEF RefusalsInv
<1> HIDE DEF N, k, h, p
<1> DEFINE w == k * (2 * N - k + 1)
           b == N * (N + 1)
<1>11. w \in Int /\ b \in Int
  BY <1>5
<1>19. api'.refused \in Nat /\ 2 * api.refused + Potential <= b
  BY <1>10 DEF CallsInv, ClientTypeOK
<1> USE <1>19
<1> SUFFICES 2 * api'.refused + Potential' <= b
  BY DEF N
<1> HIDE DEF b
<1>12. CASE api'.refused = api.refused /\ Role(call[t]) = Role(c) /\ LimitOpen' = LimitOpen
  <2>1. k' = k /\ h' = h /\ p' = p
    BY <1>4, <1>5, <1>12
  <2>2. Potential' = Potential
    BY <1>8, <1>9, <1>12, <2>1
  <2> QED
    BY <1>12, <2>2
<1>13. CASE /\ api'.refused = api.refused /\ Role(call[t]) = "none" /\ Role(c) = "past"
            /\ LimitOpen /\ LimitOpen'
  <2>1. k' = k /\ h' = h
    BY <1>4, <1>5, <1>13
  <2>2. Potential' = Potential
    BY <1>8, <1>9, <1>13, <2>1
  <2> QED
    BY <1>13, <2>2
<1>14. CASE /\ api'.refused = api.refused + 1 /\ Role(call[t]) = "past" /\ Role(c) = "closing"
            /\ LimitOpen' = LimitOpen
  <2>1. k' = k /\ h' = h + 1 /\ p' = p - 1
    BY <1>4, <1>5, <1>14
  <2>2. Potential' = (IF LimitOpen THEN 2 * (N - k - (h + 1)) ELSE 2 * (p - 1)) + w
    BY <1>9, <1>14, <2>1
  <2> HIDE DEF w
  <2>3. Potential = (IF LimitOpen THEN 2 * (N - k - h) ELSE 2 * p) + w
    BY <1>8 DEF w
  <2> QED
    BY <1>5, <1>7, <1>11, <1>14, <2>2, <2>3
<1>15. CASE /\ api'.refused = api.refused /\ Role(call[t]) = "past" /\ Role(c) = "none"
            /\ LimitOpen' = LimitOpen
  <2>1. k' = k /\ h' = h /\ p' = p - 1
    BY <1>4, <1>5, <1>15
  <2>2. Potential' = (IF LimitOpen THEN 2 * (N - k - h) ELSE 2 * (p - 1)) + w
    BY <1>9, <1>15, <2>1
  <2> HIDE DEF w
  <2>3. Potential = (IF LimitOpen THEN 2 * (N - k - h) ELSE 2 * p) + w
    BY <1>8 DEF w
  <2> QED
    BY <1>5, <1>7, <1>11, <1>15, <2>2, <2>3
<1>16. CASE /\ api'.refused = api.refused /\ Role(call[t]) = "closing" /\ Role(c) = "none"
            /\ ~LimitOpen'
  <2>1. k' = k /\ p' = p /\ p <= N - k - h
    BY <1>4, <1>5, <1>16
  <2>2. Potential' = 2 * p + w
    BY <1>9, <1>16, <2>1
  <2> HIDE DEF w
  <2>3. Potential = (IF LimitOpen THEN 2 * (N - k - h) ELSE 2 * p) + w
    BY <1>8 DEF w
  <2> QED
    BY <1>5, <1>7, <1>11, <1>16, <2>1, <2>2, <2>3
<1>17. CASE /\ api'.refused = api.refused /\ Role(call[t]) = "reopening" /\ Role(c) = "none"
            /\ LimitOpen'
  <2>1. k' = k - 1 /\ h' = h
    BY <1>4, <1>5, <1>17
  <2>2. k >= 1
    BY <1>5, <1>6, <2>1
  <2> DEFINE v == (k - 1) * (2 * N - (k - 1) + 1)
  <2>3. v \in Int /\ 2 * (N - k + 1) + v = w
    BY <1>5, <2>2, ReopenPays
  <2>4. Potential' = 2 * (N - (k - 1) - h) + v
    BY <1>9, <1>17, <2>1
  <2> HIDE DEF w, v
  <2>5. Potential = (IF LimitOpen THEN 2 * (N - k - h) ELSE 2 * p) + w
    BY <1>8 DEF w
  <2>6. Potential >= w
    BY <1>5, <1>11, <2>5
  <2> QED
    BY <1>5, <1>7, <1>11, <1>17, <2>3, <2>4, <2>5, <2>6
<1> QED
  BY <1>3, <1>12, <1>13, <1>14, <1>15, <1>16, <1>17 DEF Turn

LEMMA RefusalsNext == CallsInv /\ RefusalsInv /\ [ClientNext]_clientVars => RefusalsInv'
<1> SUFFICES ASSUME CallsInv, RefusalsInv, [ClientNext]_clientVars PROVE RefusalsInv'
  OBVIOUS
<1>0. CallsInv' /\ api'.refused \in Nat /\ api \in Server
  BY CallsNext, CallFacts DEF CallsInv, ClientTypeOK, Server
<1>1. CASE api'.refused = 0
  <2>1. /\ HowMany("past")' \in Nat /\ HowMany("closing")' \in Nat /\ HowMany("reopening")' \in Nat
        /\ HowMany("past")' + HowMany("closing")' + HowMany("reopening")' <= Cardinality(Callers)
        /\ Cardinality(Callers) \in Nat
    <3>1. RolesAdd'
      BY HowManySum, PTL
    <3> QED
      BY <3>1 DEF RolesAdd
  <2>2. Potential' <= Cardinality(Callers) * (Cardinality(Callers) + 1)
    BY <2>1, RoomForAll DEF Potential
  <2>3. Potential' \in Int
    BY <2>1 DEF Potential
  <2>4. Cardinality(Callers) * (Cardinality(Callers) + 1) \in Int
    BY <2>1
  <2> QED
    BY <1>1, <2>2, <2>3, <2>4 DEF RefusalsInv
<1>2. CASE api'.refused > 0
  <2>1. ASSUME NEW t \in Callers, CallStep(t) \/ \E op \in Ops : StartCall(t, op) PROVE RefusalsInv'
    <3>1. Turn(t) /\ api'.window = api.window /\ api'.left = 0 /\ api.window < LastWindow
      BY <1>2, <2>1, Turns
    <3>2. \E c : Set(t, c)
      BY <2>1 DEF CallStep, StartCall, EnterRequest, WakeUp, CheckToken, CopyHeaders, Serve, AnswerOk,
                  Answer401, Reauthenticate, Final401, AnswerError, Unwind, ForgetToken, DropHeader,
                  FrameRaises
    <3> QED
      BY <1>0, <3>1, <3>2, TurnKeeps DEF RefusalsInv
  <2>2. CASE TokenExpires \/ UNCHANGED clientVars
    <3>1. /\ client' = client /\ call' = call /\ api'.window = api.window
          /\ api'.refused = api.refused /\ api'.left = api.left
      BY <1>0, <2>2 DEF TokenExpires, clientVars, Server
    <3>2. Potential' = Potential
      BY <3>1 DEF Potential, HowMany, Having, Role, Past, Reads, UsedUp, LimitOpen
    <3> QED
      BY <3>1, <3>2 DEF RefusalsInv
  <2>3. NextWindow => api'.refused = 0
    BY <1>0 DEF NextWindow, Server
  <2> QED
    BY <2>1, <2>2, <2>3, <1>2 DEF ClientNext
<1> QED
  BY <1>0, <1>1, <1>2

LEMMA RefusalsInit == ClientInit => RefusalsInv
<1> SUFFICES ASSUME ClientInit PROVE RefusalsInv
  OBVIOUS
<1>1. api.refused = 0
  BY DEF ClientInit
<1>2. /\ HowMany("past") \in Nat /\ HowMany("closing") \in Nat /\ HowMany("reopening") \in Nat
      /\ HowMany("past") + HowMany("closing") + HowMany("reopening") <= Cardinality(Callers)
      /\ Cardinality(Callers) \in Nat
  BY HowManySum DEF RolesAdd
<1>3. Potential <= Cardinality(Callers) * (Cardinality(Callers) + 1)
  BY <1>2, RoomForAll DEF Potential
<1>4. Potential \in Int /\ Cardinality(Callers) * (Cardinality(Callers) + 1) \in Int
  BY <1>2 DEF Potential
<1> QED
  BY <1>1, <1>3, <1>4 DEF RefusalsInv

LEMMA RefusalsInvMeans == CallsInv /\ RefusalsInv => RefusalsBounded
<1> SUFFICES ASSUME CallsInv, RefusalsInv PROVE RefusalsBounded
  OBVIOUS
<1> DEFINE N == Cardinality(Callers)
           k == HowMany("reopening")
<1>1. /\ HowMany("past") \in Nat /\ HowMany("closing") \in Nat /\ k \in Nat /\ N \in Nat
      /\ HowMany("past") + HowMany("closing") + k <= N
  BY HowManySum DEF RolesAdd
<1>2. k * (2 * N - k + 1) \in Nat
  <2>1. 2 * N - k + 1 \in Nat
    BY <1>1
  <2> QED
    BY <1>1, <2>1
<1>3. Potential >= 0 /\ Potential \in Int
  BY <1>1, <1>2 DEF Potential
<1>4. api.refused \in Nat /\ N * (N + 1) \in Int
  BY <1>1, CallFacts DEF CallsInv, ClientTypeOK
<1> QED
  BY <1>3, <1>4 DEF RefusalsInv, RefusalsBounded

THEOREM CallsAccountedFor == ClientSpec => []CallsAccounted
<1>1. ClientInit => CallsInv /\ ErrorsInv /\ RefusalsInv
  BY CallsInit, ErrorsInit, RefusalsInit
<1>2. CallsInv /\ ErrorsInv /\ RefusalsInv /\ [ClientNext]_clientVars
        => (CallsInv /\ ErrorsInv /\ RefusalsInv)'
  BY CallsNext, ErrorsNext, RefusalsNext
<1>3. CallsInv /\ ErrorsInv /\ RefusalsInv => CallsAccounted
  BY CallsInvMeans, ErrorsInvMeans, RefusalsInvMeans DEF CallsAccounted
<1> QED
  BY <1>1, <1>2, <1>3, PTL DEF ClientSpec

-----------------------------------------------------------------------------
(***************************************************************************)
(* Calls under one retry policy.  The list of the policy only grows, and   *)
(* has the two classes that make a failure of the service retryable.       *)
(***************************************************************************)
RetryRecord == [state : {"idle", "calls", "sleeps"}, attempt : Nat, calls : Nat,
                raised : RaisedErrors \cup {"none"}]

RetryFine(c) ==
    /\ c.attempt <= MaxRetries /\ c.calls <= MaxRetries + 1
    /\ c.state # "idle" => c.calls = c.attempt + 1 /\ c.raised = "none"
    /\ c.state = "sleeps" => c.attempt < MaxRetries
    /\ c.raised \in {"timeout", "HTTPError 503", "HTTPError 404"} => c.calls = MaxRetries + 1

RetryInv ==
    /\ {"Timeout", "HTTPError"} \subseteq retryOn
    /\ retryCall \in [RetryCallers -> RetryRecord]
    /\ \A t \in RetryCallers : RetryFine(retryCall[t])

\* What the service raises is retryable, whatever the threads added to the list.
LEMMA ServiceErrorsRetryable ==
  ASSUME RetryInv, NEW e \in {"timeout", "HTTPError 503", "HTTPError 404"}
  PROVE  Retryable(e)
BY DEF RetryInv, Retryable, Classes

LEMMA RetryInitial == RetryInit => RetryInv
<1> SUFFICES ASSUME RetryInit PROVE RetryInv
  OBVIOUS
<1>1. NoRetryCall \in RetryRecord /\ RetryFine(NoRetryCall)
  <2>1. /\ NoRetryCall \in RetryRecord /\ NoRetryCall.attempt = 0 /\ NoRetryCall.calls = 0
        /\ NoRetryCall.state = "idle" /\ NoRetryCall.raised = "none"
    BY DEF NoRetryCall, RetryRecord
  <2> QED
    BY <2>1, RetryAssumption DEF RetryFine
<1> QED
  BY <1>1 DEF RetryInit, RetryInv

LEMMA RetryStep == RetryInv /\ [RetryNext]_retryVars => RetryInv'
<1> SUFFICES ASSUME RetryInv, [RetryNext]_retryVars PROVE RetryInv'
  OBVIOUS
<1> USE RetryAssumption
<1>1. ASSUME NEW t \in RetryCallers, NEW c \in RetryRecord, RetryFine(c),
             retryCall' = [retryCall EXCEPT ![t] = c], retryOn \subseteq retryOn'
      PROVE  RetryInv'
  BY <1>1 DEF RetryInv
<1>2. \A t \in RetryCallers : retryCall[t] \in RetryRecord /\ RetryFine(retryCall[t])
  BY DEF RetryInv
<1>3. ASSUME NEW t \in RetryCallers, NEW m \in WrappedMethods, CallBegins(t, m) PROVE RetryInv'
  <2>1. PICK c : c = [NoRetryCall EXCEPT !.state = "calls", !.calls = 1]
    OBVIOUS
  <2>2. retryCall[t] \in RetryRecord /\ RetryFine(retryCall[t])
    BY <1>2
  <2>4. /\ c \in RetryRecord
        /\ c.attempt = 0 /\ c.calls = 1 /\ c.state = "calls" /\ c.raised = "none"
    BY <2>1 DEF NoRetryCall, RetryRecord
  <2>5. RetryFine(c)
    BY <2>4, RetryAssumption DEF RetryFine
  <2>6. retryCall' = [retryCall EXCEPT ![t] = c] /\ retryOn \subseteq retryOn'
    BY <1>3, <2>1 DEF CallBegins
  <2> QED
    BY <1>1, <2>4, <2>5, <2>6
<1>4. ASSUME NEW t \in RetryCallers, CallReturns(t) PROVE RetryInv'
  <2>1. PICK c : c = [retryCall[t] EXCEPT !.state = "idle"]
    OBVIOUS
  <2>2. retryCall[t] \in RetryRecord /\ RetryFine(retryCall[t])
    BY <1>2
  <2>7. retryCall[t].state = "calls"
    BY <1>4 DEF CallReturns
  <2>4. /\ c \in RetryRecord
        /\ c.attempt = retryCall[t].attempt /\ c.calls = retryCall[t].calls
        /\ c.state = "idle" /\ c.raised = retryCall[t].raised
    BY <2>1, <2>2 DEF RetryRecord
  <2>5. RetryFine(c)
    BY <2>2, <2>4, <2>7, RetryAssumption DEF RetryFine
  <2>6. retryCall' = [retryCall EXCEPT ![t] = c] /\ retryOn \subseteq retryOn'
    BY <1>4, <2>1 DEF CallReturns
  <2> QED
    BY <1>1, <2>4, <2>5, <2>6
<1>5. ASSUME NEW t \in RetryCallers, NEW e \in RaisedErrors, CallSleeps(t, e) PROVE RetryInv'
  <2>1. PICK c : c = [retryCall[t] EXCEPT !.state = "sleeps"]
    OBVIOUS
  <2>2. retryCall[t] \in RetryRecord /\ RetryFine(retryCall[t])
    BY <1>2
  <2>7. retryCall[t].state = "calls"
    BY <1>5 DEF CallSleeps
  <2>3. retryCall[t].attempt < MaxRetries
    BY <1>5 DEF CallSleeps, should_retry
  <2>4. /\ c \in RetryRecord
        /\ c.attempt = retryCall[t].attempt /\ c.calls = retryCall[t].calls
        /\ c.state = "sleeps" /\ c.raised = retryCall[t].raised
    BY <2>1, <2>2 DEF RetryRecord
  <2>5. RetryFine(c)
    BY <2>2, <2>3, <2>4, <2>7, RetryAssumption DEF RetryFine
  <2>6. retryCall' = [retryCall EXCEPT ![t] = c] /\ retryOn \subseteq retryOn'
    BY <1>5, <2>1 DEF CallSleeps
  <2> QED
    BY <1>1, <2>4, <2>5, <2>6
<1>6. ASSUME NEW t \in RetryCallers, CallsAgain(t) PROVE RetryInv'
  <2>1. PICK c : c = [retryCall[t] EXCEPT !.state = "calls", !.attempt = @ + 1, !.calls = @ + 1]
    OBVIOUS
  <2>2. retryCall[t] \in RetryRecord /\ RetryFine(retryCall[t])
    BY <1>2
  <2>7. retryCall[t].state = "sleeps"
    BY <1>6 DEF CallsAgain
  <2>3. retryCall[t].attempt + 1 \in Nat /\ retryCall[t].calls + 1 \in Nat
        /\ retryCall[t].attempt \in Nat /\ retryCall[t].calls \in Nat
    BY <2>2 DEF RetryRecord
  <2>4. /\ c \in RetryRecord
        /\ c.attempt = retryCall[t].attempt + 1 /\ c.calls = retryCall[t].calls + 1
        /\ c.state = "calls" /\ c.raised = retryCall[t].raised
    BY <2>1, <2>2, <2>3 DEF RetryRecord
  <2>5. RetryFine(c)
    <3>1. /\ retryCall[t].calls = retryCall[t].attempt + 1 /\ retryCall[t].raised = "none"
          /\ retryCall[t].attempt < MaxRetries
      BY <2>2, <2>7 DEF RetryFine
    <3>2. c.attempt <= MaxRetries /\ c.calls <= MaxRetries + 1 /\ c.calls = c.attempt + 1
      BY <2>3, <2>4, <3>1, RetryAssumption
    <3> QED
      BY <2>4, <3>1, <3>2 DEF RetryFine
  <2>6. retryCall' = [retryCall EXCEPT ![t] = c] /\ retryOn \subseteq retryOn'
    BY <1>6, <2>1 DEF CallsAgain
  <2> QED
    BY <1>1, <2>4, <2>5, <2>6
<1>7. ASSUME NEW t \in RetryCallers, NEW e \in RaisedErrors, CallGivesUp(t, e) PROVE RetryInv'
  <2>1. PICK c : c = [retryCall[t] EXCEPT !.state = "idle", !.raised = e]
    OBVIOUS
  <2>2. retryCall[t] \in RetryRecord /\ RetryFine(retryCall[t])
    BY <1>2
  <2>3. e \in {"timeout", "HTTPError 503", "HTTPError 404"} => ~(retryCall[t].attempt < MaxRetries)
    BY <1>7, ServiceErrorsRetryable DEF CallGivesUp, should_retry
  <2>7. retryCall[t].state = "calls"
    BY <1>7 DEF CallGivesUp
  <2>8. retryCall[t].attempt \in Nat /\ retryCall[t].calls \in Nat
    BY <2>2 DEF RetryRecord
  <2>4. /\ c \in RetryRecord
        /\ c.attempt = retryCall[t].attempt /\ c.calls = retryCall[t].calls
        /\ c.state = "idle" /\ c.raised = e
    BY <2>1, <2>2 DEF RetryRecord
  <2>5. RetryFine(c)
    <3>1. /\ retryCall[t].calls = retryCall[t].attempt + 1 /\ retryCall[t].attempt <= MaxRetries
          /\ retryCall[t].calls <= MaxRetries + 1
      BY <2>2, <2>7 DEF RetryFine
    <3>2. ASSUME e \in {"timeout", "HTTPError 503", "HTTPError 404"} PROVE c.calls = MaxRetries + 1
      <4>1. ~(retryCall[t].attempt < MaxRetries)
        BY <2>3, <3>2
      <4>2. retryCall[t].calls = MaxRetries + 1
        BY <2>8, <3>1, <4>1, RetryAssumption
      <4> QED
        BY <2>4, <4>2
    <3> QED
      BY <2>4, <3>1, <3>2 DEF RetryFine
  <2>6. retryCall' = [retryCall EXCEPT ![t] = c] /\ retryOn \subseteq retryOn'
    BY <1>7, <2>1 DEF CallGivesUp
  <2> QED
    BY <1>1, <2>4, <2>5, <2>6
<1>8. CASE UNCHANGED retryVars
  BY <1>8 DEF RetryInv, retryVars
<1> QED
  BY <1>3, <1>4, <1>5, <1>6, <1>7, <1>8 DEF RetryNext

LEMMA RetryInvMeans == RetryInv => RetriesSound
BY DEF RetryInv, RetryFine, RetriesSound

\* RetriesSound for every number of threads and retries: however the wrappers extend the
\* policy they share, a method is called at most MaxRetries + 1 times, and as often as that
\* before a failure of the service is raised.
THEOREM RetriesAreSound == RetrySpec => []RetriesSound
<1> QED
  BY RetryInitial, RetryStep, RetryInvMeans, PTL DEF RetrySpec

-----------------------------------------------------------------------------
(***************************************************************************)
(* Uploads.  A file is sent at most once per call, after it was queued, so *)
(* that it has at most as many copies as the calls before that one; and a  *)
(* file gets into the results when the server answered, which it does only *)
(* after storing the file, and is never answered again in that call.       *)
(***************************************************************************)
\* The files asked for come from SelectSeq, of which nothing is needed here.
UploadRecords ==
    /\ upload \in [mode : {"none", "all", "strict", "parallel"}, asked : {upload.asked},
                   returned : Seq(Listed), got : SUBSET Listed, runs : Nat]
    /\ file \in [Listed -> {"idle", "queued", "running", "answered", "lost", "done"}]
    /\ stored \in [Listed -> Nat]

\* What is queued or sent has not been stored by this call.
CopiesByCall ==
    \A f \in Listed :
        /\ stored[f] <= upload.runs
        /\ file[f] \in {"queued", "running"} => stored[f] < upload.runs

ResultsAreStored ==
    /\ \A f \in Listed : file[f] = "answered" => stored[f] > 0
    /\ \A f \in upload.got : stored[f] > 0
    /\ \A i \in 1..Len(upload.returned) :
          /\ stored[upload.returned[i]] > 0
          /\ upload.mode # "none" => file[upload.returned[i]] = "done"

ResultsDiffer ==
    \A i, j \in 1..Len(upload.returned) : upload.returned[i] = upload.returned[j] => i = j

RestsBetween == upload.mode = "none" => \A f \in Listed : file[f] = "idle"

UploadInv == UploadRecords /\ CopiesByCall /\ ResultsAreStored /\ ResultsDiffer /\ RestsBetween

LEMMA UploadInitial == UploadInit => UploadInv
<1> SUFFICES ASSUME UploadInit PROVE UploadInv
  OBVIOUS
<1> USE DEF UploadInit
<1>1. UploadRecords
  <2>1. upload = [mode |-> "none", asked |-> <<>>, returned |-> <<>>, got |-> {}, runs |-> 0]
    OBVIOUS
  <2>2. upload.asked = <<>>
    BY <2>1
  <2> QED
    BY <2>1, <2>2 DEF UploadRecords
<1>2. CopiesByCall
  BY DEF CopiesByCall
<1>3. ResultsAreStored /\ ResultsDiffer /\ RestsBetween
  BY DEF ResultsAreStored, ResultsDiffer, RestsBetween
<1> QED
  BY <1>1, <1>2, <1>3 DEF UploadInv

LEMMA StartUploadKeeps == ASSUME NEW mode \in {"all", "strict", "parallel"}
                          PROVE  UploadInv /\ StartUpload(mode) => UploadInv'
<1> SUFFICES ASSUME UploadInv, StartUpload(mode) PROVE UploadInv'
  OBVIOUS
<1>0. UploadRecords /\ CopiesByCall /\ ResultsAreStored /\ ResultsDiffer /\ RestsBetween
  BY DEF UploadInv
<1>1. PICK asked : /\ upload' = [upload EXCEPT !.mode = mode, !.asked = asked, !.returned = <<>>,
                                               !.runs = @ + 1]
                   /\ file' = [f \in Listed |-> IF f \in Range(asked) THEN "queued" ELSE "idle"]
                   /\ stored' = stored
  BY DEF StartUpload
<1>2. /\ upload'.mode = mode /\ upload'.asked = asked /\ upload'.returned = <<>>
      /\ upload'.got = upload.got /\ upload'.runs = upload.runs + 1
  BY <1>0, <1>1 DEF UploadRecords
<1>3. UploadRecords'
  <2>1. upload' \in [mode : {"none", "all", "strict", "parallel"}, asked : {asked},
                     returned : Seq(Listed), got : SUBSET Listed, runs : Nat]
    <3>1. <<>> \in Seq(Listed) /\ upload.runs + 1 \in Nat
      BY <1>0 DEF UploadRecords
    <3>2. upload' = [mode |-> mode, asked |-> asked, returned |-> <<>>, got |-> upload.got,
                     runs |-> upload.runs + 1]
      BY <1>0, <1>1 DEF UploadRecords
    <3> QED
      BY <1>0, <3>1, <3>2 DEF UploadRecords
  <2>2. \A f \in Listed : file'[f] \in {"queued", "idle"}
    BY <1>1
  <2>3. file' \in [Listed -> {"idle", "queued", "running", "answered", "lost", "done"}]
    BY <1>1, <2>2
  <2> QED
    BY <1>0, <1>1, <1>2, <2>1, <2>3 DEF UploadRecords
<1>4. CopiesByCall'
  BY <1>0, <1>1, <1>2 DEF CopiesByCall, UploadRecords
<1>5. ResultsAreStored'
  <2>1. \A f \in Listed : file'[f] # "answered"
    BY <1>1
  <2> QED
    BY <1>0, <1>1, <1>2, <2>1 DEF ResultsAreStored
<1>6. ResultsDiffer'
  BY <1>2 DEF ResultsDiffer
<1>7. RestsBetween'
  BY <1>2 DEF RestsBetween
<1> QED
  BY <1>3, <1>4, <1>5, <1>6, <1>7 DEF UploadInv

LEMMA SendKeeps == ASSUME NEW f \in Listed
                   PROVE  UploadInv /\ (TakeNext(f) \/ RunWorker(f)) => UploadInv'
<1> SUFFICES ASSUME UploadInv, TakeNext(f) \/ RunWorker(f) PROVE UploadInv'
  OBVIOUS
<1>0. UploadRecords /\ CopiesByCall /\ ResultsAreStored /\ ResultsDiffer /\ RestsBetween
  BY DEF UploadInv
<1>1. /\ upload.mode # "none" /\ file[f] = "queued"
      /\ file' = [file EXCEPT ![f] = "running"] /\ UNCHANGED <<upload, stored>>
  BY DEF TakeNext, RunWorker
<1>2. UploadRecords'
  BY <1>0, <1>1 DEF UploadRecords
<1>3. CopiesByCall'
  BY <1>0, <1>1 DEF UploadRecords, CopiesByCall
<1>4. ResultsAreStored'
  <2>1. \A i \in 1..Len(upload.returned) : upload.returned[i] \in Listed
    BY <1>0 DEF UploadRecords
  <2> QED
    BY <1>0, <1>1, <2>1 DEF UploadRecords, ResultsAreStored
<1>5. ResultsDiffer' /\ RestsBetween'
  BY <1>0, <1>1 DEF ResultsDiffer, RestsBetween
<1> QED
  BY <1>2, <1>3, <1>4, <1>5 DEF UploadInv

LEMMA UploadOneKeeps == ASSUME NEW f \in Listed, NEW stores \in BOOLEAN, NEW answers \in BOOLEAN
                        PROVE  UploadInv /\ UploadOne(f, stores, answers) => UploadInv'
<1> SUFFICES ASSUME UploadInv, UploadOne(f, stores, answers) PROVE UploadInv'
  OBVIOUS
<1>0. UploadRecords /\ CopiesByCall /\ ResultsAreStored /\ ResultsDiffer /\ RestsBetween
  BY DEF UploadInv
<1>1. /\ file[f] = "running" /\ (answers => stores)
      /\ stored' = IF stores THEN [stored EXCEPT ![f] = @ + 1] ELSE stored
      /\ file' = [file EXCEPT ![f] = IF answers THEN "answered" ELSE "lost"]
      /\ upload' = upload
  BY DEF UploadOne
<1>2. /\ stored' \in [Listed -> Nat] /\ (answers => stored'[f] > 0) /\ stored'[f] <= stored[f] + 1
      /\ stored[f] <= stored'[f] /\ \A g \in Listed \ {f} : stored'[g] = stored[g]
  BY <1>0, <1>1 DEF UploadRecords
<1>3. UploadRecords'
  BY <1>0, <1>1, <1>2 DEF UploadRecords
<1>4. CopiesByCall'
  <2> SUFFICES ASSUME NEW g \in Listed
               PROVE  /\ stored'[g] <= upload.runs
                      /\ file'[g] \in {"queued", "running"} => stored'[g] < upload.runs
    BY <1>1 DEF CopiesByCall
  <2>1. CASE g = f
    BY <1>0, <1>1, <1>2, <2>1 DEF UploadRecords, CopiesByCall
  <2>2. CASE g # f
    BY <1>0, <1>1, <1>2, <2>2 DEF UploadRecords, CopiesByCall
  <2> QED
    BY <2>1, <2>2
<1>5. ResultsAreStored'
  <2>1. \A g \in Listed : stored[g] > 0 => stored'[g] > 0
    <3>1. stored[f] \in Nat /\ stored'[f] \in Nat
      BY <1>0, <1>2 DEF UploadRecords
    <3> QED
      BY <1>2, <3>1
  <2>2. \A i \in 1..Len(upload.returned) : upload.returned[i] \in Listed
    BY <1>0 DEF UploadRecords
  <2>3. upload.got \subseteq Listed
    BY <1>0 DEF UploadRecords
  <2>4. \A g \in Listed : file'[g] = "answered" => stored'[g] > 0
    BY <1>0, <1>1, <1>2 DEF UploadRecords, ResultsAreStored
  <2>5. \A g \in Listed : file[g] = "done" => file'[g] = "done"
    BY <1>0, <1>1 DEF UploadRecords
  <2> QED
    BY <1>0, <1>1, <2>1, <2>2, <2>3, <2>4, <2>5 DEF ResultsAreStored
<1>6. ResultsDiffer' /\ RestsBetween'
  BY <1>0, <1>1 DEF ResultsDiffer, RestsBetween
<1> QED
  BY <1>3, <1>4, <1>5, <1>6 DEF UploadInv

LEMMA CollectKeeps == ASSUME NEW f \in Listed PROVE UploadInv /\ CollectResult(f) => UploadInv'
<1> SUFFICES ASSUME UploadInv, CollectResult(f) PROVE UploadInv'
  OBVIOUS
<1>0. UploadRecords /\ CopiesByCall /\ ResultsAreStored /\ ResultsDiffer /\ RestsBetween
  BY DEF UploadInv
<1>1. /\ file[f] = "answered" /\ upload' = [upload EXCEPT !.returned = Append(@, f)]
      /\ file' = [file EXCEPT ![f] = "done"] /\ stored' = stored
  BY DEF CollectResult
<1> DEFINE n == Len(upload.returned)
<1>2. /\ upload'.mode = upload.mode /\ upload'.asked = upload.asked /\ upload'.got = upload.got
      /\ upload'.runs = upload.runs /\ upload'.returned = Append(upload.returned, f)
  BY <1>0, <1>1 DEF UploadRecords
<1>3. upload.returned \in Seq(Listed) /\ upload.mode # "none"
  BY <1>0, <1>1 DEF UploadRecords, RestsBetween
<1>4. /\ n \in Nat /\ Len(upload'.returned) = n + 1 /\ upload'.returned[n + 1] = f
      /\ \A i \in 1..n : upload'.returned[i] = upload.returned[i] /\ upload.returned[i] \in Listed
  BY <1>2, <1>3
<1>5. \A i \in 1..n : upload.returned[i] # f
  BY <1>0, <1>1, <1>3 DEF ResultsAreStored
<1>6. UploadRecords'
  <2>1. Append(upload.returned, f) \in Seq(Listed)
    BY <1>3
  <2>2. upload' \in [mode : {"none", "all", "strict", "parallel"}, asked : {upload.asked},
                     returned : Seq(Listed), got : SUBSET Listed, runs : Nat]
    BY <1>0, <1>1, <2>1 DEF UploadRecords
  <2> QED
    BY <1>0, <1>1, <1>2, <2>2 DEF UploadRecords
<1>7. CopiesByCall'
  BY <1>0, <1>1, <1>2 DEF UploadRecords, CopiesByCall
<1>8. ResultsAreStored'
  <2>1. \A g \in Listed : file'[g] = IF g = f THEN "done" ELSE file[g]
    BY <1>0, <1>1 DEF UploadRecords
  <2>2. \A i \in 1..Len(upload'.returned) :
            stored[upload'.returned[i]] > 0 /\ file'[upload'.returned[i]] = "done"
    <3> SUFFICES ASSUME NEW i \in 1..(n + 1)
                 PROVE  stored[upload'.returned[i]] > 0 /\ file'[upload'.returned[i]] = "done"
      BY <1>4
    <3>1. CASE i = n + 1
      BY <1>0, <1>1, <1>4, <2>1, <3>1 DEF ResultsAreStored
    <3>2. CASE i \in 1..n
      BY <1>0, <1>3, <1>4, <2>1, <3>2 DEF ResultsAreStored
    <3> QED
      BY <1>4, <3>1, <3>2
  <2> QED
    BY <1>0, <1>1, <1>2, <2>1, <2>2 DEF ResultsAreStored
<1>9. ResultsDiffer'
  <2> SUFFICES ASSUME NEW i \in 1..(n + 1), NEW j \in 1..(n + 1),
                      upload'.returned[i] = upload'.returned[j]
               PROVE  i = j
    BY <1>4 DEF ResultsDiffer
  <2>1. CASE i \in 1..n /\ j \in 1..n
    BY <1>0, <1>4, <2>1 DEF ResultsDiffer
  <2>2. CASE i = n + 1 /\ j \in 1..n
    BY <1>4, <1>5, <2>2
  <2>3. CASE j = n + 1 /\ i \in 1..n
    BY <1>4, <1>5, <2>3
  <2> QED
    BY <1>4, <2>1, <2>2, <2>3
<1>10. RestsBetween'
  BY <1>2, <1>3 DEF RestsBetween
<1> QED
  BY <1>6, <1>7, <1>8, <1>9, <1>10 DEF UploadInv

LEMMA SkipKeeps == ASSUME NEW f \in Listed PROVE UploadInv /\ SkipFailure(f) => UploadInv'
<1> SUFFICES ASSUME UploadInv, SkipFailure(f) PROVE UploadInv'
  OBVIOUS
<1>0. UploadRecords /\ CopiesByCall /\ ResultsAreStored /\ ResultsDiffer /\ RestsBetween
  BY DEF UploadInv
<1>1. /\ file[f] = "lost" /\ file' = [file EXCEPT ![f] = "done"] /\ UNCHANGED <<upload, stored>>
  BY DEF SkipFailure
<1>2. upload.mode # "none"
  BY <1>0, <1>1 DEF RestsBetween
<1>3. UploadRecords' /\ CopiesByCall'
  BY <1>0, <1>1 DEF UploadRecords, CopiesByCall
<1>4. ResultsAreStored'
  <2>1. \A i \in 1..Len(upload.returned) : upload.returned[i] \in Listed
    BY <1>0 DEF UploadRecords
  <2> QED
    BY <1>0, <1>1, <2>1 DEF UploadRecords, ResultsAreStored
<1>5. ResultsDiffer' /\ RestsBetween'
  BY <1>0, <1>1, <1>2 DEF ResultsDiffer, RestsBetween
<1> QED
  BY <1>3, <1>4, <1>5 DEF UploadInv

LEMMA RaiseKeeps == ASSUME NEW f \in Listed PROVE UploadInv /\ RaiseFailure(f) => UploadInv'
<1> SUFFICES ASSUME UploadInv, RaiseFailure(f) PROVE UploadInv'
  OBVIOUS
<1>0. UploadRecords /\ CopiesByCall /\ ResultsAreStored /\ ResultsDiffer /\ RestsBetween
  BY DEF UploadInv
<1>1. /\ file' = [g \in Listed |-> "idle"] /\ stored' = stored
      /\ upload' = [upload EXCEPT !.mode = "none", !.returned = <<>>]
  BY DEF RaiseFailure
<1>2. /\ upload'.mode = "none" /\ upload'.asked = upload.asked /\ upload'.got = upload.got
      /\ upload'.runs = upload.runs /\ upload'.returned = <<>>
  BY <1>0, <1>1 DEF UploadRecords
<1>3. UploadRecords'
  <2>1. upload' \in [mode : {"none", "all", "strict", "parallel"}, asked : {upload.asked},
                     returned : Seq(Listed), got : SUBSET Listed, runs : Nat]
    <3>1. <<>> \in Seq(Listed)
      OBVIOUS
    <3>2. upload' = [mode |-> "none", asked |-> upload.asked, returned |-> <<>>,
                     got |-> upload.got, runs |-> upload.runs]
      BY <1>0, <1>1 DEF UploadRecords
    <3> QED
      BY <1>0, <3>1, <3>2 DEF UploadRecords
  <2> QED
    BY <1>0, <1>1, <1>2, <2>1 DEF UploadRecords
<1>4. CopiesByCall'
  BY <1>0, <1>1, <1>2 DEF CopiesByCall
<1>5. ResultsAreStored' /\ ResultsDiffer' /\ RestsBetween'
  BY <1>0, <1>1, <1>2 DEF ResultsAreStored, ResultsDiffer, RestsBetween
<1> QED
  BY <1>3, <1>4, <1>5 DEF UploadInv

LEMMA ReturnKeeps == UploadInv /\ ReturnUploads => UploadInv'
<1> SUFFICES ASSUME UploadInv, ReturnUploads PROVE UploadInv'
  OBVIOUS
<1>0. UploadRecords /\ CopiesByCall /\ ResultsAreStored /\ ResultsDiffer /\ RestsBetween
  BY DEF UploadInv
<1>1. /\ file' = [g \in Listed |-> "idle"] /\ stored' = stored
      /\ upload' = [upload EXCEPT !.mode = "none", !.got = @ \cup Range(upload.returned)]
  BY DEF ReturnUploads
<1>2. /\ upload'.mode = "none" /\ upload'.asked = upload.asked
      /\ upload'.got = upload.got \cup Range(upload.returned)
      /\ upload'.runs = upload.runs /\ upload'.returned = upload.returned
  BY <1>0, <1>1 DEF UploadRecords
<1>3. \A f \in Range(upload.returned) : f \in Listed /\ stored[f] > 0
  <2>1. upload.returned \in Seq(Listed) /\ DOMAIN upload.returned = 1..Len(upload.returned)
    BY <1>0 DEF UploadRecords
  <2> QED
    BY <1>0, <2>1 DEF ResultsAreStored, Range
<1>4. UploadRecords'
  <2>1. upload' \in [mode : {"none", "all", "strict", "parallel"}, asked : {upload.asked},
                     returned : Seq(Listed), got : SUBSET Listed, runs : Nat]
    BY <1>0, <1>1, <1>3 DEF UploadRecords
  <2> QED
    BY <1>0, <1>1, <1>2, <2>1 DEF UploadRecords
<1>5. CopiesByCall'
  BY <1>0, <1>1, <1>2 DEF CopiesByCall
<1>6. ResultsAreStored' /\ ResultsDiffer' /\ RestsBetween'
  BY <1>0, <1>1, <1>2, <1>3 DEF ResultsAreStored, ResultsDiffer, RestsBetween
<1> QED
  BY <1>4, <1>5, <1>6 DEF UploadInv

LEMMA UploadStep == UploadInv /\ [UploadNext]_uploadVars => UploadInv'
<1> SUFFICES ASSUME UploadInv, [UploadNext]_uploadVars PROVE UploadInv'
  OBVIOUS
<1>1. CASE UploadNext
  BY <1>1, StartUploadKeeps, SendKeeps, UploadOneKeeps, CollectKeeps, SkipKeeps, RaiseKeeps,
     ReturnKeeps DEF UploadNext
<1>2. CASE UNCHANGED uploadVars
  BY <1>2 DEF UploadInv, UploadRecords, CopiesByCall, ResultsAreStored, ResultsDiffer,
              RestsBetween, uploadVars
<1> QED
  BY <1>1, <1>2

LEMMA UploadInvMeans == UploadInv => UploadsReported
<1> SUFFICES ASSUME UploadInv PROVE UploadsReported
  OBVIOUS
<1>0. UploadRecords /\ CopiesByCall /\ ResultsAreStored /\ ResultsDiffer /\ RestsBetween
  BY DEF UploadInv
<1>1. upload.returned \in Seq(Listed) /\ DOMAIN upload.returned = 1..Len(upload.returned)
  BY <1>0 DEF UploadRecords
<1>2. \A f \in Range(upload.returned) : f \in Listed /\ stored[f] > 0
  BY <1>0, <1>1 DEF ResultsAreStored, Range
<1>3. UploadTypeOK
  BY <1>0, <1>2 DEF UploadRecords, UploadTypeOK
<1>4. ReturnedAreStored
  BY <1>0, <1>1, <1>2 DEF ResultsAreStored, ResultsDiffer, ReturnedAreStored, IsInjective
<1>5. NoUploadAfterReturn
  BY <1>0 DEF RestsBetween, NoUploadAfterReturn, Running
<1>6. CopiesBounded
  BY <1>0 DEF CopiesByCall, CopiesBounded
<1> QED
  BY <1>3, <1>4, <1>5, <1>6 DEF UploadsReported

\* Uploads that are sent one after the other or at once, whose answers get lost and whose
\* files are sent again by the caller: what a call returns is stored, once per file, no
\* upload outlives its call, and the server holds at most one copy of a file per call.
THEOREM UploadsAreReported == UploadSpec => []UploadsReported
<1>1. UploadInit => UploadInv
  BY UploadInitial
<1>2. UploadInv /\ [UploadNext]_uploadVars => UploadInv'
  BY UploadStep
<1>3. UploadInv => UploadsReported
  BY UploadInvMeans
<1> QED
  BY <1>1, <1>2, <1>3, PTL DEF UploadSpec

-----------------------------------------------------------------------------
(***************************************************************************)
(* The fetches of DataFetcher.  While the results of a project are         *)
(* collected a task is taken only with its result, and a project that is   *)
(* under way has no result among those of the others yet.                  *)
(***************************************************************************)
FetchResult == [of : [Kinds -> Outcomes \cup {""}], complete : BOOLEAN]

FetchCaller == [pc : {"idle", "project", "collect", "leaving", "returned", "raised"},
                project : 0..Len(ProjectKeys), results : Seq(FetchResult), raises : Nat]

FetchRecords ==
    /\ fetch \in [Kinds -> {"none", "queued", "running", "taken"} \cup Outcomes]
    /\ fetched \in [Kinds -> Outcomes \cup {""}] /\ reports \in [Kinds -> Outcomes \cup {""}]
    /\ caller \in FetchCaller
    /\ Len(caller.results) <= caller.project
    /\ caller.pc \in {"collect", "leaving"} => Len(caller.results) < caller.project

TakenHaveResults == caller.pc = "collect" => \A k \in Kinds : fetch[k] = "taken" => fetched[k] \in Outcomes

FetchInv == FetchRecords /\ TakenHaveResults /\ ResultsComplete /\ ReportsHonest /\ NoTaskLeft

LEMMA FetchInitial == FetchInit => FetchInv
<1> SUFFICES ASSUME FetchInit PROVE FetchInv
  OBVIOUS
<1>1. FetchRecords
  <2>1. << >> \in Seq(FetchResult) /\ Len(<< >>) = 0
    OBVIOUS
  <2>2. caller \in FetchCaller
    <3>1. 0 \in 0..Len(ProjectKeys)
      BY FetchAssumption
    <3> QED
      BY <2>1, <3>1 DEF FetchInit, FetchCaller
  <2>3. caller.pc = "idle" /\ caller.project = 0 /\ caller.results = << >>
    BY DEF FetchInit
  <2>4. /\ fetch \in [Kinds -> {"none", "queued", "running", "taken"} \cup Outcomes]
        /\ fetched \in [Kinds -> Outcomes \cup {""}] /\ reports \in [Kinds -> Outcomes \cup {""}]
    BY DEF FetchInit, NoReports
  <2>5. Len(caller.results) <= caller.project
    BY <2>1, <2>3
  <2> QED
    BY <2>2, <2>3, <2>4, <2>5 DEF FetchRecords
<1>2. caller.pc = "idle" /\ caller.results = << >>
      /\ \A k \in Kinds : reports[k] = "" /\ fetch[k] = "none"
  BY DEF FetchInit, NoReports
<1>3. TakenHaveResults /\ ResultsComplete /\ ReportsHonest /\ NoTaskLeft
  <2>1. DOMAIN caller.results = {}
    <3>1. DOMAIN << >> = {}
      OBVIOUS
    <3> QED
      BY <1>2, <3>1
  <2>2. ResultsComplete
    BY <2>1 DEF ResultsComplete
  <2>3. TakenHaveResults /\ NoTaskLeft
    BY <1>2 DEF TakenHaveResults, NoTaskLeft
  <2>4. ReportsHonest
    BY <1>2 DEF ReportsHonest
  <2> QED
    BY <2>2, <2>3, <2>4
<1> QED
  BY <1>1, <1>3 DEF FetchInv

\* The collecting thread moves, but not to the collection.
LEMMA CallerMoves ==
  ASSUME FetchInv, UNCHANGED <<fetch, fetched, reports>>, NEW p, caller' = [caller EXCEPT !.pc = p],
         p \in {"project", "returned", "raised"},
         \A k \in Kinds : fetch[k] \notin {"queued", "running"}
  PROVE  FetchInv'
<1>0. FetchRecords /\ ResultsComplete /\ ReportsHonest
  BY DEF FetchInv
<1>1. /\ caller' \in FetchCaller /\ caller'.pc = p /\ caller'.results = caller.results
      /\ caller'.raises = caller.raises /\ caller'.project = caller.project
  BY <1>0 DEF FetchRecords, FetchCaller
<1>2. FetchRecords'
  BY <1>0, <1>1 DEF FetchRecords
<1>3. TakenHaveResults' /\ NoTaskLeft'
  BY <1>1 DEF TakenHaveResults, NoTaskLeft
<1>4. ResultsComplete'
  BY <1>0, <1>1 DEF ResultsComplete
<1>5. ReportsHonest'
  BY <1>0, <1>1 DEF ReportsHonest
<1> QED
  BY <1>2, <1>3, <1>4, <1>5 DEF FetchInv

LEMMA FetchStep == FetchInv /\ [FetchNext]_fetchVars => FetchInv'
<1> SUFFICES ASSUME FetchInv, [FetchNext]_fetchVars PROVE FetchInv'
  OBVIOUS
<1> USE FetchAssumption
<1>0. FetchRecords /\ TakenHaveResults /\ ResultsComplete /\ ReportsHonest /\ NoTaskLeft
  BY DEF FetchInv
<1>1. ASSUME NEW listed \in BOOLEAN, StartFetch(listed) PROVE FetchInv'
  <2>1. \A k \in Kinds : fetch[k] \notin {"queued", "running"}
    BY <1>0, <1>1 DEF StartFetch, NoTaskLeft
  <2> DEFINE p == IF listed THEN "project" ELSE "returned"
  <2>2. p \in {"project", "returned", "raised"}
    OBVIOUS
  <2>3. caller' = [caller EXCEPT !.pc = p] /\ UNCHANGED <<fetch, fetched, reports>>
    BY <1>1 DEF StartFetch
  <2> HIDE DEF p
  <2> QED
    BY <2>1, <2>2, <2>3, CallerMoves
<1>2. CASE StartProject
  <2>0. \A k \in Kinds : fetch[k] \notin {"queued", "running"}
    BY <1>0, <1>2 DEF StartProject, NoTaskLeft
  <2>1. CASE caller.project = Len(ProjectKeys)
    BY <1>2, <2>0, <2>1, CallerMoves DEF StartProject
  <2>2. CASE caller.project # Len(ProjectKeys)
    <3>1. /\ caller' = [caller EXCEPT !.pc = "collect", !.project = @ + 1]
          /\ fetch' = [k \in Kinds |-> "queued"] /\ fetched' = [k \in Kinds |-> ""]
          /\ reports' = [k \in Kinds |-> ""]
      BY <1>2, <2>2 DEF StartProject, NoReports
    <3>2. /\ caller'.pc = "collect" /\ caller'.results = caller.results
          /\ caller'.project = caller.project + 1
      BY <1>0, <3>1 DEF FetchRecords, FetchCaller
    <3>3. FetchRecords'
      <4>0. /\ caller.project \in 0..Len(ProjectKeys) /\ caller.results \in Seq(FetchResult)
            /\ Len(caller.results) <= caller.project
        BY <1>0 DEF FetchRecords, FetchCaller
      <4>1. /\ caller.project + 1 \in 0..Len(ProjectKeys) /\ caller.project \in Nat
            /\ Len(caller.results) \in Nat
        BY <2>2, <4>0
      <4>2. Len(caller.results) < caller.project + 1 /\ Len(caller.results) <= caller.project + 1
        BY <4>0, <4>1
      <4>3. caller' \in FetchCaller
        BY <1>0, <3>1, <4>1 DEF FetchRecords, FetchCaller
      <4>4. fetch' \in [Kinds -> {"none", "queued", "running", "taken"} \cup Outcomes]
            /\ fetched' \in [Kinds -> Outcomes \cup {""}] /\ reports' \in [Kinds -> Outcomes \cup {""}]
        BY <3>1
      <4> QED
        BY <3>2, <4>2, <4>3, <4>4 DEF FetchRecords
    <3>4. TakenHaveResults' /\ NoTaskLeft'
      BY <3>1, <3>2 DEF TakenHaveResults, NoTaskLeft
    <3>5. ResultsComplete'
      BY <1>0, <3>2 DEF ResultsComplete
    <3>6. ReportsHonest'
      BY <3>1 DEF ReportsHonest
    <3> QED
      BY <3>3, <3>4, <3>5, <3>6 DEF FetchInv
  <2> QED
    BY <2>1, <2>2
<1>3. ASSUME NEW k \in Kinds, BeginTask(k) \/ \E outcome \in Outcomes : EndTask(k, outcome) PROVE FetchInv'
  <2>1. PICK o \in {"running"} \cup Outcomes :
          /\ fetch' = [fetch EXCEPT ![k] = o] /\ fetch[k] \in {"queued", "running"}
          /\ UNCHANGED <<fetched, reports, caller>>
    BY <1>3 DEF BeginTask, EndTask
  <2>2. FetchRecords'
    BY <1>0, <2>1 DEF FetchRecords
  <2>3. caller.pc \notin {"idle", "project", "returned", "raised"}
    BY <1>0, <2>1 DEF NoTaskLeft
  <2>4. o # "taken"
    BY <2>1 DEF Outcomes
  <2>5. TakenHaveResults'
    <3>1. \A j \in Kinds : fetch'[j] = "taken" => fetch[j] = "taken"
      BY <1>0, <2>1, <2>4 DEF FetchRecords
    <3> QED
      BY <1>0, <2>1, <3>1 DEF TakenHaveResults
  <2>6. NoTaskLeft'
    BY <2>1, <2>3 DEF NoTaskLeft
  <2>7. ResultsComplete' /\ ReportsHonest'
    BY <1>0, <2>1 DEF ResultsComplete, ReportsHonest
  <2> QED
    BY <2>2, <2>5, <2>6, <2>7 DEF FetchInv
<1>4. ASSUME NEW k \in Kinds, NEW raises \in 0..2, Collect(k, raises) PROVE FetchInv'
  <2>1. /\ caller.pc = "collect" /\ fetch[k] \in Outcomes
        /\ fetched' = [fetched EXCEPT ![k] = fetch[k]]
        /\ fetch' = [fetch EXCEPT ![k] = "taken"]
        /\ reports' = [reports EXCEPT ![k] = IF raises = 0 THEN fetch[k] ELSE "failed"]
        /\ caller' = [caller EXCEPT !.raises = @ + raises,
                                    !.pc = IF raises = 2 THEN "leaving" ELSE "collect"]
    BY <1>4 DEF Collect
  <2>2. /\ caller'.pc \in {"leaving", "collect"} /\ caller'.results = caller.results
        /\ caller'.raises = caller.raises + raises /\ caller.raises \in Nat
    BY <1>0, <2>1 DEF FetchRecords, FetchCaller
  <2>3. FetchRecords'
    <3>1. caller.raises + raises \in Nat
      BY <2>2
    <3>2. fetch' \in [Kinds -> {"none", "queued", "running", "taken"} \cup Outcomes]
          /\ fetched' \in [Kinds -> Outcomes \cup {""}] /\ reports' \in [Kinds -> Outcomes \cup {""}]
      BY <1>0, <2>1 DEF FetchRecords, Outcomes
    <3>3. caller' \in FetchCaller
          /\ caller'.project = caller.project
      BY <1>0, <2>1, <3>1 DEF FetchRecords, FetchCaller
    <3> QED
      BY <1>0, <2>1, <2>2, <3>2, <3>3 DEF FetchRecords
  <2>4. TakenHaveResults' /\ NoTaskLeft'
    <3>1. \A j \in Kinds : fetch'[j] = "taken" => j = k \/ fetch[j] = "taken"
      BY <1>0, <2>1 DEF FetchRecords
    <3>2. \A j \in Kinds : fetched'[j] = IF j = k THEN fetch[k] ELSE fetched[j]
      BY <1>0, <2>1 DEF FetchRecords
    <3> QED
      BY <1>0, <2>1, <2>2, <3>1, <3>2 DEF TakenHaveResults, NoTaskLeft
  <2>6. ResultsComplete'
    BY <1>0, <2>2 DEF ResultsComplete
  <2>7. caller'.raises = 0 => raises = 0 /\ caller.raises = 0
    <3>1. raises \in Nat /\ caller.raises \in Nat /\ caller'.raises = caller.raises + raises
      BY <2>2
    <3> QED
      BY <3>1
  <2>5. ReportsHonest'
    <3> SUFFICES ASSUME NEW j \in Kinds, reports'[j] # ""
                 PROVE  /\ reports'[j] = "ok" => fetched'[j] = "ok"
                        /\ caller'.raises = 0 => reports'[j] = fetched'[j]
      BY DEF ReportsHonest
    <3>2. CASE j = k
      BY <1>0, <2>1, <2>7, <3>2 DEF FetchRecords
    <3>3. CASE j # k
      BY <1>0, <2>1, <2>7, <3>3 DEF FetchRecords, ReportsHonest
    <3> QED
      BY <3>2, <3>3
  <2> QED
    BY <2>3, <2>4, <2>5, <2>6 DEF FetchInv
<1>5. CASE ProjectComplete
  <2> DEFINE r == [of |-> fetched, complete |-> \A k \in Kinds : fetched[k] = "ok"]
  <2>1. /\ caller.pc = "collect" /\ \A k \in Kinds : fetch[k] = "taken"
        /\ caller' = [caller EXCEPT !.pc = "project", !.results = Append(@, r)]
        /\ UNCHANGED <<fetch, fetched, reports>>
    BY <1>5 DEF ProjectComplete
  <2>2. r \in FetchResult /\ r.of = fetched /\ (r.complete => \A k \in Kinds : fetched[k] = "ok")
    BY <1>0 DEF FetchRecords, FetchResult
  <2>3. \A k \in Kinds : r.of[k] \in Outcomes /\ (r.complete => r.of[k] # "failed")
    BY <1>0, <2>1, <2>2 DEF TakenHaveResults
  <2> HIDE DEF r
  <2>4. caller.results \in Seq(FetchResult) /\ Len(caller.results) < caller.project
        /\ caller.project \in Nat
    <3>1. caller \in FetchCaller /\ Len(caller.results) < caller.project
      BY <1>0, <2>1 DEF FetchRecords
    <3> QED
      BY <3>1 DEF FetchCaller
  <2>5. /\ caller'.results = Append(caller.results, r) /\ caller'.pc = "project"
        /\ caller'.project = caller.project /\ caller'.raises = caller.raises
    BY <1>0, <2>1 DEF FetchRecords, FetchCaller
  <2>6. /\ Append(caller.results, r) \in Seq(FetchResult)
        /\ Len(Append(caller.results, r)) = Len(caller.results) + 1
        /\ \A i \in DOMAIN Append(caller.results, r) :
             Append(caller.results, r)[i] = IF i \in DOMAIN caller.results THEN caller.results[i] ELSE r
    BY <2>2, <2>4
  <2>7. FetchRecords'
    <3>1. caller' \in FetchCaller
      BY <1>0, <2>1, <2>6 DEF FetchRecords, FetchCaller
    <3>2. Len(caller'.results) <= caller'.project
      BY <2>4, <2>5, <2>6
    <3> QED
      BY <1>0, <2>1, <2>5, <3>1, <3>2 DEF FetchRecords
  <2>8. ResultsComplete'
    BY <1>0, <2>3, <2>5, <2>6 DEF ResultsComplete
  <2>9. (TakenHaveResults /\ ReportsHonest /\ NoTaskLeft)'
    BY <1>0, <2>1, <2>5 DEF TakenHaveResults, ReportsHonest, NoTaskLeft
  <2> QED
    BY <2>7, <2>8, <2>9 DEF FetchInv
<1>6. CASE LeaveByException
  BY <1>6, CallerMoves DEF LeaveByException
<1>7. CASE UNCHANGED fetchVars
  BY <1>0, <1>7 DEF FetchInv, fetchVars, FetchRecords, TakenHaveResults, ResultsComplete, ReportsHonest, NoTaskLeft
<1> QED
  BY <1>1, <1>2, <1>3, <1>4, <1>5, <1>6, <1>7 DEF FetchNext

LEMMA FetchInvMeans == FetchInv => FetchesReported
BY DEF FetchInv, FetchRecords, FetchCaller, FetchesReported, FetchTypeOK

\* FetchesReported for any number of kinds, projects, threads and exceptions of the callback.
THEOREM FetchesAreReported == FetchSpec => []FetchesReported
<1> QED
  BY FetchInitial, FetchStep, FetchInvMeans, PTL DEF FetchSpec

-----------------------------------------------------------------------------
(***************************************************************************)
(* Incremental runs.  The first run that saves its time has extracted and  *)
(* loaded everything: later runs find every reference mapped, and earlier  *)
(* ones, which may have failed anywhere, extract everything again.         *)
(***************************************************************************)
Known == Changeable \cup UNION {RefsTo(e) : e \in Changeable}

IncRecords ==
    /\ moment \in Nat /\ stamp \in Nat /\ stamp <= moment
    /\ edited \in [Changeable -> Nat \ {0}]
    /\ mapped \subseteq Known
    /\ inc \in [pc : {"idle", "fetch", "transform", "loaded"}, kind : 1..4, since : {0},
                extracted : SUBSET Changeable, needed : SUBSET Known, todo : SUBSET Known,
                links : SUBSET (Known \X Known)]
    /\ unseen \in [late : SUBSET Changeable, all : SUBSET Changeable]

\* Once a time is saved everything has a mapping.
SavedMeansMapped == stamp > 0 => Known \subseteq mapped

\* Without one, a run extracts all there is.
FirstRunsExtractAll ==
    stamp = 0 =>
        /\ inc.pc = "fetch" => \A k \in 1..3 : k < inc.kind => IncKinds[k] \subseteq inc.extracted
        /\ inc.pc \in {"transform", "loaded"} => Changeable \subseteq inc.extracted

\* The edits that are neither late nor undated are fetched, kind by kind.
EditsAreFetched ==
    LET due == unseen.all \ (unseen.late \cup Undated)
    IN /\ inc.pc = "fetch" => \A k \in 1..3 : k < inc.kind => due \cap IncKinds[k] = {}
       /\ inc.pc \in {"transform", "loaded"} => due = {}

\* LinksKept, for what is transformed so far.
LinksSoFar ==
    inc.pc \in {"transform", "loaded"} =>
        /\ \A e \in ((inc.extracted \cup inc.needed) \cap Changeable) \ inc.todo : \A r \in RefsTo(e) :
               <<e, r>> \in inc.links \/ r \in inc.extracted \cup inc.needed
        /\ inc.pc = "loaded" => inc.todo \cap Changeable = {} /\ inc.extracted \cup inc.needed \subseteq mapped

IncInv ==
    /\ IncRecords /\ SavedMeansMapped /\ FirstRunsExtractAll /\ EditsAreFound /\ EditsAreFetched
    /\ NothingDangles /\ LinksSoFar

LEMMA IncKindsAre ==
    /\ \A k \in DOMAIN IncKinds : IncKinds[k] \subseteq Changeable
    /\ DOMAIN IncKinds = 1..3 /\ Len(IncKinds) = 3
    /\ \A e \in Changeable : \E k \in 1..3 : e \in IncKinds[k]
<1>1. DOMAIN IncKinds = 1..3 /\ Len(IncKinds) = 3
  BY DEF IncKinds
<1>2. IncKinds[1] = ChangedCases /\ IncKinds[2] = ChangedCycles /\ IncKinds[3] = ChangedExecutions
  BY DEF IncKinds
<1>3. \A k \in 1..3 : k = 1 \/ k = 2 \/ k = 3
  OBVIOUS
<1> QED
  BY <1>1, <1>2, <1>3 DEF Changeable

LEMMA IncInitial == IncInit => IncInv
<1> SUFFICES ASSUME IncInit PROVE IncInv
  OBVIOUS
<1>1. /\ inc.pc = "idle" /\ stamp = 0 /\ moment = 1 /\ mapped = {} /\ unseen.late = {}
      /\ unseen.all = Changeable /\ edited = [e \in Changeable |-> 1]
  BY DEF IncInit, NoRun
<1>2. IncRecords
  <2>1. inc = [pc |-> "idle", kind |-> 1, since |-> 0, extracted |-> {}, needed |-> {},
               todo |-> {}, links |-> {}]
    BY DEF IncInit, NoRun
  <2>2. inc \in [pc : {"idle", "fetch", "transform", "loaded"}, kind : 1..4, since : {0},
                extracted : SUBSET Changeable, needed : SUBSET Known, todo : SUBSET Known,
                links : SUBSET (Known \X Known)]
    BY <2>1
  <2> QED
    BY <1>1, <2>2 DEF IncInit, IncRecords
<1>3. SavedMeansMapped /\ FirstRunsExtractAll
  BY <1>1 DEF SavedMeansMapped, FirstRunsExtractAll
<1>4. EditsAreFound /\ EditsAreFetched
  BY <1>1 DEF EditsAreFound, EditsAreFetched
<1>5. NothingDangles /\ LinksSoFar
  BY <1>1 DEF NothingDangles, LinksSoFar
<1> QED
  BY <1>2, <1>3, <1>4, <1>5 DEF IncInv

LEMMA IncInvMeans == IncInv => IncrementalSound
<1> SUFFICES ASSUME IncInv PROVE IncrementalSound
  OBVIOUS
<1>1. LinksKept
  BY DEF IncInv, LinksSoFar, LinksKept
<1> QED
  BY <1>1 DEF IncInv, IncrementalSound

\* A run that ends, in whatever way, or has begun.
LEMMA RunEndsOrBegins ==
  ASSUME IncInv, UNCHANGED <<edited, zone, stamp, mapped, unseen, moment>>,
         inc' = NoRun \/ inc' = [NoRun EXCEPT !.pc = "fetch"]
  PROVE  IncInv'
<1>1. IncRecords /\ SavedMeansMapped /\ EditsAreFound
  BY DEF IncInv
<1>2. /\ inc'.pc \in {"idle", "fetch"} /\ inc'.kind = 1
      /\ inc' \in [pc : {"idle", "fetch", "transform", "loaded"}, kind : 1..4, since : {0},
                extracted : SUBSET Changeable, needed : SUBSET Known, todo : SUBSET Known,
                links : SUBSET (Known \X Known)]
  BY DEF NoRun
<1>3. IncRecords'
  BY <1>1, <1>2 DEF IncRecords
<1>4. SavedMeansMapped' /\ EditsAreFound'
  BY <1>1 DEF SavedMeansMapped, EditsAreFound
<1>5. FirstRunsExtractAll' /\ EditsAreFetched'
  BY <1>2 DEF FirstRunsExtractAll, EditsAreFetched
<1>6. NothingDangles' /\ LinksSoFar'
  BY <1>2 DEF NothingDangles, LinksSoFar
<1> QED
  BY <1>3, <1>4, <1>5, <1>6 DEF IncInv

LEMMA FetchChangedKeeps == IncInv /\ FetchChanged => IncInv'
<1> SUFFICES ASSUME IncInv, FetchChanged PROVE IncInv'
  OBVIOUS
<1>0. IncRecords /\ SavedMeansMapped /\ FirstRunsExtractAll /\ EditsAreFound /\ EditsAreFetched
  BY DEF IncInv
<1>1. PICK since \in LastMigration :
        /\ inc' = [inc EXCEPT !.extracted = @ \cup ChangedSince(IncKinds[inc.kind], since), !.kind = @ + 1]
        /\ unseen' = [late |-> unseen.late \ ChangedSince(IncKinds[inc.kind], since),
                      all |-> unseen.all \ ChangedSince(IncKinds[inc.kind], since)]
  BY DEF FetchChanged
<1> DEFINE changed == ChangedSince(IncKinds[inc.kind], since)
<1>2. inc.pc = "fetch" /\ inc.kind \in 1..3 /\ UNCHANGED <<moment, edited, zone, stamp, mapped>>
  BY <1>0, IncKindsAre DEF FetchChanged, IncRecords
<1>3. changed = {e \in IncKinds[inc.kind] : e \in Undated \/ edited[e] > since}
  BY DEF ChangedSince
<1>4. changed \subseteq Changeable /\ IncKinds[inc.kind] \subseteq Changeable
  BY <1>2, <1>3, IncKindsAre
<1> HIDE DEF changed
<1>5. /\ inc'.pc = "fetch" /\ inc'.kind = inc.kind + 1 /\ inc'.extracted = inc.extracted \cup changed
      /\ unseen'.late = unseen.late \ changed /\ unseen'.all = unseen.all \ changed
  BY <1>0, <1>1, <1>2 DEF IncRecords, changed
<1>6. IncRecords'
  <2>1. inc.kind + 1 \in 1..4 /\ inc.extracted \cup changed \in SUBSET Changeable
    BY <1>0, <1>2, <1>4 DEF IncRecords
  <2>2. inc' = [inc EXCEPT !.extracted = inc.extracted \cup changed, !.kind = inc.kind + 1]
    BY <1>1 DEF changed
  <2>3. inc' \in [pc : {"idle", "fetch", "transform", "loaded"}, kind : 1..4, since : {0},
                extracted : SUBSET Changeable, needed : SUBSET Known, todo : SUBSET Known,
                links : SUBSET (Known \X Known)]
    BY <1>0, <2>1, <2>2 DEF IncRecords
  <2>4. unseen' \in [late : SUBSET Changeable, all : SUBSET Changeable]
    BY <1>0, <1>1 DEF IncRecords, changed
  <2> QED
    BY <1>0, <1>2, <2>3, <2>4 DEF IncRecords
<1>7. SavedMeansMapped'
  BY <1>0, <1>2 DEF SavedMeansMapped
<1>8. FirstRunsExtractAll'
  <2> SUFFICES ASSUME stamp = 0, NEW k \in 1..3, k < inc.kind + 1
               PROVE  IncKinds[k] \subseteq inc.extracted \cup changed
    BY <1>2, <1>5 DEF FirstRunsExtractAll
  <2>1. CASE k < inc.kind
    BY <1>0, <1>2, <2>1 DEF FirstRunsExtractAll
  <2>2. CASE k = inc.kind
    <3>1. since = 0
      BY DEF LastMigration
    <3>2. \A e \in IncKinds[inc.kind] : edited[e] > 0
      BY <1>0, <1>4 DEF IncRecords
    <3> QED
      BY <1>3, <2>2, <3>1, <3>2
  <2> QED
    BY <1>2, <2>1, <2>2
<1>9. EditsAreFound'
  BY <1>0, <1>2, <1>5 DEF EditsAreFound
<1>10. EditsAreFetched'
  <2> SUFFICES ASSUME NEW k \in 1..3, k < inc.kind + 1, NEW e \in IncKinds[k],
                      e \in unseen'.all \ (unseen'.late \cup Undated)
               PROVE  FALSE
    BY <1>5 DEF EditsAreFetched
  <2>1. e \in unseen.all \ (unseen.late \cup Undated) /\ e \notin changed
    BY <1>5
  <2>2. CASE k < inc.kind
    BY <1>0, <1>2, <2>1, <2>2 DEF EditsAreFetched
  <2>3. CASE k = inc.kind
    <3>1. edited[e] > stamp /\ edited[e] \in Nat \ {0}
      BY <1>0, <1>4, <2>1, <2>3 DEF EditsAreFound, IncRecords
    <3>2. since \in {stamp, 0}
      BY DEF LastMigration
    <3>3. edited[e] > since
      BY <3>1, <3>2
    <3> QED
      BY <1>3, <2>1, <2>3, <3>3
  <2> QED
    BY <1>2, <2>2, <2>3
<1>11. NothingDangles' /\ LinksSoFar'
  BY <1>5 DEF NothingDangles, LinksSoFar
<1> QED
  BY <1>6, <1>7, <1>8, <1>9, <1>10, <1>11 DEF IncInv

LEMMA ResolveKeeps == IncInv /\ ResolveRelationships => IncInv'
<1> SUFFICES ASSUME IncInv, ResolveRelationships PROVE IncInv'
  OBVIOUS
<1>0. IncRecords /\ SavedMeansMapped /\ FirstRunsExtractAll /\ EditsAreFound /\ EditsAreFetched
  BY DEF IncInv
<1> DEFINE again(k, since) == IF inc.extracted \cap IncKinds[k] = {} THEN {}
                              ELSE ChangedSince(IncKinds[k], since)
<1>1. PICK since \in LastMigration :
        inc' = [inc EXCEPT !.pc = "transform",
                  !.needed = UNION {Unmapped(e) : e \in UNION {again(k, since) : k \in DOMAIN IncKinds}},
                  !.todo = inc.extracted \cup
                           UNION {Unmapped(e) : e \in UNION {again(k, since) : k \in DOMAIN IncKinds}}]
  BY DEF ResolveRelationships
<1> DEFINE found == UNION {again(k, since) : k \in DOMAIN IncKinds}
           needed == UNION {Unmapped(e) : e \in found}
<1>2. inc.pc = "fetch" /\ inc.kind = 4 /\ UNCHANGED <<moment, edited, zone, stamp, mapped, unseen>>
  BY <1>0, IncKindsAre DEF ResolveRelationships, IncRecords
<1>3. found \subseteq Changeable
  BY IncKindsAre DEF ChangedSince
<1>4. needed \subseteq Known
  BY <1>3 DEF Unmapped, Known
<1>5. /\ inc'.pc = "transform" /\ inc'.extracted = inc.extracted /\ inc'.needed = needed
      /\ inc'.todo = inc.extracted \cup needed
  BY <1>0, <1>1 DEF IncRecords
<1>6. IncRecords'
  <2>1. inc.extracted \cup needed \in SUBSET Known /\ needed \in SUBSET Known
    BY <1>0, <1>4 DEF IncRecords, Known
  <2>2. inc' = [inc EXCEPT !.pc = "transform", !.needed = needed, !.todo = inc.extracted \cup needed]
    BY <1>1
  <2> HIDE DEF needed
  <2>3. inc' \in [pc : {"idle", "fetch", "transform", "loaded"}, kind : 1..4, since : {0},
                extracted : SUBSET Changeable, needed : SUBSET Known, todo : SUBSET Known,
                links : SUBSET (Known \X Known)]
    BY <1>0, <2>1, <2>2 DEF IncRecords
  <2> QED
    BY <1>0, <1>2, <2>3 DEF IncRecords
<1>7. SavedMeansMapped' /\ EditsAreFound'
  BY <1>0, <1>2 DEF SavedMeansMapped, EditsAreFound
<1>8. stamp = 0 => Changeable \subseteq inc.extracted
  <2>1. \A k \in 1..3 : k < 4
    OBVIOUS
  <2> QED
    BY <1>0, <1>2, <2>1, IncKindsAre DEF FirstRunsExtractAll
<1>9. FirstRunsExtractAll'
  BY <1>2, <1>5, <1>8 DEF FirstRunsExtractAll
<1>10. EditsAreFetched'
  <2>1. \A k \in 1..3 : k < 4
    OBVIOUS
  <2>2. unseen.all \subseteq Changeable
    BY <1>0 DEF IncRecords
  <2>3. unseen.all \ (unseen.late \cup Undated) = {}
    BY <1>0, <1>2, <2>1, <2>2, IncKindsAre DEF EditsAreFetched
  <2> QED
    BY <1>2, <1>5, <2>3 DEF EditsAreFetched
<1>11. NothingDangles'
  <2> SUFFICES ASSUME NEW e \in inc.extracted PROVE RefsTo(e) \subseteq mapped \cup needed
    BY <1>2, <1>5 DEF NothingDangles
  <2>0. e \in Changeable /\ stamp \in Nat
    BY <1>0 DEF IncRecords
  <2>1. CASE stamp > 0
    BY <1>0, <2>0, <2>1 DEF SavedMeansMapped, Known
  <2>2. CASE stamp = 0
    <3>1. PICK k \in 1..3 : e \in IncKinds[k]
      BY <2>0, IncKindsAre
    <3>2. since = 0 /\ edited[e] > 0
      BY <1>0, <2>0, <2>2 DEF LastMigration, IncRecords
    <3>3. e \in again(k, since)
      BY <3>1, <3>2 DEF ChangedSince
    <3>4. e \in found
      BY <3>1, <3>3, IncKindsAre
    <3> HIDE DEF found
    <3> QED
      BY <3>4 DEF Unmapped
  <2> QED
    BY <2>0, <2>1, <2>2
<1>12. LinksSoFar'
  BY <1>5 DEF LinksSoFar
<1> QED
  BY <1>6, <1>7, <1>9, <1>10, <1>11, <1>12 DEF IncInv

LEMMA TransformKeeps == IncInv /\ TransformBatch => IncInv'
<1> SUFFICES ASSUME IncInv, TransformBatch PROVE IncInv'
  OBVIOUS
<1>0. /\ IncRecords /\ SavedMeansMapped /\ FirstRunsExtractAll /\ EditsAreFound /\ EditsAreFetched
      /\ NothingDangles /\ LinksSoFar
  BY DEF IncInv
<1>1. PICK taken \in SUBSET Changeable :
        inc' = [inc EXCEPT !.todo = @ \ taken, !.links = @ \cup UNION {LinksOf(e) : e \in taken}]
  BY DEF TransformBatch
<1> DEFINE new == UNION {LinksOf(e) : e \in taken}
<1>2. inc.pc = "transform" /\ UNCHANGED <<moment, edited, zone, stamp, mapped, unseen>>
  BY DEF TransformBatch
<1>3. new \subseteq Known \X Known
  <2>1. ASSUME NEW e \in taken PROVE LinksOf(e) \subseteq Known \X Known
    <3>1. e \in Known /\ mapped \subseteq Known
      BY <1>0 DEF Known, IncRecords
    <3> QED
      BY <3>1 DEF LinksOf
  <2>2. ASSUME NEW p \in new PROVE p \in Known \X Known
    <3>1. PICK e \in taken : p \in LinksOf(e)
      BY Zenon
    <3> QED
      BY <2>1, <3>1
  <2> QED
    BY <2>2, Zenon
<1>4. \A e \in taken : \A r \in RefsTo(e) : r \in mapped => <<e, r>> \in new
  BY DEF LinksOf
<1> HIDE DEF new
<1>5. /\ inc'.pc = "transform" /\ inc'.extracted = inc.extracted /\ inc'.needed = inc.needed
      /\ inc'.todo = inc.todo \ taken /\ inc'.links = inc.links \cup new
  BY <1>0, <1>1, <1>2 DEF IncRecords, new
<1>6. IncRecords'
  <2>1. inc' = [inc EXCEPT !.todo = inc.todo \ taken, !.links = inc.links \cup new]
    BY <1>1 DEF new
  <2>2. inc.todo \ taken \in SUBSET Known /\ inc.links \cup new \in SUBSET (Known \X Known)
    BY <1>0, <1>3 DEF IncRecords
  <2>3. inc' \in [pc : {"idle", "fetch", "transform", "loaded"}, kind : 1..4, since : {0},
                extracted : SUBSET Changeable, needed : SUBSET Known, todo : SUBSET Known,
                links : SUBSET (Known \X Known)]
    BY <1>0, <2>1, <2>2 DEF IncRecords
  <2> QED
    BY <1>0, <1>2, <2>3 DEF IncRecords
<1>7. SavedMeansMapped' /\ EditsAreFound'
  BY <1>0, <1>2 DEF SavedMeansMapped, EditsAreFound
<1>8. FirstRunsExtractAll' /\ EditsAreFetched'
  BY <1>0, <1>2, <1>5 DEF FirstRunsExtractAll, EditsAreFetched
<1>9. NothingDangles'
  BY <1>0, <1>2, <1>5 DEF NothingDangles
<1>10. LinksSoFar'
  <2> SUFFICES ASSUME NEW e \in ((inc.extracted \cup inc.needed) \cap Changeable) \ (inc.todo \ taken),
                      NEW r \in RefsTo(e)
               PROVE  <<e, r>> \in inc.links \cup new \/ r \in inc.extracted \cup inc.needed
    BY <1>5 DEF LinksSoFar
  <2>1. CASE e \notin taken
    BY <1>0, <1>2, <2>1 DEF LinksSoFar
  <2>2. CASE e \in taken
    <3>1. CASE stamp > 0
      <4>1. r \in mapped
        BY <1>0, <3>1 DEF SavedMeansMapped, Known
      <4> QED
        BY <1>4, <2>2, <4>1
    <3>2. CASE stamp = 0
      <4>1. e \in inc.extracted
        BY <1>0, <1>2, <3>2 DEF FirstRunsExtractAll
      <4>2. r \in mapped \cup inc.needed
        BY <1>0, <1>2, <4>1 DEF NothingDangles
      <4> QED
        BY <1>4, <2>2, <4>2
    <3> QED
      BY <1>0, <3>1, <3>2 DEF IncRecords
  <2> QED
    BY <2>1, <2>2
<1> QED
  BY <1>6, <1>7, <1>8, <1>9, <1>10 DEF IncInv

LEMMA LoadKeeps == IncInv /\ LoadExtracted => IncInv'
<1> SUFFICES ASSUME IncInv, LoadExtracted PROVE IncInv'
  OBVIOUS
<1>0. /\ IncRecords /\ SavedMeansMapped /\ FirstRunsExtractAll /\ EditsAreFound /\ EditsAreFetched
      /\ NothingDangles /\ LinksSoFar
  BY DEF IncInv
<1>1. /\ inc.pc = "transform" /\ inc.todo \cap Changeable = {}
      /\ mapped' = mapped \cup inc.extracted \cup inc.needed
      /\ inc' = [inc EXCEPT !.pc = "loaded"]
      /\ UNCHANGED <<moment, edited, zone, stamp, unseen>>
  BY DEF LoadExtracted
<1>2. /\ inc'.pc = "loaded" /\ inc'.extracted = inc.extracted /\ inc'.needed = inc.needed
      /\ inc'.todo = inc.todo /\ inc'.links = inc.links
  BY <1>0, <1>1 DEF IncRecords
<1>3. IncRecords'
  <2>1. inc' \in [pc : {"idle", "fetch", "transform", "loaded"}, kind : 1..4, since : {0},
                extracted : SUBSET Changeable, needed : SUBSET Known, todo : SUBSET Known,
                links : SUBSET (Known \X Known)]
    BY <1>0, <1>1 DEF IncRecords
  <2>2. mapped' \subseteq Known
    BY <1>0, <1>1 DEF IncRecords, Known
  <2> QED
    BY <1>0, <1>1, <2>1, <2>2 DEF IncRecords
<1>4. SavedMeansMapped' /\ EditsAreFound'
  BY <1>0, <1>1 DEF SavedMeansMapped, EditsAreFound
<1>5. FirstRunsExtractAll' /\ EditsAreFetched'
  BY <1>0, <1>1, <1>2 DEF FirstRunsExtractAll, EditsAreFetched
<1>6. NothingDangles'
  BY <1>0, <1>1, <1>2 DEF NothingDangles
<1>7. LinksSoFar'
  BY <1>0, <1>1, <1>2 DEF LinksSoFar
<1> QED
  BY <1>3, <1>4, <1>5, <1>6, <1>7 DEF IncInv

LEMMA SaveKeeps == IncInv /\ SaveMigrationTimestamp => IncInv'
<1> SUFFICES ASSUME IncInv, SaveMigrationTimestamp PROVE IncInv'
  OBVIOUS
<1>1. CASE UNCHANGED <<stamp, moment, unseen>>
  BY <1>1, RunEndsOrBegins DEF SaveMigrationTimestamp
<1>2. CASE stamp' = moment + 1 /\ moment' = moment + 1 /\ unseen' = unseen
  <2>0. /\ IncRecords /\ SavedMeansMapped /\ FirstRunsExtractAll /\ EditsAreFound /\ EditsAreFetched
        /\ NothingDangles /\ LinksSoFar
    BY DEF IncInv
  <2>1. inc.pc = "loaded" /\ inc' = NoRun /\ UNCHANGED <<edited, zone, mapped>>
    BY DEF SaveMigrationTimestamp
  <2>2. /\ inc'.pc = "idle"
        /\ inc' \in [pc : {"idle", "fetch", "transform", "loaded"}, kind : 1..4, since : {0},
                extracted : SUBSET Changeable, needed : SUBSET Known, todo : SUBSET Known,
                links : SUBSET (Known \X Known)]
    BY <2>1 DEF NoRun
  <2>3. IncRecords'
    <3>1. moment' \in Nat /\ stamp' \in Nat /\ stamp' <= moment'
      BY <1>2, <2>0 DEF IncRecords
    <3> QED
      BY <1>2, <2>0, <2>1, <2>2, <3>1 DEF IncRecords
  <2>4. Known \subseteq mapped
    <3>1. CASE stamp > 0
      BY <2>0, <3>1 DEF SavedMeansMapped
    <3>2. CASE stamp = 0
      <4>1. Changeable \subseteq inc.extracted /\ inc.extracted \cup inc.needed \subseteq mapped
        BY <2>0, <2>1, <3>2 DEF FirstRunsExtractAll, LinksSoFar
      <4>2. \A e \in Changeable : RefsTo(e) \subseteq mapped
        BY <2>0, <2>1, <4>1 DEF NothingDangles
      <4> QED
        BY <4>1, <4>2 DEF Known
    <3> QED
      BY <2>0, <3>1, <3>2 DEF IncRecords
  <2>5. SavedMeansMapped'
    BY <2>1, <2>4 DEF SavedMeansMapped
  <2>6. unseen'.all \ (unseen'.late \cup Undated) = {}
    BY <1>2, <2>0, <2>1 DEF EditsAreFetched
  <2>7. EditsAreFound' /\ EditsAreFetched'
    BY <2>2, <2>6 DEF EditsAreFound, EditsAreFetched
  <2>8. FirstRunsExtractAll' /\ NothingDangles' /\ LinksSoFar'
    BY <2>2 DEF FirstRunsExtractAll, NothingDangles, LinksSoFar
  <2> QED
    BY <2>3, <2>5, <2>7, <2>8 DEF IncInv
<1> QED
  BY <1>1, <1>2 DEF SaveMigrationTimestamp

LEMMA EditKeeps == ASSUME IncInv, NEW e \in Changeable, EditInZephyr(e) PROVE IncInv'
<1>0. /\ IncRecords /\ SavedMeansMapped /\ FirstRunsExtractAll /\ EditsAreFound /\ EditsAreFetched
      /\ NothingDangles /\ LinksSoFar
  BY DEF IncInv
<1>1. /\ moment' = moment + 1 /\ edited' = [edited EXCEPT ![e] = moment + 1]
      /\ unseen' = [late |-> IF inc.pc = "idle" THEN unseen.late \ {e} ELSE unseen.late \cup {e},
                    all |-> unseen.all \cup {e}]
      /\ UNCHANGED <<zone, stamp, mapped, inc>>
  BY DEF EditInZephyr
<1>2. /\ unseen'.late = (IF inc.pc = "idle" THEN unseen.late \ {e} ELSE unseen.late \cup {e})
      /\ unseen'.all = unseen.all \cup {e}
      /\ edited'[e] = moment + 1 /\ \A d \in Changeable \ {e} : edited'[d] = edited[d]
  BY <1>0, <1>1 DEF IncRecords
<1>3. IncRecords'
  <2>1. moment + 1 \in Nat \ {0} /\ stamp <= moment + 1
    BY <1>0 DEF IncRecords
  <2>2. edited' \in [Changeable -> Nat \ {0}]
    BY <1>0, <1>1, <2>1 DEF IncRecords
  <2>3. unseen' \in [late : SUBSET Changeable, all : SUBSET Changeable]
    BY <1>0, <1>1 DEF IncRecords
  <2> QED
    BY <1>0, <1>1, <2>1, <2>2, <2>3 DEF IncRecords
<1>4. SavedMeansMapped' /\ FirstRunsExtractAll' /\ NothingDangles'
  BY <1>0, <1>1 DEF SavedMeansMapped, FirstRunsExtractAll, NothingDangles
<1>5. LinksSoFar'
  BY <1>0, <1>1 DEF LinksSoFar
<1>6. EditsAreFound'
  <2> SUFFICES ASSUME NEW d \in unseen'.all \ (unseen'.late \cup Undated) PROVE stamp < edited'[d]
    BY <1>1 DEF EditsAreFound
  <2>1. CASE d = e
    BY <1>0, <1>2, <2>1 DEF IncRecords
  <2>2. CASE d # e
    <3>1. d \in unseen.all \ (unseen.late \cup Undated) /\ d \in Changeable
      BY <1>0, <1>2, <2>2 DEF IncRecords
    <3> QED
      BY <1>0, <1>2, <2>2, <3>1 DEF EditsAreFound
  <2> QED
    BY <2>1, <2>2
<1>7. EditsAreFetched'
  <2>1. CASE inc.pc = "idle"
    BY <1>1, <2>1 DEF EditsAreFetched
  <2>2. CASE inc.pc # "idle"
    <3>1. unseen'.all \ (unseen'.late \cup Undated) \subseteq unseen.all \ (unseen.late \cup Undated)
      BY <1>2, <2>2
    <3> QED
      BY <1>0, <1>1, <3>1 DEF EditsAreFetched
  <2> QED
    BY <2>1, <2>2
<1> QED
  BY <1>3, <1>4, <1>5, <1>6, <1>7 DEF IncInv

LEMMA IncStep == IncInv /\ [IncNext]_incVars => IncInv'
<1> SUFFICES ASSUME IncInv, [IncNext]_incVars PROVE IncInv'
  OBVIOUS
<1>1. CASE StartRun \/ RunRaises
  BY <1>1, RunEndsOrBegins DEF StartRun, RunRaises
<1>2. CASE UNCHANGED incVars
  <2>1. UNCHANGED <<moment, edited, zone, stamp, mapped, inc, unseen>>
    BY <1>2 DEF incVars
  <2> QED
    BY <2>1 DEF IncInv, IncRecords, SavedMeansMapped, FirstRunsExtractAll, EditsAreFound, EditsAreFetched,
                NothingDangles, LinksSoFar
<1> QED
  BY <1>1, <1>2, FetchChangedKeeps, ResolveKeeps, TransformKeeps, LoadKeeps, SaveKeeps, EditKeeps DEF IncNext

\* IncrementalSound for any entities, references, edits and failures of the runs.
THEOREM IncrementalIsSound == IncSpec => []IncrementalSound
<1> QED
  BY IncInitial, IncStep, IncInvMeans, PTL DEF IncSpec

-----------------------------------------------------------------------------
(***************************************************************************)
(* The composition.  A step of one component leaves the others where they  *)
(* are, so that each invariant is kept by every step of the services.      *)
(***************************************************************************)
LEMMA ServicesSteps ==
  ASSUME [ServicesNext]_servicesVars
  PROVE  /\ [ClientNext]_clientVars /\ [RetryNext]_retryVars
         /\ [UploadNext]_uploadVars /\ [FetchNext]_fetchVars /\ [IncNext]_incVars
BY DEF ServicesNext, servicesVars, Only

LEMMA ServicesBegin ==
  ServicesInit => ClientInit /\ RetryInit /\ UploadInit /\ FetchInit /\ IncInit
BY DEF ServicesInit

\* CallsSound: the calls over one client and under one retry policy, as the services run.
THEOREM CallsAreSound == ServicesSpec => []CallsSound
<1> DEFINE Inv == CallsInv /\ ErrorsInv /\ RefusalsInv /\ RetryInv
<1>1. ServicesInit => Inv
  BY ServicesBegin, CallsInit, ErrorsInit, RefusalsInit, RetryInitial
<1>2. Inv /\ [ServicesNext]_servicesVars => Inv'
  BY ServicesSteps, CallsNext, ErrorsNext, RefusalsNext, RetryStep
<1>3. Inv => CallsSound
  BY CallsInvMeans, ErrorsInvMeans, RefusalsInvMeans, RetryInvMeans DEF CallsSound, CallsAccounted
<1> QED
  BY <1>1, <1>2, <1>3, PTL DEF ServicesSpec

\* OutcomesReported: uploads, fetches and incremental runs, as the services run.
THEOREM OutcomesAreReported == ServicesSpec => []OutcomesReported
<1> DEFINE Inv == UploadInv /\ FetchInv /\ IncInv
<1>1. ServicesInit => Inv
  BY ServicesBegin, UploadInitial, FetchInitial, IncInitial
<1>2. Inv /\ [ServicesNext]_servicesVars => Inv'
  BY ServicesSteps, UploadStep, FetchStep, IncStep
<1>3. Inv => OutcomesReported
  BY UploadInvMeans, FetchInvMeans, IncInvMeans DEF OutcomesReported
<1> QED
  BY <1>1, <1>2, <1>3, PTL DEF ServicesSpec

-----------------------------------------------------------------------------
(*****************************************************************************)
(* The workflow orchestrator: commands, crashes and changes in Zephyr.     *)
(*****************************************************************************)

Commands == {"all", "resume", "incremental", "rollback", "transform", "load"}

CommandsRunning ==
    [pc : PhaseNames \cup {"idle", "next", "undo"}, cmd : Commands,
     left : Seq(PhaseNames), todo : SUBSET Entities,
     ok : BOOLEAN, bad : BOOLEAN, inc : BOOLEAN, sql : BOOLEAN]

OrchTypes ==
    /\ state \in [{"extract", "transform", "load", "rollback"} -> Statuses]
    /\ batch \in [waiting : SUBSET Entities, ready : SUBSET Entities]
    /\ qtest \in [objects : SUBSET Entities, mapped : SUBSET Entities]
    /\ zephyr \in [since : SUBSET Entities, refused : SUBSET Entities, changes : Nat, runs : Nat]
    /\ run \in CommandsRunning

Fresh == state.rollback = "not_started"
Extracted == state.extract = "completed"
Covered == qtest.mapped \cup zephyr.refused \cup batch.waiting \cup batch.ready

\* What keeps NothingForgotten: the extraction's own work covers the rest, the
\* stamp leaves no entity out before a whole extraction is recorded, and an
\* incremental run reaches its end only with one.
NothingLeftOut ==
    /\ Fresh /\ Extracted => Entities \subseteq Covered
    /\ Fresh /\ run.pc = "extract" => Entities \subseteq run.todo \cup Covered
    /\ Fresh /\ ~Extracted => zephyr.since = Entities
    /\ Fresh /\ run.inc => run.left = AllPhases \/ run.pc = "extract" \/ Extracted
    /\ run.pc = "extract" => ~Extracted
    /\ run.pc \in {"rollback", "undo"} => ~Fresh
    /\ run.pc = "idle" => ~run.inc

\* What is left of a rollback: its phases from the last to the first, with
\* every phase that still counts as done.
Plans == {<<>>, <<"load">>, <<"transform">>, <<"extract">>, <<"load", "transform">>,
          <<"load", "extract">>, <<"transform", "extract">>, <<"load", "transform", "extract">>}
PlanWhole ==
    run.pc = "undo" =>
        /\ run.left \in Plans
        /\ state.load \in {"completed", "partial"} => run.left # <<>> /\ Head(run.left) = "load"
        /\ state.transform = "completed" =>
             run.left \in {<<"load", "transform">>, <<"load", "transform", "extract">>,
                           <<"transform">>, <<"transform", "extract">>}

OrchInv == OrchTypes /\ NothingLeftOut /\ PlanWhole

-----------------------------------------------------------------------------

LEMMA OrchInvImpliesSound == OrchInv => MigrationSound
<1> SUFFICES ASSUME OrchInv PROVE MigrationSound
  OBVIOUS
<1>1. OrchTypeOK
  BY DEF OrchInv, OrchTypes, CommandsRunning, OrchTypeOK
<1>2. NothingForgotten
  BY DEF OrchInv, NothingLeftOut, NothingForgotten, Fresh, Extracted, Covered
<1>3. RollbackBackwards
  BY DEF OrchInv, PlanWhole, Plans, RollbackBackwards, Undoing
<1> QED
  BY <1>1, <1>2, <1>3 DEF MigrationSound

LEMMA NoCommandType ==
  /\ NoCommand \in [pc : {"idle"}, cmd : Commands, left : Seq(PhaseNames), todo : SUBSET Entities,
                    ok : BOOLEAN, bad : BOOLEAN, inc : {FALSE}, sql : BOOLEAN]
BY DEF NoCommand, Commands

LEMMA InitOrch == OrchInit => OrchInv
<1> SUFFICES ASSUME OrchInit PROVE OrchInv
  OBVIOUS
<1>1. OrchTypes
  <2>1. /\ state \in [{"extract", "transform", "load", "rollback"} -> Statuses]
        /\ batch \in [waiting : SUBSET Entities, ready : SUBSET Entities]
        /\ qtest \in [objects : SUBSET Entities, mapped : SUBSET Entities]
        /\ zephyr \in [since : SUBSET Entities, refused : SUBSET Entities, changes : Nat, runs : Nat]
    BY DEF OrchInit, Statuses
  <2>2. run \in CommandsRunning
    BY NoCommandType DEF OrchInit, CommandsRunning
  <2> QED
    BY <2>1, <2>2 DEF OrchTypes, CommandsRunning
<1>2. NothingLeftOut /\ PlanWhole
  BY NoCommandType DEF OrchInit, NothingLeftOut, PlanWhole, Fresh, Extracted
<1> QED
  BY <1>1, <1>2 DEF OrchInv

LEMMA PhaseLists ==
  /\ AllPhases \in Seq(PhaseNames) /\ AllPhases # <<>> /\ Head(AllPhases) = "extract"
  /\ \A p \in PhaseNames : <<p>> \in Seq(PhaseNames)
  /\ \A r, s \in Seq(PhaseNames) : r \o s \in Seq(PhaseNames)
  /\ \A s \in Seq(PhaseNames) : s # <<>> => Head(s) \in PhaseNames /\ Tail(s) \in Seq(PhaseNames)
<1>1. AllPhases \in Seq(PhaseNames) /\ AllPhases # <<>> /\ Head(AllPhases) = "extract"
  BY DEF AllPhases, PhaseNames
<1>2. \A p \in PhaseNames : <<p>> \in Seq(PhaseNames)
  OBVIOUS
<1>3. \A r, s \in Seq(PhaseNames) : r \o s \in Seq(PhaseNames)
  BY ConcatProperties
<1>4. \A s \in Seq(PhaseNames) : s # <<>> => Head(s) \in PhaseNames /\ Tail(s) \in Seq(PhaseNames)
  BY HeadTailProperties
<1> QED
  BY <1>1, <1>2, <1>3, <1>4

LEMMA PairJoined ==
  ASSUME NEW S, NEW a \in S, NEW b \in S PROVE <<a>> \o <<b>> = <<a, b>>
<1>1. <<a>> \in Seq(S) /\ <<b>> \in Seq(S) /\ <<a, b>> \in Seq(S)
  OBVIOUS
<1>2. /\ <<a>> \o <<b>> \in Seq(S) /\ Len(<<a>> \o <<b>>) = 2
      /\ (<<a>> \o <<b>>)[1] = a /\ (<<a>> \o <<b>>)[2] = b
  BY <1>1, ConcatProperties
<1>3. /\ Len(<<a>> \o <<b>>) = Len(<<a, b>>)
      /\ \A i \in 1..Len(<<a>> \o <<b>>) : (<<a>> \o <<b>>)[i] = <<a, b>>[i]
  BY <1>2
<1> QED
  BY <1>1, <1>2, <1>3, SeqEqual, Zenon

LEMMA TripleJoined ==
  ASSUME NEW S, NEW a \in S, NEW b \in S, NEW c \in S
  PROVE  <<a, b>> \o <<c>> = <<a, b, c>>
<1>1. <<c>> \in Seq(S) /\ <<a, b>> \in Seq(S) /\ <<a, b, c>> \in Seq(S)
  OBVIOUS
<1>2. /\ <<a, b>> \o <<c>> \in Seq(S) /\ Len(<<a, b>> \o <<c>>) = 3
      /\ (<<a, b>> \o <<c>>)[1] = a /\ (<<a, b>> \o <<c>>)[2] = b
      /\ (<<a, b>> \o <<c>>)[3] = c
  BY <1>1, ConcatProperties
<1>3. /\ Len(<<a, b>> \o <<c>>) = Len(<<a, b, c>>)
      /\ \A i \in 1..Len(<<a, b>> \o <<c>>) : (<<a, b>> \o <<c>>)[i] = <<a, b, c>>[i]
  BY <1>2
<1> QED
  BY <1>1, <1>2, <1>3, SeqEqual, Zenon

\* Every plan a rollback can make, and what is left of it after its first phase.
LEMMA PlansJoined ==
  ASSUME NEW l \in {<<>>, <<"load">>}, NEW t \in {<<>>, <<"transform">>},
         NEW x \in {<<>>, <<"extract">>}
  PROVE  l \o t \o x =
           IF l = <<>>
           THEN IF t = <<>> THEN x
                ELSE IF x = <<>> THEN <<"transform">> ELSE <<"transform", "extract">>
           ELSE IF t = <<>>
                THEN IF x = <<>> THEN <<"load">> ELSE <<"load", "extract">>
                ELSE IF x = <<>> THEN <<"load", "transform">>
                     ELSE <<"load", "transform", "extract">>
<1> DEFINE P == {"load", "transform", "extract"}
<1>1. /\ <<"load">> \o <<"transform">> = <<"load", "transform">>
      /\ <<"load">> \o <<"extract">> = <<"load", "extract">>
      /\ <<"transform">> \o <<"extract">> = <<"transform", "extract">>
  <2>1. "load" \in P /\ "transform" \in P /\ "extract" \in P
    OBVIOUS
  <2> HIDE DEF P
  <2> QED
    BY <2>1, PairJoined
<1>2. <<"load", "transform">> \o <<"extract">> = <<"load", "transform", "extract">>
  <2>1. "load" \in P /\ "transform" \in P /\ "extract" \in P
    OBVIOUS
  <2> HIDE DEF P
  <2> QED
    BY <2>1, TripleJoined
<1>3. \A s \in Seq(P) : s \o <<>> = s /\ <<>> \o s = s
  BY ConcatEmptySeq
<1>4. /\ <<>> \in Seq(P) /\ <<"load">> \in Seq(P) /\ <<"transform">> \in Seq(P)
      /\ <<"extract">> \in Seq(P) /\ <<"load", "transform">> \in Seq(P)
  OBVIOUS
<1>5. <<"load">> # <<>> /\ <<"transform">> # <<>> /\ <<"extract">> # <<>>
  OBVIOUS
<1> HIDE DEF P
<1>6. CASE l = <<>> /\ t = <<>>
  BY <1>3, <1>4, <1>5, <1>6
<1>7. CASE l = <<>> /\ t = <<"transform">>
  BY <1>1, <1>3, <1>4, <1>5, <1>7
<1>8. CASE l = <<"load">> /\ t = <<>>
  BY <1>1, <1>3, <1>4, <1>5, <1>8
<1>9. CASE l = <<"load">> /\ t = <<"transform">>
  BY <1>1, <1>2, <1>3, <1>4, <1>5, <1>9
<1> QED
  BY <1>6, <1>7, <1>8, <1>9

LEMMA PlansBegin ==
  /\ Head(<<"load">>) = "load" /\ Head(<<"transform">>) = "transform"
  /\ Head(<<"extract">>) = "extract"
  /\ Head(<<"load", "transform">>) = "load" /\ Head(<<"load", "extract">>) = "load"
  /\ Head(<<"transform", "extract">>) = "transform"
  /\ Head(<<"load", "transform", "extract">>) = "load"
OBVIOUS

LEMMA PlansShrink ==
  /\ Tail(<<"load">>) = <<>> /\ Tail(<<"transform">>) = <<>> /\ Tail(<<"extract">>) = <<>>
  /\ Tail(<<"load", "transform">>) = <<"transform">>
  /\ Tail(<<"load", "extract">>) = <<"extract">>
  /\ Tail(<<"transform", "extract">>) = <<"extract">>
  /\ Tail(<<"load", "transform", "extract">>) = <<"transform", "extract">>
OBVIOUS

LEMMA ResumedType == ResumedPhases \in Seq(PhaseNames)
<1>1. \A p \in PhaseNames : Resumed(p) \in Seq(PhaseNames)
  BY PhaseLists DEF Resumed
<1>2. {"extract", "transform", "load", "validate"} \subseteq PhaseNames
  BY DEF PhaseNames
<1> QED
  BY <1>1, <1>2, PhaseLists DEF ResumedPhases

-----------------------------------------------------------------------------
(* Commands, and what happens around them. *)

LEMMA StartCommandKeeps ==
  ASSUME OrchInv, NEW cmd \in Commands, NEW sql \in BOOLEAN, StartCommand(cmd, sql)
  PROVE  OrchInv'
<1> DEFINE l == CASE cmd \in {"all", "incremental"} -> AllPhases
                  [] cmd = "resume" -> ResumedPhases
                  [] OTHER -> <<cmd>>
<1>1. run' = [NoCommand EXCEPT !.pc = "next", !.cmd = cmd, !.sql = sql,
                 !.inc = (cmd = "incremental"), !.left = l]
  BY DEF StartCommand
<1>2. l \in Seq(PhaseNames) /\ (cmd = "incremental" => l = AllPhases)
  BY PhaseLists, ResumedType DEF Commands, PhaseNames
<1> HIDE DEF l
<1>3. /\ run' \in [pc : {"next"}, cmd : Commands, left : Seq(PhaseNames), todo : SUBSET Entities,
                   ok : BOOLEAN, bad : BOOLEAN, inc : BOOLEAN, sql : BOOLEAN]
      /\ run'.inc => run'.left = AllPhases
  BY <1>1, <1>2, NoCommandType
<1>4. /\ zephyr' \in [since : SUBSET Entities, refused : SUBSET Entities, changes : Nat, runs : Nat]
      /\ zephyr'.since = zephyr.since /\ zephyr'.refused = zephyr.refused
  BY DEF StartCommand, OrchInv, OrchTypes, CommandsRunning
<1>5. UNCHANGED <<state, batch, qtest>>
  BY DEF StartCommand
<1>6. OrchTypes'
  BY <1>3, <1>4, <1>5 DEF OrchInv, OrchTypes, CommandsRunning
<1>7. NothingLeftOut'
  BY <1>3, <1>4, <1>5 DEF OrchInv, NothingLeftOut, Fresh, Extracted, Covered
<1>8. PlanWhole'
  BY <1>3 DEF PlanWhole
<1> QED
  BY <1>6, <1>7, <1>8 DEF OrchInv

\* The process ends, or a command does: nothing else changes but the stamp.
LEMMA EndingKeeps ==
  ASSUME OrchInv, Crash \/ \E saved \in BOOLEAN : EndCommand(saved)
  PROVE  OrchInv'
<1>1. run' = NoCommand /\ UNCHANGED <<state, batch, qtest>>
  BY DEF Crash, EndCommand
<1>2. /\ zephyr' \in [since : SUBSET Entities, refused : SUBSET Entities, changes : Nat, runs : Nat]
      /\ zephyr'.refused = zephyr.refused
  BY DEF Crash, EndCommand, OrchInv, OrchTypes, CommandsRunning
<1>3. Fresh /\ ~Extracted => zephyr'.since = zephyr.since
  <2>1. CASE Crash
    BY <2>1 DEF Crash
  <2>2. CASE \E saved \in BOOLEAN : EndCommand(saved)
    BY <2>2, PhaseLists DEF EndCommand, OrchInv, NothingLeftOut
  <2> QED
    BY <2>1, <2>2
<1>4. OrchTypes'
  BY <1>1, <1>2, NoCommandType DEF OrchInv, OrchTypes, CommandsRunning
<1>5. NothingLeftOut' /\ PlanWhole'
  BY <1>1, <1>2, <1>3, NoCommandType
     DEF OrchInv, NothingLeftOut, PlanWhole, Fresh, Extracted, Covered
<1> QED
  BY <1>4, <1>5 DEF OrchInv

LEMMA ChangeKeeps == ASSUME OrchInv, NEW e \in Entities, Change(e) PROVE OrchInv'
<1>1. /\ zephyr' \in [since : SUBSET Entities, refused : SUBSET Entities, changes : Nat, runs : Nat]
      /\ zephyr'.refused = zephyr.refused /\ zephyr'.since = zephyr.since \cup {e}
  <2> DEFINE s == zephyr.since \cup {e}
             n == zephyr.changes + 1
  <2>1. zephyr' = [zephyr EXCEPT !.since = s, !.changes = n]
    BY DEF Change
  <2>2. s \in SUBSET Entities /\ n \in Nat
    BY DEF OrchInv, OrchTypes, CommandsRunning
  <2>3. s = zephyr.since \cup {e}
    OBVIOUS
  <2> HIDE DEF s, n
  <2> QED
    BY <2>1, <2>2, <2>3 DEF OrchInv, OrchTypes, CommandsRunning
<1>2. UNCHANGED <<state, batch, qtest, run>>
  BY DEF Change
<1>3. OrchTypes'
  BY <1>1, <1>2 DEF OrchInv, OrchTypes, CommandsRunning
<1>4. NothingLeftOut'
  BY <1>1, <1>2 DEF OrchInv, NothingLeftOut, Fresh, Extracted, Covered
<1>5. PlanWhole'
  BY <1>2 DEF OrchInv, PlanWhole
<1> QED
  BY <1>3, <1>4, <1>5 DEF OrchInv

-----------------------------------------------------------------------------
(* The phases of a command. *)

\* A completed extraction is skipped, by an incremental run as well.
LEMMA SkipPhaseKeeps == ASSUME OrchInv, SkipPhase PROVE OrchInv'
<1>1. /\ run' = [run EXCEPT !.left = Tail(run.left)] /\ UNCHANGED <<state, batch, qtest, zephyr>>
      /\ run.pc = "next" /\ Head(run.left) \in PhaseNames /\ Tail(run.left) \in Seq(PhaseNames)
  BY PhaseLists DEF SkipPhase, OrchInv, OrchTypes, CommandsRunning
<1>2. run.left = AllPhases => Extracted
  BY PhaseLists DEF SkipPhase, CanSkip, Extracted
<1>3. OrchTypes'
  BY <1>1 DEF OrchInv, OrchTypes, CommandsRunning
<1>4. NothingLeftOut' /\ PlanWhole'
  BY <1>1, <1>2
     DEF OrchInv, OrchTypes, CommandsRunning, NothingLeftOut, PlanWhole, Fresh, Extracted, Covered
<1> QED
  BY <1>3, <1>4 DEF OrchInv

LEMMA BeginPhaseKeeps == ASSUME OrchInv, BeginPhase PROVE OrchInv'
<1> DEFINE p == Head(run.left)
<1>1. p \in PhaseNames /\ Tail(run.left) \in Seq(PhaseNames)
  BY PhaseLists DEF BeginPhase, OrchInv, OrchTypes, CommandsRunning
<1>2. Work(p) \in SUBSET Entities
  BY DEF Work, OrchInv, OrchTypes, CommandsRunning
<1>3. /\ run' = [run EXCEPT !.pc = p, !.left = Tail(run.left), !.todo = Work(p),
                            !.ok = FALSE, !.bad = FALSE]
      /\ state' = IF p = "rollback" THEN [state EXCEPT !.rollback = "in_progress"] ELSE state
      /\ UNCHANGED <<batch, qtest, zephyr>>
      /\ run.pc = "next" /\ ~CanSkip(p)
  BY DEF BeginPhase
<1>4. run.left = AllPhases => p = "extract"
  BY PhaseLists
<1>5. p = "extract" => ~Extracted
  BY <1>3 DEF CanSkip, Extracted
<1>6. Fresh /\ p = "extract" => Work(p) = Entities
  BY <1>5 DEF Work, OrchInv, NothingLeftOut
<1> HIDE DEF p
<1>7. /\ run'.pc = p /\ run'.todo = Work(p) /\ run'.inc = run.inc
      /\ run' \in [pc : PhaseNames, cmd : Commands,
                left : Seq(PhaseNames), todo : SUBSET Entities,
                ok : BOOLEAN, bad : BOOLEAN, inc : BOOLEAN, sql : BOOLEAN]
  BY <1>1, <1>2, <1>3 DEF OrchInv, OrchTypes, CommandsRunning
<1>8. /\ state' \in [{"extract", "transform", "load", "rollback"} -> Statuses]
      /\ Extracted' <=> Extracted
      /\ Fresh' <=> Fresh /\ p # "rollback"
  BY <1>3, <1>5 DEF OrchInv, OrchTypes, CommandsRunning, Statuses, Fresh, Extracted
<1>9. OrchTypes'
  BY <1>3, <1>7, <1>8 DEF OrchInv, OrchTypes, CommandsRunning, PhaseNames
<1>10. Covered' = Covered
  BY <1>3 DEF Covered
<1>11. NothingLeftOut'
  BY <1>1, <1>3, <1>4, <1>5, <1>6, <1>7, <1>8, <1>10 DEF OrchInv, NothingLeftOut, PhaseNames
<1>12. PlanWhole'
  BY <1>1, <1>7 DEF PlanWhole, PhaseNames
<1> QED
  BY <1>9, <1>11, <1>12 DEF OrchInv

\* One entity of a phase: extracted, transformed, loaded, refused or deleted.
LEMMA EntityKeeps ==
  ASSUME OrchInv, NEW e \in Entities,
         \/ ExtractOne(e)
         \/ \E succeeds \in BOOLEAN : \/ TransformOne(e, succeeds) \/ LoadOne(e, succeeds)
                                      \/ DeleteObject(e, succeeds)
  PROVE  OrchInv'
<1>1. run.pc \in {"extract", "transform", "load", "undo"} /\ UNCHANGED state
  BY DEF ExtractOne, TransformOne, LoadOne, DeleteObject, Undoing
<1>2. /\ run'.pc = run.pc /\ run'.left = run.left /\ run'.inc = run.inc
      /\ run'.todo = run.todo \ {e}
      /\ run' \in [pc : PhaseNames \cup {"idle", "next", "undo"}, cmd : Commands,
                left : Seq(PhaseNames), todo : SUBSET Entities,
                ok : BOOLEAN, bad : BOOLEAN, inc : BOOLEAN, sql : BOOLEAN]
  <2>1. CASE ExtractOne(e) \/ \E succeeds \in BOOLEAN : DeleteObject(e, succeeds)
    BY <2>1 DEF ExtractOne, DeleteObject, OrchInv, OrchTypes, CommandsRunning
  <2>2. CASE \E succeeds \in BOOLEAN : TransformOne(e, succeeds) \/ LoadOne(e, succeeds)
    <3>1. PICK succeeds \in BOOLEAN : TransformOne(e, succeeds) \/ LoadOne(e, succeeds)
      BY <2>2
    <3> DEFINE o == run.ok \/ succeeds
               b == run.bad \/ ~succeeds
               w == run.todo \ {e}
    <3>2. \/ run' = [run EXCEPT !.todo = w, !.ok = o, !.bad = b]
          \/ run' = [run EXCEPT !.todo = w, !.bad = b]
      BY <3>1 DEF TransformOne, LoadOne
    <3>3. o \in BOOLEAN /\ b \in BOOLEAN
      OBVIOUS
    <3>4. w \in SUBSET Entities /\ w = run.todo \ {e}
      BY DEF OrchInv, OrchTypes, CommandsRunning
    <3> HIDE DEF o, b, w
    <3> QED
      BY <3>2, <3>3, <3>4, ZenonT(30) DEF OrchInv, OrchTypes, CommandsRunning
  <2> QED
    BY <2>1, <2>2
<1>3. /\ batch' \in [waiting : SUBSET Entities, ready : SUBSET Entities]
      /\ qtest' \in [objects : SUBSET Entities, mapped : SUBSET Entities]
      /\ zephyr' \in [since : SUBSET Entities, refused : SUBSET Entities, changes : Nat, runs : Nat]
      /\ Covered \subseteq Covered' /\ zephyr'.since = zephyr.since
      /\ run.pc = "extract" => e \in Covered'
  <2>1. CASE ExtractOne(e)
    BY <2>1 DEF ExtractOne, Covered, OrchInv, OrchTypes, CommandsRunning
  <2>2. CASE \E succeeds \in BOOLEAN : TransformOne(e, succeeds)
    <3>1. PICK succeeds \in BOOLEAN : TransformOne(e, succeeds)
      BY <2>2
    <3>2. CASE succeeds
      BY <3>1, <3>2 DEF TransformOne, Covered, OrchInv, OrchTypes, CommandsRunning
    <3>3. CASE ~succeeds
      BY <3>1, <3>3 DEF TransformOne, Covered, OrchInv, OrchTypes, CommandsRunning
    <3> QED
      BY <3>2, <3>3
  <2>3. CASE \E succeeds \in BOOLEAN : LoadOne(e, succeeds)
    <3>1. PICK succeeds \in BOOLEAN : LoadOne(e, succeeds)
      BY <2>3
    <3>2. CASE succeeds
      <4> DEFINE r == batch.ready \ {e}
                 o == qtest.objects \cup {e}
                 m == qtest.mapped \cup {e}
      <4>1. /\ qtest' = [objects |-> o, mapped |-> m] /\ batch' = [batch EXCEPT !.ready = r]
            /\ UNCHANGED zephyr /\ run.pc = "load"
        BY <3>1, <3>2 DEF LoadOne
      <4>2. /\ r \in SUBSET Entities /\ o \in SUBSET Entities /\ m \in SUBSET Entities
            /\ qtest.mapped \cup batch.ready \subseteq m \cup r
        BY DEF OrchInv, OrchTypes
      <4> HIDE DEF r, o, m
      <4> QED
        BY <4>1, <4>2 DEF Covered, OrchInv, OrchTypes
    <3>3. CASE ~succeeds
      <4> DEFINE f == zephyr.refused \cup {e}
      <4>1. /\ zephyr' = [zephyr EXCEPT !.refused = f]
            /\ UNCHANGED <<qtest, batch>> /\ run.pc = "load"
        BY <3>1, <3>3 DEF LoadOne
      <4>2. f \in SUBSET Entities /\ zephyr.refused \subseteq f
        BY DEF OrchInv, OrchTypes
      <4> HIDE DEF f
      <4> QED
        BY <4>1, <4>2 DEF Covered, OrchInv, OrchTypes
    <3> QED
      BY <3>2, <3>3
  <2>4. CASE \E succeeds \in BOOLEAN : DeleteObject(e, succeeds)
    <3>1. PICK succeeds \in BOOLEAN : DeleteObject(e, succeeds)
      BY <2>4
    <3>2. CASE succeeds
      BY <3>1, <3>2 DEF DeleteObject, Undoing, Covered, OrchInv, OrchTypes, CommandsRunning
    <3>3. CASE ~succeeds
      BY <3>1, <3>3 DEF DeleteObject, Undoing, Covered, OrchInv, OrchTypes, CommandsRunning
    <3> QED
      BY <3>2, <3>3
  <2> QED
    BY <2>1, <2>2, <2>3, <2>4
<1>6. OrchTypes'
  BY <1>1, <1>2, <1>3 DEF OrchInv, OrchTypes, CommandsRunning
<1>7. NothingLeftOut'
  BY <1>1, <1>2, <1>3 DEF OrchInv, NothingLeftOut, Fresh, Extracted
<1>8. PlanWhole'
  BY <1>1, <1>2 DEF OrchInv, PlanWhole
<1> QED
  BY <1>6, <1>7, <1>8 DEF OrchInv

\* A call raises: the command is over, its phase failed.
LEMMA RaisingKeeps ==
  ASSUME OrchInv, PhaseRaises \/ \E e \in Entities : LoadRaises(e) PROVE OrchInv'
<1>1. PICK p \in {"extract", "transform", "load"} :
        run.pc = p /\ state' = [state EXCEPT ![p] = "failed"] /\ run' = NoCommand
  BY DEF PhaseRaises, LoadRaises, Raise
<1>2. /\ qtest' \in [objects : SUBSET Entities, mapped : SUBSET Entities]
      /\ qtest'.mapped = qtest.mapped /\ UNCHANGED <<batch, zephyr>>
  BY DEF PhaseRaises, LoadRaises, OrchInv, OrchTypes, CommandsRunning
<1>3. /\ state' \in [{"extract", "transform", "load", "rollback"} -> Statuses]
      /\ state'.rollback = state.rollback
      /\ Extracted' <=> Extracted
  BY <1>1 DEF OrchInv, OrchTypes, CommandsRunning, NothingLeftOut, Statuses, Extracted
<1>4. OrchTypes'
  BY <1>1, <1>2, <1>3, NoCommandType DEF OrchInv, OrchTypes, CommandsRunning
<1>5. NothingLeftOut' /\ PlanWhole'
  BY <1>1, <1>2, <1>3, NoCommandType
     DEF OrchInv, NothingLeftOut, PlanWhole, Fresh, Covered
<1> QED
  BY <1>4, <1>5 DEF OrchInv

\* A phase ends: its status is recorded and the next one may begin.
LEMMA PhaseEndKeeps ==
  ASSUME OrchInv, \/ EndExtract \/ EndTransform \/ EndLoad \/ RollbackFails \/ EndRollback
                  \/ \E raises \in BOOLEAN : Validate(raises)
  PROVE  OrchInv'
<1>1. UNCHANGED <<batch, qtest, zephyr>> /\ Covered' = Covered
  BY DEF EndExtract, EndTransform, EndLoad, RollbackFails, EndRollback, Validate, Covered
<1>2. TransformResult \in Statuses
  BY DEF TransformResult, Statuses
<1>3. state' \in [{"extract", "transform", "load", "rollback"} -> Statuses]
  BY <1>2 DEF EndExtract, EndTransform, EndLoad, RollbackFails, EndRollback, Validate,
              OrchInv, OrchTypes, CommandsRunning, Statuses
<1>4. /\ run' \in [pc : {"idle", "next"}, cmd : Commands,
                left : Seq(PhaseNames), todo : SUBSET Entities,
                ok : BOOLEAN, bad : BOOLEAN, inc : BOOLEAN, sql : BOOLEAN]
      /\ run'.pc = "idle" => ~run'.inc
      /\ run'.inc => run.inc /\ (run'.left = run.left \/ run.pc = "undo")
  <2>1. CASE EndExtract \/ EndTransform \/ EndLoad \/ EndRollback
    <3>1. run' = [run EXCEPT !.pc = "next"]
      BY <2>1 DEF EndExtract, EndTransform, EndLoad, EndRollback
    <3> QED
      BY <3>1 DEF OrchInv, OrchTypes, CommandsRunning
  <2>2. CASE RollbackFails
    <3>1. run' = [run EXCEPT !.pc = "next", !.left = <<>>] /\ run.pc = "undo"
      BY <2>2 DEF RollbackFails
    <3>2. <<>> \in Seq(PhaseNames)
      OBVIOUS
    <3> QED
      BY <3>1, <3>2 DEF OrchInv, OrchTypes, CommandsRunning
  <2>3. CASE \E raises \in BOOLEAN : Validate(raises)
    BY <2>3, NoCommandType, ZenonT(30) DEF Validate, OrchInv, OrchTypes, CommandsRunning
  <2> QED
    BY <2>1, <2>2, <2>3
<1>5. OrchTypes'
  BY <1>1, <1>3, <1>4 DEF OrchInv, OrchTypes, CommandsRunning
<1>6. /\ Extracted' <=> Extracted \/ run.pc = "extract"
      /\ Fresh' <=> Fresh /\ run.pc # "undo"
  BY DEF EndExtract, EndTransform, EndLoad, RollbackFails, EndRollback, Validate,
         OrchInv, OrchTypes, CommandsRunning, NothingLeftOut, Extracted, Fresh
<1>7. run.pc = "extract" => run.todo = {}
  BY DEF EndExtract, EndTransform, EndLoad, RollbackFails, EndRollback, Validate
<1>8. NothingLeftOut'
  BY <1>1, <1>4, <1>6, <1>7 DEF OrchInv, NothingLeftOut
<1>9. PlanWhole'
  BY <1>4 DEF PlanWhole
<1> QED
  BY <1>5, <1>8, <1>9 DEF OrchInv

-----------------------------------------------------------------------------
(* The rollback. *)

LEMMA PlanRollbackKeeps == ASSUME OrchInv, PlanRollback PROVE OrchInv'
<1> DEFINE l == Undone("load", {"completed", "partial"})
                  \o Undone("transform", {"completed"}) \o Undone("extract", {"completed"})
<1>1. /\ l \in Plans
      /\ state.load \in {"completed", "partial"} => l # <<>> /\ Head(l) = "load"
      /\ state.transform = "completed" =>
             l \in {<<"load", "transform">>, <<"load", "transform", "extract">>,
                    <<"transform">>, <<"transform", "extract">>}
  <2> DEFINE u == Undone("load", {"completed", "partial"})
             t == Undone("transform", {"completed"})
             x == Undone("extract", {"completed"})
  <2>1. /\ u = IF state.load \in {"completed", "partial"} THEN <<"load">> ELSE <<>>
        /\ t = IF state.transform = "completed" THEN <<"transform">> ELSE <<>>
        /\ x = IF state.extract = "completed" THEN <<"extract">> ELSE <<>>
    BY DEF Undone
  <2>2. u \in {<<>>, <<"load">>} /\ t \in {<<>>, <<"transform">>} /\ x \in {<<>>, <<"extract">>}
    BY <2>1
  <2>3. <<"load">> # <<>> /\ <<"transform">> # <<>> /\ <<"extract">> # <<>>
        /\ <<"load", "transform">> # <<>> /\ <<"load", "extract">> # <<>>
        /\ <<"load", "transform", "extract">> # <<>>
    OBVIOUS
  <2>4. l = u \o t \o x
    OBVIOUS
  <2> HIDE DEF u, t, x, l
  <2>5. l = IF u = <<>>
            THEN IF t = <<>> THEN x
                 ELSE IF x = <<>> THEN <<"transform">> ELSE <<"transform", "extract">>
            ELSE IF t = <<>>
                 THEN IF x = <<>> THEN <<"load">> ELSE <<"load", "extract">>
                 ELSE IF x = <<>> THEN <<"load", "transform">>
                      ELSE <<"load", "transform", "extract">>
    BY <2>2, <2>4, PlansJoined
  <2> QED
    BY <2>1, <2>3, <2>5, PlansBegin DEF Plans
<1>2. l \in Seq(PhaseNames)
  <2>1. /\ Undone("load", {"completed", "partial"}) \in Seq(PhaseNames)
        /\ Undone("transform", {"completed"}) \in Seq(PhaseNames)
        /\ Undone("extract", {"completed"}) \in Seq(PhaseNames)
    <3>1. {"load", "transform", "extract"} \subseteq PhaseNames /\ <<>> \in Seq(PhaseNames)
      BY DEF PhaseNames
    <3> QED
      BY <3>1, PhaseLists DEF Undone
  <2> QED
    BY <2>1, PhaseLists
<1>3. UNCHANGED <<state, batch, qtest, zephyr>> /\ run.pc = "rollback"
  BY DEF PlanRollback
<1>4. PICK todo \in SUBSET Entities :
        run' = [run EXCEPT !.pc = "undo", !.left = l, !.todo = todo]
  BY DEF PlanRollback, OrchInv, OrchTypes, CommandsRunning
<1> HIDE DEF l
<1>5. OrchTypes'
  BY <1>2, <1>3, <1>4 DEF OrchInv, OrchTypes, CommandsRunning
<1>6. run'.pc = "undo" /\ run'.left = l /\ run'.inc = run.inc
  BY <1>4 DEF OrchInv, OrchTypes, CommandsRunning
<1>7. NothingLeftOut'
  BY <1>3, <1>6 DEF OrchInv, NothingLeftOut, Fresh, Extracted
<1>8. PlanWhole'
  BY <1>1, <1>3, <1>6 DEF PlanWhole
<1> QED
  BY <1>5, <1>7, <1>8 DEF OrchInv

\* The first phase of the plan is recorded as rolled back.
LEMMA UndoneKeeps ==
  ASSUME OrchInv, LoadedUndone \/ \E p \in {"transform", "extract"} : RowsUndone(p)
  PROVE  OrchInv'
<1>1. PICK p \in {"load", "transform", "extract"}, ok \in BOOLEAN :
        /\ run.pc = "undo" /\ run.left # <<>> /\ Head(run.left) = p
        /\ state' = [state EXCEPT ![p] = "rolled_back"]
        /\ run' = [run EXCEPT !.left = Tail(run.left), !.ok = ok]
        /\ UNCHANGED <<batch, qtest, zephyr>>
  <2>1. CASE LoadedUndone
    <3>1. run.ok \in BOOLEAN /\ run' = [run EXCEPT !.left = Tail(run.left), !.ok = run.ok]
      BY <2>1 DEF LoadedUndone, OrchInv, OrchTypes, CommandsRunning
    <3> QED
      BY <2>1, <3>1 DEF LoadedUndone, Undoing
  <2>2. CASE \E p \in {"transform", "extract"} : RowsUndone(p)
    BY <2>2 DEF RowsUndone, Undoing
  <2> QED
    BY <2>1, <2>2
<1>2. Tail(run.left) \in Seq(PhaseNames)
  BY <1>1, PhaseLists DEF OrchInv, OrchTypes, CommandsRunning
<1>3. OrchTypes'
  BY <1>1, <1>2 DEF OrchInv, OrchTypes, CommandsRunning, Statuses
<1>4. /\ run'.pc = "undo" /\ run'.left = Tail(run.left) /\ run'.inc = run.inc
      /\ state'.rollback = state.rollback /\ state'[p] = "rolled_back"
      /\ \A q \in {"load", "transform", "extract"} \ {p} : state'[q] = state[q]
  BY <1>1 DEF OrchInv, OrchTypes, CommandsRunning
<1>5. NothingLeftOut'
  BY <1>1, <1>4 DEF OrchInv, NothingLeftOut, Fresh
<1>6. PlanWhole'
  <2>1. Tail(run.left) \in Plans
    BY <1>1, PlansShrink DEF OrchInv, PlanWhole, Plans
  <2>2. state'.load \notin {"completed", "partial"}
    BY <1>1, <1>4 DEF OrchInv, PlanWhole
  <2>3. ASSUME state'.transform = "completed"
        PROVE  Tail(run.left) \in {<<"transform">>, <<"transform", "extract">>}
    <3>1. p # "transform" /\ state.transform = "completed"
      BY <1>4, <2>3
    <3> QED
      BY <1>1, <3>1, PlansBegin, PlansShrink DEF OrchInv, PlanWhole
  <2> QED
    BY <1>4, <2>1, <2>2, <2>3 DEF PlanWhole
<1> QED
  BY <1>3, <1>5, <1>6 DEF OrchInv

LEMMA DeleteRowsKeeps ==
  ASSUME OrchInv, NEW p \in {"transform", "extract"}, DeleteRows(p) PROVE OrchInv'
<1>1. run.pc = "undo" /\ UNCHANGED <<state, qtest, zephyr>> /\ run' = [run EXCEPT !.ok = TRUE]
  BY DEF DeleteRows, Undoing
<1>2. OrchTypes'
  BY <1>1 DEF DeleteRows, OrchInv, OrchTypes, CommandsRunning
<1>3. run'.pc = "undo" /\ run'.left = run.left /\ run'.inc = run.inc
  BY <1>1 DEF OrchInv, OrchTypes, CommandsRunning
<1>4. NothingLeftOut' /\ PlanWhole'
  BY <1>1, <1>3 DEF OrchInv, NothingLeftOut, PlanWhole, Fresh
<1> QED
  BY <1>2, <1>4 DEF OrchInv

LEMMA OrchInvStep == OrchInv /\ [OrchNext]_orchVars => OrchInv'
<1> SUFFICES ASSUME OrchInv, [OrchNext]_orchVars PROVE OrchInv'
  OBVIOUS
<1>1. CASE CommandStep
  BY <1>1, SkipPhaseKeeps, BeginPhaseKeeps, RaisingKeeps, PhaseEndKeeps, PlanRollbackKeeps,
     UndoneKeeps, DeleteRowsKeeps, EntityKeeps, EndingKeeps DEF CommandStep
<1>2. CASE Crash
  BY <1>2, EndingKeeps
<1>3. CASE \E cmd \in Commands, sql \in BOOLEAN : StartCommand(cmd, sql)
  BY <1>3, StartCommandKeeps
<1>4. CASE \E e \in Entities : Change(e)
  BY <1>4, ChangeKeeps
<1>5. CASE UNCHANGED orchVars
  BY <1>5
     DEF orchVars, OrchInv, OrchTypes, CommandsRunning, NothingLeftOut, PlanWhole, Fresh, Extracted,
         Covered
<1> QED
  BY <1>1, <1>2, <1>3, <1>4, <1>5 DEF OrchNext, Commands

-----------------------------------------------------------------------------

\* WorkflowOrchestrator: through failed, crashed, resumed and incremental
\* commands no entity of a completed extraction disappears before the rollback,
\* and the rollback undoes the phases from the last to the first.
THEOREM MigrationIsSound == OrchSpec => []MigrationSound
<1>1. OrchSpec => []OrchInv
  BY InitOrch, OrchInvStep, PTL DEF OrchSpec
<1> QED
  BY <1>1, OrchInvImpliesSound, PTL
=============================================================================
