---------------------------- MODULE ZephyrClient ----------------------------
(***************************************************************************)
(* ZephyrClient (ztoq/zephyr_client.py): calls of several threads pass the *)
(* circuit breaker of their endpoint, the retry loop and the rate limit.   *)
(* Circuits live in a dictionary of the class that every thread reads and  *)
(* changes without a lock; a call keeps the circuit it looked up while     *)
(* reset_circuit_breakers or the periodic clean-up drop it from there.     *)
(*                                                                         *)
(* Time counts reset timeouts (60 s).  A call that has no positional       *)
(* endpoint (upload_attachment, download_attachment) looks up the circuit  *)
(* of None, one for all of them: it is just another endpoint here.         *)
(***************************************************************************)
EXTENDS Integers, FiniteSets, Sequences

CONSTANTS
    Requesters,       \* threads that share the client
    Endpoints,        \* circuit keys
    Threshold,        \* failure_threshold
    ZephyrRetries,    \* max_retries
    IdleTime,         \* idle_timeout of the clean-up, in reset timeouts
    MaxZephyrCalls, MaxTime, MaxResets   \* bounds

ASSUME ZephyrAssumption ==
    /\ Threshold \in Nat \ {0} /\ ZephyrRetries \in Nat /\ MaxZephyrCalls \in Nat
    /\ IdleTime \in Nat \ {0} /\ MaxTime \in Nat \ {0} /\ MaxResets \in Nat
    /\ IsFiniteSet(Requesters) /\ Endpoints # {}

VARIABLES
    circuits,   \* every CircuitBreaker object ever made
    registry,   \* _endpoint_circuits: endpoint -> index of its circuit, 0 for none
    request,    \* per thread: the call it executes
    clock       \* [now, calls, resets, limited]: limited until then, 0 for not
zephyrVars == <<circuits, registry, request, clock>>

CircuitStates == {"closed", "open", "half_open"}
\* last = 0: no failure yet; total is a ghost, all failures of the object.
NewCircuit == [state |-> "closed", failures |-> 0, last |-> 0, total |-> 0]

NoRequest == [pc |-> "idle", endpoint |-> CHOOSE e \in Endpoints : TRUE,
              circuit |-> 0, retries |-> 0]

ZephyrInit ==
    /\ circuits = <<>>
    /\ registry = [e \in Endpoints |-> 0]
    /\ request = [t \in Requesters |-> NoRequest]
    /\ clock = [now |-> 1, calls |-> 0, resets |-> 0, limited |-> 0]

Move(t, pc) == request' = [request EXCEPT ![t].pc = pc]
Return(t) == request' = [request EXCEPT ![t] = NoRequest]
Mine(t) == request[t].circuit

\* Mutant: circuits that rested for less than the idle time.
Idle_TooEarly(c) ==
    LET rested == IF c.last = 0 THEN MaxTime + 2 * IdleTime ELSE clock.now - c.last
    IN rested < 2 * IdleTime

\* cleanup_idle_circuits: what it would drop now.  last_failure_time is 0 for
\* a circuit that never failed, so such a circuit always counts as idle.
Idle(c) ==
    LET rested == IF c.last = 0 THEN MaxTime + 2 * IdleTime ELSE clock.now - c.last
    IN \/ c.failures = 0 /\ rested > IdleTime
       \/ c.state = "closed" /\ rested > 2 * IdleTime
Cleaned(reg) ==
    [e \in Endpoints |-> IF reg[e] # 0 /\ Idle(circuits[reg[e]]) THEN 0 ELSE reg[e]]

\* A public method is called: look up the circuit, with or without a clean-up
\* before (it runs once per hour), and make a new one when there is none.
LookUpCircuit(t, e, cleaning) ==
    LET reg == IF cleaning THEN Cleaned(registry) ELSE registry
        id  == IF reg[e] = 0 THEN Len(circuits) + 1 ELSE reg[e]
    IN /\ request[t].pc = "idle" /\ clock.calls < MaxZephyrCalls
       /\ clock' = [clock EXCEPT !.calls = @ + 1]
       /\ registry' = [reg EXCEPT ![e] = id]
       /\ circuits' = IF reg[e] = 0 THEN Append(circuits, NewCircuit) ELSE circuits
       /\ request' = [request EXCEPT ![t] =
            [pc |-> "check", endpoint |-> e, circuit |-> id, retries |-> 0]]

\* CircuitBreaker.__call__, before the call: fail fast while the circuit is
\* open and its reset timeout has not passed.
PassCircuit(t) ==
    /\ request[t].pc = "check" /\ circuits[Mine(t)].state # "open"
    /\ Move(t, "limit")
    /\ UNCHANGED <<circuits, registry, clock>>

FailFast(t) ==
    /\ request[t].pc = "check" /\ circuits[Mine(t)].state = "open"
    /\ clock.now - circuits[Mine(t)].last < 1
    /\ Return(t)
    /\ UNCHANGED <<circuits, registry, clock>>

HalfOpen(t) ==
    /\ request[t].pc = "check" /\ circuits[Mine(t)].state = "open"
    /\ clock.now - circuits[Mine(t)].last >= 1
    /\ circuits' = [circuits EXCEPT ![Mine(t)].state = "half_open"]
    /\ Move(t, "limit")
    /\ UNCHANGED <<registry, clock>>

\* _make_request waits for the rate limit to be renewed.
PassLimit(t) ==
    /\ request[t].pc = "limit" /\ clock.now >= clock.limited
    /\ Move(t, "send")
    /\ UNCHANGED <<circuits, registry, clock>>

\* The answer: the retry loop repeats a transient failure (connection, timeout,
\* 429, 500, 502, 503, 504) until max_retries of them were repeated.
AnswerSuccess(t) ==
    /\ request[t].pc = "send"
    /\ Move(t, "success")
    /\ UNCHANGED <<circuits, registry, clock>>

\* Mutant: retries are not counted.
AnswerTransient_Forever(t, limited) ==
    /\ request[t].pc = "send"
    /\ Move(t, "limit")
    /\ clock' = [clock EXCEPT !.limited = IF limited THEN clock.now + 1 ELSE @]
    /\ UNCHANGED <<circuits, registry>>

AnswerTransient(t, limited) ==
    /\ request[t].pc = "send"
    /\ request' = [request EXCEPT
         ![t].pc = IF request[t].retries + 1 > ZephyrRetries THEN "failure" ELSE "limit",
         ![t].retries = IF @ + 1 > ZephyrRetries THEN @ ELSE @ + 1]
    /\ clock' = [clock EXCEPT !.limited = IF limited THEN clock.now + 1 ELSE @]
    /\ UNCHANGED <<circuits, registry>>

\* Another HTTP error raises at once; a malformed answer (ValueError) does
\* too and is no failure for the circuit.
AnswerPermanent(t) ==
    /\ request[t].pc = "send"
    /\ Move(t, "failure")
    /\ UNCHANGED <<circuits, registry, clock>>

AnswerMalformed(t) ==
    /\ request[t].pc = "send"
    /\ Return(t)
    /\ UNCHANGED <<circuits, registry, clock>>

\* CircuitBreaker.__call__, after the call.  Closing is two assignments, and
\* a failure of another thread may fall between them.
Success(t) ==
    /\ request[t].pc = "success"
    /\ IF circuits[Mine(t)].state = "half_open"
       THEN circuits' = [circuits EXCEPT ![Mine(t)].state = "closed"] /\ Move(t, "closing")
       ELSE Return(t) /\ UNCHANGED circuits
    /\ UNCHANGED <<registry, clock>>

ForgetFailures(t) ==
    /\ request[t].pc = "closing"
    /\ circuits' = [circuits EXCEPT ![Mine(t)].failures = 0]
    /\ Return(t)
    /\ UNCHANGED <<registry, clock>>

\* Mutant: the circuit opens one failure early.
Failure_Early(t) ==
    LET c == circuits[Mine(t)]
    IN /\ request[t].pc = "failure"
       /\ circuits' = [circuits EXCEPT ![Mine(t)] =
            [state |-> IF c.failures + 1 >= Threshold - 1 THEN "open" ELSE c.state,
             failures |-> c.failures + 1, last |-> clock.now, total |-> c.total + 1]]
       /\ Return(t)
       /\ UNCHANGED <<registry, clock>>

Failure(t) ==
    LET c == circuits[Mine(t)]
    IN /\ request[t].pc = "failure"
       /\ circuits' = [circuits EXCEPT ![Mine(t)] =
            [state |-> IF c.state = "closed" /\ c.failures + 1 >= Threshold
                       THEN "open" ELSE c.state,
             failures |-> c.failures + 1, last |-> clock.now,
             total |-> c.total + 1]]
       /\ Return(t)
       /\ UNCHANGED <<registry, clock>>

\* reset_circuit_breakers and cleanup, called by the owner of the client.
ResetCircuits ==
    /\ clock.resets < MaxResets /\ \E e \in Endpoints : registry[e] # 0
    /\ registry' = [e \in Endpoints |-> 0]
    /\ clock' = [clock EXCEPT !.resets = @ + 1]
    /\ UNCHANGED <<circuits, request>>

CleanUp ==
    /\ registry' = Cleaned(registry) /\ registry' # registry
    /\ UNCHANGED <<circuits, request, clock>>

Tick ==
    /\ clock.now < MaxTime
    /\ clock' = [clock EXCEPT !.now = @ + 1,
                              !.limited = IF clock.now + 1 = MaxTime THEN 0 ELSE @]
    /\ UNCHANGED <<circuits, registry, request>>

RequestStep(t) ==
    \/ PassCircuit(t) \/ FailFast(t) \/ HalfOpen(t) \/ PassLimit(t)
    \/ AnswerSuccess(t) \/ AnswerTransient(t, FALSE) \/ AnswerPermanent(t)
    \/ AnswerTransient(t, clock.now < MaxTime) \/ AnswerMalformed(t)
    \/ Success(t) \/ ForgetFailures(t) \/ Failure(t)

ZephyrNext ==
    \/ \E t \in Requesters :
         \/ RequestStep(t)
         \/ \E e \in Endpoints, cleaning \in BOOLEAN : LookUpCircuit(t, e, cleaning)
    \/ ResetCircuits \/ CleanUp \/ Tick

\* Threads run, and time passes while a thread waits for it.
AwaitedTick == Tick /\ \E t \in Requesters : request[t].pc = "limit"
ZephyrFairness ==
    (\A t \in Requesters : WF_zephyrVars(RequestStep(t))) /\ WF_zephyrVars(AwaitedTick)

ZephyrSpec == ZephyrInit /\ [][ZephyrNext]_zephyrVars /\ ZephyrFairness

----------------------------------------------------------------------------
(***************************** Properties *********************************)

\* Types of circuits, registry and calls.
ZephyrTypeOK ==
    /\ circuits \in Seq([state : CircuitStates, failures : Nat, last : Nat, total : Nat])
    /\ registry \in [Endpoints -> 0..Len(circuits)]
    /\ request \in [Requesters ->
         [pc : {"idle", "check", "limit", "send", "success", "closing", "failure"},
          endpoint : Endpoints, circuit : 0..Len(circuits), retries : 0..ZephyrRetries]]
    /\ clock \in [now : 1..MaxTime, calls : 0..MaxZephyrCalls, resets : 0..MaxResets,
                  limited : Nat]

\* A circuit that tripped has met threshold failures of its own, also when
\* threads share it and one closes it while another fails.
TripsAfterThreshold ==
    \A i \in 1..Len(circuits) :
        circuits[i].state # "closed" => circuits[i].total >= Threshold

\* Two endpoints never share a circuit, whatever was dropped and made anew.
CircuitsApart ==
    \A d, e \in Endpoints : registry[d] = registry[e] /\ registry[d] # 0 => d = e

\* A circuit in its cooling-off period stays in the dictionary until the
\* circuits are reset: the clean-up does not let calls through early.
CoolingCircuitsKept ==
    [][\A e \in Endpoints :
         (registry[e] # 0 /\ registry'[e] # registry[e]
            /\ circuits[registry[e]].state = "open"
            /\ clock.now - circuits[registry[e]].last < 1)
         => clock'.resets > clock.resets]_zephyrVars

\* Every call returns or raises: the retries are bounded and a wait ends.
RequestsReturn ==
    \A t \in Requesters : request[t].pc # "idle" ~> request[t].pc = "idle"

\* Circuits trip for failures of their own endpoint only.
CircuitsSound == ZephyrTypeOK /\ TripsAfterThreshold /\ CircuitsApart
=============================================================================
