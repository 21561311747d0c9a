---------------------------- MODULE QTestClient ----------------------------
(***************************************************************************)
(* The request path of QTestClient (ztoq/qtest_client.py): the counters,   *)
(* the rate limit, the token and the 401 retry of _make_request, executed  *)
(* by several threads that share one client, as upload_attachments_parallel*)
(* and the migration's thread pools do.  The server is external: it may    *)
(* stop to accept the token, it counts requests per rate-limit window and  *)
(* it may answer with an error or not at all.                              *)
(*                                                                         *)
(* A call of _make_request that meets a 401 calls itself inside its        *)
(* try/with block; the frames differ in nothing but their retry count, so  *)
(* the stack of a thread is call[t].retry + 1 frames high.                 *)
(***************************************************************************)
EXTENDS Integers, FiniteSets

CONSTANTS
    Callers,       \* threads that share the client
    AuthRetries,   \* _max_retries, the re-authentications a call may use
    WindowBudget,  \* requests the server admits per rate-limit window
    LastWindow,    \* bound: the last window, which admits every request
    MaxApiCalls    \* bound on the calls started

ASSUME ClientAssumption ==
    /\ AuthRetries \in Nat /\ LastWindow \in Nat /\ MaxApiCalls \in Nat
    /\ WindowBudget \in Nat \ {0}
    /\ IsFiniteSet(Callers)

VARIABLES
    client,   \* the fields of the shared QTestClient
    call,     \* per thread: the call it executes
    api       \* the server: token accepted?, window, budget left, refusals answered
clientVars == <<client, call, api>>

Ops == {"plain", "upload", "revoke"}
CallStates == {"idle", "enter", "sleep", "auth", "copy", "send", "wait", "reauth",
               "unwind", "ok", "cleared"}
Answers == {"none", "ok", "401", "limited", "error", "lost"}

NoCall == [pc |-> "idle", op |-> "plain", retry |-> 0, custom |-> TRUE, header |-> TRUE,
           answer |-> "none", left |-> 0, resets |-> 0, sessions |-> 0]

\* The counters, ghost counters of calls and of calls that failed with 401.
ClientInit ==
    /\ client = [token |-> TRUE, header |-> TRUE, remaining |-> WindowBudget, reset |-> 0,
                 requests |-> 0, errors |-> 0, calls |-> 0, authFailed |-> 0]
    /\ call = [t \in Callers |-> NoCall]
    /\ api = [accepts |-> TRUE, window |-> 0, left |-> WindowBudget, refused |-> 0]

Set(t, c) == call' = [call EXCEPT ![t] = c]

\* A public method builds its endpoint and calls _make_request.  An upload
\* passes its own copy of the headers; revoke_token returns at once when no
\* token is held.
StartCall(t, op) ==
    /\ call[t].pc = "idle" /\ client.calls < MaxApiCalls
    /\ op = "revoke" => client.token
    /\ client' = [client EXCEPT !.calls = @ + 1]
    /\ Set(t, [NoCall EXCEPT !.pc = "enter", !.op = op, !.custom = client.header,
                             !.sessions = call[t].sessions])
    /\ UNCHANGED api

\* The head of a frame: count the request, wait while the limit is used up.
EnterRequest(t) ==
    /\ call[t].pc = "enter"
    /\ client' = [client EXCEPT !.requests = @ + 1]
    /\ Set(t, [call[t] EXCEPT !.pc = IF client.remaining <= 0 /\ client.reset > api.window
                      THEN "sleep" ELSE "auth",
               !.resets = client.reset])
    /\ UNCHANGED api

\* time.sleep until the reset read before it; the limit is not read again.
WakeUp(t) ==
    /\ call[t].pc = "sleep" /\ api.window >= call[t].resets
    /\ Set(t, [call[t] EXCEPT !.pc = "auth"])
    /\ UNCHANGED <<client, api>>

\* _authenticate with the bearer token of the configuration.  (The password
\* branch uses a module that is never imported, so a client that exists has
\* a bearer token.)
Authenticated(c) == [c EXCEPT !.token = TRUE, !.header = TRUE]

CheckToken(t) ==
    /\ call[t].pc = "auth"
    /\ client' = IF client.token THEN client ELSE Authenticated(client)
    /\ Set(t, [call[t] EXCEPT !.pc = "copy"])
    /\ UNCHANGED api

\* request_headers = headers or self.headers.copy()
CopyHeaders(t) ==
    /\ call[t].pc = "copy"
    /\ Set(t, [call[t] EXCEPT !.pc = "send",
               !.header = IF call[t].op = "upload" THEN call[t].custom ELSE client.header])
    /\ UNCHANGED <<client, api>>

\* The request reaches the server with a session of the pool in hand.
Serve(t) ==
    LET limited == api.left = 0 /\ api.window < LastWindow
        authorised == call[t].header /\ api.accepts
        left == IF api.left = 0 THEN 0 ELSE api.left - 1
    IN /\ call[t].pc = "send"
       /\ \E a \in Answers \ {"none"} :
            /\ limited => a \in {"limited", "lost"}
            /\ ~limited /\ ~authorised => a \in {"401", "lost"}
            /\ ~limited /\ authorised => a \in {"ok", "error", "lost"}
            /\ Set(t, [call[t] EXCEPT !.pc = "wait", !.answer = a, !.sessions = call[t].sessions + 1,
                       !.left = IF api.window = LastWindow THEN WindowBudget ELSE left,
                       !.resets = api.window + 1])
            /\ api' = [api EXCEPT
                 !.left = left,
                 !.refused = IF a = "limited" THEN @ + 1 ELSE @,
                 !.accepts = @ /\ ~(call[t].op = "revoke" /\ a = "ok")]
       /\ UNCHANGED client

\* The rate limit of an answer is kept as it arrives, whatever was kept before.
Limits(t, c) ==
    IF call[t].answer = "lost" THEN c
    ELSE [c EXCEPT !.remaining = call[t].left, !.reset = call[t].resets]

\* Mutant: the outermost frame keeps its session.
FrameRaises_KeepsSession(t) ==
    Set(t, IF call[t].retry = 0 THEN [NoCall EXCEPT !.sessions = call[t].sessions]
           ELSE [call[t] EXCEPT !.pc = "unwind", !.retry = @ - 1, !.sessions = @ - 1])

\* A frame that raises: the session goes back, the next outer frame catches;
\* from the outermost frame the method raises (or returns False).
FrameRaises(t) ==
    Set(t, IF call[t].retry = 0 THEN [NoCall EXCEPT !.sessions = call[t].sessions - 1]
           ELSE [call[t] EXCEPT !.pc = "unwind", !.retry = @ - 1, !.sessions = @ - 1])

\* Every frame returns the answer of the inner one; revoke_token goes on.
AnswerOk(t) ==
    /\ call[t].pc = "wait" /\ call[t].answer = "ok"
    /\ client' = Limits(t, client)
    /\ Set(t, [NoCall EXCEPT !.pc = IF call[t].op = "revoke" THEN "ok" ELSE "idle",
                             !.op = IF call[t].op = "revoke" THEN "revoke" ELSE "plain",
                             !.sessions = call[t].sessions - (call[t].retry + 1)])
    /\ UNCHANGED api

Answer401(t) ==
    /\ call[t].pc = "wait" /\ call[t].answer = "401"
    /\ call[t].retry < AuthRetries
    /\ client' = [Limits(t, client) EXCEPT !.token = FALSE]
    /\ Set(t, [call[t] EXCEPT !.pc = "reauth"])
    /\ UNCHANGED api

\* Re-authenticate and call again, inside the session of this frame.
Reauthenticate(t) ==
    /\ call[t].pc = "reauth"
    /\ client' = Authenticated(client)
    /\ Set(t, [call[t] EXCEPT !.pc = "enter", !.retry = call[t].retry + 1])
    /\ UNCHANGED api

\* The last 401 is counted before raise_for_status and again by the handler.
Final401(t) ==
    /\ call[t].pc = "wait" /\ call[t].answer = "401"
    /\ call[t].retry >= AuthRetries
    /\ client' = [Limits(t, client) EXCEPT !.errors = @ + 2, !.authFailed = @ + 1]
    /\ FrameRaises(t)
    /\ UNCHANGED api

AnswerError(t) ==
    /\ call[t].pc = "wait" /\ call[t].answer \in {"limited", "error", "lost"}
    /\ client' = [Limits(t, client) EXCEPT !.errors = @ + 1]
    /\ FrameRaises(t)
    /\ UNCHANGED api

\* Every outer frame counts the exception that passes through it.
Unwind(t) ==
    /\ call[t].pc = "unwind"
    /\ client' = [client EXCEPT !.errors = @ + 1]
    /\ FrameRaises(t)
    /\ UNCHANGED api

\* revoke_token: forget the token, then drop the header.
ForgetToken(t) ==
    /\ call[t].pc = "ok"
    /\ client' = [client EXCEPT !.token = FALSE]
    /\ Set(t, [call[t] EXCEPT !.pc = "cleared"])
    /\ UNCHANGED api

DropHeader(t) ==
    /\ call[t].pc = "cleared"
    /\ client' = [client EXCEPT !.header = FALSE]
    /\ Set(t, NoCall)
    /\ UNCHANGED api

\* The server: the token expires, the window of the rate limit ends.
TokenExpires ==
    /\ api.accepts /\ api' = [api EXCEPT !.accepts = FALSE]
    /\ UNCHANGED <<client, call>>

NextWindow ==
    /\ api.window < LastWindow
    /\ api' = [api EXCEPT !.window = @ + 1, !.left = WindowBudget, !.refused = 0]
    /\ UNCHANGED <<client, call>>

CallStep(t) ==
    \/ EnterRequest(t) \/ WakeUp(t) \/ CheckToken(t) \/ CopyHeaders(t) \/ Serve(t)
    \/ AnswerOk(t) \/ Answer401(t) \/ Reauthenticate(t) \/ Final401(t) \/ AnswerError(t)
    \/ Unwind(t) \/ ForgetToken(t) \/ DropHeader(t)

ClientNext ==
    \/ \E t \in Callers : CallStep(t) \/ \E op \in Ops : StartCall(t, op)
    \/ TokenExpires
    \/ NextWindow

\* A thread that runs makes progress; a window that somebody waits for ends.
AwaitedWindow == NextWindow /\ \E t \in Callers : call[t].pc = "sleep"
ClientFairness ==
    (\A t \in Callers : WF_clientVars(CallStep(t))) /\ WF_clientVars(AwaitedWindow)

ClientSpec == ClientInit /\ [][ClientNext]_clientVars /\ ClientFairness

----------------------------------------------------------------------------
(***************************** Properties *********************************)

\* Types of the client's fields, the calls and the server.
ClientTypeOK ==
    /\ client \in [token : BOOLEAN, header : BOOLEAN, remaining : Nat, reset : Nat,
                   requests : Nat, errors : Nat, calls : 0..MaxApiCalls, authFailed : Nat]
    /\ call \in [Callers -> [pc : CallStates, op : Ops, retry : 0..AuthRetries,
                   custom : BOOLEAN, header : BOOLEAN, answer : Answers, left : Nat,
                   resets : Nat, sessions : Nat]]
    /\ api \in [accepts : BOOLEAN, window : 0..LastWindow, left : 0..WindowBudget,
                refused : Nat]

\* The nested retry of _make_request takes one session per frame and gives
\* each back however the frame ends: a thread between two calls holds none,
\* a thread in a call never more than its frames.
SessionsReturned ==
    \A t \in Callers :
        /\ call[t].pc \in {"idle", "ok", "cleared"} => call[t].sessions = 0
        /\ call[t].pc \in {"wait", "reauth", "unwind"} => call[t].sessions = call[t].retry + 1
        /\ call[t].sessions <= AuthRetries + 1

\* A call that fails with 401 to the end does so because the server no longer
\* accepts the token, never because threads raced for the shared headers.
AuthFailureIsReal == client.authFailed > 0 => ~api.accepts

\* Threads test the limit, then send: the answers cross, and each thread may hold an
\* older answer that overwrites a newer one and reopens the limit.  Still, however many
\* calls are queued, the answers of a window that say that it is used up are bounded by
\* the threads: one for the first of them, two for the next one that reopens, and so on.
RefusalsBounded == 2 * api.refused <= Cardinality(Callers) * (Cardinality(Callers) + 1)

\* Failures are counted per frame, and the final 401 twice: error_count is
\* above request_count by at most the calls that failed with 401.
ErrorsCounted == client.errors <= client.requests + client.authFailed

\* Every call of the client returns or raises, whatever the server answers.
CallsReturn == \A t \in Callers : call[t].pc # "idle" ~> call[t].pc = "idle"

\* The request path accounts for its sessions, its errors and its refusals.
CallsAccounted ==
    ClientTypeOK /\ SessionsReturned /\ AuthFailureIsReal /\ RefusalsBounded /\ ErrorsCounted
=============================================================================
