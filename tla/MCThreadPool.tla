---------------------------- MODULE MCThreadPool ----------------------------
(***************************************************************************)
(* The queue with one of its users, for TLC: run_in_thread_pool, or any    *)
(* clients of the queue itself.                                            *)
(***************************************************************************)
EXTENDS ThreadPoolRun

VARIABLE user
poolVars == <<runVars, user>>

Alone(A) == A /\ UNCHANGED <<callerVars, user>>

PoolInit == RunInit /\ user \in {"caller", "clients"}

PoolNext ==
    \/ user = "caller" /\ RunNext /\ UNCHANGED user
    \/ user = "clients" /\ Alone(Next)

\* The fairness of RunSpec for the caller's queue and of FairSpec for the
\* clients' one.
PoolSpec ==
    /\ PoolInit /\ [][PoolNext]_poolVars
    /\ WF_poolVars(user = "caller" /\ Caller /\ UNCHANGED user)
    /\ SF_poolVars(user = "caller" /\ PollAgain /\ UNCHANGED user)
    /\ SF_poolVars(user = "caller" /\ CallerSuspended /\ Alone(Manager))
    /\ WF_poolVars(user = "clients" /\ Alone(Manager))
    /\ WF_poolVars(Alone(Shutdown))
    /\ \A w \in Items : WF_poolVars(Alone(Worker(w)))

\* run_in_thread_pool ends.
RunEnds == user = "caller" => Terminates
=============================================================================
