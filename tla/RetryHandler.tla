---------------------------- MODULE RetryHandler -----------------------------
(***************************************************************************)
(* MigrationRetryHandler.with_retry and RetryPolicy (ztoq/validation.py):  *)
(* threads call methods of the migration through wrappers that share one   *)
(* policy, to whose list of exceptions every wrapper adds its own.         *)
(***************************************************************************)
EXTENDS Integers

CONSTANTS
    RetryCallers,     \* threads
    MaxRetries   \* max_retries of the policy

ASSUME RetryAssumption == MaxRetries \in Nat

VARIABLES
    retryOn,     \* retry_exceptions of the shared policy
    retryCall    \* the call of each thread

retryVars == <<retryOn, retryCall>>

\* The wrapped methods: extraction and loading are also retried after an IOError.
WrappedMethods == {"extraction", "loading", "other"}
retry_on_exceptions(m) == IF m = "other" THEN {} ELSE {"IOError"}

\* What a call raises: its class and the status of the answer it holds, if any.
RaisedErrors == {"timeout", "HTTPError 503", "HTTPError 404", "IOError", "ValueError"}

\* The classes of the list that match.  HTTPError, which is in the list, is also an
\* IOError, and so are requests' timeouts.
Classes(error) ==
    CASE error \in {"HTTPError 503", "HTTPError 404"} -> {"HTTPError", "IOError"}
      [] error = "timeout"                            -> {"Timeout", "IOError"}
      [] OTHER                                        -> {error}

Retryable(error) == error = "HTTPError 503" \/ Classes(error) \cap retryOn # {}

\* Mutant: off by one.
should_retry_OneMore(attempt, error) == attempt <= MaxRetries /\ Retryable(error)

should_retry(attempt, error) == attempt < MaxRetries /\ Retryable(error)

NoRetryCall == [state |-> "idle", attempt |-> 0, calls |-> 0, raised |-> "none"]

\* The wrapper extends the shared list and calls the method.
CallBegins(t, m) ==
    /\ retryCall[t].state = "idle"
    /\ retryOn' = retryOn \cup retry_on_exceptions(m)
    /\ retryCall' = [retryCall EXCEPT ![t] = [NoRetryCall EXCEPT !.state = "calls", !.calls = 1]]

CallReturns(t) ==
    /\ retryCall[t].state = "calls"
    /\ retryCall' = [retryCall EXCEPT ![t].state = "idle"]
    /\ UNCHANGED retryOn

\* The method raises and the wrapper sleeps before it tries again.
CallSleeps(t, error) ==
    /\ retryCall[t].state = "calls"
    /\ should_retry(retryCall[t].attempt, error)
    /\ retryCall' = [retryCall EXCEPT ![t].state = "sleeps"]
    /\ UNCHANGED retryOn

CallsAgain(t) ==
    /\ retryCall[t].state = "sleeps"
    /\ retryCall' = [retryCall EXCEPT ![t].state = "calls", ![t].attempt = @ + 1, ![t].calls = @ + 1]
    /\ UNCHANGED retryOn

\* The method raises, and so does the wrapper.
CallGivesUp(t, error) ==
    /\ retryCall[t].state = "calls"
    /\ ~should_retry(retryCall[t].attempt, error)
    /\ retryCall' = [retryCall EXCEPT ![t].state = "idle", ![t].raised = error]
    /\ UNCHANGED retryOn

RetryInit ==
    /\ retryOn = {"Timeout", "HTTPError"}
    /\ retryCall = [t \in RetryCallers |-> NoRetryCall]

RetryNext ==
    \E t \in RetryCallers :
        \/ \E m \in WrappedMethods : CallBegins(t, m)
        \/ CallReturns(t) \/ CallsAgain(t)
        \/ \E e \in RaisedErrors : CallSleeps(t, e) \/ CallGivesUp(t, e)

RetrySpec == RetryInit /\ [][RetryNext]_retryVars

-----------------------------------------------------------------------------
\* However the threads change the shared policy, a method is called at most one time more
\* than it may be retried, and a failure that is always retryable is raised only then.
RetriesSound ==
    \A t \in RetryCallers :
        /\ retryCall[t].calls <= MaxRetries + 1
        /\ retryCall[t].raised \in {"timeout", "HTTPError 503", "HTTPError 404"} =>
               retryCall[t].calls = MaxRetries + 1
=============================================================================
