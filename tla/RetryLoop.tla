------------------------------ MODULE RetryLoop ------------------------------
(***************************************************************************)
(* RetryClient.do (llmx/client.go): the loop around every call to a model.  *)
(* Each attempt first looks at the context and waits for the rate limiter;   *)
(* a retryable failure is followed by a pause, the provider's if it asks for *)
(* one, else an exponential backoff with jitter.  Whoever composes this        *)
(* module decides when the context of a call is done (givenUp).  The options  *)
(* do not refuse a BaseBackoff above MaxBackoff; the assumption does.         *)
(***************************************************************************)
EXTENDS Integers

CONSTANTS
    Calls,
    MaxRetries,   \* negative: no retries
    BaseBackoff,
    MaxBackoff,
    Mandates      \* the delays a provider may ask for; 0 is none

ASSUME RetryLoopAssumption ==
    /\ MaxRetries \in Int
    /\ BaseBackoff \in Nat
    /\ MaxBackoff \in Nat /\ BaseBackoff <= MaxBackoff
    /\ Mandates \subseteq Nat /\ 0 \in Mandates

VARIABLES
    loop,      \* [Calls -> where the loop is]
    attempt,
    backoff,
    pause,     \* what the timer is set to
    mandate,   \* what the provider asked for, 0 if nothing
    requests,  \* how many requests the provider received
    givenUp    \* the calls whose context is done

loopVars == <<loop, attempt, backoff, pause, mandate, requests, givenUp>>

LoopEnds == {"succeeded", "failed", "canceled"}

LoopInit ==
    /\ loop = [c \in Calls |-> "idle"]
    /\ attempt = [c \in Calls |-> 0]
    /\ backoff = [c \in Calls |-> BaseBackoff]
    /\ pause = [c \in Calls |-> 0]
    /\ mandate = [c \in Calls |-> 0]
    /\ requests = [c \in Calls |-> 0]
    /\ givenUp = {}

Moves(c, to) == loop' = [loop EXCEPT ![c] = to]

Enter(c) ==
    /\ loop[c] = "idle"
    /\ Moves(c, "check")
    /\ UNCHANGED <<attempt, backoff, pause, mandate, requests, givenUp>>

\* The top of the loop looks at the context before it waits for the limiter.
CheckContext(c) ==
    /\ loop[c] = "check"
    /\ Moves(c, IF c \in givenUp THEN "canceled" ELSE "limited")
    /\ UNCHANGED <<attempt, backoff, pause, mandate, requests, givenUp>>

Admit(c) ==
    /\ loop[c] = "limited"
    /\ Moves(c, "calling")
    /\ requests' = [requests EXCEPT ![c] = @ + 1]
    /\ UNCHANGED <<attempt, backoff, pause, mandate, givenUp>>

LimiterGivesUp(c) ==
    /\ loop[c] = "limited"
    /\ c \in givenUp
    /\ Moves(c, "canceled")
    /\ UNCHANGED <<attempt, backoff, pause, mandate, requests, givenUp>>

Answered(c) ==
    /\ loop[c] = "calling"
    /\ Moves(c, "succeeded")
    /\ UNCHANGED <<attempt, backoff, pause, mandate, requests, givenUp>>

\* jitter: half the delay is kept, the other half is drawn.
Jitter(d) == d \div 2 .. 2 * (d \div 2)

\* Mutation of Pauses: the provider's delay is not capped.
PausesUncapped(c, asked) ==
    IF asked > 0 THEN {asked} ELSE Jitter(backoff[c])

Pauses(c, asked) ==
    IF asked > 0 THEN {IF asked < MaxBackoff THEN asked ELSE MaxBackoff} ELSE Jitter(backoff[c])

\* Mutation of Exhausted: one retry too many.
ExhaustedLate(c) == attempt[c] > MaxRetries

Exhausted(c) == attempt[c] >= MaxRetries

\* The request failed.  An error of the context is not retryable.
Refused(c, retryable, asked) ==
    /\ loop[c] = "calling"
    /\ mandate' = [mandate EXCEPT ![c] = asked]
    /\ IF Exhausted(c) \/ ~retryable
       THEN /\ Moves(c, "failed")
            /\ UNCHANGED pause
       ELSE /\ Moves(c, "pausing")
            /\ \E d \in Pauses(c, asked) : pause' = [pause EXCEPT ![c] = d]
    /\ UNCHANGED <<attempt, backoff, requests, givenUp>>

TimerFires(c) ==
    /\ loop[c] = "pausing"
    /\ Moves(c, "check")
    /\ attempt' = [attempt EXCEPT ![c] = @ + 1]
    /\ backoff' = [backoff EXCEPT ![c] = IF 2 * @ > MaxBackoff THEN MaxBackoff ELSE 2 * @]
    /\ UNCHANGED <<pause, mandate, requests, givenUp>>

PauseGivesUp(c) ==
    /\ loop[c] = "pausing"
    /\ c \in givenUp
    /\ Moves(c, "canceled")
    /\ UNCHANGED <<attempt, backoff, pause, mandate, requests, givenUp>>

LoopGoesOn(c) ==
    \/ CheckContext(c) \/ Admit(c) \/ LimiterGivesUp(c) \/ Answered(c)
    \/ \E retryable \in BOOLEAN, asked \in Mandates : Refused(c, retryable, asked)
    \/ TimerFires(c) \/ PauseGivesUp(c)

-----------------------------------------------------------------------------
\* "MaxRetries is the number of retries attempted after the first failure": the
\* provider receives one request more than that at most, and always one even
\* when retries are disabled.
RequestsBounded ==
    \A c \in Calls : requests[c] <= 1 + (IF MaxRetries > 0 THEN MaxRetries ELSE 0)

\* No pause is longer than MaxBackoff, whatever the provider asks for, and none
\* is shorter than what it asks for unless the cap makes it so.
PausesBounded ==
    \A c \in Calls : loop[c] = "pausing" =>
        /\ pause[c] <= MaxBackoff
        /\ mandate[c] > 0 => pause[c] >= mandate[c] \/ pause[c] = MaxBackoff
=============================================================================
