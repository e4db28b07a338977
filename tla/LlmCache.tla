------------------------------- MODULE LlmCache -------------------------------
(***************************************************************************)
(* CachingClient (llmx/cache.go): embeddings and seeded chat completions,    *)
(* one file per input.  Callers look the files up, and what is missing goes  *)
(* to the provider in one batch; a singleflight group lets callers with the  *)
(* same missing batch share one request.                                     *)
(*                                                                         *)
(* A caller makes one request.  Its flight, when it leads one, is named by   *)
(* the caller.  A vector is the text it embeds.                              *)
(***************************************************************************)
EXTENDS Naturals, Sequences, FiniteSets

CONSTANTS
    Callers,
    Texts,       \* inputs of embeddings
    Prompts,     \* seeded, tool-free completions
    MaxInputs,   \* longest batch (bound)
    MaxSpoils,   \* files that become unreadable, requests and writes that fail (bound)
    NoCaller

\* Vectors and completions are kept in two directories.
ASSUME CacheAssumption == Texts \intersect Prompts = {} /\ MaxInputs \in Nat

CacheKeys == Texts \union Prompts

VARIABLES
    files,      \* [CacheKeys -> {"absent", "good", "corrupt"}]
    place,      \* where each caller is
    asked,      \* its inputs
    slots,      \* the response so far: the vector of each input, "none" if not known
    missing,    \* the indexes of the inputs it did not find
    leader,     \* the caller whose flight it waits for
    flights,    \* the leaders of the flights in progress
    landed,     \* [Callers -> how the flight it led ended]
    billed,     \* what the provider charged the flight of each caller
    reported,   \* the usage each caller reports
    altered,    \* the callers that changed the vectors they got
    spoils

cacheVars == <<files, place, asked, slots, missing, leader, flights, landed, billed, reported,
               altered, spoils>>

Batches == (UNION {[1 .. n -> Texts] : n \in 1 .. MaxInputs}) \union [1 .. 1 -> Prompts]

IsChat(c) == \E k \in Prompts : asked[c] = <<k>>

\* What the flight is keyed by: the paths of the missing inputs, in order.
FlightKey(c) == [j \in 1 .. Len(missing[c]) |-> asked[c][missing[c][j]]]

CacheInit ==
    /\ files = [k \in CacheKeys |-> "absent"]
    /\ place = [c \in Callers |-> "idle"]
    /\ asked = [c \in Callers |-> <<>>]
    /\ slots = [c \in Callers |-> <<>>]
    /\ missing = [c \in Callers |-> <<>>]
    /\ leader = [c \in Callers |-> NoCaller]
    /\ flights = {}
    /\ landed = [c \in Callers |-> "none"]
    /\ billed = [c \in Callers |-> 0]
    /\ reported = [c \in Callers |-> 0]
    /\ altered = {}
    /\ spoils = 0

Goes(c, to) == place' = [place EXCEPT ![c] = to]

Spoil == spoils < MaxSpoils /\ spoils' = spoils + 1

Ask(c, inputs) ==
    /\ place[c] = "idle"
    /\ asked' = [asked EXCEPT ![c] = inputs]
    /\ Goes(c, "looking")
    /\ UNCHANGED <<files, slots, missing, leader, flights, landed, billed, reported, altered, spoils>>

\* One input is looked up; a file that cannot be read is a miss.
Look(c) ==
    LET i == Len(slots[c]) + 1
        hit == files[asked[c][i]] = "good"
    IN  /\ place[c] = "looking"
        /\ slots' = [slots EXCEPT ![c] = Append(@, IF hit THEN asked[c][i] ELSE "none")]
        /\ missing' = [missing EXCEPT ![c] = IF hit THEN @ ELSE Append(@, i)]
        /\ Goes(c, IF i < Len(asked[c]) THEN "looking"
                   ELSE IF missing'[c] = <<>> THEN "done" ELSE "missed")
        /\ UNCHANGED <<files, asked, leader, flights, landed, billed, reported, altered, spoils>>

\* Mutation of SameFlight: every caller leads a flight of its own.
SameFlightNever(c) == {}

SameFlight(c) == {d \in flights : FlightKey(d) = FlightKey(c)}

\* Mutation of Join: a completion is requested without a second look.
JoinUnchecked(c) ==
    /\ place[c] = "missed"
    /\ IF SameFlight(c) = {}
       THEN /\ flights' = flights \union {c}
            /\ Goes(c, "calling")
            /\ UNCHANGED leader
       ELSE /\ leader' = [leader EXCEPT ![c] = CHOOSE d \in SameFlight(c) : TRUE]
            /\ Goes(c, "waiting")
            /\ UNCHANGED flights
    /\ UNCHANGED <<files, asked, slots, missing, landed, billed, reported, altered, spoils>>

\* inflight.Do: join the flight of the same batch, or lead one.
Join(c) ==
    /\ place[c] = "missed"
    /\ IF SameFlight(c) = {}
       THEN /\ flights' = flights \union {c}
            /\ Goes(c, IF IsChat(c) THEN "rechecking" ELSE "calling")
            /\ UNCHANGED leader
       ELSE /\ leader' = [leader EXCEPT ![c] = CHOOSE d \in SameFlight(c) : TRUE]
            /\ Goes(c, "waiting")
            /\ UNCHANGED flights
    /\ UNCHANGED <<files, asked, slots, missing, landed, billed, reported, altered, spoils>>

\* Mutation of Lands: the waiters of a flight that fails are forgotten.
LandsUnheard(c, how) ==
    /\ flights' = flights \ {c}
    /\ landed' = IF how = "failed" THEN landed ELSE [landed EXCEPT ![c] = how]

\* Mutation of Lands: the flight stays in the group.
LandsStays(c, how) ==
    /\ flights' = flights
    /\ landed' = [landed EXCEPT ![c] = how]

\* The flight ends, and whoever waits for it may go on.
Lands(c, how) ==
    /\ flights' = flights \ {c}
    /\ landed' = [landed EXCEPT ![c] = how]

\* Mutation of Filled: the vectors are put in the first slots, not in the missing ones.
FilledInFront(c, touched) ==
    [i \in 1 .. Len(slots[c]) |-> IF i <= Len(missing[c])
                                  THEN IF touched THEN "altered" ELSE FlightKey(c)[i]
                                  ELSE slots[c][i]]

\* The slots of a caller with the vectors of its flight.
Filled(c, touched) ==
    [i \in 1 .. Len(slots[c]) |->
        IF \E j \in 1 .. Len(missing[c]) : missing[c][j] = i
        THEN IF touched THEN "altered" ELSE asked[c][i]
        ELSE slots[c][i]]

\* The winner of a completion looks again: an earlier flight may have written it.
Recheck(c) ==
    /\ place[c] = "rechecking"
    /\ IF files[asked[c][1]] = "good"
       THEN /\ Lands(c, "landed")
            /\ slots' = [slots EXCEPT ![c] = Filled(c, FALSE)]
            /\ Goes(c, "done")
       ELSE /\ Goes(c, "calling")
            /\ UNCHANGED <<flights, landed, slots>>
    /\ UNCHANGED <<files, asked, missing, leader, billed, reported, altered, spoils>>

Charged(c) ==
    /\ place[c] = "calling"
    /\ billed' = [billed EXCEPT ![c] = Len(missing[c])]
    /\ Goes(c, "storing")
    /\ UNCHANGED <<files, asked, slots, missing, leader, flights, landed, reported, altered, spoils>>

\* The provider fails, the leader's context is done, or a file cannot be
\* written: the flight fails, for the callers that wait for it as well.
FlightFails(c) ==
    /\ place[c] \in {"calling", "storing"}
    /\ Spoil
    /\ Lands(c, "failed")
    /\ Goes(c, "failed")
    /\ UNCHANGED <<files, asked, slots, missing, leader, billed, reported, altered>>

Unstored(c) == {k \in {FlightKey(c)[j] : j \in 1 .. Len(missing[c])} : files[k] # "good"}

\* Each file is written aside and renamed: readers see all of it or none.
StoreFile(c) ==
    /\ place[c] = "storing"
    /\ \E k \in Unstored(c) : files' = [files EXCEPT ![k] = "good"]
    /\ UNCHANGED <<place, asked, slots, missing, leader, flights, landed, billed, reported,
                   altered, spoils>>

\* The leader keeps the vectors of the answer, and reports what they cost.  A
\* completion with tool calls is not stored.
Return(c) ==
    /\ place[c] = "storing"
    /\ Unstored(c) = {} \/ IsChat(c)
    /\ Lands(c, "landed")
    /\ slots' = [slots EXCEPT ![c] = Filled(c, FALSE)]
    /\ reported' = [reported EXCEPT ![c] = billed[c]]
    /\ Goes(c, "done")
    /\ UNCHANGED <<files, asked, missing, leader, billed, altered, spoils>>

\* Mutation of Paid: who waited for a batch of embeddings reports it as well.
PaidAlways(c) == billed[leader[c]]

\* What a caller that waited reports: nothing for embeddings, which the leader
\* reports; a completion is shared with its usage.
Paid(c) == IF IsChat(c) THEN billed[leader[c]] ELSE 0

\* A caller that waited copies the vectors, once it runs again.
Wake(c) ==
    LET l == leader[c]
    IN  /\ place[c] = "waiting"
        /\ landed[l] # "none"
        /\ IF landed[l] = "landed"
           THEN /\ slots' = [slots EXCEPT ![c] = Filled(c, l \in altered)]
                /\ reported' = [reported EXCEPT ![c] = Paid(c)]
                /\ Goes(c, "done")
           ELSE Goes(c, "failed") /\ UNCHANGED <<slots, reported>>
        /\ UNCHANGED <<files, asked, missing, leader, flights, landed, billed, altered, spoils>>

\* A caller normalises or truncates the vectors it got, in place; it matters
\* while others wait for the flight it led.
Alter(c) ==
    /\ place[c] = "done"
    /\ \E d \in Callers : place[d] = "waiting" /\ leader[d] = c
    /\ ~IsChat(c)
    /\ altered' = altered \union {c}
    /\ UNCHANGED <<files, place, asked, slots, missing, leader, flights, landed, billed, reported,
                   spoils>>

\* A file becomes unreadable.
Corrupt(k) ==
    /\ files[k] = "good"
    /\ Spoil
    /\ files' = [files EXCEPT ![k] = "corrupt"]
    /\ UNCHANGED <<place, asked, slots, missing, leader, flights, landed, billed, reported, altered>>

CallGoesOn(c) ==
    \/ Look(c) \/ Join(c) \/ Recheck(c) \/ Charged(c) \/ StoreFile(c) \/ Return(c) \/ Wake(c)

CacheNext ==
    \/ \E c \in Callers :
          \/ \E inputs \in Batches : Ask(c, inputs)
          \/ CallGoesOn(c) \/ FlightFails(c) \/ Alter(c)
    \/ \E k \in CacheKeys : Corrupt(k)

CacheSpec == CacheInit /\ [][CacheNext]_cacheVars

-----------------------------------------------------------------------------
CacheTypeOK ==
    /\ files \in [CacheKeys -> {"absent", "good", "corrupt"}]
    /\ place \in [Callers -> {"idle", "looking", "missed", "rechecking", "calling", "storing",
                              "waiting", "done", "failed"}]
    /\ asked \in [Callers -> Batches \union {<<>>}]
    /\ \A c \in Callers : Len(slots[c]) <= Len(asked[c]) /\ Len(missing[c]) <= Len(slots[c])
    /\ leader \in [Callers -> Callers \union {NoCaller}]
    /\ flights = {c \in Callers : place[c] \in {"rechecking", "calling", "storing"}}
    /\ landed \in [Callers -> {"none", "landed", "failed"}]
    /\ altered \subseteq Callers

\* "A burst of identical requests costs one round-trip": no two requests for
\* the same batch are at the provider together.
OneRequestPerBatch ==
    \A c, d \in Callers :
        c # d /\ place[c] = "calling" /\ place[d] = "calling" => FlightKey(c) # FlightKey(d)

\* A completion is never requested while the cache holds it, whoever wrote it
\* between the caller's first look and its turn.
ChatNeverRepaid ==
    [][\A c \in Callers : IsChat(c) /\ place[c] = "calling" /\ place'[c] = "storing"
          => files[asked[c][1]] # "good"]_cacheVars

\* The response is in input order, whatever came from files, from the caller's
\* own request or from another's.
SlotsInOrder ==
    \A c \in Callers : place[c] = "done" =>
        \A i \in 1 .. Len(asked[c]) : slots[c][i] \in {asked[c][i], "altered"}

\* "Only the caller that actually issued the call was billed; the ones that
\* merely waited on it report no usage": embeddings are reported once.
ReportedIsBilled ==
    \A c \in Callers : place[c] = "done" /\ ~IsChat(c) => reported[c] = billed[c]

\* Every caller gets an answer: nobody waits for a flight that is over, also
\* when its leader failed.
CallersEnd == \A c \in Callers : place[c] = "looking" ~> place[c] \in {"done", "failed"}

\* What the callers of the caches of llmx rely on, whatever requests meet in
\* flight, are canceled or fail: one request for each batch (cache.go:134-260),
\* every vector at its place, the usage reported to the one who pays it, and a
\* chat that was answered never asked again.
CacheKeepsFaith ==
    /\ [](CacheTypeOK /\ OneRequestPerBatch /\ SlotsInOrder /\ ReportedIsBilled)
    /\ ChatNeverRepaid
=============================================================================
