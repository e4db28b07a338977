------------------------------ MODULE BlobStores ------------------------------
(***************************************************************************)
(* The two blob stores: the one that keeps a content file and a sidecar file *)
(* per blob (blob/fs) and the one that keeps a row per blob (blob/gorm),     *)
(* which of them is `backing`. Every call to the file system is a step, so that *)
(* the calls of several goroutines interleave between them and a crash of    *)
(* the process leaves the files of any prefix; a statement on the database is*)
(* one step. Hashes are numbers: their order is that of the walk.            *)
(***************************************************************************)
EXTENDS Naturals, Sequences, SequencesExt, FiniteSets

CONSTANTS
    Users,       \* goroutines that use the store
    Hashes,      \* contents, by their hash
    Mimes,       \* media types
    ListBatch,   \* listBatchSize of blob/gorm
    WritersOverlap,     \* whether a Put may overlap a Delete, or a Put with another
                 \* media type, of the same hash
    MaxCalls,    \* bound on the calls
    MaxBroken,   \* bound on crashes and failed file operations
    NoMime

ASSUME StoreAssumption ==
    /\ Hashes \subseteq Nat \ {0} /\ IsFiniteSet(Hashes)
    /\ ListBatch \in Nat \ {0} /\ MaxCalls \in Nat /\ MaxBroken \in Nat
    /\ WritersOverlap \in BOOLEAN /\ NoMime \notin Mimes

VARIABLES
    backing,        \* "files", "rows", or "none" before the store is opened
    content,     \* the hashes whose content file, or row, exists
    sidecar,     \* the media type in each sidecar file, or row; NoMime if none
    shards,      \* the hashes whose directory exists (fs)
    call,        \* what each user's call is doing
    callCount,       \* calls begun
    broken       \* crashes and failed operations so far

storeVars == <<backing, content, sidecar, shards, call, callCount, broken>>

-----------------------------------------------------------------------------
\* A call: its operation, the hashes it still has to treat, and what it would
\* answer; values and always are history: what the store held while it ran.
Idle == [op |-> "none", at |-> "end", todo |-> <<>>, mime |-> NoMime, answer |-> <<>>, ok |-> TRUE,
         values |-> {}, always |-> {}, ever |-> {}]

\* The hashes of a set, one after the other.
ByHash(S) == CHOOSE s \in [1 .. Cardinality(S) -> S] : \A i, j \in 1 .. Cardinality(S) : i < j => s[i] < s[j]

HeldAs(there, types, h) == IF h \in there THEN types[h] ELSE NoMime
HeldNow == {[hash |-> h, mime |-> HeldAs(content, sidecar, h)] : h \in Hashes}

\* What the calls of Put in progress are giving.
Given == {[hash |-> Head(call[u].todo), mime |-> call[u].mime] : u \in {x \in Users : call[x].op = "put" /\ call[x].at # "end"}}

\* The state every call sees: each running call notes what the store holds now,
\* and Get what others are giving it.
Watch(c) ==
    IF c.at = "end" THEN c
    ELSE [c EXCEPT
            !.values = IF c.op = "list" THEN {} ELSE @ \union HeldNow' \union (IF c.op = "get" THEN Given ELSE {}),
            !.always = IF c.op = "list" THEN @ \intersect content' ELSE {},
            !.ever   = IF c.op = "list" THEN @ \union content' ELSE {}]

CallIs(u, c) == call' = [x \in Users |-> IF x = u THEN c ELSE Watch(call[x])]

Unwritten == UNCHANGED <<content, sidecar, shards>>

BeginsCall(u, op, hs, m) ==
    /\ call[u].at = "end" /\ backing # "none" /\ callCount < MaxCalls
    /\ callCount' = callCount + 1
    /\ Unwritten /\ UNCHANGED <<backing, broken>>
    /\ CallIs(u, [Idle EXCEPT !.op = op, !.at = "start", !.todo = hs, !.mime = m,
                            !.values = IF op = "list" THEN {} ELSE HeldNow,
                            !.always = IF op = "list" THEN content ELSE {},
                            !.ever = IF op = "list" THEN content ELSE {}])

\* What the callers of one store do at once, unless WritersOverlap.
Writes(u, h) == call[u].at # "end" /\ call[u].op \in {"put", "delete"} /\ h \in ToSet(call[u].todo)

Unrivalled(u, op, hs, m) ==
    WritersOverlap \/ \A x \in Users \ {u} : \A h \in ToSet(hs) :
        Writes(x, h) => call[x].op = op /\ call[x].mime = m

-----------------------------------------------------------------------------
OpenStore(k) ==
    /\ backing = "none" /\ backing' = k
    /\ UNCHANGED <<content, sidecar, shards, call, callCount, broken>>

PutBegin(u, h, m) ==
    /\ Unrivalled(u, "put", <<h>>, m)
    /\ BeginsCall(u, "put", <<h>>, m)

\* CheckPut refuses empty or oversized content and a missing media type.
PutRefused(u) ==
    /\ call[u].at = "end" /\ backing # "none" /\ callCount < MaxCalls
    /\ callCount' = callCount + 1
    /\ Unwritten /\ UNCHANGED <<backing, broken>>
    /\ CallIs(u, [Idle EXCEPT !.op = "put", !.ok = FALSE])

CallAt(u, op, at) == call[u].op = op /\ call[u].at = at

TargetHash(u) == Head(call[u].todo)

Returns(u) == CallIs(u, [Watch(call[u]) EXCEPT !.at = "end"])

\* Mutation of PutStat: Put does not look whether the content is there.
PutStatNever(u) ==
    /\ backing = "files" /\ CallAt(u, "put", "start")
    /\ Unwritten
    /\ CallIs(u, [Watch(call[u]) EXCEPT !.at = "sidecar"])
    /\ UNCHANGED <<backing, callCount, broken>>

\* Content-addressed: identical bytes are already there.
PutStat(u) ==
    /\ backing = "files" /\ CallAt(u, "put", "start")
    /\ Unwritten
    /\ IF TargetHash(u) \in content THEN Returns(u)
       ELSE CallIs(u, [Watch(call[u]) EXCEPT !.at = "sidecar"])
    /\ UNCHANGED <<backing, callCount, broken>>

\* writeAtomically renames a temporary file over the sidecar, then over the content.
PutSidecar(u) ==
    /\ CallAt(u, "put", "sidecar")
    /\ shards' = shards \union {TargetHash(u)}
    /\ sidecar' = [sidecar EXCEPT ![TargetHash(u)] = call[u].mime]
    /\ UNCHANGED content
    /\ CallIs(u, [Watch(call[u]) EXCEPT !.at = "content"])
    /\ UNCHANGED <<backing, callCount, broken>>

PutContent(u) ==
    /\ CallAt(u, "put", "content")
    /\ content' = content \union {TargetHash(u)}
    /\ UNCHANGED <<sidecar, shards>>
    /\ Returns(u)
    /\ UNCHANGED <<backing, callCount, broken>>

\* The row is inserted unless one is there.
PutRow(u) ==
    /\ backing = "rows" /\ CallAt(u, "put", "start")
    /\ content' = content \union {TargetHash(u)}
    /\ sidecar' = [sidecar EXCEPT ![TargetHash(u)] = IF TargetHash(u) \in content THEN @ ELSE call[u].mime]
    /\ UNCHANGED shards
    /\ Returns(u)
    /\ UNCHANGED <<backing, callCount, broken>>
-----------------------------------------------------------------------------
GetBegin(u, h) ==
    /\ BeginsCall(u, "get", <<h>>, NoMime)

AnswersCall(u, m) == CallIs(u, [Watch(call[u]) EXCEPT !.at = "end", !.answer = <<m>>])

\* Mutation of GetContent: Get trusts the sidecar.
GetContentUnread(u) ==
    /\ backing = "files" /\ CallAt(u, "get", "start")
    /\ Unwritten
    /\ AnswersCall(u, sidecar[TargetHash(u)])
    /\ UNCHANGED <<backing, callCount, broken>>

GetContent(u) ==
    /\ backing = "files" /\ CallAt(u, "get", "start")
    /\ Unwritten
    /\ IF TargetHash(u) \in content THEN CallIs(u, [Watch(call[u]) EXCEPT !.at = "info"])
       ELSE AnswersCall(u, NoMime)
    /\ UNCHANGED <<backing, callCount, broken>>

\* info: a blob without its sidecar is not found.
GetInfo(u) ==
    /\ CallAt(u, "get", "info")
    /\ Unwritten
    /\ AnswersCall(u, sidecar[TargetHash(u)])
    /\ UNCHANGED <<backing, callCount, broken>>

GetRow(u) ==
    /\ backing = "rows" /\ CallAt(u, "get", "start")
    /\ Unwritten
    /\ AnswersCall(u, HeldAs(content, sidecar, TargetHash(u)))
    /\ UNCHANGED <<backing, callCount, broken>>
-----------------------------------------------------------------------------
DeleteBegin(u, hs) ==
    /\ hs # <<>> /\ Unrivalled(u, "delete", hs, NoMime)
    /\ BeginsCall(u, "delete", hs, NoMime)

\* Mutation of DeleteContent: Delete removes the sidecar first.
DeleteContentLast(u) ==
    /\ backing = "files" /\ CallAt(u, "delete", "start")
    /\ sidecar' = [sidecar EXCEPT ![TargetHash(u)] = NoMime]
    /\ UNCHANGED <<content, shards>>
    /\ CallIs(u, [Watch(call[u]) EXCEPT !.at = "sidecar"])
    /\ UNCHANGED <<backing, callCount, broken>>

DeleteContent(u) ==
    /\ backing = "files" /\ CallAt(u, "delete", "start")
    /\ content' = content \ {TargetHash(u)}
    /\ UNCHANGED <<sidecar, shards>>
    /\ CallIs(u, [Watch(call[u]) EXCEPT !.at = "sidecar"])
    /\ UNCHANGED <<backing, callCount, broken>>

\* Mutation of DeleteSidecar: Delete goes back for a next hash that is not there.
DeleteSidecarRunsOn(u) ==
    /\ CallAt(u, "delete", "sidecar")
    /\ sidecar' = [sidecar EXCEPT ![TargetHash(u)] = NoMime]
    /\ UNCHANGED <<content, shards>>
    /\ CallIs(u, [Watch(call[u]) EXCEPT !.at = "start", !.todo = Tail(@)])
    /\ UNCHANGED <<backing, callCount, broken>>

DeleteSidecar(u) ==
    /\ CallAt(u, "delete", "sidecar")
    /\ sidecar' = [sidecar EXCEPT ![TargetHash(u)] = NoMime]
    /\ UNCHANGED <<content, shards>>
    /\ LET further == Tail(call[u].todo)
       IN  CallIs(u, [Watch(call[u]) EXCEPT !.at = IF further = <<>> THEN "end" ELSE "start", !.todo = further])
    /\ UNCHANGED <<backing, callCount, broken>>

DeleteRows(u) ==
    /\ backing = "rows" /\ CallAt(u, "delete", "start")
    /\ LET gone == ToSet(call[u].todo)
       IN  /\ content' = content \ gone
           /\ sidecar' = [h \in Hashes |-> IF h \in gone THEN NoMime ELSE sidecar[h]]
    /\ UNCHANGED shards
    /\ Returns(u)
    /\ UNCHANGED <<backing, callCount, broken>>
-----------------------------------------------------------------------------
\* List walks the directories there when it reads the root (fs), or the pages
\* after the last hash it read (gorm).
ListBegin(u) ==
    /\ BeginsCall(u, "list", IF backing = "files" THEN ByHash(shards) ELSE <<>>, NoMime)

\* A directory without its content, or an entry gone since it was read, is passed over.
ListEntry(u) ==
    /\ backing = "files" /\ CallAt(u, "list", "start")
    /\ Unwritten
    /\ IF call[u].todo = <<>> THEN Returns(u)
       ELSE IF TargetHash(u) \in content THEN CallIs(u, [Watch(call[u]) EXCEPT !.at = "info"])
       ELSE CallIs(u, [Watch(call[u]) EXCEPT !.todo = Tail(@)])
    /\ UNCHANGED <<backing, callCount, broken>>

ListInfo(u) ==
    /\ CallAt(u, "list", "info")
    /\ Unwritten
    /\ CallIs(u, [Watch(call[u]) EXCEPT
            !.at = "start", !.todo = Tail(@),
            !.answer = IF sidecar[TargetHash(u)] = NoMime THEN @ ELSE Append(@, TargetHash(u))])
    /\ UNCHANGED <<backing, callCount, broken>>

NextPage(after) ==
    LET rest == ByHash({h \in content : h > after})
    IN  SubSeq(rest, 1, IF Len(rest) < ListBatch THEN Len(rest) ELSE ListBatch)

\* Mutation of ListRows: pages by offset.
ListRowsByOffset(u) ==
    /\ backing = "rows" /\ CallAt(u, "list", "start")
    /\ Unwritten
    /\ LET seen == Len(call[u].answer)
           rest == SubSeq(ByHash(content), seen + 1, Cardinality(content))
       IN  IF rest = <<>> THEN Returns(u)
           ELSE CallIs(u, [Watch(call[u]) EXCEPT !.answer = Append(@, Head(rest))])
    /\ UNCHANGED <<backing, callCount, broken>>

ListRows(u) ==
    /\ backing = "rows" /\ CallAt(u, "list", "start")
    /\ Unwritten
    /\ LET rows == NextPage(IF call[u].answer = <<>> THEN 0 ELSE Last(call[u].answer))
       IN  IF rows = <<>> THEN Returns(u)
           ELSE CallIs(u, [Watch(call[u]) EXCEPT !.answer = @ \o rows])
    /\ UNCHANGED <<backing, callCount, broken>>
-----------------------------------------------------------------------------
\* A file operation or a statement fails: the call ends with the error and what
\* it has done stays.
Fail(u) ==
    /\ call[u].at # "end" /\ broken < MaxBroken
    /\ broken' = broken + 1
    /\ Unwritten
    /\ CallIs(u, [Watch(call[u]) EXCEPT !.at = "end", !.ok = FALSE])
    /\ UNCHANGED <<backing, callCount>>

\* The process ends: what the files say is all that is left.
CrashStore ==
    /\ broken < MaxBroken /\ \E u \in Users : call[u].at # "end"
    /\ broken' = broken + 1
    /\ call' = [u \in Users |-> Idle]
    /\ Unwritten /\ UNCHANGED <<backing, callCount>>
-----------------------------------------------------------------------------
StoreInit ==
    /\ backing = "none"
    /\ content = {} /\ shards = {}
    /\ sidecar = [h \in Hashes |-> NoMime]
    /\ call = [u \in Users |-> Idle]
    /\ callCount = 0 /\ broken = 0

CallStep(u) ==
    \/ PutStat(u) \/ PutSidecar(u) \/ PutContent(u) \/ PutRow(u)
    \/ GetContent(u) \/ GetInfo(u) \/ GetRow(u)
    \/ DeleteContent(u) \/ DeleteSidecar(u) \/ DeleteRows(u)
    \/ ListEntry(u) \/ ListInfo(u) \/ ListRows(u)

CallBegin(u) ==
    \/ \E h \in Hashes : GetBegin(u, h) \/ \E m \in Mimes : PutBegin(u, h, m)
    \/ PutRefused(u)
    \/ \E gone \in SUBSET Hashes : DeleteBegin(u, ByHash(gone))
    \/ ListBegin(u)

StoreNext ==
    \/ \E k \in {"files", "rows"} : OpenStore(k)
    \/ \E u \in Users : CallBegin(u) \/ CallStep(u) \/ Fail(u)
    \/ CrashStore

StoreSpec == StoreInit /\ [][StoreNext]_storeVars

-----------------------------------------------------------------------------
\* Every variable has its type: the one type invariant of this module.
StoreTypeOK ==
    /\ backing \in {"none", "files", "rows"}
    /\ content \subseteq Hashes /\ shards \subseteq Hashes
    /\ sidecar \in [Hashes -> Mimes \union {NoMime}]
    /\ \A u \in Users :
        /\ call[u].op \in {"none", "put", "get", "delete", "list"}
        /\ call[u].at \in {"start", "sidecar", "content", "info", "end"}
        /\ call[u].todo \in Seq(Hashes) /\ call[u].ok \in BOOLEAN
        /\ call[u].at # "end" /\ call[u].op # "list" => call[u].todo # <<>>

\* A blob that is stored can be read: no content is left without its sidecar,
\* by a crash between the two renames of writeAtomically or the two removals of
\* Delete, or by a Put that found the content there. (Put returns at once when
\* the content exists: a blob without its sidecar would never be mended.)
StoredIsReadable == \A h \in content : sidecar[h] # NoMime

\* The files and the rows do what blob.Store promises, whatever is interrupted:
\* a media type never changes under a stored blob, and it appears and vanishes
\* in one step.
BlobsHeld == [h \in Hashes |-> HeldAs(content, sidecar, h)]

Contract == INSTANCE BlobContract WITH blobs <- BlobsHeld

KeepsContract == Contract!Spec

\* What a call answers was true of the store at some moment while it ran: Get
\* its media type or ErrNotFound, Put that the blob is there. (Get reads the
\* content and then the sidecar: if the blob is deleted between the two, the
\* media type may be the one a Put not yet over gives it.)
Ended(u, op) == call[u].op = op /\ call[u].at = "end" /\ call[u].ok

AnswersWereTrue ==
    \A u \in Users :
        /\ Ended(u, "get") => [hash |-> TargetHash(u), mime |-> call[u].answer[1]] \in call[u].values
        /\ Ended(u, "put") => \E v \in call[u].values : v.hash = TargetHash(u) /\ v.mime # NoMime

\* The garbage collector and the backup walk every blob: List names each blob
\* that was there all along, none that never was, and none twice, while others
\* come and go under the walk.
ListIsFaithful ==
    \A u \in Users : Ended(u, "list") =>
        /\ call[u].always \subseteq ToSet(call[u].answer)
        /\ ToSet(call[u].answer) \subseteq call[u].ever
        /\ IsInjective(call[u].answer)

\* What both blob stores promise (blob/store.go): the contract of BlobContract,
\* what is stored can be read, answers that were true while the call ran, and a
\* listing without losses nor repetitions.
BlobsKeepFaith ==
    /\ [](StoreTypeOK /\ StoredIsReadable /\ AnswersWereTrue /\ ListIsFaithful)
    /\ KeepsContract
=============================================================================
