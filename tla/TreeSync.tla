------------------------------- MODULE TreeSync -------------------------------
(***************************************************************************)
(* "amoxtli sync" (internal/cli/sync.go, with scheduleFile, resolveScheduled  *)
(* and waitTask it shares with "add"): the sources indexed from a tree are    *)
(* listed with their ETags, the tree is walked, the files that are new or     *)
(* changed are scheduled, the tasks waited for, and the documents whose files *)
(* are gone deleted. Files change next to it, tasks end in any order, also    *)
(* those an earlier command that was killed left behind, and a command may be *)
(* killed anywhere. The body of a file is a number, and so is its stamp: the  *)
(* second it was written in and its size.                                    *)
(***************************************************************************)
EXTENDS Naturals, Sequences, SequencesExt, FiniteSets

CONSTANTS
    Names,          \* the files there may be, in the order of the walk
    InTree,         \* those under the directory of the command
    Excluded,       \* per directory of the cascade, the files its ignore file matches
    Cascade,        \* per file, the directories whose ignore files apply to it
    Patterns,       \* the sets of files a --filter may match
    DigestPage,     \* the page of loadIndexedDigests
    SameStamp,      \* a file may be written twice in one second at one size
    MaxWrites,      \* bound on the changes of the files
    MaxSyncs,       \* bound on the commands
    MaxKills,       \* bound on the commands killed
    MaxMishaps      \* bound on tasks that fail and waits that are given up

ASSUME TreeAssumption ==
    /\ Names \subseteq Nat /\ InTree \subseteq Names /\ Patterns \subseteq SUBSET Names
    /\ Cascade \in [Names -> SUBSET DOMAIN Excluded] /\ \A d \in DOMAIN Excluded : Excluded[d] \subseteq Names
    /\ DigestPage \in Nat \ {0} /\ SameStamp \in BOOLEAN
    /\ MaxWrites \in Nat /\ MaxSyncs \in Nat /\ MaxKills \in Nat /\ MaxMishaps \in Nat

VARIABLES
    disk,       \* per file, its body and stamp; both 0 when there is none
    library,    \* the documents, in the order of their insertion
    jobs,       \* the tasks to run, each a staged copy
    cmd,        \* the command under way
    writes, syncs, kills, mishaps

treeVars == <<disk, library, jobs, cmd, writes, syncs, kills, mishaps>>
-----------------------------------------------------------------------------
NoFile == [body |-> 0, stamp |-> 0]
OnDisk(n) == disk[n].body # 0

\* A file is ignored when the ignore file of any directory from the root of the
\* workspace down to its own matches it; outside of the workspace, of its own.
IsIgnored(n) == \E d \in Cascade[n] : n \in Excluded[d]

Filed(n, stamp, body) == [name |-> n, stamp |-> stamp, body |-> body]

\* The documents with a name of T, in their order.
NamedIn(docs, T) ==
    LET kept[i \in 0 .. Len(docs)] ==
            IF i = 0 THEN <<>> ELSE IF docs[i].name \in T THEN Append(kept[i - 1], docs[i]) ELSE kept[i - 1]
    IN  kept[Len(docs)]

Without(docs, n) == NamedIn(docs, Names \ {n})
DocsOf(n) == {d \in ToSet(library) : d.name = n}

NoCmd == [at |-> "none", mode |-> "wait", match |-> {}, page |-> 0, known |-> {}, left |-> {}, seen |-> {}, plan |-> <<>>,
          caught |-> NoFile, held |-> {}, gone |-> {}, failed |-> FALSE, absent |-> {}, quiet |-> TRUE]
Running == cmd.at # "none"


\* The name of a file matches one of the patterns of --filter, if there are any.
Matches(n) == n \in cmd.match

\* The tasks the command waits for have ended.
TasksDone == cmd.held \intersect jobs = {}

First(S) == CHOOSE n \in S : \A m \in S : n <= m
AtEnd(c) == c' = NoCmd
Counters == UNCHANGED <<writes, syncs, kills, mishaps>>
NothingElse == UNCHANGED <<disk, library, jobs>>
-----------------------------------------------------------------------------
\* Files are written, and removed.
WriteFile(n) ==
    /\ writes < MaxWrites
    /\ writes' = writes + 1
    /\ \E stamp \in {writes'} \union (IF SameStamp /\ OnDisk(n) THEN {disk[n].stamp} ELSE {}) :
          disk' = [disk EXCEPT ![n] = [body |-> writes', stamp |-> stamp]]
    /\ cmd' = [cmd EXCEPT !.quiet = ~Running]
    /\ UNCHANGED <<library, jobs, syncs, kills, mishaps>>

RemoveFromDisk(n) ==
    /\ OnDisk(n) /\ writes < MaxWrites
    /\ writes' = writes + 1
    /\ disk' = [disk EXCEPT ![n] = NoFile]
    /\ cmd' = IF Running THEN [cmd EXCEPT !.quiet = FALSE, !.absent = @ \union {n}] ELSE cmd
    /\ UNCHANGED <<library, jobs, syncs, kills, mishaps>>

\* "amoxtli add" of a file, --no-ignore or not, of any tree: the same scheduleFile,
\* whether the file is indexed already or not.
AddFile(n) ==
    /\ ~Running /\ OnDisk(n) /\ syncs < MaxSyncs
    /\ syncs' = syncs + 1
    /\ jobs' = jobs \union {Filed(n, disk[n].stamp, disk[n].body)}
    /\ UNCHANGED <<disk, library, cmd, writes, kills, mishaps>>

\* Mutation of RunJob: the document is saved next to the one of its source.
RunJobBeside(j) ==
    /\ jobs' = jobs \ {j}
    /\ library' = Append(library, Filed(j.name, j.stamp, j.body))
    /\ UNCHANGED <<disk, cmd, mishaps, writes, syncs, kills>>

\* A task saves its copy as the document of its source and indexes it; when the
\* indexing fails, the compensation deletes the document.
RunJob(j) ==
    /\ jobs' = jobs \ {j}
    /\ \/ library' = Append(Without(library, j.name), Filed(j.name, j.stamp, j.body)) /\ UNCHANGED <<mishaps, cmd>>
       \/ /\ mishaps < MaxMishaps /\ mishaps' = mishaps + 1
          /\ library' \in {library, Without(library, j.name)}
          /\ cmd' = [cmd EXCEPT !.failed = @ \/ j \in cmd.held, !.held = @ \ {j}]
    /\ UNCHANGED <<disk, writes, syncs, kills>>
-----------------------------------------------------------------------------
\* With --no-wait the tasks are not waited for, with --dry-run nothing is done.
StartSync(match) ==
    /\ ~Running /\ syncs < MaxSyncs
    /\ syncs' = syncs + 1
    /\ \E mode \in {"wait", "noWait", "dryRun"} :
          cmd' = [NoCmd EXCEPT !.at = "list", !.mode = mode, !.match = match, !.quiet = (jobs = {}), !.absent = {n \in Names : ~OnDisk(n)}]
    /\ NothingElse /\ UNCHANGED <<writes, kills, mishaps>>

\* loadIndexedDigests, page by page by offset, a shorter page the last; a source
\* met twice has the ETag met last. Then the directory is read.
ListDigests ==
    /\ cmd.at = "list"
    /\ LET docs == NamedIn(library, InTree)
           upTo == (cmd.page + 1) * DigestPage
           page == SubSeq(docs, cmd.page * DigestPage + 1, IF upTo < Len(docs) THEN upTo ELSE Len(docs))
           met == {[name |-> page[i].name, stamp |-> page[i].stamp] : i \in DOMAIN page}
       IN  cmd' = [cmd EXCEPT !.known = {k \in @ : \A m \in met : m.name # k.name} \union met,
                              !.page = @ + 1,
                              !.at = IF Len(page) < DigestPage THEN "walk" ELSE @,
                              !.left = IF Len(page) < DigestPage THEN {n \in InTree : OnDisk(n)} ELSE @]
    /\ NothingElse /\ Counters

\* One entry of the directory: ignored or not matched, it is passed over; gone since,
\* the command ends with an error; with the ETag it is indexed under, it is
\* skipped; else it is planned.
WalkEntry ==
    /\ cmd.at = "walk" /\ cmd.left # {}
    /\ LET n == First(cmd.left)
           passed == [cmd EXCEPT !.left = @ \ {n}]
       IN  IF IsIgnored(n) \/ ~Matches(n) THEN cmd' = passed
           ELSE IF ~OnDisk(n) THEN AtEnd(cmd)
           ELSE IF [name |-> n, stamp |-> disk[n].stamp] \in cmd.known
                THEN cmd' = [passed EXCEPT !.seen = @ \union {n}]
           ELSE cmd' = [passed EXCEPT !.seen = @ \union {n}, !.plan = Append(@, n)]
    /\ NothingElse /\ Counters

WalkEnds ==
    /\ cmd.at = "walk" /\ cmd.left = {}
    /\ cmd' = [cmd EXCEPT !.at = "gone", !.left = {k.name : k \in cmd.known} \ cmd.seen]
    /\ NothingElse /\ Counters

\* Mutation of FindGone: what the walk did not see is gone.
FindGoneUnseen ==
    /\ cmd.at = "gone"
    /\ cmd' = IF cmd.left = {} THEN (IF cmd.mode = "dryRun" THEN NoCmd ELSE [cmd EXCEPT !.at = "stat"])
              ELSE LET n == First(cmd.left)
                   IN  [cmd EXCEPT !.left = @ \ {n}, !.gone = @ \union {n}]
    /\ NothingElse /\ Counters

\* Each indexed source that was not seen is looked for on disk.
FindGone ==
    /\ cmd.at = "gone"
    /\ cmd' = IF cmd.left = {} THEN (IF cmd.mode = "dryRun" THEN NoCmd ELSE [cmd EXCEPT !.at = "stat"])
              ELSE LET n == First(cmd.left)
                   IN  [cmd EXCEPT !.left = @ \ {n}, !.gone = IF OnDisk(n) THEN @ ELSE @ \union {n}]
    /\ NothingElse /\ Counters

\* scheduleFile: the attributes of the file, of which the ETag is made.
StatFile ==
    /\ cmd.at = "stat"
    /\ cmd' = IF cmd.plan = <<>> THEN [cmd EXCEPT !.at = "wait"]
              ELSE IF ~OnDisk(Head(cmd.plan)) THEN [cmd EXCEPT !.plan = Tail(@), !.failed = TRUE]
              ELSE [cmd EXCEPT !.at = "copy", !.caught = disk[Head(cmd.plan)]]
    /\ NothingElse /\ Counters

\* Mutation of StageCopy: the ETag is that of the file after it was read.
StageCopyFirst ==
    /\ cmd.at = "copy"
    /\ LET n == Head(cmd.plan)
           job == Filed(n, disk[n].stamp, cmd.caught.body)
       IN  IF ~OnDisk(n) THEN cmd' = [cmd EXCEPT !.at = "stat", !.plan = Tail(@), !.failed = TRUE] /\ UNCHANGED jobs
           ELSE /\ cmd' = [cmd EXCEPT !.at = "stat", !.plan = Tail(@), !.held = @ \union {job}]
                /\ jobs' = jobs \union {job}
    /\ UNCHANGED <<disk, library>> /\ Counters

\* The file is opened and copied to the staging directory, the task scheduled.
StageCopy ==
    /\ cmd.at = "copy"
    /\ LET n == Head(cmd.plan)
           job == Filed(n, cmd.caught.stamp, disk[n].body)
       IN  IF ~OnDisk(n) THEN cmd' = [cmd EXCEPT !.at = "stat", !.plan = Tail(@), !.failed = TRUE] /\ UNCHANGED jobs
           ELSE /\ cmd' = [cmd EXCEPT !.at = "stat", !.plan = Tail(@), !.held = @ \union {job}]
                /\ jobs' = jobs \union {job}
    /\ UNCHANGED <<disk, library>> /\ Counters

\* Mutation of AwaitJobs: a wait that was given up counts as done.
AwaitJobsLess ==
    /\ cmd.at = "wait"
    /\ \/ (cmd.mode = "noWait" \/ TasksDone) /\ cmd' = [cmd EXCEPT !.at = "purge"] /\ UNCHANGED mishaps
       \/ /\ ~TasksDone /\ mishaps < MaxMishaps /\ mishaps' = mishaps + 1
          /\ cmd' = [cmd EXCEPT !.at = "purge"]
    /\ NothingElse /\ UNCHANGED <<writes, syncs, kills>>

\* Every task is waited for; one that does not end in time is reported as a failure,
\* and goes on.
AwaitJobs ==
    /\ cmd.at = "wait"
    /\ \/ (cmd.mode = "noWait" \/ TasksDone) /\ cmd' = [cmd EXCEPT !.at = "purge"] /\ UNCHANGED mishaps
       \/ /\ ~TasksDone /\ mishaps < MaxMishaps /\ mishaps' = mishaps + 1
          /\ cmd' = [cmd EXCEPT !.at = "purge", !.failed = TRUE]
    /\ NothingElse /\ UNCHANGED <<writes, syncs, kills>>

\* DeleteBySource of the sources found gone, whatever became of them since.
Purge ==
    /\ cmd.at = "purge" /\ cmd.gone # {}
    /\ library' = Without(library, First(cmd.gone))
    /\ cmd' = [cmd EXCEPT !.gone = @ \ {First(cmd.gone)}]
    /\ UNCHANGED <<disk, jobs>> /\ Counters

SyncEnds ==
    /\ cmd.at = "purge" /\ cmd.gone = {}
    /\ AtEnd(cmd)
    /\ NothingElse /\ Counters

\* The process is killed. With persistent tasks what it scheduled runs later.
CmdKilled ==
    /\ Running /\ kills < MaxKills
    /\ kills' = kills + 1
    /\ AtEnd(cmd)
    /\ jobs' \in {jobs, {}}
    /\ UNCHANGED <<disk, library, writes, syncs, mishaps>>
-----------------------------------------------------------------------------
TreeInit ==
    /\ disk = [n \in Names |-> NoFile] /\ library = <<>> /\ jobs = {} /\ cmd = NoCmd
    /\ writes = 0 /\ syncs = 0 /\ kills = 0 /\ mishaps = 0

TreeNext ==
    \/ \E n \in Names : WriteFile(n) \/ RemoveFromDisk(n)
    \/ \E n \in Names : AddFile(n)
    \/ \E j \in jobs : RunJob(j)
    \/ \E match \in Patterns : StartSync(match)
    \/ ListDigests \/ WalkEntry \/ WalkEnds \/ FindGone \/ StatFile \/ StageCopy \/ AwaitJobs \/ Purge \/ SyncEnds
    \/ CmdKilled
-----------------------------------------------------------------------------
\* Every variable has its type, and a source has one document: the one type
\* invariant of this module.
TreeTypeOK ==
    /\ \A n \in Names : disk[n].body \in 0..MaxWrites /\ (disk[n].body = 0 <=> disk[n].stamp = 0)
    /\ IsInjective([i \in DOMAIN library |-> library[i].name])
    /\ ToSet(library) \union jobs \subseteq [name : Names, stamp : 1..MaxWrites, body : 1..MaxWrites]
    /\ cmd.seen \union cmd.gone \subseteq InTree /\ cmd.held \subseteq [name : InTree, stamp : 1..MaxWrites, body : 1..MaxWrites]

\* "Skipping files whose content is unchanged since the last sync" (sync.go:43):
\* a document under the ETag of the file on disk has the content of that file, so
\* what a sync skips is current, however the file changed while it was read and
\* in whichever order the tasks ended.
SkippedIsCurrent == \A d \in ToSet(library) : d.stamp = disk[d.name].stamp => d.body = disk[d.name].body

\* After a sync that reported no failure, with nothing else at work, the index is the
\* tree: each file that is wanted has its document, with its content, and no
\* source of the tree a document without its file.
QuietSyncAgrees ==
    [][cmd.at = "purge" /\ cmd'.at = "none" /\ kills' = kills /\ cmd.mode = "wait" /\ cmd.quiet /\ ~cmd.failed =>
          /\ \A n \in InTree \intersect cmd.match : OnDisk(n) /\ ~IsIgnored(n) => \E d \in DocsOf(n) : d.body = disk[n].body
          /\ \A d \in ToSet(library) : d.name \in InTree => OnDisk(d.name)]_treeVars

\* A sync takes a document out of the index only for a file of its tree that was
\* missing at some time while it ran: one that is ignored by now, that --filter
\* leaves out, or that another tree holds stays ("files still present but
\* excluded by the filter are left untouched", sync.go:45).
OnlyGoneDeleted ==
    [][\A d \in ToSet(library) : DocsOf(d.name)' = {} /\ jobs' = jobs => d.name \in cmd.absent \intersect InTree]_treeVars

\* What the synchronization of a tree promises (internal/cli/sync.go): what is
\* skipped is current, a quiet sync agrees with the disk, and only what is gone
\* from the disk is deleted.
SyncKeepsFaith ==
    /\ [](TreeTypeOK /\ SkippedIsCurrent)
    /\ QuietSyncAgrees
    /\ OnlyGoneDeleted
=============================================================================
