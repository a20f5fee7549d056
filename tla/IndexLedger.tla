------------------------------ MODULE IndexLedger ------------------------------
(***************************************************************************)
(* The file ledger of one filespace: docker/indexer/scanner.py             *)
(* (FilespaceIndexer.scan, hint, index_pending) over the tables `files`,   *)
(* `chunks` and `filespaces` of docker/indexer/store.py, while other       *)
(* clients create, save, move and delete the files it is reading.          *)
(*                                                                         *)
(* One job runs per filespace (module Scheduler), so the operations of a   *)
(* job follow one another; each is cut where it calls the source or        *)
(* commits a transaction, since files change, owners press "retry" and the *)
(* process dies between any two of those points.                           *)
(***************************************************************************)
EXTENDS Naturals, FiniteSets

CONSTANTS
    Files,        \* the ids the source gives to files (FsEntry.id)
    LegacyIds,    \* ids recorded by SDK 0.14, before the id scheme changed
    NewIdOf,      \* the id under which the source now lists a legacy file
    Paths,        \* the file paths scans look at
    Dirs,         \* the folders: Root and the folders in it
    Root,
    DirOf,        \* the folder of a path
    Supported,    \* the paths whose type the extractor handles (is_supported)
    Contents,     \* what a file can hold; its sha256 is the content itself
    SizeOf,       \* bytes of a content
    Limit,        \* INDEX_MAX_FILE_BYTES
    Textless,     \* the contents with nothing to index ("too little text")
    InitialTrees, \* the filespaces a run starts from
    Upgraded,     \* may the ledger come from an SDK 0.14 engine? a set of BOOLEANs
    ListedIds,    \* does read_dir report ids? a set of BOOLEANs
    FaultKinds,   \* the faults that can happen, at most MaxFaults of them
    MaxFaults,
    MaxChanges,   \* bound on changes other clients make
    None          \* no path, no id, no content, no stat

Ids == Files \cup LegacyIds
Stat == [size : Nat, mtime : Nat]
FileState == [path : Paths \cup {None}, content : Contents, mtime : Nat]
Status == {"none", "pending", "indexed", "skipped", "failed", "deleted"}
Reason == {"none", "unsupported", "too large", "no text", "not downloaded", "read failed"}

\* A row of the table files; status "none" stands for "no row".
Row == [path : Paths \cup {None}, stat : Stat, list : Stat \cup {None},
        status : Status, reason : Reason, hash : Contents \cup {None}]

NoRow == [path |-> None, stat |-> [size |-> 0, mtime |-> 0], list |-> None,
          status |-> "none", reason |-> "none", hash |-> None]

ASSUME ConstantsAssumption ==
    /\ None \notin Ids \cup Paths \cup Dirs \cup Contents \cup Stat
    /\ Files \cap LegacyIds = {}
    /\ Paths \cap Dirs = {}
    /\ NewIdOf \in [LegacyIds -> Files]
    /\ \A l, m \in LegacyIds : NewIdOf[l] = NewIdOf[m] => l = m
    /\ Root \in Dirs
    /\ DirOf \in [Paths -> Dirs]
    /\ Supported \subseteq Paths
    /\ SizeOf \in [Contents -> Nat]
    /\ Limit \in Nat
    /\ Textless \subseteq Contents
    /\ InitialTrees \subseteq [Files -> FileState]
    /\ Upgraded \subseteq BOOLEAN
    /\ ListedIds \subseteq BOOLEAN
    /\ MaxFaults \in Nat
    /\ MaxChanges \in Nat

\* A path holds one file, and what is there at first was saved before the clock starts.
ASSUME TreesAssumption ==
    \A t \in InitialTrees : \A f \in Files :
        /\ t[f].mtime = 0
        /\ \A g \in Files : t[f].path = t[g].path /\ t[f].path # None => f = g

VARIABLES
    tree,       \* the filespace: where each file is and what it holds
    clock,      \* changes made to it; also the clock that stamps a saved file
    ledger,     \* the rows of files, by file_id
    chunks,     \* the content whose chunks are stored for a file_id
    idScheme,   \* filespaces.id_scheme = ID_SCHEME
    job,        \* the operation the filespace's job is in
    writing,    \* the row a two-statement change has yet to write
    faults,     \* faults so far
    settled,    \* "yes": a complete root scan ended and nothing changed since it began
    unmoved     \* files that stayed where they are since the operation began

source == <<tree, clock>>
store == <<ledger, chunks, idScheme>>
history == <<settled, unmoved>>
vars == <<tree, clock, ledger, chunks, idScheme, job, writing, faults, settled, unmoved>>

(***************************************************************************)
(* Helpers                                                                 *)
(***************************************************************************)
Present == {f \in Files : tree[f].path # None}
At(p) == {f \in Files : tree[f].path = p}
StatOf(f) == [size |-> SizeOf[tree[f].content], mtime |-> tree[f].mtime]

\* The paths at or below a file path or a folder.
Under(p) == IF p = Root THEN Paths
            ELSE IF p \in Dirs THEN {q \in Paths : DirOf[q] = p} ELSE {p}

Live(i) == ledger[i].status \notin {"none", "deleted"}
LiveAt(p) == {i \in Ids : Live(i) /\ ledger[i].path = p}
LiveUnder(p) == {i \in Ids : Live(i) /\ ledger[i].path \in Under(p)}
Pending == {i \in Ids : ledger[i].status = "pending"}

IdleJob == [op |-> "idle", root |-> Root, src |-> None, queue |-> {}, entries |-> {},
            complete |-> TRUE, rekey |-> FALSE, seen |-> {}, doomed |-> {}, todo |-> {}]

\* A walk of folder d; src is the move source a hint settles after it.
Walk(d, src) == [IdleJob EXCEPT !.op = "scan", !.root = d, !.queue = {d}, !.src = src,
                                !.rekey = ~idScheme]

NoWrite == [id |-> None, row |-> NoRow]

Fault(kind) == /\ kind \in FaultKinds
               /\ faults < MaxFaults
               /\ faults' = faults + 1

(***************************************************************************)
(* Initial states: an empty ledger, or the ledger of an engine that        *)
(* indexed the same files under their SDK 0.14 ids.                        *)
(***************************************************************************)
LegacyRow(f) == [path |-> tree[f].path, stat |-> StatOf(f), list |-> StatOf(f),
                 status |-> "indexed", reason |-> "none", hash |-> tree[f].content]

Carried == {l \in LegacyIds : /\ tree[NewIdOf[l]].path \in Supported
                              /\ tree[NewIdOf[l]].content \notin Textless
                              /\ SizeOf[tree[NewIdOf[l]].content] <= Limit}

Init ==
    /\ tree \in InitialTrees
    /\ clock = 0
    /\ \E upgraded \in Upgraded :
         /\ ledger = [i \in Ids |-> IF upgraded /\ i \in Carried
                                    THEN LegacyRow(NewIdOf[i]) ELSE NoRow]
         /\ chunks = [i \in Ids |-> IF upgraded /\ i \in Carried
                                    THEN tree[NewIdOf[i]].content ELSE None]
    /\ idScheme = FALSE
    /\ job = IdleJob
    /\ writing = NoWrite
    /\ faults = 0
    /\ settled = "no"
    /\ unmoved = {}

(***************************************************************************)
(* The filespace, changed by other clients at any time                     *)
(***************************************************************************)
Changed(moved) ==
    /\ clock < MaxChanges
    /\ clock' = clock + 1
    /\ settled' = "no"
    /\ unmoved' = unmoved \ moved
    /\ UNCHANGED <<store, job, writing, faults>>

\* Save f at p (a new file, or new bytes in place). Every save has its own mtime.
SaveFile(f, p, c) ==
    /\ tree[f].path \in {p, None}
    /\ At(p) \subseteq {f}
    /\ tree' = [tree EXCEPT ![f] = [path |-> p, content |-> c, mtime |-> clock + 1]]
    /\ Changed(IF tree[f].path = p THEN {} ELSE {f})

\* Move f to p over whatever is there, or back from a folder scans skip
\* (".trash") or from outside. Content and mtime stay.
MoveFile(f, p) ==
    /\ tree[f].path # p
    /\ tree' = [g \in Files |-> IF g = f THEN [tree[f] EXCEPT !.path = p]
                                ELSE IF g \in At(p) THEN [tree[g] EXCEPT !.path = None]
                                ELSE tree[g]]
    /\ Changed({f} \cup At(p))

\* Delete f, or move it where scans never look.
RemoveFile(f) ==
    /\ f \in Present
    /\ tree' = [tree EXCEPT ![f].path = None]
    /\ Changed({f})

(***************************************************************************)
(* observe: reconcile one file with its row. `due` is the outcome of       *)
(* _retry_due: the time since the failure is not modelled.                 *)
(***************************************************************************)
Clears(row, p) == /\ row.status # "none"
                  /\ p \notin Supported
                  /\ row.status # "skipped" \/ row.reason # "unsupported"

Reconciled(row, p, stat, list, due) ==
    LET base == [row EXCEPT !.path = p, !.list = list] IN
    IF row.status = "none" THEN
        [path |-> p, stat |-> stat, list |-> list, hash |-> None,
         status |-> IF p \in Supported THEN "pending" ELSE "skipped",
         reason |-> IF p \in Supported THEN "none" ELSE "unsupported"]
    ELSE IF Clears(row, p) THEN
        [base EXCEPT !.stat = stat, !.status = "skipped", !.reason = "unsupported", !.hash = None]
    ELSE IF p \notin Supported THEN [base EXCEPT !.stat = stat]
    ELSE IF row.status = "deleted" \/ (row.status = "skipped" /\ row.reason = "unsupported") THEN
        [base EXCEPT !.stat = stat, !.status = "pending", !.reason = "none"]
    ELSE IF row.stat # stat THEN [base EXCEPT !.stat = stat, !.status = "pending"]
    ELSE IF row.status = "failed" /\ due THEN
        [base EXCEPT !.status = "pending", !.reason = "none", !.hash = None]
    ELSE base

\* A change of chunks commits before the row it goes with: CommitRow ends it.
ChunksThenRow(i, content, row) ==
    /\ chunks' = [chunks EXCEPT ![i] = content]
    /\ writing' = [id |-> i, row |-> row]
    /\ UNCHANGED ledger

RowOnly(i, row) ==
    /\ ledger' = [ledger EXCEPT ![i] = row]
    /\ UNCHANGED <<chunks, writing>>

\* Mutant: a rename is not written to the row.
ObserveForgetsPath(i, p, stat, list, due) ==
    RowOnly(i, [Reconciled(ledger[i], p, stat, list, due) EXCEPT
                  !.path = IF ledger[i].status = "none" THEN p ELSE ledger[i].path])

Observe(i, p, stat, list, due) ==
    LET row == Reconciled(ledger[i], p, stat, list, due) IN
    IF Clears(ledger[i], p) THEN ChunksThenRow(i, None, row) ELSE RowOnly(i, row)

\* The second statement. A tombstone writes only the status: a row marked
\* deleted keeps its reason and its content hash.
CommitRow ==
    /\ writing # NoWrite
    /\ ledger' = [ledger EXCEPT ![writing.id] =
                    IF writing.row.status = "deleted" THEN [@ EXCEPT !.status = "deleted"]
                    ELSE writing.row]
    /\ writing' = NoWrite
    /\ UNCHANGED <<source, chunks, idScheme, job, faults, history>>

(***************************************************************************)
(* scan                                                                    *)
(***************************************************************************)
Ready(op) == job.op = op /\ writing = NoWrite

StartScan ==
    /\ Ready("idle")
    /\ job' = Walk(Root, None)
    /\ settled' = "walking"
    /\ unmoved' = Present
    /\ UNCHANGED <<source, store, writing, faults>>

Walking == Ready("scan") /\ job.entries = {}

ListDir(d) ==
    /\ Walking
    /\ d \in job.queue
    /\ \E ids \in ListedIds :
         job' = [job EXCEPT
                   !.queue = (@ \ {d}) \cup (IF d = Root THEN Dirs \ {Root} ELSE {}),
                   !.entries = {[path |-> tree[f].path, stat |-> StatOf(f),
                                 id |-> IF ids THEN f ELSE None] :
                                  f \in {g \in Present : DirOf[tree[g].path] = d}}]
    /\ UNCHANGED <<source, store, writing, faults, history>>

\* A folder that does not list: nothing may be deleted on the strength of this scan.
ListDirFails(d) ==
    /\ Walking
    /\ d \in job.queue
    /\ Fault("listing")
    /\ job' = [job EXCEPT !.queue = @ \ {d}, !.complete = FALSE]
    /\ UNCHANGED <<source, store, writing, history>>

\* The live rows an entry is recognised by: same path, same listing values and
\* either its id, or no id to compare, or (until a complete root scan under the
\* new id scheme) another id that can be re-keyed to it.
Matching(e) ==
    {i \in LiveAt(e.path) :
       /\ ledger[i].list = e.stat
       /\ i = e.id \/ e.id = None \/ (job.rekey /\ ledger[e.id].status = "none")}

\* Mutant: every recognised row is queued again.
StampedAgain(row, due) == [row EXCEPT !.status = "pending"]

Stamped(row, due) == IF row.status = "failed" /\ due
                     THEN [row EXCEPT !.status = "pending", !.reason = "none", !.hash = None]
                     ELSE row

\* Mutant: the row is re-keyed and its chunks are not.
RecogniseRowOnly(e, i, due) ==
    LET id == IF e.id = None THEN i ELSE e.id IN
    /\ ledger' = [ledger EXCEPT ![i] = NoRow, ![id] = Stamped(ledger[i], due)]
    /\ chunks' = IF i = id THEN chunks ELSE [chunks EXCEPT ![i] = None]
    /\ job' = [job EXCEPT !.entries = @ \ {e}, !.seen = @ \cup {id}]
    /\ UNCHANGED writing

\* The fast path: stamp the row (under its new id when it is re-keyed).
Recognise(e, i, due) ==
    LET id == IF e.id = None THEN i ELSE e.id IN
    /\ ledger' = [ledger EXCEPT ![i] = NoRow, ![id] = Stamped(ledger[i], due)]
    /\ chunks' = [chunks EXCEPT ![i] = None, ![id] = chunks[i]]
    /\ job' = [job EXCEPT !.entries = @ \ {e}, !.seen = @ \cup {id}]
    /\ UNCHANGED writing

ObserveEntry(e, i, stat, due) ==
    /\ Observe(i, e.path, stat, e.stat, due)
    /\ job' = [job EXCEPT !.entries = @ \ {e}, !.seen = @ \cup {i}]

\* One entry of a listing. Without a listed id the path is looked up again
\* (get_entry) and may by now be empty, or another file.
ListedFile(e) ==
    /\ Ready("scan")
    /\ e \in job.entries
    /\ \E due \in BOOLEAN :
         \/ \E i \in Matching(e) : Recognise(e, i, due)
         \/ /\ Matching(e) = {} /\ e.id # None
            /\ ObserveEntry(e, e.id, e.stat, due)
         \/ /\ Matching(e) = {} /\ e.id = None
            /\ \E f \in At(e.path) : ObserveEntry(e, f, StatOf(f), due)
         \/ /\ Matching(e) = {} /\ e.id = None /\ At(e.path) = {}
            /\ job' = [job EXCEPT !.entries = @ \ {e}]
            /\ UNCHANGED <<ledger, chunks, writing>>
    /\ UNCHANGED <<source, idScheme, faults, history>>

\* get_entry failed or gave no id, or the members of a package did not list.
EntryFails(e) ==
    /\ Ready("scan")
    /\ e \in job.entries
    /\ Fault("entry")
    /\ job' = [job EXCEPT !.entries = @ \ {e}, !.complete = FALSE]
    /\ UNCHANGED <<source, store, writing, history>>

\* Mutants: a walk that missed a folder prunes too; no walk prunes.
FinishAnyWalk ==
    /\ Walking
    /\ job.queue = {}
    /\ job' = [job EXCEPT !.op = "settle", !.doomed = LiveUnder(job.root) \ job.seen]
    /\ UNCHANGED <<source, store, writing, faults, history>>

FinishWithoutPrune ==
    /\ Walking
    /\ job.queue = {}
    /\ job' = [job EXCEPT !.op = "settle"]
    /\ UNCHANGED <<source, store, writing, faults, history>>

\* _prune: only a complete walk dooms the rows it did not see.
FinishWalk ==
    /\ Walking
    /\ job.queue = {}
    /\ job' = [job EXCEPT !.op = "settle",
                          !.doomed = IF job.complete THEN LiveUnder(job.root) \ job.seen ELSE {}]
    /\ UNCHANGED <<source, store, writing, faults, history>>

\* Mutant: the row goes first, and a crash keeps its chunks.
TombstoneRowFirst(i) ==
    /\ Ready("settle")
    /\ i \in job.doomed
    /\ RowOnly(i, [ledger[i] EXCEPT !.status = "deleted"])
    /\ job' = [job EXCEPT !.doomed = @ \ {i}]
    /\ UNCHANGED <<source, idScheme, faults, history>>

\* _tombstone: the chunks go first, then the status.
Tombstone(i) ==
    /\ Ready("settle")
    /\ i \in job.doomed
    /\ ChunksThenRow(i, None, [ledger[i] EXCEPT !.status = "deleted"])
    /\ job' = [job EXCEPT !.doomed = @ \ {i}]
    /\ UNCHANGED <<source, idScheme, faults, history>>

\* The operation returns. A complete root scan adopts the new id scheme.
EndOperation ==
    /\ Ready("settle")
    /\ job.doomed = {} /\ job.src = None
    /\ job' = IdleJob
    /\ idScheme' = (idScheme \/ (job.root = Root /\ job.complete))
    /\ settled' = IF settled = "walking" THEN (IF job.complete THEN "yes" ELSE "no") ELSE settled
    /\ unmoved' = {}
    /\ UNCHANGED <<source, ledger, chunks, writing, faults>>

(***************************************************************************)
(* hint: late, repeated, out of order or naming the wrong path, a hint     *)
(* only looks at the path and believes what it finds there.                *)
(***************************************************************************)
\* Nothing at p: no such file, or a folder with nothing left in it.
Gone(p) == \A q \in Under(p) : At(q) = {}

\* write, mkdir, and the first half of move (src is its source).
HintPresent(p, src) ==
    /\ Ready("idle")
    /\ unmoved' = Present
    /\ \/ /\ p \in Dirs
          /\ job' = Walk(p, src)
          /\ UNCHANGED <<ledger, chunks, writing>>
       \/ /\ Gone(p)
          /\ src # None
          /\ job' = [IdleJob EXCEPT !.op = "settle", !.root = p, !.src = src]
          /\ UNCHANGED <<ledger, chunks, writing>>
       \/ \E f \in At(p), due \in BOOLEAN :
            /\ Observe(f, p, StatOf(f), None, due)
            /\ job' = [IdleJob EXCEPT !.op = "settle", !.root = p, !.src = src,
                                      !.doomed = LiveAt(p) \ {f}]
    /\ UNCHANGED <<source, idScheme, faults, settled>>

\* delete: tombstone the subtree once it is confirmed gone.
HintAbsent(p) ==
    /\ Ready("idle")
    /\ Gone(p)
    /\ job' = [IdleJob EXCEPT !.op = "settle", !.root = p, !.doomed = LiveUnder(p)]
    /\ unmoved' = Present
    /\ UNCHANGED <<source, store, writing, faults, settled>>

\* The second half of move.
HintSource ==
    /\ Ready("settle")
    /\ job.doomed = {} /\ job.src # None
    /\ job' = [job EXCEPT !.src = None, !.root = job.src,
                          !.doomed = IF Gone(job.src) THEN LiveUnder(job.src) ELSE {}]
    /\ UNCHANGED <<source, store, writing, faults, history>>

(***************************************************************************)
(* index_pending                                                           *)
(***************************************************************************)
StartIndexing ==
    /\ Ready("idle")
    /\ Pending # {}
    /\ job' = [IdleJob EXCEPT !.op = "index", !.todo = Pending]
    /\ UNCHANGED <<source, store, writing, faults, history>>

Skip(i, reason, hash) ==
    ChunksThenRow(i, None, [ledger[i] EXCEPT !.status = "skipped", !.reason = reason, !.hash = hash])

\* Only the status and the reason: the last good hash and chunks stay.
Fail(i) == RowOnly(i, [ledger[i] EXCEPT !.status = "failed", !.reason = "read failed"])

Sized(row, c) == [row EXCEPT !.stat.size = SizeOf[c]]

\* The same bytes as last time: the previous outcome is taken to hold.
Touch(i, c) ==
    RowOnly(i, [Sized(ledger[i], c) EXCEPT
                  !.status = IF ledger[i].reason # "none" THEN "skipped" ELSE "indexed"])

\* Mutant: new chunks under the old hash.
HandleWithoutHash(i, c) ==
    IF SizeOf[c] > Limit THEN Skip(i, "too large", None)
    ELSE IF ledger[i].hash = c THEN Touch(i, c)
    ELSE IF c \in Textless THEN Skip(i, "no text", c)
    ELSE ChunksThenRow(i, c, [Sized(ledger[i], c) EXCEPT !.status = "indexed", !.reason = "none"])

Handle(i, c) ==
    IF SizeOf[c] > Limit THEN Skip(i, "too large", None)
    ELSE IF ledger[i].hash = c THEN Touch(i, c)
    ELSE IF c \in Textless THEN Skip(i, "no text", c)
    ELSE ChunksThenRow(i, c, [Sized(ledger[i], c) EXCEPT !.status = "indexed", !.reason = "none",
                                                        !.hash = c])

TakeFile(i) ==
    /\ Ready("index")
    /\ i \in job.todo
    /\ job' = [job EXCEPT !.todo = @ \ {i}]

Readable(i) == ledger[i].path \in Supported /\ ledger[i].stat.size <= Limit

\* One file of the queue: read whatever is at its path now, then record it.
IndexFile(i) ==
    /\ TakeFile(i)
    /\ \/ /\ ~Readable(i)
          /\ Skip(i, IF ledger[i].path \in Supported THEN "too large" ELSE "unsupported", None)
       \/ /\ Readable(i)
          /\ \E f \in At(ledger[i].path) : Handle(i, tree[f].content)
       \/ /\ Readable(i) /\ At(ledger[i].path) = {}
          /\ Fail(i)
    /\ UNCHANGED <<source, idScheme, faults, history>>

\* The source cannot read it, or has only an online placeholder.
ReadFails(i) ==
    /\ TakeFile(i)
    /\ Readable(i)
    /\ \/ Fault("read") /\ Fail(i)
       \/ Fault("online only") /\ Skip(i, "not downloaded", None)
    /\ UNCHANGED <<source, idScheme, history>>

\* The queue is done, or the embedder fails or the time slice ends first.
EndIndexing ==
    /\ Ready("index")
    /\ \/ job.todo = {} /\ UNCHANGED faults
       \/ job.todo # {} /\ Fault("stop")
    /\ job' = IdleJob
    /\ UNCHANGED <<source, store, writing, history>>

(***************************************************************************)
(* Requests of other threads, and the death of the process                 *)
(***************************************************************************)
\* POST /index/retry: requeue_failed.
RetryFailed(S) ==
    /\ S # {}
    /\ \A i \in S : ledger[i].status = "failed"
    /\ ledger' = [i \in Ids |-> IF i \in S THEN [ledger[i] EXCEPT !.status = "pending",
                                                   !.reason = "none", !.hash = None]
                                ELSE ledger[i]]
    /\ UNCHANGED <<source, chunks, idScheme, job, writing, faults, history>>

\* The owner lets online-only files be downloaded: requeue_reason.
OnlineOnly == {i \in Ids : ledger[i].status = "skipped" /\ ledger[i].reason = "not downloaded"}

RequeueOnlineOnly ==
    /\ OnlineOnly # {}
    /\ ledger' = [i \in Ids |-> IF i \in OnlineOnly
                                THEN [ledger[i] EXCEPT !.status = "pending", !.reason = "none",
                                                       !.hash = None]
                                ELSE ledger[i]]
    /\ UNCHANGED <<source, chunks, idScheme, job, writing, faults, history>>

\* What is committed stays; the operation and its unwritten row are lost.
Crash ==
    /\ job.op # "idle" \/ writing # NoWrite
    /\ Fault("crash")
    /\ job' = IdleJob
    /\ writing' = NoWrite
    /\ settled' = IF settled = "walking" THEN "no" ELSE settled
    /\ unmoved' = {}
    /\ UNCHANGED <<source, store>>

(***************************************************************************)
(* Specification                                                           *)
(***************************************************************************)
Other == \/ \E f \in Files, p \in Paths, c \in Contents : SaveFile(f, p, c)
         \/ \E f \in Files, p \in Paths : MoveFile(f, p)
         \/ \E f \in Files : RemoveFile(f)

HintPaths == Paths \cup (Dirs \ {Root})

ScanStep == \/ \E d \in job.queue : ListDir(d)
            \/ \E e \in job.entries : ListedFile(e)
            \/ FinishWalk

SettleStep == \/ \E i \in job.doomed : Tombstone(i)
              \/ HintSource
              \/ EndOperation

IndexStep == \/ \E i \in job.todo : IndexFile(i)
             \/ EndIndexing

JobStep == CommitRow \/ ScanStep \/ SettleStep \/ IndexStep

FaultStep == \/ \E d \in job.queue : ListDirFails(d)
             \/ \E e \in job.entries : EntryFails(e)
             \/ \E i \in job.todo : ReadFails(i)
             \/ Crash

HintStep == \/ \E p \in HintPaths, src \in HintPaths \cup {None} : HintPresent(p, src)
            \/ \E p \in HintPaths : HintAbsent(p)

Owner == \/ \E S \in SUBSET Ids : RetryFailed(S)
         \/ RequeueOnlineOnly

Next == Other \/ StartScan \/ StartIndexing \/ JobStep \/ FaultStep \/ HintStep \/ Owner

Spec == Init /\ [][Next]_vars

\* A started operation goes on, and run_job scans and drains the queue again
\* and again whatever hints come in between: each job takes the hints queued
\* when it starts, then scans when the interval is over, then indexes.
FairSpec == /\ Spec
            /\ WF_vars(JobStep)
            /\ SF_vars(StartScan)
            /\ SF_vars(StartIndexing)

(***************************************************************************)
(* Properties                                                              *)
(***************************************************************************)
Job == [op : {"idle", "scan", "settle", "index"}, root : Dirs \cup Paths,
        src : Dirs \cup Paths \cup {None}, queue : SUBSET Dirs,
        entries : SUBSET [path : Paths, stat : Stat, id : Files \cup {None}],
        complete : BOOLEAN, rekey : BOOLEAN, seen : SUBSET Ids, doomed : SUBSET Ids,
        todo : SUBSET Ids]

\* Every variable holds a value the tables and the job can hold.
TypeOK ==
    /\ tree \in [Files -> FileState]
    /\ clock \in Nat
    /\ ledger \in [Ids -> Row]
    /\ chunks \in [Ids -> Contents \cup {None}]
    /\ idScheme \in BOOLEAN
    /\ job \in Job
    /\ writing \in [id : Ids, row : Row] \cup {NoWrite}
    /\ faults \in Nat
    /\ settled \in {"no", "walking", "yes"}
    /\ unmoved \in SUBSET Files

\* Chunks are only stored for a live row, at every moment a crash or a search
\* can see: _tombstone drops the chunks before it marks the row, a re-key takes
\* them along, and nothing is embedded for a row that is not live.
ChunksHaveLiveRows == \A i \in Ids : chunks[i] # None => Live(i)

\* The inductive form of it (the theorems of IndexLedgerProofs): the queue being
\* drained holds pending rows, and a half-written row that is not live has
\* already lost its chunks.
QueueIsPending == /\ \A i \in job.todo : ledger[i].status = "pending"
                  /\ job.op # "index" => job.todo = {}

WriteIsSafe == writing # NoWrite =>
                 /\ writing.id \notin job.todo
                 /\ writing.row.status \in {"none", "deleted"} => chunks[writing.id] = None

LedgerInv == TypeOK /\ ChunksHaveLiveRows /\ QueueIsPending /\ WriteIsSafe

\* Once a complete root scan ended and no file changed since it began, the
\* ledger names exactly the files that exist, where they are, with their
\* modification times, whatever hints, retries, indexing and crashes follow
\* (scan, observe, _prune, hint, _listed_file's re-keying).
RowIsTrue(f) == /\ ledger[f].path = tree[f].path
                /\ ledger[f].list \in {StatOf(f), None}
                /\ ledger[f].stat.mtime = tree[f].mtime

SettledLedgerIsTrue ==
    settled = "yes" => /\ \A f \in Files : Live(f) <=> f \in Present
                       /\ \A f \in Present : RowIsTrue(f)
                       /\ \A l \in LegacyIds : ~Live(l)

\* The chunks of an indexed file, when it has any, are those of the content its
\* hash names: no mixture of two readings (_index_file's touch by hash against
\* replace_chunks). A crash between its two statements breaks it.
ChunksMatchHash ==
    \A i \in Ids : ledger[i].status = "indexed" /\ chunks[i] # None => chunks[i] = ledger[i].hash

\* A file that stays where it is while an operation runs is not tombstoned by
\* it: by no root scan at all, and by no hint or subtree scan when its row names
\* its place. Failed listings, files moving between listed and unlisted folders
\* and late hints included (_prune, _tombstone_under, _hint_present).
NeverDropsAPresentFile ==
    [][\A f \in unmoved :
         /\ Live(f)
         /\ settled = "walking" \/ ledger[f].path = tree[f].path
         => ledger'[f].status \notin {"none", "deleted"}]_vars

\* Re-keying carries a legacy row and its chunks to the id of the same file, and
\* nothing else takes them over (_listed_file, rekey_file).
RekeyKeepsChunks ==
    [][\A l \in LegacyIds : Live(l) /\ ledger'[l].status = "none" =>
         /\ chunks'[NewIdOf[l]] = chunks[l]
         /\ ledger'[NewIdOf[l]].hash = ledger[l].hash]_vars

\* When files stop changing and faults stop, search stops returning what is gone
\* or moved: chunks are held only for files where the ledger says they are.
FileOf(i) == IF i \in Files THEN i ELSE NewIdOf[i]
NoGhosts == \A i \in Ids : chunks[i] # None =>
              FileOf(i) \in Present /\ ledger[i].path = tree[FileOf(i)].path
GhostsForgotten == <>[]NoGhosts

\* ... and the queue drains for good: no file is requeued by every scan.
QueueDrains == <>[](Pending = {})

================================================================================
