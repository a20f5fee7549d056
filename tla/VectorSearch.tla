----------------------------- MODULE VectorSearch -----------------------------
(***************************************************************************)
(* Vector search: docker/indexer/vectors.py (LocalIndex, RuvectorMirror,   *)
(* VectorService) over the tables `chunks`, `files` and `mirror_points` and *)
(* the generation counter of docker/indexer/store.py.                      *)
(*                                                                         *)
(* Jobs write chunks and paths and bump the generation, each write a       *)
(* transaction and each bump a step after it. Meanwhile a search may load  *)
(* the local matrix, and a sync or a search may be talking to a Ruvector   *)
(* server that loses its collections when it restarts, cannot delete a     *)
(* point, and may not answer.                                              *)
(***************************************************************************)
EXTENDS Integers, FiniteSets

CONSTANTS
    Files,       \* indexed files, each written by the job of its own source
    Places,      \* paths a file can have
    InitialPlaces,  \* where the files are at first: functions from Files to Places
    MaxPoint,    \* bound on point ids (chunks.point_id, AUTOINCREMENT)
    MaxNew,      \* chunks one write can add
    Batch,       \* UPSERT_BATCH
    DeadPart,    \* 1 / DEAD_RATIO_REBUILD
    FaultKinds,  \* the faults that can happen, at most MaxFaults of them
    MaxFaults,
    MaxWrites    \* bound on writes by jobs

ASSUME ConstantsAssumption ==
    /\ InitialPlaces \subseteq [Files -> Places]
    /\ MaxPoint \in Nat
    /\ MaxNew \in Nat
    /\ Batch \in Nat \ {0}
    /\ DeadPart \in Nat \ {0}
    /\ MaxFaults \in Nat
    /\ MaxWrites \in Nat

Points == 1..MaxPoint
Never == -1   \* a generation no store has: nothing loaded, no clean sync

VARIABLES
    chunks,      \* the point ids of the chunks of each file, all embedded
    place,       \* files.path
    last,        \* the last point id given out
    recorded,    \* mirror_points: the points the server was given
    generation,  \* Store._generation, in memory
    writing,     \* what the job of a file has committed and not followed up
    local,       \* LocalIndex: the generation and the rows of its matrix
    loading,     \* the generation a load in progress has read
    exists,      \* does the server have the collection?
    held,        \* the points the server holds
    lost,        \* did it come back empty since recorded was cleared? (history)
    ready,       \* _ready: the collection was verified to exist
    clean,       \* _clean: the generation of the last sync that left nothing
    usable,      \* not cooling down after a failure
    op,          \* the operation that holds the mirror's lock
    faults,
    writes

store == <<chunks, place, last, recorded, generation, writing, writes>>
index == <<local, loading>>
server == <<exists, held, lost>>
mirror == <<ready, clean, usable, op>>
vars == <<chunks, place, last, recorded, generation, writing, local, loading, exists, held, lost,
          ready, clean, usable, op, faults, writes>>

(***************************************************************************)
(* Helpers                                                                 *)
(***************************************************************************)
PointsOf(S) == UNION {chunks[f] : f \in S}
Live == PointsOf(Files)
LiveRows == {r \in [id : Points, path : Places] :
               \E f \in Files : r.id \in chunks[f] /\ r.path = place[f]}

\* The lowest n members of S (ORDER BY point_id LIMIT n).
Lowest(S, n) == {x \in S : Cardinality({y \in S : y <= x}) <= n}
Newest(S) == CHOOSE x \in S : \A y \in S : y <= x

Generations == Nat \cup {Never}
Op == [kind : {"none", "sync", "search"},
       at : {"idle", "ensure", "fn", "decide", "delete", "clear", "create",
             "read", "put", "add", "mark"},
       then : {"fn", "decide", "mark", "done"}, healed : BOOLEAN,
       gen : Generations, batch : SUBSET Points, part : SUBSET Points]

NoOp == [kind |-> "none", at |-> "idle", then |-> "done", healed |-> FALSE,
         gen |-> Never, batch |-> {}, part |-> {}]

Fault(kind) == /\ kind \in FaultKinds
               /\ faults < MaxFaults
               /\ faults' = faults + 1

Init ==
    /\ chunks = [f \in Files |-> {}]
    /\ place \in InitialPlaces
    /\ last = 0
    /\ recorded = {}
    /\ generation = 0
    /\ writing = [f \in Files |-> "no"]
    /\ local = [gen |-> Never, rows |-> {}]
    /\ loading = Never
    /\ exists = FALSE
    /\ held = {}
    /\ lost = FALSE
    /\ ready = FALSE
    /\ clean = Never
    /\ usable = TRUE
    /\ op = NoOp
    /\ faults = 0
    /\ writes = 0

(***************************************************************************)
(* Jobs write                                                              *)
(***************************************************************************)
\* Mutant: a write is not announced.
WriteQuietly(f, state) ==
    /\ writing[f] = "no"
    /\ writes < MaxWrites
    /\ writes' = writes + 1
    /\ UNCHANGED <<generation, writing, index, server, mirror, faults>>

\* What a job writes is announced by a bump after the commit.
Write(f, state) ==
    /\ writing[f] = "no"
    /\ writes < MaxWrites
    /\ writes' = writes + 1
    /\ writing' = [writing EXCEPT ![f] = state]
    /\ UNCHANGED <<generation, index, server, mirror, faults>>

\* replace_chunks: chunks with the same text keep their ids, the others get new
\* ones. delete_file_chunks is the case that keeps and adds nothing. A write
\* that changes nothing bumps nothing.
ReplaceChunks(f, kept, n) ==
    /\ kept \subseteq chunks[f]
    /\ kept # chunks[f] \/ n > 0
    /\ last + n <= MaxPoint
    /\ chunks' = [chunks EXCEPT ![f] = kept \cup (last + 1)..(last + n)]
    /\ last' = last + n
    /\ Write(f, "bump")
    /\ UNCHANGED <<place, recorded>>

\* rekey_file and mirror_forget_file: the points keep their ids, and look
\* unmirrored so that their metadata is sent again.
Rekey(f) ==
    /\ recorded' = recorded \ chunks[f]
    /\ Write(f, "bump")
    /\ UNCHANGED <<chunks, place, last>>

\* observe finds the file at another path: mirror_forget_file, then both bumps,
\* then the row.
Rename(f) ==
    /\ recorded' = recorded \ chunks[f]
    /\ Write(f, "rename")
    /\ UNCHANGED <<chunks, place, last>>

Bump(f) ==
    /\ writing[f] \in {"bump", "rename"}
    /\ generation' = generation + 1
    /\ writing' = [writing EXCEPT ![f] = IF @ = "bump" THEN "no" ELSE "path"]
    /\ UNCHANGED <<chunks, place, last, recorded, index, server, mirror, faults, writes>>

WritePath(f) ==
    /\ writing[f] = "path"
    /\ \E p \in Places \ {place[f]} : place' = [place EXCEPT ![f] = p]
    /\ writing' = [writing EXCEPT ![f] = "no"]
    /\ UNCHANGED <<chunks, last, recorded, generation, index, server, mirror, faults, writes>>

(***************************************************************************)
(* LocalIndex._load, under the lock of the local index                     *)
(***************************************************************************)
StartLoad ==
    /\ loading = Never
    /\ local.gen # generation
    /\ loading' = generation
    /\ UNCHANGED <<store, local, server, mirror, faults>>

LoadRows ==
    /\ loading # Never
    /\ local' = [gen |-> loading, rows |-> LiveRows]
    /\ loading' = Never
    /\ UNCHANGED <<store, server, mirror, faults>>

(***************************************************************************)
(* RuvectorMirror: an operation (_run) holds the mirror's lock. It is cut   *)
(* at every request to the server and every use of the store.              *)
(***************************************************************************)
At(step) == op.at = step

\* Without an embedding there is no dimension and no collection to talk of.
StartSync ==
    /\ op = NoOp /\ usable /\ last > 0
    /\ op' = [NoOp EXCEPT !.kind = "sync", !.at = "ensure"]
    /\ UNCHANGED <<store, index, server, ready, clean, usable, faults>>

StartSearch ==
    /\ op = NoOp /\ usable /\ last > 0 /\ ~ready
    /\ op' = [NoOp EXCEPT !.kind = "search", !.at = "ensure"]
    /\ UNCHANGED <<store, index, server, ready, clean, usable, faults>>

\* _verify: does the server hold the newest live point on record?
SampleHeld == LET known == recorded \cap Live IN
              known # {} => exists /\ Newest(known) \in held

\* _rehydrate, and where to go on when it has pushed everything.
Rehydrate(then) == op' = [op EXCEPT !.at = "clear", !.then = then, !.gen = Never,
                                    !.batch = {}, !.part = {}]

Ensure ==
    /\ At("ensure")
    /\ \/ /\ ready
          /\ op' = [op EXCEPT !.at = "fn"]
          /\ UNCHANGED ready
       \/ /\ ~ready /\ exists /\ SampleHeld
          /\ op' = [op EXCEPT !.at = "fn"]
          /\ ready' = TRUE
       \/ /\ ~ready /\ ~(exists /\ SampleHeld)
          /\ Rehydrate("fn")
          /\ UNCHANGED ready
    /\ UNCHANGED <<store, index, server, clean, usable, faults>>

\* Mutant: a sync trusts the record.
VerifyNothing ==
    /\ At("fn") /\ op.kind = "sync"
    /\ op' = [op EXCEPT !.at = "decide"]
    /\ UNCHANGED <<store, index, server, ready, clean, usable, faults>>

Verify ==
    /\ At("fn") /\ op.kind = "sync"
    /\ IF SampleHeld THEN op' = [op EXCEPT !.at = "decide"] ELSE Rehydrate("decide")
    /\ UNCHANGED <<store, index, server, ready, clean, usable, faults>>

TooManyDead == LET dead == Cardinality(recorded \ Live)
                   live == Cardinality(recorded \cap Live)
               IN  DeadPart * dead > IF live = 0 THEN 1 ELSE live

\* sync: skip, rebuild or push.
Decide ==
    /\ At("decide")
    /\ op' = IF clean = generation THEN NoOp
             ELSE IF recorded \subseteq Live \/ ~TooManyDead
             THEN [op EXCEPT !.at = "read", !.then = "mark", !.gen = generation]
             ELSE [op EXCEPT !.at = "delete"]
    /\ UNCHANGED <<store, index, server, ready, clean, usable, faults>>

\* _rebuild: a collection that is already gone is fine.
Delete ==
    /\ At("delete")
    /\ exists' = FALSE
    /\ held' = {}
    /\ Rehydrate("done")
    /\ UNCHANGED <<store, index, lost, ready, clean, usable, faults>>

Clear ==
    /\ At("clear")
    /\ recorded' = {}
    /\ lost' = FALSE
    /\ clean' = Never
    /\ op' = [op EXCEPT !.at = "create"]
    /\ UNCHANGED <<chunks, place, last, generation, writing, writes, index, exists, held,
                   ready, usable, faults>>

\* A collection that exists already is fine, and keeps what it holds.
Create ==
    /\ At("create")
    /\ exists' = TRUE
    /\ ready' = TRUE
    /\ op' = [op EXCEPT !.at = "read"]
    /\ UNCHANGED <<store, index, held, lost, clean, usable, faults>>

\* _push_missing: read a batch; when there is none the push is over.
ReadMissing ==
    /\ At("read")
    /\ LET missing == Live \ recorded IN
         IF missing # {}
         THEN /\ op' = [op EXCEPT !.at = "put", !.batch = Lowest(missing, Batch)]
              /\ UNCHANGED ready
         ELSE /\ op' = IF op.then = "done" THEN NoOp ELSE [op EXCEPT !.at = op.then]
              /\ ready' = (ready \/ (op.then = "fn" /\ ~op.healed))
    /\ UNCHANGED <<store, index, server, clean, usable, faults>>

\* PUT a run of the batch (_byte_batches, and _upsert's halves), then record it.
Parts == {Lowest(op.batch, n) : n \in 1..Cardinality(op.batch)}

Put ==
    /\ At("put")
    /\ exists
    /\ \E part \in Parts :
         /\ held' = held \cup part
         /\ op' = [op EXCEPT !.at = "add", !.part = part]
    /\ UNCHANGED <<store, index, exists, lost, ready, clean, usable, faults>>

Add ==
    /\ At("add")
    /\ recorded' = recorded \cup op.part
    /\ op' = [op EXCEPT !.at = IF op.batch = op.part THEN "read" ELSE "put",
                        !.batch = @ \ op.part, !.part = {}]
    /\ UNCHANGED <<chunks, place, last, generation, writing, writes, index, server,
                   ready, clean, usable, faults>>

\* Mutant: stamped with the generation at the end of the push.
MarkNow ==
    /\ At("mark")
    /\ clean' = generation
    /\ op' = NoOp
    /\ UNCHANGED <<store, index, server, ready, usable, faults>>

Mark ==
    /\ At("mark")
    /\ clean' = op.gen
    /\ op' = NoOp
    /\ UNCHANGED <<store, index, server, ready, usable, faults>>

\* No hits for files that have chunks: the mirror is verified again next time.
NoHits == \E S \in SUBSET Files : PointsOf(S) # {} /\ PointsOf(S) \cap held = {}

Ask ==
    /\ At("fn") /\ op.kind = "search"
    /\ exists
    /\ op' = NoOp
    /\ ready' \in {ready} \cup (IF NoHits THEN {FALSE} ELSE {})
    /\ UNCHANGED <<store, index, server, clean, usable, faults>>

\* A 404 to any request but the verifying ones: heal once, then give up.
Failed == /\ op' = NoOp
          /\ ready' = FALSE
          /\ usable' = FALSE

Missing ==
    /\ At("put") \/ (At("fn") /\ op.kind = "search")
    /\ ~exists
    /\ IF op.healed THEN Failed
       ELSE /\ op' = [NoOp EXCEPT !.kind = op.kind, !.at = "clear", !.then = "fn",
                                  !.healed = TRUE]
            /\ ready' = FALSE
            /\ UNCHANGED usable
    /\ UNCHANGED <<store, index, server, clean, faults>>

\* A request that fails, having reached the server or not.
Fails ==
    /\ \/ At("ensure") /\ ~ready
       \/ At("fn")
       \/ At("put") \/ At("delete") \/ At("create")
    /\ Fault("request")
    /\ Failed
    /\ \/ UNCHANGED <<exists, held>>
       \/ /\ At("put") /\ exists
          /\ \E part \in Parts : held' = held \cup part
          /\ UNCHANGED exists
       \/ At("delete") /\ exists' = FALSE /\ held' = {}
       \/ At("create") /\ exists' = TRUE /\ UNCHANGED held
    /\ UNCHANGED <<store, index, lost, clean>>

(***************************************************************************)
(* A search of a verified collection takes no lock. One that meets a 404   *)
(* goes on as StartSearch.                                                 *)
(***************************************************************************)
SearchUnlocked ==
    /\ usable /\ ready
    /\ ~exists \/ NoHits
    /\ ready' = FALSE
    /\ UNCHANGED <<store, index, server, clean, usable, op, faults>>

SearchFails ==
    /\ usable /\ ready
    /\ Fault("request")
    /\ ready' = FALSE
    /\ usable' = FALSE
    /\ UNCHANGED <<store, index, server, clean, op>>

\* MIRROR_COOLDOWN_SEC is over; COUNTS_TTL_SEC is over.
Cooled ==
    /\ ~usable
    /\ usable' = TRUE
    /\ UNCHANGED <<store, index, server, ready, clean, op, faults>>

CleanExpires ==
    /\ clean # Never
    /\ clean' = Never
    /\ UNCHANGED <<store, index, server, ready, usable, op, faults>>

(***************************************************************************)
(* The server restarts without its collections, or with their definitions  *)
(* only; the engine restarts.                                              *)
(***************************************************************************)
ServerRestarts ==
    /\ exists
    /\ Fault("server")
    /\ exists' = FALSE
    /\ held' = {}
    /\ UNCHANGED <<store, index, lost, mirror>>

ServerEmptied ==
    /\ exists
    /\ Fault("emptied")
    /\ held' = {}
    /\ lost' = TRUE
    /\ UNCHANGED <<store, index, exists, mirror>>

Crash ==
    /\ Fault("crash")
    /\ generation' = 0
    /\ writing' = [f \in Files |-> "no"]
    /\ local' = [gen |-> Never, rows |-> {}]
    /\ loading' = Never
    /\ ready' = FALSE
    /\ clean' = Never
    /\ usable' = TRUE
    /\ op' = NoOp
    /\ UNCHANGED <<chunks, place, last, recorded, writes, server>>

(***************************************************************************)
(* The specification                                                       *)
(***************************************************************************)
JobStep(f) == Bump(f) \/ WritePath(f)

MirrorStep == \/ Ensure \/ Verify \/ Decide \/ Delete \/ Clear \/ Create
              \/ ReadMissing \/ Put \/ Add \/ Mark \/ Ask \/ Missing

Next == \/ \E f \in Files : \/ \E kept \in SUBSET chunks[f], n \in 0..MaxNew : ReplaceChunks(f, kept, n)
                            \/ Rekey(f)
                            \/ Rename(f)
                            \/ JobStep(f)
        \/ StartLoad \/ LoadRows
        \/ StartSync \/ StartSearch \/ MirrorStep \/ Fails
        \/ SearchUnlocked \/ SearchFails \/ Cooled \/ CleanExpires
        \/ ServerRestarts \/ ServerEmptied \/ Crash

Spec == Init /\ [][Next]_vars

\* A sync follows every job, and jobs never stop coming (Scheduler); an
\* operation goes on once it has the lock; what a job has begun to write it
\* finishes. Searches, faults and the expiry of the clean stamp are never
\* assumed to happen.
FairSpec == /\ Spec
            /\ SF_vars(StartSync)
            /\ WF_vars(MirrorStep)
            /\ WF_vars(Cooled)
            /\ \A f \in Files : WF_vars(JobStep(f))

(***************************************************************************)
(* Properties                                                              *)
(***************************************************************************)
\* Every variable holds a value the code can hold, and an operation carries a
\* batch only while it sends and records it.
TypeOK ==
    /\ chunks \in [Files -> SUBSET Points]
    /\ place \in [Files -> Places]
    /\ last \in 0..MaxPoint
    /\ recorded \in SUBSET Points
    /\ generation \in Nat
    /\ writing \in [Files -> {"no", "bump", "rename", "path"}]
    /\ local \in [gen : Generations, rows : SUBSET [id : Points, path : Places]]
    /\ loading \in Generations
    /\ exists \in BOOLEAN
    /\ held \in SUBSET Points
    /\ lost \in BOOLEAN
    /\ ready \in BOOLEAN
    /\ clean \in Generations
    /\ usable \in BOOLEAN
    /\ op \in Op
    /\ op.at \notin {"put", "add"} => op.batch = {}
    /\ faults \in Nat
    /\ writes \in Nat

\* Between a commit and its bump the indexes cannot know.
Announced == \A f \in Files : writing[f] \notin {"bump", "rename"}

\* A matrix of the current generation holds exactly the live chunks, whatever
\* was written while it was loaded (LocalIndex._load reads the generation first).
LocalIsCurrent ==
    local.gen = generation /\ Announced => {r.id : r \in local.rows} = Live

\* A sync that is skipped because nothing changed would have had nothing to
\* push, whatever was written or forgotten during the last one (sync's gen and
\* _clean against mirror_forget_file and replace_chunks).
CleanMeansMirrored == clean = generation /\ Announced => Live \subseteq recorded

\* The record of what the server was given never says more than the server
\* holds, unless it came back empty since: a failed, interrupted or repeated
\* push loses no point (_upsert, _rehydrate, _rebuild).
HeldWhatIsRecorded == exists /\ ~lost => recorded \subseteq held

\* The server ends up holding every live point, through restarts of either side,
\* requests that fail and writes at any moment of a push.
MirrorCatchesUp == <>[](lost \/ Live \subseteq held)

\* The inductive forms (the theorems of VectorSearchProofs): generations only
\* grow, and the steps that come before the facts above.
StampsAreOld == /\ local.gen <= generation
                /\ loading <= generation
                /\ clean <= generation
                /\ op.gen <= generation

PushIsRecorded ==
    /\ op.part \subseteq op.batch
    /\ op.at = "create" => recorded = {}
    /\ op.at = "add" /\ exists /\ ~lost => op.part \subseteq held
    /\ op.at = "mark" /\ op.gen = generation /\ Announced => Live \subseteq recorded

VectorInv == /\ TypeOK
             /\ LocalIsCurrent
             /\ CleanMeansMirrored
             /\ HeldWhatIsRecorded
             /\ StampsAreOld
             /\ PushIsRecorded

================================================================================
