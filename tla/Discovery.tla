------------------------------- MODULE Discovery -------------------------------
(***************************************************************************)
(* Discovered collections: discover_pass, discover_start, discover_act and *)
(* discover_merge of docker/indexer/service.py, run, reconcile, name_group *)
(* and merge of discover.py, and the two tables they keep in store.py.     *)
(*                                                                         *)
(* One thread makes a run for a location when the owner asks, and again    *)
(* when a day has passed and file vectors were written, then has the AI    *)
(* name proposals.  A run reads for minutes, then reads the stored groups, *)
(* matches its own against them, and saves.  The owner names, keeps,       *)
(* dismisses, restores and merges groups at any time, and no lock is held  *)
(* from reading a group to writing it.                                     *)
(*                                                                         *)
(* One location; its files and vectors are those of FileVectors.           *)
(***************************************************************************)
EXTENDS FileVectors, Communities

CONSTANTS
    Ids,            \* ids for groups, 1..n
    InitialTexts,   \* what the files say at first
    Changing,       \* the files that change later on, a bound
    Loads,          \* the bounds (see Bounds)
    MaxLoad

VARIABLES
    scope,          \* the row of discover_scopes
    target,         \* whether the location is connected
    paused,         \* whether indexing is paused
    groups,         \* groups[i]: a row of discover_groups, or NoGroup
    run,            \* the discovery thread
    merging,        \* a merge in progress
    left,           \* what is left of the bounds
    old,            \* history: a day has passed since the last run
    asked,          \* history: the owner asked for a run that was not made yet
    basis,          \* history: the vectors the last run that ended well read
    acted           \* history: groups acted on since the thread last read them

engine == <<scope, run, old, asked, basis>>
outside == <<target, paused>>
vars == <<vectorVars, engine, outside, groups, merging, left, acted>>

Bounds == {"edits", "rekeys", "forgets", "asks", "stops", "acts", "merges", "fails", "names", "restarts",
           "crashes", "switches"}

Statuses == {"proposed", "kept", "dismissed", "merged"}
Group == [keys: SUBSET Files, status: Statuses, by: {"auto", "ai", "you"}]
NoGroup == [keys |-> {}, status |-> "none", by |-> "auto"]
Groups == [Ids -> Group \cup {NoGroup}]
NoGroups == [i \in Ids |-> NoGroup]
Stored(rows) == {i \in Ids : rows[i] # NoGroup}

ASSUME DiscoveryAssumption ==
    /\ IsFiniteSet(Ids) /\ Ids = 1..Cardinality(Ids)
    /\ InitialTexts \subseteq Meanings
    /\ Files \subseteq DOMAIN Path
    /\ Changing \subseteq Files
    /\ MaxLoad \in Nat
    /\ Loads \subseteq [Bounds -> 0..MaxLoad]

NoScope == [known |-> FALSE, enabled |-> FALSE, requested |-> FALSE, finished |-> FALSE, error |-> FALSE, seq |-> 0]
Resting == [at |-> "idle", seq |-> 0, says |-> Nothing, means |-> Nothing, found |-> {}, prior |-> NoGroups,
            rows |-> NoGroups, names |-> {}, id |-> 0]
NoMerge == [at |-> "idle", ids |-> {}, keys |-> {}, by |-> "auto"]

Use(bound) == left[bound] > 0 /\ left' = [left EXCEPT ![bound] = @ - 1]

Init ==
    /\ text \in InitialTexts
    /\ embedded = {t \in Texts : \E f \in Files : text[f] = t}
    /\ vec = text
    /\ stamp = [f \in Files |-> IF vec[f] # None THEN 1 ELSE 0]
    /\ fvSeq = 1
    /\ builder = Asleep /\ ready = FALSE
    /\ idx = Nothing /\ idxSeq = 0
    /\ scope = NoScope /\ target = TRUE /\ paused = FALSE
    /\ groups = NoGroups
    /\ run = Resting /\ merging = NoMerge
    /\ left \in Loads
    /\ old = FALSE /\ asked = FALSE /\ basis = Nothing /\ acted = {}

-------------------------------------------------------------------------------
(* Files and vectors. *)

Index(f, t) == Use("edits") /\ Replace(f, t) /\ UNCHANGED <<engine, outside, groups, merging, acted>>
Rename(f, g) == Use("rekeys") /\ Rekey(f, g) /\ UNCHANGED <<engine, outside, groups, merging, acted>>
Vectors == (BuilderStep \/ \E t \in Texts : Embed(t)) /\ UNCHANGED <<engine, outside, groups, merging, left, acted>>

\* purge_source: the source is disconnected, its groups and its scope go too.
Purge ==
    /\ Use("forgets")
    /\ Forget
    /\ target' = FALSE
    /\ scope' = NoScope /\ asked' = FALSE
    /\ groups' = NoGroups /\ acted' = Ids /\ basis' = Nothing
    /\ UNCHANGED <<run, old, paused, merging>>

\* Indexing is paused or goes on; the location is disconnected or connected.
Switch ==
    /\ Use("switches")
    /\ \/ paused' = ~paused /\ UNCHANGED target
       \/ target' = ~target /\ UNCHANGED paused
    /\ UNCHANGED <<vectorVars, engine, groups, merging, acted>>

Day ==
    /\ ~old /\ old' = TRUE
    /\ UNCHANGED <<vectorVars, scope, run, asked, basis, outside, groups, merging, left, acted>>

-------------------------------------------------------------------------------
(* The owner. *)

\* discover_start
Ask ==
    /\ Use("asks")
    /\ target
    /\ scope' = [scope EXCEPT !.known = TRUE, !.enabled = TRUE, !.requested = TRUE]
    /\ asked' = TRUE
    /\ UNCHANGED <<vectorVars, run, old, basis, outside, groups, merging, acted>>

\* discover_stop
Disable ==
    /\ Use("stops")
    /\ scope.known
    /\ scope' = [scope EXCEPT !.enabled = FALSE, !.requested = FALSE]
    /\ asked' = FALSE
    /\ UNCHANGED <<vectorVars, run, old, basis, outside, groups, merging, acted>>

\* discover_act
Change(i, row) ==
    /\ Use("acts")
    /\ groups[i] # NoGroup
    /\ groups' = [groups EXCEPT ![i] = row]
    /\ acted' = acted \cup {i}
    /\ UNCHANGED <<vectorVars, engine, outside, merging>>

Name(i) == Change(i, [groups[i] EXCEPT !.by = "you"])
Decide(i, status) == groups[i].status # "merged" /\ Change(i, [groups[i] EXCEPT !.status = status])

\* merge: the groups are read ...
Merge(ids, named) ==
    /\ Use("merges")
    /\ merging.at = "idle"
    /\ Cardinality(ids) >= 2
    /\ \A i \in ids : groups[i].status \in {"proposed", "kept"}
    /\ merging' = [at |-> "save", ids |-> ids, keys |-> UNION {groups[i].keys : i \in ids},
                   by |-> IF named THEN "you" ELSE "auto"]
    /\ UNCHANGED <<vectorVars, engine, outside, groups, acted>>

\* Ids are never used again while something refers to them.
Free(rows) == {i \in Ids \ (merging.ids \cup run.names \cup {run.id}) :
                rows[i] = NoGroup /\ run.rows[i] = NoGroup /\ run.prior[i] = NoGroup}
Lowest(ids) == {i \in ids : \A j \in ids : i <= j}

\* ... the proposal of them all is saved ...
MergeSave ==
    /\ merging.at = "save"
    /\ \E i \in Lowest(Free(groups)) :
        /\ groups' = [groups EXCEPT ![i] = [keys |-> merging.keys, status |-> "proposed", by |-> merging.by]]
        /\ acted' = acted \cup {i}
    /\ merging' = [merging EXCEPT !.at = "mark"]
    /\ UNCHANGED <<vectorVars, engine, outside, left>>

\* ... and they are marked, one by one.
MergeMark ==
    /\ merging.at = "mark"
    /\ \E i \in merging.ids :
        /\ groups' = IF groups[i] = NoGroup THEN groups ELSE [groups EXCEPT ![i].status = "merged"]
        /\ acted' = acted \cup {i}
        /\ merging' = IF merging.ids = {i} THEN NoMerge ELSE [merging EXCEPT !.ids = @ \ {i}]
    /\ UNCHANGED <<vectorVars, engine, outside, left>>

-------------------------------------------------------------------------------
(* The discovery thread: a run. *)

\* _discover_due
Due ==
    \/ scope.requested
    \/ scope.finished /\ ~scope.error /\ old /\ fvSeq # scope.seq

\* discover_pass
Look ==
    /\ run.at = "idle"
    /\ ~paused /\ ready
    /\ run' = [Resting EXCEPT !.at = IF target /\ scope.enabled /\ Due THEN "begin" ELSE "list"]
    /\ UNCHANGED <<vectorVars, scope, old, asked, basis, outside, groups, merging, left, acted>>

\* discover_mark changes nothing when the scope was purged.
Marked(row) == scope' = IF scope.known THEN row ELSE scope

\* _discover_run: the counter is read before anything else is.
Start ==
    /\ run.at = "begin"
    /\ Marked([scope EXCEPT !.requested = FALSE, !.error = FALSE])
    /\ run' = [run EXCEPT !.at = "read", !.seq = fvSeq]
    /\ UNCHANGED <<vectorVars, old, asked, basis, outside, groups, merging, left, acted>>

\* build_graph: names, versions and references from the text ...
ReadTexts ==
    /\ run.at = "read"
    /\ run' = [run EXCEPT !.at = "compare", !.says = text]
    /\ UNCHANGED <<vectorVars, scope, old, asked, basis, outside, groups, merging, left, acted>>

\* What files may mean within the bounds, of which TLC finds the groups once.
Possible == {Nothing} \cup {m \in Meanings : \E t \in InitialTexts : \A f \in Files \ Changing : m[f] = t[f]}
Known == Table([read \in Possible \X Possible |-> GroupsOf(read[1], read[2])])
Found(says, means) == IF {says, means} \subseteq Possible THEN Known[<<says, means>>] ELSE GroupsOf(says, means)

\* ... and, later, closeness from the index, which is refreshed first.
Compare ==
    /\ run.at = "compare"
    /\ Refreshed
    /\ run' = [run EXCEPT !.at = "reconcile", !.means = Loaded, !.found = Found(run.says, Loaded)]
    /\ UNCHANGED <<chunks, stored, builder, ready, scope, old, asked, basis, outside, groups, merging, left, acted>>

\* The share of files two groups have in common is at least n tenths.
Alike(a, b, n) == 10 * Cardinality(a \cap b) >= n * Cardinality(a \cup b)
CloserThan(keys, a, b) ==
    Cardinality(keys \cap a) * Cardinality(keys \cup b) > Cardinality(keys \cap b) * Cardinality(keys \cup a)

\* As a plausible bug would have it: only proposals are recognised again.
RecognisedProposals(keys, rows, used) ==
    {i \in Stored(rows) \ used : rows[i].status = "proposed" /\ Alike(keys, rows[i].keys, 5)}

\* The stored groups that a new one may be, MATCH_SAME, of those not yet taken.
Recognised(keys, rows, used) == {i \in Stored(rows) \ used : Alike(keys, rows[i].keys, 5)}

\* The closest of them; 0 stands for none.
Closest(keys, rows, used) ==
    LET near == Recognised(keys, rows, used) IN
    IF near = {} THEN {0} ELSE {i \in near : \A j \in near : ~CloserThan(keys, rows[j].keys, rows[i].keys)}

\* All ways to match them, one after the other, the strongest first: scores
\* are left out, so in any order.
Orders(set) == {o \in [set -> 1..Cardinality(set)] : \A a, b \in set : o[a] = o[b] => a = b}
Matches(found, rows) ==
    {match \in [found -> {0} \cup Stored(rows)] : \E o \in Orders(found) :
        \A keys \in found : match[keys] \in Closest(keys, rows, {match[k] : k \in {k \in found : o[k] < o[keys]}})}

\* A proposal keeps its name if the owner gave it, or the AI did and it is much
\* the same.
KeepsName(row, keys) == row.by = "you" \/ (row.by = "ai" /\ Alike(keys, row.keys, 7))
Again(row, keys) == [keys |-> keys, status |-> "proposed", by |-> IF KeepsName(row, keys) THEN row.by ELSE "auto"]

\* What becomes of the rows if the new groups match like this; those that match
\* nothing take ids that are free.
New(match) == {keys \in DOMAIN match : match[keys] = 0}
Places(prior, match) ==
    LET fresh == CHOOSE id \in [New(match) -> Free(prior)] : \A a, b \in New(match) : id[a] = id[b] => a = b
    IN  [keys \in DOMAIN match |-> IF match[keys] = 0 THEN fresh[keys] ELSE match[keys]]
Proposed(row, keys) == IF row = NoGroup THEN [keys |-> keys, status |-> "proposed", by |-> "auto"]
                       ELSE IF row.status = "proposed" THEN Again(row, keys) ELSE NoGroup
Rewritten(prior, match) ==
    LET place == Places(prior, match)
        new(i) == {keys \in DOMAIN match : place[keys] = i}
    IN  [i \in Ids |-> IF new(i) = {} THEN NoGroup ELSE Proposed(prior[i], CHOOSE keys \in new(i) : TRUE)]

\* reconcile: the stored groups are read only now.
Reconcile ==
    /\ run.at = "reconcile"
    /\ \E match \in Matches(run.found, groups) :
        /\ Cardinality(New(match)) <= Cardinality(Free(groups))
        /\ run' = [run EXCEPT !.at = "save", !.prior = groups, !.rows = Rewritten(groups, match)]
    /\ acted' = {}
    /\ UNCHANGED <<vectorVars, scope, old, asked, basis, outside, groups, merging, left>>

\* Proposals read that match nothing are dropped.
Dropped == {i \in Stored(run.prior) : run.prior[i].status = "proposed" /\ run.rows[i] = NoGroup}

\* discover_save
Save ==
    /\ run.at = "save"
    /\ groups' = [i \in Ids |-> IF run.rows[i] # NoGroup THEN run.rows[i]
                                ELSE IF i \in Dropped THEN NoGroup ELSE groups[i]]
    /\ run' = [run EXCEPT !.at = "mark", !.prior = NoGroups, !.rows = NoGroups, !.found = {}, !.says = Nothing]
    /\ UNCHANGED <<vectorVars, scope, old, asked, basis, outside, merging, left, acted>>

\* As a plausible bug would have it: the counter is read when the run ends.
MarkNow ==
    /\ run.at = "mark"
    /\ Marked([scope EXCEPT !.finished = TRUE, !.seq = fvSeq])
    /\ run' = [Resting EXCEPT !.at = "list"]
    /\ old' = FALSE /\ basis' = run.means
    /\ asked' = (asked /\ scope.requested)
    /\ UNCHANGED <<vectorVars, outside, groups, merging, left, acted>>

Mark ==
    /\ run.at = "mark"
    /\ Marked([scope EXCEPT !.finished = TRUE, !.seq = run.seq])
    /\ run' = [Resting EXCEPT !.at = "list"]
    /\ old' = FALSE /\ basis' = run.means
    /\ asked' = (asked /\ scope.requested)
    /\ UNCHANGED <<vectorVars, outside, groups, merging, left, acted>>

\* A run that fails is over too, and is not made again until asked for.
Fail ==
    /\ Use("fails")
    /\ run.at \in {"read", "compare"}
    /\ Marked([scope EXCEPT !.finished = TRUE, !.error = TRUE])
    /\ run' = [Resting EXCEPT !.at = "list"]
    /\ old' = FALSE
    /\ asked' = (asked /\ scope.requested)
    /\ UNCHANGED <<vectorVars, basis, outside, groups, merging, acted>>

-------------------------------------------------------------------------------
(* The discovery thread: names. *)

\* The proposals that have a made-up name, unless the AI is not configured or
\* left alone.
ListNames ==
    /\ run.at = "list"
    /\ LET auto == {i \in Ids : groups[i].status = "proposed" /\ groups[i].by = "auto"} IN
       run' = IF left["names"] = 0 \/ auto = {} THEN Resting ELSE [Resting EXCEPT !.at = "names", !.names = auto]
    /\ UNCHANGED <<vectorVars, scope, old, asked, basis, outside, groups, merging, left, acted>>

\* name_group
AskName(i) ==
    /\ run.at = "names" /\ i \in run.names
    /\ IF left["names"] = 0 THEN run' = Resting /\ UNCHANGED left
       ELSE /\ Use("names")
            /\ run' = [run EXCEPT !.at = "llm", !.id = i, !.names = @ \ {i}]
    /\ UNCHANGED <<vectorVars, scope, old, asked, basis, outside, groups, merging, acted>>

NextName == IF run.names = {} THEN Resting ELSE [run EXCEPT !.at = "names", !.id = 0]

\* As a plausible bug would have it: the name is for the row that was listed.
AnswerListed ==
    /\ run.at = "llm"
    /\ run' = [run EXCEPT !.at = "name"]
    /\ acted' = acted \ {run.id}
    /\ UNCHANGED <<vectorVars, scope, old, asked, basis, outside, groups, merging, left>>

\* No answer ends the pass, an unusable one skips the group; else the row is
\* read again, and left alone if the owner has named it meanwhile.
Answer ==
    /\ run.at = "llm"
    /\ \/ run' = Resting /\ UNCHANGED acted
       \/ run' = NextName /\ UNCHANGED acted
       \/ /\ run' = IF groups[run.id] # NoGroup /\ groups[run.id].by = "auto" THEN [run EXCEPT !.at = "name"] ELSE NextName
          /\ acted' = acted \ {run.id}
    /\ UNCHANGED <<vectorVars, scope, old, asked, basis, outside, groups, merging, left>>

WriteName ==
    /\ run.at = "name"
    /\ groups' = IF groups[run.id] = NoGroup THEN groups ELSE [groups EXCEPT ![run.id].by = "ai"]
    /\ run' = NextName
    /\ UNCHANGED <<vectorVars, scope, old, asked, basis, outside, merging, left, acted>>

ThreadStep ==
    \/ Look \/ Start \/ ReadTexts \/ Compare \/ Reconcile \/ Save \/ Mark
    \/ ListNames \/ (\E i \in Ids : AskName(i)) \/ Answer \/ WriteName

-------------------------------------------------------------------------------
\* As a plausible bug would have it: a run that is stopped is not asked for again.
StoppedForGood(row) == row

\* A run that is stopped asks for itself again; one that has begun to save ends.
Stopped(row) == [row EXCEPT !.requested = TRUE]

Restart ==
    /\ Use("restarts")
    /\ run.at \notin {"reconcile", "save", "mark"} /\ merging.at = "idle"
    /\ IF run.at \in {"begin", "read", "compare"} THEN Marked(Stopped(scope)) ELSE UNCHANGED scope
    /\ run' = Resting
    /\ Reboot
    /\ UNCHANGED <<old, asked, basis, outside, groups, merging, acted>>

\* The process is killed: a run that has begun is forgotten.
Crash ==
    /\ Use("crashes")
    /\ run' = Resting /\ merging' = NoMerge
    /\ asked' = (asked /\ scope.requested)
    /\ Reboot
    /\ UNCHANGED <<scope, old, basis, outside, groups, acted>>

Next ==
    \/ \E f \in Changing : (\E t \in Texts \cup {None} : Index(f, t)) \/ (\E g \in Changing : Rename(f, g))
    \/ Vectors \/ Purge \/ Switch \/ Day
    \/ Ask \/ Disable
    \/ \E i \in Ids : Name(i) \/ \E status \in Statuses \ {"merged"} : Decide(i, status)
    \/ \E ids \in SUBSET Ids, named \in BOOLEAN : Merge(ids, named)
    \/ MergeSave \/ MergeMark
    \/ ThreadStep \/ Fail
    \/ Restart \/ Crash

Spec == Init /\ [][Next]_vars

\* The two background threads run, and days pass.  Embeddings may never come.
FairSpec ==
    /\ Spec
    /\ WF_vars(BuilderStep /\ UNCHANGED <<engine, outside, groups, merging, left, acted>>)
    /\ WF_vars(ThreadStep)
    /\ WF_vars(Day)

-------------------------------------------------------------------------------
Thread == [at: {"idle", "begin", "read", "compare", "reconcile", "save", "mark", "list", "names", "llm", "name"},
           seq: Nat, says: Meanings, means: Meanings, found: SUBSET SUBSET Files, prior: Groups, rows: Groups,
           names: SUBSET Ids, id: {0} \cup Ids]

TypeOK ==
    /\ VectorsTypeOK
    /\ scope \in [known: BOOLEAN, enabled: BOOLEAN, requested: BOOLEAN, finished: BOOLEAN, error: BOOLEAN, seq: Nat]
    /\ groups \in Groups
    /\ run \in Thread
    /\ merging \in [at: {"idle", "save", "mark"}, ids: SUBSET Ids, keys: SUBSET Files, by: {"auto", "you"}]
    /\ left \in [Bounds -> 0..MaxLoad]
    /\ target \in BOOLEAN /\ paused \in BOOLEAN /\ old \in BOOLEAN /\ asked \in BOOLEAN
    /\ acted \in SUBSET Ids
    /\ basis \in Meanings

\* What the owner decided about a group stands, and a name the owner gave it
\* too while it is proposed, whatever the thread was doing when the owner did
\* so: runs and names take minutes, and only what happens between the thread's
\* last look at the rows and its write can be lost.  `reconcile`, `name_group`.
OwnersWordStands ==
    [][\A i \in Stored(groups) \ acted' :
        /\ groups[i].status # "proposed" => /\ groups'[i].status = groups[i].status
                                           /\ groups'[i].keys = groups[i].keys
        /\ groups[i].by = "you" /\ groups'[i] # NoGroup => groups'[i].by = "you"]_vars

\* What a run proposes anew is new: it shares at most half its files with every
\* group that was proposed, kept, dismissed or merged before, however the
\* groups changed and in whatever order they are matched; and no file is in two
\* groups of one run.  `reconcile`, MATCH_SAME.
NewMeansNew ==
    run.at = "save" =>
        \A i \in Stored(run.rows) :
            /\ run.prior[i] = NoGroup => \A j \in Stored(run.prior) :
                2 * Cardinality(run.rows[i].keys \cap run.prior[j].keys)
                    <= Cardinality(run.rows[i].keys \cup run.prior[j].keys)
            /\ \A j \in Stored(run.rows) \ {i} : run.rows[i].keys \cap run.rows[j].keys = {}

\* Whatever the owner asks for is run, if indexing is not paused and the location
\* is there: however runs fail or the engine is stopped, and however often files
\* change while the vectors are built.  A run that is killed is forgotten.
\* `discover_start`, `discover_pass`, `build_file_vectors`.
RequestsAreAnswered == <>[](asked => paused \/ ~target)

\* Groups are found again from the vectors there are in the end: no write that
\* falls into a run, before or after it reads the vectors, goes unnoticed.
\* `_discover_due`, `_discover_run`.
GroupsCatchUp ==
    <>[](scope.enabled /\ scope.finished /\ ~scope.error /\ ~paused /\ target => basis = vec)
================================================================================
