-------------------------------- MODULE Folders --------------------------------
(***************************************************************************)
(* Connected folders: block storage of docker/indexer/service.py,          *)
(* folders.py, block.py and worker.py.                                     *)
(*                                                                         *)
(* What is connected is the engine's BLOCK_SOURCES, less the names removed *)
(* from the app, and the folders the app stored.  The scheduler keeps it   *)
(* twice in memory: `_specs`, read when it is empty and emptied by a       *)
(* forced refresh, and the targets computed from it.  Requests of the      *)
(* owner, the scheduler's own refresh and jobs run in threads, and none of *)
(* them holds a lock from reading the store to writing either.             *)
(*                                                                         *)
(* A file's id is its path in the folder, so folders connected one after   *)
(* the other under one name share ids: a row carries the folder whose file *)
(* it describes (its size and mtime) and the one whose content it hashes.  *)
(* Files live at the top of a folder or in one subfolder of it.            *)
(***************************************************************************)
EXTENDS Naturals, FiniteSets

CONSTANTS
    Names,          \* names of sources
    Places,         \* folders
    Overlaps,       \* pairs of folders: one is the other, or is inside it
    Engine,         \* Engine[n]: the folder BLOCK_SOURCES gives a name, or None
    Cloud,          \* folders in the `cloud` root
    Files, TopFiles,
    Disks,          \* what the folders hold at first
    Drives,         \* drives at the top of a root that prompts
    PlaceOn,        \* PlaceOn[d]: the folders on a drive
    Owners,         \* requests that may be in progress
    Scheduler, None,
    Loads,          \* what is stored and in the root at first, and the bounds (see Bounds)
    MaxLoad

VARIABLES
    disk,           \* disk[p][f]: "no", "online" (a placeholder), "here"
    mounted,        \* folders that can be reached
    plugged,        \* drives that are there
    others,         \* whether the root holds an entry that is no drive, placeholders aside
    apps, removed,  \* tables block_folders and block_removed
    rows, chunks,   \* files and chunks of the sources
    misread,        \* history: rows that a job gave the content of a folder they do not describe
    seen, marked,   \* table drives_seen, and its row ""
    specs,          \* _specs: {} for None, else the one value
    targets,        \* _block_roots
    thread,         \* thread[t]: a request, the scheduler's refresh or a job
    job,            \* job[n]: the scan of a job
    left,           \* what is left of the bounds
    overtaken,      \* history: _specs took over what was no longer stored
    settled,        \* history: names whose last scan was complete, and of the folder they stand for
    looked, firstLook, known,  \* history: of the first look at the drives
    offered         \* history: drives offered so far

world == <<disk, mounted, plugged, others>>
choices == <<apps, removed>>
ledger == <<rows, chunks, misread>>
drives == <<seen, marked, looked, firstLook, known, offered>>
memory == <<specs, targets, overtaken>>
vars == <<world, choices, ledger, drives, memory, thread, job, left, settled>>

Source == [place: Places \cup {None}, app: BOOLEAN, download: BOOLEAN]
NoSource == [place |-> None, app |-> FALSE, download |-> FALSE]
Sources == [Names -> Source]
Bounds == {"looks", "plugs", "adds", "removals", "settings", "jobs", "edits", "losses", "restarts", "atOnce"}

ASSUME FoldersAssumption ==
    /\ None \notin Places \cup Names \cup Owners
    /\ Scheduler \notin Owners \cup Names
    /\ Owners \cap Names = {}
    /\ Overlaps \subseteq Places \X Places
    /\ \A p \in Places : <<p, p>> \in Overlaps
    /\ Engine \in [Names -> Places \cup {None}]
    /\ Cloud \subseteq Places
    /\ TopFiles \subseteq Files
    /\ Disks \subseteq [Places -> [Files -> {"no", "online", "here"}]]
    /\ PlaceOn \in [Drives -> SUBSET Places]
    /\ MaxLoad \in Nat
    /\ Loads \subseteq [apps: Sources, others: BOOLEAN, left: [Bounds -> 0..MaxLoad]]
    /\ \A load \in Loads, n \in Names : load.apps[n] = NoSource \/ load.apps[n].app

Threads == Owners \cup Names \cup {Scheduler}
Idle == [op |-> "idle", at |-> "idle", name |-> None, place |-> None, flag |-> FALSE, got |-> FALSE,
         loaded |-> {}, roots |-> [n \in Names |-> None], listed |-> {}, early |-> FALSE]
NoRow == [status |-> "none", reason |-> "none", of |-> None, hash |-> None]
NoJob == [root |-> None, skip |-> FALSE, complete |-> TRUE, found |-> {}, todo |-> {}, stayed |-> {}]

Use(bound) == left[bound] > 0 /\ left' = [left EXCEPT ![bound] = @ - 1]

\* An owner may begin: so many requests are in progress at once.
Begins(o) == thread[o].op = "idle" /\ Cardinality({q \in Owners : thread[q].op # "idle"}) < left.atOnce

\* _load_specs: the folders of the app, and those of the engine not removed.
Connected ==
    [n \in Names |->
        IF apps[n] # NoSource THEN apps[n]
        ELSE IF n \in removed THEN NoSource ELSE [NoSource EXCEPT !.place = Engine[n]]]

Roots(sources) == [n \in Names |-> sources[n].place]

Init ==
    /\ disk \in Disks
    /\ mounted = Places
    /\ plugged = {}
    /\ \E load \in Loads : apps = load.apps /\ others = load.others /\ left = load.left
    /\ removed = {}
    /\ rows = [n \in Names |-> [f \in Files |-> NoRow]]
    /\ chunks = [n \in Names |-> [f \in Files |-> None]] /\ misread = {}
    /\ seen = [d \in Drives |-> "no"] /\ marked = FALSE
    /\ specs = {} /\ targets = [n \in Names |-> None]
    /\ thread = [t \in Threads |-> Idle]
    /\ job = [n \in Names |-> NoJob]
    /\ overtaken = FALSE /\ settled = {}
    /\ looked = FALSE /\ firstLook = {} /\ known = {} /\ offered = {}

-------------------------------------------------------------------------------
(* The world: drives come and go, files change, a sync app downloads one. *)

Plug(d) ==
    /\ Use("plugs")
    /\ plugged' = IF d \in plugged THEN plugged \ {d} ELSE plugged \cup {d}
    /\ UNCHANGED <<disk, mounted, others, choices, ledger, drives, memory, thread, job, settled>>

\* A file, a link or a hidden folder at the top of the root, the last or the first.
Litter ==
    /\ Use("plugs")
    /\ others' = ~others
    /\ UNCHANGED <<disk, mounted, plugged, choices, ledger, drives, memory, thread, job, settled>>

\* A share goes to sleep, a volume is ejected; or it is back.
Mount(p) ==
    /\ Use("losses")
    /\ mounted' = IF p \in mounted THEN mounted \ {p} ELSE mounted \cup {p}
    /\ UNCHANGED <<disk, plugged, others, choices, ledger, drives, memory, thread, job, settled>>

Edit(p, f) ==
    /\ p \in mounted
    /\ Use("edits")
    /\ \E s \in (IF disk[p][f] = "no" THEN {"here", "online"} ELSE {"no", "here"}) \ {disk[p][f]} :
        disk' = [disk EXCEPT ![p][f] = s]
    /\ job' = [n \in Names |-> IF job[n].root = p /\ disk'[p][f] = "no" THEN [job[n] EXCEPT !.stayed = @ \ {f}]
                               ELSE job[n]]
    /\ UNCHANGED <<mounted, plugged, others, choices, ledger, drives, memory, thread, settled>>

-------------------------------------------------------------------------------
(* What is connected, as a thread reads it. *)

Goto(t, place) == thread' = [thread EXCEPT ![t].at = place, ![t].got = FALSE]
Done(t) == thread' = [thread EXCEPT ![t] = Idle]

\* The places at which a thread reads _block_specs.
Reading(t) == thread[t].at \in {"check", "compute", "offer", "missing", "open", "flag"}

\* _block_specs finds nothing and reads the store (its two queries as one: a
\* change between them leaves what a change after both would) ...
Load(t) ==
    /\ Reading(t) /\ ~thread[t].got /\ specs = {}
    /\ thread' = [thread EXCEPT ![t].loaded = {Connected}]
    /\ UNCHANGED <<world, choices, ledger, drives, memory, job, left, settled>>

\* ... and keeps what it read, whatever was stored meanwhile ...
Assign(t) ==
    /\ thread[t].loaded # {}
    /\ specs' = thread[t].loaded
    /\ overtaken' = (overtaken \/ thread[t].loaded # {Connected})
    /\ thread' = [thread EXCEPT ![t].loaded = {}, ![t].got = TRUE]
    /\ UNCHANGED <<world, choices, ledger, drives, targets, job, left, settled>>

\* ... but returns None if a refresh emptied it again: the caller fails.
Bare(t) ==
    /\ Reading(t) /\ thread[t].got /\ specs = {}
    /\ Done(t)
    /\ UNCHANGED <<world, choices, ledger, drives, memory, job, left, settled>>

With(t, s) == thread[t].loaded = {} /\ specs = {s}

-------------------------------------------------------------------------------
(* refresh_targets *)

\* As a plausible bug would have it: the refresh is not forced.
ResetNothing(t) ==
    /\ thread[t].at = "reset"
    /\ Goto(t, "compute")
    /\ UNCHANGED <<world, choices, ledger, drives, memory, job, left, settled>>

Reset(t) ==
    /\ thread[t].at = "reset"
    /\ specs' = {} /\ overtaken' = FALSE
    /\ Goto(t, "compute")
    /\ UNCHANGED <<world, choices, ledger, drives, targets, job, left, settled>>

Compute(t) ==
    /\ thread[t].at = "compute"
    /\ \E s \in specs :
        /\ With(t, s)
        /\ thread' = [thread EXCEPT ![t].at = "publish", ![t].got = FALSE, ![t].roots = Roots(s)]
    /\ UNCHANGED <<world, choices, ledger, drives, memory, job, left, settled>>

Publish(t) ==
    /\ thread[t].at = "publish"
    /\ targets' = thread[t].roots
    /\ thread' = [thread EXCEPT ![t] =
                    IF thread[t].op \in {"remove", "options"} THEN [@ EXCEPT !.at = "after", !.roots = Idle.roots]
                    ELSE Idle]
    /\ UNCHANGED <<world, choices, ledger, drives, specs, overtaken, job, left, settled>>

\* The scheduler's own refresh, when the targets are old.
Refresh ==
    /\ thread[Scheduler].op = "idle"
    /\ thread' = [thread EXCEPT ![Scheduler] = [Idle EXCEPT !.op = "refresh", !.at = "compute"]]
    /\ UNCHANGED <<world, choices, ledger, drives, memory, job, left, settled>>

-------------------------------------------------------------------------------
(* The owner's operations. *)

Request(o, bound, call) ==
    /\ Begins(o)
    /\ Use(bound)
    /\ thread' = [thread EXCEPT ![o] = call]
    /\ UNCHANGED <<world, choices, ledger, drives, memory, job, settled>>

\* GET /index/folders, and a request to connect, remove or set a folder.
List(o) == Request(o, "settings", [Idle EXCEPT !.op = "folders", !.at = "reset"])
Add(o, n, p) == p \in mounted /\ Request(o, "adds", [Idle EXCEPT !.op = "add", !.at = "check", !.name = n, !.place = p])
Remove(o, n) == Request(o, "removals", [Idle EXCEPT !.op = "remove", !.at = "check", !.name = n])
Options(o, n, on) ==
    Request(o, "settings", [Idle EXCEPT !.op = "options", !.at = "check", !.name = n, !.flag = on])

\* Against what is connected: the name is free and the folder overlaps none;
\* or the name is known, and for options a folder of the app.
Allowed(call, s) ==
    CASE call.op = "add" -> /\ s[call.name].place = None
                            /\ \A m \in Names : <<call.place, s[m].place>> \notin Overlaps
      [] call.op = "remove" -> s[call.name].place # None
      [] OTHER -> s[call.name].place # None /\ s[call.name].app

Check(o) ==
    /\ thread[o].at = "check"
    /\ \E s \in specs :
        /\ With(o, s)
        /\ IF ~Allowed(thread[o], s) THEN Done(o)
           ELSE thread' = [thread EXCEPT ![o].at = "store", ![o].got = FALSE,
                             ![o].flag = IF thread[o].op = "remove" THEN s[thread[o].name].app ELSE @]
    /\ UNCHANGED <<world, choices, ledger, drives, memory, job, left, settled>>

\* add_block_folder: a row of that name, stored meanwhile, refuses the insert.
Insert(o) ==
    LET n == thread[o].name IN
    /\ thread[o].at = "store" /\ thread[o].op = "add"
    /\ IF apps[n] # NoSource THEN Done(o) /\ UNCHANGED <<choices, settled>>
       ELSE /\ apps' = [apps EXCEPT ![n] = [place |-> thread[o].place, app |-> TRUE, download |-> FALSE]]
            /\ removed' = removed \ {n}
            /\ settled' = settled \ {n}
            /\ Goto(o, "reset")
    /\ UNCHANGED <<world, ledger, drives, memory, job, left>>

\* remove_folder, as the source was when it was checked.
Erase(o) ==
    LET n == thread[o].name IN
    /\ thread[o].at = "store" /\ thread[o].op = "remove"
    /\ IF thread[o].flag THEN apps' = [apps EXCEPT ![n] = NoSource] /\ UNCHANGED removed
       ELSE removed' = removed \cup {n} /\ UNCHANGED apps
    /\ settled' = settled \ {n}
    /\ Goto(o, "reset")
    /\ UNCHANGED <<world, ledger, drives, memory, job, left>>

SetDownload(o) ==
    LET n == thread[o].name IN
    /\ thread[o].at = "store" /\ thread[o].op = "options"
    /\ apps' = IF apps[n] = NoSource THEN apps ELSE [apps EXCEPT ![n].download = thread[o].flag]
    /\ Goto(o, "reset")
    /\ UNCHANGED <<world, removed, ledger, drives, memory, job, left, settled>>

\* purge_source: after the refresh, everything of that name goes.
Purge(o) ==
    LET n == thread[o].name IN
    /\ thread[o].at = "after" /\ thread[o].op = "remove"
    /\ rows' = [rows EXCEPT ![n] = [f \in Files |-> NoRow]]
    /\ chunks' = [chunks EXCEPT ![n] = [f \in Files |-> None]]
    /\ Done(o)
    /\ UNCHANGED <<world, choices, misread, drives, memory, job, left, settled>>

\* requeue_reason: what was skipped as online only is read again.
Requeue(o) ==
    LET n == thread[o].name
        again(row) == IF row.status = "skipped" THEN [row EXCEPT !.status = "pending", !.reason = "none", !.hash = None]
                      ELSE row
    IN  /\ thread[o].at = "after" /\ thread[o].op = "options"
        /\ rows' = IF thread[o].flag THEN [rows EXCEPT ![n] = [f \in Files |-> again(@[f])]] ELSE rows
        /\ Done(o)
        /\ UNCHANGED <<world, choices, chunks, misread, drives, memory, job, left, settled>>

OwnerStep(o) == Check(o) \/ Insert(o) \/ Erase(o) \/ SetDownload(o) \/ Purge(o) \/ Requeue(o)

-------------------------------------------------------------------------------
(* New drives. *)

\* root_available: something is in the root, a drive or anything else.
Available == others \/ plugged # {}

\* folder_prompts passes over a root with nothing in it, and records no look.
\* (If it empties before check_root asks again, the request fails: no look either.)
Look(o) ==
    /\ Begins(o)
    /\ Use("looks")
    /\ thread' = [thread EXCEPT ![o] = [Idle EXCEPT !.op = "look", !.at = IF Available THEN "browse" ELSE "missing"]]
    /\ UNCHANGED <<world, choices, ledger, drives, memory, job, settled>>

\* It lists the drives, which may have come or gone since ...
Browse(o) ==
    /\ thread[o].at = "browse"
    /\ thread' = [thread EXCEPT ![o].at = "look", ![o].listed = plugged, ![o].early = ~looked]
    /\ UNCHANGED <<world, choices, ledger, drives, memory, job, left, settled>>

\* ... and reads what was seen before; nothing at all makes it the first look.
Recall(o) ==
    /\ thread[o].at = "look"
    /\ Goto(o, IF marked \/ \E d \in Drives : seen[d] # "no" THEN "more" ELSE "first")
    /\ UNCHANGED <<world, choices, ledger, drives, memory, job, left, settled>>

\* INSERT OR IGNORE.
Inserted(names, as) == [d \in Drives |-> IF d \in names /\ seen[d] = "no" THEN as ELSE seen[d]]

\* As a plausible bug would have it: the look itself leaves no mark.
FirstUnmarked(o) ==
    /\ thread[o].at = "first"
    /\ seen' = Inserted(thread[o].listed, "known")
    /\ looked' = TRUE
    /\ firstLook' = IF looked THEN firstLook ELSE thread[o].listed
    /\ known' = IF thread[o].early THEN known \cup thread[o].listed ELSE known
    /\ Goto(o, "missing")
    /\ UNCHANGED <<world, choices, ledger, marked, offered, memory, job, left, settled>>

First(o) ==
    /\ thread[o].at = "first"
    /\ seen' = Inserted(thread[o].listed, "known")
    /\ marked' = TRUE
    /\ looked' = TRUE
    /\ firstLook' = IF looked THEN firstLook ELSE thread[o].listed
    /\ known' = IF thread[o].early THEN known \cup thread[o].listed ELSE known
    /\ Goto(o, "missing")
    /\ UNCHANGED <<world, choices, ledger, offered, memory, job, left, settled>>

More(o) ==
    /\ thread[o].at = "more"
    /\ seen' = Inserted(thread[o].listed, "new")
    /\ Goto(o, "offer")
    /\ UNCHANGED <<world, choices, ledger, marked, looked, firstLook, known, offered, memory, job, left, settled>>

\* The drives to offer, against what is connected; the missing folders are
\* read with them.
Offer(o) ==
    /\ thread[o].at = "offer"
    /\ \E s \in specs :
        /\ With(o, s)
        /\ offered' = offered \cup {d \in thread[o].listed :
                         seen[d] = "new" /\ \A p \in PlaceOn[d], m \in Names : <<p, s[m].place>> \notin Overlaps}
    /\ Done(o)
    /\ UNCHANGED <<world, choices, ledger, seen, marked, looked, firstLook, known, memory, job, left, settled>>

\* The connected folders that went missing are read last.
Missing(o) ==
    /\ thread[o].at = "missing"
    /\ \E s \in specs : With(o, s)
    /\ Done(o)
    /\ UNCHANGED <<world, choices, ledger, drives, memory, job, left, settled>>

\* dismiss_prompt, for a new drive.
Dismiss(d) ==
    /\ Use("settings")
    /\ seen[d] = "new"
    /\ seen' = [seen EXCEPT ![d] = "dismissed"]
    /\ UNCHANGED <<world, choices, ledger, marked, looked, firstLook, known, offered, memory, thread, job, settled>>

LookStep(o) == Browse(o) \/ Recall(o) \/ First(o) \/ More(o) \/ Offer(o) \/ Missing(o)

-------------------------------------------------------------------------------
(* A job: the lease, the scan and the queue of one source. *)

\* The scheduler starts jobs of targets, at any time; one per name.
Start(n) ==
    /\ thread[n].op = "idle"
    /\ targets[n] # None
    /\ Use("jobs")
    /\ thread' = [thread EXCEPT ![n] = [Idle EXCEPT !.op = "job", !.at = "open", !.name = n]]
    /\ UNCHANGED <<world, choices, ledger, drives, memory, job, settled>>

\* lease: a folder that is no target is asked of the SDK, and refused there;
\* one that is not mounted is refused here.
Open(n) ==
    /\ thread[n].at = "open"
    /\ \E s \in specs : With(n, s)
    /\ IF targets[n] \in mounted
       THEN /\ Goto(n, "flag")
            /\ job' = [job EXCEPT ![n] = [NoJob EXCEPT !.root = targets[n]]]
            /\ settled' = settled \ {n}
       ELSE Done(n) /\ UNCHANGED <<job, settled>>
    /\ UNCHANGED <<world, choices, ledger, drives, memory, left>>

\* skip_online_only, read once per lease.
Flag(n) ==
    /\ thread[n].at = "flag"
    /\ \E s \in specs :
        /\ With(n, s)
        /\ job' = [job EXCEPT ![n].skip = s[n].place \in Cloud /\ ~s[n].download,
                              ![n].stayed = {f \in Files : disk[job[n].root][f] # "no"}]
    /\ Goto(n, "top")
    /\ UNCHANGED <<world, choices, ledger, drives, memory, left, settled>>

At(p, files) == {f \in files : disk[p][f] # "no"}

\* As a plausible bug would have it: an empty root is listed as empty.
ListableOrEmpty(p, files) == files = TopFiles \/ (p \in mounted /\ At(p, files) # {})

\* list_dir: an unreachable folder, an empty root, a subfolder that is gone
\* raise, and the scan is incomplete.
Listable(p, files) == p \in mounted /\ At(p, IF files = TopFiles THEN Files ELSE files) # {}

Live(row) == row.status \notin {"none", "deleted"}

\* As a plausible bug would have it: a row that was indexed stays as it is.
ObservedOnce(row, p, due) ==
    CASE row.status = "none" -> [NoRow EXCEPT !.status = "pending", !.of = p]
      [] row.status = "deleted" -> [row EXCEPT !.status = "pending", !.reason = "none", !.of = p]
      [] OTHER -> row

\* observe, for a supported file: new, back, changed, or its failure due again.
Observed(row, p, due) ==
    CASE row.status = "none" -> [NoRow EXCEPT !.status = "pending", !.of = p]
      [] row.status = "deleted" -> [row EXCEPT !.status = "pending", !.reason = "none", !.of = p]
      [] Live(row) /\ row.of # p -> [row EXCEPT !.status = "pending", !.of = p]
      [] row.status = "failed" /\ row.of = p /\ due -> [row EXCEPT !.status = "pending", !.reason = "none", !.hash = None]
      [] OTHER -> row

\* One folder of the scan; its files are reconciled as they are listed.
Walk(n, at, files, next) ==
    LET p == job[n].root
        there == IF p \in mounted THEN At(p, files) ELSE {}
    IN  /\ thread[n].at = at
        /\ IF Listable(p, files)
           THEN /\ \E due \in BOOLEAN :
                    rows' = [rows EXCEPT ![n] = [f \in Files |-> IF f \in there THEN Observed(@[f], p, due) ELSE @[f]]]
                /\ job' = [job EXCEPT ![n].found = @ \cup there]
                /\ Goto(n, IF At(p, Files \ TopFiles) = {} \/ p \notin mounted THEN "prune" ELSE next)
           ELSE /\ job' = [job EXCEPT ![n].complete = FALSE]
                /\ Goto(n, "prune")
                /\ UNCHANGED rows
        /\ UNCHANGED <<world, choices, chunks, misread, drives, memory, left, settled>>

WalkTop(n) == Walk(n, "top", TopFiles, "sub")
WalkSub(n) == Walk(n, "sub", Files \ TopFiles, "prune")

Pending(n) == {f \in Files : rows[n][f].status = "pending"}

\* _prune, after a complete scan only; then the queue is read.
Prune(n) ==
    LET gone == {f \in Files \ job[n].found : job[n].complete /\ Live(rows[n][f])} IN
    /\ thread[n].at = "prune"
    /\ rows' = [rows EXCEPT ![n] = [f \in Files |-> IF f \in gone THEN [@[f] EXCEPT !.status = "deleted"] ELSE @[f]]]
    /\ chunks' = [chunks EXCEPT ![n] = [f \in Files |-> IF f \in gone THEN None ELSE @[f]]]
    /\ settled' = IF job[n].complete /\ Connected[n].place = job[n].root THEN settled \cup {n} ELSE settled
    /\ job' = [job EXCEPT ![n].todo = {[file |-> f, row |-> rows[n][f]] : f \in Pending(n) \ gone},
                          ![n].stayed = {}, ![n].found = {}]
    /\ Goto(n, "index")
    /\ UNCHANGED <<world, choices, misread, drives, memory, left>>

\* update_file: a row that is gone is not brought back.
Update(n, f, row) == rows' = IF rows[n][f].status = "none" THEN rows ELSE [rows EXCEPT ![n][f] = row]

\* _index_file of a queued row: it cannot be read; is a placeholder to leave
\* alone; holds what its hash says; or its chunks are written, then its row.
Index(n, queued) ==
    LET p == job[n].root
        f == queued.file
        row == rows[n][f]
    IN  /\ thread[n].at = "index"
        /\ job' = [job EXCEPT ![n].todo = @ \ {queued}]
        /\ IF p \notin mounted \/ disk[p][f] = "no"
           THEN Update(n, f, [row EXCEPT !.status = "failed", !.reason = "failed"]) /\ UNCHANGED <<chunks, misread, disk>>
           ELSE IF disk[p][f] = "online" /\ job[n].skip
           THEN /\ Update(n, f, [row EXCEPT !.status = "skipped", !.reason = "online", !.hash = None])
                /\ chunks' = [chunks EXCEPT ![n][f] = None]
                /\ UNCHANGED <<misread, disk>>
           ELSE /\ misread' = IF row.status # "none" /\ row.of # p THEN misread \cup {<<n, f>>} ELSE misread \ {<<n, f>>}
                /\ disk' = [disk EXCEPT ![p][f] = "here"]
                /\ IF queued.row.hash = p
                   THEN Update(n, f, [row EXCEPT !.status = IF queued.row.reason = "none" THEN "indexed" ELSE "skipped"])
                        /\ UNCHANGED chunks
                   ELSE /\ chunks' = [chunks EXCEPT ![n][f] = p]
                        /\ Update(n, f, [row EXCEPT !.status = "indexed", !.reason = "none", !.hash = p])
        /\ UNCHANGED <<mounted, plugged, others, choices, drives, memory, thread, left, settled>>

\* The queue is done, or the time slice is.
End(n) ==
    /\ thread[n].at = "index"
    /\ job' = [job EXCEPT ![n] = NoJob]
    /\ Done(n)
    /\ UNCHANGED <<world, choices, ledger, drives, memory, left, settled>>

JobStep(n) == Open(n) \/ Flag(n) \/ WalkTop(n) \/ WalkSub(n) \/ Prune(n) \/ (\E q \in job[n].todo : Index(n, q)) \/ End(n)

-------------------------------------------------------------------------------
\* The indexer restarts: what is in memory goes.
Restart ==
    /\ Use("restarts")
    /\ specs' = {} /\ targets' = [n \in Names |-> None] /\ overtaken' = FALSE
    /\ thread' = [t \in Threads |-> Idle]
    /\ job' = [n \in Names |-> NoJob]
    /\ UNCHANGED <<world, choices, ledger, drives, settled>>

ThreadStep(t) ==
    \/ Load(t) \/ Assign(t) \/ Bare(t) \/ Reset(t) \/ Compute(t) \/ Publish(t)
    \/ t \in Owners /\ (OwnerStep(t) \/ LookStep(t))
    \/ t \in Names /\ JobStep(t)

Next ==
    \/ \E d \in Drives : Plug(d) \/ Dismiss(d)
    \/ \E p \in Places : Mount(p) \/ \E f \in Files : Edit(p, f)
    \/ \E o \in Owners :
        \/ List(o) \/ Look(o)
        \/ \E n \in Names : Remove(o, n) \/ (\E p \in Places : Add(o, n, p)) \/ (\E on \in BOOLEAN : Options(o, n, on))
    \/ \E n \in Names : Start(n)
    \/ \E t \in Threads : ThreadStep(t)
    \/ Litter \/ Refresh \/ Restart

Spec == Init /\ [][Next]_vars

\* Threads run, and the scheduler refreshes its targets over and over.
FairSpec == Spec /\ WF_vars(Refresh) /\ \A t \in Threads : WF_vars(ThreadStep(t))

-------------------------------------------------------------------------------
Row == [status: {"none", "pending", "indexed", "skipped", "failed", "deleted"}, reason: {"none", "online", "failed"},
        of: Places \cup {None}, hash: Places \cup {None}]
Call == [op: {"idle", "folders", "add", "remove", "options", "look", "refresh", "job"},
         at: {"idle", "check", "store", "reset", "compute", "publish", "after", "browse", "look", "first", "more", "offer", "missing",
              "open", "flag", "top", "sub", "prune", "index"},
         name: Names \cup {None}, place: Places \cup {None}, flag: BOOLEAN, got: BOOLEAN, loaded: SUBSET Sources,
         roots: [Names -> Places \cup {None}], listed: SUBSET Drives, early: BOOLEAN]
Scan == [root: Places \cup {None}, skip: BOOLEAN, complete: BOOLEAN, found: SUBSET Files,
         todo: SUBSET [file: Files, row: Row], stayed: SUBSET Files]

TypeOK ==
    /\ disk \in [Places -> [Files -> {"no", "online", "here"}]]
    /\ mounted \in SUBSET Places /\ plugged \in SUBSET Drives /\ others \in BOOLEAN
    /\ apps \in Sources /\ removed \in SUBSET Names
    /\ rows \in [Names -> [Files -> Row]]
    /\ \A n \in Names, f \in Files : rows[n][f] = NoRow \/ rows[n][f].of # None
    /\ chunks \in [Names -> [Files -> Places \cup {None}]] /\ misread \in SUBSET (Names \X Files)
    /\ seen \in [Drives -> {"no", "known", "new", "dismissed"}] /\ marked \in BOOLEAN
    /\ \A s \in specs : s \in Sources /\ specs = {s}
    /\ targets \in [Names -> Places \cup {None}]
    /\ thread \in [Threads -> Call]
    /\ job \in [Names -> Scan]
    /\ left \in [Bounds -> 0..MaxLoad]
    /\ overtaken \in BOOLEAN /\ settled \in SUBSET Names
    /\ looked \in BOOLEAN /\ firstLook \in SUBSET Drives /\ known \in SUBSET Drives /\ offered \in SUBSET Drives

\* What the look that was recorded first found is never offered as new, and
\* only a drive that some look listed before that is passed over for good, however
\* looks overlap and drives come and go under them.  The look to record is the
\* first that found anything in the root.  So a drive that arrives after a look
\* at a root with no drive but some other entry is offered; one that arrives where
\* there was nothing at all is not: no look of the empty root counts, and the
\* first to find the drive takes it for known.  `folder_prompts`, `root_available`.
BaselineIsTheFirstLook ==
    /\ offered \cap firstLook = {}
    /\ {d \in Drives : seen[d] = "known"} \subseteq known

\* No scan takes for deleted a file that stayed in its folder all through it,
\* however the folder came and went between two of its listings.  The empty
\* root of `list_dir`, and the complete scan `_prune` waits for.
KeptThroughUnmounts ==
    [][\A n \in Names : \A f \in job[n].stayed :
        rows'[n][f].status = "deleted" => rows[n][f].status = "deleted"]_vars

\* Once the last scan of a name was of the folder it stands for, and complete, no
\* row and no indexed text of it is left from a folder that bore it before: neither
\* from a job that was still at work when it was removed, nor from an engine
\* that restarted before it could forget it.  Only a row that was queued for
\* another folder, was not listed by an incomplete scan and was read all the same
\* may keep that text.  `observe`, `purge_source`.
RowsFollowTheFolder ==
    \A n \in settled, f \in Files :
        Live(rows[n][f]) =>
            /\ rows[n][f].of = Connected[n].place
            /\ rows[n][f].status = "indexed" /\ <<n, f>> \notin misread => chunks[n][f] \in {None, Connected[n].place}

\* The targets come to be what is stored, though two refreshes may publish in
\* the wrong order and a request may die halfway: the scheduler's refresh mends
\* it, unless a slow reader put older choices into _specs.  `refresh_targets`.
TargetsFollowTheChoices == <>[](overtaken \/ targets = Roots(Connected))

\* docs/INDEXER.md:507: removing a source deletes its rows and chunks, so its
\* results leave search at once.
RemovedIsForgotten ==
    (\A t \in Threads : thread[t] = Idle) =>
        \A n \in Names, f \in Files : Connected[n] = NoSource => ~Live(rows[n][f])
================================================================================
