------------------------------- MODULE Scheduler -------------------------------
(***************************************************************************)
(* When each filespace is scanned and indexed: docker/indexer/worker.py    *)
(* (Scheduler: request_sync, add_hint, _loop, _dispatch, run_job,          *)
(* _job_safe) with the controls of service.py (set_control, set_enabled).  *)
(*                                                                         *)
(* One control thread dispatches jobs onto a pool. Requests arrive from    *)
(* HTTP handlers at any time; _cv guards the runtimes, but the end of a    *)
(* job writes its runtime without it, and the control row is read before   *)
(* it is taken. What a job does to its filespace is module IndexLedger.    *)
(***************************************************************************)
EXTENDS Naturals, FiniteSets

CONSTANTS
    Keys,         \* the targets: (workspace, filespace) pairs and block sources
    Blocks,       \* the targets that are block sources
    WorkspaceOf,  \* the workspace of a target
    TargetOrder,  \* the place of a target in the list of targets
    Concurrency,  \* INDEX_CONCURRENCY
    Threads,      \* jobs the pool can hold, running or queued
    MaxHints,     \* MAX_QUEUED_HINTS
    Priorities,   \* the priority lists owners set: the place of each target
    Handlers,     \* PUT /index/control requests that can be in progress at once
    Periodic,     \* the targets whose next_scan_at passes again during a run
    MaxChanges,   \* bound on PUTs, enabling and disabling, and restarts
    None

ASSUME SchedulerAssumption ==
    /\ Blocks \subseteq Keys
    /\ Periodic \subseteq Keys
    /\ IsFiniteSet(Keys) /\ IsFiniteSet(Threads)
    /\ TargetOrder \in [Keys -> 1 .. Cardinality(Keys)]
    /\ Concurrency \in Nat
    /\ MaxHints \in Nat
    /\ Priorities \subseteq [Keys -> Nat]
    /\ MaxChanges \in Nat
    /\ None \notin Keys /\ None \notin BOOLEAN /\ None \notin Priorities

VARIABLES
    control,   \* the row of table control
    puts,      \* PUTs of it that have read the row and not yet written it
    enabled,   \* filespaces.enabled
    rt,        \* Scheduler._runtime
    recency,   \* the order of last_run_end: least recently run first
    loop,      \* the control thread
    jobs,      \* the pool: _job_safe calls, submitted to returned
    changes,   \* PUTs, toggles and restarts so far
    owed,      \* history: requests, and hints no longer queued, that no scan followed
    unheard    \* history: queued hints that no job has taken

history == <<owed, unheard>>
vars == <<control, puts, enabled, rt, recency, loop, jobs, changes, owed, unheard>>

\* full is full_requested; due is time.time() >= next_scan_at; more is more_pending.
Runtime == [running : BOOLEAN, full : BOOLEAN, due : BOOLEAN, more : BOOLEAN, hints : 0 .. MaxHints]
NewRuntime == [running |-> FALSE, full |-> FALSE, due |-> TRUE, more |-> FALSE, hints |-> 0]

Control == [paused : BOOLEAN, priority : Priorities \cup {[k \in Keys |-> 0]}]
NoPut == [paused |-> None, priority |-> None, read |-> None]

Free == [key |-> None, phase |-> "free", full |-> FALSE]
Waiting == [at |-> "wait", left |-> {}, priority |-> [k \in Keys |-> 0], running |-> 0]

\* _cv is held while the loop offers slots.
Unlocked == loop.at # "offer"
Running == {k \in Keys : rt[k].running}
Busy == {t \in Threads : jobs[t] # Free}

Init ==
    /\ control = [paused |-> FALSE, priority |-> [k \in Keys |-> 0]]
    /\ puts = [h \in Handlers |-> NoPut]
    /\ enabled = [k \in Keys |-> TRUE]
    /\ rt = [k \in Keys |-> NewRuntime]
    /\ recency = TargetOrder
    /\ loop = Waiting
    /\ jobs = [t \in Threads |-> Free]
    /\ changes = 0
    /\ owed = [k \in Keys |-> FALSE]
    /\ unheard = [k \in Keys |-> 0]

Changes == changes < MaxChanges /\ changes' = changes + 1

(***************************************************************************)
(* Requests                                                                *)
(***************************************************************************)
\* POST /index/sync, /index/retry and the folder routes.
RequestSync(k) ==
    /\ Unlocked
    /\ enabled[k]
    /\ rt' = [rt EXCEPT ![k].full = TRUE]
    /\ owed' = [owed EXCEPT ![k] = TRUE]
    /\ UNCHANGED <<control, puts, enabled, recency, loop, jobs, changes, unheard>>

\* A hint joins the queue unless a scan that covers it is coming; one too many
\* and the whole queue becomes a request for a scan.
AddHint(k) ==
    /\ Unlocked
    /\ enabled[k] /\ k \notin Blocks
    /\ rt' = IF rt[k].full THEN rt
             ELSE IF rt[k].hints >= MaxHints THEN [rt EXCEPT ![k].hints = 0, ![k].full = TRUE]
             ELSE [rt EXCEPT ![k].hints = @ + 1]
    /\ LET queued == ~rt[k].full /\ rt[k].hints < MaxHints IN
         /\ owed' = [owed EXCEPT ![k] = @ \/ ~queued]
         /\ unheard' = [unheard EXCEPT ![k] = IF queued THEN @ + 1 ELSE IF rt[k].full THEN @ ELSE 0]
    /\ UNCHANGED <<control, puts, enabled, recency, loop, jobs, changes>>

\* PUT /index/filespaces: enabling also asks for a sync.
SetEnabled(k, on) ==
    /\ on => Unlocked
    /\ Changes
    /\ enabled' = [enabled EXCEPT ![k] = on]
    /\ rt' = [rt EXCEPT ![k].full = @ \/ on]
    /\ owed' = [owed EXCEPT ![k] = @ \/ on]
    /\ UNCHANGED <<control, puts, recency, loop, jobs, unheard>>

\* PUT /index/control reads the row, then writes all of it. A field left out of
\* the request (None) is written as it was read.
PutReads(h, paused, priority) ==
    /\ puts[h] = NoPut
    /\ <<paused, priority>> # <<None, None>>
    /\ Changes
    /\ puts' = [puts EXCEPT ![h] = [paused |-> paused, priority |-> priority, read |-> control]]
    /\ UNCHANGED <<control, enabled, rt, recency, loop, jobs, history>>

PutWrites(h) ==
    /\ puts[h] # NoPut
    /\ control' = [paused |-> IF puts[h].paused = None THEN puts[h].read.paused ELSE puts[h].paused,
                   priority |-> IF puts[h].priority = None THEN puts[h].read.priority
                                ELSE puts[h].priority]
    /\ puts' = [puts EXCEPT ![h] = NoPut]
    /\ UNCHANGED <<enabled, rt, recency, loop, jobs, changes, history>>

\* Time passes next_scan_at.
ScanComesDue(k) ==
    /\ k \in Periodic /\ ~rt[k].due
    /\ rt' = [rt EXCEPT ![k].due = TRUE]
    /\ UNCHANGED <<control, puts, enabled, recency, loop, jobs, changes, history>>

(***************************************************************************)
(* The control thread: _loop and _dispatch                                 *)
(***************************************************************************)
\* Woken by a request or by the tick; a pass that finds indexing paused ends.
Wake ==
    /\ loop.at = "wait"
    /\ loop' = [loop EXCEPT !.at = IF control.paused THEN "paused" ELSE "sort"]
    /\ UNCHANGED <<control, puts, enabled, rt, recency, jobs, changes, history>>

PassOver ==
    /\ loop.at = "paused"
    /\ loop' = Waiting
    /\ UNCHANGED <<control, puts, enabled, rt, recency, jobs, changes, history>>

\* Take _cv, count what runs, sort the targets.
Sort ==
    /\ loop.at = "sort"
    /\ loop' = [at |-> "offer", left |-> Keys, priority |-> control.priority,
                running |-> Cardinality(Running)]
    /\ UNCHANGED <<control, puts, enabled, rt, recency, jobs, changes, history>>

\* The sort key (priority, last_run_end). Listed targets have places of their own.
Before(j, k) == \/ loop.priority[j] < loop.priority[k]
                \/ loop.priority[j] = loop.priority[k] /\ recency[j] < recency[k]

\* Mutant: only a running block source counts.
SessionBusyBlocks(k) ==
    k \notin Blocks /\ \E j \in Running \ {k} : j \in Blocks /\ WorkspaceOf[j] = WorkspaceOf[k]

\* Another LucidLink filespace of the workspace is running, and has its session.
SessionBusy(k) ==
    k \notin Blocks /\ \E j \in Running \ {k} : j \notin Blocks /\ WorkspaceOf[j] = WorkspaceOf[k]

HasWork(k) == rt[k].full \/ rt[k].hints > 0 \/ rt[k].more \/ rt[k].due

\* Mutant: a source that is running is started again.
StartableTwice(k) == enabled[k] /\ ~SessionBusy(k) /\ HasWork(k)

Startable(k) == ~rt[k].running /\ enabled[k] /\ ~SessionBusy(k) /\ HasWork(k)

\* Mutant: the count of running jobs is the one the pass began with.
StartUncounted(k, t) ==
    /\ jobs[t] = Free
    /\ jobs' = [jobs EXCEPT ![t] = [key |-> k, phase |-> "submitted", full |-> FALSE]]
    /\ rt' = [rt EXCEPT ![k].running = TRUE]
    /\ loop' = [loop EXCEPT !.left = @ \ {k}]

Start(k, t) ==
    /\ jobs[t] = Free
    /\ jobs' = [jobs EXCEPT ![t] = [key |-> k, phase |-> "submitted", full |-> FALSE]]
    /\ rt' = [rt EXCEPT ![k].running = TRUE]
    /\ loop' = [loop EXCEPT !.left = @ \ {k}, !.running = @ + 1]

\* The next target of the pass is started or passed over.
Offer(k) ==
    /\ loop.at = "offer"
    /\ loop.running < Concurrency
    /\ k \in loop.left
    /\ \A j \in loop.left : ~Before(j, k)
    /\ \/ /\ Startable(k)
          /\ \E t \in Threads : Start(k, t)
       \/ /\ ~Startable(k)
          /\ loop' = [loop EXCEPT !.left = @ \ {k}]
          /\ UNCHANGED <<rt, jobs>>
    /\ UNCHANGED <<control, puts, enabled, recency, changes, history>>

\* Out of slots or out of targets: release _cv and wait.
EndPass ==
    /\ loop.at = "offer"
    /\ loop.running >= Concurrency \/ loop.left = {}
    /\ loop' = Waiting
    /\ UNCHANGED <<control, puts, enabled, rt, recency, jobs, changes, history>>

(***************************************************************************)
(* A job: run_job in _job_safe                                             *)
(***************************************************************************)
\* Under _cv, take the queued hints and decide whether to scan.
Take(t) ==
    LET k == jobs[t].key
        full == rt[k].full \/ rt[k].due IN
    /\ jobs[t].phase = "submitted"
    /\ Unlocked
    /\ jobs' = [jobs EXCEPT ![t].phase = "working", ![t].full = full]
    /\ rt' = [rt EXCEPT ![k].full = FALSE, ![k].hints = 0]
    /\ owed' = [owed EXCEPT ![k] = @ /\ ~full]
    /\ unheard' = [unheard EXCEPT ![k] = @ - rt[k].hints]
    /\ UNCHANGED <<control, puts, enabled, recency, loop, changes>>

\* Mutant: the order of last_run_end is not kept.
RankedByTarget(k) == recency

\* k has run last.
Ranked(k) == [j \in Keys |-> IF j = k THEN Cardinality(Keys)
                             ELSE IF recency[j] > recency[k] THEN recency[j] - 1 ELSE recency[j]]

\* Mutant: the request is cleared when its job ends, not when it begins.
FinishedAndCleared(t, more) ==
    LET k == jobs[t].key IN
    rt' = [rt EXCEPT ![k].more = more, ![k].due = @ /\ ~jobs[t].full, ![k].full = FALSE]

Finished(t, more) ==
    LET k == jobs[t].key IN
    rt' = [rt EXCEPT ![k].more = more, ![k].due = @ /\ ~jobs[t].full]

\* The work is done or has failed: `more` says whether files are left in the
\* queue (FALSE after an error, as it was without an embedder). The runtime is
\* written without _cv, before the survey.
Finish(t, more) ==
    /\ jobs[t].phase = "working"
    /\ Finished(t, more)
    /\ jobs' = [jobs EXCEPT ![t].phase = "ended"]
    /\ recency' = Ranked(jobs[t].key)
    /\ UNCHANGED <<control, puts, enabled, loop, changes, history>>

\* _job_safe's finally.
Return(t) ==
    /\ jobs[t].phase = "ended"
    /\ Unlocked
    /\ rt' = [rt EXCEPT ![jobs[t].key].running = FALSE]
    /\ jobs' = [jobs EXCEPT ![t] = Free]
    /\ UNCHANGED <<control, puts, enabled, recency, loop, changes, history>>

\* The process stops or dies and starts again: every source is due.
Restart ==
    /\ Changes
    /\ rt' = [k \in Keys |-> NewRuntime]
    /\ recency' = TargetOrder
    /\ loop' = Waiting
    /\ jobs' = [t \in Threads |-> Free]
    /\ puts' = [h \in Handlers |-> NoPut]
    /\ owed' = [k \in Keys |-> owed[k] \/ unheard[k] > 0]
    /\ unheard' = [k \in Keys |-> 0]
    /\ UNCHANGED <<control, enabled>>

(***************************************************************************)
(* Specification                                                           *)
(***************************************************************************)
Request == \/ \E k \in Keys : RequestSync(k) \/ AddHint(k) \/ ScanComesDue(k)
           \/ \E k \in Keys, on \in BOOLEAN : SetEnabled(k, on)

Put == \/ \E h \in Handlers, paused \in BOOLEAN \cup {None}, priority \in Priorities \cup {None} :
            PutReads(h, paused, priority)
       \/ \E h \in Handlers : PutWrites(h)

LoopStep == Wake \/ PassOver \/ Sort \/ (\E k \in Keys : Offer(k)) \/ EndPass

JobStep(t) == Take(t) \/ (\E more \in BOOLEAN : Finish(t, more)) \/ Return(t)

Next == Request \/ Put \/ LoopStep \/ (\E t \in Threads : JobStep(t)) \/ Restart

Spec == Init /\ [][Next]_vars

\* The control thread never dies; a job ends within its time slice, and gets
\* _cv, which the loop leaves for tick_sec between two passes.
FairSpec == Spec /\ WF_vars(LoopStep) /\ \A t \in Threads : SF_vars(JobStep(t))

(***************************************************************************)
(* Properties                                                              *)
(***************************************************************************)
Job == [key : Keys, phase : {"submitted", "working", "ended"}, full : BOOLEAN]
PutRequest == [paused : BOOLEAN \cup {None}, priority : Priorities \cup {None}, read : Control]

\* Every variable holds a value the runtimes, the pool and the table can hold.
TypeOK ==
    /\ control \in Control
    /\ puts \in [Handlers -> PutRequest \cup {NoPut}]
    /\ enabled \in [Keys -> BOOLEAN]
    /\ rt \in [Keys -> Runtime]
    /\ recency \in [Keys -> Nat]
    /\ loop \in [at : {"wait", "paused", "sort", "offer"}, left : SUBSET Keys,
                 priority : [Keys -> Nat], running : Nat]
    /\ jobs \in [Threads -> Job \cup {Free}]
    /\ changes \in Nat
    /\ owed \in [Keys -> BOOLEAN]
    /\ unheard \in [Keys -> Nat]

\* "At most one job per filespace at any time" (worker.py:7), from its dispatch
\* to the return of _job_safe, wherever dispatch, job and requests interleave.
OneJobPerKey == \A s, t \in Busy : jobs[s].key = jobs[t].key => s = t

\* "At most `concurrency` jobs overall" (worker.py:10): the count a pass keeps is
\* right although jobs end while it runs.
AtMostConcurrency == Cardinality(Busy) <= Concurrency

\* No two jobs need the SDK session of one workspace (_session_busy), or the
\* second would hold a slot only to wait for the first.
SessionExclusive ==
    \A s, t \in Busy : s # t /\ {jobs[s].key, jobs[t].key} \cap Blocks = {} =>
                         WorkspaceOf[jobs[s].key] # WorkspaceOf[jobs[t].key]

\* A source is marked running exactly while a job of it is in the pool: the mark
\* is neither lost (two jobs) nor left behind (no job ever again).
RunningIsAJob == \A k \in Keys : rt[k].running <=> \E t \in Busy : jobs[t].key = k

\* "Requests that arrive during a job are merged into its next run" (worker.py:9):
\* until a job that scans takes it up, an accepted request is remembered, and so
\* is a hint the queue had no room for; queued hints stay queued until a job
\* takes them. A restart forgets them all and scans.
NoRequestLost == \A k \in Keys : /\ owed[k] => rt[k].full \/ rt[k].due
                                 /\ unheard[k] = rt[k].hints

\* The inductive form of these (the theorems of SchedulerProofs): a pass's count
\* is that of the sources marked running, and those share no session; what came
\* in since a job set out to scan is still on record when it ends.
CountIsRight == /\ Cardinality(Running) <= Concurrency
                /\ loop.at = "offer" => loop.running = Cardinality(Running)

SessionsFree == \A j, k \in Running \ Blocks : j # k => WorkspaceOf[j] # WorkspaceOf[k]

ScanCovers == \A t \in Busy : /\ jobs[t].phase = "working" /\ jobs[t].full
                               /\ owed[jobs[t].key]
                               => rt[jobs[t].key].full

SchedulerInv == /\ TypeOK
                /\ RunningIsAJob /\ OneJobPerKey
                /\ SessionsFree /\ CountIsRight
                /\ NoRequestLost /\ ScanCovers

\* With no priorities set, every request and hint of an enabled source is taken
\* up in the end, whatever backlogs the other sources have (the round-robin of
\* _dispatch by last_run_end).
FairTurns ==
    \A k \in Keys : (owed[k] \/ unheard[k] > 0) ~>
                        ((~owed[k] /\ unheard[k] = 0) \/ ~enabled[k] \/ control.paused)

================================================================================
