---------------------------- MODULE SchedulerProofs ----------------------------
(* What TLAPS proves of Scheduler, for any number of sources, slots and hints. *)
EXTENDS Scheduler, FiniteSetTheorems, TLAPS

(***************************************************************************)
(* The pool                                                                *)
(***************************************************************************)
LEMMA RunningIsFinite ==
  /\ IsFiniteSet(Running) /\ Cardinality(Running) \in Nat
  /\ Cardinality(Keys) \in Nat
  BY SchedulerAssumption, FS_Subset, FS_CardinalityType DEF Running

\* What is said of the pool and the marks, in one piece.
PoolInv == RunningIsAJob /\ OneJobPerKey /\ SessionsFree /\ CountIsRight

\* A step that starts and ends no job keeps it, if the pass's count is kept.
LEMMA SamePool ==
  ASSUME PoolInv,
         \A k \in Keys : rt'[k].running = rt[k].running,
         \A t \in Threads : jobs'[t].key = jobs[t].key /\ (jobs'[t] = Free <=> jobs[t] = Free),
         loop'.at = "offer" => loop'.running = Cardinality(Running)
  PROVE  PoolInv'
<1>1. Running' = Running /\ Busy' = Busy
  BY DEF Running, Busy
<1>2. \A t \in Busy : jobs'[t].key = jobs[t].key
  BY DEF Busy
<1>3. RunningIsAJob' /\ OneJobPerKey'
  BY <1>1, <1>2 DEF PoolInv, RunningIsAJob, OneJobPerKey
<1>4. SessionsFree' /\ CountIsRight'
  BY <1>1 DEF PoolInv, SessionsFree, CountIsRight
<1>. QED
  BY <1>3, <1>4 DEF PoolInv

\* A busy thread has a job of a source that is marked running.
LEMMA BusyHasAKey ==
  ASSUME TypeOK, RunningIsAJob, NEW t \in Threads, jobs[t] # Free
  PROVE  /\ jobs[t] \in Job /\ jobs[t].key \in Keys /\ rt[jobs[t].key].running
         /\ rt[jobs[t].key] \in Runtime
<1>1. jobs[t] \in Job /\ jobs[t].key \in Keys
  BY DEF TypeOK, Job
<1>2. t \in Busy
  BY DEF Busy
<1>. QED
  BY <1>1, <1>2 DEF RunningIsAJob, TypeOK

\* What a scanning job covers stays on record, while jobs stay and requests only
\* come in.
LEMMA SameScans ==
  ASSUME ScanCovers, \A j \in Keys : owed'[j] /\ ~owed[j] => rt'[j].full,
         \A j \in Keys : rt[j].full => rt'[j].full,
         jobs' = jobs, TypeOK
  PROVE  ScanCovers'
<1>1. Busy' = Busy /\ \A t \in Busy : jobs'[t] = jobs[t] /\ jobs[t].key \in Keys
  BY DEF Busy, TypeOK, Job
<1>. QED
  BY <1>1 DEF ScanCovers

(***************************************************************************)
(* The invariant, action by action                                         *)
(***************************************************************************)
LEMMA InitEstablishesInv == Init => SchedulerInv
<1> SUFFICES ASSUME Init PROVE SchedulerInv
  OBVIOUS
<1> USE SchedulerAssumption
<1>1. TypeOK
  <2>1. NewRuntime \in Runtime
    BY DEF NewRuntime, Runtime
  <2>2. TargetOrder \in [Keys -> Nat]
    BY RunningIsFinite
  <2>. QED
    BY <2>1, <2>2 DEF Init, TypeOK, Control, Waiting
<1>2. Running = {} /\ Busy = {}
  BY DEF Init, Running, Busy, NewRuntime
<1>3. PoolInv
  <2>1. RunningIsAJob /\ OneJobPerKey /\ SessionsFree
    BY <1>2 DEF RunningIsAJob, OneJobPerKey, SessionsFree, Running
  <2>2. Cardinality(Running) = 0 /\ loop.at = "wait"
    BY <1>2, FS_EmptySet DEF Init, Waiting
  <2>. QED
    BY <2>1, <2>2 DEF PoolInv, CountIsRight
<1>4. NoRequestLost /\ ScanCovers
  BY <1>2 DEF Init, NoRequestLost, ScanCovers, NewRuntime
<1>. QED
  BY <1>1, <1>3, <1>4 DEF SchedulerInv, PoolInv

LEMMA RequestKeepsInv == SchedulerInv /\ Request => SchedulerInv'
<1> SUFFICES ASSUME SchedulerInv, Request PROVE SchedulerInv'
  OBVIOUS
<1> USE SchedulerAssumption
<1>0. TypeOK /\ PoolInv /\ NoRequestLost /\ ScanCovers
  BY DEF SchedulerInv, PoolInv
<1>1. ASSUME NEW k \in Keys, RequestSync(k) PROVE SchedulerInv'
  <2>0. rt[k] \in Runtime
    BY <1>0 DEF TypeOK
  <2>1. TypeOK'
    BY <1>0, <1>1, <2>0 DEF RequestSync, TypeOK, Runtime
  <2>2. NoRequestLost'
    BY <1>0, <1>1, <2>0 DEF RequestSync, TypeOK, Runtime, NoRequestLost
  <2>3. PoolInv'
    BY <1>0, <1>1, SamePool DEF RequestSync, TypeOK, Runtime, Unlocked
  <2>4. ScanCovers'
    BY <1>0, <1>1, <2>0, SameScans DEF RequestSync, TypeOK, Runtime
  <2>. QED
    BY <2>1, <2>2, <2>3, <2>4 DEF SchedulerInv, PoolInv
<1>2. ASSUME NEW k \in Keys, AddHint(k) PROVE SchedulerInv'
  <2>0. rt[k] \in Runtime /\ rt[k].hints \in 0 .. MaxHints /\ unheard[k] = rt[k].hints
    BY <1>0 DEF TypeOK, Runtime, NoRequestLost
  <2>1. TypeOK'
    BY <1>0, <1>2, <2>0 DEF AddHint, TypeOK, Runtime
  <2>2. NoRequestLost'
    BY <1>0, <1>2, <2>0 DEF AddHint, TypeOK, Runtime, NoRequestLost
  <2>3. PoolInv'
    BY <1>0, <1>2, SamePool DEF AddHint, TypeOK, Runtime, Unlocked
  <2>4. ScanCovers'
    BY <1>0, <1>2, <2>0, SameScans DEF AddHint, TypeOK, Runtime
  <2>. QED
    BY <2>1, <2>2, <2>3, <2>4 DEF SchedulerInv, PoolInv
<1>3. ASSUME NEW k \in Keys, ScanComesDue(k) PROVE SchedulerInv'
  <2>0. rt[k] \in Runtime
    BY <1>0 DEF TypeOK
  <2>1. TypeOK'
    BY <1>0, <1>3, <2>0 DEF ScanComesDue, TypeOK, Runtime, history
  <2>2. NoRequestLost'
    BY <1>0, <1>3, <2>0 DEF ScanComesDue, TypeOK, Runtime, NoRequestLost, history
  <2>3. PoolInv'
    BY <1>0, <1>3, SamePool DEF ScanComesDue, TypeOK, Runtime, PoolInv, CountIsRight
  <2>4. ScanCovers'
    BY <1>0, <1>3, <2>0, SameScans DEF ScanComesDue, TypeOK, Runtime, history
  <2>. QED
    BY <2>1, <2>2, <2>3, <2>4 DEF SchedulerInv, PoolInv
<1>4. ASSUME NEW k \in Keys, NEW on \in BOOLEAN, SetEnabled(k, on) PROVE SchedulerInv'
  <2>1. TypeOK' /\ NoRequestLost'
    BY <1>0, <1>4 DEF SetEnabled, Changes, TypeOK, Runtime, NoRequestLost
  <2>2. PoolInv'
    BY <1>0, <1>4, SamePool DEF SetEnabled, TypeOK, Runtime, PoolInv, CountIsRight
  <2>3. rt[k] \in Runtime
    BY <1>0 DEF TypeOK
  <2>4. ScanCovers'
    BY <1>0, <1>4, <2>3, SameScans DEF SetEnabled, TypeOK, Runtime
  <2>. QED
    BY <2>1, <2>2, <2>4 DEF SchedulerInv, PoolInv
<1>. QED
  BY <1>1, <1>2, <1>3, <1>4 DEF Request

LEMMA PutKeepsInv == SchedulerInv /\ Put => SchedulerInv'
<1> SUFFICES ASSUME SchedulerInv, Put PROVE SchedulerInv'
  OBVIOUS
<1>1. UNCHANGED <<enabled, rt, recency, loop, jobs, owed, unheard>>
  BY DEF Put, PutReads, PutWrites, history
<1>2. control' \in Control /\ puts' \in [Handlers -> PutRequest \cup {NoPut}] /\ changes' \in Nat
  <2>0. TypeOK
    BY DEF SchedulerInv
  <2>1. ASSUME NEW h \in Handlers, NEW paused \in BOOLEAN \cup {None},
               NEW priority \in Priorities \cup {None}, PutReads(h, paused, priority)
        PROVE  /\ control' \in Control /\ puts' \in [Handlers -> PutRequest \cup {NoPut}]
               /\ changes' \in Nat
    BY <2>0, <2>1 DEF PutReads, Changes, TypeOK, PutRequest
  <2>2. ASSUME NEW h \in Handlers, PutWrites(h)
        PROVE  /\ control' \in Control /\ puts' \in [Handlers -> PutRequest \cup {NoPut}]
               /\ changes' \in Nat
    <3>1. puts[h] \in PutRequest
      BY <2>0, <2>2 DEF PutWrites, TypeOK
    <3>2. control' \in Control
      BY <2>2, <3>1 DEF PutWrites, PutRequest, Control
    <3>. QED
      BY <2>0, <2>2, <3>2 DEF PutWrites, TypeOK
  <2>. QED
    BY <2>1, <2>2 DEF Put
<1>3. TypeOK' /\ NoRequestLost' /\ ScanCovers'
  BY <1>1, <1>2 DEF SchedulerInv, TypeOK, NoRequestLost, ScanCovers, Busy
<1>4. PoolInv'
  BY <1>1, SamePool DEF SchedulerInv, PoolInv, CountIsRight
<1>. QED
  BY <1>3, <1>4 DEF SchedulerInv, PoolInv

LEMMA LoopKeepsInv == SchedulerInv /\ LoopStep => SchedulerInv'
<1> SUFFICES ASSUME SchedulerInv, LoopStep PROVE SchedulerInv'
  OBVIOUS
<1> USE SchedulerAssumption
<1>0. TypeOK /\ PoolInv /\ NoRequestLost /\ ScanCovers
  BY DEF SchedulerInv, PoolInv
<1>1. ASSUME /\ loop' \in [at : {"wait", "paused", "sort", "offer"}, left : SUBSET Keys,
                           priority : [Keys -> Nat], running : Nat],
             loop'.at = "offer" => loop'.running = Cardinality(Running),
             UNCHANGED <<control, puts, enabled, rt, recency, jobs, changes, history>>
      PROVE  SchedulerInv'
  <2>1. TypeOK' /\ NoRequestLost' /\ ScanCovers'
    BY <1>0, <1>1 DEF TypeOK, NoRequestLost, ScanCovers, Busy, history
  <2>2. PoolInv'
    BY <1>0, <1>1, SamePool
  <2>. QED
    BY <2>1, <2>2 DEF SchedulerInv, PoolInv
<1>2. CASE Wake
  BY <1>0, <1>1, <1>2 DEF Wake, TypeOK
<1>3. CASE PassOver \/ EndPass
  BY <1>0, <1>1, <1>3 DEF PassOver, EndPass, Waiting
<1>4. CASE Sort
  <2>1. control.priority \in [Keys -> Nat]
    BY <1>0 DEF TypeOK, Control
  <2>. QED
    BY <1>0, <1>1, <1>4, <2>1, RunningIsFinite DEF Sort
<1>5. ASSUME NEW k \in Keys, Offer(k), ~Startable(k) PROVE SchedulerInv'
  BY <1>0, <1>1, <1>5 DEF Offer, TypeOK, PoolInv, CountIsRight
<1>6. ASSUME NEW k \in Keys, NEW t \in Threads, Offer(k), Startable(k), Start(k, t)
      PROVE  SchedulerInv'
  <2>0. /\ rt[k] \in Runtime /\ ~rt[k].running /\ jobs[t] = Free /\ t \notin Busy
        /\ loop.running = Cardinality(Running) /\ loop.running < Concurrency
        /\ UNCHANGED <<control, puts, enabled, recency, changes, owed, unheard>>
    BY <1>0, <1>6 DEF Offer, Startable, Start, Busy, TypeOK, PoolInv, CountIsRight, history
  <2>1. /\ rt' = [rt EXCEPT ![k].running = TRUE]
        /\ jobs' = [jobs EXCEPT ![t] = [key |-> k, phase |-> "submitted", full |-> FALSE]]
        /\ loop' = [loop EXCEPT !.left = @ \ {k}, !.running = @ + 1]
    BY <1>6 DEF Start
  <2>2. TypeOK'
    <3>1. rt' \in [Keys -> Runtime]
      BY <1>0, <2>0, <2>1 DEF TypeOK, Runtime
    <3>2. [key |-> k, phase |-> "submitted", full |-> FALSE] \in Job
      BY DEF Job
    <3>3. jobs' \in [Threads -> Job \cup {Free}]
      BY <1>0, <2>1, <3>2 DEF TypeOK
    <3>4. loop' \in [at : {"wait", "paused", "sort", "offer"}, left : SUBSET Keys,
                     priority : [Keys -> Nat], running : Nat]
      <4>1. loop'.at = loop.at /\ loop'.priority = loop.priority
        BY <1>0, <2>1 DEF TypeOK
      <4>2. loop.running + 1 \in Nat
        BY <2>0, RunningIsFinite
      <4>. QED
        BY <1>0, <2>1, <4>1, <4>2 DEF TypeOK
    <3>. QED
      BY <1>0, <2>0, <3>1, <3>3, <3>4 DEF TypeOK
  <2>3. NoRequestLost'
    BY <1>0, <2>0, <2>1 DEF TypeOK, Runtime, NoRequestLost
  <2>4. Running' = Running \cup {k} /\ k \notin Running
    BY <1>0, <2>0, <2>1 DEF Running, TypeOK, Runtime
  <2>5. Busy' = Busy \cup {t}
    <3>1. [key |-> k, phase |-> "submitted", full |-> FALSE] # Free
      BY DEF Free
    <3>. QED
      BY <1>0, <2>1, <3>1 DEF Busy, TypeOK
  <2>6. /\ \A s \in Busy : jobs'[s] = jobs[s] /\ jobs[s].key # k
        /\ jobs'[t].key = k
    <3>1. \A s \in Busy : jobs[s].key \in Keys /\ rt[jobs[s].key].running
      BY <1>0, BusyHasAKey DEF PoolInv, Busy
    <3>. QED
      BY <1>0, <2>0, <2>1, <3>1 DEF TypeOK, Busy
  <2>7. OneJobPerKey'
    BY <1>0, <2>5, <2>6 DEF PoolInv, OneJobPerKey
  <2>8. RunningIsAJob'
    <3>1. \A j \in Keys : rt'[j].running <=> j = k \/ rt[j].running
      BY <1>0, <2>0, <2>1 DEF TypeOK, Runtime
    <3>2. \A j \in Keys : (\E s \in Busy' : jobs'[s].key = j)
                           <=> j = k \/ \E s \in Busy : jobs[s].key = j
      BY <2>5, <2>6
    <3>. QED
      BY <1>0, <3>1, <3>2 DEF PoolInv, RunningIsAJob
  <2>9. SessionsFree'
    <3>1. k \in Blocks \/ \A j \in Running \ {k} : j \in Blocks \/ WorkspaceOf[j] # WorkspaceOf[k]
      BY <1>6 DEF Startable, SessionBusy
    <3>. QED
      BY <1>0, <2>4, <3>1 DEF PoolInv, SessionsFree
  <2>10. CountIsRight'
    <3>1. Cardinality(Running') = Cardinality(Running) + 1
      BY <2>4, RunningIsFinite, FS_AddElement
    <3>2. loop'.running = loop.running + 1
      BY <1>0, <2>1 DEF TypeOK
    <3>. QED
      BY <2>0, <3>1, <3>2, RunningIsFinite DEF CountIsRight
  <2>11. ScanCovers'
    <3>1. jobs'[t].phase = "submitted"
      BY <1>0, <2>1 DEF TypeOK
    <3>2. \A j \in Keys : rt'[j].full = rt[j].full
      BY <1>0, <2>0, <2>1 DEF TypeOK, Runtime
    <3>3. \A s \in Busy : jobs[s].key \in Keys
      BY <1>0 DEF Busy, TypeOK, Job
    <3>. QED
      BY <1>0, <2>0, <2>5, <2>6, <3>1, <3>2, <3>3 DEF ScanCovers
  <2>. QED
    BY <2>2, <2>3, <2>7, <2>8, <2>9, <2>10, <2>11 DEF SchedulerInv
<1>. QED
  BY <1>2, <1>3, <1>4, <1>5, <1>6 DEF LoopStep, Offer

LEMMA JobKeepsInv == ASSUME SchedulerInv, NEW t \in Threads, JobStep(t) PROVE SchedulerInv'
<1> USE SchedulerAssumption
<1> DEFINE k == jobs[t].key
<1>0. TypeOK /\ PoolInv /\ NoRequestLost /\ ScanCovers
  BY DEF SchedulerInv, PoolInv
<1>1. /\ jobs[t] # Free /\ jobs[t] \in Job /\ k \in Keys
      /\ rt[k] \in Runtime /\ rt[k].running
  <2>1. jobs[t] # Free
    BY DEF JobStep, Take, Finish, Return, Free
  <2>. QED
    BY <1>0, <2>1, BusyHasAKey DEF PoolInv
<1>2. CASE Take(t)
  <2>0. unheard[k] = rt[k].hints /\ rt[k].hints \in 0 .. MaxHints
    BY <1>0, <1>1 DEF NoRequestLost, Runtime
  <2>1. /\ jobs' = [jobs EXCEPT ![t].phase = "working", ![t].full = rt[k].full \/ rt[k].due]
        /\ rt' = [rt EXCEPT ![k].full = FALSE, ![k].hints = 0]
        /\ owed' = [owed EXCEPT ![k] = @ /\ ~(rt[k].full \/ rt[k].due)]
        /\ unheard' = [unheard EXCEPT ![k] = @ - rt[k].hints]
        /\ UNCHANGED <<control, puts, enabled, recency, loop, changes>> /\ loop.at # "offer"
    BY <1>2 DEF Take, Unlocked
  <2>2. jobs'[t] \in Job /\ jobs' \in [Threads -> Job \cup {Free}]
    BY <1>0, <1>1, <2>1 DEF TypeOK, Job, Runtime
  <2>3. rt' \in [Keys -> Runtime]
    <3>0. 0 \in 0 .. MaxHints
      OBVIOUS
    <3>1. [rt[k] EXCEPT !.full = FALSE, !.hints = 0] \in Runtime
      BY <1>1, <3>0 DEF Runtime
    <3>2. rt' = [rt EXCEPT ![k] = [rt[k] EXCEPT !.full = FALSE, !.hints = 0]]
      BY <1>0, <1>1, <2>1 DEF TypeOK
    <3>. QED
      BY <1>0, <3>1, <3>2 DEF TypeOK
  <2>4. unheard' \in [Keys -> Nat] /\ owed' \in [Keys -> BOOLEAN]
    BY <1>0, <1>1, <2>0, <2>1 DEF TypeOK, Runtime
  <2>5. TypeOK'
    BY <1>0, <2>1, <2>2, <2>3, <2>4 DEF TypeOK
  <2>6. NoRequestLost'
    BY <1>0, <1>1, <2>0, <2>1 DEF TypeOK, Runtime, NoRequestLost
  <2>7. /\ \A s \in Threads : jobs'[s].key = jobs[s].key /\ (jobs'[s] = Free <=> jobs[s] = Free)
        /\ Busy' = Busy
    <3>1. jobs'[t].key = jobs[t].key /\ jobs'[t].phase = "working"
      BY <1>0, <1>1, <2>1 DEF TypeOK, Job
    <3>2. jobs'[t] # Free
      BY <3>1 DEF Free
    <3>3. \A s \in Threads : s # t => jobs'[s] = jobs[s]
      BY <1>0, <2>1 DEF TypeOK
    <3>. QED
      BY <1>1, <3>1, <3>2, <3>3 DEF Busy
  <2>8. PoolInv'
    <3>1. \A j \in Keys : rt'[j].running = rt[j].running
      BY <1>0, <1>1, <2>1 DEF TypeOK, Runtime
    <3>. QED
      BY <1>0, <2>1, <2>7, <3>1, SamePool
  <2>9. ScanCovers'
    <3>1. ASSUME NEW s \in Busy, s # t PROVE jobs'[s] = jobs[s] /\ jobs[s].key # k
      BY <1>0, <1>1, <2>1, <3>1 DEF PoolInv, OneJobPerKey, Busy, TypeOK
    <3>2. \A j \in Keys \ {k} : rt'[j] = rt[j] /\ owed'[j] = owed[j]
      BY <1>0, <2>1 DEF TypeOK
    <3>3. jobs'[t].full => ~owed'[k]
      BY <1>0, <1>1, <2>1 DEF TypeOK, Job
    <3>4. \A s \in Busy : jobs[s].key \in Keys
      BY <1>0 DEF Busy, TypeOK, Job
    <3>. QED
      BY <1>0, <2>7, <3>1, <3>2, <3>3, <3>4 DEF ScanCovers, Busy
  <2>. QED
    BY <2>5, <2>6, <2>8, <2>9 DEF SchedulerInv, PoolInv
<1>3. ASSUME NEW more \in BOOLEAN, Finish(t, more) PROVE SchedulerInv'
  <2>1. /\ jobs[t].phase = "working" /\ jobs' = [jobs EXCEPT ![t].phase = "ended"]
        /\ rt' = [rt EXCEPT ![k].more = more, ![k].due = @ /\ ~jobs[t].full]
        /\ recency' = Ranked(k)
        /\ UNCHANGED <<control, puts, enabled, loop, changes, owed, unheard>>
    BY <1>3 DEF Finish, Finished, history
  <2>2. jobs'[t] \in Job /\ jobs' \in [Threads -> Job \cup {Free}]
    BY <1>0, <1>1, <2>1 DEF TypeOK, Job
  <2>3. rt' \in [Keys -> Runtime]
    BY <1>0, <1>1, <2>1 DEF TypeOK, Runtime, Job
  <2>4. recency' \in [Keys -> Nat]
    BY <1>0, <1>1, <2>1, RunningIsFinite DEF Ranked, TypeOK
  <2>5. TypeOK'
    BY <1>0, <2>1, <2>2, <2>3, <2>4 DEF TypeOK
  <2>6. t \in Busy /\ (jobs[t].full /\ owed[k] => rt[k].full)
    BY <1>0, <1>1, <2>1 DEF ScanCovers, Busy
  <2>7. NoRequestLost'
    BY <1>0, <1>1, <2>1, <2>6 DEF TypeOK, Runtime, NoRequestLost
  <2>8. /\ \A s \in Threads : jobs'[s].key = jobs[s].key /\ (jobs'[s] = Free <=> jobs[s] = Free)
        /\ Busy' = Busy
    <3>1. jobs'[t].key = jobs[t].key /\ jobs'[t].phase = "ended"
      BY <1>0, <1>1, <2>1 DEF TypeOK, Job
    <3>2. jobs'[t] # Free
      BY <3>1 DEF Free
    <3>3. \A s \in Threads : s # t => jobs'[s] = jobs[s]
      BY <1>0, <2>1 DEF TypeOK
    <3>. QED
      BY <1>1, <3>1, <3>2, <3>3 DEF Busy
  <2>9. \A j \in Keys : rt'[j].running = rt[j].running /\ rt'[j].full = rt[j].full
    BY <1>0, <1>1, <2>1 DEF TypeOK, Runtime
  <2>10. PoolInv'
    BY <1>0, <2>1, <2>8, <2>9, SamePool DEF PoolInv, CountIsRight
  <2>11. ScanCovers'
    <3>1. \A s \in Busy : s # t => jobs'[s] = jobs[s]
      BY <1>0, <2>1 DEF Busy, TypeOK
    <3>2. jobs'[t].phase = "ended"
      BY <1>0, <1>1, <2>1 DEF TypeOK, Job
    <3>3. \A s \in Busy : jobs[s].key \in Keys
      BY <1>0 DEF Busy, TypeOK, Job
    <3>. QED
      <4>1. ASSUME NEW s \in Busy, jobs'[s].phase = "working", jobs'[s].full, owed'[jobs'[s].key]
            PROVE  rt'[jobs'[s].key].full
        <5>1. s # t /\ jobs'[s] = jobs[s]
          BY <3>1, <3>2, <4>1
        <5>2. rt[jobs[s].key].full
          BY <1>0, <2>1, <4>1, <5>1 DEF ScanCovers
        <5>. QED
          BY <2>9, <3>3, <5>1, <5>2
      <4>. QED
        BY <2>8, <4>1 DEF ScanCovers
  <2>. QED
    BY <2>5, <2>7, <2>10, <2>11 DEF SchedulerInv, PoolInv
<1>4. CASE Return(t)
  <2>1. /\ rt' = [rt EXCEPT ![k].running = FALSE] /\ jobs' = [jobs EXCEPT ![t] = Free]
        /\ UNCHANGED <<control, puts, enabled, recency, loop, changes, owed, unheard>>
        /\ loop.at # "offer"
    BY <1>4 DEF Return, Unlocked, history
  <2>2. rt' \in [Keys -> Runtime]
    BY <1>0, <1>1, <2>1 DEF TypeOK, Runtime
  <2>3. TypeOK'
    BY <1>0, <2>1, <2>2 DEF TypeOK
  <2>4. /\ \A j \in Keys : /\ rt'[j].full = rt[j].full /\ rt'[j].due = rt[j].due
                           /\ rt'[j].hints = rt[j].hints
                           /\ rt'[j].running <=> rt[j].running /\ j # k
    BY <1>0, <1>1, <2>1 DEF TypeOK, Runtime
  <2>5. NoRequestLost'
    BY <1>0, <2>1, <2>4 DEF NoRequestLost
  <2>6. Running' = Running \ {k} /\ Busy' = Busy \ {t} /\ t \in Busy /\ k \in Running
    BY <1>0, <1>1, <2>1, <2>4 DEF Running, Busy, TypeOK
  <2>7. \A s \in Busy' : jobs'[s] = jobs[s] /\ jobs[s].key \in Keys /\ jobs[s].key # k
    BY <1>0, <2>1, <2>6 DEF PoolInv, OneJobPerKey, Busy, TypeOK, Job
  <2>8. OneJobPerKey' /\ SessionsFree'
    BY <1>0, <2>6, <2>7 DEF PoolInv, OneJobPerKey, SessionsFree
  <2>9. RunningIsAJob'
    BY <1>0, <2>4, <2>6, <2>7 DEF PoolInv, RunningIsAJob
  <2>10. CountIsRight'
    <3>1. Cardinality(Running') = Cardinality(Running) - 1
      <4>1. \A S : IsFiniteSet(S) /\ k \in S => Cardinality(S \ {k}) = Cardinality(S) - 1
        BY FS_RemoveElement
      <4>. QED
        BY <2>6, <4>1, RunningIsFinite
    <3>. QED
      BY <1>0, <2>1, <3>1, RunningIsFinite DEF PoolInv, CountIsRight
  <2>11. ScanCovers'
    BY <1>0, <2>1, <2>4, <2>6, <2>7 DEF ScanCovers
  <2>. QED
    BY <2>3, <2>5, <2>8, <2>9, <2>10, <2>11 DEF SchedulerInv
<1>. QED
  BY <1>2, <1>3, <1>4 DEF JobStep

LEMMA RestartKeepsInv == SchedulerInv /\ Restart => SchedulerInv'
<1> SUFFICES ASSUME SchedulerInv, Restart PROVE SchedulerInv'
  OBVIOUS
<1> USE SchedulerAssumption
<1>1. NewRuntime \in Runtime /\ TargetOrder \in [Keys -> Nat]
  BY RunningIsFinite DEF NewRuntime, Runtime
<1>2. TypeOK'
  BY <1>1 DEF SchedulerInv, TypeOK, Restart, Changes, Waiting
<1>3. Running' = {} /\ Busy' = {}
  BY DEF Restart, Running, Busy, NewRuntime
<1>4. RunningIsAJob' /\ OneJobPerKey' /\ SessionsFree' /\ ScanCovers'
  BY <1>3 DEF RunningIsAJob, OneJobPerKey, SessionsFree, ScanCovers, Running
<1>5. CountIsRight'
  <2>1. Cardinality(Running') = 0 /\ loop'.at = "wait"
    BY <1>3, FS_EmptySet DEF Restart, Waiting
  <2>. QED
    BY <2>1 DEF CountIsRight
<1>6. NoRequestLost'
  BY DEF Restart, NoRequestLost, NewRuntime
<1>. QED
  BY <1>2, <1>4, <1>5, <1>6 DEF SchedulerInv

LEMMA NextKeepsInv == SchedulerInv /\ [Next]_vars => SchedulerInv'
<1> SUFFICES ASSUME SchedulerInv, [Next]_vars PROVE SchedulerInv'
  OBVIOUS
<1>1. CASE Next
  BY <1>1, RequestKeepsInv, PutKeepsInv, LoopKeepsInv, JobKeepsInv, RestartKeepsInv DEF Next
<1>2. CASE UNCHANGED vars
  BY <1>2 DEF vars, SchedulerInv, TypeOK, RunningIsAJob, OneJobPerKey, SessionsFree, CountIsRight,
     NoRequestLost, ScanCovers, Busy, Running
<1>. QED
  BY <1>1, <1>2

(***************************************************************************)
(* Theorems                                                                *)
(***************************************************************************)
\* The inductive invariant holds of every behaviour, for any number of sources,
\* workspaces and slots, whatever requests, restarts and ends of jobs interleave.
THEOREM InvariantHolds == Spec => []SchedulerInv
<1>1. Init => SchedulerInv
  BY InitEstablishesInv
<1>2. SchedulerInv /\ [Next]_vars => SchedulerInv'
  BY NextKeepsInv
<1>. QED
  BY <1>1, <1>2, PTL DEF Spec

\* At most one job per filespace at any time, and a source is marked running
\* exactly while it has one (_dispatch, _job_safe).
THEOREM OneJobAtATime == Spec => [](OneJobPerKey /\ RunningIsAJob)
<1>1. SchedulerInv => OneJobPerKey /\ RunningIsAJob
  BY DEF SchedulerInv
<1>. QED
  BY <1>1, InvariantHolds, PTL

\* At most `concurrency` jobs overall: each busy thread has a source of its own
\* that is marked running, and a pass counts the marks.
THEOREM SlotsAreBounded == Spec => []AtMostConcurrency
<1>1. SchedulerInv => AtMostConcurrency
  <2> SUFFICES ASSUME SchedulerInv, Cardinality(Busy) > Cardinality(Running) PROVE FALSE
    <3>1. IsFiniteSet(Busy) /\ Cardinality(Busy) \in Nat
      BY SchedulerAssumption, FS_Subset, FS_CardinalityType DEF Busy
    <3>. QED
      BY <3>1, RunningIsFinite, SchedulerAssumption DEF SchedulerInv, CountIsRight, AtMostConcurrency
  <2> DEFINE f == [t \in Busy |-> jobs[t].key]
  <2>1. f \in [Busy -> Running]
    BY BusyHasAKey DEF SchedulerInv, Busy, Running
  <2>2. IsFiniteSet(Busy)
    BY SchedulerAssumption, FS_Subset DEF Busy
  <2>3. \E s, t \in Busy : s # t /\ f[s] = f[t]
    <3> HIDE DEF f
    <3>. QED
      BY ONLY <2>1, <2>2, RunningIsFinite, FS_PigeonHole, Cardinality(Busy) > Cardinality(Running)
  <2>. QED
    BY <2>3 DEF SchedulerInv, OneJobPerKey
<1>. QED
  BY <1>1, InvariantHolds, PTL

\* No two jobs at once need the session of one workspace (_session_busy).
THEOREM SessionsAreExclusive == Spec => []SessionExclusive
<1>1. SchedulerInv => SessionExclusive
  <2> SUFFICES ASSUME SchedulerInv, NEW s \in Busy, NEW t \in Busy, s # t,
                      {jobs[s].key, jobs[t].key} \cap Blocks = {}
               PROVE  WorkspaceOf[jobs[s].key] # WorkspaceOf[jobs[t].key]
    BY DEF SessionExclusive
  <2>1. jobs[s].key \in Running /\ jobs[t].key \in Running
    BY BusyHasAKey DEF SchedulerInv, Busy, Running
  <2>2. jobs[s].key # jobs[t].key
    BY DEF SchedulerInv, OneJobPerKey
  <2>. QED
    BY <2>1, <2>2 DEF SchedulerInv, SessionsFree
<1>. QED
  BY <1>1, InvariantHolds, PTL

\* Every accepted request is on record until a job that scans takes it up, and
\* every queued hint until a job takes it (request_sync, add_hint, run_job).
THEOREM RequestsAreKept == Spec => []NoRequestLost
<1>1. SchedulerInv => NoRequestLost
  BY DEF SchedulerInv
<1>. QED
  BY <1>1, InvariantHolds, PTL

\* The variables only ever hold values of their types.
THEOREM TypeCorrect == Spec => []TypeOK
<1>1. SchedulerInv => TypeOK
  BY DEF SchedulerInv
<1>. QED
  BY <1>1, InvariantHolds, PTL
================================================================================
