-------------------------- MODULE UpdateMonitorProofs --------------------------
(* What TLAPS proves of UpdateMonitor, for any components, notifiers,       *)
(* versions and advisories, and any number of faults and changes.           *)
EXTENDS UpdateMonitor, TLAPS

(***************************************************************************)
(* The inductive invariant: whoever is in a check holds the lock, and each *)
(* place in a check knows what the steps before it established.            *)
(***************************************************************************)
LockIsHeld == \A k \in Callers : at[k].pc # "idle" => lock = k

HasRow(k) == rows[Current(k)][at[k].latest] # Absent

\* The component is one; the release was found.
Located(k) ==
  /\ at[k].pc \notin {"idle", "begin", "resolve"} => at[k].i <= Len(Components)
  /\ at[k].pc \notin {"idle", "begin", "resolve", "fetch", "failed"} => at[k].latest \in Versions

\* A release has its row before it is looked up, and a summary is written
\* only when the row has none from the same context.
Summarised(k) ==
  /\ at[k].pc = "upsert" => at[k].alert = <<Current(k), at[k].latest, "release">>
  /\ at[k].pc = "look" => at[k].alert \in Alerts
  /\ at[k].pc = "look" /\ at[k].alert[3] = "release" => HasRow(k)
  /\ at[k].pc \in {"summary", "ask", "keep"} => HasRow(k)
  /\ at[k].pc \in {"ask", "keep"} =>
         at[k].ctx \in Contexts /\ rows[Current(k)][at[k].latest] # at[k].ctx

\* From the look on, the alert is not in the table; a notifier that said ok
\* was reached.
Announcing(k) ==
  /\ at[k].pc \in {"summary", "ask", "keep"} /\ at[k].alert # NoAlert =>
         at[k].alert \in Alerts \ alerts
  /\ at[k].pc = "send" => at[k].alert \in Alerts \ alerts
  /\ at[k].pc = "send" /\ at[k].heard # {} => at[k].alert \in reached
  /\ at[k].pc \notin {"send", "next"} => at[k].heard = {}

Known(k) == Located(k) /\ Summarised(k) /\ Announcing(k)

MonitorInv == TypeOK /\ LockIsHeld /\ AnnouncedWasHeard /\ \A k \in Callers : Known(k)

\* What is not said of the callers.
Tables ==
  /\ live \in [Component -> SUBSET Versions]
  /\ listed \in SUBSET (Component \X Versions \X Advisories)
  /\ pin \in [Component -> MaybeVersion]
  /\ notes \in 1..MaxNotes
  /\ latest \in [Component -> MaybeVersion]
  /\ rows \in [Component -> [Versions -> Contexts \cup {Absent, Unsummarised}]]
  /\ alerts \in SUBSET Alerts
  /\ lastCheck \in {"never", "running", "done"}
  /\ reached \in SUBSET Alerts

Counters ==
  /\ phase \in {"up", "stopping", "down"}
  /\ faults \in 0..MaxFaults
  /\ changes \in 0..MaxChanges

LEMMA TypeParts ==
  TypeOK <=> /\ Tables /\ Counters /\ recent \in BOOLEAN
             /\ lock \in Callers \cup {Nobody} /\ at \in [Callers -> Place]
  BY DEF TypeOK, Tables, Counters

LEMMA IdleIsAPlace == Idle \in Place
<1>1. 0 \in 0..MaxNotes /\ NoVersion \in MaybeVersion
  BY ConstantsAssumption DEF MaybeVersion
<1>2. 1 \in 1..(Len(Components) + 1) /\ 1 \in 1..(Len(Notifiers) + 1)
  <2>1. Len(Components) \in Nat /\ Len(Notifiers) \in Nat
    BY ConstantsAssumption
  <2>. QED
    BY <2>1
<1>. QED
  BY <1>1, <1>2 DEF Idle, Place, PCs

LEMMA CurrentIsAComponent ==
  ASSUME NEW k \in Callers, TypeOK, at[k].i <= Len(Components)
  PROVE  Current(k) \in Component
<1>1. at[k].i \in 1..Len(Components)
  BY ConstantsAssumption DEF TypeOK, Place
<1>2. DOMAIN Components = 1..Len(Components)
  BY ConstantsAssumption
<1>. QED
  BY <1>1, <1>2 DEF Current, Component

LEMMA OthersAreIdle ==
  ASSUME LockIsHeld, NEW k \in Callers, at[k].pc # "idle"
  PROVE  lock = k /\ \A j \in Callers \ {k} : at[j].pc = "idle"
  BY DEF LockIsHeld, Callers

\* Of a caller that is not in a check there is nothing to know.
LEMMA IdleKnowsNothing ==
  ASSUME NEW k \in Callers, at[k].pc = "idle", at[k].heard = {}
  PROVE  Known(k)
  BY DEF Known, Located, Summarised, Announcing

\* A step of the one check: it is enough to look at the caller that makes it.
LEMMA OneCallerMoves ==
  ASSUME MonitorInv, NEW k \in Callers, at[k].pc # "idle",
         NEW s \in Place, at' = [at EXCEPT ![k] = s],
         lock' = lock \/ (lock' = Nobody /\ s.pc = "idle"),
         Tables', Counters', recent' \in BOOLEAN, AnnouncedWasHeard', Known(k)'
  PROVE  MonitorInv'
<1>1. at \in [Callers -> Place] /\ lock \in Callers \cup {Nobody}
  BY TypeParts DEF MonitorInv
<1>2. at' \in [Callers -> Place] /\ at'[k] = s /\ \A j \in Callers \ {k} : at'[j] = at[j]
  BY <1>1
<1>3. lock = k /\ \A j \in Callers \ {k} : at[j].pc = "idle" /\ at[j].heard = {}
  BY OthersAreIdle DEF MonitorInv, Known, Announcing
<1>4. \A j \in Callers \ {k} : Known(j)'
  BY <1>2, <1>3 DEF Known, Located, Summarised, Announcing
<1>5. LockIsHeld'
  BY <1>2, <1>3 DEF LockIsHeld
<1>6. TypeOK'
  <2>1. lock' \in Callers \cup {Nobody}
    BY <1>1
  <2>. QED
    BY <1>2, <2>1 DEF TypeOK, Tables, Counters
<1>. QED
  BY <1>4, <1>5, <1>6 DEF MonitorInv

\* What every step of a check starts from.
LEMMA AtAPlace ==
  ASSUME MonitorInv, NEW k \in Callers
  PROVE  /\ at[k] \in Place /\ Tables /\ Counters /\ recent \in BOOLEAN
         /\ Known(k) /\ AnnouncedWasHeard /\ at \in [Callers -> Place]
         /\ at[k].i <= Len(Components) => Current(k) \in Component
  BY TypeParts, CurrentIsAComponent DEF MonitorInv

\* A check goes on with the next component, or ends.
LEMMA MovesOn ==
  ASSUME MonitorInv, NEW k \in Callers, at[k].pc # "idle",
         \/ NextComponent(k) /\ at[k].i <= Len(Components) /\ lock' = lock
         \/ Leave(k),
         Tables', Counters', recent' = recent, AnnouncedWasHeard'
  PROVE  MonitorInv'
<1>. DEFINE s == [Idle EXCEPT !.pc = "resolve", !.i = at[k].i + 1]
<1>1. at[k] \in Place /\ recent \in BOOLEAN /\ at \in [Callers -> Place]
  BY AtAPlace
<1>2. CASE Leave(k)
  <2>1. at'[k] = Idle
    BY <1>1, <1>2 DEF Leave
  <2>2. Known(k)'
    BY <2>1 DEF Idle, Known, Located, Summarised, Announcing
  <2>. QED
    BY <1>1, <1>2, <2>2, IdleIsAPlace, OneCallerMoves DEF Leave, Idle
<1>3. CASE NextComponent(k) /\ at[k].i <= Len(Components) /\ lock' = lock
  <2>1. at[k].i + 1 \in 1..(Len(Components) + 1)
    BY <1>1, <1>3, ConstantsAssumption DEF Place
  <2>2. s \in Place
    BY <2>1, IdleIsAPlace DEF Idle, Place, PCs
  <2>3. at'[k] = s /\ s.pc = "resolve" /\ s.heard = {}
    BY <1>1, <1>3 DEF NextComponent, Idle
  <2>4. Known(k)'
    BY <2>3 DEF Known, Located, Summarised, Announcing
  <2>. QED
    BY <1>1, <1>3, <2>2, <2>4, OneCallerMoves DEF NextComponent
<1>. QED
  BY <1>2, <1>3

(***************************************************************************)
(* The steps of a check                                                    *)
(***************************************************************************)
LEMMA BeginKeeps ==
  ASSUME MonitorInv, NEW k \in Callers, Begin(k)
  PROVE  MonitorInv'
<1>. DEFINE s == [at[k] EXCEPT !.pc = "resolve"]
<1>1. at[k] \in Place /\ at \in [Callers -> Place] /\ Known(k) /\ at[k].pc = "begin"
  BY AtAPlace DEF Begin, At
<1>2. s \in Place /\ at' = [at EXCEPT ![k] = s] /\ at'[k] = s
  BY <1>1 DEF Begin, GoTo, Place, PCs
<1>3. Known(k)'
  BY <1>1, <1>2 DEF Known, Located, Summarised, Announcing
<1>4. Tables' /\ Counters' /\ recent' \in BOOLEAN /\ AnnouncedWasHeard'
  BY AtAPlace DEF Begin, world, Tables, Counters, AnnouncedWasHeard
<1>. QED
  BY <1>1, <1>2, <1>3, <1>4, OneCallerMoves DEF Begin

LEMMA FinishKeeps ==
  ASSUME MonitorInv, NEW k \in Callers, Finish(k)
  PROVE  MonitorInv'
<1>1. Tables' /\ Counters' /\ recent' = recent /\ AnnouncedWasHeard'
  BY AtAPlace DEF Finish, world, Tables, Counters, AnnouncedWasHeard
<1>. QED
  BY <1>1, MovesOn DEF Finish, At

LEMMA ResolvePinKeeps ==
  ASSUME MonitorInv, NEW k \in Callers, ResolvePin(k)
  PROVE  MonitorInv'
<1>. DEFINE s == [at[k] EXCEPT !.pc = "fetch", !.pin = pin[Current(k)]]
<1>1. at[k] \in Place /\ at \in [Callers -> Place] /\ Known(k) /\ at[k].pc = "resolve"
      /\ at[k].i <= Len(Components)
  BY AtAPlace DEF ResolvePin, At
<1>2. pin[Current(k)] \in MaybeVersion
  BY <1>1, AtAPlace DEF Tables
<1>3. s \in Place /\ at' = [at EXCEPT ![k] = s] /\ at'[k] = s
  BY <1>1, <1>2 DEF ResolvePin, Place, PCs
<1>4. Known(k)'
  BY <1>1, <1>3 DEF Known, Located, Summarised, Announcing
<1>5. Tables' /\ Counters' /\ recent' \in BOOLEAN /\ AnnouncedWasHeard'
  BY AtAPlace DEF ResolvePin, world, database, Tables, Counters, AnnouncedWasHeard
<1>. QED
  BY <1>1, <1>3, <1>4, <1>5, OneCallerMoves DEF ResolvePin

LEMMA FetchKeeps ==
  ASSUME MonitorInv, NEW k \in Callers, Fetch(k)
  PROVE  MonitorInv'
<1>1. at[k] \in Place /\ at \in [Callers -> Place] /\ Known(k) /\ at[k].pc = "fetch"
      /\ at[k].i <= Len(Components) /\ Current(k) \in Component
  BY AtAPlace DEF Fetch, At, Known, Located
<1>2. PICK v \in Newest(live[Current(k)]) :
          at' = [at EXCEPT ![k].pc = "advise", ![k].latest = v]
  BY DEF Fetch
<1>3. v \in Versions
  BY <1>1, <1>2, AtAPlace DEF Tables, Newest
<1>. DEFINE s == [at[k] EXCEPT !.pc = "advise", !.latest = v]
<1>4. s \in Place /\ at' = [at EXCEPT ![k] = s] /\ at'[k] = s
  BY <1>1, <1>2, <1>3 DEF Place, PCs, MaybeVersion
<1>5. Known(k)'
  BY <1>1, <1>3, <1>4 DEF Known, Located, Summarised, Announcing
<1>6. Tables' /\ Counters' /\ recent' \in BOOLEAN /\ AnnouncedWasHeard'
  BY AtAPlace DEF Fetch, world, database, Tables, Counters, AnnouncedWasHeard
<1>. QED
  BY <1>1, <1>4, <1>5, <1>6, OneCallerMoves DEF Fetch

\* A fault leaves the count in its bounds.
LEMMA CountedFault ==
  ASSUME Counters, phase' = phase, changes' = changes,
         UNCHANGED faults \/ \E kind \in FaultKinds : Fault(kind)
  PROVE  Counters'
<1>1. faults' \in 0..MaxFaults
  BY ConstantsAssumption DEF Counters, Fault
<1>. QED
  BY <1>1 DEF Counters

LEMMA FetchFailsKeeps ==
  ASSUME MonitorInv, NEW k \in Callers, FetchFails(k)
  PROVE  MonitorInv'
<1>. DEFINE s == [at[k] EXCEPT !.pc = "failed"]
<1>1. at[k] \in Place /\ at \in [Callers -> Place] /\ Known(k) /\ at[k].pc = "fetch"
  BY AtAPlace DEF FetchFails, At
<1>2. s \in Place /\ at' = [at EXCEPT ![k] = s] /\ at'[k] = s
  BY <1>1 DEF FetchFails, GoTo, Place, PCs
<1>3. Known(k)'
  BY <1>1, <1>2 DEF Known, Located, Summarised, Announcing
<1>4. Counters'
  BY AtAPlace, CountedFault DEF FetchFails, NoAnswer, Fault
<1>5. Tables' /\ recent' \in BOOLEAN /\ AnnouncedWasHeard'
  BY AtAPlace DEF FetchFails, world, database, Tables, AnnouncedWasHeard
<1>. QED
  BY <1>1, <1>2, <1>3, <1>4, <1>5, OneCallerMoves DEF FetchFails

LEMMA AdviseKeeps ==
  ASSUME MonitorInv, NEW k \in Callers, Advise(k)
  PROVE  MonitorInv'
<1>1. at[k] \in Place /\ at \in [Callers -> Place] /\ Known(k) /\ at[k].pc = "advise"
  BY AtAPlace DEF Advise, At
<1>2. PICK l \in SUBSET (Component \X Versions \X Advisories) :
          at' = [at EXCEPT ![k] = [at[k] EXCEPT !.pc = "record", !.left = l]]
  <2>1. CASE at' = [at EXCEPT ![k].pc = "record",
                       ![k].left = {a \in listed : a[1] = Current(k) /\ a[2] = at[k].pin}]
    <3>1. {a \in listed : a[1] = Current(k) /\ a[2] = at[k].pin} \in SUBSET (Component \X Versions \X Advisories)
      BY AtAPlace DEF Tables
    <3>. QED
      BY <1>1, <2>1, <3>1
  <2>2. CASE GoTo(k, "record")
    <3>1. at[k].left \in SUBSET (Component \X Versions \X Advisories)
      BY <1>1 DEF Place
    <3>. QED
      BY <1>1, <2>2, <3>1 DEF GoTo, Place
  <2>. QED
    BY <2>1, <2>2 DEF Advise
<1>. DEFINE s == [at[k] EXCEPT !.pc = "record", !.left = l]
<1>3. s \in Place /\ at'[k] = s
  BY <1>1, <1>2 DEF Place, PCs
<1>4. Known(k)'
  BY <1>1, <1>3 DEF Known, Located, Summarised, Announcing
<1>5. Counters'
  BY AtAPlace, CountedFault DEF Advise, NoAnswer, Fault
<1>6. Tables' /\ recent' \in BOOLEAN /\ AnnouncedWasHeard'
  BY AtAPlace DEF Advise, world, database, Tables, AnnouncedWasHeard
<1>. QED
  BY <1>1, <1>2, <1>3, <1>4, <1>5, <1>6, OneCallerMoves DEF Advise

LEMMA RecordKeeps ==
  ASSUME MonitorInv, NEW k \in Callers, Record(k)
  PROVE  MonitorInv'
<1>1. /\ at[k] \in Place /\ at \in [Callers -> Place] /\ Known(k) /\ at[k].pc = "record"
      /\ Current(k) \in Component /\ at[k].latest \in Versions
  BY AtAPlace DEF Record, At, Known, Located
<1>2. <<Current(k), at[k].latest, "release">> \in Alerts
  BY <1>1 DEF Alerts, Kinds
<1>. DEFINE u == [at[k] EXCEPT !.pc = "upsert", !.alert = <<Current(k), at[k].latest, "release">>]
            m == [at[k] EXCEPT !.pc = "next"]
<1>3. u \in Place /\ m \in Place
  BY <1>1, <1>2 DEF Place, PCs
<1>4. latest' \in [Component -> MaybeVersion]
  BY <1>1, AtAPlace DEF Record, RecordCheck, Tables, MaybeVersion
<1>5. Tables' /\ Counters' /\ recent' \in BOOLEAN /\ AnnouncedWasHeard'
  BY <1>4, AtAPlace DEF Record, world, Tables, Counters, AnnouncedWasHeard
<1>6. CASE at' = [at EXCEPT ![k] = u]
  <2>1. at'[k] = u /\ Current(k)' = Current(k)
    BY <1>1, <1>6 DEF Current
  <2>2. Known(k)'
    BY <1>1, <2>1 DEF Known, Located, Summarised, Announcing
  <2>. QED
    BY <1>1, <1>3, <1>5, <1>6, <2>2, OneCallerMoves DEF Record
<1>7. CASE at' = [at EXCEPT ![k] = m]
  <2>1. at'[k] = m
    BY <1>1, <1>7
  <2>2. Known(k)'
    BY <1>1, <2>1 DEF Known, Located, Summarised, Announcing
  <2>. QED
    BY <1>1, <1>3, <1>5, <1>7, <2>2, OneCallerMoves DEF Record
<1>. QED
  BY <1>6, <1>7 DEF Record, GoTo

LEMMA RecordFailureKeeps ==
  ASSUME MonitorInv, NEW k \in Callers, RecordFailure(k)
  PROVE  MonitorInv'
<1>1. at[k].pc = "failed" /\ at[k].i <= Len(Components)
  BY AtAPlace DEF RecordFailure, At, Known, Located
<1>2. latest' \in [Component -> MaybeVersion]
  BY AtAPlace DEF RecordFailure, RecordCheck, Tables, MaybeVersion
<1>3. Tables' /\ Counters' /\ recent' = recent /\ AnnouncedWasHeard'
  BY <1>2, AtAPlace DEF RecordFailure, world, Tables, Counters, AnnouncedWasHeard
<1>. QED
  BY <1>1, <1>3, MovesOn DEF RecordFailure

\* What a row holds after it is written for one release.
LEMMA RowWritten ==
  ASSUME Tables, NEW c \in Component, NEW v \in Versions, NEW x \in Contexts \cup {Absent, Unsummarised},
         rows' = [rows EXCEPT ![c][v] = x]
  PROVE  rows' \in [Component -> [Versions -> Contexts \cup {Absent, Unsummarised}]] /\ rows'[c][v] = x
  BY DEF Tables

LEMMA UpsertReleaseKeeps ==
  ASSUME MonitorInv, NEW k \in Callers, UpsertRelease(k)
  PROVE  MonitorInv'
<1>. DEFINE s == [at[k] EXCEPT !.pc = "look"]
            row == rows[Current(k)][at[k].latest]
            x == IF row = Absent THEN Unsummarised ELSE row
<1>1. /\ at[k] \in Place /\ at \in [Callers -> Place] /\ Known(k) /\ at[k].pc = "upsert"
      /\ Current(k) \in Component /\ at[k].latest \in Versions
  BY AtAPlace DEF UpsertRelease, At, Known, Located
<1>2. s \in Place /\ at' = [at EXCEPT ![k] = s] /\ at'[k] = s
  BY <1>1 DEF UpsertRelease, GoTo, Place, PCs
<1>3. x \in Contexts \cup {Absent, Unsummarised} /\ x # Absent
  BY <1>1, AtAPlace DEF Tables, Absent, Unsummarised
<1>4. rows' = [rows EXCEPT ![Current(k)][at[k].latest] = x]
  BY DEF UpsertRelease
<1>5. rows' \in [Component -> [Versions -> Contexts \cup {Absent, Unsummarised}]]
      /\ rows'[Current(k)][at[k].latest] = x
  <2>1. Tables /\ Current(k) \in Component /\ at[k].latest \in Versions
    BY <1>1, AtAPlace
  <2>. HIDE DEF x
  <2>. QED
    BY <2>1, <1>3, <1>4, RowWritten
<1>6. HasRow(k)'
  BY <1>1, <1>2, <1>3, <1>5 DEF HasRow, Current
<1>7. s.alert \in Alerts
  BY <1>1 DEF Known, Summarised, Alerts, Kinds
<1>8. Known(k)'
  BY <1>1, <1>2, <1>6, <1>7 DEF Known, Located, Summarised, Announcing
<1>9. Tables' /\ Counters' /\ recent' \in BOOLEAN /\ AnnouncedWasHeard'
  BY <1>5, AtAPlace DEF UpsertRelease, world, Tables, Counters, AnnouncedWasHeard
<1>. QED
  BY <1>1, <1>2, <1>8, <1>9, OneCallerMoves DEF UpsertRelease

LEMMA HasAlertKeeps ==
  ASSUME MonitorInv, NEW k \in Callers, HasAlert(k)
  PROVE  MonitorInv'
<1>. DEFINE a == at[k].alert
            s == [at[k] EXCEPT
                    !.pc = IF a[3] = "release" THEN "summary" ELSE IF a \in alerts THEN "next" ELSE "send",
                    !.alert = IF a \in alerts THEN NoAlert ELSE a]
<1>1. /\ at[k] \in Place /\ at \in [Callers -> Place] /\ Known(k) /\ at[k].pc = "look"
      /\ a \in Alerts
  BY AtAPlace DEF HasAlert, At, Known, Summarised
<1>2. s \in Place
  BY <1>1 DEF Place, PCs
<1>3. at' = [at EXCEPT ![k] = s] /\ at'[k] = s
  BY <1>1 DEF HasAlert
<1>4. UNCHANGED <<rows, alerts, reached>> /\ Current(k)' = Current(k)
  BY <1>1, <1>3 DEF HasAlert, database, Current
<1>5. Located(k)' /\ Summarised(k)'
  BY <1>1, <1>3, <1>4 DEF Known, Located, Summarised, HasRow
<1>6. Announcing(k)'
  BY <1>1, <1>3, <1>4 DEF Known, Announcing
<1>7. Tables' /\ Counters' /\ recent' \in BOOLEAN /\ AnnouncedWasHeard'
  BY AtAPlace DEF HasAlert, world, database, Tables, Counters, AnnouncedWasHeard
<1>. QED
  BY <1>1, <1>2, <1>3, <1>5, <1>6, <1>7, OneCallerMoves DEF HasAlert, Known

LEMMA ReadSummaryKeeps ==
  ASSUME MonitorInv, NEW k \in Callers, ReadSummary(k)
  PROVE  MonitorInv'
<1>. DEFINE ctx == <<notes, at[k].pin>>
            s == [at[k] EXCEPT !.ctx = ctx,
                    !.pc = IF rows[Current(k)][at[k].latest] = ctx THEN AfterSummary(k) ELSE "ask"]
<1>1. /\ at[k] \in Place /\ at \in [Callers -> Place] /\ Known(k) /\ at[k].pc = "summary"
  BY AtAPlace DEF ReadSummary, At
<1>2. ctx \in Contexts /\ ctx \in (0..MaxNotes) \X MaybeVersion
  <2>1. notes \in 1..MaxNotes /\ notes \in 0..MaxNotes
    BY AtAPlace, ConstantsAssumption DEF Tables
  <2>2. at[k].pin \in MaybeVersion
    BY <1>1 DEF Place
  <2>. QED
    BY <2>1, <2>2 DEF Contexts
<1>3. s \in Place
  <2>. HIDE DEF ctx
  <2>. QED
    BY <1>1, <1>2 DEF Place, PCs, AfterSummary
<1>4. at' = [at EXCEPT ![k] = s] /\ at'[k] = s
  BY <1>1 DEF ReadSummary
<1>5. UNCHANGED <<rows, alerts, reached>> /\ Current(k)' = Current(k)
  <2>1. UNCHANGED <<rows, alerts, reached>>
    BY DEF ReadSummary, database
  <2>2. at'[k].i = at[k].i
    BY <1>1, <1>4 DEF Place
  <2>. QED
    BY <2>1, <2>2 DEF Current
<1>6. Located(k)' /\ Summarised(k)'
  <2>. HIDE DEF ctx
  <2>. QED
    BY <1>1, <1>2, <1>4, <1>5 DEF Known, Located, Summarised, HasRow, AfterSummary
<1>7. Announcing(k)'
  BY <1>1, <1>4, <1>5 DEF Known, Announcing, AfterSummary
<1>8. Tables' /\ Counters' /\ recent' \in BOOLEAN /\ AnnouncedWasHeard'
  BY AtAPlace DEF ReadSummary, world, database, Tables, Counters, AnnouncedWasHeard
<1>. QED
  BY <1>1, <1>3, <1>4, <1>6, <1>7, <1>8, OneCallerMoves DEF ReadSummary, Known

LEMMA AskLLMKeeps ==
  ASSUME MonitorInv, NEW k \in Callers, AskLLM(k)
  PROVE  MonitorInv'
<1>1. /\ at[k] \in Place /\ at \in [Callers -> Place] /\ Known(k) /\ at[k].pc = "ask"
  BY AtAPlace DEF AskLLM, At
<1>2. PICK pc \in {"keep", AfterSummary(k)} : GoTo(k, pc)
  BY DEF AskLLM
<1>. DEFINE s == [at[k] EXCEPT !.pc = pc]
<1>3. s \in Place /\ at' = [at EXCEPT ![k] = s] /\ at'[k] = s
  BY <1>1, <1>2 DEF GoTo, Place, PCs, AfterSummary
<1>4. UNCHANGED <<rows, alerts, reached>> /\ Current(k)' = Current(k)
  BY <1>1, <1>3 DEF AskLLM, database, Current
<1>5. Known(k)'
  BY <1>1, <1>2, <1>3, <1>4 DEF Known, Located, Summarised, Announcing, HasRow, AfterSummary
<1>6. Tables' /\ Counters' /\ recent' \in BOOLEAN /\ AnnouncedWasHeard'
  BY AtAPlace DEF AskLLM, world, database, Tables, Counters, AnnouncedWasHeard
<1>. QED
  BY <1>1, <1>3, <1>5, <1>6, OneCallerMoves DEF AskLLM

LEMMA SetSummaryKeeps ==
  ASSUME MonitorInv, NEW k \in Callers, SetSummary(k)
  PROVE  MonitorInv'
<1>. DEFINE s == [at[k] EXCEPT !.pc = AfterSummary(k)]
            x == IF rows[Current(k)][at[k].latest] = Absent THEN Absent ELSE at[k].ctx
<1>1. /\ at[k] \in Place /\ at \in [Callers -> Place] /\ Known(k) /\ at[k].pc = "keep"
      /\ Current(k) \in Component /\ at[k].latest \in Versions /\ at[k].ctx \in Contexts
  BY AtAPlace DEF SetSummary, At, Known, Located, Summarised
<1>2. s \in Place /\ at' = [at EXCEPT ![k] = s] /\ at'[k] = s
  BY <1>1 DEF SetSummary, GoTo, Place, PCs, AfterSummary
<1>3. rows' = [rows EXCEPT ![Current(k)][at[k].latest] = x] /\ x \in Contexts \cup {Absent, Unsummarised}
  BY <1>1 DEF SetSummary
<1>4. rows' \in [Component -> [Versions -> Contexts \cup {Absent, Unsummarised}]]
  <2>1. Tables
    BY AtAPlace
  <2>. HIDE DEF x
  <2>. QED
    BY <1>1, <1>3, <2>1, RowWritten
<1>5. UNCHANGED <<alerts, reached>>
  BY DEF SetSummary
<1>6. Known(k)'
  BY <1>1, <1>2, <1>5 DEF Known, Located, Summarised, Announcing, AfterSummary
<1>7. Tables' /\ Counters' /\ recent' \in BOOLEAN /\ AnnouncedWasHeard'
  BY <1>4, AtAPlace DEF SetSummary, world, Tables, Counters, AnnouncedWasHeard
<1>. QED
  BY <1>1, <1>2, <1>6, <1>7, OneCallerMoves DEF SetSummary

LEMMA SendKeeps ==
  ASSUME MonitorInv, NEW k \in Callers, Send(k)
  PROVE  MonitorInv'
<1>1. /\ at[k] \in Place /\ at \in [Callers -> Place] /\ Known(k) /\ at[k].pc = "send"
      /\ at[k].alert \in Alerts /\ at[k].n <= Len(Notifiers)
  BY AtAPlace DEF Send, At, Known, Announcing
<1>2. at[k].n \in 1..Len(Notifiers) /\ at[k].n + 1 \in 1..(Len(Notifiers) + 1)
  BY <1>1, ConstantsAssumption DEF Place
<1>3. reached \in SUBSET Alerts /\ reached' \in SUBSET Alerts /\ reached \subseteq reached'
  BY <1>1, AtAPlace DEF Tables, Send
<1>4. PICK h \in SUBSET (1..Len(Notifiers)) :
          /\ at' = [at EXCEPT ![k] = [at[k] EXCEPT !.n = at[k].n + 1, !.heard = h]]
          /\ h # {} => at[k].alert \in reached'
  <2>1. at[k].heard \in SUBSET (1..Len(Notifiers))
    BY <1>1 DEF Place
  <2>2. at[k].heard # {} => at[k].alert \in reached
    BY <1>1 DEF Known, Announcing
  <2>3. CASE /\ reached' = reached \cup {at[k].alert}
             /\ at' = [at EXCEPT ![k].n = at[k].n + 1, ![k].heard = @ \cup {at[k].n}]
    <3>. DEFINE h == at[k].heard \cup {at[k].n}
    <3>1. h \in SUBSET (1..Len(Notifiers))
      BY <1>2, <2>1
    <3>2. at' = [at EXCEPT ![k] = [at[k] EXCEPT !.n = at[k].n + 1, !.heard = h]]
      BY <1>1, <2>3
    <3>3. at[k].alert \in reached'
      BY <2>3
    <3>. QED
      BY <3>1, <3>2, <3>3
  <2>4. CASE at' = [at EXCEPT ![k].n = at[k].n + 1]
    <3>1. at' = [at EXCEPT ![k] = [at[k] EXCEPT !.n = at[k].n + 1, !.heard = at[k].heard]]
      BY <1>1, <2>4 DEF Place
    <3>. QED
      BY <3>1, <1>3, <2>1, <2>2
  <2>. QED
    BY <2>3, <2>4 DEF Send
<1>. DEFINE s == [at[k] EXCEPT !.n = at[k].n + 1, !.heard = h]
<1>5. s \in Place /\ at'[k] = s
  BY <1>1, <1>2, <1>4 DEF Place
<1>6. UNCHANGED alerts
  BY DEF Send, database
<1>7. Known(k)'
  BY <1>1, <1>4, <1>5, <1>6 DEF Known, Located, Summarised, Announcing
<1>8. Counters'
  BY AtAPlace, CountedFault DEF Send, Fault
<1>9. Tables' /\ recent' \in BOOLEAN /\ AnnouncedWasHeard'
  BY <1>3, AtAPlace DEF Send, world, database, Tables, AnnouncedWasHeard
<1>. QED
  BY <1>1, <1>4, <1>5, <1>7, <1>8, <1>9, OneCallerMoves DEF Send

LEMMA DeliverKeeps ==
  ASSUME MonitorInv, NEW k \in Callers, Deliver(k)
  PROVE  MonitorInv'
<1>. DEFINE s == [at[k] EXCEPT !.pc = "next"]
<1>1. /\ at[k] \in Place /\ at \in [Callers -> Place] /\ Known(k) /\ at[k].pc = "send"
      /\ at[k].alert \in Alerts /\ (at[k].heard # {} => at[k].alert \in reached)
  BY AtAPlace DEF Deliver, At, Known, Announcing
<1>2. s \in Place /\ at' = [at EXCEPT ![k] = s] /\ at'[k] = s
  BY <1>1 DEF Deliver, GoTo, Place, PCs
<1>3. Known(k)'
  BY <1>1, <1>2 DEF Known, Located, Summarised, Announcing
<1>4. AnnouncedWasHeard'
  BY <1>1, AtAPlace DEF Deliver, AnnouncedWasHeard
<1>5. Tables' /\ Counters' /\ recent' \in BOOLEAN
  BY <1>1, AtAPlace DEF Deliver, world, Tables, Counters
<1>. QED
  BY <1>1, <1>2, <1>3, <1>4, <1>5, OneCallerMoves DEF Deliver

LEMMA NextAdvisoryKeeps ==
  ASSUME MonitorInv, NEW k \in Callers, NextAdvisory(k)
  PROVE  MonitorInv'
<1>1. /\ at[k] \in Place /\ at \in [Callers -> Place] /\ Known(k) /\ at[k].pc = "next"
      /\ at[k].i <= Len(Components) /\ at[k].latest \in Versions
  BY AtAPlace DEF NextAdvisory, At, Known, Located
<1>2. Tables' /\ Counters' /\ recent' = recent /\ recent \in BOOLEAN /\ AnnouncedWasHeard'
  BY AtAPlace DEF NextAdvisory, world, database, Tables, Counters, AnnouncedWasHeard
<1>3. CASE NextComponent(k)
  BY <1>1, <1>2, <1>3, MovesOn DEF NextAdvisory
<1>4. CASE \E a \in at[k].left :
              at' = [at EXCEPT ![k].pc = "look", ![k].alert = a, ![k].left = @ \ {a},
                               ![k].n = 1, ![k].heard = {}]
  <2>1. PICK a \in at[k].left :
              at' = [at EXCEPT ![k].pc = "look", ![k].alert = a, ![k].left = @ \ {a},
                               ![k].n = 1, ![k].heard = {}]
    BY <1>4
  <2>2. at[k].left \in SUBSET (Component \X Versions \X Advisories)
    BY <1>1 DEF Place
  <2>3. a \in Alerts /\ a[3] # "release"
    BY <2>2, ConstantsAssumption DEF Alerts, Kinds
  <2>4. 1 \in 1..(Len(Notifiers) + 1)
    BY ConstantsAssumption
  <2>. DEFINE s == [at[k] EXCEPT !.pc = "look", !.alert = a, !.left = @ \ {a}, !.n = 1, !.heard = {}]
  <2>5. s \in Place
    BY <1>1, <2>2, <2>3, <2>4 DEF Place, PCs
  <2>6. at' = [at EXCEPT ![k] = s] /\ at'[k] = s
    BY <1>1, <2>1
  <2>7. Known(k)'
    BY <1>1, <2>3, <2>6 DEF Known, Located, Summarised, Announcing
  <2>. QED
    BY <1>1, <1>2, <2>5, <2>6, <2>7, OneCallerMoves DEF NextAdvisory
<1>. QED
  BY <1>3, <1>4 DEF NextAdvisory

LEMMA StoreFailsKeeps ==
  ASSUME MonitorInv, NEW k \in Callers, StoreFails(k)
  PROVE  MonitorInv'
<1>1. Known(k) /\ at[k].pc # "idle"
  BY AtAPlace DEF StoreFails
<1>2. \/ NextComponent(k) /\ lock' = lock /\ at[k].i <= Len(Components)
     \/ Leave(k)
  BY <1>1 DEF StoreFails, Known, Located
<1>3. Counters'
  BY AtAPlace, CountedFault DEF StoreFails, Fault
<1>4. Tables' /\ recent' = recent /\ AnnouncedWasHeard'
  BY AtAPlace DEF StoreFails, world, database, Tables, AnnouncedWasHeard
<1>. QED
  BY <1>1, <1>2, <1>3, <1>4, MovesOn

LEMMA StepKeeps ==
  ASSUME MonitorInv, NEW k \in Callers, Step(k)
  PROVE  MonitorInv'
  BY BeginKeeps, FinishKeeps, ResolvePinKeeps, FetchKeeps, FetchFailsKeeps, AdviseKeeps, RecordKeeps,
     RecordFailureKeeps, UpsertReleaseKeeps, HasAlertKeeps, ReadSummaryKeeps, AskLLMKeeps,
     SetSummaryKeeps, SendKeeps, DeliverKeeps, NextAdvisoryKeeps, StoreFailsKeeps DEF Step

(***************************************************************************)
(* The steps around a check                                                *)
(***************************************************************************)
\* Nothing moves but the process's flags and what the world offers.
LEMMA NoCallerMoves ==
  ASSUME MonitorInv, UNCHANGED <<rows, alerts, reached, lock, at>>, Tables', Counters', recent' \in BOOLEAN
  PROVE  MonitorInv'
<1>1. TypeOK'
  BY TypeParts DEF MonitorInv, TypeOK, Tables, Counters
<1>2. LockIsHeld' /\ AnnouncedWasHeard'
  BY DEF MonitorInv, LockIsHeld, AnnouncedWasHeard
<1>3. \A k \in Callers : Known(k)'
  BY DEF MonitorInv, Known, Located, Summarised, Announcing, HasRow, Current
<1>. QED
  BY <1>1, <1>2, <1>3 DEF MonitorInv

\* A caller that gets the lock starts a check.
LEMMA AcquireKeeps ==
  ASSUME MonitorInv, NEW k \in Callers, at[k].pc = "idle", Acquire(k), recent' \in BOOLEAN,
         UNCHANGED <<world, database, phase, reached, faults, changes>>
  PROVE  MonitorInv'
<1>. DEFINE s == [Idle EXCEPT !.pc = "begin"]
<1>1. at \in [Callers -> Place] /\ s \in Place /\ s.pc = "begin" /\ s.heard = {}
  BY AtAPlace, IdleIsAPlace DEF Idle, Place, PCs
<1>2. at' \in [Callers -> Place] /\ at'[k] = s /\ \A j \in Callers \ {k} : at'[j] = at[j]
  BY <1>1 DEF Acquire
<1>3. \A j \in Callers : at[j].pc = "idle" /\ at[j].heard = {}
  BY DEF MonitorInv, LockIsHeld, Acquire, Nobody, Callers, Known, Announcing
<1>4. LockIsHeld' /\ lock' \in Callers \cup {Nobody}
  BY <1>2, <1>3 DEF LockIsHeld, Acquire
<1>5. \A j \in Callers : Known(j)'
  BY <1>1, <1>2, <1>3 DEF Known, Located, Summarised, Announcing
<1>6. Tables' /\ Counters' /\ AnnouncedWasHeard'
  BY AtAPlace DEF world, database, Tables, Counters, AnnouncedWasHeard
<1>7. TypeOK'
  BY <1>2, <1>4, <1>6 DEF TypeOK, Tables, Counters
<1>. QED
  BY <1>4, <1>5, <1>6, <1>7 DEF MonitorInv

LEMMA GoneKeeps ==
  ASSUME MonitorInv, Gone, Counters'
  PROVE  MonitorInv'
<1>1. at' \in [Callers -> Place] /\ \A k \in Callers : at'[k] = Idle
  BY IdleIsAPlace DEF Gone
<1>2. LockIsHeld' /\ \A k \in Callers : Known(k)'
  BY <1>1 DEF LockIsHeld, Idle, Known, Located, Summarised, Announcing
<1>3. Tables' /\ AnnouncedWasHeard'
  BY TypeParts DEF MonitorInv, Gone, world, database, Tables, AnnouncedWasHeard
<1>4. recent' \in BOOLEAN /\ lock' \in Callers \cup {Nobody}
  BY DEF Gone
<1>5. TypeOK'
  BY <1>1, <1>3, <1>4 DEF TypeOK, Tables, Counters
<1>. QED
  BY <1>2, <1>3, <1>5 DEF MonitorInv

LEMMA ProcessKeeps ==
  ASSUME MonitorInv, Crash \/ Stop \/ Exit \/ Start
  PROVE  MonitorInv'
<1>1. Tables /\ Counters /\ recent \in BOOLEAN
  BY TypeParts DEF MonitorInv
<1>2. faults' \in 0..MaxFaults /\ phase' \in {"up", "stopping", "down"} /\ changes' \in 0..MaxChanges
  BY <1>1, ConstantsAssumption DEF Counters, Crash, Stop, Exit, Start, Gone, Fault
<1>3. Counters'
  BY <1>2 DEF Counters
<1>4. CASE Gone
  BY <1>3, <1>4, GoneKeeps
<1>5. CASE Stop \/ Start
  <2>1. UNCHANGED <<world, database, lock, at, reached, recent>>
    BY <1>5 DEF Stop, Start
  <2>2. Tables' /\ recent' \in BOOLEAN
    BY <1>1, <2>1 DEF world, database, Tables
  <2>. QED
    BY <1>3, <2>1, <2>2, NoCallerMoves DEF database
<1>. QED
  BY <1>4, <1>5 DEF Crash, Exit

LEMMA ChangeKeeps ==
  ASSUME MonitorInv, Change
  PROVE  MonitorInv'
<1>1. Tables /\ Counters /\ recent \in BOOLEAN
  BY TypeParts DEF MonitorInv
<1>2. PICK c \in Component, v \in Versions :
           \/ live' = [live EXCEPT ![c] = @ \cup {v}] /\ UNCHANGED <<listed, pin, notes>>
           \/ live' = [live EXCEPT ![c] = @ \ {v}] /\ UNCHANGED <<listed, pin, notes>>
           \/ pin' = [pin EXCEPT ![c] = v] /\ UNCHANGED <<live, listed, notes>>
           \/ \E a \in Advisories :
                  /\ listed' \in {listed \cup {<<c, v, a>>}, listed \ {<<c, v, a>>}}
                  /\ UNCHANGED <<live, pin, notes>>
           \/ notes < MaxNotes /\ notes' = notes + 1 /\ UNCHANGED <<live, listed, pin>>
  BY DEF Change
<1>3. live' \in [Component -> SUBSET Versions]
  BY <1>1, <1>2 DEF Tables
<1>4. pin' \in [Component -> MaybeVersion]
  BY <1>1, <1>2 DEF Tables, MaybeVersion
<1>5. listed' \in SUBSET (Component \X Versions \X Advisories)
  BY <1>1, <1>2 DEF Tables
<1>6. notes' \in 1..MaxNotes
  BY <1>1, <1>2, ConstantsAssumption DEF Tables
<1>7. changes' \in 0..MaxChanges /\ faults' = faults /\ phase' = phase
  BY <1>1, ConstantsAssumption DEF Change, Counters, process
<1>8. Tables' /\ Counters' /\ recent' \in BOOLEAN
  BY <1>1, <1>3, <1>4, <1>5, <1>6, <1>7 DEF Change, database, process, Tables, Counters
<1>. QED
  BY <1>8, NoCallerMoves DEF Change, database, process

LEMMA InitEstablishes ==
  ASSUME Init
  PROVE  MonitorInv
<1>1. Tables /\ Counters
  BY ConstantsAssumption DEF Init, Tables, Counters, MaybeVersion
<1>2. at \in [Callers -> Place] /\ \A k \in Callers : at[k] = Idle
  BY IdleIsAPlace DEF Init
<1>3. LockIsHeld /\ \A k \in Callers : Known(k)
  BY <1>2 DEF LockIsHeld, Idle, Known, Located, Summarised, Announcing
<1>4. AnnouncedWasHeard
  BY DEF Init, AnnouncedWasHeard
<1>5. lock \in Callers \cup {Nobody} /\ recent \in BOOLEAN
  BY DEF Init
<1>6. TypeOK
  BY <1>1, <1>2, <1>5 DEF TypeOK, Tables, Counters
<1>. QED
  BY <1>3, <1>4, <1>6 DEF MonitorInv

LEMMA NextKeeps ==
  ASSUME MonitorInv, [Next]_vars
  PROVE  MonitorInv'
<1>1. Tables /\ Counters /\ recent \in BOOLEAN
  BY TypeParts DEF MonitorInv
<1>2. CASE ScheduledCheck
  <2>1. recent' \in BOOLEAN
    BY <1>1, <1>2 DEF ScheduledCheck
  <2>. QED
    BY <1>2, <2>1, AcquireKeeps DEF ScheduledCheck, Callers
<1>3. CASE ManualCheck
  <2>1. recent' \in BOOLEAN
    BY <1>3 DEF ManualCheck
  <2>2. CASE Acquire("manual")
    BY <1>3, <2>1, <2>2, AcquireKeeps DEF ManualCheck, Callers
  <2>3. CASE UNCHANGED <<lock, at>>
    <3>1. Tables' /\ Counters'
      BY <1>1, <1>3 DEF ManualCheck, world, database, Tables, Counters
    <3>. QED
      BY <1>3, <2>1, <2>3, <3>1, NoCallerMoves DEF ManualCheck, database
  <2>. QED
    BY <1>3, <2>2, <2>3 DEF ManualCheck
<1>4. CASE IntervalPasses
  <2>1. Tables' /\ Counters' /\ recent' \in BOOLEAN
    BY <1>1, <1>4 DEF IntervalPasses, world, database, Tables, Counters
  <2>. QED
    BY <1>4, <2>1, NoCallerMoves DEF IntervalPasses, database
<1>5. CASE UNCHANGED vars
  <2>1. Tables' /\ Counters' /\ recent' \in BOOLEAN
    BY <1>1, <1>5 DEF vars, world, database, process, Tables, Counters
  <2>. QED
    BY <1>5, <2>1, NoCallerMoves DEF vars, database, process
<1>. QED
  BY <1>2, <1>3, <1>4, <1>5, StepKeeps, ProcessKeeps, ChangeKeeps DEF Next

(***************************************************************************)
(* The theorems                                                            *)
(***************************************************************************)
\* MonitorInv holds in every state: what a step of a check relies on is still
\* so when it is made, whatever the other caller, the registries and the
\* process do in between (monitor.py:84-91).
THEOREM MonitorInvariantHolds == Spec => []MonitorInv
<1>1. Init => MonitorInv
  BY InitEstablishes
<1>2. MonitorInv /\ [Next]_vars => MonitorInv'
  BY NextKeeps
<1>. QED
  BY <1>1, <1>2, PTL DEF Spec

\* The variables hold values of their types.
THEOREM MonitorTypeCorrect == Spec => []TypeOK
<1>1. MonitorInv => TypeOK
  BY DEF MonitorInv
<1>. QED
  BY <1>1, MonitorInvariantHolds, PTL

\* What the table holds as announced is never sent again, by any check.
THEOREM NeverAnnouncedAgain == Spec => []NeverSentAgain
<1>1. MonitorInv => NeverSentAgain
  BY DEF MonitorInv, Known, Announcing, NeverSentAgain
<1>. QED
  BY <1>1, MonitorInvariantHolds, PTL

\* An announced alert was accepted by a notifier, unless none is configured.
THEOREM AnnouncedMeansHeard == Spec => []AnnouncedWasHeard
<1>1. MonitorInv => AnnouncedWasHeard
  BY DEF MonitorInv
<1>. QED
  BY <1>1, MonitorInvariantHolds, PTL

\* The LLM is asked only for what is not kept, with a row to keep it in.
THEOREM NoSummaryTwice == Spec => []NeverPaysTwice
<1>1. MonitorInv => NeverPaysTwice
  BY DEF MonitorInv, Known, Summarised, HasRow, NeverPaysTwice
<1>. QED
  BY <1>1, MonitorInvariantHolds, PTL
=============================================================================
