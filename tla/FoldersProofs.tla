----------------------------- MODULE FoldersProofs -----------------------------
(* What TLAPS proves of Folders, for any names, folders, drives and files,  *)
(* any number of requests at once, and any loads.                           *)
EXTENDS Folders, TLAPS

(***************************************************************************)
(* What a call carries: the name the owner gave, and one value of _specs.  *)
(* And what is stored of the app.                                          *)
(***************************************************************************)
Calls == {c \in Call : /\ c.op \in {"add", "remove", "options"} => c.name \in Names
                       /\ \A s \in c.loaded : c.loaded = {s}}

AppsAreTheApps == \A n \in Names : apps[n] = NoSource \/ apps[n].app

(***************************************************************************)
(* Looks at the drives.  Until the first look is recorded nothing is seen, *)
(* no look has gone on to offer, and one that read the table finds none;   *)
(* what is known was listed by a look before that record.                  *)
(***************************************************************************)
MarkIsTheLook ==
  /\ looked = marked
  /\ ~marked => /\ \A d \in Drives : seen[d] = "no"
                /\ \A o \in Owners : thread[o].at \notin {"more", "offer"}

LooksAreEarly ==
  \A o \in Owners : /\ thread[o].at = "look" /\ ~thread[o].early => marked
                    /\ thread[o].at = "first" => thread[o].early

DrivesAreTold ==
  /\ \A d \in firstLook : seen[d] = "known"
  /\ \A d \in offered : seen[d] \in {"new", "dismissed"}
  /\ \A d \in Drives : seen[d] = "known" => d \in known

LookInv == MarkIsTheLook /\ LooksAreEarly /\ DrivesAreTold

(***************************************************************************)
(* A scan: what stayed in the folder is there, and was found where the     *)
(* scan has been, unless a listing failed.                                 *)
(***************************************************************************)
StayedIsThere ==
  \A n \in Names : \A f \in job[n].stayed : job[n].root \in Places /\ f \in Files /\ disk[job[n].root][f] # "no"

StayedIsFound ==
  \A n \in Names :
    job[n].complete => /\ thread[n].at = "sub" => job[n].stayed \cap TopFiles \subseteq job[n].found
                       /\ thread[n].at = "prune" => job[n].stayed \subseteq job[n].found

ScanInv == StayedIsThere /\ StayedIsFound

(***************************************************************************)
(* Rows: those a scan found are of its folder, those it queued are still   *)
(* what it queued or forgotten; and the text of a row is the one it hashes.*)
(***************************************************************************)
Walking(n) == thread[n].at \in {"flag", "top", "sub", "prune"}

RootsAreSet == \A n \in Names : Walking(n) \/ thread[n].at = "index" => job[n].root \in Places

FoundIsOfTheRoot ==
  \A n \in Names : Walking(n) =>
    /\ n \notin settled
    /\ \A f \in job[n].found : Live(rows[n][f]) => rows[n][f].of = job[n].root

QueueIsAsRead ==
  \A n \in Names : thread[n].at = "index" =>
    /\ \A q \in job[n].todo : q.row.status = "pending" /\ rows[n][q.file] \in {q.row, NoRow}
    /\ \A q, r \in job[n].todo : q.file = r.file => q = r

TextIsHashed == \A n \in Names, f \in Files : rows[n][f].hash # None => chunks[n][f] \in {None, rows[n][f].hash}

TextIsOfTheRow ==
  \A n \in Names, f \in Files :
    rows[n][f].status = "indexed" /\ <<n, f>> \notin misread => chunks[n][f] \in {None, rows[n][f].of}

SettledIsOfTheFolder ==
  \A n \in settled, f \in Files : Live(rows[n][f]) => rows[n][f].of = Connected[n].place

RowInv == FoundIsOfTheRoot /\ QueueIsAsRead /\ TextIsHashed /\ TextIsOfTheRow /\ SettledIsOfTheFolder

(***************************************************************************)
(* Types, by what the variables are about.                                 *)
(***************************************************************************)
WorldOK ==
  /\ disk \in [Places -> [Files -> {"no", "online", "here"}]]
  /\ mounted \in SUBSET Places /\ plugged \in SUBSET Drives /\ others \in BOOLEAN

ChoicesOK == apps \in Sources /\ removed \in SUBSET Names /\ AppsAreTheApps

LedgerOK ==
  /\ rows \in [Names -> [Files -> Row]]
  /\ \A n \in Names, f \in Files : rows[n][f] = NoRow \/ rows[n][f].of # None
  /\ chunks \in [Names -> [Files -> Places \cup {None}]]
  /\ misread \in SUBSET (Names \X Files)

DrivesOK ==
  /\ seen \in [Drives -> {"no", "known", "new", "dismissed"}] /\ marked \in BOOLEAN
  /\ looked \in BOOLEAN /\ firstLook \in SUBSET Drives /\ known \in SUBSET Drives /\ offered \in SUBSET Drives

MemoryOK ==
  /\ \A s \in specs : s \in Sources /\ specs = {s}
  /\ targets \in [Names -> Places \cup {None}]
  /\ overtaken \in BOOLEAN

ThreadsOK == thread \in [Threads -> Calls]

JobsOK == job \in [Names -> Scan]

RestOK == left \in [Bounds -> 0..MaxLoad] /\ settled \in SUBSET Names

TypeInv == WorldOK /\ ChoicesOK /\ LedgerOK /\ DrivesOK /\ MemoryOK /\ ThreadsOK /\ JobsOK /\ RestOK

LEMMA TypeInvTypes == TypeInv => TypeOK
BY DEF TypeInv, TypeOK, WorldOK, ChoicesOK, LedgerOK, DrivesOK, MemoryOK, ThreadsOK, Calls, JobsOK,
  RestOK

\* What does not change keeps its types.
LEMMA TypesStay ==
  ASSUME TypeInv
  PROVE  /\ UNCHANGED world => WorldOK'
         /\ UNCHANGED choices => ChoicesOK'
         /\ UNCHANGED ledger => LedgerOK'
         /\ UNCHANGED drives => DrivesOK'
         /\ UNCHANGED memory => MemoryOK'
         /\ UNCHANGED thread => ThreadsOK'
         /\ UNCHANGED job => JobsOK'
         /\ UNCHANGED <<left, settled>> => RestOK'
<1>1. UNCHANGED world => WorldOK'
  BY DEF TypeInv, WorldOK, world
<1>2. UNCHANGED choices => ChoicesOK'
  BY DEF TypeInv, ChoicesOK, choices, AppsAreTheApps
<1>3. UNCHANGED ledger => LedgerOK'
  BY DEF TypeInv, LedgerOK, ledger
<1>4. UNCHANGED drives => DrivesOK'
  BY DEF TypeInv, DrivesOK, drives
<1>5. UNCHANGED memory => MemoryOK'
  BY DEF TypeInv, MemoryOK, memory
<1>6. UNCHANGED thread => ThreadsOK'
  BY DEF TypeInv, ThreadsOK
<1>7. UNCHANGED job => JobsOK'
  BY DEF TypeInv, JobsOK
<1>8. UNCHANGED <<left, settled>> => RestOK'
  BY DEF TypeInv, RestOK
<1> QED
  BY <1>1, <1>2, <1>3, <1>4, <1>5, <1>6, <1>7, <1>8

Steps == {"idle", "check", "store", "reset", "compute", "publish", "after", "browse", "look", "first", "more", "offer", "missing",
          "open", "flag", "top", "sub", "prune", "index"}

LEMMA IdleIsACall == Idle \in Calls
BY DEF Idle, Call, Calls

LEMMA CallTyped ==
  ASSUME NEW t \in Threads, NEW c \in Calls, ThreadsOK, thread' = [thread EXCEPT ![t] = c]
  PROVE  ThreadsOK'
BY DEF ThreadsOK

LEMMA GotoTyped ==
  ASSUME NEW t \in Threads, NEW s \in Steps, ThreadsOK, Goto(t, s)
  PROVE  ThreadsOK'
<1> DEFINE c == [thread[t] EXCEPT !.at = s, !.got = FALSE]
<1>1. thread[t] \in Calls
  BY DEF ThreadsOK
<1>2. c \in Call /\ c.op = thread[t].op /\ c.name = thread[t].name /\ c.loaded = thread[t].loaded
  BY <1>1 DEF Call, Calls, Steps
<1>3. thread' = [thread EXCEPT ![t] = c]
  BY DEF Goto
<1>4. c \in Calls
  BY <1>1, <1>2 DEF Calls
<1> HIDE DEF c
<1> QED
  BY <1>3, <1>4, CallTyped

LEMMA DoneTyped ==
  ASSUME NEW t \in Threads, ThreadsOK, Done(t)
  PROVE  ThreadsOK'
BY IdleIsACall, CallTyped DEF Done

LEMMA UseTyped ==
  ASSUME NEW b \in Bounds, RestOK, Use(b), settled' \in SUBSET Names
  PROVE  RestOK'
BY FoldersAssumption DEF RestOK, Use

LEMMA ConnectedTyped == ASSUME ChoicesOK PROVE Connected \in Sources
BY FoldersAssumption DEF ChoicesOK, Connected, Sources, Source, NoSource

LEMMA NoRowTyped == NoRow \in Row
BY DEF NoRow, Row

LEMMA NoJobTyped == NoJob \in Scan
BY DEF NoJob, Scan

LEMMA InitTypeInv == Init => TypeInv
<1> SUFFICES ASSUME Init PROVE TypeInv
  OBVIOUS
<1>1. WorldOK
  <2>1. PICK load \in Loads : others = load.others
    BY DEF Init
  <2> QED
    BY <2>1, FoldersAssumption DEF Init, WorldOK
<1>2. ChoicesOK /\ RestOK
  <2>1. PICK load \in Loads : apps = load.apps /\ left = load.left
    BY DEF Init
  <2> QED
    BY <2>1, FoldersAssumption DEF Init, ChoicesOK, RestOK, AppsAreTheApps
<1>3. LedgerOK
  BY NoRowTyped DEF Init, LedgerOK
<1>4. DrivesOK /\ MemoryOK
  BY DEF Init, DrivesOK, MemoryOK
<1>5. ThreadsOK
  BY IdleIsACall DEF Init, ThreadsOK
<1>6. JobsOK
  BY NoJobTyped DEF Init, JobsOK
<1> QED
  BY <1>1, <1>2, <1>3, <1>4, <1>5, <1>6 DEF TypeInv

(***************************************************************************)
(* The world, and what is connected as a thread reads it.                  *)
(***************************************************************************)
LEMMA WorldStepTypes ==
  ASSUME TypeInv,
         \/ \E d \in Drives : Plug(d) \/ Dismiss(d)
         \/ Litter
         \/ \E p \in Places : Mount(p) \/ \E f \in Files : Edit(p, f)
  PROVE  TypeInv'
<1> USE TypesStay
<1>1. ASSUME NEW d \in Drives, Plug(d) PROVE TypeInv'
  <2>1. WorldOK' /\ RestOK'
    BY <1>1, UseTyped DEF Plug, TypeInv, WorldOK, RestOK, Bounds
  <2> QED
    BY <1>1, <2>1 DEF Plug, TypeInv
<1>2. ASSUME NEW d \in Drives, Dismiss(d) PROVE TypeInv'
  <2>1. DrivesOK' /\ RestOK'
    BY <1>2, UseTyped DEF Dismiss, TypeInv, DrivesOK, RestOK, Bounds
  <2> QED
    BY <1>2, <2>1 DEF Dismiss, TypeInv
<1>3. ASSUME NEW p \in Places, Mount(p) PROVE TypeInv'
  <2>1. WorldOK' /\ RestOK'
    BY <1>3, UseTyped DEF Mount, TypeInv, WorldOK, RestOK, Bounds
  <2> QED
    BY <1>3, <2>1 DEF Mount, TypeInv
<1>4. ASSUME NEW p \in Places, NEW f \in Files, Edit(p, f) PROVE TypeInv'
  <2>1. WorldOK'
    BY <1>4 DEF Edit, TypeInv, WorldOK
  <2>2. RestOK'
    BY <1>4, UseTyped DEF Edit, TypeInv, RestOK, Bounds
  <2>3. JobsOK'
    <3>1. ASSUME NEW n \in Names PROVE [job[n] EXCEPT !.stayed = @ \ {f}] \in Scan
      BY DEF TypeInv, JobsOK, Scan
    <3> QED
      BY <1>4, <3>1 DEF Edit, TypeInv, JobsOK
  <2> QED
    BY <1>4, <2>1, <2>2, <2>3 DEF Edit, TypeInv
<1>5. CASE Litter
  <2>1. WorldOK' /\ RestOK'
    BY <1>5, UseTyped DEF Litter, TypeInv, WorldOK, RestOK, Bounds
  <2> QED
    BY <1>5, <2>1 DEF Litter, TypeInv
<1> QED
  BY <1>1, <1>2, <1>3, <1>4, <1>5

LEMMA ReadingTypes ==
  ASSUME TypeInv, NEW t \in Threads, Load(t) \/ Assign(t) \/ Bare(t)
  PROVE  TypeInv'
<1> USE TypesStay
<1>0. thread[t] \in Calls
  BY DEF TypeInv, ThreadsOK
<1>1. CASE Load(t)
  <2> DEFINE c == [thread[t] EXCEPT !.loaded = {Connected}]
  <2>1. c \in Call /\ c.op = thread[t].op /\ c.name = thread[t].name /\ c.loaded = {Connected}
    BY <1>0, ConnectedTyped DEF Call, Calls, TypeInv
  <2>2. c \in Calls
    BY <1>0, <2>1 DEF Calls
  <2>3. thread' = [thread EXCEPT ![t] = c]
    BY <1>1 DEF Load
  <2> HIDE DEF c
  <2>4. ThreadsOK'
    BY <2>2, <2>3, CallTyped DEF TypeInv
  <2> QED
    BY <1>1, <2>4 DEF Load, TypeInv
<1>2. CASE Assign(t)
  <2> DEFINE c == [thread[t] EXCEPT !.loaded = {}, !.got = TRUE]
  <2>1. c \in Calls
    BY <1>0 DEF Call, Calls
  <2>2. thread' = [thread EXCEPT ![t] = c]
    BY <1>2 DEF Assign
  <2> HIDE DEF c
  <2>3. ThreadsOK'
    BY <2>1, <2>2, CallTyped DEF TypeInv
  <2>4. MemoryOK'
    BY <1>2, <1>0 DEF Assign, MemoryOK, TypeInv, Calls, Call
  <2> QED
    BY <1>2, <2>3, <2>4 DEF Assign, TypeInv
<1>3. CASE Bare(t)
  BY <1>3, DoneTyped DEF Bare, TypeInv
<1> QED
  BY <1>1, <1>2, <1>3

LEMMA RefreshTypes ==
  ASSUME TypeInv,
         \/ \E t \in Threads : Reset(t) \/ Compute(t) \/ Publish(t)
         \/ Refresh
  PROVE  TypeInv'
<1> USE TypesStay
<1>1. ASSUME NEW t \in Threads, Reset(t) PROVE TypeInv'
  <2>1. ThreadsOK'
    BY <1>1, GotoTyped DEF Reset, TypeInv, Steps
  <2>2. MemoryOK'
    BY <1>1 DEF Reset, TypeInv, MemoryOK
  <2> QED
    BY <1>1, <2>1, <2>2 DEF Reset, TypeInv
<1>2. ASSUME NEW t \in Threads, Compute(t) PROVE TypeInv'
  <2>1. PICK s \in specs : thread' = [thread EXCEPT ![t].at = "publish", ![t].got = FALSE, ![t].roots = Roots(s)]
    BY <1>2 DEF Compute
  <2> DEFINE c == [thread[t] EXCEPT !.at = "publish", !.got = FALSE, !.roots = Roots(s)]
  <2>0. thread[t] \in Calls
    BY DEF TypeInv, ThreadsOK
  <2>2. Roots(s) \in [Names -> Places \cup {None}]
    BY DEF TypeInv, MemoryOK, Roots, Sources, Source
  <2>3. c \in Call /\ c.op = thread[t].op /\ c.name = thread[t].name /\ c.loaded = thread[t].loaded
    BY <2>0, <2>2 DEF Calls, Call
  <2>4. c \in Calls
    BY <2>0, <2>3 DEF Calls
  <2>5. thread' = [thread EXCEPT ![t] = c]
    BY <2>1
  <2> HIDE DEF c
  <2>6. ThreadsOK'
    BY <2>4, <2>5, CallTyped DEF TypeInv
  <2> QED
    BY <1>2, <2>6 DEF Compute, TypeInv
<1>3. ASSUME NEW t \in Threads, Publish(t) PROVE TypeInv'
  <2> DEFINE c == [thread[t] EXCEPT !.at = "after", !.roots = Idle.roots]
  <2>1. Idle.roots \in [Names -> Places \cup {None}] /\ thread[t] \in Calls
    BY DEF Idle, TypeInv, ThreadsOK
  <2>2. c \in Call /\ c.op = thread[t].op /\ c.name = thread[t].name /\ c.loaded = thread[t].loaded
    BY <2>1 DEF Calls, Call
  <2>3. c \in Calls
    BY <2>1, <2>2 DEF Calls
  <2>4. thread' = [thread EXCEPT ![t] = c] \/ thread' = [thread EXCEPT ![t] = Idle]
    BY <1>3 DEF Publish
  <2> HIDE DEF c
  <2>5. ThreadsOK'
    BY <2>3, <2>4, IdleIsACall, CallTyped DEF TypeInv
  <2>6. MemoryOK'
    BY <1>3, <2>1 DEF Publish, TypeInv, MemoryOK, Calls, Call
  <2> QED
    BY <1>3, <2>5, <2>6 DEF Publish, TypeInv
<1>4. CASE Refresh
  <2> DEFINE c == [Idle EXCEPT !.op = "refresh", !.at = "compute"]
  <2>1. c \in Calls
    BY IdleIsACall DEF Calls, Call
  <2>2. Scheduler \in Threads /\ thread' = [thread EXCEPT ![Scheduler] = c]
    BY <1>4 DEF Refresh, Threads
  <2> HIDE DEF c
  <2>3. ThreadsOK'
    BY <2>1, <2>2, CallTyped DEF TypeInv
  <2> QED
    BY <1>4, <2>3 DEF Refresh, TypeInv
<1> QED
  BY <1>1, <1>2, <1>3, <1>4

(***************************************************************************)
(* Requests.                                                               *)
(***************************************************************************)
Requested(o) ==
  \/ List(o) \/ \E n \in Names : Remove(o, n) \/ (\E p \in Places : Add(o, n, p)) \/ (\E on \in BOOLEAN : Options(o, n, on))

LEMMA RequestTyped ==
  ASSUME TypeInv, NEW o \in Owners, NEW b \in Bounds, NEW c \in Calls, Request(o, b, c)
  PROVE  TypeInv'
<1>1. ThreadsOK'
  BY CallTyped DEF Request, Threads, TypeInv
<1>2. RestOK'
  BY UseTyped DEF Request, TypeInv, RestOK
<1> QED
  BY <1>1, <1>2, TypesStay DEF Request, TypeInv

LEMMA RequestTypes ==
  ASSUME TypeInv, NEW o \in Owners, Requested(o)
  PROVE  TypeInv'
<1>1. CASE List(o)
  <2>1. [Idle EXCEPT !.op = "folders", !.at = "reset"] \in Calls
    BY IdleIsACall DEF Calls, Call
  <2> QED
    BY <1>1, <2>1, RequestTyped DEF List, Bounds
<1>2. ASSUME NEW n \in Names, Remove(o, n) PROVE TypeInv'
  <2>1. [Idle EXCEPT !.op = "remove", !.at = "check", !.name = n] \in Calls
    BY IdleIsACall DEF Calls, Call
  <2> QED
    BY <1>2, <2>1, RequestTyped DEF Remove, Bounds
<1>3. ASSUME NEW n \in Names, NEW p \in Places, Add(o, n, p) PROVE TypeInv'
  <2>1. [Idle EXCEPT !.op = "add", !.at = "check", !.name = n, !.place = p] \in Calls
    BY IdleIsACall DEF Calls, Call
  <2> QED
    BY <1>3, <2>1, RequestTyped DEF Add, Bounds
<1>4. ASSUME NEW n \in Names, NEW on \in BOOLEAN, Options(o, n, on) PROVE TypeInv'
  <2>1. [Idle EXCEPT !.op = "options", !.at = "check", !.name = n, !.flag = on] \in Calls
    BY IdleIsACall DEF Calls, Call
  <2> QED
    BY <1>4, <2>1, RequestTyped DEF Options, Bounds
<1> QED
  BY <1>1, <1>2, <1>3, <1>4 DEF Requested

LEMMA OwnerStepTypes ==
  ASSUME TypeInv, NEW o \in Owners, OwnerStep(o)
  PROVE  TypeInv'
<1> USE TypesStay
<1>0. o \in Threads /\ thread[o] \in Calls
  BY DEF Threads, TypeInv, ThreadsOK
<1>1. CASE Check(o)
  <2>1. PICK s \in specs :
          IF ~Allowed(thread[o], s) THEN Done(o)
          ELSE thread' = [thread EXCEPT ![o].at = "store", ![o].got = FALSE,
                            ![o].flag = IF thread[o].op = "remove" THEN s[thread[o].name].app ELSE @]
    BY <1>1 DEF Check
  <2>2. CASE Done(o)
    BY <1>0, <1>1, <2>2, DoneTyped DEF Check, TypeInv
  <2>3. CASE ~Done(o)
    <3> DEFINE b == IF thread[o].op = "remove" THEN s[thread[o].name].app ELSE thread[o].flag
               c == [thread[o] EXCEPT !.at = "store", !.got = FALSE, !.flag = b]
    <3>1. thread[o].op = "remove" => s[thread[o].name].app \in BOOLEAN
      BY <1>0 DEF Calls, TypeInv, MemoryOK, Sources, Source
    <3>2. b \in BOOLEAN
      BY <1>0, <3>1 DEF Calls, Call
    <3>3. thread' = [thread EXCEPT ![o] = c]
      BY <2>1, <2>3
    <3> HIDE DEF b
    <3>4. c \in Call /\ c.op = thread[o].op /\ c.name = thread[o].name /\ c.loaded = thread[o].loaded
      BY <1>0, <3>2 DEF Calls, Call
    <3>5. c \in Calls
      BY <1>0, <3>4 DEF Calls
    <3> HIDE DEF c
    <3>6. ThreadsOK'
      BY <1>0, <3>3, <3>5, CallTyped DEF TypeInv
    <3> QED
      BY <1>1, <3>6 DEF Check, TypeInv
  <2> QED
    BY <2>2, <2>3
<1>2. CASE Insert(o)
  <2>1. thread[o].name \in Names /\ thread[o].place \in Places \cup {None}
    BY <1>0, <1>2 DEF Insert, Calls, Call
  <2>2. ThreadsOK'
    BY <1>0, <1>2, DoneTyped, GotoTyped DEF Insert, TypeInv, Steps
  <2>3. ChoicesOK'
    <3>1. CASE apps[thread[o].name] # NoSource
      BY <1>2, <3>1 DEF Insert, TypeInv
    <3>2. CASE apps[thread[o].name] = NoSource
      <4> DEFINE new == [place |-> thread[o].place, app |-> TRUE, download |-> FALSE]
      <4>1. new \in Source /\ new.app
        BY <2>1 DEF Source
      <4>2. apps' = [apps EXCEPT ![thread[o].name] = new] /\ removed' = removed \ {thread[o].name}
        BY <1>2, <3>2 DEF Insert
      <4> HIDE DEF new
      <4> QED
        BY <4>1, <4>2, <2>1 DEF TypeInv, ChoicesOK, AppsAreTheApps, Sources
    <3> QED
      BY <3>1, <3>2
  <2>4. RestOK'
    BY <1>2 DEF Insert, TypeInv, RestOK
  <2> QED
    BY <1>2, <2>2, <2>3, <2>4 DEF Insert, TypeInv
<1>3. CASE Erase(o)
  <2>1. thread[o].name \in Names
    BY <1>0, <1>3 DEF Erase, Calls, Call
  <2>2. ThreadsOK'
    BY <1>0, <1>3, GotoTyped DEF Erase, TypeInv, Steps
  <2>3. ChoicesOK'
    <3>1. NoSource \in Source
      BY DEF NoSource, Source
    <3>2. \/ apps' = [apps EXCEPT ![thread[o].name] = NoSource] /\ removed' = removed
          \/ apps' = apps /\ removed' = removed \cup {thread[o].name}
      BY <1>3 DEF Erase
    <3> QED
      BY <2>1, <3>1, <3>2 DEF TypeInv, ChoicesOK, AppsAreTheApps, Sources
  <2>4. RestOK'
    BY <1>3 DEF Erase, TypeInv, RestOK
  <2> QED
    BY <1>3, <2>2, <2>3, <2>4 DEF Erase, TypeInv
<1>4. CASE SetDownload(o)
  <2>1. thread[o].name \in Names /\ thread[o].flag \in BOOLEAN
    BY <1>0, <1>4 DEF SetDownload, Calls, Call
  <2>2. ThreadsOK'
    BY <1>0, <1>4, GotoTyped DEF SetDownload, TypeInv, Steps
  <2>3. ChoicesOK'
    BY <1>4, <2>1 DEF SetDownload, TypeInv, ChoicesOK, AppsAreTheApps, Sources, Source
  <2> QED
    BY <1>4, <2>2, <2>3 DEF SetDownload, TypeInv
<1>5. CASE Purge(o)
  <2>1. ThreadsOK'
    BY <1>0, <1>5, DoneTyped DEF Purge, TypeInv
  <2>2. LedgerOK'
    BY <1>5, NoRowTyped DEF Purge, TypeInv, LedgerOK
  <2> QED
    BY <1>5, <2>1, <2>2 DEF Purge, TypeInv
<1>6. CASE Requeue(o)
  <2>1. ThreadsOK'
    BY <1>0, <1>6, DoneTyped DEF Requeue, TypeInv
  <2> DEFINE again(row) == IF row.status = "skipped"
                           THEN [row EXCEPT !.status = "pending", !.reason = "none", !.hash = None] ELSE row
  <2>2. ASSUME NEW row \in Row PROVE again(row) \in Row /\ again(row).of = row.of
    BY DEF Row
  <2>3. ASSUME NEW row \in Row, row = NoRow PROVE again(row) = NoRow
    BY <2>3 DEF NoRow
  <2>4. rows' = rows \/ rows' = [rows EXCEPT ![thread[o].name] = [f \in Files |-> again(@[f])]]
    BY <1>6 DEF Requeue
  <2> HIDE DEF again
  <2>5. LedgerOK'
    <3>1. chunks' = chunks /\ misread' = misread
      BY <1>6 DEF Requeue
    <3>2. CASE rows' = rows
      BY <3>1, <3>2 DEF TypeInv, LedgerOK
    <3>3. CASE rows' = [rows EXCEPT ![thread[o].name] = [f \in Files |-> again(@[f])]]
      <4>1. rows' \in [Names -> [Files -> Row]]
        BY <2>2, <3>3 DEF TypeInv, LedgerOK
      <4>2. ASSUME NEW m \in Names, NEW f \in Files PROVE rows'[m][f] = NoRow \/ rows'[m][f].of # None
        <5>1. rows[m][f] \in Row /\ (rows[m][f] = NoRow \/ rows[m][f].of # None)
          BY DEF TypeInv, LedgerOK
        <5>2. rows'[m][f] \in {rows[m][f], again(rows[m][f])}
          BY <3>3 DEF TypeInv, LedgerOK
        <5> QED
          BY <5>1, <5>2, <2>2, <2>3
      <4> QED
        BY <3>1, <4>1, <4>2 DEF TypeInv, LedgerOK
    <3> QED
      BY <2>4, <3>2, <3>3
  <2> QED
    BY <1>6, <2>1, <2>5 DEF Requeue, TypeInv
<1> QED
  BY <1>1, <1>2, <1>3, <1>4, <1>5, <1>6 DEF OwnerStep

LEMMA LookTypes ==
  ASSUME TypeInv, NEW o \in Owners, Look(o) \/ LookStep(o)
  PROVE  TypeInv'
<1> USE TypesStay
<1>0. o \in Threads /\ thread[o] \in Calls /\ thread[o].listed \subseteq Drives
  BY DEF Threads, TypeInv, ThreadsOK, Calls, Call
<1>1. CASE Look(o)
  <2> DEFINE at == IF Available THEN "browse" ELSE "missing"
             c == [Idle EXCEPT !.op = "look", !.at = at]
  <2>0. at \in {"browse", "missing"}
    OBVIOUS
  <2> HIDE DEF at
  <2>1. c \in Calls
    BY <2>0, IdleIsACall DEF Calls, Call
  <2>2. thread' = [thread EXCEPT ![o] = c]
    BY <1>1 DEF Look, at
  <2> HIDE DEF c
  <2>3. ThreadsOK'
    BY <1>0, <2>1, <2>2, CallTyped DEF TypeInv
  <2>4. RestOK'
    BY <1>1, UseTyped DEF Look, TypeInv, RestOK, Bounds
  <2> QED
    BY <1>1, <2>3, <2>4 DEF Look, TypeInv
<1>6. CASE Browse(o)
  <2> DEFINE early == ~looked
             c == [thread[o] EXCEPT !.at = "look", !.listed = plugged, !.early = early]
  <2>1. plugged \in SUBSET Drives /\ early \in BOOLEAN
    BY DEF TypeInv, WorldOK, DrivesOK
  <2>2. thread' = [thread EXCEPT ![o] = c]
    BY <1>6 DEF Browse
  <2> HIDE DEF early
  <2>3. c \in Calls
    BY <1>0, <2>1 DEF Calls, Call
  <2> HIDE DEF c
  <2>4. ThreadsOK'
    BY <1>0, <2>2, <2>3, CallTyped DEF TypeInv
  <2> QED
    BY <1>6, <2>4 DEF Browse, TypeInv
<1>2. CASE Recall(o)
  <2>1. ThreadsOK'
    BY <1>0, <1>2, GotoTyped DEF Recall, TypeInv, Steps
  <2> QED
    BY <1>2, <2>1 DEF Recall, TypeInv
<1>3. CASE First(o)
  <2>1. ThreadsOK'
    BY <1>0, <1>3, GotoTyped DEF First, TypeInv, Steps
  <2>2. DrivesOK'
    BY <1>0, <1>3 DEF First, Inserted, TypeInv, DrivesOK
  <2> QED
    BY <1>3, <2>1, <2>2 DEF First, TypeInv
<1>4. CASE More(o)
  <2>1. ThreadsOK'
    BY <1>0, <1>4, GotoTyped DEF More, TypeInv, Steps
  <2>2. DrivesOK'
    BY <1>0, <1>4 DEF More, Inserted, TypeInv, DrivesOK
  <2> QED
    BY <1>4, <2>1, <2>2 DEF More, TypeInv
<1>5. CASE Offer(o)
  <2>1. ThreadsOK'
    BY <1>0, <1>5, DoneTyped DEF Offer, TypeInv
  <2>2. DrivesOK'
    BY <1>0, <1>5 DEF Offer, TypeInv, DrivesOK
  <2> QED
    BY <1>5, <2>1, <2>2 DEF Offer, TypeInv
<1>7. CASE Missing(o)
  <2>1. ThreadsOK'
    BY <1>0, <1>7, DoneTyped DEF Missing, TypeInv
  <2> QED
    BY <1>7, <2>1 DEF Missing, TypeInv
<1> QED
  BY <1>1, <1>2, <1>3, <1>4, <1>5, <1>6, <1>7 DEF LookStep

(***************************************************************************)
(* Jobs.                                                                   *)
(***************************************************************************)
LEMMA ObservedTyped ==
  ASSUME NEW row \in Row, NEW p \in Places, NEW due \in BOOLEAN,
         row = NoRow \/ row.of # None
  PROVE  /\ Observed(row, p, due) \in Row
         /\ Observed(row, p, due).of = p
         /\ Observed(row, p, due).status \notin {"none", "deleted"}
         /\ Observed(row, p, due) = row \/ Observed(row, p, due).status = "pending"
         /\ Observed(row, p, due).hash \in {row.hash, None}
<1>1. p # None
  BY FoldersAssumption
<1>2. CASE row.status = "none"
  BY <1>1, <1>2 DEF Observed, Row, NoRow, Live
<1>3. CASE row.status = "deleted"
  BY <1>1, <1>3 DEF Observed, Row, Live
<1>4. CASE row.status \notin {"none", "deleted"} /\ row.of # p
  BY <1>1, <1>4 DEF Observed, Row, Live
<1>5. CASE row.status = "failed" /\ due /\ row.of = p
  BY <1>1, <1>5 DEF Observed, Row, Live
<1>6. CASE row.status \notin {"none", "deleted"} /\ row.of = p /\ ~(row.status = "failed" /\ due)
  BY <1>1, <1>6 DEF Observed, Row, Live
<1> QED
  BY <1>2, <1>3, <1>4, <1>5, <1>6

LEMMA JobTyped ==
  ASSUME NEW n \in Names, NEW scan \in Scan, JobsOK, job' = [job EXCEPT ![n] = scan]
  PROVE  JobsOK'
BY DEF JobsOK

LEMMA WalkTypes ==
  ASSUME TypeInv, NEW n \in Names, NEW files \in SUBSET Files, NEW at, NEW next \in Steps,
         Walk(n, at, files, next), job[n].root \in Places
  PROVE  TypeInv'
<1> USE TypesStay
<1> DEFINE p == job[n].root
           there == IF p \in mounted THEN At(p, files) ELSE {}
<1>0. n \in Threads /\ there \subseteq Files /\ job[n] \in Scan
  BY DEF Threads, At, TypeInv, JobsOK
<1>1. ThreadsOK'
  BY <1>0, GotoTyped DEF Walk, TypeInv, Steps
<1>2. JobsOK'
  <2>1. [job[n] EXCEPT !.found = @ \cup there] \in Scan /\ [job[n] EXCEPT !.complete = FALSE] \in Scan
    BY <1>0 DEF Scan
  <2>2. \/ job' = [job EXCEPT ![n] = [job[n] EXCEPT !.found = @ \cup there]]
        \/ job' = [job EXCEPT ![n] = [job[n] EXCEPT !.complete = FALSE]]
    BY DEF Walk
  <2> HIDE DEF there
  <2> QED
    BY <2>1, <2>2, JobTyped DEF TypeInv
<1>3. LedgerOK'
  <2>1. chunks' = chunks /\ misread' = misread
    BY DEF Walk
  <2>2. CASE rows' = rows
    BY <2>1, <2>2 DEF TypeInv, LedgerOK
  <2>3. CASE rows' # rows
    <3>1. PICK due \in BOOLEAN :
            rows' = [rows EXCEPT ![n] = [f \in Files |-> IF f \in there THEN Observed(@[f], p, due) ELSE @[f]]]
      BY <2>3 DEF Walk
    <3> HIDE DEF there
    <3>2. \A m \in Names, f \in Files : rows[m][f] \in Row /\ (rows[m][f] = NoRow \/ rows[m][f].of # None)
      BY DEF TypeInv, LedgerOK
    <3>3. ASSUME NEW m \in Names, NEW f \in Files
          PROVE  rows'[m][f] \in {rows[m][f], Observed(rows[m][f], p, due)}
      BY <3>1 DEF TypeInv, LedgerOK
    <3>4. ASSUME NEW m \in Names, NEW f \in Files
          PROVE  rows'[m][f] \in Row /\ (rows'[m][f] = NoRow \/ rows'[m][f].of # None)
      BY <3>2, <3>3, ObservedTyped, FoldersAssumption
    <3>5. rows' \in [Names -> [Files -> Row]]
      BY <3>1, <3>4 DEF TypeInv, LedgerOK
    <3> QED
      BY <2>1, <3>4, <3>5 DEF TypeInv, LedgerOK
  <2> QED
    BY <2>2, <2>3
<1> QED
  BY <1>1, <1>2, <1>3 DEF Walk, TypeInv

\* A row is replaced by one of the same folder, or stays.
LEMMA UpdateTyped ==
  ASSUME TypeInv, NEW n \in Names, NEW f \in Files, NEW row \in Row, row.of = rows[n][f].of,
         Update(n, f, row)
  PROVE  /\ rows' \in [Names -> [Files -> Row]]
         /\ \A m \in Names, g \in Files : rows'[m][g] = NoRow \/ rows'[m][g].of # None
         /\ \A m \in Names, g \in Files : ~(m = n /\ g = f) => rows'[m][g] = rows[m][g]
         /\ rows[n][f].status = "none" => rows'[n][f] = rows[n][f]
         /\ rows[n][f].status # "none" => rows'[n][f] = row
<1>1. CASE rows[n][f].status = "none"
  BY <1>1 DEF Update, TypeInv, LedgerOK
<1>2. CASE rows[n][f].status # "none"
  <2>1. rows' = [rows EXCEPT ![n][f] = row] /\ row.of # None
    BY <1>2 DEF Update, TypeInv, LedgerOK, NoRow
  <2> QED
    BY <1>2, <2>1 DEF TypeInv, LedgerOK
<1> QED
  BY <1>1, <1>2

\* What a job does with one row it queued.
Unread(n, f, p) ==
  /\ disk' = disk /\ chunks' = chunks /\ misread' = misread
  /\ Update(n, f, [rows[n][f] EXCEPT !.status = "failed", !.reason = "failed"])

LeftAlone(n, f, p) ==
  /\ disk' = disk /\ misread' = misread
  /\ chunks' = [chunks EXCEPT ![n][f] = None]
  /\ Update(n, f, [rows[n][f] EXCEPT !.status = "skipped", !.reason = "online", !.hash = None])

Read(n, f, p) ==
  /\ disk' = [disk EXCEPT ![p][f] = "here"]
  /\ misread' = IF rows[n][f].status # "none" /\ rows[n][f].of # p THEN misread \cup {<<n, f>>} ELSE misread \ {<<n, f>>}

Touched(n, f, p) ==
  /\ Read(n, f, p) /\ chunks' = chunks
  /\ \E status \in {"indexed", "skipped"} : Update(n, f, [rows[n][f] EXCEPT !.status = status])

Written(n, f, p) ==
  /\ Read(n, f, p) /\ chunks' = [chunks EXCEPT ![n][f] = p]
  /\ Update(n, f, [rows[n][f] EXCEPT !.status = "indexed", !.reason = "none", !.hash = p])

LEMMA IndexOutcomes ==
  ASSUME NEW n \in Names, NEW q, Index(n, q)
  PROVE  /\ job' = [job EXCEPT ![n].todo = @ \ {q}] /\ thread[n].at = "index"
         /\ UNCHANGED <<mounted, plugged, others, choices, drives, memory, thread, left, settled>>
         /\ \/ Unread(n, q.file, job[n].root)
            \/ LeftAlone(n, q.file, job[n].root)
            \/ q.row.hash = job[n].root /\ Touched(n, q.file, job[n].root)
            \/ Written(n, q.file, job[n].root)
BY DEF Index, Unread, LeftAlone, Read, Touched, Written

LEMMA IndexTypes ==
  ASSUME TypeInv, NEW n \in Names, NEW q \in job[n].todo, Index(n, q), job[n].root \in Places
  PROVE  TypeInv'
<1> USE TypesStay
<1> DEFINE p == job[n].root
           f == q.file
<1>0. f \in Files /\ rows[n][f] \in Row /\ job[n] \in Scan /\ p \in Places
  BY DEF TypeInv, JobsOK, Scan, LedgerOK
<1>1. JobsOK'
  <2>1. [job[n] EXCEPT !.todo = @ \ {q}] \in Scan
    BY <1>0 DEF Scan
  <2>2. job' = [job EXCEPT ![n] = [job[n] EXCEPT !.todo = @ \ {q}]]
    BY IndexOutcomes
  <2> QED
    BY <2>1, <2>2, JobTyped DEF TypeInv
<1>2. PICK row \in Row : row.of = rows[n][f].of /\ Update(n, f, row)
  <2>1. /\ [rows[n][f] EXCEPT !.status = "failed", !.reason = "failed"] \in Row
        /\ [rows[n][f] EXCEPT !.status = "skipped", !.reason = "online", !.hash = None] \in Row
        /\ \A status \in {"indexed", "skipped"} : [rows[n][f] EXCEPT !.status = status] \in Row
        /\ [rows[n][f] EXCEPT !.status = "indexed", !.reason = "none", !.hash = p] \in Row
    BY <1>0 DEF Row
  <2>2. /\ [rows[n][f] EXCEPT !.status = "failed", !.reason = "failed"].of = rows[n][f].of
        /\ [rows[n][f] EXCEPT !.status = "skipped", !.reason = "online", !.hash = None].of = rows[n][f].of
        /\ \A status \in {"indexed", "skipped"} : [rows[n][f] EXCEPT !.status = status].of = rows[n][f].of
        /\ [rows[n][f] EXCEPT !.status = "indexed", !.reason = "none", !.hash = p].of = rows[n][f].of
    BY <1>0 DEF Row
  <2> QED
    BY <2>1, <2>2, IndexOutcomes DEF Unread, LeftAlone, Touched, Written
<1>3. LedgerOK'
  <2>1. chunks' \in [Names -> [Files -> Places \cup {None}]]
    <3>1. chunks' = chunks \/ chunks' = [chunks EXCEPT ![n][f] = None] \/ chunks' = [chunks EXCEPT ![n][f] = p]
      BY IndexOutcomes DEF Unread, LeftAlone, Touched, Written
    <3>2. ASSUME NEW c \in Places \cup {None}, chunks' = [chunks EXCEPT ![n][f] = c]
          PROVE  chunks' \in [Names -> [Files -> Places \cup {None}]]
      BY <1>0, <3>2 DEF TypeInv, LedgerOK
    <3> QED
      BY <1>0, <3>1, <3>2 DEF TypeInv, LedgerOK
  <2>2. misread' \in SUBSET (Names \X Files)
    <3>1. misread' = misread \/ misread' = misread \cup {<<n, f>>} \/ misread' = misread \ {<<n, f>>}
      BY IndexOutcomes DEF Unread, LeftAlone, Touched, Written, Read
    <3> QED
      BY <1>0, <3>1 DEF TypeInv, LedgerOK
  <2> QED
    BY <1>0, <1>2, <2>1, <2>2, UpdateTyped DEF LedgerOK
<1>4. WorldOK'
  <2>1. disk' = disk \/ disk' = [disk EXCEPT ![p][f] = "here"]
    BY IndexOutcomes DEF Unread, LeftAlone, Touched, Written, Read
  <2>2. mounted' = mounted /\ plugged' = plugged /\ others' = others
    BY IndexOutcomes
  <2> QED
    BY <1>0, <2>1, <2>2 DEF TypeInv, WorldOK
<1> QED
  BY <1>1, <1>3, <1>4, IndexOutcomes DEF TypeInv

LEMMA PruneTypes ==
  ASSUME TypeInv, NEW n \in Names, Prune(n)
  PROVE  TypeInv'
<1> USE TypesStay
<1> DEFINE gone == {f \in Files \ job[n].found : job[n].complete /\ Live(rows[n][f])}
           todo == {[file |-> f, row |-> rows[n][f]] : f \in Pending(n) \ gone}
<1>0. n \in Threads /\ job[n] \in Scan
  BY DEF Threads, TypeInv, JobsOK
<1>1. ThreadsOK'
  BY <1>0, GotoTyped DEF Prune, TypeInv, Steps
<1>2. RestOK'
  BY DEF Prune, TypeInv, RestOK
<1>3. JobsOK'
  <2>1. todo \subseteq [file: Files, row: Row]
    BY DEF TypeInv, LedgerOK, Pending
  <2>2. job' = [job EXCEPT ![n] = [job[n] EXCEPT !.todo = todo, !.stayed = {}, !.found = {}]]
    BY DEF Prune
  <2> HIDE DEF todo
  <2>3. [job[n] EXCEPT !.todo = todo, !.stayed = {}, !.found = {}] \in Scan
    BY <1>0, <2>1 DEF Scan
  <2> QED
    BY <2>2, <2>3, JobTyped DEF TypeInv
<1>4. LedgerOK'
  <2>1. /\ rows' = [rows EXCEPT ![n] = [f \in Files |-> IF f \in gone THEN [@[f] EXCEPT !.status = "deleted"] ELSE @[f]]]
        /\ chunks' = [chunks EXCEPT ![n] = [f \in Files |-> IF f \in gone THEN None ELSE @[f]]]
        /\ misread' = misread
    BY DEF Prune
  <2>2. \A f \in gone : rows[n][f] # NoRow
    BY DEF Live, NoRow
  <2> HIDE DEF gone
  <2>3. \A m \in Names, f \in Files : rows[m][f] \in Row /\ (rows[m][f] = NoRow \/ rows[m][f].of # None)
    BY DEF TypeInv, LedgerOK
  <2>4. ASSUME NEW row \in Row
        PROVE  [row EXCEPT !.status = "deleted"] \in Row /\ [row EXCEPT !.status = "deleted"].of = row.of
    BY DEF Row
  <2>5. \A m \in Names, f \in Files :
          \/ rows'[m][f] = rows[m][f]
          \/ m = n /\ f \in gone /\ rows'[m][f] = [rows[m][f] EXCEPT !.status = "deleted"]
    BY <2>1 DEF TypeInv, LedgerOK
  <2>6. \A m \in Names, f \in Files : rows'[m][f] \in Row /\ (rows'[m][f] = NoRow \/ rows'[m][f].of # None)
    <3> TAKE m \in Names, f \in Files
    <3>1. CASE rows'[m][f] = rows[m][f]
      BY <2>3, <3>1
    <3>2. CASE m = n /\ f \in gone /\ rows'[m][f] = [rows[m][f] EXCEPT !.status = "deleted"]
      BY <2>2, <2>3, <2>4, <3>2
    <3> QED
      BY <2>5, <3>1, <3>2
  <2>7. rows' \in [Names -> [Files -> Row]]
    BY <2>1, <2>6 DEF TypeInv, LedgerOK
  <2>8. chunks' \in [Names -> [Files -> Places \cup {None}]]
    BY <2>1 DEF TypeInv, LedgerOK
  <2> QED
    BY <2>1, <2>6, <2>7, <2>8 DEF TypeInv, LedgerOK
<1> QED
  BY <1>1, <1>2, <1>3, <1>4 DEF Prune, TypeInv

LEMMA JobStepTypes ==
  ASSUME TypeInv, RootsAreSet, NEW n \in Names, Start(n) \/ JobStep(n)
  PROVE  TypeInv'
<1> USE TypesStay
<1>0. n \in Threads /\ job[n] \in Scan
  BY DEF Threads, TypeInv, JobsOK
<1>1. CASE Start(n)
  <2> DEFINE c == [Idle EXCEPT !.op = "job", !.at = "open", !.name = n]
  <2>1. c \in Calls
    BY IdleIsACall DEF Calls, Call
  <2>2. thread' = [thread EXCEPT ![n] = c]
    BY <1>1 DEF Start
  <2> HIDE DEF c
  <2>3. ThreadsOK'
    BY <1>0, <2>1, <2>2, CallTyped DEF TypeInv
  <2>4. RestOK'
    BY <1>1, UseTyped DEF Start, TypeInv, RestOK, Bounds
  <2> QED
    BY <1>1, <2>3, <2>4 DEF Start, TypeInv
<1>2. CASE Open(n)
  <2>1. ThreadsOK'
    BY <1>0, <1>2, GotoTyped, DoneTyped DEF Open, TypeInv, Steps
  <2>2. RestOK'
    BY <1>2 DEF Open, TypeInv, RestOK
  <2>3. JobsOK'
    <3>1. [NoJob EXCEPT !.root = targets[n]] \in Scan
      BY NoJobTyped DEF Scan, TypeInv, MemoryOK
    <3>2. job' = job \/ job' = [job EXCEPT ![n] = [NoJob EXCEPT !.root = targets[n]]]
      BY <1>2 DEF Open
    <3> QED
      BY <3>1, <3>2, JobTyped DEF TypeInv
  <2> QED
    BY <1>2, <2>1, <2>2, <2>3 DEF Open, TypeInv
<1>3. CASE Flag(n)
  <2>1. ThreadsOK'
    BY <1>0, <1>3, GotoTyped DEF Flag, TypeInv, Steps
  <2>2. JobsOK'
    <3>1. PICK s \in specs :
            job' = [job EXCEPT ![n].skip = s[n].place \in Cloud /\ ~s[n].download,
                               ![n].stayed = {f \in Files : disk[job[n].root][f] # "no"}]
      BY <1>3 DEF Flag
    <3> DEFINE skip == s[n].place \in Cloud /\ ~s[n].download
               stayed == {f \in Files : disk[job[n].root][f] # "no"}
    <3>2. skip \in BOOLEAN /\ stayed \in SUBSET Files
      OBVIOUS
    <3>3. job' = [job EXCEPT ![n] = [job[n] EXCEPT !.skip = skip, !.stayed = stayed]]
      BY <3>1
    <3> HIDE DEF skip, stayed
    <3>4. [job[n] EXCEPT !.skip = skip, !.stayed = stayed] \in Scan
      BY <1>0, <3>2 DEF Scan
    <3> QED
      BY <3>3, <3>4, JobTyped DEF TypeInv
  <2> QED
    BY <1>3, <2>1, <2>2 DEF Flag, TypeInv
<1>4. CASE WalkTop(n)
  BY <1>4, WalkTypes, FoldersAssumption DEF WalkTop, Walk, RootsAreSet, Walking, Steps
<1>5. CASE WalkSub(n)
  BY <1>5, WalkTypes DEF WalkSub, Walk, RootsAreSet, Walking, Steps
<1>6. CASE Prune(n)
  BY <1>6, PruneTypes
<1>7. ASSUME NEW q \in job[n].todo, Index(n, q) PROVE TypeInv'
  <2>1. job[n].root \in Places
    BY <1>7 DEF Index, RootsAreSet
  <2> QED
    BY <1>7, <2>1, IndexTypes
<1>8. CASE End(n)
  <2>1. ThreadsOK' /\ JobsOK'
    BY <1>0, <1>8, DoneTyped, NoJobTyped, JobTyped DEF End, TypeInv
  <2> QED
    BY <1>8, <2>1 DEF End, TypeInv
<1> QED
  BY <1>1, <1>2, <1>3, <1>4, <1>5, <1>6, <1>7, <1>8 DEF JobStep

LEMMA RestartTypes ==
  ASSUME TypeInv, Restart
  PROVE  TypeInv'
<1>1. MemoryOK'
  BY DEF Restart, MemoryOK
<1>2. ThreadsOK' /\ JobsOK'
  BY IdleIsACall, NoJobTyped DEF Restart, ThreadsOK, JobsOK
<1>3. RestOK'
  BY UseTyped DEF Restart, TypeInv, RestOK, Bounds
<1> QED
  BY <1>1, <1>2, <1>3, TypesStay DEF Restart, TypeInv

(***************************************************************************)
(* The steps of Next, named as the lemmas take them.                       *)
(***************************************************************************)
Calling(t) == Load(t) \/ Assign(t) \/ Bare(t) \/ Reset(t) \/ Compute(t) \/ Publish(t)

LEMMA NextSteps ==
  ASSUME Next
  PROVE  \/ \E d \in Drives : Plug(d) \/ Dismiss(d)
         \/ Litter
         \/ \E p \in Places : Mount(p) \/ \E f \in Files : Edit(p, f)
         \/ \E t \in Threads : Calling(t)
         \/ \E o \in Owners : Requested(o) \/ Look(o) \/ OwnerStep(o) \/ LookStep(o)
         \/ \E n \in Names : Start(n) \/ JobStep(n)
         \/ Refresh
         \/ Restart
<1> USE DEF Calling, Requested
<1>1. CASE \E t \in Threads : ThreadStep(t)
  BY <1>1 DEF ThreadStep
<1>2. CASE ~ \E t \in Threads : ThreadStep(t)
  BY <1>2 DEF Next
<1> QED
  BY <1>1, <1>2

LEMMA NextTypes ==
  ASSUME TypeInv, RootsAreSet, Next
  PROVE  TypeInv'
BY NextSteps, WorldStepTypes, ReadingTypes, RefreshTypes, RequestTypes, OwnerStepTypes, LookTypes, JobStepTypes,
   RestartTypes DEF Calling

(***************************************************************************)
(* Where a step leaves the threads: all but one where they are, and that   *)
(* one at a place of a few.                                                *)
(***************************************************************************)
StaysOrAt(places) ==
  \A t \in Threads : \/ thread'[t].at \in places
                     \/ thread'[t].at = thread[t].at /\ thread'[t].early = thread[t].early

OfRequests == {"idle", "check", "store", "reset", "compute", "publish", "after", "open"}

LEMMA GotoStays ==
  ASSUME TypeInv, NEW t \in Threads, NEW place, NEW places, place \in places, Goto(t, place)
  PROVE  /\ StaysOrAt(places)
         /\ \A u \in Threads : u # t => thread'[u] = thread[u]
         /\ thread'[t].at = place /\ thread'[t].early = thread[t].early
<1>1. ASSUME NEW u \in Threads, u # t PROVE thread'[u] = thread[u]
  BY <1>1 DEF Goto, TypeInv, ThreadsOK
<1>2. thread'[t].at = place /\ thread'[t].early = thread[t].early
  BY DEF Goto, TypeInv, ThreadsOK, Calls, Call
<1> QED
  BY <1>1, <1>2 DEF StaysOrAt

LEMMA DoneStays ==
  ASSUME TypeInv, NEW t \in Threads, NEW places, "idle" \in places, Done(t)
  PROVE  /\ StaysOrAt(places)
         /\ \A u \in Threads : u # t => thread'[u] = thread[u]
         /\ thread'[t].at = "idle"
<1>1. ASSUME NEW u \in Threads, u # t PROVE thread'[u] = thread[u]
  BY <1>1 DEF Done, TypeInv, ThreadsOK
<1>2. thread'[t].at = "idle"
  BY DEF Done, Idle, TypeInv, ThreadsOK
<1> QED
  BY <1>1, <1>2 DEF StaysOrAt

LEMMA GotoGoes ==
  ASSUME TypeInv, NEW t \in Threads, NEW place, Goto(t, place)
  PROVE  thread'[t].at = place
BY DEF Goto, TypeInv, ThreadsOK, Calls, Call

LEMMA DoneGoes ==
  ASSUME TypeInv, NEW t \in Threads, Done(t)
  PROVE  thread'[t].at = "idle"
BY DEF Done, Idle, TypeInv, ThreadsOK

LEMMA CallStays ==
  ASSUME TypeInv, NEW t \in Threads, NEW places, NEW c, c.at \in places, thread' = [thread EXCEPT ![t] = c]
  PROVE  StaysOrAt(places)
<1>1. ASSUME NEW u \in Threads, u # t PROVE thread'[u] = thread[u]
  BY <1>1 DEF TypeInv, ThreadsOK
<1>2. thread'[t] = c
  BY DEF TypeInv, ThreadsOK
<1> QED
  BY <1>1, <1>2 DEF StaysOrAt

LEMMA CallingStays ==
  ASSUME TypeInv, NEW t \in Threads, Calling(t)
  PROVE  StaysOrAt(OfRequests) /\ UNCHANGED <<world, choices, ledger, drives, job, left, settled>>
<1>0. thread[t] \in Calls
  BY DEF TypeInv, ThreadsOK
<1>1. CASE Load(t)
  <2>1. thread' = [thread EXCEPT ![t].loaded = {Connected}]
    BY <1>1 DEF Load
  <2>2. \A u \in Threads : thread'[u].at = thread[u].at /\ thread'[u].early = thread[u].early
    BY <2>1 DEF TypeInv, ThreadsOK, Calls, Call
  <2> QED
    BY <1>1, <2>2 DEF Load, StaysOrAt
<1>2. CASE Assign(t)
  <2>1. thread' = [thread EXCEPT ![t].loaded = {}, ![t].got = TRUE]
    BY <1>2 DEF Assign
  <2>2. \A u \in Threads : thread'[u].at = thread[u].at /\ thread'[u].early = thread[u].early
    BY <2>1 DEF TypeInv, ThreadsOK, Calls, Call
  <2> QED
    BY <1>2, <2>2 DEF Assign, StaysOrAt, drives
<1>3. CASE Bare(t)
  BY <1>3, DoneStays DEF Bare, OfRequests
<1>4. CASE Reset(t)
  BY <1>4, GotoStays DEF Reset, OfRequests
<1>5. CASE Compute(t)
  <2>1. PICK s \in specs : thread' = [thread EXCEPT ![t].at = "publish", ![t].got = FALSE, ![t].roots = Roots(s)]
    BY <1>5 DEF Compute
  <2> DEFINE c == [thread[t] EXCEPT !.at = "publish", !.got = FALSE, !.roots = Roots(s)]
  <2>2. c.at \in OfRequests /\ thread' = [thread EXCEPT ![t] = c]
    BY <1>0, <2>1 DEF Calls, Call, OfRequests
  <2> HIDE DEF c
  <2>3. StaysOrAt(OfRequests)
    BY <2>2, CallStays
  <2> QED
    BY <1>5, <2>3 DEF Compute
<1>6. CASE Publish(t)
  <2> DEFINE c == IF thread[t].op \in {"remove", "options"}
                  THEN [thread[t] EXCEPT !.at = "after", !.roots = Idle.roots] ELSE Idle
  <2>1. c.at \in OfRequests
    BY <1>0 DEF Calls, Call, Idle, OfRequests
  <2>2. thread' = [thread EXCEPT ![t] = c]
    BY <1>6 DEF Publish
  <2> HIDE DEF c
  <2>3. StaysOrAt(OfRequests)
    BY <2>1, <2>2, CallStays
  <2> QED
    BY <1>6, <2>3 DEF Publish
<1> QED
  BY <1>1, <1>2, <1>3, <1>4, <1>5, <1>6 DEF Calling

LEMMA LitterStays ==
  ASSUME Litter
  PROVE  UNCHANGED <<disk, mounted, plugged, choices, ledger, drives, memory, thread, job, settled>>
BY DEF Litter

LEMMA RefreshStays ==
  ASSUME TypeInv, Refresh
  PROVE  StaysOrAt(OfRequests) /\ UNCHANGED <<world, choices, ledger, drives, job, left, settled>>
<1> DEFINE c == [Idle EXCEPT !.op = "refresh", !.at = "compute"]
<1>1. c.at \in OfRequests /\ Scheduler \in Threads /\ thread' = [thread EXCEPT ![Scheduler] = c]
  BY DEF Idle, Threads, Refresh, OfRequests
<1> HIDE DEF c
<1>2. StaysOrAt(OfRequests)
  BY <1>1, CallStays
<1> QED
  BY <1>2 DEF Refresh

LEMMA RequestedStays ==
  ASSUME TypeInv, NEW o \in Owners, Requested(o)
  PROVE  StaysOrAt(OfRequests) /\ UNCHANGED <<world, choices, ledger, drives, job, settled>>
<1>0. ASSUME NEW b, NEW c, Request(o, b, c), c.at \in OfRequests
      PROVE  StaysOrAt(OfRequests) /\ UNCHANGED <<world, choices, ledger, drives, job, settled>>
  <2>1. thread' = [thread EXCEPT ![o] = c] /\ o \in Threads
    BY <1>0 DEF Request, Threads
  <2>2. StaysOrAt(OfRequests)
    BY <1>0, <2>1, CallStays
  <2> QED
    BY <1>0, <2>2 DEF Request
<1>1. CASE List(o)
  <2>1. [Idle EXCEPT !.op = "folders", !.at = "reset"].at \in OfRequests
    BY DEF OfRequests, Idle
  <2> QED
    BY <1>0, <1>1, <2>1 DEF List
<1>2. ASSUME NEW n \in Names, Remove(o, n)
      PROVE  StaysOrAt(OfRequests) /\ UNCHANGED <<world, choices, ledger, drives, job, settled>>
  <2>1. [Idle EXCEPT !.op = "remove", !.at = "check", !.name = n].at \in OfRequests
    BY DEF OfRequests, Idle
  <2> QED
    BY <1>0, <1>2, <2>1 DEF Remove
<1>3. ASSUME NEW n \in Names, NEW p \in Places, Add(o, n, p)
      PROVE  StaysOrAt(OfRequests) /\ UNCHANGED <<world, choices, ledger, drives, job, settled>>
  <2>1. [Idle EXCEPT !.op = "add", !.at = "check", !.name = n, !.place = p].at \in OfRequests
    BY DEF OfRequests, Idle
  <2> QED
    BY <1>0, <1>3, <2>1 DEF Add
<1>4. ASSUME NEW n \in Names, NEW on \in BOOLEAN, Options(o, n, on)
      PROVE  StaysOrAt(OfRequests) /\ UNCHANGED <<world, choices, ledger, drives, job, settled>>
  <2>1. [Idle EXCEPT !.op = "options", !.at = "check", !.name = n, !.flag = on].at \in OfRequests
    BY DEF OfRequests, Idle
  <2> QED
    BY <1>0, <1>4, <2>1 DEF Options
<1> QED
  BY <1>1, <1>2, <1>3, <1>4 DEF Requested

LEMMA OwnerStepStays ==
  ASSUME TypeInv, NEW o \in Owners, OwnerStep(o)
  PROVE  StaysOrAt(OfRequests) /\ UNCHANGED <<world, drives, job>>
<1>0. o \in Threads /\ thread[o] \in Calls
  BY DEF Threads, TypeInv, ThreadsOK
<1>1. CASE Check(o)
  <2>1. PICK s \in specs :
          IF ~Allowed(thread[o], s) THEN Done(o)
          ELSE thread' = [thread EXCEPT ![o].at = "store", ![o].got = FALSE,
                            ![o].flag = IF thread[o].op = "remove" THEN s[thread[o].name].app ELSE @]
    BY <1>1 DEF Check
  <2>2. CASE Done(o)
    BY <1>0, <1>1, <2>2, DoneStays DEF Check, OfRequests
  <2>3. CASE ~Done(o)
    <3> DEFINE b == IF thread[o].op = "remove" THEN s[thread[o].name].app ELSE thread[o].flag
               c == [thread[o] EXCEPT !.at = "store", !.got = FALSE, !.flag = b]
    <3>1. thread' = [thread EXCEPT ![o] = c]
      BY <2>1, <2>3
    <3> HIDE DEF b
    <3>2. c.at \in OfRequests
      BY <1>0 DEF Calls, Call, OfRequests
    <3> HIDE DEF c
    <3>3. StaysOrAt(OfRequests)
      BY <1>0, <3>1, <3>2, CallStays
    <3> QED
      BY <1>1, <3>3 DEF Check
  <2> QED
    BY <2>2, <2>3
<1>2. CASE Insert(o) \/ Erase(o) \/ SetDownload(o)
  <2>1. (Done(o) \/ Goto(o, "reset")) /\ UNCHANGED <<world, drives, job>>
    BY <1>2 DEF Insert, Erase, SetDownload
  <2> QED
    BY <1>0, <2>1, DoneStays, GotoStays DEF OfRequests
<1>3. CASE Purge(o) \/ Requeue(o)
  <2>1. Done(o) /\ UNCHANGED <<world, drives, job>>
    BY <1>3 DEF Purge, Requeue
  <2> QED
    BY <1>0, <2>1, DoneStays DEF OfRequests
<1> QED
  BY <1>1, <1>2, <1>3 DEF OwnerStep

LEMMA StartStays ==
  ASSUME TypeInv, NEW n \in Names, Start(n)
  PROVE  StaysOrAt(OfRequests) /\ UNCHANGED <<world, choices, ledger, drives, job, settled>>
<1> DEFINE c == [Idle EXCEPT !.op = "job", !.at = "open", !.name = n]
<1>1. c.at \in OfRequests /\ n \in Threads /\ thread' = [thread EXCEPT ![n] = c]
  BY DEF Idle, Threads, Start, OfRequests
<1> HIDE DEF c
<1>2. StaysOrAt(OfRequests)
  BY <1>1, CallStays
<1> QED
  BY <1>2 DEF Start

LEMMA RestartStays ==
  ASSUME Restart
  PROVE  StaysOrAt(OfRequests) /\ UNCHANGED <<world, choices, ledger, drives, settled>>
BY DEF Restart, StaysOrAt, OfRequests, Idle

OfJobs == {"idle", "flag", "top", "sub", "prune", "index"}

LEMMA JobStepStays ==
  ASSUME TypeInv, NEW n \in Names, JobStep(n)
  PROVE  /\ StaysOrAt(OfJobs)
         /\ \A m \in Names : m # n => thread'[m] = thread[m] /\ job'[m] = job[m]
         /\ UNCHANGED <<mounted, plugged, others, choices, drives, memory>>
<1>0. n \in Threads /\ Names \subseteq Threads
  BY DEF Threads
<1>1. StaysOrAt(OfJobs) /\ \A m \in Names : m # n => thread'[m] = thread[m]
  <2> SUFFICES \/ thread' = thread
               \/ \E at \in OfJobs : Goto(n, at)
               \/ Done(n)
    BY <1>0, GotoStays, DoneStays DEF OfJobs, StaysOrAt
  <2>1. CASE Open(n)
    BY <2>1 DEF Open, OfJobs
  <2>2. CASE Flag(n)
    BY <2>2 DEF Flag, OfJobs
  <2>3. CASE WalkTop(n) \/ WalkSub(n)
    BY <2>3 DEF WalkTop, WalkSub, Walk, OfJobs
  <2>4. CASE Prune(n)
    BY <2>4 DEF Prune, OfJobs
  <2>5. CASE \E q \in job[n].todo : Index(n, q)
    BY <2>5, IndexOutcomes
  <2>6. CASE End(n)
    BY <2>6 DEF End
  <2> QED
    BY <2>1, <2>2, <2>3, <2>4, <2>5, <2>6 DEF JobStep
<1>2. \A m \in Names : m # n => job'[m] = job[m]
  <2> SUFFICES job' = job \/ \E scan : job' = [job EXCEPT ![n] = scan]
    BY DEF TypeInv, JobsOK
  <2>1. CASE Open(n)
    BY <2>1 DEF Open
  <2>2. CASE Flag(n)
    BY <2>2 DEF Flag
  <2>3. CASE WalkTop(n) \/ WalkSub(n)
    BY <2>3 DEF WalkTop, WalkSub, Walk
  <2>4. CASE Prune(n)
    BY <2>4 DEF Prune
  <2>5. CASE \E q \in job[n].todo : Index(n, q)
    BY <2>5, IndexOutcomes
  <2>6. CASE End(n)
    BY <2>6 DEF End
  <2> QED
    BY <2>1, <2>2, <2>3, <2>4, <2>5, <2>6 DEF JobStep
<1>3. UNCHANGED <<mounted, plugged, others, choices, drives, memory>>
  <2>1. CASE Open(n) \/ Flag(n) \/ WalkTop(n) \/ WalkSub(n) \/ Prune(n) \/ End(n)
    BY <2>1 DEF Open, Flag, WalkTop, WalkSub, Walk, Prune, End, world
  <2>2. CASE \E q \in job[n].todo : Index(n, q)
    BY <2>2, IndexOutcomes
  <2> QED
    BY <2>1, <2>2 DEF JobStep
<1> QED
  BY <1>1, <1>2, <1>3

\* Steps of requests and of the scheduler, which leave the jobs where they are.
LEMMA OthersStay ==
  ASSUME TypeInv, Next, ~ \E n \in Names : JobStep(n), ~ \E o \in Owners : Look(o) \/ LookStep(o)
  PROVE  StaysOrAt(OfRequests)
<1>1. CASE thread' = thread
  BY <1>1 DEF StaysOrAt
<1>2. ASSUME NEW d \in Drives, Plug(d) \/ Dismiss(d) PROVE thread' = thread
  BY <1>2 DEF Plug, Dismiss
<1>3. ASSUME NEW p \in Places, Mount(p) \/ \E f \in Files : Edit(p, f) PROVE thread' = thread
  BY <1>3 DEF Mount, Edit
<1> QED
  BY <1>1, <1>2, <1>3, NextSteps, LitterStays, CallingStays, RefreshStays, RequestedStays, OwnerStepStays, StartStays, RestartStays

(***************************************************************************)
(* The looks.                                                              *)
(***************************************************************************)
LEMMA InitLooks == Init => LookInv
<1> SUFFICES ASSUME Init PROVE LookInv
  OBVIOUS
<1>1. \A o \in Owners : thread[o].at = "idle"
  BY DEF Init, Idle, Threads
<1>2. looked = FALSE /\ marked = FALSE /\ firstLook = {} /\ offered = {} /\ \A d \in Drives : seen[d] = "no"
  BY DEF Init
<1> QED
  BY <1>1, <1>2 DEF LookInv, MarkIsTheLook, LooksAreEarly, DrivesAreTold

LEMMA LooksStay ==
  ASSUME LookInv, UNCHANGED drives, NEW places, StaysOrAt(places),
         places \cap {"look", "first", "more", "offer"} = {}
  PROVE  LookInv'
BY DEF LookInv, MarkIsTheLook, LooksAreEarly, DrivesAreTold, StaysOrAt, drives, Threads

LEMMA LookSteps ==
  ASSUME TypeInv, LookInv, NEW o \in Owners, Look(o) \/ LookStep(o)
  PROVE  LookInv'
<1> USE DEF LookInv
<1>0. o \in Threads /\ Owners \subseteq Threads /\ thread[o] \in Calls /\ thread[o].listed \subseteq Drives
  BY DEF Threads, TypeInv, ThreadsOK, Calls, Call
<1>1. CASE Look(o)
  <2> DEFINE c == [Idle EXCEPT !.op = "look", !.at = IF Available THEN "browse" ELSE "missing"]
             places == {"browse", "missing"}
  <2>1. c.at \in places /\ thread' = [thread EXCEPT ![o] = c] /\ drives' = drives
    BY <1>1 DEF Look, Idle
  <2>2. places \cap {"look", "first", "more", "offer"} = {}
    OBVIOUS
  <2> HIDE DEF c, places
  <2>3. StaysOrAt(places)
    BY <1>0, <2>1, CallStays
  <2> QED
    BY <2>1, <2>2, <2>3, LooksStay
<1>6. CASE Browse(o)
  <2> DEFINE early == ~looked
             c == [thread[o] EXCEPT !.at = "look", !.listed = plugged, !.early = early]
  <2>1. thread' = [thread EXCEPT ![o] = c] /\ drives' = drives
    BY <1>6 DEF Browse
  <2>2. c.at = "look" /\ c.early = early
    BY <1>0 DEF Calls, Call
  <2> HIDE DEF c
  <2>3. \A u \in Owners : IF u = o THEN thread'[u] = c ELSE thread'[u] = thread[u]
    BY <1>0, <2>1 DEF TypeInv, ThreadsOK
  <2> QED
    BY <2>1, <2>2, <2>3 DEF MarkIsTheLook, LooksAreEarly, DrivesAreTold, drives
<1>2. CASE Recall(o)
  <2>1. thread[o].at = "look" /\ drives' = drives
    BY <1>2 DEF Recall
  <2>2. CASE Goto(o, "more") /\ (marked \/ \E d \in Drives : seen[d] # "no")
    <3>1. /\ \A u \in Owners : u # o => thread'[u] = thread[u]
          /\ thread'[o].at = "more"
      BY <1>0, <2>2, GotoStays
    <3> QED
      BY <2>1, <2>2, <3>1 DEF MarkIsTheLook, LooksAreEarly, DrivesAreTold, drives
  <2>3. CASE Goto(o, "first") /\ ~marked
    <3>1. /\ \A u \in Owners : u # o => thread'[u] = thread[u]
          /\ thread'[o].at = "first" /\ thread'[o].early = thread[o].early
      BY <1>0, <2>3, GotoStays
    <3>2. thread[o].early
      BY <2>1, <2>3 DEF LooksAreEarly
    <3> QED
      BY <2>1, <2>3, <3>1, <3>2 DEF MarkIsTheLook, LooksAreEarly, DrivesAreTold, drives
  <2> QED
    BY <1>2, <2>2, <2>3 DEF Recall
<1>3. CASE First(o)
  <2>1. \A u \in Owners : IF u = o THEN thread'[u].at = "missing" ELSE thread'[u] = thread[u]
    BY <1>0, <1>3, GotoStays DEF First
  <2>2. MarkIsTheLook' /\ LooksAreEarly'
    BY <1>3, <2>1 DEF First, MarkIsTheLook, LooksAreEarly
  <2>3. DrivesAreTold'
    <3>1. thread[o].early
      BY <1>3 DEF First, LooksAreEarly
    <3>2. \A d \in Drives : seen'[d] = IF d \in thread[o].listed /\ seen[d] = "no" THEN "known" ELSE seen[d]
      BY <1>3 DEF First, Inserted
    <3>3. \A d \in firstLook' : seen'[d] = "known"
      BY <1>0, <1>3, <3>2 DEF First, MarkIsTheLook, DrivesAreTold, TypeInv, DrivesOK
    <3>4. \A d \in offered' : seen'[d] \in {"new", "dismissed"}
      BY <1>3, <3>2 DEF First, DrivesAreTold, TypeInv, DrivesOK
    <3>5. \A d \in Drives : seen'[d] = "known" => d \in known'
      BY <1>3, <3>1, <3>2 DEF First, DrivesAreTold
    <3> QED
      BY <3>3, <3>4, <3>5 DEF DrivesAreTold
  <2> QED
    BY <2>2, <2>3
<1>4. CASE More(o)
  <2>1. \A u \in Owners : IF u = o THEN thread'[u].at = "offer" ELSE thread'[u] = thread[u]
    BY <1>0, <1>4, GotoStays DEF More
  <2>2. MarkIsTheLook' /\ LooksAreEarly'
    BY <1>4, <2>1 DEF More, MarkIsTheLook, LooksAreEarly
  <2>3. \A d \in Drives : seen'[d] = IF d \in thread[o].listed /\ seen[d] = "no" THEN "new" ELSE seen[d]
    BY <1>4 DEF More, Inserted
  <2>4. DrivesAreTold'
    BY <1>4, <2>3 DEF More, DrivesAreTold, TypeInv, DrivesOK
  <2> QED
    BY <2>2, <2>4
<1>5. CASE Offer(o)
  <2>1. \A u \in Owners : IF u = o THEN thread'[u].at = "idle" ELSE thread'[u] = thread[u]
    BY <1>0, <1>5, DoneStays DEF Offer
  <2>2. MarkIsTheLook' /\ LooksAreEarly'
    BY <1>5, <2>1 DEF Offer, MarkIsTheLook, LooksAreEarly
  <2>3. DrivesAreTold'
    BY <1>5 DEF Offer, DrivesAreTold
  <2> QED
    BY <2>2, <2>3
<1>7. CASE Missing(o)
  <2>1. Done(o) /\ UNCHANGED drives
    BY <1>7 DEF Missing
  <2> DEFINE places == {"idle"}
  <2>2. StaysOrAt(places)
    BY <1>0, <2>1, DoneStays
  <2> QED
    BY <2>1, <2>2, LooksStay
<1> QED
  BY <1>1, <1>2, <1>3, <1>4, <1>5, <1>6, <1>7 DEF LookStep

LEMMA NextLooks ==
  ASSUME TypeInv, LookInv, Next
  PROVE  LookInv'
<1>1. CASE \E o \in Owners : Look(o) \/ LookStep(o)
  BY <1>1, LookSteps
<1>2. CASE \E n \in Names : JobStep(n)
  <2>1. UNCHANGED drives /\ StaysOrAt(OfJobs)
    BY <1>2, JobStepStays
  <2>2. OfJobs \cap {"look", "first", "more", "offer"} = {}
    BY DEF OfJobs
  <2> QED
    BY <2>1, <2>2, LooksStay
<1>3. ASSUME NEW d \in Drives, Dismiss(d) PROVE LookInv'
  BY <1>3 DEF Dismiss, LookInv, MarkIsTheLook, LooksAreEarly, DrivesAreTold, TypeInv, DrivesOK
<1>4. CASE /\ ~ \E o \in Owners : Look(o) \/ LookStep(o)
           /\ ~ \E n \in Names : JobStep(n)
           /\ ~ \E d \in Drives : Dismiss(d)
  <2>1. StaysOrAt(OfRequests)
    BY <1>4, OthersStay
  <2>2. UNCHANGED drives
    <3>1. ASSUME NEW d \in Drives, Plug(d) PROVE UNCHANGED drives
      BY <3>1 DEF Plug
    <3>2. ASSUME NEW p \in Places, Mount(p) \/ \E f \in Files : Edit(p, f) PROVE UNCHANGED drives
      BY <3>2 DEF Mount, Edit
    <3> QED
      BY <1>4, <3>1, <3>2, NextSteps, LitterStays, CallingStays, RefreshStays, RequestedStays, OwnerStepStays, StartStays, RestartStays
  <2>3. OfRequests \cap {"look", "first", "more", "offer"} = {}
    BY DEF OfRequests
  <2> QED
    BY <2>1, <2>2, <2>3, LooksStay
<1> QED
  BY <1>1, <1>2, <1>3, <1>4

(***************************************************************************)
(* The scans.                                                              *)
(***************************************************************************)
LEMMA InitScans == Init => RootsAreSet /\ ScanInv
<1> SUFFICES ASSUME Init PROVE RootsAreSet /\ ScanInv
  OBVIOUS
<1>1. \A n \in Names : thread[n].at = "idle" /\ job[n].stayed = {}
  BY DEF Init, Idle, Threads, NoJob
<1> QED
  BY <1>1 DEF RootsAreSet, Walking, ScanInv, StayedIsThere, StayedIsFound

\* The steps of others: the jobs stay where they are, or all of them end.
LEMMA OthersKeepJobs ==
  ASSUME TypeInv, Next, ~ \E n \in Names : JobStep(n)
  PROVE  \/ Restart
         \/ \E p \in Places, f \in Files : Edit(p, f)
         \/ UNCHANGED <<disk, job>>
<1>1. ASSUME NEW d \in Drives, Plug(d) \/ Dismiss(d) PROVE UNCHANGED <<disk, job>>
  BY <1>1 DEF Plug, Dismiss, world
<1>2. ASSUME NEW p \in Places, Mount(p) PROVE UNCHANGED <<disk, job>>
  BY <1>2 DEF Mount
<1>3. ASSUME NEW o \in Owners, Look(o) \/ LookStep(o) PROVE UNCHANGED <<disk, job>>
  BY <1>3 DEF Look, LookStep, Browse, Recall, First, More, Offer, Missing, world
<1> QED
  BY <1>1, <1>2, <1>3, NextSteps, LitterStays, CallingStays, RefreshStays, RequestedStays, OwnerStepStays, StartStays DEF world

OfLooks == {"idle", "browse", "look", "more", "first", "offer", "missing"}

\* No step of another thread takes a job to a place of its scan or its queue.
LEMMA OthersLeaveJobs ==
  ASSUME TypeInv, Next, ~ \E n \in Names : JobStep(n)
  PROVE  \A n \in Names : thread'[n].at \notin {"flag", "top", "sub", "prune", "index"} \/ thread'[n].at = thread[n].at
<1>1. ASSUME NEW o \in Owners, Look(o) PROVE StaysOrAt(OfLooks)
  <2> DEFINE c == [Idle EXCEPT !.op = "look", !.at = IF Available THEN "browse" ELSE "missing"]
  <2>1. c.at \in OfLooks /\ thread' = [thread EXCEPT ![o] = c] /\ o \in Threads
    BY <1>1 DEF Look, Idle, Threads, OfLooks
  <2> HIDE DEF c
  <2> QED
    BY <2>1, CallStays
<1>2. ASSUME NEW o \in Owners, LookStep(o) PROVE StaysOrAt(OfLooks)
  <2>0. o \in Threads
    BY DEF Threads
  <2>1. CASE Browse(o)
    <3> DEFINE c == [thread[o] EXCEPT !.at = "look", !.listed = plugged, !.early = ~looked]
    <3>1. c.at \in OfLooks /\ thread' = [thread EXCEPT ![o] = c]
      BY <2>0, <2>1 DEF Browse, OfLooks, TypeInv, ThreadsOK, Calls, Call
    <3> HIDE DEF c
    <3> QED
      BY <2>0, <3>1, CallStays
  <2>2. CASE ~Browse(o)
    <3>1. Done(o) \/ \E at \in OfLooks : Goto(o, at)
      BY <1>2, <2>2 DEF LookStep, Recall, First, More, Offer, Missing, OfLooks
    <3> QED
      BY <2>0, <3>1, GotoStays, DoneStays DEF OfLooks
  <2> QED
    BY <2>1, <2>2
<1>3. Names \subseteq Threads
  BY DEF Threads
<1> QED
  BY <1>1, <1>2, <1>3, OthersStay DEF StaysOrAt, OfRequests, OfLooks

LEMMA NextRoots ==
  ASSUME TypeInv, RootsAreSet, Next
  PROVE  RootsAreSet'
<1> USE DEF RootsAreSet, Walking
<1>1. ASSUME NEW n \in Names, JobStep(n) PROVE RootsAreSet'
  <2>1. \A m \in Names : m # n => thread'[m] = thread[m] /\ job'[m] = job[m]
    BY <1>1, JobStepStays
  <2>2. n \in Threads /\ job[n] \in Scan
    BY DEF Threads, TypeInv, JobsOK
  <2>3. CASE Open(n)
    <3>1. CASE targets[n] \in mounted
      <4>1. job'[n].root = targets[n] /\ targets[n] \in Places
        BY <2>3, <3>1 DEF Open, TypeInv, JobsOK, WorldOK, NoJob
      <4> QED
        BY <2>1, <4>1
    <3>2. CASE targets[n] \notin mounted
      <4>1. Done(n)
        BY <2>3, <3>2 DEF Open
      <4>2. thread'[n].at = "idle"
        BY <2>2, <4>1, DoneStays
      <4> QED
        BY <2>1, <4>2
    <3> QED
      BY <3>1, <3>2
  <2>4. CASE End(n)
    <3>1. thread'[n].at = "idle"
      BY <2>2, <2>4, DoneStays DEF End
    <3> QED
      BY <2>1, <3>1
  <2>5. CASE Flag(n) \/ WalkTop(n) \/ WalkSub(n) \/ Prune(n) \/ \E q \in job[n].todo : Index(n, q)
    <3>1. job[n].root \in Places
      BY <2>5, IndexOutcomes DEF Flag, WalkTop, WalkSub, Walk, Prune
    <3>2. job'[n].root = job[n].root
      <4>1. CASE Flag(n)
        BY <2>2, <4>1 DEF Flag, TypeInv, JobsOK, Scan
      <4>2. CASE WalkTop(n) \/ WalkSub(n)
        BY <2>2, <4>2 DEF WalkTop, WalkSub, Walk, TypeInv, JobsOK, Scan
      <4>3. CASE Prune(n)
        BY <2>2, <4>3 DEF Prune, TypeInv, JobsOK, Scan
      <4>4. CASE \E q \in job[n].todo : Index(n, q)
        BY <2>2, <4>4, IndexOutcomes DEF TypeInv, JobsOK, Scan
      <4> QED
        BY <2>5, <4>1, <4>2, <4>3, <4>4
    <3> QED
      BY <2>1, <3>1, <3>2
  <2> QED
    BY <1>1, <2>3, <2>4, <2>5 DEF JobStep
<1>2. CASE ~ \E n \in Names : JobStep(n)
  <2>1. CASE Restart
    BY <2>1 DEF Restart, Idle, Threads
  <2>2. ASSUME NEW p \in Places, NEW f \in Files, Edit(p, f) PROVE RootsAreSet'
    <3>1. \A n \in Names : job'[n].root = job[n].root
      BY <2>2 DEF Edit, TypeInv, JobsOK, Scan
    <3> QED
      BY <2>2, <3>1 DEF Edit
  <2>3. CASE UNCHANGED <<disk, job>>
    BY <1>2, <2>3, OthersLeaveJobs
  <2> QED
    BY <1>2, <2>1, <2>2, <2>3, OthersKeepJobs
<1> QED
  BY <1>1, <1>2

\* What a listing finds of a folder that can be reached.
LEMMA WalkScans ==
  ASSUME TypeInv, RootsAreSet, ScanInv, NEW n \in Names, WalkTop(n) \/ WalkSub(n)
  PROVE  ScanInv'
<1> DEFINE p == job[n].root
<1>0. n \in Threads /\ job[n] \in Scan /\ job[n].stayed \subseteq Files
  BY DEF Threads, TypeInv, JobsOK, Scan
<1>1. \A m \in Names : m # n => thread'[m] = thread[m] /\ job'[m] = job[m]
  BY JobStepStays DEF JobStep
<1>2. disk' = disk /\ job'[n].root = job[n].root /\ job'[n].stayed = job[n].stayed
  BY <1>0 DEF WalkTop, WalkSub, Walk, TypeInv, JobsOK, Scan, world
<1>3. StayedIsThere'
  BY <1>1, <1>2 DEF ScanInv, StayedIsThere
<1>4. ASSUME job'[n].complete
      PROVE  /\ thread'[n].at = "sub" => job'[n].stayed \cap TopFiles \subseteq job'[n].found
             /\ thread'[n].at = "prune" => job'[n].stayed \subseteq job'[n].found
  <2>1. CASE WalkTop(n)
    <3>1. CASE ~Listable(p, TopFiles)
      BY <1>0, <1>4, <2>1, <3>1 DEF WalkTop, Walk, TypeInv, JobsOK, Scan
    <3>2. CASE Listable(p, TopFiles)
      <4>1. p \in mounted
        BY <3>2 DEF Listable
      <4>2. job'[n].found = job[n].found \cup At(p, TopFiles)
        BY <1>0, <2>1, <3>2, <4>1 DEF WalkTop, Walk, TypeInv, JobsOK, Scan
      <4>3. Goto(n, IF At(p, Files \ TopFiles) = {} THEN "prune" ELSE "sub")
        BY <2>1, <3>2, <4>1 DEF WalkTop, Walk
      <4>4. \A f \in job[n].stayed : f \in Files /\ disk[p][f] # "no"
        BY <1>0 DEF ScanInv, StayedIsThere
      <4>5. job'[n].stayed \cap TopFiles \subseteq job'[n].found
        BY <1>2, <4>2, <4>4 DEF At
      <4>6. CASE At(p, Files \ TopFiles) = {}
        <5>1. job[n].stayed \subseteq TopFiles
          BY <4>4, <4>6 DEF At
        <5> QED
          BY <1>2, <4>5, <5>1
      <4>7. CASE At(p, Files \ TopFiles) # {}
        <5>1. thread'[n].at = "sub"
          BY <1>0, <4>3, <4>7, GotoStays
        <5> QED
          BY <4>5, <5>1
      <4> QED
        BY <4>6, <4>7
    <3> QED
      BY <3>1, <3>2
  <2>2. CASE WalkSub(n)
    <3>1. CASE ~Listable(p, Files \ TopFiles)
      BY <1>0, <1>4, <2>2, <3>1 DEF WalkSub, Walk, TypeInv, JobsOK, Scan
    <3>2. CASE Listable(p, Files \ TopFiles)
      <4>1. p \in mounted
        BY <3>2 DEF Listable
      <4>2. /\ job'[n].found = job[n].found \cup At(p, Files \ TopFiles)
            /\ job'[n].complete = job[n].complete
        BY <1>0, <2>2, <3>2, <4>1 DEF WalkSub, Walk, TypeInv, JobsOK, Scan
      <4>3. job[n].stayed \cap TopFiles \subseteq job[n].found
        BY <1>4, <2>2, <4>2 DEF WalkSub, Walk, ScanInv, StayedIsFound
      <4>4. \A f \in job[n].stayed : f \in Files /\ disk[p][f] # "no"
        BY <1>0 DEF ScanInv, StayedIsThere
      <4> QED
        BY <1>2, <4>2, <4>3, <4>4 DEF At
    <3> QED
      BY <3>1, <3>2
  <2> QED
    BY <2>1, <2>2
<1>5. StayedIsFound'
  BY <1>1, <1>4 DEF ScanInv, StayedIsFound
<1> QED
  BY <1>3, <1>5 DEF ScanInv

LEMMA NextScans ==
  ASSUME TypeInv, RootsAreSet, ScanInv, Next
  PROVE  ScanInv'
<1> USE DEF ScanInv, StayedIsThere, StayedIsFound
<1>1. ASSUME NEW n \in Names, JobStep(n) PROVE ScanInv'
  <2>1. \A m \in Names : m # n => thread'[m] = thread[m] /\ job'[m] = job[m]
    BY <1>1, JobStepStays
  <2>2. n \in Threads /\ job[n] \in Scan
    BY DEF Threads, TypeInv, JobsOK
  <2>3. CASE Open(n)
    <3>1. disk' = disk
      BY <2>3 DEF Open, world
    <3>2. CASE targets[n] \in mounted
      <4>1. job'[n].stayed = {}
        BY <2>3, <3>2 DEF Open, TypeInv, JobsOK, NoJob
      <4> QED
        BY <2>1, <3>1, <4>1
    <3>3. CASE targets[n] \notin mounted
      <4>1. Done(n) /\ job' = job
        BY <2>3, <3>3 DEF Open
      <4>2. thread'[n].at = "idle"
        BY <2>2, <4>1, DoneStays
      <4> QED
        BY <2>1, <3>1, <4>1, <4>2
    <3> QED
      BY <3>2, <3>3
  <2>4. CASE Flag(n)
    <3>1. disk' = disk /\ job'[n].stayed = {f \in Files : disk[job[n].root][f] # "no"} /\ job'[n].root = job[n].root
      BY <2>2, <2>4 DEF Flag, world, TypeInv, JobsOK, Scan
    <3>2. thread'[n].at = "top"
      BY <2>2, <2>4, GotoStays DEF Flag
    <3>3. job[n].root \in Places
      BY <2>4 DEF Flag, RootsAreSet, Walking
    <3> QED
      BY <2>1, <3>1, <3>2, <3>3
  <2>5. CASE WalkTop(n) \/ WalkSub(n)
    BY <2>5, WalkScans
  <2>6. CASE Prune(n)
    <3>1. disk' = disk /\ job'[n].stayed = {}
      BY <2>2, <2>6 DEF Prune, world, TypeInv, JobsOK, Scan
    <3> QED
      BY <2>1, <3>1
  <2>7. ASSUME NEW q \in job[n].todo, Index(n, q) PROVE ScanInv'
    <3>1. job'[n].stayed = job[n].stayed /\ job'[n].root = job[n].root /\ thread'[n].at = "index"
      BY <2>2, <2>7, IndexOutcomes DEF TypeInv, JobsOK, Scan
    <3>2. disk' = disk \/ disk' = [disk EXCEPT ![job[n].root][q.file] = "here"]
      BY <2>7, IndexOutcomes DEF Unread, LeftAlone, Touched, Written, Read
    <3>3. ASSUME NEW p \in Places, NEW f \in Files, disk[p][f] # "no" PROVE disk'[p][f] # "no"
      BY <3>2, <3>3 DEF TypeInv, WorldOK
    <3> QED
      BY <2>1, <3>1, <3>3
  <2>8. CASE End(n)
    <3>1. disk' = disk /\ job'[n].stayed = {}
      BY <2>2, <2>8 DEF End, world, TypeInv, JobsOK, NoJob
    <3> QED
      BY <2>1, <3>1
  <2> QED
    BY <1>1, <2>3, <2>4, <2>5, <2>6, <2>7, <2>8 DEF JobStep
<1>2. CASE ~ \E n \in Names : JobStep(n)
  <2>1. CASE Restart
    BY <2>1 DEF Restart, NoJob
  <2>2. ASSUME NEW p \in Places, NEW f \in Files, Edit(p, f) PROVE ScanInv'
    <3>1. PICK s \in {"no", "online", "here"} : disk' = [disk EXCEPT ![p][f] = s]
      BY <2>2 DEF Edit
    <3>2. /\ job' = [n \in Names |-> IF job[n].root = p /\ disk'[p][f] = "no"
                                     THEN [job[n] EXCEPT !.stayed = @ \ {f}] ELSE job[n]]
          /\ thread' = thread
      BY <2>2 DEF Edit
    <3>3. ASSUME NEW n \in Names
          PROVE  /\ job'[n].root = job[n].root /\ job'[n].found = job[n].found /\ job'[n].complete = job[n].complete
                 /\ job'[n].stayed \subseteq job[n].stayed
                 /\ job[n].root = p /\ disk'[p][f] = "no" => f \notin job'[n].stayed
      BY <3>2 DEF TypeInv, JobsOK, Scan
    <3>4. \A q \in Places, g \in Files : disk'[q][g] = disk[q][g] \/ (q = p /\ g = f)
      BY <3>1 DEF TypeInv, WorldOK
    <3> QED
      BY <3>2, <3>3, <3>4
  <2>3. CASE UNCHANGED <<disk, job>>
    BY <1>2, <2>3, OthersLeaveJobs
  <2> QED
    BY <1>2, <2>1, <2>2, <2>3, OthersKeepJobs
<1> QED
  BY <1>1, <1>2

(***************************************************************************)
(* The rows.                                                               *)
(***************************************************************************)
LEMMA InitRows == Init => RowInv
<1> SUFFICES ASSUME Init PROVE RowInv
  OBVIOUS
<1>1. \A n \in Names : thread[n].at = "idle"
  BY DEF Init, Idle, Threads
<1>2. settled = {} /\ \A n \in Names, f \in Files : rows[n][f] = NoRow
  BY DEF Init
<1>3. NoRow.status = "none" /\ NoRow.hash = None
  BY DEF NoRow
<1> QED
  BY <1>1, <1>2, <1>3 DEF RowInv, FoundIsOfTheRoot, Walking, QueueIsAsRead, TextIsHashed, TextIsOfTheRow,
    SettledIsOfTheFolder

\* A job that stays where it is, and the rows too.
JobsStay == \A n \in Names : thread'[n].at \notin {"flag", "top", "sub", "prune", "index"} \/ thread'[n].at = thread[n].at

LEMMA RowsStay ==
  ASSUME RowInv, UNCHANGED <<ledger, settled, job, apps, removed>>, JobsStay
  PROVE  RowInv'
<1> USE DEF ledger
<1>1. FoundIsOfTheRoot' /\ QueueIsAsRead'
  BY DEF RowInv, FoundIsOfTheRoot, QueueIsAsRead, Walking, JobsStay
<1>2. TextIsHashed' /\ TextIsOfTheRow'
  BY DEF RowInv, TextIsHashed, TextIsOfTheRow
<1>3. SettledIsOfTheFolder'
  BY DEF RowInv, SettledIsOfTheFolder, Connected
<1> QED
  BY <1>1, <1>2, <1>3 DEF RowInv

\* What another name stands for does not change with one.
LEMMA ConnectedOthers ==
  ASSUME NEW n \in Names, NEW m \in Names, m # n,
         apps'[m] = apps[m], m \in removed' <=> m \in removed
  PROVE  Connected'[m] = Connected[m]
BY DEF Connected

LEMMA ChoicesKeepRows ==
  ASSUME TypeInv, RowInv, NEW o \in Owners, Insert(o) \/ Erase(o) \/ SetDownload(o), JobsStay
  PROVE  RowInv'
<1> DEFINE n == thread[o].name
<1>1. UNCHANGED <<ledger, job>> /\ o \in Threads /\ thread[o] \in Calls
  BY DEF Insert, Erase, SetDownload, Threads, TypeInv, ThreadsOK
<1>2. n \in Names
  BY <1>1 DEF Insert, Erase, SetDownload, Calls
<1>3. settled' \subseteq settled
  BY DEF Insert, Erase, SetDownload
<1>4. \A m \in settled' : m \in Names /\ Connected'[m].place = Connected[m].place
  <2> SUFFICES ASSUME NEW m \in settled' PROVE m \in Names /\ Connected'[m].place = Connected[m].place
    OBVIOUS
  <2>1. m \in Names
    BY <1>3 DEF TypeInv, RestOK
  <2>2. CASE UNCHANGED <<apps, removed>>
    BY <2>1, <2>2 DEF Connected
  <2>3. CASE Insert(o) /\ apps[n] = NoSource
    <3>1. m # n
      BY <2>3 DEF Insert
    <3>2. apps'[m] = apps[m] /\ (m \in removed' <=> m \in removed)
      BY <2>1, <2>3, <3>1 DEF Insert, TypeInv, ChoicesOK, Sources
    <3> QED
      BY <1>2, <2>1, <3>1, <3>2, ConnectedOthers
  <2>4. CASE Erase(o)
    <3>1. m # n
      BY <2>4 DEF Erase
    <3>2. apps'[m] = apps[m] /\ (m \in removed' <=> m \in removed)
      BY <2>1, <2>4, <3>1 DEF Erase, TypeInv, ChoicesOK, Sources
    <3> QED
      BY <1>2, <2>1, <3>1, <3>2, ConnectedOthers
  <2>5. CASE SetDownload(o) /\ apps[n] # NoSource
    <3>1. /\ apps' = [apps EXCEPT ![n].download = thread[o].flag] /\ removed' = removed
          /\ apps[n] \in Source /\ apps[n].app
      BY <1>2, <2>5 DEF SetDownload, TypeInv, ChoicesOK, AppsAreTheApps, Sources
    <3>2. apps'[n].app /\ apps'[n].place = apps[n].place
      BY <1>2, <3>1 DEF TypeInv, ChoicesOK, Sources, Source
    <3>3. apps'[n] # NoSource /\ apps[n] # NoSource
      BY <2>5, <3>2 DEF NoSource
    <3>4. Connected'[n].place = Connected[n].place
      BY <1>2, <3>2, <3>3 DEF Connected
    <3>5. m # n => Connected'[m] = Connected[m]
      BY <1>2, <2>1, <3>1, ConnectedOthers DEF TypeInv, ChoicesOK, Sources
    <3> QED
      BY <2>1, <3>4, <3>5
  <2> QED
    BY <2>1, <2>2, <2>3, <2>4, <2>5 DEF Insert, SetDownload, choices
<1>5. FoundIsOfTheRoot' /\ QueueIsAsRead'
  BY <1>1, <1>3 DEF RowInv, FoundIsOfTheRoot, QueueIsAsRead, Walking, JobsStay, ledger
<1>6. TextIsHashed' /\ TextIsOfTheRow'
  BY <1>1 DEF RowInv, TextIsHashed, TextIsOfTheRow, ledger
<1>7. SettledIsOfTheFolder'
  BY <1>1, <1>3, <1>4 DEF RowInv, SettledIsOfTheFolder, ledger
<1> QED
  BY <1>5, <1>6, <1>7 DEF RowInv

\* Rows are forgotten, or lose what they hash for another reading.
LEMMA RowsKeptOrCleared ==
  ASSUME RowInv, JobsStay, UNCHANGED <<misread, settled, job, apps, removed>>,
         \A m \in Names, f \in Files :
           \/ rows'[m][f] = rows[m][f] /\ chunks'[m][f] = chunks[m][f]
           \/ rows'[m][f] = NoRow /\ chunks'[m][f] = None
           \/ /\ rows[m][f].status = "skipped" /\ rows'[m][f].status = "pending" /\ rows'[m][f].hash = None
              /\ rows'[m][f].of = rows[m][f].of,
         settled \subseteq Names, \A m \in Names : job[m] \in Scan
  PROVE  RowInv'
<1>0. ~Live(NoRow) /\ NoRow.hash = None
  BY DEF Live, NoRow
<1>1. \A m \in Names, f \in Files : Live(rows'[m][f]) => Live(rows[m][f]) /\ rows'[m][f].of = rows[m][f].of
  BY <1>0 DEF Live
<1>2. FoundIsOfTheRoot'
  BY <1>1 DEF RowInv, FoundIsOfTheRoot, Walking, JobsStay, Scan
<1>3. QueueIsAsRead'
  <2> SUFFICES ASSUME NEW n \in Names, thread'[n].at = "index", NEW q \in job[n].todo
               PROVE  q.row.status = "pending" /\ rows'[n][q.file] \in {q.row, NoRow}
    BY DEF RowInv, QueueIsAsRead, JobsStay
  <2>1. q.row.status = "pending" /\ rows[n][q.file] \in {q.row, NoRow} /\ q.file \in Files
    BY DEF RowInv, QueueIsAsRead, JobsStay, Scan
  <2>2. rows[n][q.file].status # "skipped"
    BY <2>1 DEF NoRow
  <2> QED
    BY <2>1, <2>2
<1>4. TextIsHashed'
  BY <1>0 DEF RowInv, TextIsHashed
<1>5. TextIsOfTheRow'
  BY DEF RowInv, TextIsOfTheRow, NoRow
<1>6. SettledIsOfTheFolder'
  BY <1>1 DEF RowInv, SettledIsOfTheFolder, Connected
<1> QED
  BY <1>2, <1>3, <1>4, <1>5, <1>6 DEF RowInv

LEMMA ForgottenRows ==
  ASSUME TypeInv, NEW o \in Owners, Purge(o) \/ Requeue(o), NEW m \in Names, NEW f \in Files
  PROVE  \/ rows'[m][f] = rows[m][f] /\ chunks'[m][f] = chunks[m][f]
         \/ rows'[m][f] = NoRow /\ chunks'[m][f] = None
         \/ /\ rows[m][f].status = "skipped" /\ rows'[m][f].status = "pending" /\ rows'[m][f].hash = None
            /\ rows'[m][f].of = rows[m][f].of
<1>1. CASE Purge(o)
  BY <1>1 DEF Purge, TypeInv, LedgerOK
<1>2. CASE Requeue(o)
  <2>1. chunks' = chunks
    BY <1>2 DEF Requeue
  <2>2. \/ rows'[m][f] = rows[m][f]
        \/ /\ rows[m][f].status = "skipped"
           /\ rows'[m][f] = [rows[m][f] EXCEPT !.status = "pending", !.reason = "none", !.hash = None]
    BY <1>2 DEF Requeue, TypeInv, LedgerOK
  <2>3. rows[m][f] \in Row
    BY DEF TypeInv, LedgerOK
  <2> QED
    BY <2>1, <2>2, <2>3 DEF Row
<1> QED
  BY <1>1, <1>2

LEMMA ForgettingKeepsRows ==
  ASSUME TypeInv, RowInv, NEW o \in Owners, Purge(o) \/ Requeue(o), JobsStay
  PROVE  RowInv'
<1>1. UNCHANGED <<misread, settled, job, apps, removed>>
  BY DEF Purge, Requeue, choices
<1>2. settled \subseteq Names /\ \A m \in Names : job[m] \in Scan
  BY DEF TypeInv, RestOK, JobsOK
<1> QED
  BY <1>1, <1>2, ForgottenRows, RowsKeptOrCleared

\* The rows of another job are not touched by a step of this one.
LEMMA JobKeepsOthers ==
  ASSUME TypeInv, RowInv, NEW n \in Names, JobStep(n),
         \A m \in Names : m # n => rows'[m] = rows[m] /\ chunks'[m] = chunks[m],
         \A m \in Names, f \in Files : m # n => (<<m, f>> \in misread' <=> <<m, f>> \in misread),
         \A m \in Names : m # n => (m \in settled' <=> m \in settled),
         settled' \subseteq Names,
         Walking(n)' => /\ n \notin settled'
                        /\ \A f \in job'[n].found : Live(rows'[n][f]) => rows'[n][f].of = job'[n].root,
         thread'[n].at = "index" =>
           /\ \A q \in job'[n].todo : q.row.status = "pending" /\ rows'[n][q.file] \in {q.row, NoRow}
           /\ \A q, r \in job'[n].todo : q.file = r.file => q = r,
         \A f \in Files : rows'[n][f].hash # None => chunks'[n][f] \in {None, rows'[n][f].hash},
         \A f \in Files : rows'[n][f].status = "indexed" /\ <<n, f>> \notin misread' =>
                            chunks'[n][f] \in {None, rows'[n][f].of},
         n \in settled' => \A f \in Files : Live(rows'[n][f]) => rows'[n][f].of = Connected[n].place
  PROVE  RowInv'
<1>1. /\ \A m \in Names : m # n => thread'[m] = thread[m] /\ job'[m] = job[m]
      /\ apps' = apps /\ removed' = removed
  BY JobStepStays DEF choices
<1>2. FoundIsOfTheRoot'
  BY <1>1 DEF RowInv, FoundIsOfTheRoot, Walking
<1>3. QueueIsAsRead'
  BY <1>1 DEF RowInv, QueueIsAsRead
<1>4. TextIsHashed'
  BY DEF RowInv, TextIsHashed
<1>5. TextIsOfTheRow'
  BY DEF RowInv, TextIsOfTheRow
<1>6. SettledIsOfTheFolder'
  <2>1. Connected' = Connected
    BY <1>1 DEF Connected
  <2> QED
    BY <2>1 DEF RowInv, SettledIsOfTheFolder
<1> QED
  BY <1>2, <1>3, <1>4, <1>5, <1>6 DEF RowInv

\* Steps of a job that leave the rows alone.
LEMMA OpenFlagEndRows ==
  ASSUME TypeInv, RowInv, NEW n \in Names, Open(n) \/ Flag(n) \/ End(n)
  PROVE  RowInv'
<1>0. n \in Threads /\ job[n] \in Scan
  BY DEF Threads, TypeInv, JobsOK
<1>1. rows' = rows /\ chunks' = chunks /\ misread' = misread
  BY DEF Open, Flag, End, ledger
<1>2. \A m \in Names : m # n => (m \in settled' <=> m \in settled)
  BY DEF Open, Flag, End
<1>3. settled' \subseteq settled /\ settled \subseteq Names
  BY DEF Open, Flag, End, TypeInv, RestOK
<1>4. thread'[n].at # "index"
  <2>1. CASE Open(n)
    BY <1>0, <2>1, GotoGoes, DoneGoes DEF Open
  <2>2. CASE Flag(n)
    BY <1>0, <2>2, GotoGoes DEF Flag
  <2>3. CASE End(n)
    BY <1>0, <2>3, DoneGoes DEF End
  <2> QED
    BY <2>1, <2>2, <2>3
<1>5. ASSUME Walking(n)'
      PROVE  /\ n \notin settled'
             /\ \A f \in job'[n].found : Live(rows'[n][f]) => rows'[n][f].of = job'[n].root
  <2>1. CASE Open(n)
    <3>1. CASE targets[n] \in mounted
      BY <2>1, <3>1 DEF Open, TypeInv, JobsOK, NoJob
    <3>2. CASE targets[n] \notin mounted
      <4>1. thread'[n].at = "idle"
        BY <1>0, <2>1, <3>2, DoneGoes DEF Open
      <4> QED
        BY <1>5, <4>1 DEF Walking
    <3> QED
      BY <3>1, <3>2
  <2>2. CASE Flag(n)
    <3>1. job'[n].found = job[n].found /\ job'[n].root = job[n].root
      <4>1. PICK skip, stayed : job' = [job EXCEPT ![n] = [job[n] EXCEPT !.skip = skip, !.stayed = stayed]]
        <5>1. PICK src \in specs :
                job' = [job EXCEPT ![n].skip = src[n].place \in Cloud /\ ~src[n].download,
                                    ![n].stayed = {f \in Files : disk[job[n].root][f] # "no"}]
          BY <2>2 DEF Flag
        <5> DEFINE skip == src[n].place \in Cloud /\ ~src[n].download
                   stayed == {f \in Files : disk[job[n].root][f] # "no"}
        <5>2. job' = [job EXCEPT ![n] = [job[n] EXCEPT !.skip = skip, !.stayed = stayed]]
          BY <5>1
        <5> HIDE DEF skip, stayed
        <5> QED
          BY <5>2
      <4> QED
        BY <1>0, <4>1 DEF TypeInv, JobsOK, Scan
    <3> QED
      BY <1>1, <2>2, <3>1 DEF Flag, RowInv, FoundIsOfTheRoot, Walking
  <2>3. CASE End(n)
    <3>1. thread'[n].at = "idle"
      BY <1>0, <2>3, DoneGoes DEF End
    <3> QED
      BY <1>5, <3>1 DEF Walking
  <2> QED
    BY <2>1, <2>2, <2>3
<1>6. /\ \A f \in Files : rows'[n][f].hash # None => chunks'[n][f] \in {None, rows'[n][f].hash}
      /\ \A f \in Files : rows'[n][f].status = "indexed" /\ <<n, f>> \notin misread' =>
                            chunks'[n][f] \in {None, rows'[n][f].of}
  BY <1>1 DEF RowInv, TextIsHashed, TextIsOfTheRow
<1>7. n \in settled' => \A f \in Files : Live(rows'[n][f]) => rows'[n][f].of = Connected[n].place
  BY <1>1, <1>3 DEF RowInv, SettledIsOfTheFolder, Live
<1> QED
  BY <1>1, <1>2, <1>3, <1>4, <1>5, <1>6, <1>7, JobKeepsOthers DEF JobStep

\* A listing, and what it leaves.
WalkedAll(n, files) ==
  LET p == job[n].root
      there == IF p \in mounted THEN At(p, files) ELSE {}
  IN  /\ \E due \in BOOLEAN :
           rows' = [rows EXCEPT ![n] = [f \in Files |-> IF f \in there THEN Observed(@[f], p, due) ELSE @[f]]]
      /\ job' = [job EXCEPT ![n].found = @ \cup there]

Walked(n, there, due) ==
  /\ \A m \in Names, f \in Files :
       rows'[m][f] = IF m = n /\ f \in there THEN Observed(rows[n][f], job[n].root, due) ELSE rows[m][f]
  /\ job'[n].found \subseteq job[n].found \cup there
  /\ job'[n].root = job[n].root

LEMMA WalkObserves ==
  ASSUME TypeInv, NEW n \in Names, WalkTop(n) \/ WalkSub(n)
  PROVE  \E there \in SUBSET Files, due \in BOOLEAN : Walked(n, there, due)
<1> DEFINE p == job[n].root
<1>0. job[n] \in Scan
  BY DEF TypeInv, JobsOK
<1>1. CASE rows' = rows /\ job' = [job EXCEPT ![n].complete = FALSE]
  <2>1. Walked(n, {}, TRUE)
    BY <1>0, <1>1 DEF Walked, TypeInv, JobsOK, Scan
  <2> QED
    BY <2>1
<1>2. ASSUME NEW files \in SUBSET Files, WalkedAll(n, files)
      PROVE  \E there \in SUBSET Files, due \in BOOLEAN : Walked(n, there, due)
  <2> DEFINE there == IF p \in mounted THEN At(p, files) ELSE {}
  <2>1. there \in SUBSET Files
    BY DEF At
  <2>2. PICK due \in BOOLEAN :
          rows' = [rows EXCEPT ![n] = [f \in Files |-> IF f \in there THEN Observed(@[f], p, due) ELSE @[f]]]
    BY <1>2 DEF WalkedAll
  <2>3. job' = [job EXCEPT ![n].found = @ \cup there]
    BY <1>2 DEF WalkedAll
  <2> HIDE DEF there
  <2>4. \A m \in Names, f \in Files :
          rows'[m][f] = IF m = n /\ f \in there THEN Observed(rows[n][f], p, due) ELSE rows[m][f]
    BY <2>2 DEF TypeInv, LedgerOK
  <2>5. job'[n].found \subseteq job[n].found \cup there /\ job'[n].root = p
    BY <1>0, <2>3 DEF TypeInv, JobsOK, Scan
  <2>6. Walked(n, there, due)
    BY <2>4, <2>5 DEF Walked
  <2> QED
    BY <2>1, <2>6
<1>3. \/ rows' = rows /\ job' = [job EXCEPT ![n].complete = FALSE]
      \/ \E files \in SUBSET Files : WalkedAll(n, files)
  <2>1. TopFiles \in SUBSET Files /\ Files \ TopFiles \in SUBSET Files
    BY FoldersAssumption
  <2>2. CASE WalkTop(n)
    BY <2>1, <2>2 DEF WalkTop, Walk, WalkedAll
  <2>3. CASE WalkSub(n)
    BY <2>1, <2>3 DEF WalkSub, Walk, WalkedAll
  <2> QED
    BY <2>2, <2>3
<1> QED
  BY <1>1, <1>2, <1>3

\* What a listing finds is of the folder.
LEMMA WalkRows ==
  ASSUME TypeInv, RootsAreSet, RowInv, NEW n \in Names, WalkTop(n) \/ WalkSub(n)
  PROVE  RowInv'
<1> DEFINE p == job[n].root
<1>0. n \in Threads /\ job[n] \in Scan /\ p \in Places /\ Walking(n)
  BY DEF Threads, TypeInv, JobsOK, WalkTop, WalkSub, Walk, RootsAreSet, Walking
<1>1. chunks' = chunks /\ misread' = misread /\ settled' = settled
  BY DEF WalkTop, WalkSub, Walk
<1>2. PICK there \in SUBSET Files, due \in BOOLEAN : Walked(n, there, due)
  BY WalkObserves
<1>3. \A m \in Names : m # n => rows'[m] = rows[m]
  BY DEF WalkTop, WalkSub, Walk, TypeInv, LedgerOK
<1>4. thread'[n].at # "index"
  <2>1. Goto(n, "prune") \/ Goto(n, "sub")
    BY DEF WalkTop, WalkSub, Walk
  <2> QED
    BY <1>0, <2>1, GotoGoes
<1>5. \A f \in Files : rows[n][f] \in Row /\ (rows[n][f] = NoRow \/ rows[n][f].of # None)
  BY DEF TypeInv, LedgerOK
<1>6. n \notin settled' /\ \A f \in job'[n].found : Live(rows'[n][f]) => rows'[n][f].of = job'[n].root
  <2>1. n \notin settled /\ \A f \in job[n].found : Live(rows[n][f]) => rows[n][f].of = p
    BY <1>0 DEF RowInv, FoundIsOfTheRoot
  <2>2. job[n].found \subseteq Files
    BY <1>0 DEF Scan
  <2> QED
    BY <1>0, <1>1, <1>2, <1>5, <2>1, <2>2, ObservedTyped DEF Live, Walked
<1>7. \A f \in Files : rows'[n][f].hash # None => chunks'[n][f] \in {None, rows'[n][f].hash}
  BY <1>0, <1>1, <1>2, <1>5, ObservedTyped DEF Walked, RowInv, TextIsHashed
<1>8. \A f \in Files : rows'[n][f].status = "indexed" /\ <<n, f>> \notin misread' =>
                         chunks'[n][f] \in {None, rows'[n][f].of}
  BY <1>0, <1>1, <1>2, <1>5, ObservedTyped DEF Walked, RowInv, TextIsOfTheRow
<1> QED
  BY <1>1, <1>3, <1>4, <1>6, <1>7, <1>8, JobKeepsOthers DEF JobStep, TypeInv, RestOK

\* A prune: after a complete scan only what was found is left, and only what is
\* left is queued.
LEMMA PruneRows ==
  ASSUME TypeInv, RowInv, NEW n \in Names, Prune(n)
  PROVE  RowInv'
<1> DEFINE p == job[n].root
           gone == {f \in Files \ job[n].found : job[n].complete /\ Live(rows[n][f])}
           todo == {[file |-> f, row |-> rows[n][f]] : f \in Pending(n) \ gone}
<1>0. n \in Threads /\ job[n] \in Scan /\ Walking(n)
  BY DEF Threads, TypeInv, JobsOK, Prune, Walking
<1>1. /\ rows' = [rows EXCEPT ![n] = [f \in Files |-> IF f \in gone THEN [@[f] EXCEPT !.status = "deleted"] ELSE @[f]]]
      /\ chunks' = [chunks EXCEPT ![n] = [f \in Files |-> IF f \in gone THEN None ELSE @[f]]]
      /\ misread' = misread
      /\ job' = [job EXCEPT ![n] = [job[n] EXCEPT !.todo = todo, !.stayed = {}, !.found = {}]]
      /\ settled' = IF job[n].complete /\ Connected[n].place = p THEN settled \cup {n} ELSE settled
  BY DEF Prune
<1>2. thread'[n].at = "index"
  BY <1>0, GotoGoes DEF Prune
<1>3. \A q \in todo : q.file \in Files \ gone /\ q.row = rows[n][q.file] /\ q.row.status = "pending"
  BY DEF Pending
<1>4. \A f \in gone : job[n].complete /\ f \notin job[n].found
  OBVIOUS
<1>5. \A f \in Files : job[n].complete /\ f \notin job[n].found /\ Live(rows[n][f]) => f \in gone
  OBVIOUS
<1>6. \A q, r \in todo : q.file = r.file => q = r
  OBVIOUS
<1> HIDE DEF gone, todo
<1>7. job'[n].todo = todo
  BY <1>0, <1>1 DEF TypeInv, JobsOK, Scan
<1>8. \A m \in Names : m # n => rows'[m] = rows[m] /\ chunks'[m] = chunks[m]
  BY <1>1 DEF TypeInv, LedgerOK
<1>9. \A f \in Files : IF f \in gone THEN rows'[n][f].status = "deleted" /\ chunks'[n][f] = None
                       ELSE rows'[n][f] = rows[n][f] /\ chunks'[n][f] = chunks[n][f]
  BY <1>1 DEF TypeInv, LedgerOK, Row
<1>10. \A q \in job'[n].todo : q.row.status = "pending" /\ rows'[n][q.file] \in {q.row, NoRow}
  BY <1>3, <1>7, <1>9
<1>11. /\ \A f \in Files : rows'[n][f].hash # None => chunks'[n][f] \in {None, rows'[n][f].hash}
       /\ \A f \in Files : rows'[n][f].status = "indexed" /\ <<n, f>> \notin misread' =>
                             chunks'[n][f] \in {None, rows'[n][f].of}
  BY <1>1, <1>9 DEF RowInv, TextIsHashed, TextIsOfTheRow
<1>12. n \in settled' => \A f \in Files : Live(rows'[n][f]) => rows'[n][f].of = Connected[n].place
  <2> SUFFICES ASSUME n \in settled', NEW f \in Files, Live(rows'[n][f]) PROVE rows'[n][f].of = Connected[n].place
    OBVIOUS
  <2>1. n \notin settled /\ \A g \in job[n].found : Live(rows[n][g]) => rows[n][g].of = p
    BY <1>0 DEF RowInv, FoundIsOfTheRoot
  <2>2. job[n].complete /\ Connected[n].place = p
    BY <1>1, <2>1
  <2>3. f \notin gone /\ rows'[n][f] = rows[n][f]
    BY <1>9 DEF Live
  <2>4. f \in job[n].found
    BY <1>5, <2>2, <2>3
  <2> QED
    BY <2>1, <2>2, <2>3, <2>4
<1>13. \A m \in Names : m # n => (m \in settled' <=> m \in settled)
  BY <1>1
<1>14. settled' \subseteq Names
  BY <1>1 DEF TypeInv, RestOK
<1>15. ~Walking(n)'
  BY <1>2 DEF Walking
<1>16. \A m \in Names, g \in Files : m # n => (<<m, g>> \in misread' <=> <<m, g>> \in misread)
  BY <1>1
<1>17. JobStep(n)
  BY DEF JobStep
<1>18. \A q, r \in job'[n].todo : q.file = r.file => q = r
  BY <1>6, <1>7
<1> HIDE DEF p
<1> QED
  BY <1>8, <1>10, <1>11, <1>12, <1>13, <1>14, <1>15, <1>16, <1>17, <1>18, JobKeepsOthers

\* A row of the queue.
LEMMA IndexRows ==
  ASSUME TypeInv, RootsAreSet, RowInv, NEW n \in Names, NEW q \in job[n].todo, Index(n, q)
  PROVE  RowInv'
<1> DEFINE p == job[n].root
           f == q.file
           row == rows[n][f]
<1>0. /\ n \in Threads /\ job[n] \in Scan /\ thread[n].at = "index"
      /\ f \in Files /\ row \in Row /\ p \in Places /\ p # None
  BY FoldersAssumption DEF Threads, TypeInv, JobsOK, Scan, LedgerOK, Index, RootsAreSet
<1>1. /\ job' = [job EXCEPT ![n].todo = @ \ {q}] /\ thread' = thread /\ settled' = settled
  BY IndexOutcomes
<1>2. q.row.status = "pending" /\ row \in {q.row, NoRow}
  BY <1>0 DEF RowInv, QueueIsAsRead
<1>3. row = NoRow \/ (row = q.row /\ row.status = "pending")
  BY <1>2
<1>4. PICK new \in Row :
        /\ new.of = row.of /\ Update(n, f, new)
        /\ \/ Unread(n, f, p) /\ new.status = "failed" /\ new.hash = row.hash
           \/ LeftAlone(n, f, p) /\ new.status = "skipped" /\ new.hash = None
           \/ q.row.hash = p /\ Touched(n, f, p) /\ new.hash = row.hash
           \/ Written(n, f, p) /\ new.hash = p
  <2> DEFINE a == [row EXCEPT !.status = "failed", !.reason = "failed"]
             b == [row EXCEPT !.status = "skipped", !.reason = "online", !.hash = None]
             c(status) == [row EXCEPT !.status = status]
             d == [row EXCEPT !.status = "indexed", !.reason = "none", !.hash = p]
  <2>1. /\ a \in Row /\ a.of = row.of /\ a.status = "failed" /\ a.hash = row.hash
        /\ b \in Row /\ b.of = row.of /\ b.status = "skipped" /\ b.hash = None
        /\ d \in Row /\ d.of = row.of /\ d.hash = p
    BY <1>0 DEF Row
  <2>2. \A status \in {"indexed", "skipped"} : c(status) \in Row /\ c(status).of = row.of /\ c(status).hash = row.hash
    BY <1>0 DEF Row
  <2>3. CASE Unread(n, f, p)
    <3>1. Update(n, f, a)
      BY <2>3 DEF Unread
    <3> QED
      BY <2>1, <2>3, <3>1
  <2>4. CASE LeftAlone(n, f, p)
    <3>1. Update(n, f, b)
      BY <2>4 DEF LeftAlone
    <3> QED
      BY <2>1, <2>4, <3>1
  <2>5. CASE q.row.hash = p /\ Touched(n, f, p)
    <3>1. PICK status \in {"indexed", "skipped"} : Update(n, f, c(status))
      BY <2>5 DEF Touched
    <3> QED
      BY <2>2, <2>5, <3>1
  <2>6. CASE Written(n, f, p)
    <3>1. Update(n, f, d)
      BY <2>6 DEF Written
    <3> QED
      BY <2>1, <2>6, <3>1
  <2> QED
    BY <2>3, <2>4, <2>5, <2>6, IndexOutcomes
<1>5. /\ \A m \in Names, g \in Files : ~(m = n /\ g = f) => rows'[m][g] = rows[m][g]
      /\ row.status = "none" => rows'[n][f] = row
      /\ row.status # "none" => rows'[n][f] = new
  BY <1>0, <1>4, UpdateTyped
<1>6. /\ rows' \in [Names -> [Files -> Row]] /\ chunks' \in [Names -> [Files -> Places \cup {None}]]
      /\ settled \subseteq Names
  <2>1. TypeInv'
    BY <1>0, IndexTypes
  <2> QED
    BY <2>1 DEF TypeInv, LedgerOK, RestOK
<1>7. /\ \A m \in Names, g \in Files : ~(m = n /\ g = f) =>
           chunks'[m][g] = chunks[m][g] /\ (<<m, g>> \in misread' <=> <<m, g>> \in misread)
  <2>1. chunks' = chunks \/ \E c : chunks' = [chunks EXCEPT ![n][f] = c]
    BY <1>4 DEF Unread, LeftAlone, Touched, Written
  <2>2. misread' = misread \/ misread' = misread \cup {<<n, f>>} \/ misread' = misread \ {<<n, f>>}
    BY <1>4 DEF Unread, LeftAlone, Touched, Written, Read
  <2> QED
    BY <2>1, <2>2 DEF TypeInv, LedgerOK
<1>8. \A m \in Names : m # n => rows'[m] = rows[m] /\ chunks'[m] = chunks[m]
  <2> SUFFICES ASSUME NEW m \in Names, m # n PROVE rows'[m] = rows[m] /\ chunks'[m] = chunks[m]
    OBVIOUS
  <2>1. /\ rows[m] \in [Files -> Row] /\ rows'[m] \in [Files -> Row]
        /\ chunks[m] \in [Files -> Places \cup {None}] /\ chunks'[m] \in [Files -> Places \cup {None}]
    BY <1>6 DEF TypeInv, LedgerOK
  <2>2. \A g \in Files : rows'[m][g] = rows[m][g] /\ chunks'[m][g] = chunks[m][g]
    BY <1>5, <1>7
  <2> QED
    BY <2>1, <2>2
<1>9. /\ \A r \in job'[n].todo : r.row.status = "pending" /\ rows'[n][r.file] \in {r.row, NoRow}
      /\ \A r, u \in job'[n].todo : r.file = u.file => r = u
  <2>1. job'[n].todo = job[n].todo \ {q} /\ \A r \in job[n].todo : r.file \in Files
    BY <1>0, <1>1 DEF TypeInv, JobsOK, Scan
  <2>2. /\ \A r \in job[n].todo : r.row.status = "pending" /\ rows[n][r.file] \in {r.row, NoRow}
        /\ \A r, u \in job[n].todo : r.file = u.file => r = u
    BY <1>0 DEF RowInv, QueueIsAsRead
  <2>3. \A r \in job'[n].todo : r.file # f
    BY <2>1, <2>2
  <2> QED
    BY <1>5, <2>1, <2>2, <2>3
<1>10. NoRow.hash = None /\ NoRow.status = "none"
  BY DEF NoRow
<1>11. row.hash # None => chunks[n][f] \in {None, row.hash}
  BY <1>0 DEF RowInv, TextIsHashed
<1>12. /\ rows'[n][f].hash # None => chunks'[n][f] \in {None, rows'[n][f].hash}
       /\ rows'[n][f].status = "indexed" /\ <<n, f>> \notin misread' => chunks'[n][f] \in {None, rows'[n][f].of}
  <2>1. CASE row = NoRow
    BY <1>5, <1>10, <2>1
  <2>2. CASE row = q.row /\ row.status = "pending"
    <3>1. rows'[n][f] = new
      BY <1>5, <2>2
    <3>2. CASE Unread(n, f, p) /\ new.status = "failed" /\ new.hash = row.hash
      BY <1>11, <3>1, <3>2 DEF Unread
    <3>3. CASE LeftAlone(n, f, p) /\ new.status = "skipped" /\ new.hash = None
      BY <3>1, <3>3
    <3>4. CASE q.row.hash = p /\ Touched(n, f, p) /\ new.hash = row.hash
      <4>1. chunks' = chunks /\ (row.of = p \/ <<n, f>> \in misread')
        BY <2>2, <3>4 DEF Touched, Read
      <4>2. chunks[n][f] \in {None, p}
        BY <1>0, <1>11, <2>2, <3>4
      <4> QED
        BY <1>4, <2>2, <3>1, <3>4, <4>1, <4>2
    <3>5. CASE Written(n, f, p) /\ new.hash = p
      <4>1. chunks' = [chunks EXCEPT ![n][f] = p] /\ (row.of = p \/ <<n, f>> \in misread')
        BY <2>2, <3>5 DEF Written, Read
      <4>2. chunks'[n][f] = p
        BY <1>0, <4>1 DEF TypeInv, LedgerOK
      <4> QED
        BY <1>4, <3>1, <3>5, <4>1, <4>2
    <3> QED
      BY <1>4, <3>2, <3>3, <3>4, <3>5
  <2> QED
    BY <1>3, <2>1, <2>2
<1>13. /\ \A g \in Files : rows'[n][g].hash # None => chunks'[n][g] \in {None, rows'[n][g].hash}
       /\ \A g \in Files : rows'[n][g].status = "indexed" /\ <<n, g>> \notin misread' =>
                             chunks'[n][g] \in {None, rows'[n][g].of}
  BY <1>5, <1>7, <1>12 DEF RowInv, TextIsHashed, TextIsOfTheRow
<1>14. n \in settled' => \A g \in Files : Live(rows'[n][g]) => rows'[n][g].of = Connected[n].place
  <2> SUFFICES ASSUME n \in settled, NEW g \in Files, Live(rows'[n][g])
               PROVE  rows'[n][g].of = Connected[n].place
    BY <1>1
  <2>1. Live(rows[n][g]) => rows[n][g].of = Connected[n].place
    BY DEF RowInv, SettledIsOfTheFolder
  <2>2. CASE g # f
    BY <1>5, <2>1, <2>2
  <2>3. CASE g = f
    <3>1. row.status # "none" /\ row.status = "pending"
      BY <1>3, <1>5, <1>10, <2>3 DEF Live
    <3>2. Live(rows[n][f]) /\ rows'[n][f].of = row.of
      BY <1>4, <1>5, <3>1 DEF Live
    <3> QED
      BY <2>1, <2>3, <3>2
  <2> QED
    BY <2>2, <2>3
<1>15. ~Walking(n)'
  BY <1>0, <1>1 DEF Walking
<1>16. \A m \in Names, g \in Files : m # n => (<<m, g>> \in misread' <=> <<m, g>> \in misread)
  BY <1>7
<1>17. JobStep(n)
  BY DEF JobStep
<1> HIDE DEF p, f, row
<1> QED
  BY <1>1, <1>6, <1>8, <1>9, <1>13, <1>14, <1>15, <1>16, <1>17, JobKeepsOthers

LEMMA NextRows ==
  ASSUME TypeInv, RootsAreSet, RowInv, Next
  PROVE  RowInv'
<1>1. ASSUME NEW n \in Names, JobStep(n) PROVE RowInv'
  BY <1>1, OpenFlagEndRows, WalkRows, PruneRows, IndexRows DEF JobStep
<1>2. CASE ~ \E n \in Names : JobStep(n)
  <2>1. JobsStay
    BY <1>2, OthersLeaveJobs DEF JobsStay
  <2>2. CASE Restart
    <3>1. \A n \in Names : thread'[n].at = "idle"
      BY <2>2 DEF Restart, Idle, Threads
    <3>2. UNCHANGED <<rows, chunks, misread, settled, apps, removed>>
      BY <2>2 DEF Restart, ledger, choices
    <3>3. FoundIsOfTheRoot' /\ QueueIsAsRead'
      BY <3>1 DEF FoundIsOfTheRoot, QueueIsAsRead, Walking
    <3>4. TextIsHashed' /\ TextIsOfTheRow'
      BY <3>2 DEF RowInv, TextIsHashed, TextIsOfTheRow
    <3>5. SettledIsOfTheFolder'
      BY <3>2 DEF RowInv, SettledIsOfTheFolder, Connected
    <3> QED
      BY <3>3, <3>4, <3>5 DEF RowInv
  <2>3. ASSUME NEW p \in Places, NEW f \in Files, Edit(p, f) PROVE RowInv'
    <3>1. UNCHANGED <<rows, chunks, misread, settled, apps, removed, thread>>
      BY <2>3 DEF Edit, ledger, choices
    <3>2. \A n \in Names : job'[n].root = job[n].root /\ job'[n].found = job[n].found /\ job'[n].todo = job[n].todo
      BY <2>3 DEF Edit, TypeInv, JobsOK, Scan
    <3>3. FoundIsOfTheRoot' /\ QueueIsAsRead'
      BY <3>1, <3>2 DEF RowInv, FoundIsOfTheRoot, QueueIsAsRead, Walking
    <3>4. TextIsHashed' /\ TextIsOfTheRow'
      BY <3>1 DEF RowInv, TextIsHashed, TextIsOfTheRow
    <3>5. SettledIsOfTheFolder'
      BY <3>1 DEF RowInv, SettledIsOfTheFolder, Connected
    <3> QED
      BY <3>3, <3>4, <3>5 DEF RowInv
  <2>4. ASSUME NEW o \in Owners, OwnerStep(o) PROVE RowInv'
    <3>1. CASE Check(o)
      BY <2>1, <3>1, RowsStay DEF Check, choices
    <3>2. CASE Insert(o) \/ Erase(o) \/ SetDownload(o)
      BY <2>1, <3>2, ChoicesKeepRows
    <3>3. CASE Purge(o) \/ Requeue(o)
      BY <2>1, <3>3, ForgettingKeepsRows
    <3> QED
      BY <2>4, <3>1, <3>2, <3>3 DEF OwnerStep
  <2>5. CASE UNCHANGED <<ledger, choices, job, settled>>
    BY <2>1, <2>5, RowsStay DEF choices
  <2>6. ASSUME NEW d \in Drives, Plug(d) \/ Dismiss(d) PROVE UNCHANGED <<ledger, choices, job, settled>>
    BY <2>6 DEF Plug, Dismiss
  <2>7. ASSUME NEW p \in Places, Mount(p) PROVE UNCHANGED <<ledger, choices, job, settled>>
    BY <2>7 DEF Mount
  <2>8. ASSUME NEW o \in Owners, Look(o) \/ LookStep(o) PROVE UNCHANGED <<ledger, choices, job, settled>>
    BY <2>8 DEF Look, LookStep, Browse, Recall, First, More, Offer, Missing
  <2> QED
    BY <1>2, <2>2, <2>3, <2>4, <2>5, <2>6, <2>7, <2>8, NextSteps, LitterStays, CallingStays, RefreshStays, RequestedStays, StartStays
<1> QED
  BY <1>1, <1>2

(***************************************************************************)
(* The theorems.                                                           *)
(***************************************************************************)
FoldersInv == TypeInv /\ RootsAreSet /\ LookInv /\ ScanInv /\ RowInv

LEMMA InitFoldersInv == Init => FoldersInv
BY InitTypeInv, InitScans, InitLooks, InitRows DEF FoldersInv

LEMMA NextFoldersInv == FoldersInv /\ [Next]_vars => FoldersInv'
<1> SUFFICES ASSUME FoldersInv, [Next]_vars PROVE FoldersInv'
  OBVIOUS
<1>1. CASE Next
  BY <1>1, NextTypes, NextRoots, NextLooks, NextScans, NextRows DEF FoldersInv
<1>2. CASE UNCHANGED vars
  <2>1. UNCHANGED <<world, choices, ledger, drives, memory, thread, job, left, settled>>
    BY <1>2 DEF vars
  <2>2. TypeInv'
    BY <2>1, TypesStay DEF FoldersInv, TypeInv
  <2>3. RootsAreSet'
    BY <2>1 DEF FoldersInv, RootsAreSet, Walking
  <2>4. LookInv'
    BY <2>1 DEF FoldersInv, LookInv, MarkIsTheLook, LooksAreEarly, DrivesAreTold, drives
  <2>5. ScanInv'
    BY <2>1 DEF FoldersInv, ScanInv, StayedIsThere, StayedIsFound, world
  <2>6. JobsStay
    BY <2>1 DEF JobsStay
  <2>7. RowInv'
    BY <2>1, <2>6, RowsStay DEF FoldersInv, choices
  <2> QED
    BY <2>2, <2>3, <2>4, <2>5, <2>7 DEF FoldersInv
<1> QED
  BY <1>1, <1>2

LEMMA FoldersAlwaysInv == Spec => []FoldersInv
BY InitFoldersInv, NextFoldersInv, PTL DEF Spec

\* Every variable keeps its type: no step of a request, a refresh, a look or a
\* job writes a value of another kind, whatever was stored at first.
THEOREM FoldersTypeCorrect == Spec => []TypeOK
<1>1. FoldersInv => TypeOK
  BY TypeInvTypes DEF FoldersInv
<1> QED
  BY <1>1, FoldersAlwaysInv, PTL

\* What the first recorded look found is never offered, and only what a look
\* listed before that record is passed over: `folder_prompts`, however many looks
\* overlap and whatever comes and goes under them.  A root with nothing in it is
\* not looked at (`root_available`), so there the first look is the one that finds
\* the first drive, and that drive is passed over.
THEOREM BaselineIsAlwaysTheFirstLook == Spec => []BaselineIsTheFirstLook
<1>1. FoldersInv => BaselineIsTheFirstLook
  <2> SUFFICES ASSUME FoldersInv PROVE BaselineIsTheFirstLook
    OBVIOUS
  <2>1. \A d \in offered : d \notin firstLook
    BY DEF FoldersInv, LookInv, DrivesAreTold
  <2> QED
    BY <2>1 DEF FoldersInv, LookInv, DrivesAreTold, BaselineIsTheFirstLook
<1> QED
  BY <1>1, FoldersAlwaysInv, PTL

\* Once the last scan of a name was complete and of the folder it stands for, its
\* rows are of that folder, and so is the text of those no job misread: `observe`,
\* `_prune`, `_index_file` and `purge_source`, under any requests and restarts.
THEOREM RowsAlwaysFollowTheFolder == Spec => []RowsFollowTheFolder
<1>1. FoldersInv => RowsFollowTheFolder
  <2> SUFFICES ASSUME FoldersInv, NEW n \in settled, NEW f \in Files, Live(rows[n][f])
               PROVE  /\ rows[n][f].of = Connected[n].place
                      /\ rows[n][f].status = "indexed" /\ <<n, f>> \notin misread =>
                           chunks[n][f] \in {None, Connected[n].place}
    BY DEF RowsFollowTheFolder
  <2>1. n \in Names
    BY DEF FoldersInv, TypeInv, RestOK
  <2>2. rows[n][f].of = Connected[n].place
    BY DEF FoldersInv, RowInv, SettledIsOfTheFolder
  <2>3. rows[n][f].status = "indexed" /\ <<n, f>> \notin misread => chunks[n][f] \in {None, rows[n][f].of}
    BY <2>1 DEF FoldersInv, RowInv, TextIsOfTheRow
  <2> QED
    BY <2>2, <2>3
<1> QED
  BY <1>1, FoldersAlwaysInv, PTL

\* What a job may do to a row of a file that stayed.
KeepsStayed ==
  \A n \in Names : \A f \in job[n].stayed : rows'[n][f].status = "deleted" => rows[n][f].status = "deleted"

LEMMA StepKeepsStayed == FoldersInv /\ [Next]_vars => KeepsStayed
<1> SUFFICES ASSUME FoldersInv, [Next]_vars, NEW n \in Names, NEW f \in job[n].stayed,
                    rows'[n][f].status = "deleted", rows[n][f].status # "deleted"
             PROVE  FALSE
  BY DEF KeepsStayed
<1>0. f \in Files /\ rows[n][f] \in Row /\ TypeInv
  BY DEF FoldersInv, TypeInv, JobsOK, Scan, LedgerOK
<1>1. rows' # rows
  OBVIOUS
<1>2. ASSUME NEW m \in Names, JobStep(m) PROVE FALSE
  <2>1. m = n
    <3>1. ASSUME m # n PROVE rows'[n] = rows[n]
      <4>1. rows' = rows \/ \E x : rows' = [rows EXCEPT ![m] = x]
        <5>1. CASE Open(m) \/ Flag(m) \/ End(m)
          BY <5>1 DEF Open, Flag, End, ledger
        <5>2. CASE WalkTop(m) \/ WalkSub(m)
          BY <5>2 DEF WalkTop, WalkSub, Walk
        <5>3. CASE Prune(m)
          BY <5>3 DEF Prune
        <5>4. ASSUME NEW q \in job[m].todo, Index(m, q) PROVE rows' = rows \/ \E x : rows' = [rows EXCEPT ![m] = x]
          BY <5>4, IndexOutcomes DEF Unread, LeftAlone, Touched, Written, Update
        <5> QED
          BY <1>2, <5>1, <5>2, <5>3, <5>4 DEF JobStep
      <4> QED
        BY <1>0, <3>1, <4>1 DEF TypeInv, LedgerOK
    <3> QED
      BY <3>1
  <2>2. CASE Open(n) \/ Flag(n) \/ End(n)
    BY <1>1, <2>2 DEF Open, Flag, End, ledger
  <2>3. CASE WalkTop(n) \/ WalkSub(n)
    <3>1. PICK there \in SUBSET Files, due \in BOOLEAN : Walked(n, there, due)
      BY <1>0, <2>3, WalkObserves
    <3>2. rows'[n][f] = Observed(rows[n][f], job[n].root, due) \/ rows'[n][f] = rows[n][f]
      BY <1>0, <3>1 DEF Walked
    <3>3. /\ rows[n][f] = NoRow \/ rows[n][f].of # None
          /\ job[n].root \in Places
      BY <1>0, <2>3 DEF FoldersInv, RootsAreSet, Walking, WalkTop, WalkSub, Walk, TypeInv, LedgerOK
    <3> QED
      BY <1>0, <3>2, <3>3, ObservedTyped
  <2>4. CASE Prune(n)
    <3>1. rows'[n][f] = rows[n][f] \/ (job[n].complete /\ f \notin job[n].found)
      BY <1>0, <2>4 DEF Prune, TypeInv, LedgerOK
    <3>2. job[n].complete => job[n].stayed \subseteq job[n].found
      BY <2>4 DEF Prune, FoldersInv, ScanInv, StayedIsFound
    <3> QED
      BY <3>1, <3>2
  <2>5. ASSUME NEW q \in job[n].todo, Index(n, q) PROVE FALSE
    <3> DEFINE g == q.file
               row == rows[n][g]
    <3>1. g \in Files /\ row \in Row /\ job[n].root \in Places
      BY <1>0, <2>5 DEF TypeInv, JobsOK, Scan, LedgerOK, Index, FoldersInv, RootsAreSet
    <3>2. PICK new \in Row : new.of = row.of /\ new.status # "deleted" /\ Update(n, g, new)
      <4>1. /\ [row EXCEPT !.status = "failed", !.reason = "failed"] \in Row
            /\ [row EXCEPT !.status = "failed", !.reason = "failed"].of = row.of
            /\ [row EXCEPT !.status = "failed", !.reason = "failed"].status # "deleted"
        BY <3>1 DEF Row
      <4>2. /\ [row EXCEPT !.status = "skipped", !.reason = "online", !.hash = None] \in Row
            /\ [row EXCEPT !.status = "skipped", !.reason = "online", !.hash = None].of = row.of
            /\ [row EXCEPT !.status = "skipped", !.reason = "online", !.hash = None].status # "deleted"
        BY <3>1 DEF Row
      <4>3. \A status \in {"indexed", "skipped"} :
              /\ [row EXCEPT !.status = status] \in Row
              /\ [row EXCEPT !.status = status].of = row.of
              /\ [row EXCEPT !.status = status].status # "deleted"
        BY <3>1 DEF Row
      <4>4. /\ [row EXCEPT !.status = "indexed", !.reason = "none", !.hash = job[n].root] \in Row
            /\ [row EXCEPT !.status = "indexed", !.reason = "none", !.hash = job[n].root].of = row.of
            /\ [row EXCEPT !.status = "indexed", !.reason = "none", !.hash = job[n].root].status # "deleted"
        BY <3>1 DEF Row
      <4> QED
        BY <2>5, <4>1, <4>2, <4>3, <4>4, IndexOutcomes DEF Unread, LeftAlone, Touched, Written
    <3>3. /\ f # g => rows'[n][f] = rows[n][f]
          /\ rows'[n][g] \in {row, new}
      BY <1>0, <3>1, <3>2, UpdateTyped
    <3> QED
      BY <3>2, <3>3
  <2> QED
    BY <1>2, <2>1, <2>2, <2>3, <2>4, <2>5 DEF JobStep
<1>3. ASSUME NEW o \in Owners, OwnerStep(o) PROVE FALSE
  <2>1. CASE Purge(o) \/ Requeue(o)
    <3>1. NoRow.status # "deleted"
      BY DEF NoRow
    <3> QED
      BY <1>0, <2>1, <3>1, ForgottenRows
  <2>2. CASE Check(o) \/ Insert(o) \/ Erase(o) \/ SetDownload(o)
    BY <1>1, <2>2 DEF Check, Insert, Erase, SetDownload, ledger
  <2> QED
    BY <1>3, <2>1, <2>2 DEF OwnerStep
<1>4. ASSUME NEW d \in Drives, Plug(d) \/ Dismiss(d) PROVE rows' = rows
  BY <1>4 DEF Plug, Dismiss, ledger
<1>5. ASSUME NEW p \in Places, Mount(p) \/ \E g \in Files : Edit(p, g) PROVE rows' = rows
  BY <1>5 DEF Mount, Edit, ledger
<1>6. ASSUME NEW o \in Owners, Look(o) \/ LookStep(o) PROVE rows' = rows
  BY <1>6 DEF Look, LookStep, Browse, Recall, First, More, Offer, Missing, ledger
<1>7. CASE Next
  BY <1>0, <1>1, <1>2, <1>3, <1>4, <1>5, <1>6, <1>7, NextSteps, LitterStays, CallingStays, RefreshStays, RequestedStays, StartStays,
    RestartStays DEF ledger
<1> QED
  BY <1>1, <1>7 DEF vars, ledger

\* No scan takes for deleted a file that stayed in its folder all through it:
\* what a listing cannot see makes the scan incomplete, and `_prune` waits for a
\* complete one, however the folder comes and goes between its listings.
THEOREM AlwaysKeptThroughUnmounts == Spec => KeptThroughUnmounts
<1>1. FoldersInv /\ [Next]_vars =>
        [\A n \in Names : \A f \in job[n].stayed :
           rows'[n][f].status = "deleted" => rows[n][f].status = "deleted"]_vars
  BY StepKeepsStayed DEF KeepsStayed
<1> QED
  BY <1>1, FoldersAlwaysInv, PTL DEF Spec, KeptThroughUnmounts

================================================================================
