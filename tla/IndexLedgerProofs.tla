--------------------------- MODULE IndexLedgerProofs ---------------------------
(* What TLAPS proves of IndexLedger, for every set of files, paths and faults. *)
EXTENDS IndexLedger, TLAPS

(***************************************************************************)
(* Operators                                                               *)
(***************************************************************************)
LEMMA NoRowIsARow == NoRow \in Row
  BY DEF NoRow, Row, Stat, Status, Reason

LEMMA StatOfIsAStat ==
  ASSUME tree \in [Files -> FileState], NEW f \in Files
  PROVE  StatOf(f) \in Stat
  BY ConstantsAssumption DEF StatOf, Stat, FileState

\* What observe writes is a live row: it never tombstones and never forgets.
LEMMA ReconciledIsLive ==
  ASSUME NEW row \in Row, NEW p \in Paths, NEW stat \in Stat,
         NEW list \in Stat \cup {None}, NEW due \in BOOLEAN
  PROVE  /\ Reconciled(row, p, stat, list, due) \in Row
         /\ Reconciled(row, p, stat, list, due).status \notin {"none", "deleted"}
  BY DEF Reconciled, Clears, Row, Status, Reason

LEMMA IdleJobIsAJob == IdleJob \in Job
  BY ConstantsAssumption DEF IdleJob, Job

LEMMA WalkIsAJob ==
  ASSUME NEW d \in Dirs, NEW src \in Dirs \cup Paths \cup {None}, idScheme \in BOOLEAN
  PROVE  /\ Walk(d, src) \in Job
         /\ Walk(d, src).op = "scan" /\ Walk(d, src).todo = {}
  BY ConstantsAssumption DEF Walk, IdleJob, Job

(***************************************************************************)
(* Writing rows and chunks                                                 *)
(***************************************************************************)
\* The part of LedgerInv that is about the tables.
Tables == /\ ledger \in [Ids -> Row]
          /\ chunks \in [Ids -> Contents \cup {None}]
          /\ writing \in [id : Ids, row : Row] \cup {NoWrite}
          /\ ChunksHaveLiveRows

\* Writing a row alone keeps them when the row is live.
LEMMA RowOnlyKeepsTables ==
  ASSUME Tables, NEW i \in Ids, NEW row \in Row,
         row.status \notin {"none", "deleted"}, RowOnly(i, row)
  PROVE  Tables'
  BY DEF Tables, RowOnly, ChunksHaveLiveRows, Live

\* Writing chunks, with the row to follow, keeps them when the chunks are
\* dropped or belong to a live row.
LEMMA ChunksThenRowKeepsTables ==
  ASSUME Tables, NEW i \in Ids, NEW row \in Row, NEW c \in Contents \cup {None},
         c = None \/ Live(i), ChunksThenRow(i, c, row)
  PROVE  Tables'
  BY DEF Tables, ChunksThenRow, ChunksHaveLiveRows, Live

\* What one file's change may do to the rest: other rows stay, and the write in
\* progress, if there is one now, is of this row and safe.
OnlyRow(i) == /\ \A k \in Ids \ {i} : ledger'[k] = ledger[k]
              /\ writing' # NoWrite =>
                   /\ writing'.id = i
                   /\ writing'.row.status \in {"none", "deleted"} => chunks'[i] = None

LEMMA ObserveKeepsTables ==
  ASSUME Tables, writing = NoWrite, NEW i \in Ids, NEW p \in Paths, NEW stat \in Stat,
         NEW list \in Stat \cup {None}, NEW due \in BOOLEAN, Observe(i, p, stat, list, due)
  PROVE  Tables' /\ OnlyRow(i)
<1> DEFINE row == Reconciled(ledger[i], p, stat, list, due)
<1>1. row \in Row /\ row.status \notin {"none", "deleted"}
  BY ReconciledIsLive DEF Tables
<1>2. CASE Clears(ledger[i], p)
  <2>1. ChunksThenRow(i, None, row)
    BY <1>2 DEF Observe
  <2>2. Tables'
    BY <1>1, <2>1, ChunksThenRowKeepsTables
  <2>. QED
    BY <1>1, <2>1, <2>2 DEF ChunksThenRow, OnlyRow, Tables
<1>3. CASE ~Clears(ledger[i], p)
  <2>1. RowOnly(i, row)
    BY <1>3 DEF Observe
  <2>2. Tables'
    BY <1>1, <2>1, RowOnlyKeepsTables
  <2>. QED
    BY <1>1, <2>1, <2>2 DEF RowOnly, OnlyRow, Tables
<1>. QED
  BY <1>2, <1>3

(***************************************************************************)
(* The invariant, action by action                                         *)
(***************************************************************************)
LEMMA InitEstablishesInv == Init => LedgerInv
<1> SUFFICES ASSUME Init PROVE LedgerInv
  OBVIOUS
<1> USE ConstantsAssumption
<1>1. tree \in [Files -> FileState]
  BY DEF Init
<1>2. \A i \in Carried : LegacyRow(NewIdOf[i]) \in Row /\ i \in LegacyIds
  <2>1. SUFFICES ASSUME NEW i \in Carried PROVE LegacyRow(NewIdOf[i]) \in Row
    BY DEF Carried
  <2>2. NewIdOf[i] \in Files
    BY DEF Carried
  <2>. QED
    BY <1>1, <2>2, StatOfIsAStat DEF LegacyRow, Row, Status, Reason, FileState
<1>3. ledger \in [Ids -> Row]
  BY <1>2, NoRowIsARow DEF Init
<1>4. chunks \in [Ids -> Contents \cup {None}]
  BY <1>1 DEF Init, Carried, FileState
<1>5. ChunksHaveLiveRows
  BY DEF Init, ChunksHaveLiveRows, Live, LegacyRow, NoRow
<1>6. job \in Job /\ QueueIsPending
  BY IdleJobIsAJob DEF Init, QueueIsPending, IdleJob
<1>. QED
  BY <1>1, <1>3, <1>4, <1>5, <1>6 DEF Init, LedgerInv, TypeOK, WriteIsSafe

LEMMA OtherKeepsInv == LedgerInv /\ Other => LedgerInv'
<1> SUFFICES ASSUME LedgerInv, Other PROVE LedgerInv'
  OBVIOUS
<1> USE ConstantsAssumption
<1>1. ASSUME NEW f \in Files, NEW p \in Paths, NEW c \in Contents, SaveFile(f, p, c)
      PROVE  tree' \in [Files -> FileState] /\ \E moved \in SUBSET Files : Changed(moved)
  BY <1>1 DEF SaveFile, LedgerInv, TypeOK, FileState
<1>2. ASSUME NEW f \in Files, NEW p \in Paths, MoveFile(f, p)
      PROVE  tree' \in [Files -> FileState] /\ \E moved \in SUBSET Files : Changed(moved)
  <2>1. tree' \in [Files -> FileState]
    BY <1>2 DEF MoveFile, LedgerInv, TypeOK, FileState
  <2>2. Changed({f} \cup At(p)) /\ ({f} \cup At(p)) \in SUBSET Files
    BY <1>2 DEF MoveFile, At
  <2>. QED
    BY <2>1, <2>2
<1>3. ASSUME NEW f \in Files, RemoveFile(f)
      PROVE  tree' \in [Files -> FileState] /\ \E moved \in SUBSET Files : Changed(moved)
  BY <1>3 DEF RemoveFile, LedgerInv, TypeOK, FileState
<1>4. tree' \in [Files -> FileState] /\ \E moved \in SUBSET Files : Changed(moved)
  BY <1>1, <1>2, <1>3 DEF Other
<1>. QED
  BY <1>4 DEF Changed, LedgerInv, TypeOK, store, ChunksHaveLiveRows, Live, QueueIsPending, WriteIsSafe

\* Nothing but the job changes: the tables stay, so the job's own part is left.
LEMMA JobOnly ==
  ASSUME LedgerInv, job' \in Job, UNCHANGED <<source, ledger, chunks, writing>>,
         idScheme' \in BOOLEAN, faults' \in Nat, settled' \in {"no", "walking", "yes"},
         unmoved' \in SUBSET Files,
         job'.todo \subseteq job.todo \/ (job'.todo \subseteq Pending /\ writing = NoWrite),
         job'.op # "index" => job'.todo = {}
  PROVE  LedgerInv'
  BY DEF LedgerInv, TypeOK, source, ChunksHaveLiveRows, Live, QueueIsPending, WriteIsSafe, Pending

LEMMA FaultIsCounted == ASSUME LedgerInv, NEW k, Fault(k) PROVE faults' \in Nat
  BY DEF Fault, LedgerInv, TypeOK

LEMMA StartScanKeepsInv == LedgerInv /\ StartScan => LedgerInv'
<1> SUFFICES ASSUME LedgerInv, StartScan PROVE LedgerInv'
  OBVIOUS
<1>1. job' \in Job /\ job'.op = "scan" /\ job'.todo = {}
  BY ConstantsAssumption, WalkIsAJob DEF StartScan, LedgerInv, TypeOK
<1>. QED
  BY <1>1, JobOnly DEF StartScan, store, Present, LedgerInv, TypeOK

LEMMA StartIndexingKeepsInv == LedgerInv /\ StartIndexing => LedgerInv'
<1> SUFFICES ASSUME LedgerInv, StartIndexing PROVE LedgerInv'
  OBVIOUS
<1>1. job' \in Job /\ job'.op = "index" /\ job'.todo = Pending
  BY IdleJobIsAJob DEF StartIndexing, IdleJob, Job, Pending
<1>. QED
  BY <1>1, JobOnly DEF StartIndexing, Ready, store, history, LedgerInv, TypeOK

LEMMA CommitRowKeepsInv == LedgerInv /\ CommitRow => LedgerInv'
<1> SUFFICES ASSUME LedgerInv, CommitRow PROVE LedgerInv'
  OBVIOUS
<1> DEFINE i == writing.id
           row == IF writing.row.status = "deleted"
                  THEN [ledger[i] EXCEPT !.status = "deleted"] ELSE writing.row
<1>1. i \in Ids /\ writing.row \in Row /\ ledger[i] \in Row
  BY DEF CommitRow, LedgerInv, TypeOK
<1>2. row \in Row /\ (row.status \in {"none", "deleted"} => chunks[i] = None)
  BY <1>1 DEF CommitRow, LedgerInv, WriteIsSafe, Row, Status
<1>3. ledger' = [ledger EXCEPT ![i] = row]
  BY DEF CommitRow
<1>4. ledger' \in [Ids -> Row]
  BY <1>1, <1>2, <1>3 DEF LedgerInv, TypeOK
<1>5. ChunksHaveLiveRows'
  BY <1>1, <1>2, <1>3 DEF CommitRow, LedgerInv, TypeOK, ChunksHaveLiveRows, Live
<1>6. QueueIsPending'
  BY <1>3 DEF CommitRow, LedgerInv, QueueIsPending, WriteIsSafe, TypeOK
<1>. QED
  BY <1>4, <1>5, <1>6 DEF CommitRow, LedgerInv, TypeOK, WriteIsSafe, source, history

\* A step that changes one file's row or chunks and takes it off the queue.
LEMMA OneFileStep ==
  ASSUME LedgerInv, NEW i \in Ids, Tables', OnlyRow(i), job' \in Job,
         job'.todo \subseteq job.todo \ {i}, job'.op = job.op,
         UNCHANGED <<source, idScheme, history>>, faults' \in Nat
  PROVE  LedgerInv'
<1>1. TypeOK' /\ ChunksHaveLiveRows'
  BY DEF LedgerInv, TypeOK, Tables, source, history
<1>2. job'.todo \subseteq Ids \ {i}
  BY DEF LedgerInv, TypeOK, Job
<1>3. QueueIsPending'
  BY <1>2 DEF LedgerInv, OnlyRow, QueueIsPending
<1>4. WriteIsSafe'
  BY <1>2 DEF OnlyRow, WriteIsSafe
<1>. QED
  BY <1>1, <1>3, <1>4 DEF LedgerInv

LEMMA ScanStepKeepsInv == LedgerInv /\ ScanStep => LedgerInv'
<1> SUFFICES ASSUME LedgerInv, ScanStep PROVE LedgerInv'
  OBVIOUS
<1> USE ConstantsAssumption
<1>0. job \in Job /\ Tables
  BY DEF LedgerInv, TypeOK, Tables
<1>1. ASSUME NEW d \in job.queue, ListDir(d) PROVE LedgerInv'
  <2>1. PICK ids \in ListedIds :
          job' = [job EXCEPT
                   !.queue = (@ \ {d}) \cup (IF d = Root THEN Dirs \ {Root} ELSE {}),
                   !.entries = {[path |-> tree[f].path, stat |-> StatOf(f),
                                 id |-> IF ids THEN f ELSE None] :
                                  f \in {g \in Present : DirOf[tree[g].path] = d}}]
    BY <1>1 DEF ListDir
  <2>2. \A f \in Present : /\ f \in Files /\ tree[f].path \in Paths
                          /\ StatOf(f) \in Stat
    BY StatOfIsAStat DEF Present, LedgerInv, TypeOK, FileState
  <2>3. job'.entries \subseteq [path : Paths, stat : Stat, id : Files \cup {None}]
    BY <1>0, <2>1, <2>2 DEF Job
  <2>4. job' \in Job /\ job'.todo = job.todo /\ job'.op = job.op
    BY <1>0, <2>1, <2>3 DEF Job
  <2>. QED
    BY <1>1, <2>4, JobOnly DEF ListDir, store, history, LedgerInv, TypeOK, QueueIsPending
<1>2. ASSUME NEW e \in job.entries, ListedFile(e) PROVE LedgerInv'
  <2>0. /\ e \in [path : Paths, stat : Stat, id : Files \cup {None}]
        /\ job.op = "scan" /\ job.todo = {} /\ writing = NoWrite
    BY <1>0, <1>2 DEF ListedFile, Ready, Job, LedgerInv, QueueIsPending
  <2>1. UNCHANGED <<source, idScheme, faults, history>> /\ faults \in Nat
    BY <1>2 DEF ListedFile, LedgerInv, TypeOK
  <2>2. ASSUME NEW due \in BOOLEAN, NEW i \in Matching(e), Recognise(e, i, due) PROVE LedgerInv'
    <3> DEFINE id == IF e.id = None THEN i ELSE e.id
    <3>1. i \in Ids /\ id \in Ids /\ Live(i) /\ ledger[i] \in Row
      BY <2>0, <2>2 DEF Matching, LiveAt, Ids, LedgerInv, TypeOK
    <3>2. Stamped(ledger[i], due) \in Row /\ Stamped(ledger[i], due).status \notin {"none", "deleted"}
      BY <3>1 DEF Stamped, Row, Status, Reason, Live
    <3>3. ledger' \in [Ids -> Row] /\ chunks' \in [Ids -> Contents \cup {None}]
      BY <2>2, <3>1, <3>2, NoRowIsARow DEF Recognise, LedgerInv, TypeOK
    <3>4. ChunksHaveLiveRows'
      BY <2>2, <3>1, <3>2 DEF Recognise, LedgerInv, TypeOK, ChunksHaveLiveRows, Live
    <3>5. job' \in Job /\ job'.todo = {} /\ job'.op = "scan"
      BY <1>0, <2>0, <2>2, <3>1 DEF Recognise, Job
    <3>. QED
      BY <2>0, <2>1, <2>2, <3>3, <3>4, <3>5
         DEF Recognise, LedgerInv, TypeOK, QueueIsPending, WriteIsSafe, source, history
  <2>3. ASSUME NEW due \in BOOLEAN, NEW i \in Files, NEW stat \in Stat,
               ObserveEntry(e, i, stat, due)
        PROVE  LedgerInv'
    <3>1. i \in Ids /\ e.path \in Paths /\ e.stat \in Stat
      BY <2>0 DEF Ids
    <3>2. Tables' /\ OnlyRow(i)
      BY <1>0, <2>0, <2>3, <3>1, ObserveKeepsTables DEF ObserveEntry
    <3>3. job' \in Job /\ job'.todo = {} /\ job'.op = job.op
      BY <1>0, <2>0, <2>3, <3>1 DEF ObserveEntry, Job
    <3>. QED
      BY <2>1, <3>1, <3>2, <3>3, OneFileStep
  <2>4. ASSUME job' = [job EXCEPT !.entries = @ \ {e}], UNCHANGED <<ledger, chunks, writing>>
        PROVE  LedgerInv'
    <3>1. job' \in Job /\ job'.todo = {} /\ job'.op = job.op
      BY <1>0, <2>0, <2>4 DEF Job
    <3>. QED
      BY <2>0, <2>1, <2>4, <3>1, JobOnly DEF LedgerInv, TypeOK, history
  <2>5. \A f \in At(e.path) : f \in Files /\ StatOf(f) \in Stat
    BY StatOfIsAStat DEF At, LedgerInv, TypeOK
  <2>. QED
    BY <1>2, <2>0, <2>2, <2>3, <2>4, <2>5 DEF ListedFile
<1>3. ASSUME FinishWalk PROVE LedgerInv'
  <2>1. LiveUnder(job.root) \subseteq Ids
    BY DEF LiveUnder
  <2>2. job' \in Job /\ job'.todo = job.todo /\ job.todo = {}
    BY <1>0, <1>3, <2>1 DEF FinishWalk, Walking, Ready, Job, LedgerInv, QueueIsPending
  <2>. QED
    BY <1>3, <2>2, JobOnly DEF FinishWalk, store, history, LedgerInv, TypeOK
<1>. QED
  BY <1>1, <1>2, <1>3 DEF ScanStep

LEMMA SettleStepKeepsInv == LedgerInv /\ SettleStep => LedgerInv'
<1> SUFFICES ASSUME LedgerInv, SettleStep PROVE LedgerInv'
  OBVIOUS
<1>0. job \in Job /\ Tables
  BY DEF LedgerInv, TypeOK, Tables
<1>1. ASSUME NEW i \in job.doomed, Tombstone(i) PROVE LedgerInv'
  <2> DEFINE row == [ledger[i] EXCEPT !.status = "deleted"]
  <2>1. i \in Ids /\ row \in Row /\ None \in Contents \cup {None}
    BY <1>0 DEF Job, Row, Status, LedgerInv, TypeOK
  <2>2. ChunksThenRow(i, None, row)
    BY <1>1 DEF Tombstone
  <2>3. Tables'
    BY <1>0, <2>1, <2>2, ChunksThenRowKeepsTables
  <2>4. OnlyRow(i)
    BY <1>0, <2>1, <2>2 DEF ChunksThenRow, OnlyRow, Tables
  <2>5. /\ job' \in Job /\ job'.op = job.op /\ job'.todo = job.todo /\ job.todo = {}
        /\ faults' \in Nat /\ UNCHANGED <<source, idScheme, history>>
    BY <1>0, <1>1 DEF Tombstone, Ready, Job, LedgerInv, TypeOK, QueueIsPending
  <2>. QED
    BY <2>1, <2>3, <2>4, <2>5, OneFileStep
<1>2. ASSUME HintSource PROVE LedgerInv'
  <2>1. LiveUnder(job.src) \subseteq Ids
    BY DEF LiveUnder
  <2>2. job' \in Job /\ job'.todo = job.todo /\ job'.op = job.op
    BY <1>0, <1>2, <2>1 DEF HintSource, Job
  <2>. QED
    BY <1>2, <2>2, JobOnly DEF HintSource, store, history, LedgerInv, TypeOK, QueueIsPending
<1>3. ASSUME EndOperation PROVE LedgerInv'
  <2>1. job' \in Job /\ job'.todo = {}
    BY <1>3, IdleJobIsAJob DEF EndOperation, IdleJob
  <2>2. idScheme' \in BOOLEAN /\ settled' \in {"no", "walking", "yes"} /\ unmoved' \in SUBSET Files
    BY <1>0, <1>3 DEF EndOperation, LedgerInv, TypeOK
  <2>. QED
    BY <1>3, <2>1, <2>2, JobOnly DEF EndOperation, LedgerInv, TypeOK
<1>. QED
  BY <1>1, <1>2, <1>3 DEF SettleStep

\* A queued file's row, with or without its size corrected.
LEMMA QueuedRow ==
  ASSUME LedgerInv, NEW i \in job.todo
  PROVE  /\ i \in Ids /\ Live(i) /\ ledger[i] \in Row
         /\ \A c \in Contents : Sized(ledger[i], c) \in Row
<1>1. i \in Ids /\ ledger[i] \in Row
  BY DEF LedgerInv, TypeOK, Job
<1>2. Live(i)
  BY DEF LedgerInv, QueueIsPending, Live
<1>3. ASSUME NEW c \in Contents PROVE Sized(ledger[i], c) \in Row
  <2>1. SizeOf[c] \in Nat /\ ledger[i].stat \in Stat
    BY <1>1, ConstantsAssumption DEF Row
  <2>2. [ledger[i].stat EXCEPT !.size = SizeOf[c]] \in Stat
    BY <2>1 DEF Stat
  <2>. QED
    BY <1>1, <2>2 DEF Sized, Row
<1>. QED
  BY <1>1, <1>2, <1>3

LEMMA SkipKeepsTables ==
  ASSUME LedgerInv, NEW i \in job.todo, NEW r \in Reason, NEW h \in Contents \cup {None},
         Skip(i, r, h)
  PROVE  Tables' /\ OnlyRow(i)
<1> DEFINE row == [ledger[i] EXCEPT !.status = "skipped", !.reason = r, !.hash = h]
<1>0. i \in Ids /\ Live(i) /\ ledger[i] \in Row /\ Tables
  BY QueuedRow DEF LedgerInv, TypeOK, Tables
<1>1. row \in Row /\ row.status = "skipped"
  BY <1>0 DEF Row, Status
<1>2. ChunksThenRow(i, None, row)
  BY DEF Skip
<1>3. Tables'
  BY <1>0, <1>1, <1>2, ChunksThenRowKeepsTables
<1>. QED
  BY <1>0, <1>1, <1>2, <1>3 DEF ChunksThenRow, OnlyRow, Tables

\* A row written alone while no other write is half done.
LEMMA RowOnlyStep ==
  ASSUME LedgerInv, writing = NoWrite, NEW i \in Ids, NEW row \in Row,
         row.status \notin {"none", "deleted"}, RowOnly(i, row)
  PROVE  Tables' /\ OnlyRow(i)
<1>1. Tables
  BY DEF LedgerInv, TypeOK, Tables
<1>2. Tables'
  BY <1>1, RowOnlyKeepsTables
<1>. QED
  BY <1>1, <1>2 DEF RowOnly, OnlyRow, Tables

LEMMA FailKeepsTables ==
  ASSUME LedgerInv, writing = NoWrite, NEW i \in job.todo, Fail(i)
  PROVE  Tables' /\ OnlyRow(i)
<1> DEFINE row == [ledger[i] EXCEPT !.status = "failed", !.reason = "read failed"]
<1>0. i \in Ids /\ ledger[i] \in Row
  BY QueuedRow
<1>1. row \in Row /\ row.status = "failed"
  BY <1>0 DEF Row, Status, Reason
<1>2. RowOnly(i, row)
  BY DEF Fail
<1>. QED
  BY <1>0, <1>1, <1>2, RowOnlyStep

LEMMA HandleKeepsTables ==
  ASSUME LedgerInv, writing = NoWrite, NEW i \in job.todo, NEW c \in Contents, Handle(i, c)
  PROVE  Tables' /\ OnlyRow(i)
<1>0. /\ i \in Ids /\ Live(i) /\ ledger[i] \in Row /\ Sized(ledger[i], c) \in Row
      /\ Tables
  BY QueuedRow DEF LedgerInv, TypeOK, Tables
<1>1. CASE SizeOf[c] > Limit
  BY <1>1, SkipKeepsTables DEF Handle, Reason
<1>2. CASE ~(SizeOf[c] > Limit) /\ ledger[i].hash = c
  <2> DEFINE row == [Sized(ledger[i], c) EXCEPT
                       !.status = IF ledger[i].reason # "none" THEN "skipped" ELSE "indexed"]
  <2>1. row \in Row /\ row.status \in {"skipped", "indexed"}
    BY <1>0 DEF Row, Status
  <2>2. RowOnly(i, row)
    BY <1>2 DEF Handle, Touch
  <2>. QED
    BY <1>0, <2>1, <2>2, RowOnlyStep
<1>3. CASE ~(SizeOf[c] > Limit) /\ ledger[i].hash # c /\ c \in Textless
  BY <1>3, SkipKeepsTables DEF Handle, Reason
<1>4. CASE ~(SizeOf[c] > Limit) /\ ledger[i].hash # c /\ c \notin Textless
  <2> DEFINE row == [Sized(ledger[i], c) EXCEPT !.status = "indexed", !.reason = "none", !.hash = c]
  <2>1. row \in Row /\ row.status = "indexed"
    BY <1>0 DEF Row, Status, Reason
  <2>2. ChunksThenRow(i, c, row)
    BY <1>4 DEF Handle
  <2>3. Tables'
    BY <1>0, <2>1, <2>2, ChunksThenRowKeepsTables
  <2>. QED
    BY <1>0, <2>1, <2>2, <2>3 DEF ChunksThenRow, OnlyRow, Tables
<1>. QED
  BY <1>1, <1>2, <1>3, <1>4

LEMMA IndexStepKeepsInv == LedgerInv /\ IndexStep => LedgerInv'
<1> SUFFICES ASSUME LedgerInv, IndexStep PROVE LedgerInv'
  OBVIOUS
<1>1. ASSUME NEW i \in job.todo, IndexFile(i) PROVE LedgerInv'
  <2>1. i \in Ids /\ writing = NoWrite /\ job \in Job
    BY <1>1, QueuedRow DEF IndexFile, TakeFile, Ready, LedgerInv, TypeOK
  <2>2. /\ job' \in Job /\ job'.op = job.op /\ job'.todo = job.todo \ {i}
        /\ faults' \in Nat /\ UNCHANGED <<source, idScheme, history>>
    BY <1>1, <2>1 DEF IndexFile, TakeFile, Job, LedgerInv, TypeOK
  <2>3. \A f \in Files : tree[f].content \in Contents
    BY DEF LedgerInv, TypeOK, FileState
  <2>4. Tables' /\ OnlyRow(i)
    <3>1. CASE ~Readable(i)
      <4>1. PICK r \in {"too large", "unsupported"} : Skip(i, r, None)
        BY <1>1, <3>1 DEF IndexFile
      <4>. QED
        BY <4>1, SkipKeepsTables DEF Reason
    <3>2. CASE Readable(i) /\ \E f \in At(ledger[i].path) : Handle(i, tree[f].content)
      BY <2>1, <2>3, <3>2, HandleKeepsTables DEF At
    <3>3. CASE Readable(i) /\ Fail(i)
      BY <2>1, <3>3, FailKeepsTables
    <3>. QED
      BY <1>1, <3>1, <3>2, <3>3 DEF IndexFile
  <2>. QED
    BY <2>1, <2>2, <2>4, OneFileStep
<1>2. ASSUME EndIndexing PROVE LedgerInv'
  <2>1. job' \in Job /\ job'.todo = {}
    BY <1>2, IdleJobIsAJob DEF EndIndexing, IdleJob
  <2>2. faults' \in Nat
    BY <1>2, FaultIsCounted DEF EndIndexing, LedgerInv, TypeOK
  <2>. QED
    BY <1>2, <2>1, <2>2, JobOnly DEF EndIndexing, store, history, LedgerInv, TypeOK
<1>. QED
  BY <1>1, <1>2 DEF IndexStep

LEMMA FaultStepKeepsInv == LedgerInv /\ FaultStep => LedgerInv'
<1> SUFFICES ASSUME LedgerInv, FaultStep PROVE LedgerInv'
  OBVIOUS
<1>0. job \in Job
  BY DEF LedgerInv, TypeOK
<1>1. ASSUME NEW d \in job.queue, ListDirFails(d) PROVE LedgerInv'
  <2>1. job' \in Job /\ job'.todo = job.todo /\ job'.op = job.op /\ faults' \in Nat
    BY <1>0, <1>1, FaultIsCounted DEF ListDirFails, Job
  <2>. QED
    BY <1>1, <2>1, JobOnly DEF ListDirFails, store, history, LedgerInv, TypeOK, QueueIsPending
<1>2. ASSUME NEW e \in job.entries, EntryFails(e) PROVE LedgerInv'
  <2>1. job' \in Job /\ job'.todo = job.todo /\ job'.op = job.op /\ faults' \in Nat
    BY <1>0, <1>2, FaultIsCounted DEF EntryFails, Job
  <2>. QED
    BY <1>2, <2>1, JobOnly DEF EntryFails, store, history, LedgerInv, TypeOK, QueueIsPending
<1>3. ASSUME NEW i \in job.todo, ReadFails(i) PROVE LedgerInv'
  <2>1. i \in Ids /\ writing = NoWrite
    BY <1>3, QueuedRow DEF ReadFails, TakeFile, Ready
  <2>2. /\ job' \in Job /\ job'.op = job.op /\ job'.todo = job.todo \ {i}
        /\ UNCHANGED <<source, idScheme, history>>
    BY <1>0, <1>3 DEF ReadFails, TakeFile, Job
  <2>3. faults' \in Nat
    BY <1>3, FaultIsCounted DEF ReadFails
  <2>4. Tables' /\ OnlyRow(i)
    BY <1>3, <2>1, SkipKeepsTables, FailKeepsTables DEF ReadFails, Reason
  <2>. QED
    BY <2>1, <2>2, <2>3, <2>4, OneFileStep
<1>4. ASSUME Crash PROVE LedgerInv'
  <2>1. job' \in Job /\ job'.op = "idle" /\ job'.todo = {} /\ writing' = NoWrite
    BY <1>4, IdleJobIsAJob DEF Crash, IdleJob
  <2>2. /\ faults' \in Nat /\ settled' \in {"no", "walking", "yes"}
        /\ unmoved' \in SUBSET Files
    BY <1>4, FaultIsCounted DEF Crash, LedgerInv, TypeOK
  <2>. QED
    BY <1>4, <2>1, <2>2
       DEF Crash, LedgerInv, TypeOK, source, store, ChunksHaveLiveRows, Live, QueueIsPending, WriteIsSafe
<1>. QED
  BY <1>1, <1>2, <1>3, <1>4 DEF FaultStep

LEMMA HintStepKeepsInv == LedgerInv /\ HintStep => LedgerInv'
<1> SUFFICES ASSUME LedgerInv, HintStep PROVE LedgerInv'
  OBVIOUS
<1> USE ConstantsAssumption
<1>0. job \in Job /\ Tables
  BY DEF LedgerInv, TypeOK, Tables
<1>1. Present \in SUBSET Files
  BY DEF Present
<1>2. ASSUME NEW p \in HintPaths, NEW src \in HintPaths \cup {None}, HintPresent(p, src)
      PROVE  LedgerInv'
  <2>0. /\ p \in Dirs \cup Paths /\ src \in Dirs \cup Paths \cup {None}
        /\ job.op = "idle" /\ job.todo = {} /\ writing = NoWrite
        /\ UNCHANGED <<source, idScheme, faults, settled>> /\ unmoved' \in SUBSET Files
    BY <1>1, <1>2 DEF HintPresent, HintPaths, Ready, LedgerInv, QueueIsPending
  <2>1. ASSUME p \in Dirs, job' = Walk(p, src), UNCHANGED <<ledger, chunks, writing>>
        PROVE  LedgerInv'
    <3>1. job' \in Job /\ job'.todo = {}
      BY <2>0, <2>1, WalkIsAJob DEF LedgerInv, TypeOK
    <3>. QED
      BY <2>0, <2>1, <3>1, JobOnly DEF LedgerInv, TypeOK
  <2>2. ASSUME job' = [IdleJob EXCEPT !.op = "settle", !.root = p, !.src = src],
               UNCHANGED <<ledger, chunks, writing>>
        PROVE  LedgerInv'
    <3>1. job' \in Job /\ job'.todo = {}
      BY <2>0, <2>2, IdleJobIsAJob DEF IdleJob, Job
    <3>. QED
      BY <2>0, <2>2, <3>1, JobOnly DEF LedgerInv, TypeOK
  <2>3. ASSUME NEW f \in At(p), NEW due \in BOOLEAN, Observe(f, p, StatOf(f), None, due),
               job' = [IdleJob EXCEPT !.op = "settle", !.root = p, !.src = src,
                                      !.doomed = LiveAt(p) \ {f}]
        PROVE  LedgerInv'
    <3>0. f \in Files /\ f \in Ids /\ tree[f].path = p /\ tree[f].path \in Paths \cup {None}
      BY <2>3 DEF At, Ids, LedgerInv, TypeOK, FileState
    <3>1. f \in Ids /\ p \in Paths /\ StatOf(f) \in Stat
      BY <2>0, <3>0, StatOfIsAStat DEF LedgerInv, TypeOK
    <3>2. Tables' /\ OnlyRow(f)
      BY <1>0, <2>0, <2>3, <3>1, ObserveKeepsTables
    <3>3. job' \in Job /\ job'.todo = {}
      BY <2>0, <2>3, IdleJobIsAJob DEF IdleJob, Job, LiveAt
    <3>. QED
      BY <2>0, <3>1, <3>2, <3>3
         DEF LedgerInv, TypeOK, Tables, OnlyRow, QueueIsPending, WriteIsSafe, source
  <2>4. CASE p \in Dirs /\ job' = Walk(p, src) /\ UNCHANGED <<ledger, chunks, writing>>
    BY <2>1, <2>4
  <2>5. CASE /\ job' = [IdleJob EXCEPT !.op = "settle", !.root = p, !.src = src]
             /\ UNCHANGED <<ledger, chunks, writing>>
    BY <2>2, <2>5
  <2>6. ASSUME \E f \in At(p), due \in BOOLEAN :
                 /\ Observe(f, p, StatOf(f), None, due)
                 /\ job' = [IdleJob EXCEPT !.op = "settle", !.root = p, !.src = src,
                                           !.doomed = LiveAt(p) \ {f}]
        PROVE  LedgerInv'
    <3>1. PICK f \in At(p), due \in BOOLEAN :
                 /\ Observe(f, p, StatOf(f), None, due)
                 /\ job' = [IdleJob EXCEPT !.op = "settle", !.root = p, !.src = src,
                                           !.doomed = LiveAt(p) \ {f}]
      BY <2>6
    <3>. QED
      BY <2>3, <3>1
  <2>. QED
    BY <1>2, <2>4, <2>5, <2>6 DEF HintPresent
<1>3. ASSUME NEW p \in HintPaths, HintAbsent(p) PROVE LedgerInv'
  <2>1. job' \in Job /\ job'.todo = {} /\ job'.op = "settle"
    BY <1>3, IdleJobIsAJob DEF HintAbsent, HintPaths, IdleJob, Job, LiveUnder
  <2>. QED
    BY <1>1, <1>3, <2>1, JobOnly DEF HintAbsent, store, LedgerInv, TypeOK
<1>. QED
  BY <1>2, <1>3 DEF HintStep

\* Both requests of the owner turn live rows into pending ones.
Requeued(S) == [i \in Ids |-> IF i \in S THEN [ledger[i] EXCEPT !.status = "pending",
                                                 !.reason = "none", !.hash = None]
                              ELSE ledger[i]]

LEMMA RequeueKeepsInv ==
  ASSUME LedgerInv, NEW S \in SUBSET Ids, \A i \in S : Live(i), ledger' = Requeued(S),
         UNCHANGED <<source, chunks, idScheme, job, writing, faults, history>>
  PROVE  LedgerInv'
<1>1. ledger \in [Ids -> Row] /\ job.todo \subseteq Ids
  BY DEF LedgerInv, TypeOK, Job
<1>2. ASSUME NEW i \in Ids
      PROVE  /\ Requeued(S)[i] \in Row
             /\ i \in S => Requeued(S)[i].status = "pending"
             /\ i \notin S => Requeued(S)[i] = ledger[i]
  BY <1>1 DEF Requeued, Row, Status, Reason
<1>3. ledger' \in [Ids -> Row]
  BY <1>2 DEF Requeued
<1>4. ASSUME NEW i \in Ids, Live(i) PROVE Live(i)'
  BY <1>2, <1>4 DEF Live
<1>5. ChunksHaveLiveRows'
  BY <1>4 DEF LedgerInv, ChunksHaveLiveRows
<1>6. QueueIsPending'
  BY <1>1, <1>2 DEF LedgerInv, QueueIsPending
<1>. QED
  BY <1>3, <1>5, <1>6 DEF LedgerInv, TypeOK, WriteIsSafe, source, history

LEMMA OwnerKeepsInv == LedgerInv /\ Owner => LedgerInv'
<1> SUFFICES ASSUME LedgerInv, Owner PROVE LedgerInv'
  OBVIOUS
<1>1. ASSUME NEW S \in SUBSET Ids, RetryFailed(S) PROVE LedgerInv'
  <2>1. \A i \in S : Live(i)
    BY <1>1 DEF RetryFailed, Live
  <2>. QED
    BY <1>1, <2>1, RequeueKeepsInv DEF RetryFailed, Requeued
<1>2. ASSUME RequeueOnlineOnly PROVE LedgerInv'
  <2>1. OnlineOnly \in SUBSET Ids /\ \A i \in OnlineOnly : Live(i)
    BY DEF OnlineOnly, Live
  <2>. QED
    BY <1>2, <2>1, RequeueKeepsInv DEF RequeueOnlineOnly, Requeued
<1>. QED
  BY <1>1, <1>2 DEF Owner

LEMMA NextKeepsInv == LedgerInv /\ [Next]_vars => LedgerInv'
<1> SUFFICES ASSUME LedgerInv, [Next]_vars PROVE LedgerInv'
  OBVIOUS
<1>1. CASE Next
  BY <1>1, OtherKeepsInv, StartScanKeepsInv, StartIndexingKeepsInv, CommitRowKeepsInv,
     ScanStepKeepsInv, SettleStepKeepsInv, IndexStepKeepsInv, FaultStepKeepsInv, HintStepKeepsInv,
     OwnerKeepsInv DEF Next, JobStep
<1>2. CASE UNCHANGED vars
  BY <1>2 DEF vars, LedgerInv, TypeOK, ChunksHaveLiveRows, Live, QueueIsPending, WriteIsSafe
<1>. QED
  BY <1>1, <1>2

(***************************************************************************)
(* Theorems                                                                *)
(***************************************************************************)
\* The inductive invariant holds of every behaviour, for any number of files,
\* paths and changes, and any failures and crashes.
THEOREM InvariantHolds == Spec => []LedgerInv
<1>1. Init => LedgerInv
  BY InitEstablishesInv
<1>2. LedgerInv /\ [Next]_vars => LedgerInv'
  BY NextKeepsInv
<1>. QED
  BY <1>1, <1>2, PTL DEF Spec

\* The tables and the job only ever hold values of their types.
THEOREM TypeCorrect == Spec => []TypeOK
<1>1. LedgerInv => TypeOK
  BY DEF LedgerInv
<1>. QED
  BY <1>1, InvariantHolds, PTL

\* No crash, fault or interleaving leaves chunks that search can return without
\* a live row: the order of _tombstone's, _skip's and observe's two statements.
THEOREM ChunksAlwaysHaveLiveRows == Spec => []ChunksHaveLiveRows
<1>1. LedgerInv => ChunksHaveLiveRows
  BY DEF LedgerInv
<1>. QED
  BY <1>1, InvariantHolds, PTL

(***************************************************************************)
(* Chunks and hashes                                                       *)
(***************************************************************************)
\* What a row may say of its hash: an indexed row has one.
Hashed(row) == row.status = "indexed" => row.hash # None

\* Chunks are those of the hash, but for the row that is being written: there
\* they are those of the row that is to come, and the row is still queued.
HashesNameChunks ==
  /\ \A i \in Ids : /\ Hashed(ledger[i])
                    /\ i # writing.id /\ chunks[i] # None =>
                         ledger[i].hash \in {None, chunks[i]}
  /\ writing # NoWrite =>
       /\ Hashed(writing.row)
       /\ chunks[writing.id] # None => /\ ledger[writing.id].status = "pending"
                                       /\ writing.row.status = "indexed"
                                       /\ writing.row.hash = chunks[writing.id]

LEMMA HashesMeanMatch == LedgerInv /\ HashesNameChunks => ChunksMatchHash
BY ConstantsAssumption DEF LedgerInv, TypeOK, HashesNameChunks, Hashed, ChunksMatchHash, NoWrite

LEMMA InitHashes == Init => HashesNameChunks
<1> SUFFICES ASSUME Init PROVE HashesNameChunks
  OBVIOUS
<1>1. None \notin Ids /\ None \notin Contents
  BY ConstantsAssumption
<1>2. \A i \in Carried : NewIdOf[i] \in Files /\ tree[NewIdOf[i]].content \in Contents
  BY ConstantsAssumption DEF Init, Carried, FileState
<1>. QED
  BY <1>1, <1>2 DEF Init, HashesNameChunks, Hashed, LegacyRow, NoRow, NoWrite

\* A row written alone keeps its hash or forgets it.
LEMMA RowOnlyKeepsHashes ==
  ASSUME LedgerInv, HashesNameChunks, writing = NoWrite, NEW i \in Ids, NEW row \in Row,
         Hashed(row), row.hash \in {None, ledger[i].hash}, RowOnly(i, row)
  PROVE  HashesNameChunks'
BY ConstantsAssumption DEF LedgerInv, TypeOK, HashesNameChunks, RowOnly, NoWrite, Hashed

\* Chunks go, or those of a queued file come before the row that names them.
LEMMA ChunksThenRowKeepsHashes ==
  ASSUME LedgerInv, HashesNameChunks, writing = NoWrite, NEW i \in Ids, NEW row \in Row, NEW c,
         Hashed(row), ChunksThenRow(i, c, row),
         c # None => ledger[i].status = "pending" /\ row.status = "indexed" /\ row.hash = c
  PROVE  HashesNameChunks'
BY ConstantsAssumption DEF LedgerInv, TypeOK, HashesNameChunks, ChunksThenRow, NoWrite, Hashed

LEMMA ReconciledHash ==
  ASSUME NEW row \in Row, Hashed(row), NEW p \in Paths, NEW stat \in Stat,
         NEW list \in Stat \cup {None}, NEW due \in BOOLEAN
  PROVE  /\ Hashed(Reconciled(row, p, stat, list, due))
         /\ Reconciled(row, p, stat, list, due).hash \in {None, row.hash}
BY DEF Reconciled, Clears, Row, Hashed

LEMMA ObserveKeepsHashes ==
  ASSUME LedgerInv, HashesNameChunks, writing = NoWrite, NEW i \in Ids, NEW p \in Paths,
         NEW stat \in Stat, NEW list \in Stat \cup {None}, NEW due \in BOOLEAN,
         Observe(i, p, stat, list, due)
  PROVE  HashesNameChunks'
<1> DEFINE row == Reconciled(ledger[i], p, stat, list, due)
<1>1. ledger[i] \in Row /\ Hashed(ledger[i])
  BY DEF LedgerInv, TypeOK, HashesNameChunks
<1>2. row \in Row /\ Hashed(row) /\ row.hash \in {None, ledger[i].hash}
  BY <1>1, ReconciledIsLive, ReconciledHash
<1>3. ChunksThenRow(i, None, row) \/ RowOnly(i, row)
  BY DEF Observe
<1> HIDE DEF row
<1>. QED
  BY <1>2, <1>3, RowOnlyKeepsHashes, ChunksThenRowKeepsHashes

LEMMA HandleKeepsHashes ==
  ASSUME LedgerInv, HashesNameChunks, writing = NoWrite, NEW i \in job.todo, NEW c \in Contents,
         Handle(i, c)
  PROVE  HashesNameChunks'
<1>0. /\ i \in Ids /\ ledger[i] \in Row /\ Sized(ledger[i], c) \in Row
      /\ Sized(ledger[i], c).hash = ledger[i].hash /\ ledger[i].status = "pending"
      /\ c # None
  BY QueuedRow, ConstantsAssumption DEF LedgerInv, QueueIsPending, Sized, Row
<1>1. ASSUME NEW reason \in Reason, NEW hash \in Contents \cup {None}, Skip(i, reason, hash)
      PROVE  HashesNameChunks'
  <2> DEFINE row == [ledger[i] EXCEPT !.status = "skipped", !.reason = reason, !.hash = hash]
  <2>1. row \in Row /\ Hashed(row)
    BY <1>0 DEF Row, Status, Hashed
  <2>. QED
    BY <1>0, <1>1, <2>1, ChunksThenRowKeepsHashes DEF Skip
<1>2. CASE ~(SizeOf[c] > Limit) /\ ledger[i].hash = c
  <2> DEFINE row == [Sized(ledger[i], c) EXCEPT
                       !.status = IF ledger[i].reason # "none" THEN "skipped" ELSE "indexed"]
  <2>1. row \in Row /\ Hashed(row) /\ row.hash = ledger[i].hash
    BY <1>0, <1>2 DEF Row, Status, Hashed
  <2>. QED
    BY <1>0, <1>2, <2>1, RowOnlyKeepsHashes DEF Handle, Touch
<1>3. CASE ~(SizeOf[c] > Limit) /\ ledger[i].hash # c /\ c \notin Textless
  <2> DEFINE row == [Sized(ledger[i], c) EXCEPT !.status = "indexed", !.reason = "none", !.hash = c]
  <2>1. row \in Row /\ Hashed(row) /\ row.status = "indexed" /\ row.hash = c
    BY <1>0 DEF Row, Status, Reason, Hashed
  <2>2. ChunksThenRow(i, c, row)
    BY <1>3 DEF Handle
  <2>. QED
    BY <1>0, <2>1, <2>2, ChunksThenRowKeepsHashes
<1>. QED
  BY <1>1, <1>2, <1>3 DEF Handle, Reason

LEMMA JobStepKeepsHashes ==
  ASSUME LedgerInv, HashesNameChunks, JobStep PROVE HashesNameChunks'
<1> USE ConstantsAssumption
<1>0. job \in Job
  BY DEF LedgerInv, TypeOK
<1>1. CASE CommitRow
  <2>1. writing.id \in Ids /\ writing.id # None
    BY <1>1 DEF CommitRow, LedgerInv, TypeOK
  <2>. QED
    BY <1>1, <2>1 DEF CommitRow, LedgerInv, TypeOK, HashesNameChunks, NoWrite, Hashed, Row
<1>2. ASSUME NEW e \in job.entries, ListedFile(e) PROVE HashesNameChunks'
  <2>0. e \in [path : Paths, stat : Stat, id : Files \cup {None}] /\ writing = NoWrite
    BY <1>0, <1>2 DEF ListedFile, Ready, Job
  <2>1. ASSUME NEW due \in BOOLEAN, NEW i \in Matching(e), Recognise(e, i, due)
        PROVE  HashesNameChunks'
    <3> DEFINE id == IF e.id = None THEN i ELSE e.id
    <3>1. i \in Ids /\ id \in Ids /\ ledger[i] \in Row
      BY <2>0, <2>1 DEF Matching, LiveAt, Ids, LedgerInv, TypeOK
    <3>2. /\ Stamped(ledger[i], due).hash \in {None, ledger[i].hash}
          /\ Hashed(Stamped(ledger[i], due))
      BY <3>1 DEF Stamped, Row, Hashed, HashesNameChunks
    <3>. QED
      BY <2>0, <2>1, <3>1, <3>2
         DEF Recognise, LedgerInv, TypeOK, HashesNameChunks, NoWrite, NoRow, Hashed
  <2>2. \A f \in At(e.path) : f \in Files /\ StatOf(f) \in Stat
    BY StatOfIsAStat DEF At, LedgerInv, TypeOK
  <2>3. ASSUME NEW due \in BOOLEAN, NEW i \in Files, NEW stat \in Stat, ObserveEntry(e, i, stat, due)
        PROVE  HashesNameChunks'
    BY <2>0, <2>3, ObserveKeepsHashes DEF ObserveEntry, Ids
  <2>4. CASE UNCHANGED <<ledger, chunks, writing>>
    BY <2>4 DEF HashesNameChunks, Hashed
  <2>. QED
    BY <1>2, <2>0, <2>1, <2>2, <2>3, <2>4 DEF ListedFile
<1>3. ASSUME NEW i \in job.doomed, Tombstone(i) PROVE HashesNameChunks'
  <2> DEFINE row == [ledger[i] EXCEPT !.status = "deleted"]
  <2>1. i \in Ids /\ row \in Row /\ Hashed(row)
    BY <1>0 DEF Job, Row, Status, LedgerInv, TypeOK, Hashed
  <2>. QED
    BY <1>3, <2>1, ChunksThenRowKeepsHashes DEF Tombstone, Ready
<1>4. ASSUME NEW i \in job.todo, IndexFile(i) PROVE HashesNameChunks'
  <2>1. /\ i \in Ids /\ ledger[i] \in Row /\ writing = NoWrite
        /\ \A f \in Files : tree[f].content \in Contents
    BY <1>4, QueuedRow DEF IndexFile, TakeFile, Ready, LedgerInv, TypeOK, FileState
  <2>2. ASSUME NEW reason \in Reason, Skip(i, reason, None) PROVE HashesNameChunks'
    <3> DEFINE row == [ledger[i] EXCEPT !.status = "skipped", !.reason = reason, !.hash = None]
    <3>1. row \in Row /\ Hashed(row)
      BY <2>1 DEF Row, Status, Hashed
    <3>. QED
      BY <2>1, <2>2, <3>1, ChunksThenRowKeepsHashes DEF Skip
  <2>3. ASSUME Fail(i) PROVE HashesNameChunks'
    <3> DEFINE row == [ledger[i] EXCEPT !.status = "failed", !.reason = "read failed"]
    <3>1. row \in Row /\ Hashed(row) /\ row.hash = ledger[i].hash
      BY <2>1 DEF Row, Status, Reason, Hashed
    <3>. QED
      BY <2>1, <2>3, <3>1, RowOnlyKeepsHashes DEF Fail
  <2>4. ASSUME NEW f \in Files, Handle(i, tree[f].content) PROVE HashesNameChunks'
    BY <2>1, <2>4, HandleKeepsHashes
  <2>. QED
    BY <1>4, <2>2, <2>3, <2>4 DEF IndexFile, At, Reason
<1>5. CASE UNCHANGED <<ledger, chunks, writing>>
  BY <1>5 DEF HashesNameChunks, Hashed
<1>. QED
  BY <1>1, <1>2, <1>3, <1>4, <1>5
     DEF JobStep, ScanStep, SettleStep, IndexStep, ListDir, FinishWalk, HintSource, EndOperation,
         EndIndexing, store

LEMMA HintKeepsHashes ==
  ASSUME LedgerInv, HashesNameChunks, HintStep PROVE HashesNameChunks'
<1>1. ASSUME NEW p \in HintPaths, NEW f \in At(p), NEW due \in BOOLEAN, Ready("idle"),
             Observe(f, p, StatOf(f), None, due)
      PROVE  HashesNameChunks'
  <2>1. f \in Files /\ tree[f].path = p /\ tree[f].path \in Paths \cup {None}
    BY <1>1 DEF At, LedgerInv, TypeOK, FileState
  <2>2. f \in Ids /\ p \in Paths /\ StatOf(f) \in Stat /\ writing = NoWrite
    BY <1>1, <2>1, StatOfIsAStat, ConstantsAssumption DEF Ids, HintPaths, Ready, LedgerInv, TypeOK
  <2>. QED
    BY <1>1, <2>2, ObserveKeepsHashes
<1>2. CASE UNCHANGED <<ledger, chunks, writing>>
  BY <1>2 DEF HashesNameChunks, Hashed
<1>. QED
  BY <1>1, <1>2 DEF HintStep, HintPresent, HintAbsent, store

LEMMA FaultKeepsHashes ==
  ASSUME LedgerInv, HashesNameChunks, FaultStep, "crash" \notin FaultKinds PROVE HashesNameChunks'
<1>1. ASSUME NEW i \in job.todo, ReadFails(i) PROVE HashesNameChunks'
  <2>1. i \in Ids /\ ledger[i] \in Row /\ writing = NoWrite
    BY <1>1, QueuedRow DEF ReadFails, TakeFile, Ready
  <2>2. CASE Skip(i, "not downloaded", None)
    <3> DEFINE row == [ledger[i] EXCEPT !.status = "skipped", !.reason = "not downloaded", !.hash = None]
    <3>1. row \in Row /\ Hashed(row)
      BY <2>1 DEF Row, Status, Reason, Hashed
    <3>. QED
      BY <2>1, <2>2, <3>1, ChunksThenRowKeepsHashes DEF Skip
  <2>3. CASE Fail(i)
    <3> DEFINE row == [ledger[i] EXCEPT !.status = "failed", !.reason = "read failed"]
    <3>1. row \in Row /\ Hashed(row) /\ row.hash = ledger[i].hash
      BY <2>1 DEF Row, Status, Reason, Hashed
    <3>. QED
      BY <2>1, <2>3, <3>1, RowOnlyKeepsHashes DEF Fail
  <2>. QED
    BY <1>1, <2>2, <2>3 DEF ReadFails
<1>2. CASE UNCHANGED <<ledger, chunks, writing>>
  BY <1>2 DEF HashesNameChunks, Hashed
<1>. QED
  BY <1>1, <1>2 DEF FaultStep, ListDirFails, EntryFails, Crash, Fault, store

LEMMA OwnerKeepsHashes ==
  ASSUME LedgerInv, HashesNameChunks, Owner PROVE HashesNameChunks'
<1>1. ASSUME NEW S \in SUBSET Ids, \A i \in S : ledger[i].status \in {"failed", "skipped"},
             ledger' = Requeued(S), UNCHANGED <<chunks, writing>>
      PROVE  HashesNameChunks'
  <2>1. ASSUME NEW i \in Ids
        PROVE  /\ i \in S => ledger'[i].status = "pending" /\ ledger'[i].hash = None
               /\ i \notin S => ledger'[i] = ledger[i]
    BY <1>1 DEF Requeued, LedgerInv, TypeOK, Row
  <2>2. writing # NoWrite => writing.id \in Ids
    BY DEF LedgerInv, TypeOK
  <2>. QED
    BY <1>1, <2>1, <2>2 DEF HashesNameChunks, Hashed
<1>. QED
  BY <1>1 DEF Owner, RetryFailed, RequeueOnlineOnly, OnlineOnly, Requeued

LEMMA NextKeepsHashes ==
  ASSUME LedgerInv, HashesNameChunks, [Next]_vars, "crash" \notin FaultKinds PROVE HashesNameChunks'
<1>1. CASE UNCHANGED <<ledger, chunks, writing>>
  BY <1>1 DEF HashesNameChunks, Hashed
<1>. QED
  BY <1>1, JobStepKeepsHashes, HintKeepsHashes, FaultKeepsHashes, OwnerKeepsHashes
     DEF Next, Other, SaveFile, MoveFile, RemoveFile, Changed, StartScan, StartIndexing, store, vars

\* Without a crash between its two statements, replace_chunks never leaves an
\* indexed file with the chunks of another reading than its hash names.
THEOREM ChunksAlwaysMatchHash ==
  ASSUME "crash" \notin FaultKinds PROVE Spec => []ChunksMatchHash
<1>1. Init => HashesNameChunks
  BY InitHashes
<1>2. LedgerInv /\ HashesNameChunks /\ [Next]_vars => HashesNameChunks'
  BY NextKeepsHashes
<1>3. LedgerInv /\ HashesNameChunks => ChunksMatchHash
  BY HashesMeanMatch
<1>. QED
  BY <1>1, <1>2, <1>3, InvariantHolds, PTL DEF Spec

(***************************************************************************)
(* What walks find: the inductive invariant TruthInv of SettledLedgerIsTrue *)
(***************************************************************************)
\* A path holds one file; what stayed where it was is there, and only an
\* operation that looks at files notes what stays.
FilesStay ==
  /\ \A f, g \in Files : tree[f].path = tree[g].path /\ tree[f].path # None => f = g
  /\ unmoved \subseteq Present
  /\ job.op \in {"idle", "index"} => unmoved = {} /\ settled # "walking"
  /\ settled # "no" /\ job.op \in {"scan", "settle"} => unmoved = Present
  /\ settled = "walking" => job.root = Root /\ job.src = None

\* Rows say where a file is, and agree with the listing they were made from.
SaneRow(row) ==
  /\ row.status # "none" => row.path \in Paths
  /\ row.list # None => row.stat.mtime = row.list.mtime

SaneRows ==
  /\ \A i \in Ids : SaneRow(ledger[i])
  /\ writing # NoWrite => /\ SaneRow(writing.row) /\ writing.row.status # "none"
                          /\ writing.row.status = "deleted" => Live(writing.id)

\* What is listed is known by its id, and still true if nothing changed.
EntriesAreFiles ==
  /\ job.op # "scan" => job.entries = {} /\ job.queue = {}
  /\ job.op = "scan" => job.root \in Dirs
  /\ \A e \in job.entries :
       /\ e.id \in Files
       /\ settled # "no" => e.id \in Present /\ e.path = tree[e.id].path /\ e.stat = StatOf(e.id)

\* A walk that has missed nothing has seen, listed or still to list every file
\* that stayed in its folder.
Covered(f) == \/ f \in job.seen
              \/ \E e \in job.entries : e.id = f
              \/ DirOf[tree[f].path] \in job.queue
              \/ Root \in job.queue

WalkCovers ==
  /\ job.op = "scan" /\ job.complete =>
       \A f \in unmoved : tree[f].path \in Under(job.root) => Covered(f)
  /\ job.op = "settle" /\ job.complete /\ settled = "walking" => unmoved \subseteq job.seen

\* What is doomed, or being marked deleted, is not where its row says.
Misplaced(i) == i \in unmoved => settled # "walking" /\ ledger[i].path # tree[i].path

DoomedAreMisplaced ==
  /\ job.op # "settle" => job.doomed = {}
  /\ \A i \in job.doomed : Live(i) /\ i # writing.id /\ Misplaced(i)
  /\ writing # NoWrite /\ writing.row.status = "deleted" => job.op = "settle" /\ Misplaced(writing.id)

WalkInv == FilesStay /\ SaneRows /\ EntriesAreFiles /\ WalkCovers /\ DoomedAreMisplaced

(***************************************************************************)
(* What is settled                                                         *)
(***************************************************************************)
TrueRow(f, row) == /\ row.status \notin {"none", "deleted"}
                   /\ row.path = tree[f].path
                   /\ row.list \in {StatOf(f), None}
                   /\ row.stat.mtime = tree[f].mtime

\* The row of i as it is, or as it is being written.
Coming(i) == IF writing.id = i THEN writing.row ELSE ledger[i]

SeenAreTrue ==
  settled = "walking" =>
    /\ job.seen \subseteq Present
    /\ \A f \in job.seen : TrueRow(f, Coming(f))
    /\ job.op = "settle" /\ job.complete =>
         \A i \in Ids \ job.seen : Live(i) => i \in job.doomed \/ (writing.id = i /\ writing.row.status = "deleted")
    /\ writing # NoWrite /\ writing.row.status # "deleted" => writing.id \in job.seen

SettledInv ==
  settled = "yes" =>
    /\ \A i \in Ids : Live(i) <=> i \in Present
    /\ \A f \in Present : TrueRow(f, ledger[f]) /\ TrueRow(f, Coming(f))
    /\ job.doomed = {}
    /\ writing # NoWrite => writing.id \in Present

TruthInv == WalkInv /\ SeenAreTrue /\ SettledInv

LEMMA SettledMeansTrue == LedgerInv /\ TruthInv => SettledLedgerIsTrue
<1> SUFFICES ASSUME LedgerInv, TruthInv, settled = "yes"
             PROVE  /\ \A f \in Files : Live(f) <=> f \in Present
                    /\ \A f \in Present : RowIsTrue(f)
                    /\ \A l \in LegacyIds : ~Live(l)
  BY DEF SettledLedgerIsTrue
<1>. QED
  BY ConstantsAssumption DEF TruthInv, SettledInv, TrueRow, RowIsTrue, Ids, Present

LEMMA InitTruth == Init => TruthInv
<1> SUFFICES ASSUME Init PROVE TruthInv
  OBVIOUS
<1> USE ConstantsAssumption
<1>1. FilesStay
  BY TreesAssumption DEF Init, FilesStay, IdleJob
<1>2. \A i \in Carried : /\ NewIdOf[i] \in Files /\ tree[NewIdOf[i]].path \in Paths
                         /\ StatOf(NewIdOf[i]) \in Stat
  <2>1. tree \in [Files -> FileState]
    BY DEF Init
  <2>. QED
    BY <2>1, StatOfIsAStat DEF Carried
<1>3. SaneRows
  <2>1. SaneRow(NoRow)
    BY DEF SaneRow, NoRow
  <2>2. \A i \in Carried : SaneRow(LegacyRow(NewIdOf[i]))
    BY <1>2 DEF SaneRow, LegacyRow
  <2>. QED
    BY <2>1, <2>2 DEF Init, SaneRows
<1>. QED
  BY <1>1, <1>3 DEF Init, TruthInv, WalkInv, EntriesAreFiles, WalkCovers, DoomedAreMisplaced,
     SeenAreTrue, SettledInv, IdleJob

(***************************************************************************)
(* Truth: files change                                                     *)
(***************************************************************************)
LEMMA ChangeKeepsTruth ==
  ASSUME LedgerInv, TruthInv, tree' \in [Files -> FileState], settled' = "no",
         unmoved' \subseteq unmoved, UNCHANGED <<ledger, job, writing>>,
         \A f \in unmoved' : tree'[f].path = tree[f].path,
         \A f, g \in Files : tree'[f].path = tree'[g].path /\ tree'[f].path # None => f = g
  PROVE  TruthInv'
<1> USE DEF TruthInv, WalkInv
<1>1. unmoved' \subseteq Present'
  BY DEF FilesStay, Present
<1>2. FilesStay' /\ SaneRows' /\ EntriesAreFiles'
  BY <1>1 DEF FilesStay, SaneRows, EntriesAreFiles, Live
<1>3. WalkCovers'
  <2> SUFFICES ASSUME job.op = "scan", job.complete, NEW f \in unmoved', tree'[f].path \in Under(job.root)
               PROVE  Covered(f)'
    BY DEF WalkCovers, Under
  <2>. QED
    BY DEF WalkCovers, Covered
<1>4. DoomedAreMisplaced'
  BY DEF DoomedAreMisplaced, Misplaced, Live
<1>. QED
  BY <1>2, <1>3, <1>4 DEF SeenAreTrue, SettledInv

LEMMA OtherKeepsTruth == ASSUME LedgerInv, TruthInv, Other PROVE TruthInv'
<1> USE ConstantsAssumption
<1>0. tree \in [Files -> FileState] /\ \A f, g \in Files : tree[f].path = tree[g].path /\ tree[f].path # None => f = g
  BY DEF LedgerInv, TypeOK, TruthInv, WalkInv, FilesStay
<1>1. ASSUME NEW f \in Files, NEW p \in Paths, NEW c \in Contents, SaveFile(f, p, c)
      PROVE  TruthInv'
  <2>1. tree' \in [Files -> FileState]
    BY <1>0, <1>1 DEF SaveFile, FileState, LedgerInv, TypeOK
  <2>2. \A g \in Files : tree'[g].path = IF g = f THEN p ELSE tree[g].path
    BY <1>0, <1>1 DEF SaveFile
  <2>3. \A g \in Files \ {f} : tree[g].path # p
    BY <1>1 DEF SaveFile, At
  <2>4. \A g, h \in Files : tree'[g].path = tree'[h].path /\ tree'[g].path # None => g = h
    BY <1>0, <2>2, <2>3
  <2>5. unmoved' \subseteq unmoved /\ \A g \in unmoved' : g # f \/ tree[f].path = p
    BY <1>1 DEF SaveFile, Changed
  <2>6. \A g \in unmoved' : tree'[g].path = tree[g].path
    BY <2>2, <2>5 DEF LedgerInv, TypeOK
  <2>. QED
    BY <1>1, <2>1, <2>4, <2>5, <2>6, ChangeKeepsTruth DEF SaveFile, Changed, store
<1>2. ASSUME NEW f \in Files, NEW p \in Paths, MoveFile(f, p)
      PROVE  TruthInv'
  <2>1. tree' \in [Files -> FileState]
    BY <1>0, <1>2 DEF MoveFile, FileState
  <2>2. \A g \in Files : tree'[g].path = IF g = f THEN p ELSE IF g \in At(p) THEN None ELSE tree[g].path
    BY <1>0, <1>2 DEF MoveFile
  <2>3. \A g, h \in Files : tree'[g].path = tree'[h].path /\ tree'[g].path # None => g = h
    BY <1>0, <2>2 DEF At
  <2>4. unmoved' \subseteq unmoved /\ \A g \in unmoved' : g # f /\ g \notin At(p)
    BY <1>2 DEF MoveFile, Changed
  <2>5. \A g \in unmoved' : tree'[g].path = tree[g].path
    BY <2>2, <2>4 DEF LedgerInv, TypeOK
  <2>. QED
    BY <1>2, <2>1, <2>3, <2>4, <2>5, ChangeKeepsTruth DEF MoveFile, Changed, store
<1>3. ASSUME NEW f \in Files, RemoveFile(f)
      PROVE  TruthInv'
  <2>1. tree' \in [Files -> FileState]
    BY <1>0, <1>3 DEF RemoveFile, FileState
  <2>2. \A g \in Files : tree'[g].path = IF g = f THEN None ELSE tree[g].path
    BY <1>0, <1>3 DEF RemoveFile
  <2>3. unmoved' \subseteq unmoved /\ \A g \in unmoved' : g # f
    BY <1>3 DEF RemoveFile, Changed
  <2>4. \A g \in unmoved' : tree'[g].path = tree[g].path
    BY <2>2, <2>3 DEF LedgerInv, TypeOK
  <2>. QED
    BY <1>0, <1>3, <2>1, <2>2, <2>3, <2>4, ChangeKeepsTruth DEF RemoveFile, Changed, store
<1>. QED
  BY <1>1, <1>2, <1>3 DEF Other

(***************************************************************************)
(* Truth: operations begin                                                 *)
(***************************************************************************)
LEMMA WalkFields ==
  ASSUME NEW d, NEW src
  PROVE  /\ Walk(d, src).op = "scan" /\ Walk(d, src).root = d /\ Walk(d, src).src = src
         /\ Walk(d, src).queue = {d} /\ Walk(d, src).entries = {} /\ Walk(d, src).seen = {}
         /\ Walk(d, src).doomed = {} /\ Walk(d, src).complete
BY DEF Walk, IdleJob

LEMMA StartScanKeepsTruth == ASSUME LedgerInv, TruthInv, StartScan PROVE TruthInv'
<1> USE DEF TruthInv, WalkInv
<1>1. /\ job' = Walk(Root, None) /\ settled' = "walking" /\ unmoved' = Present
      /\ UNCHANGED <<tree, ledger, writing>> /\ writing = NoWrite
  BY DEF StartScan, Ready, source, store
<1>2. FilesStay' /\ EntriesAreFiles' /\ SaneRows'
  BY <1>1, WalkFields, ConstantsAssumption DEF FilesStay, EntriesAreFiles, SaneRows, Present
<1>3. WalkCovers'
  BY <1>1, WalkFields DEF WalkCovers, Covered
<1>4. DoomedAreMisplaced'
  BY <1>1, WalkFields DEF DoomedAreMisplaced
<1>5. SeenAreTrue' /\ SettledInv'
  BY <1>1, WalkFields DEF SeenAreTrue, SettledInv
<1>. QED
  BY <1>2, <1>3, <1>4, <1>5

\* A hint that walks a folder.
LEMMA HintWalkKeepsTruth ==
  ASSUME LedgerInv, TruthInv, Ready("idle"), NEW d \in Dirs \ {Root}, NEW src, job' = Walk(d, src),
         unmoved' = Present, UNCHANGED <<tree, ledger, writing, settled>>
  PROVE  TruthInv'
<1> USE DEF TruthInv, WalkInv
<1>1. writing = NoWrite /\ job.op = "idle"
  BY DEF Ready
<1>2. FilesStay' /\ EntriesAreFiles' /\ SaneRows'
  BY <1>1, WalkFields DEF FilesStay, EntriesAreFiles, SaneRows, Present
<1>3. WalkCovers'
  BY <1>1, WalkFields DEF WalkCovers, Covered, Under, FilesStay, Present
<1>4. DoomedAreMisplaced'
  BY <1>1, WalkFields DEF DoomedAreMisplaced
<1>5. SeenAreTrue' /\ SettledInv'
  BY <1>1, WalkFields DEF SeenAreTrue, SettledInv, FilesStay, Live, TrueRow, Coming, StatOf, Present
<1>. QED
  BY <1>2, <1>3, <1>4, <1>5

\* What is not there is misplaced.
LEMMA GoneIsMisplaced ==
  ASSUME LedgerInv, TruthInv, NEW p, Gone(p), NEW i \in LiveUnder(p)
  PROVE  /\ i \in unmoved => ledger[i].path # tree[i].path
         /\ settled # "yes"
<1>1. i \in Ids /\ ledger[i].path \in Under(p) /\ Live(i)
  BY DEF LiveUnder
<1>2. \A f \in Files : ledger[i].path # tree[f].path
  BY <1>1 DEF Gone, At
<1>. QED
  BY <1>1, <1>2 DEF LedgerInv, TypeOK, TruthInv, SettledInv, TrueRow, Present

LEMMA HintAbsentKeepsTruth ==
  ASSUME LedgerInv, TruthInv, NEW p, HintAbsent(p) PROVE TruthInv'
<1> USE DEF TruthInv, WalkInv
<1>1. /\ job' = [IdleJob EXCEPT !.op = "settle", !.root = p, !.doomed = LiveUnder(p)]
      /\ unmoved' = Present /\ UNCHANGED <<tree, ledger, writing, settled>>
      /\ writing = NoWrite /\ job.op = "idle" /\ Gone(p) /\ settled # "walking"
  BY DEF HintAbsent, Ready, source, store, FilesStay
<1>2. FilesStay' /\ EntriesAreFiles' /\ SaneRows' /\ WalkCovers'
  BY <1>1 DEF FilesStay, EntriesAreFiles, SaneRows, Present, IdleJob, WalkCovers
<1>3. \A i \in LiveUnder(p) : /\ i \in Ids /\ settled # "yes"
                              /\ i \in Present => ledger[i].path # tree[i].path
  BY <1>1 DEF LiveUnder, Gone, At, Present, SettledInv, TrueRow
<1>4. job'.op = "settle" /\ job'.doomed = LiveUnder(p) /\ writing' = NoWrite
  BY <1>1 DEF IdleJob
<1>5. DoomedAreMisplaced'
  <2>1. \A i \in LiveUnder(p) : i # writing'.id
    BY <1>3, <1>4, ConstantsAssumption DEF NoWrite
  <2>2. \A i \in LiveUnder(p) : Misplaced(i)'
    BY <1>1, <1>3 DEF Misplaced
  <2>. QED
    BY <1>1, <1>4, <2>1, <2>2 DEF DoomedAreMisplaced, LiveUnder, Live
<1>6. SeenAreTrue'
  BY <1>1 DEF SeenAreTrue
<1>7. SettledInv'
  BY <1>1, <1>3, <1>4 DEF SettledInv, Live, TrueRow, Coming, StatOf, Present
<1>. QED
  BY <1>2, <1>5, <1>6, <1>7

\* What observe writes says where the file is and what it looks like there.
LEMMA ReconciledIsTrue ==
  ASSUME NEW row, NEW p, NEW stat, NEW list, NEW due
  PROVE  /\ Reconciled(row, p, stat, list, due).path = p
         /\ Reconciled(row, p, stat, list, due).list = list
         /\ Reconciled(row, p, stat, list, due).stat = stat
BY DEF Reconciled

\* observe changes one row, or is about to.
LEMMA ObserveWrites ==
  ASSUME LedgerInv, writing = NoWrite, NEW i \in Ids, NEW p \in Paths, NEW stat \in Stat,
         NEW list \in Stat \cup {None}, NEW due \in BOOLEAN, Observe(i, p, stat, list, due)
  PROVE  \E row \in Row :
           /\ row.path = p /\ row.list = list /\ row.stat = stat
           /\ row.status \notin {"none", "deleted"}
           /\ \/ writing' = [id |-> i, row |-> row] /\ ledger' = ledger
              \/ writing' = NoWrite /\ ledger' = [ledger EXCEPT ![i] = row]
<1> DEFINE row == Reconciled(ledger[i], p, stat, list, due)
<1>1. ledger[i] \in Row
  BY DEF LedgerInv, TypeOK
<1>2. row \in Row /\ row.status \notin {"none", "deleted"}
  BY <1>1, ReconciledIsLive
<1>3. row.path = p /\ row.list = list /\ row.stat = stat
  BY ReconciledIsTrue
<1>4. \/ writing' = [id |-> i, row |-> row] /\ ledger' = ledger
      \/ writing' = NoWrite /\ ledger' = [ledger EXCEPT ![i] = row]
  BY DEF Observe, ChunksThenRow, RowOnly
<1> HIDE DEF row
<1>. QED
  BY <1>2, <1>3, <1>4

LEMMA HintFileKeepsTruth ==
  ASSUME LedgerInv, TruthInv, Ready("idle"), NEW p, NEW f \in At(p), NEW due \in BOOLEAN, NEW src,
         p \in Dirs \cup Paths, Observe(f, p, StatOf(f), None, due),
         job' = [IdleJob EXCEPT !.op = "settle", !.root = p, !.src = src, !.doomed = LiveAt(p) \ {f}],
         unmoved' = Present, UNCHANGED <<tree, settled>>
  PROVE  TruthInv'
<1> USE DEF TruthInv, WalkInv
<1>1. /\ writing = NoWrite /\ job.op = "idle" /\ settled # "walking"
      /\ f \in Files /\ f \in Ids /\ tree[f].path = p /\ p \in Paths /\ f \in Present /\ StatOf(f) \in Stat
  BY StatOfIsAStat, ConstantsAssumption
     DEF Ready, FilesStay, At, Ids, Present, LedgerInv, TypeOK, FileState
<1>2. PICK row \in Row :
        /\ row.path = p /\ row.list = None /\ row.stat = StatOf(f)
        /\ row.status \notin {"none", "deleted"}
        /\ \/ writing' = [id |-> f, row |-> row] /\ ledger' = ledger
           \/ writing' = NoWrite /\ ledger' = [ledger EXCEPT ![f] = row]
  BY <1>1, ObserveWrites
<1>3. /\ job'.op = "settle" /\ job'.doomed = LiveAt(p) \ {f} /\ job'.entries = {} /\ job'.queue = {}
      /\ job'.seen = {} /\ ledger \in [Ids -> Row] /\ None \notin Ids
  BY ConstantsAssumption DEF IdleJob, LedgerInv, TypeOK
<1>4. FilesStay' /\ EntriesAreFiles'
  BY <1>1, <1>3 DEF FilesStay, EntriesAreFiles, Present
<1>5. SaneRow(row) /\ TrueRow(f, row)
  BY <1>1, <1>2 DEF SaneRow, TrueRow, StatOf
<1>6. SaneRows'
  BY <1>1, <1>2, <1>3, <1>5 DEF SaneRows, SaneRow
<1>7. WalkCovers' /\ SeenAreTrue'
  BY <1>1, <1>3 DEF WalkCovers, SeenAreTrue
<1>8. \A i \in LiveAt(p) \ {f} : /\ i \in Ids
                                 /\ i \notin Files \/ tree[i].path # p
                                 /\ ledger'[i] = ledger[i] /\ ledger'[i].path = p /\ writing'.id # i
  <2>1. ASSUME NEW i \in LiveAt(p) \ {f} PROVE i \in Ids /\ ledger[i].path = p /\ i # f
    BY DEF LiveAt
  <2>2. ASSUME NEW i \in LiveAt(p) \ {f}, i \in Files PROVE tree[i].path # p
    BY <1>1, <2>1, <2>2, ConstantsAssumption DEF FilesStay
  <2>. QED
    BY <1>2, <1>3, <2>1, <2>2 DEF NoWrite
<1>9. DoomedAreMisplaced'
  BY <1>1, <1>2, <1>3, <1>8 DEF DoomedAreMisplaced, Misplaced, Present, LiveAt, Live
<1>10. SettledInv'
  <2> SUFFICES ASSUME settled = "yes" PROVE SettledInv'
    BY DEF SettledInv
  <2>1. LiveAt(p) \ {f} = {}
    BY <1>8 DEF LiveAt, SettledInv, Present, TrueRow
  <2>2. /\ \A i \in Ids : Live(i) <=> i \in Present
        /\ \A i \in Present : TrueRow(i, ledger[i])
    BY DEF SettledInv
  <2>3. \A i \in Ids : Live(i)' <=> i \in Present
    BY <1>1, <1>2, <1>3, <2>2 DEF Live
  <2>4. \A i \in Present : TrueRow(i, ledger'[i]) /\ TrueRow(i, Coming(i)')
    <3> SUFFICES ASSUME NEW i \in Present PROVE TrueRow(i, ledger'[i]) /\ TrueRow(i, Coming(i)')
      OBVIOUS
    <3>0. i \in Ids
      BY DEF Present, Ids
    <3>1. ledger'[i] = ledger[i] \/ (i = f /\ ledger'[i] = row)
      <4>1. CASE ledger' = ledger
        BY <4>1
      <4>2. CASE ledger' = [ledger EXCEPT ![f] = row]
        BY <1>3, <3>0, <4>2
      <4>. QED
        BY <1>2, <4>1, <4>2
    <3>2. Coming(i)' = ledger'[i] \/ (i = f /\ Coming(i)' = row)
      BY <1>2, <1>3, <3>0, <3>1 DEF Coming, NoWrite
    <3>. QED
      BY <1>5, <2>2, <3>1, <3>2
  <2>5. writing' # NoWrite => writing'.id \in Present
    BY <1>1, <1>2
  <2>. QED
    BY <1>3, <2>1, <2>3, <2>4, <2>5 DEF SettledInv, TrueRow, StatOf, Present, Coming
<1>. QED
  BY <1>4, <1>6, <1>7, <1>9, <1>10

LEMMA HintStepKeepsTruth == ASSUME LedgerInv, TruthInv, HintStep PROVE TruthInv'
<1>1. ASSUME NEW p \in HintPaths, NEW src \in HintPaths \cup {None}, HintPresent(p, src)
      PROVE  TruthInv'
  <2>0. /\ p \in Dirs \cup Paths /\ p # Root /\ Ready("idle") /\ unmoved' = Present
        /\ UNCHANGED <<tree, settled>>
    BY <1>1, ConstantsAssumption DEF HintPresent, HintPaths, source
  <2>1. CASE p \in Dirs /\ job' = Walk(p, src) /\ UNCHANGED <<ledger, chunks, writing>>
    BY <2>0, <2>1, HintWalkKeepsTruth
  <2>2. CASE /\ job' = [IdleJob EXCEPT !.op = "settle", !.root = p, !.src = src]
             /\ UNCHANGED <<ledger, chunks, writing>>
    <3>1. /\ job'.op = "settle" /\ job'.doomed = {} /\ job'.entries = {} /\ job'.queue = {}
          /\ writing = NoWrite /\ job.op = "idle" /\ job.doomed = {}
      BY <2>0, <2>2 DEF IdleJob, Ready, TruthInv, WalkInv, DoomedAreMisplaced
    <3>. QED
      BY <2>0, <2>2, <3>1 DEF TruthInv, WalkInv, FilesStay, SaneRows, EntriesAreFiles, WalkCovers,
         DoomedAreMisplaced, SeenAreTrue, SettledInv, TrueRow, Coming, Live, StatOf, Present
  <2>3. ASSUME NEW f \in At(p), NEW due \in BOOLEAN, Observe(f, p, StatOf(f), None, due),
               job' = [IdleJob EXCEPT !.op = "settle", !.root = p, !.src = src,
                                      !.doomed = LiveAt(p) \ {f}]
        PROVE  TruthInv'
    BY <2>0, <2>3, HintFileKeepsTruth
  <2>. QED
    BY <1>1, <2>1, <2>2, <2>3 DEF HintPresent
<1>. QED
  BY <1>1, HintAbsentKeepsTruth DEF HintStep

LEMMA StartIndexingKeepsTruth == ASSUME LedgerInv, TruthInv, StartIndexing PROVE TruthInv'
<1>1. /\ job'.op = "index" /\ job'.doomed = {} /\ job'.entries = {} /\ job'.queue = {}
      /\ writing = NoWrite /\ job.op = "idle" /\ job.doomed = {}
      /\ UNCHANGED <<tree, ledger, writing, settled, unmoved>>
  BY DEF StartIndexing, IdleJob, Ready, TruthInv, WalkInv, DoomedAreMisplaced, source, store, history
<1>. QED
  BY <1>1 DEF TruthInv, WalkInv, FilesStay, SaneRows, EntriesAreFiles, WalkCovers,
     DoomedAreMisplaced, SeenAreTrue, SettledInv, TrueRow, Coming, Live, StatOf, Present

(***************************************************************************)
(* Truth: rows are written                                                 *)
(***************************************************************************)
LEMMA CommitKeepsTruth == ASSUME LedgerInv, TruthInv, CommitRow PROVE TruthInv'
<1> USE DEF TruthInv, WalkInv
<1>0. PICK i \in Ids : i = writing.id
  BY ConstantsAssumption DEF CommitRow, LedgerInv, TypeOK
<1> DEFINE row == IF writing.row.status = "deleted" THEN [ledger[i] EXCEPT !.status = "deleted"]
                  ELSE writing.row
<1>1. /\ i \in Ids /\ writing.row \in Row /\ ledger[i] \in Row /\ writing # NoWrite
      /\ ledger' = [ledger EXCEPT ![i] = row] /\ writing' = NoWrite
      /\ UNCHANGED <<tree, job, settled, unmoved>>
      /\ ledger \in [Ids -> Row] /\ None \notin Ids /\ None # i
  BY <1>0, ConstantsAssumption DEF CommitRow, LedgerInv, TypeOK, source, history
<1>2. /\ ledger'[i] = row /\ \A k \in Ids \ {i} : ledger'[k] = ledger[k]
      /\ \A k \in Ids : Coming(k)' = ledger'[k]
      /\ \A k \in Ids : k # i => Coming(k) = ledger[k]
      /\ Coming(i) = writing.row
  BY <1>0, <1>1 DEF Coming, NoWrite
<1>3. FilesStay' /\ EntriesAreFiles' /\ WalkCovers'
  BY <1>1 DEF FilesStay, EntriesAreFiles, WalkCovers, Covered, Under, Present, StatOf
<1>4. SaneRows'
  <2>1. SaneRow(row)
    <3>1. CASE writing.row.status = "deleted"
      <4>1. row.path = ledger[i].path /\ row.list = ledger[i].list /\ row.stat = ledger[i].stat
        BY <1>0, <1>1, <3>1 DEF Row
      <4>. QED
        BY <1>0, <1>1, <3>1, <4>1 DEF SaneRows, SaneRow, Live
    <3>2. CASE writing.row.status # "deleted"
      BY <1>0, <1>1, <3>2 DEF SaneRows
    <3>. QED
      BY <3>1, <3>2
  <2>. QED
    BY <1>0, <1>1, <1>2, <2>1 DEF SaneRows
<1>5. DoomedAreMisplaced'
  <2>1. job.doomed \subseteq Ids
    BY DEF LedgerInv, TypeOK, Job
  <2>. QED
    BY <1>0, <1>1, <1>2, <2>1 DEF DoomedAreMisplaced, Misplaced, NoWrite, Live
<1>6. row.status = "deleted" <=> writing.row.status = "deleted"
  BY <1>1 DEF Row
<1>7. SeenAreTrue'
  <2> SUFFICES ASSUME settled = "walking" PROVE SeenAreTrue'
    BY <1>1 DEF SeenAreTrue
  <2>1. job.seen \subseteq Present /\ job.seen \subseteq Ids
    BY DEF SeenAreTrue, LedgerInv, TypeOK, Job
  <2>2. ASSUME NEW f \in job.seen PROVE TrueRow(f, ledger'[f])
    <3>1. TrueRow(f, Coming(f))
      BY DEF SeenAreTrue
    <3>. QED
      BY <1>0, <1>2, <2>1, <3>1 DEF TrueRow
  <2>3. ASSUME job.op = "settle", job.complete, NEW k \in Ids \ job.seen, Live(k)'
        PROVE  k \in job.doomed
    <3>1. CASE k # i
      BY <1>0, <1>2, <2>3, <3>1 DEF SeenAreTrue, Live
    <3>2. CASE k = i
      BY <1>0, <1>1, <1>2, <1>6, <2>3, <3>2 DEF SeenAreTrue, Live
    <3>. QED
      BY <3>1, <3>2
  <2>. QED
    BY <1>0, <1>1, <1>2, <2>1, <2>2, <2>3 DEF SeenAreTrue, TrueRow, StatOf, Present
<1>8. SettledInv'
  <2> SUFFICES ASSUME settled = "yes" PROVE SettledInv'
    BY <1>1 DEF SettledInv
  <2>1. /\ i \in Present /\ TrueRow(i, writing.row) /\ job.doomed = {}
        /\ \A k \in Ids : Live(k) <=> k \in Present
        /\ \A f \in Present : TrueRow(f, ledger[f])
    BY <1>0, <1>1, <1>2 DEF SettledInv
  <2>2. ledger'[i] = writing.row /\ Live(i)'
    <3>1. writing.row.status \notin {"none", "deleted"}
      BY <2>1 DEF TrueRow
    <3>. QED
      BY <1>0, <1>1, <1>2, <3>1 DEF Live
  <2>3. \A f \in Present : f \in Ids /\ TrueRow(f, ledger'[f])
    <3> SUFFICES ASSUME NEW f \in Present PROVE f \in Ids /\ TrueRow(f, ledger'[f])
      OBVIOUS
    <3>1. f \in Ids
      BY DEF Ids, Present
    <3>2. ledger'[f] = ledger[f] \/ f = i
      BY <1>0, <1>2, <3>1
    <3>. QED
      BY <2>1, <2>2, <3>1, <3>2
  <2>4. \A k \in Ids : Live(k)' <=> k \in Present
    <3> SUFFICES ASSUME NEW k \in Ids PROVE Live(k)' <=> k \in Present
      OBVIOUS
    <3>1. CASE k = i
      BY <2>1, <2>2, <3>1
    <3>2. CASE k # i
      BY <1>0, <1>2, <2>1, <3>2 DEF Live
    <3>. QED
      BY <3>1, <3>2
  <2>. QED
    BY <1>0, <1>1, <1>2, <2>1, <2>3, <2>4 DEF SettledInv, TrueRow, StatOf, Present
<1>. QED
  BY <1>3, <1>4, <1>5, <1>7, <1>8

(***************************************************************************)
(* Truth: walks                                                            *)
(***************************************************************************)
\* What the conjuncts say of a file that is there and nothing half written.
LEMMA NoWriteMeansComing ==
  ASSUME writing = NoWrite PROVE \A i \in Ids : Coming(i) = ledger[i] /\ writing.id # i
BY ConstantsAssumption DEF Coming, NoWrite

LEMMA PresentHasPath ==
  ASSUME LedgerInv, NEW f \in Present PROVE f \in Files /\ f \in Ids /\ tree[f].path \in Paths
BY DEF LedgerInv, TypeOK, FileState, Present, Ids

LEMMA ListDirKeepsTruth ==
  ASSUME LedgerInv, TruthInv, FALSE \notin ListedIds, NEW d \in job.queue, ListDir(d)
  PROVE  TruthInv'
<1> USE DEF TruthInv, WalkInv
<1>1. /\ job.op = "scan" /\ job.entries = {} /\ writing = NoWrite /\ job \in Job
      /\ UNCHANGED <<tree, ledger, writing, settled, unmoved>>
  BY DEF ListDir, Walking, Ready, source, store, history, LedgerInv, TypeOK
<1>2. /\ job'.queue = (job.queue \ {d}) \cup (IF d = Root THEN Dirs \ {Root} ELSE {})
      /\ job'.entries = {[path |-> tree[f].path, stat |-> StatOf(f), id |-> f] :
                           f \in {g \in Present : DirOf[tree[g].path] = d}}
      /\ job'.op = job.op /\ job'.root = job.root /\ job'.src = job.src
      /\ job'.seen = job.seen /\ job'.doomed = job.doomed /\ job'.complete = job.complete
  <2>1. PICK ids \in ListedIds :
         job' = [job EXCEPT
                   !.queue = (@ \ {d}) \cup (IF d = Root THEN Dirs \ {Root} ELSE {}),
                   !.entries = {[path |-> tree[f].path, stat |-> StatOf(f),
                                 id |-> IF ids THEN f ELSE None] :
                                  f \in {g \in Present : DirOf[tree[g].path] = d}}]
    BY DEF ListDir
  <2>2. ids = TRUE
    BY ConstantsAssumption
  <2>. QED
    BY <1>1, <2>1, <2>2 DEF Job
<1>3. FilesStay' /\ SaneRows'
  BY <1>1, <1>2 DEF FilesStay, SaneRows, Present, Live
<1>4. EntriesAreFiles'
  <2>1. \A e \in job'.entries : e.id \in Present /\ e.path = tree[e.id].path /\ e.stat = StatOf(e.id)
    BY <1>2
  <2>. QED
    BY <1>1, <1>2, <2>1 DEF EntriesAreFiles, Present, StatOf
<1>5. WalkCovers'
  <2> SUFFICES ASSUME job.complete, NEW f \in unmoved, tree[f].path \in Under(job.root)
               PROVE  Covered(f)'
    BY <1>1, <1>2 DEF WalkCovers, Under
  <2>1. f \in Present /\ tree[f].path \in Paths /\ DirOf[tree[f].path] \in Dirs
    BY PresentHasPath, ConstantsAssumption DEF FilesStay
  <2>2. Covered(f)
    BY <1>1 DEF WalkCovers
  <2>3. CASE DirOf[tree[f].path] = d
    <3> DEFINE e == [path |-> tree[f].path, stat |-> StatOf(f), id |-> f]
    <3>1. e \in job'.entries /\ e.id = f
      BY <1>2, <2>1, <2>3
    <3>. QED
      BY <3>1 DEF Covered
  <2>4. CASE DirOf[tree[f].path] # d
    <3>1. f \in job'.seen \/ DirOf[tree[f].path] \in job'.queue \/ Root \in job'.queue
      BY <1>1, <1>2, <2>1, <2>2, <2>4 DEF Covered
    <3>. QED
      BY <1>1, <3>1 DEF Covered
  <2>. QED
    BY <2>3, <2>4
<1>6. DoomedAreMisplaced'
  BY <1>1, <1>2 DEF DoomedAreMisplaced, Misplaced, Live
<1>7. SeenAreTrue' /\ SettledInv'
  BY <1>1, <1>2 DEF SeenAreTrue, SettledInv, TrueRow, Coming, StatOf, Present, Live
<1>. QED
  BY <1>3, <1>4, <1>5, <1>6, <1>7

\* A failed listing or lookup: the walk is no longer complete.
LEMMA IncompleteKeepsTruth ==
  ASSUME LedgerInv, TruthInv, Ready("scan"), job'.op = "scan", job'.root = job.root,
         job'.src = job.src, job'.seen = job.seen, job'.doomed = job.doomed, ~job'.complete,
         job'.entries \subseteq job.entries,
         UNCHANGED <<tree, ledger, writing, settled, unmoved>>
  PROVE  TruthInv'
BY DEF Ready, TruthInv, WalkInv, FilesStay, SaneRows, EntriesAreFiles, WalkCovers,
   DoomedAreMisplaced, Misplaced, SeenAreTrue, SettledInv, TrueRow, Coming, Live, StatOf, Present

\* The facts of one entry of a listing.
LEMMA EntryFacts ==
  ASSUME LedgerInv, TruthInv, Ready("scan"), NEW e \in job.entries
  PROVE  /\ job.op = "scan" /\ writing = NoWrite /\ job.doomed = {}
         /\ e.id \in Files /\ e.id \in Ids /\ e.path \in Paths /\ e.stat \in Stat
         /\ settled # "no" => e.id \in Present /\ e.path = tree[e.id].path /\ e.stat = StatOf(e.id)
BY DEF Ready, TruthInv, WalkInv, EntriesAreFiles, DoomedAreMisplaced, LedgerInv, TypeOK, Job, Ids

\* The row of the entry's file is, or is about to be, what the listing says.
LEMMA EntrySeenKeepsTruth ==
  ASSUME LedgerInv, TruthInv, Ready("scan"), NEW e \in job.entries, NEW f \in Files, f = e.id,
         NEW row \in Row, row.path = e.path, row.list = e.stat, row.stat.mtime = e.stat.mtime,
         row.status \notin {"none", "deleted"},
         \/ writing' = [id |-> f, row |-> row] /\ ledger' = ledger
         \/ writing' = NoWrite /\ ledger' \in [Ids -> Row] /\ ledger'[f] = row
            /\ \A k \in Ids \ {f} :
                 ledger'[k] = ledger[k] \/ (ledger'[k] = NoRow /\ Live(k) /\ ledger[k].path = e.path),
         job' = [job EXCEPT !.entries = @ \ {e}, !.seen = @ \cup {f}],
         UNCHANGED <<tree, settled, unmoved>>
  PROVE  TruthInv'
<1> USE DEF TruthInv, WalkInv
<1>1. /\ job.op = "scan" /\ writing = NoWrite /\ job.doomed = {} /\ f \in Ids
      /\ settled # "no" => f \in Present /\ e.path = tree[f].path /\ e.stat = StatOf(f)
      /\ e.path \in Paths /\ ledger \in [Ids -> Row] /\ None \notin Ids
  BY EntryFacts, ConstantsAssumption DEF LedgerInv, TypeOK
<1>2. /\ job'.entries = job.entries \ {e} /\ job'.seen = job.seen \cup {f}
      /\ job'.queue = job.queue /\ job'.complete = job.complete
      /\ job'.op = "scan" /\ job'.root = job.root /\ job'.src = job.src /\ job'.doomed = {}
  BY <1>1 DEF LedgerInv, TypeOK, Job
<1>3. FilesStay' /\ EntriesAreFiles'
  BY <1>1, <1>2 DEF FilesStay, EntriesAreFiles, Present, StatOf
<1>4. SaneRow(row)
  BY <1>1 DEF SaneRow
<1>5. SaneRows'
  <2>1. SaneRow(NoRow)
    BY DEF SaneRow, NoRow
  <2>2. \A k \in Ids : SaneRow(ledger'[k])
    BY <1>1, <1>4, <2>1 DEF SaneRows
  <2>. QED
    BY <1>4, <2>2 DEF SaneRows
<1>6. WalkCovers'
  <2> SUFFICES ASSUME job.complete, NEW g \in unmoved, tree[g].path \in Under(job.root)
               PROVE  Covered(g)'
    BY <1>2 DEF WalkCovers, Under
  <2>1. Covered(g)
    BY <1>1 DEF WalkCovers
  <2>2. g \in job'.seen \/ (\E x \in job'.entries : x.id = g)
        \/ DirOf[tree[g].path] \in job'.queue \/ Root \in job'.queue
    BY <1>2, <2>1 DEF Covered
  <2>. QED
    BY <2>2 DEF Covered
<1>7. DoomedAreMisplaced'
  BY <1>2 DEF DoomedAreMisplaced
\* another row can only go when its file is not there
<1>8. ASSUME settled # "no", NEW k \in Present, TrueRow(k, ledger[k]), k # f
      PROVE  k \in Ids /\ ledger'[k] = ledger[k] /\ Coming(k)' = ledger[k]
  <2>1. k \in Files /\ k \in Ids
    BY <1>8, PresentHasPath
  <2>2. ledger[k].path # e.path
    BY <1>1, <1>8, <2>1 DEF FilesStay, TrueRow, Present
  <2>3. ledger'[k] = ledger[k]
    BY <1>8, <2>1, <2>2
  <2>. QED
    BY <1>1, <1>8, <2>1, <2>3 DEF Coming, NoWrite
<1>9. ASSUME settled # "no" PROVE f \in Present /\ TrueRow(f, row) /\ Coming(f)' = row
  BY <1>1, <1>9 DEF TrueRow, Coming, NoWrite, StatOf
<1>10. SeenAreTrue'
  <2> SUFFICES ASSUME settled = "walking" PROVE SeenAreTrue'
    BY DEF SeenAreTrue
  <2>1. job.seen \subseteq Present /\ \A k \in job.seen : TrueRow(k, ledger[k])
    BY <1>1, NoWriteMeansComing, PresentHasPath DEF SeenAreTrue
  <2>2. \A k \in job'.seen : k \in Present /\ TrueRow(k, Coming(k)')
    BY <1>2, <1>8, <1>9, <2>1
  <2>3. writing' # NoWrite => writing'.id \in job'.seen
    BY <1>2
  <2>. QED
    BY <1>2, <2>2, <2>3 DEF SeenAreTrue, TrueRow, StatOf, Present
<1>11. SettledInv'
  <2> SUFFICES ASSUME settled = "yes" PROVE SettledInv'
    BY DEF SettledInv
  <2>1. /\ \A k \in Ids : Live(k) <=> k \in Present
        /\ \A k \in Present : TrueRow(k, ledger[k])
    BY DEF SettledInv
  <2>2. \A k \in Present : TrueRow(k, Coming(k)')
    BY <1>8, <1>9, <2>1
  <2>3. \A k \in Present : TrueRow(k, ledger'[k])
    BY <1>1, <1>8, <1>9, <2>1
  <2>4. \A k \in Ids : Live(k)' <=> k \in Present
    <3> SUFFICES ASSUME NEW k \in Ids PROVE Live(k)' <=> k \in Present
      OBVIOUS
    <3>1. CASE k \in Present
      BY <2>3, <3>1 DEF TrueRow, Live
    <3>2. CASE k \notin Present
      <4>1. ~Live(k) /\ k # f
        BY <1>9, <2>1, <3>2
      <4>2. ledger'[k] = ledger[k]
        BY <4>1
      <4>. QED
        BY <3>2, <4>1, <4>2 DEF Live
    <3>. QED
      BY <3>1, <3>2
  <2>5. writing' # NoWrite => writing'.id \in Present
    BY <1>9
  <2>. QED
    BY <1>2, <2>2, <2>3, <2>4, <2>5 DEF SettledInv, TrueRow, StatOf, Present, Coming
<1>. QED
  BY <1>3, <1>5, <1>6, <1>7, <1>10, <1>11

LEMMA RecogniseKeepsTruth ==
  ASSUME LedgerInv, TruthInv, Ready("scan"), NEW e \in job.entries, NEW i \in Matching(e),
         NEW due \in BOOLEAN, Recognise(e, i, due), UNCHANGED <<tree, settled, unmoved>>
  PROVE  TruthInv'
<1>1. /\ writing = NoWrite /\ e.id \in Files /\ e.id \in Ids /\ e.id # None
      /\ e.path \in Paths /\ e.stat \in Stat
  BY EntryFacts, ConstantsAssumption
<1>2. i \in Ids /\ Live(i) /\ ledger[i].path = e.path /\ ledger[i].list = e.stat
  BY DEF Matching, LiveAt
<1> DEFINE row == Stamped(ledger[i], due)
<1>3. ledger \in [Ids -> Row] /\ ledger[i] \in Row /\ SaneRow(ledger[i])
  BY <1>2 DEF LedgerInv, TypeOK, TruthInv, WalkInv, SaneRows
<1>4. /\ row \in Row /\ row.path = e.path /\ row.list = e.stat /\ row.stat = ledger[i].stat
      /\ row.status \notin {"none", "deleted"}
  BY <1>2, <1>3 DEF Stamped, Row, Status, Reason, Live
<1>5. row.stat.mtime = e.stat.mtime
  BY <1>1, <1>2, <1>3, <1>4, ConstantsAssumption DEF SaneRow
<1>6. /\ ledger' = [ledger EXCEPT ![i] = NoRow, ![e.id] = row] /\ writing' = NoWrite
      /\ job' = [job EXCEPT !.entries = @ \ {e}, !.seen = @ \cup {e.id}]
  BY <1>1 DEF Recognise
<1> HIDE DEF row
<1>7. ledger' \in [Ids -> Row]
  BY <1>3, <1>4, <1>6, NoRowIsARow
<1>8. ledger'[e.id] = row
  BY <1>1, <1>3, <1>6
<1>9. \A k \in Ids \ {e.id} :
        ledger'[k] = ledger[k] \/ (ledger'[k] = NoRow /\ Live(k) /\ ledger[k].path = e.path)
  BY <1>2, <1>3, <1>6
<1>. QED
  BY <1>1, <1>4, <1>5, <1>6, <1>7, <1>8, <1>9, EntrySeenKeepsTruth

LEMMA ListedFileKeepsTruth ==
  ASSUME LedgerInv, TruthInv, NEW e \in job.entries, ListedFile(e)
  PROVE  TruthInv'
<1>0. Ready("scan") /\ UNCHANGED <<tree, settled, unmoved>>
  BY DEF ListedFile, source, history
<1>1. /\ writing = NoWrite /\ e.id \in Files /\ e.id \in Ids /\ e.id # None
      /\ e.path \in Paths /\ e.stat \in Stat
  BY <1>0, EntryFacts, ConstantsAssumption
<1>2. PICK due \in BOOLEAN : \/ \E i \in Matching(e) : Recognise(e, i, due)
                             \/ ObserveEntry(e, e.id, e.stat, due)
  BY <1>1 DEF ListedFile
<1>3. CASE \E i \in Matching(e) : Recognise(e, i, due)
  BY <1>0, <1>3, RecogniseKeepsTruth
<1>4. CASE ObserveEntry(e, e.id, e.stat, due)
  <2>1. PICK row \in Row :
          /\ row.path = e.path /\ row.list = e.stat /\ row.stat = e.stat
          /\ row.status \notin {"none", "deleted"}
          /\ \/ writing' = [id |-> e.id, row |-> row] /\ ledger' = ledger
             \/ writing' = NoWrite /\ ledger' = [ledger EXCEPT ![e.id] = row]
    BY <1>1, <1>4, ObserveWrites DEF ObserveEntry
  <2>2. ledger \in [Ids -> Row]
    BY DEF LedgerInv, TypeOK
  <2>3. ASSUME ledger' = [ledger EXCEPT ![e.id] = row]
        PROVE  /\ ledger' \in [Ids -> Row] /\ ledger'[e.id] = row
               /\ \A k \in Ids \ {e.id} : ledger'[k] = ledger[k]
    BY <1>1, <2>2, <2>3
  <2>4. job' = [job EXCEPT !.entries = @ \ {e}, !.seen = @ \cup {e.id}]
    BY <1>4 DEF ObserveEntry
  <2>. QED
    BY <1>0, <1>1, <2>1, <2>3, <2>4, EntrySeenKeepsTruth
<1>. QED
  BY <1>2, <1>3, <1>4

LEMMA FinishWalkKeepsTruth == ASSUME LedgerInv, TruthInv, FinishWalk PROVE TruthInv'
<1> USE DEF TruthInv, WalkInv
<1>1. /\ job.op = "scan" /\ job.entries = {} /\ job.queue = {} /\ writing = NoWrite /\ job \in Job
      /\ UNCHANGED <<tree, ledger, writing, settled, unmoved>>
  BY DEF FinishWalk, Walking, Ready, source, store, history, LedgerInv, TypeOK
<1>2. /\ job'.op = "settle" /\ job'.root = job.root /\ job'.src = job.src
      /\ job'.queue = {} /\ job'.entries = {}
      /\ job'.seen = job.seen /\ job'.complete = job.complete
      /\ job'.doomed = IF job.complete THEN LiveUnder(job.root) \ job.seen ELSE {}
  BY <1>1 DEF FinishWalk, Job
\* with nothing left to list, what stayed under the root was seen
<1>3. ASSUME job.complete, NEW f \in unmoved, tree[f].path \in Under(job.root)
      PROVE  f \in job.seen
  BY <1>1, <1>3 DEF WalkCovers, Covered
<1>4. ASSUME settled = "walking", job.complete PROVE unmoved \subseteq job.seen
  BY <1>3, <1>4, PresentHasPath DEF FilesStay, Under
<1>5. FilesStay' /\ SaneRows' /\ EntriesAreFiles'
  BY <1>1, <1>2 DEF FilesStay, SaneRows, EntriesAreFiles, Present, Live
<1>6. WalkCovers'
  BY <1>1, <1>2, <1>4 DEF WalkCovers
<1>7. ASSUME NEW i \in job'.doomed
      PROVE  /\ job.complete /\ i \in Ids /\ Live(i) /\ i \notin job.seen
             /\ ledger[i].path \in Under(job.root)
  BY <1>2, <1>7 DEF LiveUnder
<1>8. DoomedAreMisplaced'
  <2>1. ASSUME NEW i \in job'.doomed, i \in unmoved
        PROVE  settled # "walking" /\ ledger[i].path # tree[i].path
    BY <1>3, <1>4, <1>7, <2>1
  <2>2. \A i \in job'.doomed : (Live(i) /\ i # writing.id /\ Misplaced(i))'
    BY <1>1, <1>7, <2>1, NoWriteMeansComing DEF Misplaced, Live
  <2>. QED
    BY <1>1, <1>2, <2>2 DEF DoomedAreMisplaced
<1>9. SeenAreTrue'
  <2> SUFFICES ASSUME settled = "walking" PROVE SeenAreTrue'
    BY <1>1 DEF SeenAreTrue
  <2>1. job.root = Root /\ Under(Root) = Paths
    BY DEF FilesStay, Under
  <2>2. ASSUME job.complete, NEW i \in Ids \ job.seen, Live(i) PROVE i \in job'.doomed
    BY <1>2, <2>1, <2>2 DEF LiveUnder, SaneRows, SaneRow, Live
  <2>3. job.seen \subseteq Present /\ \A f \in job.seen : TrueRow(f, Coming(f))
    BY DEF SeenAreTrue
  <2>. QED
    BY <1>1, <1>2, <2>2, <2>3 DEF SeenAreTrue, TrueRow, Coming, StatOf, Present, Live
<1>10. SettledInv'
  <2> SUFFICES ASSUME settled = "yes" PROVE SettledInv'
    BY <1>1 DEF SettledInv
  <2>1. ASSUME NEW i \in job'.doomed PROVE FALSE
    <3>1. i \in Present /\ TrueRow(i, ledger[i])
      BY <1>7, <2>1 DEF SettledInv
    <3>2. i \in unmoved /\ tree[i].path \in Under(job.root)
      BY <1>1, <1>7, <2>1, <3>1 DEF FilesStay, TrueRow
    <3>. QED
      BY <1>3, <1>7, <2>1, <3>2
  <2>. QED
    BY <1>1, <2>1 DEF SettledInv, TrueRow, Coming, StatOf, Present, Live
<1>. QED
  BY <1>5, <1>6, <1>8, <1>9, <1>10

(***************************************************************************)
(* Truth: operations settle                                                *)
(***************************************************************************)
LEMMA TombstoneKeepsTruth ==
  ASSUME LedgerInv, TruthInv, NEW i \in job.doomed, Tombstone(i) PROVE TruthInv'
<1> USE DEF TruthInv, WalkInv
<1> DEFINE row == [ledger[i] EXCEPT !.status = "deleted"]
<1>1. /\ job.op = "settle" /\ writing = NoWrite /\ job \in Job /\ i \in Ids
      /\ UNCHANGED <<tree, ledger, settled, unmoved>> /\ writing' = [id |-> i, row |-> row]
      /\ ledger[i] \in Row /\ Live(i) /\ Misplaced(i)
  BY DEF Tombstone, Ready, ChunksThenRow, source, history, LedgerInv, TypeOK, DoomedAreMisplaced, Job
<1>2. /\ job'.op = "settle" /\ job'.root = job.root /\ job'.src = job.src
      /\ job'.queue = job.queue /\ job'.entries = job.entries
      /\ job'.seen = job.seen /\ job'.complete = job.complete
      /\ job'.doomed = job.doomed \ {i}
  BY <1>1 DEF Tombstone, Job
<1>3. /\ row.status = "deleted" /\ row.path = ledger[i].path /\ row.list = ledger[i].list
      /\ row.stat = ledger[i].stat
  BY <1>1 DEF Row
<1> HIDE DEF row
<1>4. FilesStay' /\ EntriesAreFiles' /\ WalkCovers'
  BY <1>1, <1>2 DEF FilesStay, EntriesAreFiles, WalkCovers, Present
<1>5. SaneRows'
  <2>1. SaneRow(row)
    BY <1>1, <1>3 DEF SaneRows, SaneRow, Live
  <2>. QED
    BY <1>1, <1>3, <2>1 DEF SaneRows, Live
<1>6. DoomedAreMisplaced'
  BY <1>1, <1>2 DEF DoomedAreMisplaced, Misplaced, Live
<1>7. SeenAreTrue'
  <2> SUFFICES ASSUME settled = "walking" PROVE SeenAreTrue'
    BY <1>1 DEF SeenAreTrue
  <2>1. job.seen \subseteq Present /\ \A f \in job.seen : f \in Ids /\ TrueRow(f, ledger[f])
    BY <1>1, NoWriteMeansComing, PresentHasPath DEF SeenAreTrue
  <2>2. i \notin job.seen
    BY <1>1, <2>1 DEF Misplaced, FilesStay
  <2>3. \A f \in job.seen : TrueRow(f, Coming(f)')
    BY <1>1, <2>1, <2>2 DEF Coming
  <2>4. \A k \in Ids \ job.seen : Live(k) /\ job.complete => k \in job.doomed
    BY <1>1, NoWriteMeansComing DEF SeenAreTrue
  <2>. QED
    BY <1>1, <1>2, <1>3, <2>1, <2>3, <2>4 DEF SeenAreTrue, TrueRow, StatOf, Present, Live
<1>8. SettledInv'
  BY <1>1 DEF SettledInv
<1>. QED
  BY <1>4, <1>5, <1>6, <1>7, <1>8

LEMMA HintSourceKeepsTruth == ASSUME LedgerInv, TruthInv, HintSource PROVE TruthInv'
<1> USE DEF TruthInv, WalkInv
<1>1. /\ job.op = "settle" /\ writing = NoWrite /\ job \in Job /\ job.src # None /\ settled # "walking"
      /\ UNCHANGED <<tree, ledger, writing, settled, unmoved>>
  BY DEF HintSource, Ready, source, store, history, LedgerInv, TypeOK, FilesStay
<1>2. /\ job'.op = "settle" /\ job'.root = job.src /\ job'.src = None
      /\ job'.queue = job.queue /\ job'.entries = job.entries
      /\ job'.seen = job.seen /\ job'.complete = job.complete
      /\ job'.doomed = IF Gone(job.src) THEN LiveUnder(job.src) ELSE {}
  BY <1>1 DEF HintSource, Job
<1>3. \A i \in job'.doomed : /\ i \in Ids /\ Live(i) /\ settled # "yes"
                             /\ i \in unmoved => ledger[i].path # tree[i].path
  BY <1>2, GoneIsMisplaced DEF LiveUnder
<1>4. FilesStay' /\ SaneRows' /\ EntriesAreFiles' /\ WalkCovers'
  BY <1>1, <1>2 DEF FilesStay, SaneRows, EntriesAreFiles, WalkCovers, Present, Live
<1>5. DoomedAreMisplaced'
  BY <1>1, <1>2, <1>3, NoWriteMeansComing DEF DoomedAreMisplaced, Misplaced, Live
<1>6. SeenAreTrue' /\ SettledInv'
  BY <1>1, <1>2, <1>3 DEF SeenAreTrue, SettledInv, TrueRow, Coming, StatOf, Present, Live
<1>. QED
  BY <1>4, <1>5, <1>6

LEMMA EndOperationKeepsTruth == ASSUME LedgerInv, TruthInv, EndOperation PROVE TruthInv'
<1> USE DEF TruthInv, WalkInv
<1>1. /\ job.op = "settle" /\ writing = NoWrite /\ job.doomed = {}
      /\ UNCHANGED <<tree, ledger, writing>> /\ unmoved' = {}
      /\ settled' = IF settled = "walking" THEN (IF job.complete THEN "yes" ELSE "no") ELSE settled
      /\ job'.op = "idle" /\ job'.queue = {} /\ job'.entries = {} /\ job'.doomed = {}
  BY DEF EndOperation, Ready, source, IdleJob
<1>2. FilesStay' /\ SaneRows' /\ EntriesAreFiles' /\ WalkCovers' /\ DoomedAreMisplaced'
  BY <1>1 DEF FilesStay, SaneRows, EntriesAreFiles, WalkCovers, DoomedAreMisplaced, Live
<1>3. settled' # "walking"
  BY <1>1
<1>4. SeenAreTrue'
  BY <1>3 DEF SeenAreTrue
<1>5. CASE settled = "walking" /\ job.complete
  <2>1. job.seen \subseteq Present /\ Present \subseteq job.seen
    BY <1>1, <1>5 DEF SeenAreTrue, FilesStay, WalkCovers
  <2>2. \A f \in Present : f \in Ids /\ TrueRow(f, ledger[f])
    BY <1>1, <1>5, <2>1, NoWriteMeansComing, PresentHasPath DEF SeenAreTrue
  <2>3. \A i \in Ids : Live(i) => i \in Present
    BY <1>1, <1>5, <2>1, NoWriteMeansComing DEF SeenAreTrue
  <2>4. \A i \in Ids : Live(i) <=> i \in Present
    BY <2>2, <2>3 DEF TrueRow, Live
  <2>5. \A f \in Present : TrueRow(f, Coming(f))
    BY <1>1, <2>2, NoWriteMeansComing
  <2>6. SettledInv'
    BY <1>1, <2>2, <2>4, <2>5 DEF SettledInv, TrueRow, Coming, StatOf, Present, Live
  <2>. QED
    BY <1>2, <1>4, <2>6
<1>6. CASE ~(settled = "walking" /\ job.complete)
  <2>1. settled' = "yes" => settled = "yes"
    BY <1>1, <1>6
  <2>2. SettledInv'
    BY <1>1, <2>1 DEF SettledInv, TrueRow, Coming, StatOf, Present, Live
  <2>. QED
    BY <1>2, <1>4, <2>2
<1>. QED
  BY <1>5, <1>6

(***************************************************************************)
(* Truth: rows change where they are                                       *)
(***************************************************************************)
\* The same place and listing, and as live as before.
SamePlace(r, s) == /\ r.path = s.path /\ r.list = s.list /\ r.stat.mtime = s.stat.mtime
                   /\ r.status = "none" <=> s.status = "none"
                   /\ r.status = "deleted" <=> s.status = "deleted"

LEMMA SamePlacesKeepTruth ==
  ASSUME LedgerInv, TruthInv, UNCHANGED <<tree, settled, unmoved>>,
         \A i \in Ids : SamePlace(ledger'[i], ledger[i]),
         job'.op = job.op, job'.root = job.root, job'.src = job.src, job'.queue = job.queue,
         job'.entries = job.entries, job'.seen = job.seen, job'.complete = job.complete,
         job'.doomed = job.doomed,
         \/ writing' = writing
         \/ job.op = "index" /\ \E i \in Ids, row \in Row :
              writing' = [id |-> i, row |-> row] /\ SamePlace(row, ledger[i]) /\ Live(i)
  PROVE  TruthInv'
<1> USE DEF TruthInv, WalkInv
<1>0. /\ writing' = NoWrite \/ writing'.id \in Ids
      /\ job.doomed \subseteq Ids
  BY DEF LedgerInv, TypeOK, Job
<1>1. \A i \in Ids : Live(i)' <=> Live(i)
  BY DEF SamePlace, Live
<1>2. FilesStay' /\ EntriesAreFiles' /\ WalkCovers'
  BY DEF FilesStay, EntriesAreFiles, WalkCovers, Covered, Under, Present, StatOf
<1>3. \A r, s : SamePlace(r, s) /\ SaneRow(s) => SaneRow(r)
  BY DEF SamePlace, SaneRow
<1>4. SaneRows'
  <2>1. \A i \in Ids : SaneRow(ledger'[i])
    BY <1>3 DEF SaneRows
  <2>2. CASE writing' = writing
    <3>1. writing # NoWrite => writing.id \in Ids
      BY DEF LedgerInv, TypeOK
    <3>2. writing # NoWrite /\ writing.row.status = "deleted" => Live(writing.id)
      BY DEF SaneRows
    <3>3. writing # NoWrite /\ writing.row.status = "deleted" => ledger'[writing.id].status \notin {"none", "deleted"}
      BY <1>1, <3>1, <3>2 DEF Live
    <3>. QED
      BY <2>1, <2>2, <3>3 DEF SaneRows, Live
  <2>3. CASE writing' # writing
    <3>1. PICK i \in Ids, row \in Row :
            writing' = [id |-> i, row |-> row] /\ SamePlace(row, ledger[i]) /\ Live(i)
      BY <2>3
    <3>2. SaneRow(row) /\ row.status \notin {"none", "deleted"}
      BY <1>3, <3>1 DEF SamePlace, Live, SaneRows
    <3>. QED
      BY <2>1, <3>1, <3>2 DEF SaneRows
  <2>. QED
    BY <2>2, <2>3
<1>5. CASE writing' = writing
  <2>1. \A i \in Ids : Misplaced(i) => (i \in unmoved => settled # "walking" /\ ledger'[i].path # tree[i].path)
    BY DEF Misplaced, SamePlace
  <2>2. writing # NoWrite => writing.id \in Ids
    BY DEF LedgerInv, TypeOK
  <2>3. \A i \in job.doomed : ledger'[i].status \notin {"none", "deleted"}
    BY <1>0, <1>1 DEF DoomedAreMisplaced, Live
  <2>4. DoomedAreMisplaced'
    BY <1>0, <1>5, <2>1, <2>2, <2>3 DEF DoomedAreMisplaced, Misplaced, Live
  <2>5. \A f \in Ids : TrueRow(f, ledger[f]) => TrueRow(f, ledger'[f])
    BY DEF TrueRow, SamePlace
  <2>6. \A f \in Ids : TrueRow(f, Coming(f)) => TrueRow(f, Coming(f)')
    BY <1>5, <2>5 DEF Coming
  <2>7. Present \subseteq Ids
    BY PresentHasPath
  <2>8. SeenAreTrue'
    <3> SUFFICES ASSUME settled = "walking" PROVE SeenAreTrue'
      BY DEF SeenAreTrue
    <3>1. job.seen \subseteq Present /\ \A f \in job.seen : TrueRow(f, Coming(f)')
      BY <2>6, <2>7 DEF SeenAreTrue
    <3>2. ASSUME job.op = "settle", job.complete, NEW k \in Ids \ job.seen, Live(k)'
          PROVE  k \in job.doomed \/ (writing.id = k /\ writing.row.status = "deleted")
      BY <1>1, <3>2 DEF SeenAreTrue
    <3>. QED
      BY <1>5, <3>1, <3>2 DEF SeenAreTrue, TrueRow, StatOf, Present
  <2>9. SettledInv'
    <3> SUFFICES ASSUME settled = "yes" PROVE SettledInv'
      BY DEF SettledInv
    <3>1. \A k \in Ids : Live(k)' <=> k \in Present
      BY <1>1 DEF SettledInv
    <3>2. \A f \in Present : TrueRow(f, ledger'[f]) /\ TrueRow(f, Coming(f)')
      BY <2>5, <2>6, <2>7 DEF SettledInv
    <3>. QED
      BY <1>5, <3>1, <3>2 DEF SettledInv, TrueRow, StatOf, Present
  <2>. QED
    BY <1>2, <1>4, <2>4, <2>8, <2>9
<1>6. CASE writing' # writing
  <2>1. PICK i \in Ids, row \in Row :
          writing' = [id |-> i, row |-> row] /\ SamePlace(row, ledger[i]) /\ Live(i)
    BY <1>6
  <2>2. job.op = "index" /\ job.doomed = {} /\ settled # "walking"
    BY <1>6 DEF DoomedAreMisplaced, FilesStay
  <2>3. row.status # "deleted"
    BY <2>1 DEF SamePlace, Live
  <2>4. DoomedAreMisplaced' /\ SeenAreTrue'
    BY <2>1, <2>2, <2>3 DEF DoomedAreMisplaced, SeenAreTrue
  <2>5. SettledInv'
    <3> SUFFICES ASSUME settled = "yes" PROVE SettledInv'
      BY DEF SettledInv
    <3>1. \A k \in Ids : Live(k)' <=> k \in Present
      BY <1>1 DEF SettledInv
    <3>2. \A f \in Present : f \in Ids /\ TrueRow(f, ledger[f])
      BY PresentHasPath DEF SettledInv
    <3>3. \A f \in Present : TrueRow(f, ledger'[f])
      BY <3>2 DEF TrueRow, SamePlace
    <3>4. \A f \in Present : Coming(f)' = ledger'[f] \/ (f = i /\ Coming(f)' = row)
      BY <2>1 DEF Coming
    <3>5. TrueRow(i, ledger[i]) => TrueRow(i, row)
      BY <2>1 DEF TrueRow, SamePlace
    <3>6. \A f \in Present : TrueRow(f, Coming(f)')
      BY <3>2, <3>3, <3>4, <3>5
    <3>7. i \in Present
      BY <2>1 DEF SettledInv
    <3>. QED
      BY <2>1, <2>2, <3>1, <3>3, <3>6, <3>7 DEF SettledInv, TrueRow, StatOf, Present, Coming
  <2>. QED
    BY <1>2, <1>4, <2>4, <2>5
<1>. QED
  BY <1>5, <1>6

\* One queued file: its row, and what is written of it, stay in place.
LEMMA OneRowKeepsTruth ==
  ASSUME LedgerInv, TruthInv, Ready("index"), NEW i \in Ids, Live(i), NEW row \in Row,
         SamePlace(row, ledger[i]), UNCHANGED <<tree, settled, unmoved>>,
         job' = [job EXCEPT !.todo = @ \ {i}],
         \/ writing' = [id |-> i, row |-> row] /\ ledger' = ledger
         \/ writing' = writing /\ ledger' = [ledger EXCEPT ![i] = row]
  PROVE  TruthInv'
<1>1. job \in Job /\ ledger \in [Ids -> Row] /\ job.op = "index"
  BY DEF LedgerInv, TypeOK, Ready
<1>2. /\ job'.op = job.op /\ job'.root = job.root /\ job'.src = job.src /\ job'.queue = job.queue
      /\ job'.entries = job.entries /\ job'.seen = job.seen /\ job'.complete = job.complete
      /\ job'.doomed = job.doomed
  BY <1>1 DEF Job
<1>3. \A k \in Ids : ledger'[k] = ledger[k] \/ (k = i /\ ledger'[k] = row)
  BY <1>1
<1>4. \A k \in Ids : SamePlace(ledger'[k], ledger[k])
  BY <1>3 DEF SamePlace
<1>. QED
  BY <1>1, <1>2, <1>4, SamePlacesKeepTruth

\* Reading a file changes its size on record, its hash and its outcome.
LEMMA ReadingRows ==
  ASSUME LedgerInv, NEW i \in job.todo, NEW c \in Contents, NEW st \in Status \ {"none", "deleted"},
         NEW reason \in Reason, NEW hash \in Contents \cup {None}
  PROVE  /\ SamePlace([ledger[i] EXCEPT !.status = st, !.reason = reason, !.hash = hash], ledger[i])
         /\ SamePlace([ledger[i] EXCEPT !.status = st, !.reason = reason], ledger[i])
         /\ SamePlace([Sized(ledger[i], c) EXCEPT !.status = st], ledger[i])
         /\ SamePlace([Sized(ledger[i], c) EXCEPT !.status = st, !.reason = reason, !.hash = hash], ledger[i])
         /\ [ledger[i] EXCEPT !.status = st, !.reason = reason, !.hash = hash] \in Row
         /\ [ledger[i] EXCEPT !.status = st, !.reason = reason] \in Row
         /\ [Sized(ledger[i], c) EXCEPT !.status = st] \in Row
         /\ [Sized(ledger[i], c) EXCEPT !.status = st, !.reason = reason, !.hash = hash] \in Row
<1>1. /\ i \in Ids /\ ledger[i] \in Row /\ ledger[i].status \notin {"none", "deleted"}
      /\ Sized(ledger[i], c) \in Row
  BY QueuedRow DEF Live
<1>2. /\ Sized(ledger[i], c).path = ledger[i].path /\ Sized(ledger[i], c).list = ledger[i].list
      /\ Sized(ledger[i], c).stat.mtime = ledger[i].stat.mtime
  BY <1>1 DEF Sized, Row, Stat
<1>3. \A r \in Row : /\ [r EXCEPT !.status = st, !.reason = reason, !.hash = hash] \in Row
                     /\ [r EXCEPT !.status = st, !.reason = reason] \in Row
                     /\ [r EXCEPT !.status = st] \in Row
  BY DEF Row
<1> DEFINE r1 == [ledger[i] EXCEPT !.status = st, !.reason = reason, !.hash = hash]
           r2 == [ledger[i] EXCEPT !.status = st, !.reason = reason]
           r3 == [Sized(ledger[i], c) EXCEPT !.status = st]
           r4 == [Sized(ledger[i], c) EXCEPT !.status = st, !.reason = reason, !.hash = hash]
<1>4. \A r \in {r1, r2} : /\ r.path = ledger[i].path /\ r.list = ledger[i].list /\ r.status = st
                          /\ r.stat = ledger[i].stat
  BY <1>1 DEF Row
<1>5. \A r \in {r3, r4} : /\ r.path = ledger[i].path /\ r.list = ledger[i].list /\ r.status = st
                          /\ r.stat.mtime = ledger[i].stat.mtime
  BY <1>1, <1>2 DEF Row
<1>6. SamePlace(r1, ledger[i]) /\ SamePlace(r2, ledger[i])
  BY <1>1, <1>4 DEF SamePlace
<1>7. SamePlace(r3, ledger[i]) /\ SamePlace(r4, ledger[i])
  BY <1>1, <1>5 DEF SamePlace
<1>. QED
  BY <1>1, <1>3, <1>6, <1>7

\* What reading a queued file can do to its row.
Reads(i) == \/ \E reason \in Reason, hash \in Contents \cup {None} : Skip(i, reason, hash)
            \/ Fail(i)
            \/ \E c \in Contents : Handle(i, c)

LEMMA QueuedFileIsRead ==
  ASSUME LedgerInv, NEW i \in job.todo, IndexFile(i) \/ ReadFails(i)
  PROVE  /\ Reads(i) /\ Ready("index") /\ UNCHANGED <<source, history>>
         /\ job' = [job EXCEPT !.todo = @ \ {i}]
<1>1. \A f \in Files : tree[f].content \in Contents
  BY DEF LedgerInv, TypeOK, FileState
<1>. QED
  BY <1>1 DEF IndexFile, ReadFails, TakeFile, Reads, Reason, At

\* It is written, or about to be, and its place and listing stay.
LEMMA ReadingWrites ==
  ASSUME LedgerInv, NEW i \in job.todo, Reads(i)
  PROVE  \E row \in Row : /\ SamePlace(row, ledger[i])
                          /\ \/ writing' = [id |-> i, row |-> row] /\ ledger' = ledger
                             \/ writing' = writing /\ ledger' = [ledger EXCEPT ![i] = row]
<1>1. i \in Ids /\ Live(i) /\ ledger[i] \in Row
  BY QueuedRow
<1>2. /\ {"skipped", "failed", "indexed"} \subseteq Status \ {"none", "deleted"}
      /\ {"none", "read failed", "too large", "no text"} \subseteq Reason
  BY DEF Status, Reason
<1>3. ASSUME NEW reason \in Reason, NEW hash \in Contents \cup {None}, Skip(i, reason, hash)
      PROVE  \E row \in Row : SamePlace(row, ledger[i]) /\ writing' = [id |-> i, row |-> row] /\ ledger' = ledger
  <2> DEFINE row == [ledger[i] EXCEPT !.status = "skipped", !.reason = reason, !.hash = hash]
  <2>1. row \in Row /\ SamePlace(row, ledger[i])
    BY <1>1 DEF SamePlace, Row, Live, Status
  <2>. QED
    BY <1>3, <2>1 DEF Skip, ChunksThenRow
<1>4. ASSUME Fail(i)
      PROVE  \E row \in Row : SamePlace(row, ledger[i]) /\ writing' = writing /\ ledger' = [ledger EXCEPT ![i] = row]
  <2> DEFINE row == [ledger[i] EXCEPT !.status = "failed", !.reason = "read failed"]
  <2>1. row \in Row /\ SamePlace(row, ledger[i])
    BY <1>1 DEF SamePlace, Row, Live, Status, Reason
  <2>. QED
    BY <1>4, <2>1 DEF Fail, RowOnly
<1>5. ASSUME NEW c \in Contents, Touch(i, c)
      PROVE  \E row \in Row : SamePlace(row, ledger[i]) /\ writing' = writing /\ ledger' = [ledger EXCEPT ![i] = row]
  <2> DEFINE st == IF ledger[i].reason # "none" THEN "skipped" ELSE "indexed"
             row == [Sized(ledger[i], c) EXCEPT !.status = st]
  <2>1. row \in Row /\ SamePlace(row, ledger[i])
    BY <1>2, ReadingRows
  <2>. QED
    BY <1>5, <2>1 DEF Touch, RowOnly
<1>6. ASSUME NEW c \in Contents,
             ChunksThenRow(i, c, [Sized(ledger[i], c) EXCEPT !.status = "indexed", !.reason = "none", !.hash = c])
      PROVE  \E row \in Row : SamePlace(row, ledger[i]) /\ writing' = [id |-> i, row |-> row] /\ ledger' = ledger
  <2> DEFINE row == [Sized(ledger[i], c) EXCEPT !.status = "indexed", !.reason = "none", !.hash = c]
  <2>1. row \in Row /\ SamePlace(row, ledger[i])
    BY <1>2, ReadingRows
  <2>. QED
    BY <1>6, <2>1 DEF ChunksThenRow
<1>7. ASSUME NEW c \in Contents, Handle(i, c)
      PROVE  \/ \E reason \in Reason, hash \in Contents \cup {None} : Skip(i, reason, hash)
             \/ Touch(i, c)
             \/ ChunksThenRow(i, c, [Sized(ledger[i], c) EXCEPT !.status = "indexed", !.reason = "none", !.hash = c])
  BY <1>2, <1>7 DEF Handle
<1>. QED
  BY <1>3, <1>4, <1>5, <1>6, <1>7 DEF Reads

LEMMA QueuedFileKeepsTruth ==
  ASSUME LedgerInv, TruthInv, NEW i \in job.todo, IndexFile(i) \/ ReadFails(i)
  PROVE  TruthInv'
<1>1. /\ Ready("index") /\ Reads(i) /\ UNCHANGED <<tree, settled, unmoved>>
      /\ job' = [job EXCEPT !.todo = @ \ {i}]
  BY QueuedFileIsRead DEF source, history
<1>2. PICK row \in Row : /\ SamePlace(row, ledger[i])
                         /\ \/ writing' = [id |-> i, row |-> row] /\ ledger' = ledger
                            \/ writing' = writing /\ ledger' = [ledger EXCEPT ![i] = row]
  BY <1>1, ReadingWrites
<1>3. i \in Ids /\ Live(i)
  BY QueuedRow
<1>. QED
  BY <1>1, <1>2, <1>3, OneRowKeepsTruth

LEMMA IndexStepKeepsTruth == ASSUME LedgerInv, TruthInv, IndexStep PROVE TruthInv'
<1>1. ASSUME EndIndexing PROVE TruthInv'
  <2>1. /\ job'.op = "idle" /\ job'.doomed = {} /\ job'.entries = {} /\ job'.queue = {}
        /\ writing = NoWrite /\ job.op = "index" /\ job.doomed = {}
        /\ UNCHANGED <<tree, ledger, writing, settled, unmoved>>
    BY <1>1 DEF EndIndexing, IdleJob, Ready, TruthInv, WalkInv, DoomedAreMisplaced, source, store, history
  <2>. QED
    BY <2>1 DEF TruthInv, WalkInv, FilesStay, SaneRows, EntriesAreFiles, WalkCovers,
       DoomedAreMisplaced, SeenAreTrue, SettledInv, TrueRow, Coming, Live, StatOf, Present
<1>. QED
  BY <1>1, QueuedFileKeepsTruth DEF IndexStep

LEMMA FaultStepKeepsTruth == ASSUME LedgerInv, TruthInv, FaultStep PROVE TruthInv'
<1>0. job \in Job
  BY DEF LedgerInv, TypeOK
<1>1. ASSUME NEW d \in job.queue, ListDirFails(d) PROVE TruthInv'
  BY <1>0, <1>1, IncompleteKeepsTruth DEF ListDirFails, Walking, Ready, Job, source, store, history
<1>2. ASSUME NEW e \in job.entries, EntryFails(e) PROVE TruthInv'
  BY <1>0, <1>2, IncompleteKeepsTruth DEF EntryFails, Ready, Job, source, store, history
<1>3. ASSUME NEW i \in job.todo, ReadFails(i) PROVE TruthInv'
  BY <1>3, QueuedFileKeepsTruth
<1>4. ASSUME Crash PROVE TruthInv'
  <2> USE DEF TruthInv, WalkInv
  <2>1. /\ job'.op = "idle" /\ job'.doomed = {} /\ job'.entries = {} /\ job'.queue = {}
        /\ writing' = NoWrite /\ unmoved' = {} /\ UNCHANGED <<tree, ledger>>
        /\ settled' # "walking" /\ (settled' = "yes" => settled = "yes")
    BY <1>4 DEF Crash, IdleJob, source, store
  <2>2. FilesStay' /\ SaneRows' /\ EntriesAreFiles' /\ WalkCovers' /\ DoomedAreMisplaced' /\ SeenAreTrue'
    BY <2>1, NoRowIsARow DEF FilesStay, SaneRows, EntriesAreFiles, WalkCovers, DoomedAreMisplaced, SeenAreTrue
  <2>3. SettledInv'
    <3>1. \A f \in Present : f \in Ids
      BY PresentHasPath
    <3>2. \A f \in Ids : Coming(f)' = ledger[f]
      BY <2>1, ConstantsAssumption DEF Coming, NoWrite
    <3>3. settled' = "yes" => /\ \A i \in Ids : Live(i) <=> i \in Present
                              /\ \A f \in Present : TrueRow(f, ledger[f])
      BY <2>1 DEF SettledInv
    <3>4. settled' = "yes" => \A f \in Present : TrueRow(f, Coming(f)')
      BY <3>1, <3>2, <3>3
    <3>. QED
      BY <2>1, <3>3, <3>4 DEF SettledInv, Live, TrueRow, StatOf, Present
  <2>. QED
    BY <2>2, <2>3
<1>. QED
  BY <1>1, <1>2, <1>3, <1>4 DEF FaultStep

\* A row queued again stays where it is.
LEMMA OwnerKeepsTruth == ASSUME LedgerInv, TruthInv, Owner PROVE TruthInv'
<1>1. PICK S \in SUBSET Ids :
        /\ \A i \in S : ledger[i].status \in {"failed", "skipped"}
        /\ ledger' = [i \in Ids |-> IF i \in S THEN [ledger[i] EXCEPT !.status = "pending",
                                      !.reason = "none", !.hash = None] ELSE ledger[i]]
        /\ UNCHANGED <<tree, job, writing, settled, unmoved>>
  BY DEF Owner, RetryFailed, RequeueOnlineOnly, OnlineOnly, source, history
<1>2. \A i \in Ids : SamePlace(ledger'[i], ledger[i])
  <2> SUFFICES ASSUME NEW i \in Ids PROVE SamePlace(ledger'[i], ledger[i])
    OBVIOUS
  <2>1. ledger[i] \in Row
    BY DEF LedgerInv, TypeOK
  <2>2. CASE i \in S
    <3> DEFINE row == [ledger[i] EXCEPT !.status = "pending", !.reason = "none", !.hash = None]
    <3>1. ledger'[i] = row
      BY <1>1, <2>2
    <3>2. row.path = ledger[i].path /\ row.list = ledger[i].list /\ row.stat = ledger[i].stat
          /\ row.status = "pending"
      BY <2>1 DEF Row
    <3>. QED
      BY <1>1, <2>2, <3>1, <3>2 DEF SamePlace
  <2>3. CASE i \notin S
    BY <1>1, <2>3 DEF SamePlace
  <2>. QED
    BY <2>2, <2>3
<1>. QED
  BY <1>1, <1>2, SamePlacesKeepTruth

LEMMA NextKeepsTruth ==
  ASSUME LedgerInv, TruthInv, FALSE \notin ListedIds, [Next]_vars PROVE TruthInv'
<1>1. CASE ScanStep
  BY <1>1, ListDirKeepsTruth, ListedFileKeepsTruth, FinishWalkKeepsTruth DEF ScanStep
<1>2. CASE SettleStep
  BY <1>2, TombstoneKeepsTruth, HintSourceKeepsTruth, EndOperationKeepsTruth DEF SettleStep
<1>3. CASE JobStep
  BY <1>1, <1>2, <1>3, CommitKeepsTruth, IndexStepKeepsTruth DEF JobStep
<1>4. CASE UNCHANGED vars
  BY <1>4 DEF vars, TruthInv, WalkInv, FilesStay, SaneRows, EntriesAreFiles, WalkCovers, Covered, Under,
     DoomedAreMisplaced, Misplaced, SeenAreTrue, SettledInv, TrueRow, Coming, Live, StatOf, Present
<1>. QED
  BY <1>3, <1>4, OtherKeepsTruth, StartScanKeepsTruth, StartIndexingKeepsTruth, FaultStepKeepsTruth,
     HintStepKeepsTruth, OwnerKeepsTruth DEF Next

(***************************************************************************)
(* Theorem: a settled ledger is true                                       *)
(***************************************************************************)
\* When listings give ids, a complete root scan that nothing changed under leaves
\* exactly the files that exist, each live row where its file is, and it stays so
\* through hints, retries, indexing and crashes until a file changes (scan,
\* observe, _prune, _tombstone_under, _listed_file, hint).
THEOREM SettledLedgerIsAlwaysTrue ==
  ASSUME FALSE \notin ListedIds PROVE Spec => []SettledLedgerIsTrue
<1>1. Init => TruthInv
  BY InitTruth
<1>2. LedgerInv /\ TruthInv /\ [Next]_vars => TruthInv'
  BY NextKeepsTruth
<1>3. LedgerInv /\ TruthInv => SettledLedgerIsTrue
  BY SettledMeansTrue
<1>. QED
  BY <1>1, <1>2, <1>3, InvariantHolds, PTL DEF Spec

(***************************************************************************)
(* Sizes and times tell files apart                                        *)
(***************************************************************************)
\* A size and a modification time that are on record as those of file f: it has
\* them, its row or the row being written was listed with them, or a listing is.
OnRecord(f, s) ==
  \/ s = StatOf(f)
  \/ \E i \in Ids : FileOf(i) = f /\ ledger[i].list = s
  \/ writing # NoWrite /\ FileOf(writing.id) = f /\ writing.row.list = s
  \/ \E e \in job.entries : e.id = f /\ e.stat = s

\* ... are on record of no other file, and not from the future.
StatsTellFiles ==
  \A f, g \in Files : \A s \in Stat :
    OnRecord(f, s) => s.mtime <= clock /\ (OnRecord(g, s) => f = g)

\* At first no two files have the same size (and all have the same time).
FilesDiffer == \A t \in InitialTrees : \A f, g \in Files :
                 SizeOf[t[f].content] = SizeOf[t[g].content] => f = g

LEMMA FileOfIsAFile == \A i \in Ids : FileOf(i) \in Files
BY ConstantsAssumption DEF FileOf, Ids

LEMMA InitStats == ASSUME Init, FilesDiffer PROVE StatsTellFiles
<1> USE ConstantsAssumption
<1>1. /\ tree \in InitialTrees /\ tree \in [Files -> FileState] /\ clock = 0 /\ job.entries = {}
      /\ writing = NoWrite
  BY DEF Init, IdleJob
<1>2. \A i \in Ids : ledger[i].list \in {None, StatOf(FileOf(i))}
  BY DEF Init, NoRow, LegacyRow, Carried, FileOf
<1>3. \A f \in Files, s \in Stat : OnRecord(f, s) => s = StatOf(f)
  BY <1>1, <1>2 DEF OnRecord
<1>4. \A f, g \in Files : /\ StatOf(f).mtime = 0
                          /\ StatOf(f) = StatOf(g) => f = g
  BY <1>1, TreesAssumption DEF StatOf, FilesDiffer
<1>. QED
  BY <1>1, <1>3, <1>4 DEF StatsTellFiles

\* Nothing new on record.
LEMMA SameRecordsKeepStats ==
  ASSUME LedgerInv, StatsTellFiles, UNCHANGED <<tree, clock>>,
         \A i \in Ids : ledger'[i].list = None \/ OnRecord(FileOf(i), ledger'[i].list),
         writing' # NoWrite =>
           \/ writing'.row.list = None
           \/ OnRecord(FileOf(writing'.id), writing'.row.list),
         \A e \in job'.entries : e.id \in Files => OnRecord(e.id, e.stat)
  PROVE  StatsTellFiles'
<1>1. ASSUME NEW f \in Files, NEW s \in Stat, OnRecord(f, s)' PROVE OnRecord(f, s)
  <2>0. s # None
    BY ConstantsAssumption
  <2>1. CASE s = StatOf(f)
    BY <2>1 DEF OnRecord
  <2>2. CASE \E i \in Ids : FileOf(i) = f /\ ledger'[i].list = s
    BY <2>0, <2>2
  <2>3. CASE writing' # NoWrite /\ FileOf(writing'.id) = f /\ writing'.row.list = s
    BY <2>0, <2>3
  <2>4. CASE \E e \in job'.entries : e.id = f /\ e.stat = s
    BY <2>4
  <2>. QED
    BY <1>1, <2>1, <2>2, <2>3, <2>4 DEF OnRecord, StatOf, FileOf
<1>. QED
  BY <1>1 DEF StatsTellFiles

LEMMA RecordsOf ==
  ASSUME LedgerInv
  PROVE  /\ \A i \in Ids : OnRecord(FileOf(i), ledger[i].list)
         /\ writing # NoWrite => OnRecord(FileOf(writing.id), writing.row.list)
         /\ \A e \in job.entries : OnRecord(e.id, e.stat)
         /\ \A f \in Files : OnRecord(f, StatOf(f)) /\ FileOf(f) = f /\ f \in Ids
BY DEF OnRecord, FileOf, Ids

\* Steps after which every row, written or not, has the listing it had or none.
LEMMA SameListingsKeepStats ==
  ASSUME LedgerInv, StatsTellFiles, UNCHANGED <<tree, clock>>,
         \A i \in Ids : ledger'[i].list \in {None, ledger[i].list},
         writing' # NoWrite /\ writing' # writing =>
           writing'.id \in Ids /\ writing'.row.list \in {None, ledger[writing'.id].list},
         job'.entries \subseteq job.entries
  PROVE  StatsTellFiles'
<1>1. \A i \in Ids : ledger'[i].list = None \/ OnRecord(FileOf(i), ledger'[i].list)
  BY RecordsOf
<1>2. writing' # NoWrite => \/ writing'.row.list = None
                            \/ OnRecord(FileOf(writing'.id), writing'.row.list)
  BY RecordsOf
<1>. QED
  BY <1>1, <1>2, RecordsOf, SameRecordsKeepStats

\* A save gives its file, and no other, a new modification time.
LEMMA OtherStats ==
  ASSUME LedgerInv, Other
  PROVE  /\ clock' = clock + 1 /\ UNCHANGED <<ledger, job, writing>>
         /\ \A f \in Files : StatOf(f)' = StatOf(f) \/ StatOf(f)'.mtime = clock + 1
         /\ \A f, g \in Files : StatOf(f)' # StatOf(f) /\ StatOf(g)' # StatOf(g) => f = g
<1>0. tree \in [Files -> FileState] /\ clock \in Nat
  BY DEF LedgerInv, TypeOK
<1>1. ASSUME NEW f \in Files, NEW p \in Paths, NEW c \in Contents, SaveFile(f, p, c)
      PROVE  /\ \A g \in Files : g # f => StatOf(g)' = StatOf(g)
             /\ StatOf(f)'.mtime = clock + 1
  BY <1>0, <1>1 DEF SaveFile, StatOf
<1>2. ASSUME NEW f \in Files, NEW p \in Paths, MoveFile(f, p)
      PROVE  \A g \in Files : StatOf(g)' = StatOf(g)
  BY <1>0, <1>2 DEF MoveFile, StatOf, FileState
<1>3. ASSUME NEW f \in Files, RemoveFile(f)
      PROVE  \A g \in Files : StatOf(g)' = StatOf(g)
  BY <1>0, <1>3 DEF RemoveFile, StatOf, FileState
<1>4. clock' = clock + 1 /\ UNCHANGED <<ledger, job, writing>>
  BY DEF Other, SaveFile, MoveFile, RemoveFile, Changed, store
<1>. QED
  BY <1>1, <1>2, <1>3, <1>4 DEF Other

LEMMA OtherKeepsStats == ASSUME LedgerInv, StatsTellFiles, Other PROVE StatsTellFiles'
<1> USE ConstantsAssumption
<1>0. tree \in [Files -> FileState] /\ clock \in Nat
  BY DEF LedgerInv, TypeOK
<1>1. /\ clock' = clock + 1 /\ UNCHANGED <<ledger, job, writing>>
      /\ \A f \in Files : StatOf(f)' = StatOf(f) \/ StatOf(f)'.mtime = clock + 1
      /\ \A f, g \in Files : StatOf(f)' # StatOf(f) /\ StatOf(g)' # StatOf(g) => f = g
  BY OtherStats
<1>2. ASSUME NEW f \in Files, NEW s \in Stat, OnRecord(f, s)'
      PROVE  OnRecord(f, s) \/ (s = StatOf(f)' /\ s.mtime = clock + 1 /\ StatOf(f)' # StatOf(f))
  <2>1. CASE s = StatOf(f)'
    BY <1>1, <2>1 DEF OnRecord
  <2>2. CASE s # StatOf(f)'
    BY <1>1, <1>2, <2>2 DEF OnRecord, FileOf
  <2>. QED
    BY <2>1, <2>2
<1>3. \A f \in Files, s \in Stat : OnRecord(f, s) => s.mtime # clock + 1
  BY <1>0 DEF StatsTellFiles, Stat
<1>4. ASSUME NEW f \in Files, NEW g \in Files, NEW s \in Stat, OnRecord(f, s)'
      PROVE  s.mtime <= clock' /\ (OnRecord(g, s)' => f = g)
  <2>1. s.mtime <= clock'
    BY <1>0, <1>1, <1>2, <1>4 DEF StatsTellFiles, Stat
  <2>2. OnRecord(g, s)' => f = g
    BY <1>1, <1>2, <1>3, <1>4 DEF StatsTellFiles
  <2>. QED
    BY <2>1, <2>2
<1>. QED
  BY <1>4 DEF StatsTellFiles

\* One row, written or about to be, with a listing that was on record.
LEMMA OneRowKeepsStats ==
  ASSUME LedgerInv, StatsTellFiles, NEW i \in Ids, NEW row \in Row,
         row.list = None \/ OnRecord(FileOf(i), row.list),
         \/ writing' = [id |-> i, row |-> row] /\ ledger' = ledger
         \/ writing' = writing /\ ledger' = [ledger EXCEPT ![i] = row],
         job'.entries \subseteq job.entries, UNCHANGED <<tree, clock>>
  PROVE  StatsTellFiles'
<1>1. ledger \in [Ids -> Row]
  BY DEF LedgerInv, TypeOK
<1>2. \A k \in Ids : ledger'[k] = ledger[k] \/ (k = i /\ ledger'[k] = row)
  <2> SUFFICES ASSUME NEW k \in Ids PROVE ledger'[k] = ledger[k] \/ (k = i /\ ledger'[k] = row)
    OBVIOUS
  <2>1. CASE ledger' = ledger
    BY <2>1
  <2>2. CASE ledger' = [ledger EXCEPT ![i] = row]
    BY <1>1, <2>2
  <2>. QED
    BY <2>1, <2>2
<1>3. \A k \in Ids : ledger'[k].list = None \/ OnRecord(FileOf(k), ledger'[k].list)
  BY <1>2, RecordsOf
<1>4. writing' # NoWrite => \/ writing'.row.list = None
                            \/ OnRecord(FileOf(writing'.id), writing'.row.list)
  <2>1. CASE writing' = writing
    BY <2>1, RecordsOf
  <2>2. CASE writing' = [id |-> i, row |-> row]
    BY <2>2
  <2>. QED
    BY <2>1, <2>2
<1>. QED
  BY <1>3, <1>4, RecordsOf, SameRecordsKeepStats

LEMMA QueuedFileKeepsStats ==
  ASSUME LedgerInv, StatsTellFiles, NEW i \in job.todo, IndexFile(i) \/ ReadFails(i)
  PROVE  StatsTellFiles'
<1>1. Reads(i) /\ UNCHANGED <<tree, clock>> /\ job' = [job EXCEPT !.todo = @ \ {i}]
  BY QueuedFileIsRead DEF source
<1>2. PICK row \in Row : /\ SamePlace(row, ledger[i])
                         /\ \/ writing' = [id |-> i, row |-> row] /\ ledger' = ledger
                            \/ writing' = writing /\ ledger' = [ledger EXCEPT ![i] = row]
  BY <1>1, ReadingWrites
<1>3. i \in Ids /\ job'.entries = job.entries
  BY <1>1, QueuedRow DEF LedgerInv, TypeOK, Job
<1>. QED
  BY <1>1, <1>2, <1>3, RecordsOf, OneRowKeepsStats DEF SamePlace

LEMMA ScanStepKeepsStats ==
  ASSUME LedgerInv, TruthInv, StatsTellFiles, FALSE \notin ListedIds, ScanStep
  PROVE  StatsTellFiles'
<1>0. job \in Job /\ ledger \in [Ids -> Row]
  BY DEF LedgerInv, TypeOK
<1>1. ASSUME NEW d \in job.queue, ListDir(d) PROVE StatsTellFiles'
  <2>1. UNCHANGED <<tree, clock, ledger, writing>>
    BY <1>1 DEF ListDir, source, store
  <2>2. PICK ids \in ListedIds :
         job' = [job EXCEPT
                   !.queue = (@ \ {d}) \cup (IF d = Root THEN Dirs \ {Root} ELSE {}),
                   !.entries = {[path |-> tree[f].path, stat |-> StatOf(f),
                                 id |-> IF ids THEN f ELSE None] :
                                  f \in {g \in Present : DirOf[tree[g].path] = d}}]
    BY <1>1 DEF ListDir
  <2>3. ids = TRUE
    BY ConstantsAssumption
  <2>4. \A e \in job'.entries : \E f \in Files : e.id = f /\ e.stat = StatOf(f)
    BY <1>0, <2>2, <2>3 DEF Job, Present
  <2>. QED
    BY <2>1, <2>4, RecordsOf, SameRecordsKeepStats
<1>2. ASSUME NEW e \in job.entries, ListedFile(e) PROVE StatsTellFiles'
  <2>0. Ready("scan") /\ UNCHANGED <<tree, clock>>
    BY <1>2 DEF ListedFile, source
  <2>1. /\ writing = NoWrite /\ e.id \in Files /\ e.id \in Ids /\ e.id # None
        /\ e.path \in Paths /\ e.stat \in Stat /\ OnRecord(e.id, e.stat) /\ FileOf(e.id) = e.id
    BY <2>0, EntryFacts, RecordsOf, ConstantsAssumption
  <2>2. PICK due \in BOOLEAN : \/ \E i \in Matching(e) : Recognise(e, i, due)
                               \/ ObserveEntry(e, e.id, e.stat, due)
    BY <1>2, <2>1 DEF ListedFile
  <2>3. job'.entries \subseteq job.entries
    BY <1>0, <2>2 DEF Recognise, ObserveEntry, Job
  <2>4. ASSUME NEW i \in Matching(e), Recognise(e, i, due) PROVE StatsTellFiles'
    <3>1. i \in Ids /\ ledger[i].list = e.stat /\ ledger[i] \in Row
      BY <1>0 DEF Matching, LiveAt
    <3>2. Stamped(ledger[i], due).list = e.stat
      BY <3>1 DEF Stamped, Row
    <3>3. /\ ledger' = [ledger EXCEPT ![i] = NoRow, ![e.id] = Stamped(ledger[i], due)]
          /\ UNCHANGED writing
      BY <2>1, <2>4 DEF Recognise
    <3>4. \A k \in Ids : ledger'[k] \in {ledger[k], NoRow} \/ (k = e.id /\ ledger'[k] = Stamped(ledger[i], due))
      BY <1>0, <2>1, <3>1, <3>3
    <3>5. \A k \in Ids : ledger'[k].list = None \/ OnRecord(FileOf(k), ledger'[k].list)
      BY <2>1, <3>2, <3>4, RecordsOf DEF NoRow
    <3>. QED
      BY <2>0, <2>1, <2>3, <3>3, <3>5, RecordsOf, SameRecordsKeepStats
  <2>5. ASSUME ObserveEntry(e, e.id, e.stat, due) PROVE StatsTellFiles'
    <3>1. PICK row \in Row :
            /\ row.path = e.path /\ row.list = e.stat /\ row.stat = e.stat
            /\ row.status \notin {"none", "deleted"}
            /\ \/ writing' = [id |-> e.id, row |-> row] /\ ledger' = ledger
               \/ writing' = NoWrite /\ ledger' = [ledger EXCEPT ![e.id] = row]
      BY <2>1, <2>5, ObserveWrites DEF ObserveEntry
    <3>. QED
      BY <2>0, <2>1, <2>3, <3>1, OneRowKeepsStats
  <2>. QED
    BY <2>2, <2>4, <2>5
<1>3. ASSUME FinishWalk PROVE StatsTellFiles'
  <2>1. job'.entries = job.entries /\ UNCHANGED <<tree, clock, ledger, writing>>
    BY <1>0, <1>3 DEF FinishWalk, Job, source, store
  <2>. QED
    BY <2>1, SameListingsKeepStats
<1>. QED
  BY <1>1, <1>2, <1>3 DEF ScanStep

LEMMA JobStepKeepsStats ==
  ASSUME LedgerInv, TruthInv, StatsTellFiles, FALSE \notin ListedIds, JobStep
  PROVE  StatsTellFiles'
<1>0. job \in Job /\ ledger \in [Ids -> Row]
  BY DEF LedgerInv, TypeOK
<1>1. CASE CommitRow
  <2>1. /\ writing.id \in Ids /\ writing # NoWrite /\ writing' = NoWrite
        /\ UNCHANGED <<tree, clock, job>>
        /\ ledger' = [ledger EXCEPT ![writing.id] =
                    IF writing.row.status = "deleted" THEN [@ EXCEPT !.status = "deleted"]
                    ELSE writing.row]
    BY <1>1, ConstantsAssumption DEF CommitRow, LedgerInv, TypeOK, source
  <2>2. [ledger[writing.id] EXCEPT !.status = "deleted"].list = ledger[writing.id].list
    BY <1>0, <2>1 DEF Row
  <2>3. \A k \in Ids : ledger'[k].list = ledger[k].list
                       \/ (k = writing.id /\ ledger'[k].list = writing.row.list)
    BY <1>0, <2>1, <2>2
  <2>. QED
    BY <2>1, <2>3, RecordsOf, SameRecordsKeepStats
<1>2. CASE ScanStep
  BY <1>2, ScanStepKeepsStats
<1>3. CASE SettleStep
  <2>1. ASSUME NEW i \in job.doomed, Tombstone(i) PROVE StatsTellFiles'
    <3>1. i \in Ids /\ [ledger[i] EXCEPT !.status = "deleted"].list = ledger[i].list
      BY <1>0 DEF Job, Row
    <3>2. /\ writing' = [id |-> i, row |-> [ledger[i] EXCEPT !.status = "deleted"]]
          /\ ledger' = ledger /\ job'.entries = job.entries /\ UNCHANGED <<tree, clock>>
      BY <1>0, <2>1 DEF Tombstone, ChunksThenRow, Job, source
    <3>. QED
      BY <3>1, <3>2, SameListingsKeepStats
  <2>2. ASSUME HintSource \/ EndOperation PROVE StatsTellFiles'
    <3>1. job'.entries \subseteq job.entries /\ UNCHANGED <<tree, clock, ledger, writing>>
      <4>1. CASE HintSource
        BY <1>0, <4>1 DEF HintSource, Job, source, store
      <4>2. CASE EndOperation
        BY <4>2 DEF EndOperation, IdleJob, source
      <4>. QED
        BY <2>2, <4>1, <4>2
    <3>. QED
      BY <3>1, SameListingsKeepStats
  <2>. QED
    BY <1>3, <2>1, <2>2 DEF SettleStep
<1>4. CASE IndexStep
  <2>1. ASSUME NEW i \in job.todo, IndexFile(i) PROVE StatsTellFiles'
    BY <2>1, QueuedFileKeepsStats
  <2>2. ASSUME EndIndexing PROVE StatsTellFiles'
    <3>1. job'.entries \subseteq job.entries /\ UNCHANGED <<tree, clock, ledger, writing>>
      BY <1>0, <2>2 DEF EndIndexing, IdleJob, Job, source, store
    <3>. QED
      BY <3>1, SameListingsKeepStats
  <2>. QED
    BY <1>4, <2>1, <2>2 DEF IndexStep
<1>. QED
  BY <1>1, <1>2, <1>3, <1>4 DEF JobStep

LEMMA FaultStepKeepsStats ==
  ASSUME LedgerInv, TruthInv, StatsTellFiles, FaultStep PROVE StatsTellFiles'
<1>0. job \in Job /\ ledger \in [Ids -> Row]
  BY DEF LedgerInv, TypeOK
<1>1. ASSUME NEW i \in job.todo, ReadFails(i) PROVE StatsTellFiles'
  BY <1>1, QueuedFileKeepsStats
<1>2. ASSUME ~\E i \in job.todo : ReadFails(i) PROVE StatsTellFiles'
  <2>1. /\ job'.entries \subseteq job.entries /\ UNCHANGED <<tree, clock, ledger>>
        /\ writing' \in {writing, NoWrite}
    <3>1. ASSUME NEW d \in job.queue, ListDirFails(d)
          PROVE  job'.entries \subseteq job.entries /\ UNCHANGED <<tree, clock, ledger, writing>>
      BY <1>0, <3>1 DEF ListDirFails, Job, source, store
    <3>2. ASSUME NEW e \in job.entries, EntryFails(e)
          PROVE  job'.entries \subseteq job.entries /\ UNCHANGED <<tree, clock, ledger, writing>>
      BY <1>0, <3>2 DEF EntryFails, Job, source, store
    <3>3. ASSUME Crash
          PROVE  job'.entries \subseteq job.entries /\ UNCHANGED <<tree, clock, ledger>> /\ writing' = NoWrite
      BY <3>3 DEF Crash, IdleJob, source, store
    <3>. QED
      BY <1>2, <3>1, <3>2, <3>3 DEF FaultStep
  <2>. QED
    BY <2>1, SameListingsKeepStats
<1>. QED
  BY <1>1, <1>2

LEMMA HintStepKeepsStats ==
  ASSUME LedgerInv, TruthInv, StatsTellFiles, HintStep PROVE StatsTellFiles'
<1>0. ledger \in [Ids -> Row]
  BY DEF LedgerInv, TypeOK
<1>1. ASSUME NEW p \in HintPaths, NEW src \in HintPaths \cup {None}, HintPresent(p, src)
      PROVE  StatsTellFiles'
  <2>1. UNCHANGED <<tree, clock>> /\ writing = NoWrite
    BY <1>1 DEF HintPresent, Ready, source
  <2>2. job'.entries = {}
    <3>1. Walk(p, src).entries = {}
      BY WalkFields
    <3>2. \A d : [IdleJob EXCEPT !.op = "settle", !.root = p, !.src = src].entries = {}
                 /\ [IdleJob EXCEPT !.op = "settle", !.root = p, !.src = src, !.doomed = d].entries = {}
      BY DEF IdleJob
    <3>. QED
      BY <1>1, <3>1, <3>2 DEF HintPresent
  <2>3. CASE UNCHANGED <<ledger, chunks, writing>>
    BY <2>1, <2>2, <2>3, SameListingsKeepStats
  <2>4. ASSUME NEW f \in At(p), NEW due \in BOOLEAN, Observe(f, p, StatOf(f), None, due)
        PROVE  StatsTellFiles'
    <3>1. f \in Ids /\ p \in Paths /\ StatOf(f) \in Stat
      BY StatOfIsAStat, ConstantsAssumption DEF At, Ids, HintPaths, LedgerInv, TypeOK, FileState
    <3>2. PICK row \in Row :
            /\ row.path = p /\ row.list = None /\ row.stat = StatOf(f)
            /\ row.status \notin {"none", "deleted"}
            /\ \/ writing' = [id |-> f, row |-> row] /\ ledger' = ledger
               \/ writing' = NoWrite /\ ledger' = [ledger EXCEPT ![f] = row]
      BY <2>1, <2>4, <3>1, ObserveWrites
    <3>. QED
      BY <2>1, <2>2, <3>1, <3>2, OneRowKeepsStats
  <2>. QED
    BY <1>1, <2>3, <2>4 DEF HintPresent
<1>2. ASSUME NEW p \in HintPaths, HintAbsent(p) PROVE StatsTellFiles'
  <2>1. job'.entries = {} /\ UNCHANGED <<tree, clock, ledger, writing>>
    BY <1>2 DEF HintAbsent, IdleJob, source, store
  <2>. QED
    BY <2>1, SameListingsKeepStats
<1>. QED
  BY <1>1, <1>2 DEF HintStep

LEMMA OwnerKeepsStats == ASSUME LedgerInv, StatsTellFiles, Owner PROVE StatsTellFiles'
<1>1. PICK S \in SUBSET Ids :
        /\ ledger' = [i \in Ids |-> IF i \in S THEN [ledger[i] EXCEPT !.status = "pending",
                                      !.reason = "none", !.hash = None] ELSE ledger[i]]
        /\ UNCHANGED <<tree, clock, job, writing>>
  BY DEF Owner, RetryFailed, RequeueOnlineOnly, OnlineOnly, source
<1>2. \A i \in Ids : [ledger[i] EXCEPT !.status = "pending", !.reason = "none", !.hash = None].list = ledger[i].list
  BY DEF LedgerInv, TypeOK, Row
<1>3. \A i \in Ids : ledger'[i].list = ledger[i].list
  BY <1>1, <1>2
<1>. QED
  BY <1>1, <1>3, SameListingsKeepStats

LEMMA NextKeepsStats ==
  ASSUME LedgerInv, TruthInv, StatsTellFiles, FALSE \notin ListedIds, [Next]_vars
  PROVE  StatsTellFiles'
<1>1. CASE StartScan \/ StartIndexing
  <2>1. job'.entries = {} /\ UNCHANGED <<tree, clock, ledger, writing>>
    <3>1. Walk(Root, None).entries = {}
      BY WalkFields
    <3>2. \A todo : [IdleJob EXCEPT !.op = "index", !.todo = todo].entries = {}
      BY DEF IdleJob
    <3>. QED
      BY <1>1, <3>1, <3>2 DEF StartScan, StartIndexing, source, store
  <2>. QED
    BY <2>1, SameListingsKeepStats
<1>2. CASE UNCHANGED vars
  BY <1>2, SameListingsKeepStats DEF vars
<1>. QED
  BY <1>1, <1>2, OtherKeepsStats, JobStepKeepsStats, FaultStepKeepsStats, HintStepKeepsStats,
     OwnerKeepsStats DEF Next

(***************************************************************************)
(* No operation drops the row of a file that stays                         *)
(***************************************************************************)
\* The step of NeverDropsAPresentFile.
KeepsStaying == \A f \in unmoved :
                  /\ Live(f)
                  /\ settled = "walking" \/ ledger[f].path = tree[f].path
                  => ledger'[f].status \notin {"none", "deleted"}

\* A row recognised under another id is of a file that is not there: two files
\* never share a size and a time, and no path holds two.
LEMMA RecogniseKeepsStaying ==
  ASSUME LedgerInv, TruthInv, StatsTellFiles, Ready("scan"), NEW e \in job.entries,
         NEW i \in Matching(e), NEW due \in BOOLEAN, Recognise(e, i, due)
  PROVE  KeepsStaying
<1> SUFFICES ASSUME NEW f \in unmoved, Live(f)
             PROVE  ledger'[f].status \notin {"none", "deleted"}
  BY DEF KeepsStaying
<1>1. /\ e.id \in Files /\ e.id \in Ids /\ e.id # None /\ e.stat \in Stat
      /\ f \in Files /\ f \in Ids
  BY EntryFacts, ConstantsAssumption DEF LedgerInv, TypeOK, Ids
<1>2. i \in Ids /\ Live(i) /\ ledger[i].list = e.stat /\ ledger[i] \in Row /\ ledger \in [Ids -> Row]
  BY DEF Matching, LiveAt, LedgerInv, TypeOK
<1>3. Stamped(ledger[i], due).status \notin {"none", "deleted"}
  BY <1>2 DEF Stamped, Row, Live
<1>4. ledger' = [ledger EXCEPT ![i] = NoRow, ![e.id] = Stamped(ledger[i], due)]
  BY <1>1 DEF Recognise
<1>5. CASE f = e.id
  BY <1>1, <1>2, <1>3, <1>4, <1>5
<1>6. CASE f # e.id /\ f # i
  <2>1. ledger'[f] = ledger[f]
    BY <1>1, <1>2, <1>4, <1>6
  <2>. QED
    BY <2>1 DEF Live
<1>7. CASE f # e.id /\ f = i
  <2>1. OnRecord(f, e.stat) /\ OnRecord(e.id, e.stat)
    BY <1>1, <1>2, <1>7, RecordsOf
  <2>. QED
    BY <1>1, <1>7, <2>1 DEF StatsTellFiles
<1>. QED
  BY <1>5, <1>6, <1>7

LEMMA NextKeepsStaying ==
  ASSUME LedgerInv, TruthInv, StatsTellFiles, FALSE \notin ListedIds, [Next]_vars
  PROVE  KeepsStaying
<1> SUFFICES ASSUME NEW f \in unmoved, Live(f), settled = "walking" \/ ledger[f].path = tree[f].path
             PROVE  ledger'[f].status \notin {"none", "deleted"}
  BY DEF KeepsStaying
<1>0. f \in Files /\ f \in Ids /\ ledger \in [Ids -> Row] /\ ledger[f].status \notin {"none", "deleted"}
  BY DEF LedgerInv, TypeOK, Ids, Live
<1>1. CASE ledger' = ledger
  BY <1>0, <1>1
<1>2. CASE CommitRow
  <2>1. /\ writing # NoWrite /\ writing.id \in Ids
        /\ ledger' = [ledger EXCEPT ![writing.id] =
                    IF writing.row.status = "deleted" THEN [@ EXCEPT !.status = "deleted"]
                    ELSE writing.row]
    BY <1>2, ConstantsAssumption DEF CommitRow, LedgerInv, TypeOK
  <2>2. CASE f # writing.id
    BY <1>0, <2>1, <2>2
  <2>3. CASE f = writing.id
    <3>1. writing.row.status \notin {"none", "deleted"}
      BY <2>1, <2>3 DEF TruthInv, WalkInv, SaneRows, DoomedAreMisplaced, Misplaced
    <3>. QED
      BY <1>0, <2>1, <2>3, <3>1
  <2>. QED
    BY <2>2, <2>3
<1>3. ASSUME NEW i \in Ids, NEW row \in Row, row.status \notin {"none", "deleted"},
             \/ writing' = [id |-> i, row |-> row] /\ ledger' = ledger
             \/ writing' = NoWrite /\ ledger' = [ledger EXCEPT ![i] = row]
      PROVE  ledger'[f].status \notin {"none", "deleted"}
  BY <1>0, <1>3
<1>4. ASSUME NEW e \in job.entries, ListedFile(e) PROVE ledger'[f].status \notin {"none", "deleted"}
  <2>0. Ready("scan")
    BY <1>4 DEF ListedFile
  <2>1. /\ writing = NoWrite /\ e.id \in Files /\ e.id \in Ids /\ e.id # None
        /\ e.path \in Paths /\ e.stat \in Stat
    BY <2>0, EntryFacts, ConstantsAssumption
  <2>2. PICK due \in BOOLEAN : \/ \E i \in Matching(e) : Recognise(e, i, due)
                               \/ ObserveEntry(e, e.id, e.stat, due)
    BY <1>4, <2>1 DEF ListedFile
  <2>3. CASE \E i \in Matching(e) : Recognise(e, i, due)
    BY <2>0, <2>3, RecogniseKeepsStaying DEF KeepsStaying
  <2>4. CASE ObserveEntry(e, e.id, e.stat, due)
    BY <1>3, <2>1, <2>4, ObserveWrites DEF ObserveEntry
  <2>. QED
    BY <2>2, <2>3, <2>4
<1>5. ASSUME HintStep PROVE ledger'[f].status \notin {"none", "deleted"}
  <2>1. ASSUME NEW p \in HintPaths, NEW g \in At(p), NEW due \in BOOLEAN, writing = NoWrite,
               Observe(g, p, StatOf(g), None, due)
        PROVE  ledger'[f].status \notin {"none", "deleted"}
    <3>1. g \in Ids /\ p \in Paths /\ StatOf(g) \in Stat
      BY StatOfIsAStat, ConstantsAssumption DEF At, Ids, HintPaths, LedgerInv, TypeOK, FileState
    <3>. QED
      BY <1>3, <2>1, <3>1, ObserveWrites
  <2>. QED
    BY <1>1, <1>5, <2>1 DEF HintStep, HintPresent, HintAbsent, Ready, store
<1>6. ASSUME NEW i \in job.todo, IndexFile(i) \/ ReadFails(i)
      PROVE  ledger'[f].status \notin {"none", "deleted"}
  <2>1. i \in Ids
    BY QueuedRow
  <2>2. ledger' = ledger \/ \E row \in Row : ledger' = [ledger EXCEPT ![i] = row] /\ SamePlace(row, ledger[i])
    BY <1>6, QueuedFileIsRead, ReadingWrites
  <2>. QED
    BY <1>0, <2>1, <2>2 DEF SamePlace
<1>7. ASSUME Owner PROVE ledger'[f].status \notin {"none", "deleted"}
  <2>1. PICK S \in SUBSET Ids :
          ledger' = [i \in Ids |-> IF i \in S THEN [ledger[i] EXCEPT !.status = "pending",
                                      !.reason = "none", !.hash = None] ELSE ledger[i]]
    BY <1>7 DEF Owner, RetryFailed, RequeueOnlineOnly, OnlineOnly
  <2>2. [ledger[f] EXCEPT !.status = "pending", !.reason = "none", !.hash = None].status = "pending"
    BY <1>0 DEF Row
  <2>. QED
    BY <1>0, <2>1, <2>2
<1>8. CASE StartScan \/ StartIndexing \/ Other \/ FinishWalk \/ SettleStep \/ EndIndexing
           \/ (\E d \in job.queue : ListDir(d) \/ ListDirFails(d))
           \/ (\E e \in job.entries : EntryFails(e)) \/ Crash \/ UNCHANGED vars
  <2>1. ledger' = ledger
    BY <1>8 DEF StartScan, StartIndexing, Other, SaveFile, MoveFile, RemoveFile, Changed, FinishWalk,
       SettleStep, Tombstone, ChunksThenRow, HintSource, EndOperation, EndIndexing, ListDir, ListDirFails,
       EntryFails, Crash, store, vars
  <2>. QED
    BY <1>1, <2>1
<1>. QED
  BY <1>2, <1>4, <1>5, <1>6, <1>7, <1>8 DEF Next, JobStep, ScanStep, IndexStep, FaultStep

\* When listings give ids and no two of the first files have one size, no scan,
\* hint or re-keying drops the live row of a file that stayed where it was: not a
\* root scan that nothing changed under, and none at all when the row names its
\* place (_prune, _tombstone_under, _hint_present, _listed_file).
THEOREM NeverDropsPresentFiles ==
  ASSUME FALSE \notin ListedIds, FilesDiffer PROVE Spec => NeverDropsAPresentFile
<1>1. Init => TruthInv /\ StatsTellFiles
  BY InitTruth, InitStats
<1>2. LedgerInv /\ TruthInv /\ StatsTellFiles /\ [Next]_vars => (TruthInv /\ StatsTellFiles)'
  BY NextKeepsTruth, NextKeepsStats
<1>3. LedgerInv /\ TruthInv /\ StatsTellFiles /\ [Next]_vars => [KeepsStaying]_vars
  BY NextKeepsStaying
<1>4. NeverDropsAPresentFile <=> [][KeepsStaying]_vars
  BY DEF NeverDropsAPresentFile, KeepsStaying
<1>. QED
  BY <1>1, <1>2, <1>3, <1>4, InvariantHolds, PTL DEF Spec

(***************************************************************************)
(* Legacy rows are told by their listing                                   *)
(***************************************************************************)
\* A row recorded by SDK 0.14 was indexed and is only ever deleted or re-keyed;
\* its size and time are on no file, and in no listing, but its own.
LegacyTold ==
  \A l \in LegacyIds :
    /\ ledger[l].status \in {"none", "indexed", "deleted"}
    /\ ledger[l].status # "none" =>
         /\ ledger[l].list # None /\ ledger[l].list.mtime = 0
         /\ \A f \in Files : StatOf(f) = ledger[l].list => f = NewIdOf[l]
         /\ \A e \in job.entries : e.id # None /\ e.stat = ledger[l].list => e.id = NewIdOf[l]
    /\ writing.id = l => Live(l) /\ writing.row.status = "deleted"
    /\ l \in job.doomed => Live(l) /\ writing.id # l /\ job.op = "settle"

LEMMA InitLegacy == ASSUME Init, FilesDiffer PROVE LegacyTold
<1> USE ConstantsAssumption
<1>1. /\ tree \in InitialTrees /\ tree \in [Files -> FileState] /\ job.entries = {} /\ job.doomed = {}
      /\ writing.id = None
  BY DEF Init, IdleJob, NoWrite
<1>2. \A f, g \in Files : /\ StatOf(f).mtime = 0 /\ StatOf(f) \in Stat
                          /\ StatOf(f) = StatOf(g) => f = g
  BY <1>1, TreesAssumption, StatOfIsAStat DEF StatOf, FilesDiffer
<1>3. ASSUME NEW l \in LegacyIds
      PROVE  \/ ledger[l] = NoRow
             \/ ledger[l].status = "indexed" /\ ledger[l].list = StatOf(NewIdOf[l])
  BY DEF Init, LegacyRow, Ids
<1>4. NoRow.status = "none" /\ None \notin LegacyIds
  BY DEF NoRow, Ids
<1>. QED
  BY <1>1, <1>2, <1>3, <1>4 DEF LegacyTold

\* What a step must leave alone: legacy rows keep their listing, or go.
LEMMA KeepsLegacy ==
  ASSUME LedgerInv, LegacyTold, UNCHANGED tree,
         \A l \in LegacyIds :
           \/ ledger'[l] = ledger[l]
           \/ ledger'[l].status = "none"
           \/ /\ ledger[l].status # "none" /\ ledger'[l].status = "deleted"
              /\ ledger'[l].list = ledger[l].list,
         \A l \in LegacyIds : writing'.id = l =>
           ledger'[l].status \notin {"none", "deleted"} /\ writing'.row.status = "deleted",
         \A l \in LegacyIds : l \in job'.doomed =>
           ledger'[l].status \notin {"none", "deleted"} /\ writing'.id # l /\ job'.op = "settle",
         \A e \in job'.entries : e.id # None =>
           e \in job.entries \/ (e.id \in Files /\ e.stat = StatOf(e.id))
  PROVE  LegacyTold'
<1> SUFFICES ASSUME NEW l \in LegacyIds
             PROVE  /\ ledger'[l].status \in {"none", "indexed", "deleted"}
                    /\ ledger'[l].status # "none" =>
                         /\ ledger'[l].list # None /\ ledger'[l].list.mtime = 0
                         /\ \A f \in Files : StatOf(f) = ledger'[l].list => f = NewIdOf[l]
                         /\ \A e \in job'.entries : e.id # None /\ e.stat = ledger'[l].list => e.id = NewIdOf[l]
  BY DEF LegacyTold, Live, StatOf
<1>1. ledger'[l].status # "none" => ledger[l].status # "none" /\ ledger'[l].list = ledger[l].list
  OBVIOUS
<1>. QED
  BY <1>1 DEF LegacyTold

\* Steps that only move the job on.
LEMMA JobMovesKeepLegacy ==
  ASSUME LedgerInv, LegacyTold, UNCHANGED <<tree, ledger>>, writing' = NoWrite,
         \A i \in job'.doomed : Live(i), job'.doomed # {} => job'.op = "settle",
         job'.entries \subseteq job.entries
  PROVE  LegacyTold'
<1>1. None \notin LegacyIds
  BY ConstantsAssumption DEF Ids
<1>. QED
  BY <1>1, KeepsLegacy DEF NoWrite, Live

\* Steps that write the row of a file.
LEMMA FileRowsKeepLegacy ==
  ASSUME LedgerInv, LegacyTold, UNCHANGED tree, writing = NoWrite, NEW i \in Ids \ LegacyIds, NEW row,
         \/ writing' = [id |-> i, row |-> row] /\ ledger' = ledger
         \/ writing' = NoWrite /\ ledger' = [ledger EXCEPT ![i] = row],
         \A k \in job'.doomed : Live(k) /\ k # i, job'.doomed # {} => job'.op = "settle",
         job'.entries \subseteq job.entries
  PROVE  LegacyTold'
<1>1. ledger \in [Ids -> Row] /\ None \notin LegacyIds /\ LegacyIds \subseteq Ids
  BY ConstantsAssumption DEF Ids, LedgerInv, TypeOK
<1>2. \A l \in LegacyIds : ledger'[l] = ledger[l] /\ writing'.id # l
  BY <1>1 DEF NoWrite
<1>. QED
  BY <1>2, KeepsLegacy DEF Live

LEMMA FilesAreNotLegacy == \A f \in Files : f \in Ids \ LegacyIds
BY ConstantsAssumption DEF Ids

\* observe writes the row of a file.
LEMMA ObserveWritesOne ==
  ASSUME LedgerInv, writing = NoWrite, NEW i, NEW p, NEW stat, NEW list, NEW due,
         Observe(i, p, stat, list, due)
  PROVE  \E row : \/ writing' = [id |-> i, row |-> row] /\ ledger' = ledger
                  \/ writing' = NoWrite /\ ledger' = [ledger EXCEPT ![i] = row]
BY DEF Observe, ChunksThenRow, RowOnly

LEMMA ListedFileKeepsLegacy ==
  ASSUME LedgerInv, LegacyTold, NEW e \in job.entries, ListedFile(e) PROVE LegacyTold'
<1>0. /\ job \in Job /\ ledger \in [Ids -> Row] /\ UNCHANGED tree /\ writing = NoWrite /\ job.op = "scan"
      /\ None \notin LegacyIds /\ LegacyIds \subseteq Ids
  BY ConstantsAssumption DEF ListedFile, Ready, LedgerInv, TypeOK, source, Ids
<1>1. \A l \in LegacyIds : l \notin job.doomed
  BY <1>0 DEF LegacyTold
<1>2. ASSUME NEW i \in Matching(e), NEW due \in BOOLEAN, Recognise(e, i, due) PROVE LegacyTold'
  <2>1. PICK id : /\ id = i \/ id \in Files
                  /\ ledger' = [ledger EXCEPT ![i] = NoRow, ![id] = Stamped(ledger[i], due)]
                  /\ job' = [job EXCEPT !.entries = @ \ {e}, !.seen = @ \cup {id}]
                  /\ writing' = writing
    BY <1>0, <1>2 DEF Recognise, Job
  <2>2. i \in Ids
    BY DEF Matching, LiveAt
  <2>3. ASSUME NEW l \in LegacyIds PROVE ledger'[l] = ledger[l] \/ ledger'[l].status = "none"
    <3>1. ledger[l].status # "failed"
      BY DEF LegacyTold
    <3>2. l = i => Stamped(ledger[i], due) = ledger[l]
      BY <3>1 DEF Stamped
    <3>3. ledger'[l] \in {ledger[l], NoRow}
      BY <1>0, <2>1, <2>2, <3>2, FilesAreNotLegacy
    <3>. QED
      BY <3>3 DEF NoRow
  <2>4. job'.doomed = job.doomed /\ job'.entries \subseteq job.entries
    BY <1>0, <2>1 DEF Job
  <2>. QED
    BY <1>0, <1>1, <2>1, <2>3, <2>4, KeepsLegacy DEF NoWrite
<1>3. ASSUME NEW f \in Files, NEW stat, NEW due, ObserveEntry(e, f, stat, due) PROVE LegacyTold'
  <2>1. PICK row : \/ writing' = [id |-> f, row |-> row] /\ ledger' = ledger
                   \/ writing' = NoWrite /\ ledger' = [ledger EXCEPT ![f] = row]
    BY <1>0, <1>3, ObserveWritesOne DEF ObserveEntry
  <2>2. job'.doomed = job.doomed /\ job'.entries \subseteq job.entries
    BY <1>0, <1>3 DEF ObserveEntry, Job
  <2>3. \A l \in LegacyIds : ledger'[l] = ledger[l] /\ writing'.id # l
    BY <1>0, <2>1, FilesAreNotLegacy DEF NoWrite
  <2>. QED
    BY <1>0, <1>1, <2>2, <2>3, KeepsLegacy
<1>4. ASSUME job' = [job EXCEPT !.entries = @ \ {e}], UNCHANGED <<ledger, chunks, writing>>
      PROVE  LegacyTold'
  <2>1. job'.doomed = job.doomed /\ job'.entries \subseteq job.entries
    BY <1>0, <1>4 DEF Job
  <2>. QED
    BY <1>0, <1>1, <1>4, <2>1, KeepsLegacy DEF NoWrite
<1>5. e.id \in Files \cup {None}
  BY <1>0 DEF Job
<1>. QED
  BY <1>2, <1>3, <1>4, <1>5 DEF ListedFile, At

LEMMA QueuedFileKeepsLegacy ==
  ASSUME LedgerInv, LegacyTold, NEW i \in job.todo, IndexFile(i) \/ ReadFails(i)
  PROVE  LegacyTold'
<1>1. /\ Ready("index") /\ Reads(i) /\ UNCHANGED tree /\ job' = [job EXCEPT !.todo = @ \ {i}]
  BY QueuedFileIsRead DEF source
<1>2. PICK row \in Row : \/ writing' = [id |-> i, row |-> row] /\ ledger' = ledger
                         \/ writing' = writing /\ ledger' = [ledger EXCEPT ![i] = row]
  BY <1>1, ReadingWrites
\* no legacy row is pending
<1>3. i \in Ids \ LegacyIds
  BY QueuedRow DEF LedgerInv, QueueIsPending, LegacyTold
<1>4. /\ job \in Job /\ ledger \in [Ids -> Row] /\ writing = NoWrite /\ job.op = "index"
      /\ None \notin LegacyIds /\ LegacyIds \subseteq Ids
  BY <1>1, ConstantsAssumption DEF Ready, LedgerInv, TypeOK, Ids
<1>5. job'.doomed = job.doomed /\ job'.entries = job.entries
  BY <1>1, <1>4 DEF Job
<1>6. \A l \in LegacyIds : l \notin job.doomed
  BY <1>4 DEF LegacyTold
<1>7. \A l \in LegacyIds : ledger'[l] = ledger[l] /\ writing'.id # l
  BY <1>2, <1>3, <1>4 DEF NoWrite
<1>. QED
  BY <1>1, <1>5, <1>6, <1>7, KeepsLegacy

LEMMA JobStepKeepsLegacy == ASSUME LedgerInv, LegacyTold, JobStep PROVE LegacyTold'
<1>0. /\ job \in Job /\ ledger \in [Ids -> Row] /\ None \notin LegacyIds /\ LegacyIds \subseteq Ids
  BY ConstantsAssumption DEF LedgerInv, TypeOK, Ids
<1>1. CASE CommitRow
  <2>1. /\ writing.id \in Ids /\ writing # NoWrite /\ writing' = NoWrite
        /\ UNCHANGED <<tree, job>>
        /\ ledger' = [ledger EXCEPT ![writing.id] =
                    IF writing.row.status = "deleted" THEN [@ EXCEPT !.status = "deleted"]
                    ELSE writing.row]
    BY <1>1, ConstantsAssumption DEF CommitRow, LedgerInv, TypeOK, source
  <2>2. ASSUME NEW l \in LegacyIds, l # writing.id PROVE ledger'[l] = ledger[l]
    BY <1>0, <2>1, <2>2
  <2>3. ASSUME NEW l \in LegacyIds, l = writing.id
        PROVE  ledger[l].status # "none" /\ ledger'[l].status = "deleted" /\ ledger'[l].list = ledger[l].list
    <3>1. writing.row.status = "deleted" /\ Live(l)
      BY <2>3 DEF LegacyTold
    <3>2. ledger'[l] = [ledger[l] EXCEPT !.status = "deleted"]
      BY <1>0, <2>1, <2>3, <3>1
    <3>. QED
      BY <1>0, <3>1, <3>2 DEF Row, Live
  <2>4. \A l \in LegacyIds : l \in job.doomed => Live(l) /\ l # writing.id /\ job.op = "settle"
    BY DEF LegacyTold
  <2>. QED
    BY <1>0, <2>1, <2>2, <2>3, <2>4, KeepsLegacy DEF NoWrite, Live
<1>2. ASSUME NEW d \in job.queue, ListDir(d) PROVE LegacyTold'
  <2>1. UNCHANGED <<tree, ledger, writing>> /\ writing = NoWrite /\ job.op = "scan"
    BY <1>2 DEF ListDir, Walking, Ready, source, store
  <2>2. job'.doomed = job.doomed
    BY <1>0, <1>2 DEF ListDir, Job
  <2>3. \A e \in job'.entries : e.id # None => e.id \in Files /\ e.stat = StatOf(e.id)
    <3>1. PICK ids \in ListedIds :
           job'.entries = {[path |-> tree[f].path, stat |-> StatOf(f), id |-> IF ids THEN f ELSE None] :
                             f \in {g \in Present : DirOf[tree[g].path] = d}}
      BY <1>0, <1>2 DEF ListDir, Job
    <3>. QED
      BY <3>1 DEF Present
  <2>4. \A l \in LegacyIds : l \notin job.doomed
    BY <2>1 DEF LegacyTold
  <2>. QED
    BY <1>0, <2>1, <2>2, <2>3, <2>4, KeepsLegacy DEF NoWrite
<1>3. ASSUME FinishWalk PROVE LegacyTold'
  <2>1. /\ UNCHANGED <<tree, ledger>> /\ writing' = NoWrite /\ job'.entries \subseteq job.entries
        /\ job'.op = "settle" /\ \A i \in job'.doomed : Live(i)
    BY <1>0, <1>3 DEF FinishWalk, Walking, Ready, Job, source, store, LiveUnder
  <2>. QED
    BY <2>1, JobMovesKeepLegacy
<1>4. ASSUME NEW i \in job.doomed, Tombstone(i) PROVE LegacyTold'
  <2>1. /\ UNCHANGED <<tree, ledger>> /\ writing' = [id |-> i, row |-> [ledger[i] EXCEPT !.status = "deleted"]]
        /\ i \in Ids /\ job'.op = job.op /\ job'.doomed = job.doomed \ {i} /\ job'.entries = job.entries
    BY <1>0, <1>4 DEF Tombstone, ChunksThenRow, Job, source
  <2>2. \A l \in LegacyIds : l \in job.doomed => Live(l) /\ job.op = "settle"
    BY DEF LegacyTold
  <2>3. [ledger[i] EXCEPT !.status = "deleted"].status = "deleted"
    BY <1>0, <2>1 DEF Row
  <2>. QED
    BY <2>1, <2>2, <2>3, KeepsLegacy DEF Live
<1>5. ASSUME HintSource PROVE LegacyTold'
  <2>1. /\ UNCHANGED <<tree, ledger>> /\ writing' = NoWrite /\ job'.entries \subseteq job.entries
        /\ job'.op = "settle" /\ \A i \in job'.doomed : Live(i)
    BY <1>0, <1>5 DEF HintSource, Ready, Job, source, store, LiveUnder
  <2>. QED
    BY <2>1, JobMovesKeepLegacy
<1>6. ASSUME EndOperation \/ EndIndexing PROVE LegacyTold'
  <2>1. /\ UNCHANGED <<tree, ledger>> /\ writing' = NoWrite /\ job'.entries = {} /\ job'.doomed = {}
    BY <1>6 DEF EndOperation, EndIndexing, Ready, IdleJob, source, store
  <2>. QED
    BY <2>1, JobMovesKeepLegacy
<1>7. ASSUME NEW i \in job.todo, IndexFile(i) PROVE LegacyTold'
  BY <1>7, QueuedFileKeepsLegacy
<1>. QED
  BY <1>1, <1>2, <1>3, <1>4, <1>5, <1>6, <1>7, ListedFileKeepsLegacy
     DEF JobStep, ScanStep, SettleStep, IndexStep

LEMMA HintStepKeepsLegacy == ASSUME LedgerInv, LegacyTold, HintStep PROVE LegacyTold'
<1>0. ledger \in [Ids -> Row]
  BY DEF LedgerInv, TypeOK
<1>1. ASSUME NEW p \in HintPaths, NEW src \in HintPaths \cup {None}, HintPresent(p, src)
      PROVE  LegacyTold'
  <2>1. UNCHANGED tree /\ writing = NoWrite
    BY <1>1 DEF HintPresent, Ready, source
  <2>2. CASE job' = Walk(p, src) /\ UNCHANGED <<ledger, chunks, writing>>
    BY <2>1, <2>2, WalkFields, JobMovesKeepLegacy
  <2>3. CASE /\ job' = [IdleJob EXCEPT !.op = "settle", !.root = p, !.src = src]
             /\ UNCHANGED <<ledger, chunks, writing>>
    <3>1. job'.doomed = {} /\ job'.entries = {}
      BY <2>3 DEF IdleJob
    <3>. QED
      BY <2>1, <2>3, <3>1, JobMovesKeepLegacy
  <2>4. ASSUME NEW f \in At(p), NEW due \in BOOLEAN, Observe(f, p, StatOf(f), None, due),
               job' = [IdleJob EXCEPT !.op = "settle", !.root = p, !.src = src,
                                      !.doomed = LiveAt(p) \ {f}]
        PROVE  LegacyTold'
    <3>1. /\ job'.op = "settle" /\ job'.entries = {}
          /\ \A k \in job'.doomed : Live(k) /\ k # f
      BY <2>4 DEF IdleJob, LiveAt
    <3>2. f \in Ids \ LegacyIds
      BY FilesAreNotLegacy DEF At
    <3>3. PICK row : \/ writing' = [id |-> f, row |-> row] /\ ledger' = ledger
                     \/ writing' = NoWrite /\ ledger' = [ledger EXCEPT ![f] = row]
      BY <2>1, <2>4, ObserveWritesOne
    <3>. QED
      BY <2>1, <3>1, <3>2, <3>3, FileRowsKeepLegacy
  <2>. QED
    BY <1>1, <2>2, <2>3, <2>4 DEF HintPresent
<1>2. ASSUME NEW p \in HintPaths, HintAbsent(p) PROVE LegacyTold'
  <2>1. /\ UNCHANGED <<tree, ledger>> /\ writing' = NoWrite /\ job'.entries = {}
        /\ job'.op = "settle" /\ \A i \in job'.doomed : Live(i)
    BY <1>2 DEF HintAbsent, Ready, IdleJob, LiveUnder, source, store
  <2>. QED
    BY <2>1, JobMovesKeepLegacy
<1>. QED
  BY <1>1, <1>2 DEF HintStep

LEMMA FaultStepKeepsLegacy == ASSUME LedgerInv, LegacyTold, FaultStep PROVE LegacyTold'
<1>0. job \in Job /\ None \notin LegacyIds
  BY ConstantsAssumption DEF LedgerInv, TypeOK, Ids
<1>1. ASSUME UNCHANGED <<tree, ledger>>, writing' = NoWrite, job'.entries \subseteq job.entries,
             job'.doomed = job.doomed, job.op = "scan"
      PROVE  LegacyTold'
  <2>1. \A l \in LegacyIds : l \notin job.doomed
    BY <1>1 DEF LegacyTold
  <2>. QED
    BY <1>0, <1>1, <2>1, KeepsLegacy DEF NoWrite
<1>2. ASSUME NEW d \in job.queue, ListDirFails(d) PROVE LegacyTold'
  BY <1>0, <1>1, <1>2 DEF ListDirFails, Walking, Ready, Job, source, store
<1>3. ASSUME NEW e \in job.entries, EntryFails(e) PROVE LegacyTold'
  BY <1>0, <1>1, <1>3 DEF EntryFails, Ready, Job, source, store
<1>4. ASSUME Crash PROVE LegacyTold'
  <2>1. /\ UNCHANGED <<tree, ledger>> /\ writing' = NoWrite /\ job'.entries = {} /\ job'.doomed = {}
    BY <1>4 DEF Crash, IdleJob, source, store
  <2>. QED
    BY <2>1, JobMovesKeepLegacy
<1>. QED
  BY <1>2, <1>3, <1>4, QueuedFileKeepsLegacy DEF FaultStep

LEMMA OwnerKeepsLegacy == ASSUME LedgerInv, LegacyTold, Owner PROVE LegacyTold'
<1>1. PICK S \in SUBSET Ids :
        /\ \A i \in S : ledger[i].status \in {"failed", "skipped"}
        /\ ledger' = [i \in Ids |-> IF i \in S THEN [ledger[i] EXCEPT !.status = "pending",
                                      !.reason = "none", !.hash = None] ELSE ledger[i]]
        /\ UNCHANGED <<tree, job, writing>>
  BY DEF Owner, RetryFailed, RequeueOnlineOnly, OnlineOnly, source
<1>2. \A l \in LegacyIds : ledger'[l] = ledger[l]
  BY <1>1 DEF LegacyTold, Ids
<1>3. /\ \A l \in LegacyIds : writing.id = l => Live(l) /\ writing.row.status = "deleted"
      /\ \A l \in LegacyIds : l \in job.doomed => Live(l) /\ writing.id # l /\ job.op = "settle"
  BY DEF LegacyTold
<1>. QED
  BY <1>1, <1>2, <1>3, KeepsLegacy DEF Live

LEMMA OtherKeepsLegacy == ASSUME LedgerInv, LegacyTold, Other PROVE LegacyTold'
<1>1. /\ clock' = clock + 1 /\ UNCHANGED <<ledger, job, writing>>
      /\ \A f \in Files : StatOf(f)' = StatOf(f) \/ StatOf(f)'.mtime = clock + 1
  BY OtherStats
<1>2. clock \in Nat
  BY DEF LedgerInv, TypeOK
<1>3. ASSUME NEW l \in LegacyIds, ledger[l].status # "none", NEW f \in Files,
             StatOf(f)' = ledger[l].list
      PROVE  f = NewIdOf[l]
  <2>1. ledger[l].list.mtime = 0
    BY <1>3 DEF LegacyTold
  <2>2. StatOf(f)' = StatOf(f)
    BY <1>1, <1>2, <1>3, <2>1
  <2>. QED
    BY <1>3, <2>2 DEF LegacyTold
<1>. QED
  BY <1>1, <1>3 DEF LegacyTold, Live

LEMMA NextKeepsLegacy == ASSUME LedgerInv, LegacyTold, [Next]_vars PROVE LegacyTold'
<1>1. CASE StartScan
  <2>1. UNCHANGED <<tree, ledger>> /\ writing' = NoWrite /\ job' = Walk(Root, None)
    BY <1>1 DEF StartScan, Ready, source, store
  <2>. QED
    BY <2>1, WalkFields, JobMovesKeepLegacy
<1>2. CASE StartIndexing
  <2>1. UNCHANGED <<tree, ledger>> /\ writing' = NoWrite /\ job'.doomed = {} /\ job'.entries = {}
    BY <1>2 DEF StartIndexing, Ready, IdleJob, source, store
  <2>. QED
    BY <2>1, JobMovesKeepLegacy
<1>3. CASE UNCHANGED vars
  BY <1>3 DEF vars, LegacyTold, Live, StatOf
<1>. QED
  BY <1>1, <1>2, <1>3, OtherKeepsLegacy, JobStepKeepsLegacy, FaultStepKeepsLegacy,
     HintStepKeepsLegacy, OwnerKeepsLegacy DEF Next

(***************************************************************************)
(* Re-keying                                                               *)
(***************************************************************************)
\* The step of RekeyKeepsChunks.
RekeysWhole == \A l \in LegacyIds : Live(l) /\ ledger'[l].status = "none" =>
                 /\ chunks'[NewIdOf[l]] = chunks[l]
                 /\ ledger'[NewIdOf[l]].hash = ledger[l].hash

LEMMA RecogniseRekeysWhole ==
  ASSUME LedgerInv, LegacyTold, NEW e \in job.entries, NEW i \in Matching(e), NEW due \in BOOLEAN,
         Recognise(e, i, due), NEW l \in LegacyIds, Live(l), ledger'[l].status = "none"
  PROVE  /\ chunks'[NewIdOf[l]] = chunks[l]
         /\ ledger'[NewIdOf[l]].hash = ledger[l].hash
<1>0. /\ ledger \in [Ids -> Row] /\ chunks \in [Ids -> Contents \cup {None}] /\ job \in Job
      /\ NewIdOf[l] \in Files /\ l \in Ids /\ l # NewIdOf[l] /\ None \notin Files
  BY ConstantsAssumption DEF LedgerInv, TypeOK, Ids
<1>1. i \in Ids /\ ledger[i].list = e.stat /\ e.id \in Files \cup {None}
  BY <1>0 DEF Matching, LiveAt, Job
<1>2. ledger[l].status = "indexed"
  BY DEF LegacyTold, Live
<1>3. l = i => Stamped(ledger[i], due) = ledger[l]
  BY <1>2 DEF Stamped
<1>4. e.id # None /\ l = i
  <2>1. CASE e.id = None
    <3>1. ledger' = [ledger EXCEPT ![i] = NoRow, ![i] = Stamped(ledger[i], due)]
      BY <2>1 DEF Recognise
    <3>. QED
      BY <1>0, <1>1, <1>2, <1>3, <3>1
  <2>2. CASE e.id # None /\ l # i
    <3>1. ledger' = [ledger EXCEPT ![i] = NoRow, ![e.id] = Stamped(ledger[i], due)] /\ e.id # l
      BY <1>1, <2>2, FilesAreNotLegacy DEF Recognise
    <3>. QED
      BY <1>0, <1>1, <1>2, <2>2, <3>1
  <2>. QED
    BY <2>1, <2>2
<1>5. e.id = NewIdOf[l]
  BY <1>1, <1>2, <1>4 DEF LegacyTold
<1>6. /\ ledger' = [ledger EXCEPT ![l] = NoRow, ![NewIdOf[l]] = ledger[l]]
      /\ chunks' = [chunks EXCEPT ![l] = None, ![NewIdOf[l]] = chunks[l]]
  BY <1>3, <1>4, <1>5 DEF Recognise
<1>7. NewIdOf[l] \in Ids
  BY <1>0 DEF Ids
<1>. QED
  BY <1>0, <1>6, <1>7

LEMMA NextRekeysWhole == ASSUME LedgerInv, LegacyTold, [Next]_vars PROVE RekeysWhole
<1> SUFFICES ASSUME NEW l \in LegacyIds, Live(l), ledger'[l].status = "none"
             PROVE  /\ chunks'[NewIdOf[l]] = chunks[l]
                    /\ ledger'[NewIdOf[l]].hash = ledger[l].hash
  BY DEF RekeysWhole
<1>0. /\ l \in Ids /\ ledger \in [Ids -> Row] /\ ledger[l].status = "indexed"
      /\ writing.id # l \/ writing.row.status = "deleted"
  BY DEF LedgerInv, TypeOK, Ids, LegacyTold, Live
<1>1. ledger'[l] # ledger[l]
  BY <1>0
<1>2. ~CommitRow
  <2> SUFFICES ASSUME CommitRow PROVE FALSE
    OBVIOUS
  <2>1. ledger' = [ledger EXCEPT ![writing.id] =
                    IF writing.row.status = "deleted" THEN [@ EXCEPT !.status = "deleted"]
                    ELSE writing.row]
    BY DEF CommitRow
  <2>2. [ledger[l] EXCEPT !.status = "deleted"].status = "deleted"
    BY <1>0 DEF Row
  <2>. QED
    BY <1>0, <1>1, <2>1, <2>2
<1>3. ASSUME NEW f \in Files, ledger' = ledger \/ \E row : ledger' = [ledger EXCEPT ![f] = row]
      PROVE  FALSE
  BY <1>0, <1>1, <1>3, FilesAreNotLegacy
<1>4. ASSUME NEW e \in job.entries, ListedFile(e), ~\E i \in Matching(e), due \in BOOLEAN : Recognise(e, i, due)
      PROVE  FALSE
  <2>1. writing = NoWrite /\ e.id \in Files \cup {None}
    BY <1>4 DEF ListedFile, Ready, LedgerInv, TypeOK, Job
  <2>2. ledger' = ledger \/ \E f \in Files : \E row : ledger' = [ledger EXCEPT ![f] = row]
    BY <1>4, <2>1 DEF ListedFile, ObserveEntry, Observe, ChunksThenRow, RowOnly, At
  <2>. QED
    BY <1>1, <1>3, <2>2
<1>5. ~HintStep
  <2> SUFFICES ASSUME HintStep PROVE FALSE
    OBVIOUS
  <2>1. ledger' = ledger \/ \E f \in Files : \E row : ledger' = [ledger EXCEPT ![f] = row]
    BY DEF HintStep, HintPresent, HintAbsent, Observe, ChunksThenRow, RowOnly, At, store
  <2>. QED
    BY <1>1, <1>3, <2>1
<1>6. ASSUME NEW i \in job.todo, IndexFile(i) \/ ReadFails(i) PROVE FALSE
  <2>1. i \in Ids /\ i # l
    BY <1>0, QueuedRow DEF LedgerInv, QueueIsPending
  <2>2. ledger' = ledger \/ \E row : ledger' = [ledger EXCEPT ![i] = row]
    BY <1>6, QueuedFileIsRead, ReadingWrites
  <2>. QED
    BY <1>0, <1>1, <2>1, <2>2
<1>7. ~Owner
  BY <1>0, <1>1 DEF Owner, RetryFailed, RequeueOnlineOnly, OnlineOnly
<1>8. ~( \/ StartScan \/ StartIndexing \/ Other \/ FinishWalk \/ SettleStep \/ EndIndexing
         \/ (\E d \in job.queue : ListDir(d) \/ ListDirFails(d))
         \/ (\E e \in job.entries : EntryFails(e)) \/ Crash \/ UNCHANGED vars)
  BY <1>1 DEF StartScan, StartIndexing, Other, SaveFile, MoveFile, RemoveFile, Changed, FinishWalk,
     SettleStep, Tombstone, ChunksThenRow, HintSource, EndOperation, EndIndexing, ListDir, ListDirFails,
     EntryFails, Crash, store, vars
<1>9. PICK e \in job.entries : \E i \in Matching(e), due \in BOOLEAN : Recognise(e, i, due)
  BY <1>2, <1>4, <1>5, <1>6, <1>7, <1>8 DEF Next, JobStep, ScanStep, IndexStep, FaultStep
<1>. QED
  BY <1>9, RecogniseRekeysWhole

\* When no two of the first files have one size, a legacy row only goes by being
\* re-keyed, with its chunks and its hash, to the id of the same file, whether or
\* not listings give ids (_listed_file, rekey_file).
THEOREM RekeyingKeepsChunks == ASSUME FilesDiffer PROVE Spec => RekeyKeepsChunks
<1>1. Init => LegacyTold
  BY InitLegacy
<1>2. LedgerInv /\ LegacyTold /\ [Next]_vars => LegacyTold'
  BY NextKeepsLegacy
<1>3. LedgerInv /\ LegacyTold /\ [Next]_vars => [RekeysWhole]_vars
  BY NextRekeysWhole
<1>4. RekeyKeepsChunks <=> [][RekeysWhole]_vars
  BY DEF RekeyKeepsChunks, RekeysWhole
<1>. QED
  BY <1>1, <1>2, <1>3, <1>4, InvariantHolds, PTL DEF Spec
================================================================================
