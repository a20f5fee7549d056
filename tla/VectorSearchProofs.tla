-------------------------- MODULE VectorSearchProofs --------------------------
(* What TLAPS proves of VectorSearch, for any number of files, points and faults. *)
EXTENDS VectorSearch, TLAPS

(***************************************************************************)
(* Batches                                                                 *)
(***************************************************************************)
LEMMA LowestIsSubset == ASSUME NEW S, NEW n PROVE Lowest(S, n) \subseteq S
  BY DEF Lowest

\* A part of a batch is some of it.
LEMMA PartOfBatch == ASSUME NEW part \in Parts PROVE part \subseteq op.batch
  BY LowestIsSubset DEF Parts

LEMMA LiveIsPoints == ASSUME TypeOK PROVE Live \subseteq Points
  BY DEF TypeOK, Live, PointsOf

(***************************************************************************)
(* The operation in progress                                               *)
(***************************************************************************)
LEMMA NoOpType == NoOp \in Op
  BY ConstantsAssumption DEF NoOp, Op, Never, Generations

\* What a step does to the operation: its shape stays, its stamp is an old one,
\* the current generation or none, and it comes to "create", "add" and "mark"
\* only by the step before them.
OpShape == /\ op \in Op
           /\ op.at \notin {"put", "add"} => op.batch = {}
           /\ op.part \subseteq op.batch

OpMoves == /\ OpShape'
           /\ op'.gen \in {op.gen, Never, generation}
           /\ op'.at = "create" => op' = op \/ Clear
           /\ op'.at = "add" => op' = op \/ Put
           /\ op'.at = "mark" => op' = op \/ ReadMissing

LEMMA NoOpMoves == ASSUME op' = NoOp PROVE OpMoves
  BY NoOpType DEF OpMoves, OpShape, NoOp

LEMMA RehydrateMoves ==
  ASSUME OpShape, NEW then \in {"fn", "decide", "mark", "done"}, Rehydrate(then) PROVE OpMoves
  BY DEF Rehydrate, OpMoves, OpShape, Op, Never, Generations

LEMMA AtMoves ==
  ASSUME OpShape, NEW at \in {"fn", "decide", "delete"}, op' = [op EXCEPT !.at = at],
         op.at \notin {"put", "add"}
  PROVE  OpMoves
  BY DEF OpMoves, OpShape, Op

LEMMA OpPreserved == ASSUME TypeOK, OpShape, [Next]_vars PROVE OpMoves
<1> USE ConstantsAssumption DEF At
<1>1. CASE op' = op
  BY <1>1 DEF OpMoves, OpShape
<1>2. CASE op' = NoOp
  BY <1>2, NoOpMoves
<1>3. CASE StartSync \/ StartSearch
  <2>1. \E kind \in {"sync", "search"} : op' = [NoOp EXCEPT !.kind = kind, !.at = "ensure"]
    BY <1>3 DEF StartSync, StartSearch
  <2>. QED
    BY <2>1, NoOpType DEF OpMoves, OpShape, NoOp, Op
<1>4. CASE Ensure
  BY <1>4, AtMoves, RehydrateMoves DEF Ensure
<1>5. CASE Verify
  BY <1>5, AtMoves, RehydrateMoves DEF Verify
<1>6. CASE Decide
  <2>1. CASE op' = [op EXCEPT !.at = "read", !.then = "mark", !.gen = generation]
    BY <1>6, <2>1 DEF Decide, OpMoves, OpShape, Op, TypeOK, Generations
  <2>. QED
    BY <1>2, <1>6, <2>1, AtMoves DEF Decide
<1>7. CASE Delete
  BY <1>7, RehydrateMoves DEF Delete
<1>8. CASE Clear
  BY <1>8 DEF Clear, OpMoves, OpShape, Op
<1>9. CASE Create
  BY <1>9 DEF Create, OpMoves, OpShape, Op
<1>10. CASE ReadMissing
  <2>1. Lowest(Live \ recorded, Batch) \in SUBSET Points
    BY LiveIsPoints, LowestIsSubset
  <2>2. CASE op' = [op EXCEPT !.at = "put", !.batch = Lowest(Live \ recorded, Batch)]
    <3>1. op.part = {}
      BY <1>10 DEF ReadMissing, OpShape
    <3>. QED
      BY <2>1, <2>2, <3>1 DEF OpMoves, OpShape, Op
  <2>3. CASE op.then # "done" /\ op' = [op EXCEPT !.at = op.then]
    BY <1>10, <2>3 DEF ReadMissing, OpMoves, OpShape, Op
  <2>. QED
    BY <1>2, <1>10, <2>2, <2>3 DEF ReadMissing
<1>11. CASE Put
  <2>1. PICK part \in Parts : op' = [op EXCEPT !.at = "add", !.part = part]
    BY <1>11 DEF Put
  <2>2. part \subseteq op.batch
    BY PartOfBatch
  <2>. QED
    BY <1>11, <2>1, <2>2 DEF OpMoves, OpShape, Op
<1>12. CASE Add
  BY <1>12 DEF Add, OpMoves, OpShape, Op
<1>13. CASE Missing
  <2>1. CASE op' = [NoOp EXCEPT !.kind = op.kind, !.at = "clear", !.then = "fn", !.healed = TRUE]
    BY <2>1 DEF OpMoves, OpShape, Op, NoOp, Never, Generations
  <2>. QED
    BY <1>2, <1>13, <2>1 DEF Missing, Failed
<1>14. CASE Mark \/ Ask \/ Fails \/ Crash
  BY <1>2, <1>14 DEF Mark, Ask, Fails, Failed, Crash
<1>15. ASSUME NEW f \in Files,
              \/ \E kept \in SUBSET chunks[f], n \in 0..MaxNew : ReplaceChunks(f, kept, n)
              \/ Rekey(f) \/ Rename(f) \/ Bump(f) \/ WritePath(f)
       PROVE  op' = op
  BY <1>15 DEF ReplaceChunks, Rekey, Rename, Write, Bump, WritePath, mirror
<1>16. CASE StartLoad \/ LoadRows \/ ServerRestarts \/ ServerEmptied
  BY <1>1, <1>16 DEF StartLoad, LoadRows, ServerRestarts, ServerEmptied, mirror
<1>17. CASE SearchUnlocked \/ SearchFails \/ Cooled \/ CleanExpires \/ UNCHANGED vars
  BY <1>1, <1>17 DEF SearchUnlocked, SearchFails, Cooled, CleanExpires, vars
<1>. QED
  BY <1>1, <1>3, <1>4, <1>5, <1>6, <1>7, <1>8, <1>9, <1>10, <1>11, <1>12, <1>13, <1>14, <1>15,
     <1>16, <1>17 DEF Next, JobStep, MirrorStep

(***************************************************************************)
(* Types                                                                   *)
(***************************************************************************)
\* The invariant in the parts the lemmas below keep.
TablesOK == /\ chunks \in [Files -> SUBSET Points]
            /\ place \in [Files -> Places]
            /\ last \in 0..MaxPoint
            /\ recorded \in SUBSET Points
            /\ generation \in Nat
            /\ writing \in [Files -> {"no", "bump", "rename", "path"}]
            /\ local \in [gen : Generations, rows : SUBSET [id : Points, path : Places]]
            /\ loading \in Generations
            /\ held \in SUBSET Points
            /\ clean \in Generations
            /\ faults \in Nat
            /\ writes \in Nat

FlagsOK == exists \in BOOLEAN /\ lost \in BOOLEAN /\ ready \in BOOLEAN /\ usable \in BOOLEAN

LEMMA TypeParts == TypeOK /\ op.part \subseteq op.batch <=> TablesOK /\ FlagsOK /\ OpShape
  BY DEF TypeOK, TablesOK, FlagsOK, OpShape

LEMMA InitEstablishesInv == Init => VectorInv
<1> SUFFICES ASSUME Init PROVE VectorInv
  OBVIOUS
<1> USE ConstantsAssumption
<1>1. TablesOK
  BY DEF Init, TablesOK, Never, Generations
<1>2. FlagsOK
  BY DEF Init, FlagsOK
<1>3. OpShape
  BY NoOpType DEF Init, OpShape, NoOp
<1>4. LocalIsCurrent /\ CleanMeansMirrored /\ HeldWhatIsRecorded
  BY DEF Init, LocalIsCurrent, CleanMeansMirrored, HeldWhatIsRecorded, Never
<1>5. StampsAreOld /\ PushIsRecorded
  BY DEF Init, StampsAreOld, PushIsRecorded, NoOp, Never
<1>. QED
  BY <1>1, <1>2, <1>3, <1>4, <1>5, TypeParts DEF VectorInv

LEMMA TablesPreserved == ASSUME TypeOK, OpShape, [Next]_vars PROVE TablesOK'
<1> USE ConstantsAssumption DEF TablesOK, store, index, server, mirror
<1>0. TablesOK
  BY TypeParts DEF OpShape
<1>1. ASSUME NEW f \in Files, NEW kept \in SUBSET chunks[f], NEW n \in 0..MaxNew,
             ReplaceChunks(f, kept, n)
      PROVE  TablesOK'
  <2>1. kept \cup (last + 1)..(last + n) \in SUBSET Points
    BY <1>0, <1>1 DEF ReplaceChunks, Points
  <2>. QED
    BY <1>0, <1>1, <2>1 DEF ReplaceChunks, Write
<1>2. ASSUME NEW f \in Files, Rekey(f) \/ Rename(f) PROVE TablesOK'
  BY <1>0, <1>2 DEF Rekey, Rename, Write
<1>3. ASSUME NEW f \in Files, Bump(f) \/ WritePath(f) PROVE TablesOK'
  BY <1>0, <1>3 DEF Bump, WritePath
<1>4. CASE StartLoad \/ LoadRows
  BY <1>0, <1>4 DEF StartLoad, LoadRows, LiveRows, Generations
<1>5. CASE StartSync \/ StartSearch \/ Ensure \/ Verify \/ Decide \/ Create \/ ReadMissing
  BY <1>0, <1>5 DEF StartSync, StartSearch, Ensure, Verify, Decide, Create, ReadMissing
<1>6. CASE Delete \/ Clear
  BY <1>0, <1>6 DEF Delete, Clear, Never, Generations
<1>7. CASE Put
  <2>1. \A part \in Parts : part \subseteq Points
    BY PartOfBatch DEF OpShape, Op
  <2>. QED
    BY <1>0, <1>7, <2>1 DEF Put
<1>8. CASE Add
  BY <1>0, <1>8 DEF Add, OpShape, Op
<1>9. CASE Mark
  BY <1>0, <1>9 DEF Mark, OpShape, Op
<1>10. CASE Ask \/ Missing
  BY <1>0, <1>10 DEF Ask, Missing
<1>11. CASE Fails
  <2>1. \A part \in Parts : part \subseteq Points
    BY PartOfBatch DEF OpShape, Op
  <2>. QED
    BY <1>0, <1>11, <2>1 DEF Fails, Fault
<1>12. CASE SearchUnlocked \/ SearchFails \/ Cooled
  BY <1>0, <1>12 DEF SearchUnlocked, SearchFails, Cooled, Fault
<1>13. CASE CleanExpires
  BY <1>0, <1>13 DEF CleanExpires, Never, Generations
<1>14. CASE ServerRestarts \/ ServerEmptied
  BY <1>0, <1>14 DEF ServerRestarts, ServerEmptied, Fault
<1>15. CASE Crash
  BY <1>0, <1>15 DEF Crash, Fault, Never, Generations
<1>16. CASE UNCHANGED vars
  BY <1>0, <1>16 DEF vars
<1>. QED
  BY <1>1, <1>2, <1>3, <1>4, <1>5, <1>6, <1>7, <1>8, <1>9, <1>10, <1>11, <1>12, <1>13, <1>14,
     <1>15, <1>16 DEF Next, JobStep, MirrorStep

LEMMA FlagsPreserved == ASSUME FlagsOK, [Next]_vars PROVE FlagsOK'
<1> USE DEF FlagsOK, store, index, server, mirror
<1>1. ASSUME NEW f \in Files,
             \/ \E kept \in SUBSET chunks[f], n \in 0..MaxNew : ReplaceChunks(f, kept, n)
             \/ Rekey(f) \/ Rename(f) \/ Bump(f) \/ WritePath(f)
      PROVE  FlagsOK'
  BY <1>1 DEF ReplaceChunks, Rekey, Rename, Write, Bump, WritePath
<1>2. CASE StartLoad \/ LoadRows \/ StartSync \/ StartSearch \/ Verify \/ Decide
  BY <1>2 DEF StartLoad, LoadRows, StartSync, StartSearch, Verify, Decide
<1>3. CASE Ensure \/ Delete \/ Clear \/ Create
  BY <1>3 DEF Ensure, Delete, Clear, Create
<1>4. CASE ReadMissing
  <2>1. ready' = ready \/ ready' = (ready \/ (op.then = "fn" /\ ~op.healed))
    BY <1>4 DEF ReadMissing
  <2>2. ready' \in BOOLEAN
    BY <2>1
  <2>. QED
    BY <1>4, <2>2 DEF ReadMissing
<1>5. CASE Put \/ Add \/ Mark
  BY <1>5 DEF Put, Add, Mark
<1>6. CASE Ask
  <2>1. ready' \in {ready, FALSE}
    BY <1>6 DEF Ask
  <2>. QED
    BY <1>6, <2>1 DEF Ask
<1>7. CASE Missing
  BY <1>7 DEF Missing, Failed
<1>8. CASE Fails
  BY <1>8 DEF Fails, Failed
<1>9. CASE SearchUnlocked \/ SearchFails \/ Cooled \/ CleanExpires
  BY <1>9 DEF SearchUnlocked, SearchFails, Cooled, CleanExpires
<1>10. CASE ServerRestarts \/ ServerEmptied \/ Crash
  BY <1>10 DEF ServerRestarts, ServerEmptied, Crash
<1>11. CASE UNCHANGED vars
  BY <1>11 DEF vars
<1>. QED
  BY <1>1, <1>2, <1>3, <1>4, <1>5, <1>6, <1>7, <1>8, <1>9, <1>10, <1>11 DEF Next, JobStep, MirrorStep

(***************************************************************************)
(* Generations and what they stand for                                     *)
(***************************************************************************)
LEMMA StampsPreserved ==
  ASSUME TypeOK, OpMoves, StampsAreOld, [Next]_vars PROVE StampsAreOld'
<1> USE DEF StampsAreOld, store, index, server, mirror
<1>1. op.gen \in Generations /\ local.gen \in Generations
  BY DEF TypeOK, Op
<1>2. CASE generation' \in {generation, generation + 1} /\ UNCHANGED <<local, loading, clean>>
  BY <1>1, <1>2 DEF OpMoves, TypeOK, Generations, Never
<1>3. ASSUME NEW f \in Files,
             \/ \E kept \in SUBSET chunks[f], n \in 0..MaxNew : ReplaceChunks(f, kept, n)
             \/ Rekey(f) \/ Rename(f) \/ Bump(f) \/ WritePath(f)
      PROVE  generation' \in {generation, generation + 1} /\ UNCHANGED <<local, loading, clean>>
  BY <1>3 DEF ReplaceChunks, Rekey, Rename, Write, Bump, WritePath
<1>4. CASE StartLoad \/ LoadRows
  BY <1>1, <1>4 DEF StartLoad, LoadRows, TypeOK, Generations, Never
<1>5. CASE StartSync \/ StartSearch \/ Ensure \/ Verify \/ Decide \/ Delete \/ Create
  BY <1>2, <1>5 DEF StartSync, StartSearch, Ensure, Verify, Decide, Delete, Create
<1>6. CASE ReadMissing \/ Put \/ Add \/ Ask \/ Missing \/ Fails
  BY <1>2, <1>6 DEF ReadMissing, Put, Add, Ask, Missing, Fails
<1>7. CASE Clear \/ CleanExpires
  BY <1>1, <1>7 DEF Clear, CleanExpires, OpMoves, TypeOK, Generations, Never
<1>8. CASE Mark
  BY <1>1, <1>8 DEF Mark, OpMoves, TypeOK, Generations, Never
<1>9. CASE SearchUnlocked \/ SearchFails \/ Cooled \/ ServerRestarts \/ ServerEmptied \/ UNCHANGED vars
  BY <1>2, <1>9 DEF SearchUnlocked, SearchFails, Cooled, ServerRestarts, ServerEmptied, vars
<1>10. CASE Crash
  BY <1>10 DEF Crash, NoOp, Never
<1>. QED
  BY <1>2, <1>3, <1>4, <1>5, <1>6, <1>7, <1>8, <1>9, <1>10 DEF Next, JobStep, MirrorStep

\* The rows of a load carry the ids of the live chunks.
LEMMA RowsAreLive == ASSUME TypeOK PROVE {r.id : r \in LiveRows} = Live
<1>1. ASSUME NEW x \in Live PROVE x \in {r.id : r \in LiveRows}
  <2>1. PICK f \in Files : x \in chunks[f]
    BY DEF Live, PointsOf
  <2>2. [id |-> x, path |-> place[f]] \in LiveRows
    BY <2>1 DEF LiveRows, TypeOK
  <2>. QED
    BY <2>2
<1>2. ASSUME NEW r \in LiveRows PROVE r.id \in Live
  BY DEF LiveRows, Live, PointsOf
<1>. QED
  BY <1>1, <1>2

\* The facts that hold at the current generation: the matrix, the clean stamp
\* and a push about to be stamped.
PushIsComplete == op.at = "mark" /\ op.gen = generation /\ Announced => Live \subseteq recorded
CurrentFacts == LocalIsCurrent /\ CleanMeansMirrored /\ PushIsComplete

\* They outlast a step that writes no chunk, forgets no record and announces
\* nothing, if it stamps nothing new.
LEMMA SameStore ==
  ASSUME CurrentFacts, OpMoves, UNCHANGED <<chunks, generation, writing>>,
         recorded \subseteq recorded', local' = local, clean' \in {clean, Never}, generation \in Nat,
         op'.at = "mark" => op' = op
  PROVE  CurrentFacts'
<1>1. Live' = Live /\ Announced' = Announced
  BY DEF Live, PointsOf, Announced
<1>2. Never # generation
  BY DEF Never
<1>. QED
  BY <1>1, <1>2 DEF CurrentFacts, LocalIsCurrent, CleanMeansMirrored, PushIsComplete

LEMMA CurrentPreserved ==
  ASSUME TypeOK, OpMoves, StampsAreOld, CurrentFacts, [Next]_vars PROVE CurrentFacts'
<1> USE DEF store, index, server, mirror
<1>0. generation \in Nat
  BY DEF TypeOK
<1>1. ASSUME NEW f \in Files,
             \/ \E kept \in SUBSET chunks[f], n \in 0..MaxNew : ReplaceChunks(f, kept, n)
             \/ Rekey(f) \/ Rename(f)
      PROVE  CurrentFacts'
  <2>1. ~Announced'
    BY <1>1 DEF ReplaceChunks, Rekey, Rename, Write, Announced, TypeOK
  <2>. QED
    BY <2>1 DEF CurrentFacts, LocalIsCurrent, CleanMeansMirrored, PushIsComplete
<1>2. ASSUME NEW f \in Files, Bump(f) PROVE CurrentFacts'
  <2>1. local' = local /\ clean' = clean /\ op' = op /\ generation' = generation + 1
    BY <1>2 DEF Bump
  <2>2. local.gen # generation + 1 /\ clean # generation + 1 /\ op.gen # generation + 1
    BY <1>0 DEF StampsAreOld, TypeOK, Op, Generations, Never
  <2>. QED
    BY <2>1, <2>2 DEF CurrentFacts, LocalIsCurrent, CleanMeansMirrored, PushIsComplete
<1>3. ASSUME NEW f \in Files, WritePath(f) PROVE CurrentFacts'
  <2>1. Announced' => Announced
    BY <1>3 DEF WritePath, Announced, TypeOK
  <2>2. Live' = Live
    BY <1>3 DEF WritePath, Live, PointsOf
  <2>3. UNCHANGED <<recorded, generation, local, clean, op>>
    BY <1>3 DEF WritePath
  <2>. QED
    BY <2>1, <2>2, <2>3 DEF CurrentFacts, LocalIsCurrent, CleanMeansMirrored, PushIsComplete
<1>4. CASE LoadRows
  <2>1. Live' = Live /\ Announced' = Announced /\ {r.id : r \in local'.rows} = Live
    BY <1>4, RowsAreLive DEF LoadRows, Live, PointsOf, Announced
  <2>2. UNCHANGED <<recorded, generation, clean, op>>
    BY <1>4 DEF LoadRows
  <2>. QED
    BY <2>1, <2>2 DEF CurrentFacts, LocalIsCurrent, CleanMeansMirrored, PushIsComplete
<1>5. CASE StartLoad \/ SearchUnlocked \/ SearchFails \/ Cooled \/ CleanExpires \/ ServerRestarts
           \/ ServerEmptied \/ UNCHANGED vars
  BY <1>0, <1>5, SameStore DEF StartLoad, SearchUnlocked, SearchFails, Cooled, CleanExpires,
     ServerRestarts, ServerEmptied, vars
<1>6. ASSUME op' = op \/ op'.at # "mark", UNCHANGED <<chunks, generation, writing, local>>,
             recorded \subseteq recorded', clean' \in {clean, Never}
      PROVE  CurrentFacts'
  BY <1>0, <1>6, SameStore
<1>7. CASE StartSync \/ StartSearch \/ Ensure \/ Verify \/ Decide \/ Delete \/ Create \/ Put
  <2>1. op'.at # "mark" \/ op' = op
    <3>1. CASE ~ReadMissing
      BY <3>1 DEF OpMoves
    <3>2. CASE ReadMissing
      BY <1>7, <3>2 DEF ReadMissing, StartSync, StartSearch, Ensure, Verify, Decide, Delete, Create,
         Put, At, NoOp
    <3>. QED
      BY <3>1, <3>2
  <2>. QED
    BY <1>6, <1>7, <2>1 DEF StartSync, StartSearch, Ensure, Verify, Decide, Delete, Create, Put
<1>8. CASE Add
  <2>1. op'.at # "mark"
    BY <1>8 DEF Add, TypeOK, Op
  <2>. QED
    BY <1>6, <1>8, <2>1 DEF Add
<1>9. CASE Ask \/ Missing \/ Fails
  <2>1. op' = NoOp \/ op' = [NoOp EXCEPT !.kind = op.kind, !.at = "clear", !.then = "fn",
                                        !.healed = TRUE]
    BY <1>9 DEF Ask, Missing, Fails, Failed
  <2>2. op'.at # "mark"
    BY <2>1, NoOpType DEF NoOp, Op
  <2>. QED
    BY <1>6, <1>9, <2>2 DEF Ask, Missing, Fails
<1>10. CASE ReadMissing
  <2>1. UNCHANGED <<chunks, recorded, generation, writing, local, clean>>
    BY <1>10 DEF ReadMissing
  <2>2. CASE Live \ recorded = {}
    <3>1. Live' = Live /\ Announced' = Announced
      BY <2>1 DEF Live, PointsOf, Announced
    <3>. QED
      BY <2>1, <2>2, <3>1 DEF CurrentFacts, LocalIsCurrent, CleanMeansMirrored, PushIsComplete
  <2>3. CASE Live \ recorded # {}
    <3>1. op'.at # "mark"
      BY <1>10, <2>3 DEF ReadMissing, TypeOK, Op
    <3>. QED
      BY <1>6, <2>1, <3>1
  <2>. QED
    BY <2>2, <2>3
<1>11. CASE Clear
  <2>1. clean' # generation' /\ op'.at # "mark" /\ local' = local /\ generation' = generation
    BY <1>0, <1>11 DEF Clear, TypeOK, Op, Never
  <2>2. Live' = Live /\ Announced' = Announced
    BY <1>11 DEF Clear, Live, PointsOf, Announced
  <2>. QED
    BY <2>1, <2>2 DEF CurrentFacts, LocalIsCurrent, CleanMeansMirrored, PushIsComplete
<1>12. CASE Mark
  <2>1. Live' = Live /\ Announced' = Announced /\ op'.at # "mark"
    BY <1>12 DEF Mark, Live, PointsOf, Announced, NoOp
  <2>2. UNCHANGED <<recorded, generation, local>> /\ clean' = op.gen /\ op.at = "mark"
    BY <1>12 DEF Mark, At
  <2>. QED
    BY <2>1, <2>2 DEF CurrentFacts, LocalIsCurrent, CleanMeansMirrored, PushIsComplete
<1>13. CASE Crash
  <2>1. local'.gen # generation' /\ clean' # generation' /\ op'.at # "mark"
    BY <1>13 DEF Crash, NoOp, Never
  <2>. QED
    BY <2>1 DEF CurrentFacts, LocalIsCurrent, CleanMeansMirrored, PushIsComplete
<1>. QED
  BY <1>1, <1>2, <1>3, <1>4, <1>5, <1>7, <1>8, <1>9, <1>10, <1>11, <1>12, <1>13
     DEF Next, JobStep, MirrorStep

(***************************************************************************)
(* The record and the server                                               *)
(***************************************************************************)
RecordFacts == /\ HeldWhatIsRecorded
               /\ op.at = "create" => recorded = {}
               /\ op.at = "add" /\ exists /\ ~lost => op.part \subseteq held

\* They outlast a step that neither records nor loses a point.
LEMMA SameRecord ==
  ASSUME RecordFacts, OpMoves, recorded' \subseteq recorded,
         UNCHANGED <<exists, held, lost>> \/ (~exists' /\ lost' = lost) \/ lost',
         ~Clear, ~Put
  PROVE  RecordFacts'
  BY DEF RecordFacts, HeldWhatIsRecorded, OpMoves

LEMMA RecordPreserved ==
  ASSUME TypeOK, OpShape, OpMoves, RecordFacts, [Next]_vars PROVE RecordFacts'
<1> USE DEF store, index, server, mirror
<1>1. CASE Clear
  BY <1>1 DEF Clear, RecordFacts, HeldWhatIsRecorded, OpMoves, TypeOK, Op
<1>2. CASE Put
  <2>1. PICK part \in Parts : held' = held \cup part /\ op' = [op EXCEPT !.at = "add", !.part = part]
    BY <1>2 DEF Put
  <2>2. op'.at = "add" /\ op'.part = part
    BY <2>1 DEF OpShape, Op
  <2>3. UNCHANGED <<recorded, exists, lost>>
    BY <1>2 DEF Put
  <2>. QED
    BY <2>1, <2>2, <2>3 DEF RecordFacts, HeldWhatIsRecorded
<1>3. CASE ~Clear /\ ~Put
  <2>1. ASSUME NEW f \in Files,
               \/ \E kept \in SUBSET chunks[f], n \in 0..MaxNew : ReplaceChunks(f, kept, n)
               \/ Rekey(f) \/ Rename(f) \/ Bump(f) \/ WritePath(f)
        PROVE  recorded' \subseteq recorded /\ UNCHANGED <<exists, held, lost>>
    BY <2>1 DEF ReplaceChunks, Rekey, Rename, Write, Bump, WritePath
  <2>2. CASE StartLoad \/ LoadRows \/ StartSync \/ StartSearch \/ Ensure \/ Verify \/ Decide
             \/ ReadMissing
    BY <1>3, <2>2, SameRecord DEF StartLoad, LoadRows, StartSync, StartSearch, Ensure, Verify,
       Decide, ReadMissing
  <2>3. CASE Mark \/ Ask \/ Missing \/ SearchUnlocked \/ SearchFails \/ Cooled \/ CleanExpires
             \/ UNCHANGED vars
    BY <1>3, <2>3, SameRecord DEF Mark, Ask, Missing, SearchUnlocked, SearchFails, Cooled,
       CleanExpires, vars
  <2>4. CASE Delete \/ ServerRestarts \/ ServerEmptied \/ Crash
    BY <1>3, <2>4, SameRecord DEF Delete, ServerRestarts, ServerEmptied, Crash
  <2>5. CASE Create
    <3>1. op'.at = "read" /\ recorded = {} /\ recorded' = recorded
      BY <2>5 DEF Create, At, RecordFacts, TypeOK, Op
    <3>. QED
      BY <3>1 DEF RecordFacts, HeldWhatIsRecorded
  <2>6. CASE Add
    <3>1. op'.at \notin {"create", "add"}
      BY <2>6 DEF Add, OpShape, Op
    <3>2. recorded' = recorded \cup op.part /\ op.at = "add" /\ UNCHANGED <<exists, held, lost>>
      BY <2>6 DEF Add, At
    <3>. QED
      BY <3>1, <3>2 DEF RecordFacts, HeldWhatIsRecorded
  <2>7. CASE Fails
    <3>1. op'.at = "idle" /\ UNCHANGED <<recorded, lost>>
      BY <2>7 DEF Fails, Failed, NoOp
    <3>2. \/ UNCHANGED <<exists, held>>
          \/ exists' = exists /\ held \subseteq held'
          \/ exists' = FALSE
          \/ op.at = "create"
      BY <2>7 DEF Fails, At
    <3>. QED
      BY <3>1, <3>2 DEF RecordFacts, HeldWhatIsRecorded
  <2>. QED
    BY <1>3, <2>1, <2>2, <2>3, <2>4, <2>5, <2>6, <2>7, SameRecord DEF Next, JobStep, MirrorStep
<1>. QED
  BY <1>1, <1>2, <1>3

(***************************************************************************)
(* Theorems                                                                *)
(***************************************************************************)
\* The inductive invariant of the store, the local index and the mirror.
THEOREM InvariantHolds == Spec => []VectorInv
<1>1. Init => VectorInv
  BY InitEstablishesInv
<1>2. VectorInv /\ [Next]_vars => VectorInv'
  <2> SUFFICES ASSUME VectorInv, [Next]_vars PROVE VectorInv'
    OBVIOUS
  <2>1. TypeOK /\ OpShape /\ FlagsOK /\ StampsAreOld /\ CurrentFacts /\ RecordFacts
    BY DEF VectorInv, TypeOK, OpShape, FlagsOK, PushIsRecorded, CurrentFacts, PushIsComplete, RecordFacts
  <2>2. OpMoves
    BY <2>1, OpPreserved
  <2>3. TablesOK' /\ FlagsOK' /\ OpShape'
    BY <2>1, <2>2, TablesPreserved, FlagsPreserved DEF OpMoves
  <2>4. StampsAreOld' /\ CurrentFacts' /\ RecordFacts'
    BY <2>1, <2>2, StampsPreserved, CurrentPreserved, RecordPreserved
  <2>5. TypeOK'
    BY <2>3 DEF TypeOK, TablesOK, FlagsOK, OpShape
  <2>. QED
    BY <2>3, <2>4, <2>5 DEF VectorInv, OpShape, PushIsRecorded, CurrentFacts, PushIsComplete, RecordFacts
<1>. QED
  BY <1>1, <1>2, PTL DEF Spec

\* The variables hold what the code can hold (vectors.py, store.py).
THEOREM TypeCorrect == Spec => []TypeOK
<1>1. VectorInv => TypeOK
  BY DEF VectorInv
<1>. QED
  BY <1>1, InvariantHolds, PTL

\* A matrix of the current generation holds exactly the live chunks
\* (LocalIndex._load), however many writers there are.
THEOREM LocalSearchIsCurrent == Spec => []LocalIsCurrent
<1>1. VectorInv => LocalIsCurrent
  BY DEF VectorInv
<1>. QED
  BY <1>1, InvariantHolds, PTL

\* The shortcut of sync never skips a point (RuvectorMirror.sync, _clean).
THEOREM ShortcutIsSafe == Spec => []CleanMeansMirrored
<1>1. VectorInv => CleanMeansMirrored
  BY DEF VectorInv
<1>. QED
  BY <1>1, InvariantHolds, PTL

\* No push, failed or interrupted, records a point the server does not hold
\* (RuvectorMirror._upsert, _rehydrate).
THEOREM RecordIsTrue == Spec => []HeldWhatIsRecorded
<1>1. VectorInv => HeldWhatIsRecorded
  BY DEF VectorInv
<1>. QED
  BY <1>1, InvariantHolds, PTL
================================================================================
