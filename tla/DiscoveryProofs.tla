---------------------------- MODULE DiscoveryProofs ----------------------------
(* What TLAPS proves of FileVectors, Communities and Discovery: for any     *)
(* files, texts and batches, any evidence, and any number of changes, runs, *)
(* decisions and restarts.                                                  *)
EXTENDS Discovery, TLAPS, FiniteSetTheorems, FunctionTheorems

-------------------------------------------------------------------------------
(* File vectors by themselves.                                              *)

\* What was never written has no vector; no number is above the counter.
NumbersAreOld ==
  /\ \A f \in Files : stamp[f] = 0 => vec[f] = None
  /\ \A f \in Files : stamp[f] <= fvSeq
  /\ idxSeq <= fvSeq

VectorsInv == VectorsTypeOK /\ NumbersAreOld /\ IndexFollowsTheStore

-------------------------------------------------------------------------------
(* What the steps do to the table and to the index.                         *)

\* A write to any files, with any means: their numbers are beyond the index.
LEMMA WriteKeeps ==
  ASSUME VectorsInv, UNCHANGED index, NEW S \in SUBSET Files, NEW m \in Meanings, Write(S, m)
  PROVE  /\ vec' \in Meanings /\ stamp' \in [Files -> Nat] /\ fvSeq' \in Nat
         /\ idx' \in Meanings /\ idxSeq' \in Nat
         /\ NumbersAreOld' /\ IndexFollowsTheStore'
<1> USE DEF VectorsInv, VectorsTypeOK, NumbersAreOld, index
<1>1. /\ fvSeq' = fvSeq + 1 /\ idx' = idx /\ idxSeq' = idxSeq
      /\ fvSeq \in Nat /\ idxSeq \in Nat /\ idxSeq <= fvSeq
  BY DEF Write, NextSeq
<1>2. /\ vec' \in Meanings /\ stamp' \in [Files -> Nat] /\ fvSeq' \in Nat
  BY <1>1 DEF Write, NextSeq, Meanings
<1>3. ASSUME NEW f \in Files
      PROVE  \/ f \in S /\ stamp'[f] = fvSeq + 1
             \/ f \notin S /\ stamp'[f] = stamp[f] /\ vec'[f] = vec[f]
  BY DEF Write, NextSeq
<1>4. ASSUME NEW f \in Files
      PROVE  stamp'[f] # 0 \/ vec'[f] = None
  BY <1>1, <1>3
<1>5. ASSUME NEW f \in Files
      PROVE  stamp'[f] <= fvSeq'
  BY <1>1, <1>2, <1>3
<1>6. ASSUME NEW f \in Files, stamp'[f] <= idxSeq'
      PROVE  idx'[f] = vec'[f]
  BY <1>1, <1>2, <1>3, <1>6 DEF IndexFollowsTheStore
<1>7. QED
  BY <1>1, <1>2, <1>4, <1>5, <1>6 DEF IndexFollowsTheStore

\* A step that leaves table and index alone.
LEMMA StoredKeeps ==
  ASSUME VectorsInv, UNCHANGED <<stored, index>>
  PROVE  /\ vec' \in Meanings /\ stamp' \in [Files -> Nat] /\ fvSeq' \in Nat
         /\ idx' \in Meanings /\ idxSeq' \in Nat
         /\ NumbersAreOld' /\ IndexFollowsTheStore'
BY DEF VectorsInv, VectorsTypeOK, NumbersAreOld, IndexFollowsTheStore, stored, index

LEMMA DropKeeps ==
  ASSUME VectorsInv, UNCHANGED index, NEW S \in SUBSET Files, Drop(S)
  PROVE  /\ vec' \in Meanings /\ stamp' \in [Files -> Nat] /\ fvSeq' \in Nat
         /\ idx' \in Meanings /\ idxSeq' \in Nat
         /\ NumbersAreOld' /\ IndexFollowsTheStore'
<1> DEFINE had == {f \in S : vec[f] # None}
<1>1. Nothing \in Meanings
  BY DEF Nothing, Meanings
<1>2. CASE had = {}
  <2>1. UNCHANGED <<stored, index>>
    BY <1>2 DEF Drop
  <2>2. QED
    BY <2>1, StoredKeeps
<1>3. CASE had # {}
  <2>1. had \in SUBSET Files /\ Write(had, Nothing)
    BY <1>3 DEF Drop
  <2> HIDE DEF had
  <2>2. QED
    BY <2>1, <1>1, WriteKeeps
<1>4. QED
  BY <1>2, <1>3

\* A refresh takes what was written since, and its number.
LEMMA RefreshKeeps ==
  ASSUME VectorsInv, UNCHANGED stored, Refreshed
  PROVE  /\ vec' \in Meanings /\ stamp' \in [Files -> Nat] /\ fvSeq' \in Nat
         /\ idx' \in Meanings /\ idxSeq' \in Nat
         /\ NumbersAreOld' /\ IndexFollowsTheStore'
<1>1. /\ vec' = vec /\ stamp' = stamp /\ fvSeq' = fvSeq
      /\ vec \in Meanings /\ stamp \in [Files -> Nat] /\ fvSeq \in Nat
      /\ idx \in Meanings /\ idxSeq \in Nat
  BY DEF VectorsInv, VectorsTypeOK, stored
<1>2. idx' \in Meanings
  BY <1>1 DEF Refreshed, Loaded, Meanings
<1>3. idxSeq' \in Nat /\ idxSeq' <= fvSeq
  BY <1>1 DEF VectorsInv, NumbersAreOld, Refreshed, Newest
<1>4. ASSUME NEW f \in Files
      PROVE  idx'[f] = vec[f]
  <2>1. CASE stamp[f] > idxSeq
    BY <2>1 DEF Refreshed, Loaded
  <2>2. CASE ~(stamp[f] > idxSeq)
    BY <1>1, <2>2 DEF Refreshed, Loaded, VectorsInv, IndexFollowsTheStore
  <2>3. QED
    BY <2>1, <2>2
<1>5. QED
  BY <1>1, <1>2, <1>3, <1>4 DEF VectorsInv, NumbersAreOld, IndexFollowsTheStore

-------------------------------------------------------------------------------
(* The steps.                                                               *)

LEMMA PassTypes ==
  /\ Nothing \in Meanings
  /\ Asleep \in Pass
BY DEF Nothing, Meanings, Asleep, Pass

\* A batch is made of files without a vector.
LEMMA BatchesAreFiles == \A b \in Batches : b \in SUBSET Files
BY DEF Batches, Missing

LEMMA InitHolds == VectorsInit => VectorsInv
<1> SUFFICES ASSUME VectorsInit PROVE VectorsInv
  OBVIOUS
<1>1. Nothing \in Meanings /\ \A f \in Files : Nothing[f] = None
  BY DEF Nothing, Meanings
<1>2. VectorsTypeOK
  BY <1>1, PassTypes DEF VectorsInit, VectorsTypeOK
<1>3. NumbersAreOld /\ IndexFollowsTheStore
  BY <1>1 DEF VectorsInit, NumbersAreOld, IndexFollowsTheStore
<1>4. QED
  BY <1>2, <1>3 DEF VectorsInv

LEMMA NextKeeps == VectorsInv /\ [VectorsNext]_vectorVars => VectorsInv'
<1> SUFFICES ASSUME VectorsInv, [VectorsNext]_vectorVars PROVE VectorsInv'
  OBVIOUS
<1> DEFINE TableKept == /\ vec' \in Meanings /\ stamp' \in [Files -> Nat] /\ fvSeq' \in Nat
                        /\ idx' \in Meanings /\ idxSeq' \in Nat
                        /\ NumbersAreOld' /\ IndexFollowsTheStore'
           RestKept == /\ text' \in Meanings /\ embedded' \in SUBSET Texts
                       /\ builder' \in Pass /\ ready' \in BOOLEAN
<1>0. /\ text \in Meanings /\ embedded \in SUBSET Texts
      /\ builder \in Pass /\ ready \in BOOLEAN
  BY DEF VectorsInv, VectorsTypeOK
<1>1. ASSUME NEW f \in Files, NEW t \in Texts \cup {None}, Replace(f, t)
      PROVE  TableKept /\ RestKept
  <2>1. TableKept
    BY <1>1, DropKeeps DEF Replace, index
  <2>2. RestKept
    BY <1>0, <1>1 DEF Replace, Meanings
  <2>3. QED
    BY <2>1, <2>2
<1>2. ASSUME NEW f \in Files, NEW g \in Files, Rekey(f, g)
      PROVE  TableKept /\ RestKept
  <2>1. TableKept
    BY <1>2, DropKeeps DEF Rekey, index
  <2>2. RestKept
    BY <1>0, <1>2 DEF Rekey, Meanings
  <2>3. QED
    BY <2>1, <2>2
<1>3. ASSUME NEW t \in Texts, Embed(t)
      PROVE  TableKept /\ RestKept
  <2>1. TableKept
    BY <1>3, StoredKeeps DEF Embed, stored, index
  <2>2. RestKept
    BY <1>0, <1>3 DEF Embed
  <2>3. QED
    BY <2>1, <2>2
<1>4. ASSUME Forget
      PROVE  TableKept /\ RestKept
  <2>1. TableKept
    BY <1>4, DropKeeps DEF Forget, index
  <2>2. RestKept
    BY <1>0, <1>4, PassTypes DEF Forget
  <2>3. QED
    BY <2>1, <2>2
<1>5. ASSUME Begin
      PROVE  TableKept /\ RestKept
  <2>1. TableKept
    BY <1>5, StoredKeeps DEF Begin, stored, index
  <2>2. RestKept
    BY <1>0, <1>5, PassTypes DEF Begin, Pass, chunks
  <2>3. QED
    BY <2>1, <2>2
<1>6. ASSUME List
      PROVE  TableKept /\ RestKept
  <2>1. TableKept
    BY <1>6, StoredKeeps DEF List, stored, index
  <2>2. PICK b \in Batches : builder' = [builder EXCEPT !.at = "mean", !.todo = b]
    BY <1>6 DEF List
  <2>3. RestKept
    BY <1>0, <1>6, <2>2, BatchesAreFiles DEF List, Pass, chunks
  <2>4. QED
    BY <2>1, <2>3
<1>7. ASSUME EndPass
      PROVE  TableKept /\ RestKept
  <2>1. TableKept
    BY <1>7, RefreshKeeps DEF EndPass, stored
  <2>2. RestKept
    BY <1>0, <1>7, PassTypes DEF EndPass, chunks
  <2>3. QED
    BY <2>1, <2>2
<1>8. ASSUME Mean
      PROVE  TableKept /\ RestKept
  <2>1. TableKept
    BY <1>8, StoredKeeps DEF Mean, stored, index
  <2> DEFINE has == {f \in builder.todo : text[f] \in embedded}
             means == [f \in Files |-> IF f \in has THEN text[f] ELSE None]
  <2>2. has \in SUBSET Files /\ means \in Meanings /\ builder.failed \cup (builder.todo \ has) \in SUBSET Files
    BY <1>0 DEF Pass, Meanings
  <2>3. builder' = [builder EXCEPT !.at = "put", !.failed = builder.failed \cup (builder.todo \ has),
                                   !.todo = has, !.means = means]
    BY <1>8 DEF Mean
  <2> HIDE DEF has, means
  <2>4. RestKept
    BY <1>0, <1>8, <2>2, <2>3 DEF Mean, Pass, chunks
  <2>5. QED
    BY <2>1, <2>4
<1>9. ASSUME Put
      PROVE  TableKept /\ RestKept
  <2>1. builder.todo \in SUBSET Files /\ builder.means \in Meanings /\ builder.failed \in SUBSET Files
        /\ builder.done \in BOOLEAN
    BY <1>0 DEF Pass
  <2>2. TableKept
    <3>1. CASE builder.todo = {}
      BY <1>9, <3>1, StoredKeeps DEF Put, stored, index
    <3>2. CASE builder.todo # {}
      BY <1>9, <3>2, <2>1, WriteKeeps DEF Put, index
    <3>3. QED
      BY <3>1, <3>2
  <2> DEFINE more == builder.done \/ builder.todo # {}
  <2>3. more \in BOOLEAN
    BY <2>1
  <2>4. builder' = [Asleep EXCEPT !.at = "todo", !.failed = builder.failed, !.done = more]
    BY <1>9 DEF Put
  <2> HIDE DEF more
  <2>5. RestKept
    BY <1>0, <1>9, <2>1, <2>3, <2>4, PassTypes DEF Put, Pass, chunks
  <2>6. QED
    BY <2>2, <2>5
<1>10. ASSUME Refresh
      PROVE  TableKept /\ RestKept
  <2>1. TableKept
    BY <1>10, RefreshKeeps DEF Refresh
  <2>2. RestKept
    BY <1>0, <1>10 DEF Refresh, chunks
  <2>3. QED
    BY <2>1, <2>2
<1>11. ASSUME Reboot
      PROVE  TableKept /\ RestKept
  <2>1. RestKept
    BY <1>0, <1>11, PassTypes DEF Reboot, chunks
  <2>2. /\ vec' = vec /\ stamp' = stamp /\ fvSeq' = fvSeq
        /\ idx' = Nothing /\ idxSeq' = 0
        /\ \A f \in Files : Nothing[f] = None
    BY <1>11 DEF Reboot, stored, Nothing
  <2>3. /\ stamp \in [Files -> Nat] /\ vec \in Meanings /\ fvSeq \in Nat
        /\ \A f \in Files : stamp[f] = 0 => vec[f] = None
        /\ \A f \in Files : stamp[f] <= fvSeq
    BY DEF VectorsInv, VectorsTypeOK, NumbersAreOld
  <2>4. TableKept
    BY <2>2, <2>3, PassTypes DEF NumbersAreOld, IndexFollowsTheStore
  <2>5. QED
    BY <2>1, <2>4
<1>12. ASSUME UNCHANGED vectorVars
      PROVE  TableKept /\ RestKept
  <2>1. TableKept
    BY <1>12, StoredKeeps DEF vectorVars, stored, index
  <2>2. RestKept
    BY <1>0, <1>12 DEF vectorVars, chunks
  <2>3. QED
    BY <2>1, <2>2
<1>13. TableKept /\ RestKept
  <2>1. CASE VectorsNext
    BY <2>1, <1>1, <1>2, <1>3, <1>4, <1>5, <1>6, <1>7, <1>8, <1>9, <1>10, <1>11 DEF VectorsNext, BuilderStep
  <2>2. QED
    BY <2>1, <1>12
<1>14. QED
  BY <1>13 DEF VectorsInv, VectorsTypeOK

-------------------------------------------------------------------------------
(* VectorsInv is inductive: whatever is written, dropped, built, refreshed  *)
(* or restarted, in whatever order.                                         *)
THEOREM VectorsInvHolds == VectorsSpec => []VectorsInv
<1>1. VectorsInit => VectorsInv
  BY InitHolds
<1>2. VectorsInv /\ [VectorsNext]_vectorVars => VectorsInv'
  BY NextKeeps
<1>3. QED
  BY <1>1, <1>2, PTL DEF VectorsSpec

(* The table, the builder and the index only hold values of their types.    *)
THEOREM VectorsTypeCorrect == VectorsSpec => []VectorsTypeOK
<1>1. VectorsInv => VectorsTypeOK
  BY DEF VectorsInv
<1>2. QED
  BY <1>1, VectorsInvHolds, PTL

(* The index in memory never misses a write, and never keeps what was       *)
(* dropped, up to the number it has reached (FileIndex.refresh).            *)
THEOREM IndexNeverMissesAWrite == VectorsSpec => []IndexFollowsTheStore
<1>1. VectorsInv => IndexFollowsTheStore
  BY DEF VectorsInv
<1>2. QED
  BY <1>1, VectorsInvHolds, PTL

-------------------------------------------------------------------------------
(* Communities.                                                             *)

LEMMA LeastNumber ==
  ASSUME NEW S \in SUBSET Nat, S # {}
  PROVE  \E n \in S : \A m \in S : n <= m
<1>1. PICK n \in S : \A m \in S : ~(<<m, n>> \in OpToRel(<, Nat))
  BY NatLessThanWellFounded, WFMin
<1>2. ASSUME NEW m \in S PROVE n <= m
  <2>1. <<m, n>> \notin OpToRel(<, Nat)
    BY <1>1
  <2>2. m \in Nat /\ n \in Nat
    OBVIOUS
  <2>3. ~(m < n)
    BY <2>1, <2>2, Zenon DEF OpToRel
  <2> QED
    BY <2>2, <2>3
<1> QED
  BY <1>1, <1>2

LEMMA TableIs == ASSUME NEW f PROVE Table(f) = f
BY DEF Table

LEMMA PartsApart ==
  ASSUME NEW comm
  PROVE  /\ \A p \in Parts(comm) : p \in SUBSET DOMAIN comm
         /\ \A p, q \in Parts(comm) : p # q => p \cap q = {}
BY DEF Parts

LEMMA PartitionIsOfLevels ==
  ASSUME NEW graph, NEW gamma
  PROVE  \E comm : Partition(graph, gamma) = Parts(comm) /\ DOMAIN comm = DOMAIN graph
<1> DEFINE first == Table([u \in DOMAIN graph |-> u])
           Levels(f, k) == f = [n \in 0..k |-> IF n = 0 THEN first ELSE NextLevel(graph, gamma, f[n - 1])]
           comm[n \in 0..20] == IF n = 0 THEN first ELSE NextLevel(graph, gamma, comm[n - 1])
<1>1. Partition(graph, gamma) = Parts(comm[20])
  BY Zenon DEF Partition
<1>2. \E f : Levels(f, 20)
  <2> DEFINE Bad == {k \in Nat : ~\E f : Levels(f, k)}
  <2>1. SUFFICES Bad = {}
    BY DEF Bad
  <2>2. SUFFICES ASSUME Bad # {} PROVE FALSE
    OBVIOUS
  <2>3. PICK k \in Bad : \A m \in Bad : k <= m
    <3> HIDE DEF Bad
    <3>1. Bad \in SUBSET Nat
      BY DEF Bad
    <3> QED
      BY <2>2, <3>1, LeastNumber
  <2>4. k \in Nat /\ ~\E f : Levels(f, k)
    BY DEF Bad
  <2>5. k # 0
    <3> DEFINE f == [n \in 0..0 |-> first]
    <3>1. Levels(f, 0)
      OBVIOUS
    <3> QED
      BY <2>4, <3>1
  <2>6. k - 1 \in Nat /\ k - 1 \notin Bad
    BY <2>3, <2>4, <2>5
  <2>7. PICK f : Levels(f, k - 1)
    BY <2>6 DEF Bad
  <2> DEFINE g == [n \in 0..k |-> IF n = k THEN NextLevel(graph, gamma, f[k - 1]) ELSE f[n]]
  <2>8. ASSUME NEW n \in 0..k
        PROVE  g[n] = IF n = 0 THEN first ELSE NextLevel(graph, gamma, g[n - 1])
    <3> HIDE DEF first
    <3>1. CASE n = k
      BY <2>4, <2>5, <3>1
    <3>2. CASE n # k
      <4>1. n \in 0..(k - 1) /\ (n # 0 => n - 1 \in 0..k /\ n - 1 # k)
        BY <2>4, <3>2
      <4>2. f[n] = IF n = 0 THEN first ELSE NextLevel(graph, gamma, f[n - 1])
        BY <2>7, <4>1
      <4> QED
        BY <4>1, <4>2, <3>2
    <3> QED
      BY <3>1, <3>2
  <2>9. Levels(g, k)
    <3> HIDE DEF first
    <3> QED
      BY <2>8
  <2> QED
    BY <2>4, <2>9
<1>3. comm = [n \in 0..20 |-> IF n = 0 THEN first ELSE NextLevel(graph, gamma, comm[n - 1])]
  <2> HIDE DEF first
  <2> QED
    BY <1>2, Zenon
<1>4. \A n \in 0..20 : DOMAIN comm[n] = DOMAIN graph
  <2> DEFINE Bad == {n \in 0..20 : DOMAIN comm[n] # DOMAIN graph}
  <2> HIDE DEF comm, first
  <2>1. SUFFICES ASSUME Bad # {} PROVE FALSE
    OBVIOUS
  <2>2. PICK n \in Bad : \A m \in Bad : n <= m
    <3>1. Bad \in SUBSET Nat
      OBVIOUS
    <3> HIDE DEF Bad
    <3> QED
      BY <2>1, <3>1, LeastNumber
  <2>3. n # 0
    BY <1>3, <2>2, TableIs DEF first
  <2>4. n \in 0..20 /\ n - 1 \in 0..20 /\ n - 1 \notin Bad
    BY <2>2, <2>3
  <2>5. DOMAIN comm[n - 1] = DOMAIN graph
    BY <2>4
  <2>6. comm[n] = NextLevel(graph, gamma, comm[n - 1])
    BY <1>3, <2>3, <2>4
  <2>7. DOMAIN comm[n] = DOMAIN comm[n - 1]
    BY <2>6, TableIs DEF NextLevel, Composed
  <2> QED
    BY <2>2, <2>5, <2>7
<1> HIDE DEF comm
<1> QED
  BY <1>1, <1>4

\* The parts of a graph are parts of its nodes, and no node is in two of them.
LEMMA PartitionApart ==
  ASSUME NEW graph, NEW gamma
  PROVE  /\ Partition(graph, gamma) \subseteq SUBSET DOMAIN graph
         /\ \A p, q \in Partition(graph, gamma) : p # q => p \cap q = {}
<1>1. PICK comm : Partition(graph, gamma) = Parts(comm) /\ DOMAIN comm = DOMAIN graph
  BY PartitionIsOfLevels
<1> QED
  BY <1>1, PartsApart

LEMMA InnerNodes == ASSUME NEW adjacency, NEW nodes PROVE DOMAIN Inner(adjacency, nodes) = nodes
BY TableIs DEF Inner

LEMMA SplitApart ==
  ASSUME NEW adjacency, NEW nodes, NEW level
  PROVE  /\ Split(adjacency, nodes, level) \subseteq SUBSET nodes
         /\ \A p, q \in Split(adjacency, nodes, level) : p # q => p \cap q = {}
<1> DEFINE parts == Partition(Inner(adjacency, nodes), Resolutions[level])
<1>1. parts \subseteq SUBSET nodes /\ \A p, q \in parts : p # q => p \cap q = {}
  BY PartitionApart, InnerNodes
<1>2. Cut(adjacency, nodes) \in SUBSET nodes
  BY DEF Cut
<1>3. Split(adjacency, nodes, level) \in {{nodes}, {Cut(adjacency, nodes)}, parts}
  BY DEF Split
<1> HIDE DEF parts
<1> QED
  BY <1>1, <1>2, <1>3

\* Pieces of pieces that are apart are apart.
LEMMA PiecesApart ==
  ASSUME NEW adjacency, NEW level, NEW S,
         \A p, q \in S : p # q => p \cap q = {}
  PROVE  LET pieces == UNION {Split(adjacency, nodes, level) : nodes \in S} IN
         /\ \A p \in pieces : \E nodes \in S : p \subseteq nodes
         /\ \A p, q \in pieces : p # q => p \cap q = {}
<1> DEFINE pieces == UNION {Split(adjacency, nodes, level) : nodes \in S}
<1>1. ASSUME NEW p \in pieces PROVE \E nodes \in S : p \in Split(adjacency, nodes, level) /\ p \subseteq nodes
  BY SplitApart
<1>2. ASSUME NEW p \in pieces, NEW q \in pieces, p # q PROVE p \cap q = {}
  <2>1. PICK m \in S : p \in Split(adjacency, m, level) /\ p \subseteq m
    BY <1>1
  <2>2. PICK n \in S : q \in Split(adjacency, n, level) /\ q \subseteq n
    BY <1>1
  <2>3. CASE m = n
    BY <1>2, <2>1, <2>2, <2>3, SplitApart
  <2>4. CASE m # n
    BY <2>1, <2>2, <2>4
  <2> QED
    BY <2>3, <2>4
<1> HIDE DEF pieces
<1> QED
  BY <1>1, <1>2 DEF pieces

\* No node is in two communities.
LEMMA CommunitiesApart ==
  ASSUME NEW adjacency
  PROVE  /\ Communities(adjacency) \subseteq SUBSET DOMAIN adjacency
         /\ \A p, q \in Communities(adjacency) : p # q => p \cap q = {}
<1>0. Len(Resolutions) \in Nat \ {0}
  BY CommunitiesAssumption
<1> DEFINE last == Len(Resolutions)
           Body(f, n) == IF n = 1 THEN Partition(adjacency, Resolutions[1])
                         ELSE UNION {Split(adjacency, nodes, n) : nodes \in f[n - 1]}
           Levels(f, k) == f = [level \in 1..k |->
                              IF level = 1 THEN Partition(adjacency, Resolutions[1])
                              ELSE UNION {Split(adjacency, nodes, level) : nodes \in f[level - 1]}]
           pieces[level \in 1..Len(Resolutions)] ==
             IF level = 1 THEN Partition(adjacency, Resolutions[1])
             ELSE UNION {Split(adjacency, nodes, level) : nodes \in pieces[level - 1]}
           final == {IF Cardinality(nodes) <= MaxSize THEN nodes ELSE Cut(adjacency, nodes) :
                       nodes \in pieces[Len(Resolutions)]}
<1>1. Communities(adjacency) = final
  BY DEF Communities
<1>2. \E f : Levels(f, last)
  <2> DEFINE Bad == {k \in Nat : k # 0 /\ ~\E f : Levels(f, k)}
  <2>1. SUFFICES Bad = {}
    BY <1>0 DEF Bad
  <2>2. SUFFICES ASSUME Bad # {} PROVE FALSE
    OBVIOUS
  <2>3. PICK k \in Bad : \A m \in Bad : k <= m
    <3> HIDE DEF Bad
    <3>1. Bad \in SUBSET Nat
      BY DEF Bad
    <3> QED
      BY <2>2, <3>1, LeastNumber
  <2>4. k \in Nat \ {0} /\ ~\E f : Levels(f, k)
    BY DEF Bad
  <2>5. k # 1
    <3> DEFINE g == [level \in 1..1 |-> Partition(adjacency, Resolutions[1])]
    <3>1. Levels(g, 1)
      OBVIOUS
    <3> QED
      BY <2>4, <3>1
  <2>6. k - 1 \in Nat \ {0} /\ k - 1 \notin Bad
    <3> HIDE DEF Bad
    <3>1. k - 1 \in Nat \ {0}
      BY <2>4, <2>5
    <3> QED
      BY <2>3, <2>4, <3>1
  <2>7. PICK f : Levels(f, k - 1)
    BY <2>6 DEF Bad
  <2> DEFINE g == [n \in 1..k |-> IF n = k THEN Body(f, k) ELSE f[n]]
  <2>8. ASSUME NEW n \in 1..k
        PROVE  g[n] = Body(g, n)
    <3>1. CASE n = k
      <4>1. k - 1 \in 1..k /\ k - 1 # k /\ g[k - 1] = f[k - 1]
        BY <2>4, <2>6
      <4>2. g[k] = Body(f, k)
        BY <2>4
      <4> HIDE DEF g
      <4> QED
        BY <4>1, <4>2, <2>5, <3>1
    <3>2. CASE n # k
      <4>1. n \in 1..(k - 1) /\ g[n] = f[n] /\ (n # 1 => g[n - 1] = f[n - 1])
        BY <2>4, <3>2
      <4>2. f[n] = Body(f, n)
        BY <2>7, <4>1
      <4> HIDE DEF g
      <4> QED
        BY <4>1, <4>2
    <3> QED
      BY <3>1, <3>2
  <2>9. Levels(g, k)
    <3>1. g = [n \in 1..k |-> g[n]]
      OBVIOUS
    <3> HIDE DEF g
    <3> QED
      BY <2>8, <3>1
  <2> QED
    BY <2>4, <2>9
<1>3. pieces = [level \in 1..Len(Resolutions) |-> Body(pieces, level)]
  BY <1>2, Zenon
<1> DEFINE Apart(n) == /\ pieces[n] \subseteq SUBSET DOMAIN adjacency
                       /\ \A p, q \in pieces[n] : p # q => p \cap q = {}
<1> HIDE DEF pieces
<1>4. \A n \in 1..last : Apart(n)
  <2> DEFINE Bad == {n \in 1..last : ~Apart(n)}
  <2>1. SUFFICES ASSUME Bad # {} PROVE FALSE
    OBVIOUS
  <2>2. PICK n \in Bad : \A m \in Bad : n <= m
    <3>1. Bad \in SUBSET Nat
      OBVIOUS
    <3> HIDE DEF Bad
    <3> QED
      BY <2>1, <3>1, LeastNumber
  <2>3. n \in 1..last /\ ~Apart(n)
    OBVIOUS
  <2>4. n # 1
    <3>1. CASE n = 1
      <4>1. pieces[1] = Partition(adjacency, Resolutions[1])
        BY <1>3, <2>3, <3>1
      <4> QED
        BY <2>3, <3>1, <4>1, PartitionApart
    <3> QED
      BY <3>1
  <2>5. n - 1 \in 1..last /\ Apart(n - 1)
    BY <2>2, <2>3, <2>4
  <2>6. pieces[n] = UNION {Split(adjacency, nodes, n) : nodes \in pieces[n - 1]}
    BY <1>3, <2>3, <2>4
  <2>7. /\ \A p \in pieces[n] : \E nodes \in pieces[n - 1] : p \subseteq nodes
        /\ \A p, q \in pieces[n] : p # q => p \cap q = {}
    BY <2>5, <2>6, PiecesApart
  <2> QED
    BY <2>3, <2>5, <2>7
<1>5. last \in 1..last /\ Apart(last)
  BY <1>0, <1>4
<1>6. \A p \in final : \E nodes \in pieces[last] : p \subseteq nodes /\
         p = IF Cardinality(nodes) <= MaxSize THEN nodes ELSE Cut(adjacency, nodes)
  BY DEF Cut
<1> HIDE DEF final
<1>7. ASSUME NEW p \in final, NEW q \in final, p # q PROVE p \cap q = {}
  <2>1. PICK m \in pieces[last] : p \subseteq m /\ p = IF Cardinality(m) <= MaxSize THEN m ELSE Cut(adjacency, m)
    BY <1>6
  <2>2. PICK n \in pieces[last] : q \subseteq n /\ q = IF Cardinality(n) <= MaxSize THEN n ELSE Cut(adjacency, n)
    BY <1>6
  <2>3. m # n
    BY <1>7, <2>1, <2>2
  <2> QED
    BY <1>5, <2>1, <2>2, <2>3
<1>8. final \subseteq SUBSET DOMAIN adjacency
  BY <1>5, <1>6
<1> QED
  BY <1>1, <1>7, <1>8

LEMMA KeptPairs == ASSUME NEW strengths, NEW pairs PROVE Kept(strengths, pairs) \subseteq pairs
BY DEF Kept

LEMMA LinksAreOfNodes ==
  ASSUME NEW nodes, NEW says, NEW means
  PROVE  DOMAIN Adjacency(Linked(nodes, says, means)) \subseteq nodes
<1> DEFINE links == Linked(nodes, says, means)
           pairs == {p \in nodes \X nodes : Path[p[1]] < Path[p[2]]}
           signals(p) == Signals(p[1], p[2], says[p[1]], says[p[2]], means[p[1]], means[p[2]])
           strengths == Table([p \in pairs |-> Strength(signals(p), p \in Near)])
           strong == {p \in pairs : strengths[p] >= LinkMin}
<1>1. DOMAIN links \subseteq nodes \X nodes
  <2>1. strong \subseteq nodes \X nodes
    OBVIOUS
  <2>2. links = Table([p \in Kept(strengths, strong) |-> strengths[p]])
    BY DEF Linked
  <2> HIDE DEF links, strengths, strong
  <2>3. DOMAIN links = Kept(strengths, strong)
    BY <2>2, TableIs
  <2> QED
    BY <2>1, <2>3, KeptPairs
<1> HIDE DEF links
<1>2. DOMAIN Adjacency(links) = UNION {{p[1], p[2]} : p \in DOMAIN links}
  BY TableIs DEF Adjacency
<1>3. \A p \in DOMAIN links : p[1] \in nodes /\ p[2] \in nodes
  BY <1>1
<1> QED
  BY <1>2, <1>3 DEF links

\* The groups of a run are of files that it read, and no file is in two of them.
LEMMA GroupsApart ==
  ASSUME NEW says, NEW means, DOMAIN says \subseteq DOMAIN Path
  PROVE  /\ GroupsOf(says, means) \subseteq SUBSET DOMAIN says
         /\ \A a, b \in GroupsOf(says, means) : a # b => a \cap b = {}
<1> DEFINE files == {f \in DOMAIN says : says[f] \in DOMAIN RefersTo}
           nodes == Nodes(files)
           links == Linked(nodes, says, means)
           parts == Communities(Adjacency(links))
<1>1. \A a \in GroupsOf(says, means) : \E p \in parts : a = Members(p, files)
  BY DEF GroupsOf
<1>2. parts \subseteq SUBSET nodes /\ \A p, q \in parts : p # q => p \cap q = {}
  <2>1. DOMAIN Adjacency(links) \subseteq nodes
    BY LinksAreOfNodes
  <2> HIDE DEF links, nodes
  <2> QED
    BY <2>1, CommunitiesApart
<1>3. \A p : Members(p, files) \in SUBSET DOMAIN says
  BY DEF Members
<1>4. ASSUME NEW n \in nodes, NEW m \in nodes, Copy[n] = Copy[m] PROVE n = m
  <2>1. n \in DOMAIN says /\ m \in DOMAIN says /\ Path[n] <= Path[m] /\ Path[m] <= Path[n]
    BY <1>4 DEF Nodes
  <2>2. /\ Path[n] \in Nat /\ Path[m] \in Nat
        /\ Path[n] = Path[m] => n = m
    BY <2>1, CommunitiesAssumption
  <2> QED
    BY <2>1, <2>2
<1>5. ASSUME NEW a \in GroupsOf(says, means), NEW b \in GroupsOf(says, means), NEW f \in a \cap b PROVE a = b
  <2>1. PICK p \in parts : a = Members(p, files)
    BY <1>1
  <2>2. PICK q \in parts : b = Members(q, files)
    BY <1>1
  <2>3. PICK n \in p : Copy[n] = Copy[f]
    BY <2>1 DEF Members
  <2>4. PICK m \in q : Copy[m] = Copy[f]
    BY <2>2 DEF Members
  <2>5. n = m
    <3> HIDE DEF parts, nodes
    <3> QED
      BY <1>2, <1>4, <2>3, <2>4
  <2>6. p = q
    <3> HIDE DEF parts, nodes
    <3> QED
      BY <1>2, <2>5
  <2> QED
    BY <2>1, <2>2, <2>6
<1>6. GroupsOf(says, means) \subseteq SUBSET DOMAIN says
  BY <1>1, <1>3, Zenon
<1>7. \A a, b \in GroupsOf(says, means) : a # b => a \cap b = {}
  BY <1>5
<1> QED
  BY <1>6, <1>7

-------------------------------------------------------------------------------
(* Matching and rewriting.                                                  *)

LEMMA IdFacts == IsFiniteSet(Ids) /\ Ids \subseteq Nat \ {0} /\ 0 \notin Ids
<1>1. IsFiniteSet(Ids) /\ Ids = 1..Cardinality(Ids)
  BY DiscoveryAssumption
<1>2. Cardinality(Ids) \in Nat
  BY <1>1, FS_CardinalityType
<1> QED
  BY <1>1, <1>2

\* A group that shares half its files with one of two that are apart shares at
\* most half with the other.
LEMMA SharedOnce ==
  ASSUME NEW K, NEW L, NEW J, IsFiniteSet(K), IsFiniteSet(L), IsFiniteSet(J),
         K \cap L = {}, Alike(L, J, 5)
  PROVE  2 * Cardinality(K \cap J) <= Cardinality(K \cup J)
<1>1. /\ IsFiniteSet(K \cap J) /\ IsFiniteSet(L \cap J) /\ IsFiniteSet(K \cup J) /\ IsFiniteSet(L \cup J)
      /\ IsFiniteSet((K \cap J) \cup (L \cap J))
  <2>1. K \cap J \in SUBSET J /\ L \cap J \in SUBSET J /\ (K \cap J) \cup (L \cap J) \in SUBSET J
    OBVIOUS
  <2> QED
    BY <2>1, FS_Subset, FS_Union
<1>2. Cardinality(K \cap J) + Cardinality(L \cap J) = Cardinality((K \cap J) \cup (L \cap J))
  <2>1. (K \cap J) \cap (L \cap J) = {}
    OBVIOUS
  <2>2. Cardinality((K \cap J) \cup (L \cap J))
          = Cardinality(K \cap J) + Cardinality(L \cap J) - Cardinality((K \cap J) \cap (L \cap J))
    BY <1>1, FS_Union
  <2>3. Cardinality((K \cap J) \cap (L \cap J)) = 0
    BY <2>1, FS_EmptySet
  <2>4. Cardinality(K \cap J) \in Nat /\ Cardinality(L \cap J) \in Nat
    BY <1>1, FS_CardinalityType
  <2>5. Cardinality((K \cap J) \cup (L \cap J)) = Cardinality(K \cap J) + Cardinality(L \cap J) - 0
    BY <2>2, <2>3
  <2> QED
    BY <2>4, <2>5
<1>3. Cardinality((K \cap J) \cup (L \cap J)) <= Cardinality(J)
  BY FS_Subset, (K \cap J) \cup (L \cap J) \in SUBSET J
<1>4. Cardinality(J) <= Cardinality(K \cup J) /\ Cardinality(J) <= Cardinality(L \cup J)
  BY <1>1, FS_Subset, J \in SUBSET (K \cup J), J \in SUBSET (L \cup J)
<1>5. /\ Cardinality(K \cap J) \in Nat /\ Cardinality(L \cap J) \in Nat /\ Cardinality(J) \in Nat
      /\ Cardinality(K \cup J) \in Nat /\ Cardinality(L \cup J) \in Nat
      /\ Cardinality((K \cap J) \cup (L \cap J)) \in Nat
  BY <1>1, FS_CardinalityType
<1>6. 10 * Cardinality(L \cap J) >= 5 * Cardinality(L \cup J)
  BY DEF Alike
<1> QED
  BY <1>2, <1>3, <1>4, <1>5, <1>6

\* There is room: a set no larger than another one fits in.
LEMMA Fits ==
  ASSUME NEW S, NEW T, IsFiniteSet(S), IsFiniteSet(T), Cardinality(S) <= Cardinality(T)
  PROVE  \E f \in [S -> T] : \A a, b \in S : f[a] = f[b] => a = b
<1> DEFINE n == Cardinality(S)
           m == Cardinality(T)
<1>1. /\ n \in Nat /\ m \in Nat
      /\ ExistsBijection(1..n, S) /\ ExistsBijection(1..m, T)
  BY FS_CardinalityType
<1> HIDE DEF n, m
<1>2. ExistsBijection(S, 1..n)
  BY <1>1, Fun_ExistsBijSymmetric
<1>3. PICK g : g \in Bijection(S, 1..n)
  BY <1>2 DEF ExistsBijection
<1>4. PICK h : h \in Bijection(1..m, T)
  BY <1>1 DEF ExistsBijection
<1>5. g \in [S -> 1..n] /\ \A a, b \in S : g[a] = g[b] => a = b
  BY <1>3 DEF Bijection, Injection, IsInjective
<1>6. h \in [1..m -> T] /\ \A a, b \in 1..m : h[a] = h[b] => a = b
  BY <1>4 DEF Bijection, Injection, IsInjective
<1>7. 1..n \subseteq 1..m
  BY <1>1 DEF n, m
<1>8. [a \in S |-> h[g[a]]] \in [S -> T]
  BY <1>5, <1>6, <1>7
<1>9. \A a, b \in S : h[g[a]] = h[g[b]] => a = b
  BY <1>5, <1>6, <1>7
<1> QED
  BY <1>8, <1>9

\* A match takes no stored group twice, and passes over none that is alike
\* unless another took it.
LEMMA MatchFacts ==
  ASSUME NEW found, NEW rows, NEW match \in Matches(found, rows)
  PROVE  /\ match \in [found -> {0} \cup Stored(rows)]
         /\ \A k, l \in found : k # l /\ match[k] = match[l] => match[k] = 0
         /\ \A k \in found : match[k] # 0 => Alike(k, rows[match[k]].keys, 5)
         /\ \A k \in found, j \in Stored(rows) :
              match[k] = 0 /\ Alike(k, rows[j].keys, 5) => \E l \in found : l # k /\ match[l] = j
<1>1. match \in [found -> {0} \cup Stored(rows)]
  BY DEF Matches
<1> DEFINE used(o, k) == {match[l] : l \in {l \in found : o[l] < o[k]}}
<1>2. PICK o \in Orders(found) : \A k \in found : match[k] \in Closest(k, rows, used(o, k))
  BY DEF Matches
<1>3. /\ \A k \in found : o[k] \in Int
      /\ \A k, l \in found : o[k] = o[l] => k = l
  BY DEF Orders
<1>4. 0 \notin Stored(rows)
  BY IdFacts DEF Stored
<1>5. ASSUME NEW k \in found
      PROVE  \/ match[k] = 0 /\ Recognised(k, rows, used(o, k)) = {}
             \/ match[k] # 0 /\ match[k] \in Recognised(k, rows, used(o, k))
  <2>1. match[k] \in Closest(k, rows, used(o, k))
    BY <1>2
  <2>2. 0 \notin Recognised(k, rows, used(o, k))
    BY <1>4 DEF Recognised
  <2> HIDE DEF used
  <2> QED
    BY <2>1, <2>2 DEF Closest
<1>6. ASSUME NEW k \in found, NEW l \in found, o[k] < o[l], match[k] = match[l]
      PROVE  match[l] = 0
  <2>1. match[l] \in used(o, l)
    BY <1>6
  <2> QED
    BY <1>5, <2>1 DEF Recognised
<1>7. ASSUME NEW k \in found, NEW l \in found, k # l, match[k] = match[l]
      PROVE  match[k] = 0
  <2>1. o[k] < o[l] \/ o[l] < o[k]
    BY <1>3, <1>7
  <2> QED
    BY <1>6, <1>7, <2>1
<1>8. ASSUME NEW k \in found, match[k] # 0 PROVE Alike(k, rows[match[k]].keys, 5)
  BY <1>5, <1>8 DEF Recognised
<1>9. ASSUME NEW k \in found, NEW j \in Stored(rows), match[k] = 0, Alike(k, rows[j].keys, 5)
      PROVE  \E l \in found : l # k /\ match[l] = j
  <2>1. j \in used(o, k)
    BY <1>5, <1>9 DEF Recognised
  <2>2. PICK l \in found : o[l] < o[k] /\ match[l] = j
    BY <2>1
  <2>3. l # k
    BY <1>3, <2>2
  <2> QED
    BY <2>2, <2>3
<1> QED
  BY <1>1, <1>7, <1>8, <1>9

\* Every new group has a place of its own: that of the group it is, or a free one.
LEMMA PlacesAreApart ==
  ASSUME NEW found, IsFiniteSet(found), NEW rows, NEW match \in Matches(found, rows),
         Cardinality(New(match)) <= Cardinality(Free(rows))
  PROVE  /\ \A k \in found : /\ Places(rows, match)[k] \in Ids
                             /\ match[k] = 0 => rows[Places(rows, match)[k]] = NoGroup
                             /\ match[k] # 0 => Places(rows, match)[k] = match[k]
         /\ \A k, l \in found : Places(rows, match)[k] = Places(rows, match)[l] => k = l
<1> DEFINE fresh == CHOOSE id \in [New(match) -> Free(rows)] : \A a, b \in New(match) : id[a] = id[b] => a = b
           place == Places(rows, match)
<1>1. match \in [found -> {0} \cup Stored(rows)] /\ DOMAIN match = found
  BY MatchFacts
<1>2. New(match) = {k \in found : match[k] = 0}
  BY <1>1 DEF New
<1>3. \E id \in [New(match) -> Free(rows)] : \A a, b \in New(match) : id[a] = id[b] => a = b
  <2>1. IsFiniteSet(New(match))
    BY <1>2, FS_Subset
  <2>2. Free(rows) \in SUBSET Ids
    BY DEF Free
  <2>3. IsFiniteSet(Free(rows))
    BY <2>2, IdFacts, FS_Subset
  <2> QED
    BY <2>1, <2>3, Fits
<1>4. fresh \in [New(match) -> Free(rows)] /\ \A a, b \in New(match) : fresh[a] = fresh[b] => a = b
  BY <1>3, Zenon
<1>5. place = [k \in found |-> IF match[k] = 0 THEN fresh[k] ELSE match[k]]
  BY <1>1 DEF Places
<1> HIDE DEF fresh, place
<1>6. ASSUME NEW k \in found, match[k] = 0
      PROVE  place[k] = fresh[k] /\ fresh[k] \in Ids /\ rows[fresh[k]] = NoGroup
  BY <1>2, <1>4, <1>5, <1>6 DEF Free
<1>7. ASSUME NEW k \in found, match[k] # 0
      PROVE  place[k] = match[k] /\ match[k] \in Ids /\ rows[match[k]] # NoGroup
  BY <1>1, <1>5, <1>7 DEF Stored
<1>8. ASSUME NEW k \in found, NEW l \in found, place[k] = place[l] PROVE k = l
  <2>1. CASE match[k] = 0 /\ match[l] = 0
    BY <1>2, <1>4, <1>6, <1>8, <2>1
  <2>2. CASE match[k] # 0 /\ match[l] # 0
    BY <1>7, <1>8, <2>2, MatchFacts
  <2>3. CASE ~(match[k] = 0 <=> match[l] = 0)
    BY <1>6, <1>7, <1>8, <2>3
  <2> QED
    BY <2>1, <2>2, <2>3
<1> QED
  BY <1>6, <1>7, <1>8 DEF place

LEMMA GroupTypes ==
  /\ NoGroup.status = "none" /\ NoGroup.keys = {} /\ NoGroup \notin Group
  /\ NoGroups \in Groups /\ \A i \in Ids : NoGroups[i] = NoGroup
<1>1. NoGroup.status = "none" /\ NoGroup.keys = {}
  BY DEF NoGroup
<1>2. \A g \in Group : g.status \in Statuses
  BY DEF Group
<1>3. "none" \notin Statuses
  BY DEF Statuses
<1> QED
  BY <1>1, <1>2, <1>3 DEF NoGroups, Groups

\* What a new group becomes where it takes its place.
LEMMA ProposedRow ==
  ASSUME NEW row \in Group \cup {NoGroup}, NEW keys \in SUBSET Files
  PROVE  /\ Proposed(row, keys) \in Group \cup {NoGroup}
         /\ Proposed(row, keys) # NoGroup => Proposed(row, keys).keys = keys
         /\ Proposed(row, keys) # NoGroup =>
              row = NoGroup \/ (row.status = "proposed" /\ Proposed(row, keys) = Again(row, keys))
<1>1. CASE row = NoGroup
  BY <1>1 DEF Proposed, Group, Statuses
<1>2. CASE row # NoGroup
  <2>1. row \in Group /\ row.by \in {"auto", "ai", "you"}
    BY <1>2 DEF Group
  <2>2. Again(row, keys) \in Group /\ Again(row, keys).keys = keys
    BY <2>1 DEF Again, Group, Statuses
  <2>3. Proposed(row, keys) = IF row.status = "proposed" THEN Again(row, keys) ELSE NoGroup
    BY <1>2 DEF Proposed
  <2> QED
    BY <2>1, <2>2, <2>3
<1> QED
  BY <1>1, <1>2

\* What a run writes: each row is of one new group, in the place it took.
LEMMA RewrittenRows ==
  ASSUME NEW found \in SUBSET SUBSET Files, NEW rows \in Groups, NEW match \in Matches(found, rows),
         Cardinality(New(match)) <= Cardinality(Free(rows))
  PROVE  /\ Rewritten(rows, match) \in Groups
         /\ \A i \in Ids : Rewritten(rows, match)[i] # NoGroup =>
              /\ Rewritten(rows, match)[i].keys \in found
              /\ Places(rows, match)[Rewritten(rows, match)[i].keys] = i
              /\ \/ rows[i] = NoGroup
                 \/ /\ rows[i].status = "proposed"
                    /\ Rewritten(rows, match)[i] = Again(rows[i], Rewritten(rows, match)[i].keys)
<1> DEFINE place == Places(rows, match)
           new(i) == {keys \in found : place[keys] = i}
           is(i) == CHOOSE keys \in new(i) : TRUE
<1>1. DOMAIN match = found
  BY MatchFacts
<1>2. Rewritten(rows, match) = [i \in Ids |-> IF new(i) = {} THEN NoGroup ELSE Proposed(rows[i], is(i))]
  BY <1>1 DEF Rewritten
<1>3. \A i \in Ids : new(i) # {} => is(i) \in new(i)
  BY Zenon
<1> HIDE DEF place, is
<1>4. ASSUME NEW i \in Ids
      PROVE  /\ Rewritten(rows, match)[i] \in Group \cup {NoGroup}
             /\ Rewritten(rows, match)[i] # NoGroup =>
                  /\ Rewritten(rows, match)[i].keys \in found
                  /\ place[Rewritten(rows, match)[i].keys] = i
                  /\ \/ rows[i] = NoGroup
                     \/ /\ rows[i].status = "proposed"
                        /\ Rewritten(rows, match)[i] = Again(rows[i], Rewritten(rows, match)[i].keys)
  <2>1. CASE new(i) = {}
    BY <1>2, <2>1
  <2>2. CASE new(i) # {}
    <3>1. is(i) \in found /\ place[is(i)] = i
      BY <1>3, <2>2
    <3>2. is(i) \in SUBSET Files /\ rows[i] \in Group \cup {NoGroup}
      BY <3>1 DEF Groups
    <3>3. Rewritten(rows, match)[i] = Proposed(rows[i], is(i))
      BY <1>2, <2>2
    <3> QED
      BY <3>1, <3>2, <3>3, ProposedRow
  <2> QED
    BY <2>1, <2>2
<1> QED
  BY <1>2, <1>4 DEF Groups, place

\* What is proposed anew is alike to no stored group, and no file is proposed twice.
LEMMA NewIsNew ==
  ASSUME NEW found \in SUBSET SUBSET Files, \A k, l \in found : k # l => k \cap l = {},
         NEW rows \in Groups, NEW match \in Matches(found, rows),
         Cardinality(New(match)) <= Cardinality(Free(rows)),
         NEW i \in Ids, Rewritten(rows, match)[i] # NoGroup
  PROVE  /\ rows[i] = NoGroup => \A j \in Stored(rows) :
              2 * Cardinality(Rewritten(rows, match)[i].keys \cap rows[j].keys)
                <= Cardinality(Rewritten(rows, match)[i].keys \cup rows[j].keys)
         /\ \A j \in Ids \ {i} : Rewritten(rows, match)[j] # NoGroup =>
              Rewritten(rows, match)[i].keys \cap Rewritten(rows, match)[j].keys = {}
<1> DEFINE K == Rewritten(rows, match)[i].keys
           place == Places(rows, match)
<1>0. IsFiniteSet(Files) /\ IsFiniteSet(found)
  <2>1. IsFiniteSet(Files)
    BY FileVectorsAssumption
  <2>2. IsFiniteSet(SUBSET Files)
    BY <2>1, FS_SUBSET
  <2> QED
    BY <2>1, <2>2, FS_Subset
<1>1. K \in found /\ place[K] = i
  BY RewrittenRows
<1>2. /\ \A k \in found : (match[k] = 0 => rows[place[k]] = NoGroup) /\ (match[k] # 0 => place[k] = match[k])
      /\ \A k, l \in found : place[k] = place[l] => k = l
  BY <1>0, PlacesAreApart
<1>3. \A S \in SUBSET Files : IsFiniteSet(S)
  BY <1>0, FS_Subset
<1>4. \A j \in Stored(rows) : j \in Ids /\ rows[j].keys \in SUBSET Files
  BY DEF Stored, Groups, Group
<1> HIDE DEF K, place
<1>5. ASSUME rows[i] = NoGroup, NEW j \in Stored(rows)
      PROVE  2 * Cardinality(K \cap rows[j].keys) <= Cardinality(K \cup rows[j].keys)
  <2>1. match[K] = 0
    <3>1. match \in [found -> {0} \cup Stored(rows)]
      BY MatchFacts
    <3> QED
      BY <1>1, <1>2, <1>5, <3>1 DEF Stored
  <2>2. CASE Alike(K, rows[j].keys, 5)
    <3>1. PICK l \in found : l # K /\ match[l] = j
      BY <1>1, <2>1, <2>2, MatchFacts
    <3>2. match[l] # 0
      BY <1>4, <3>1, IdFacts
    <3>3. Alike(l, rows[j].keys, 5)
      BY <3>1, <3>2, MatchFacts
    <3>4. K \cap l = {} /\ IsFiniteSet(K) /\ IsFiniteSet(l) /\ IsFiniteSet(rows[j].keys)
      BY <1>1, <1>3, <1>4, <3>1
    <3> QED
      BY <3>3, <3>4, SharedOnce
  <2>3. CASE ~Alike(K, rows[j].keys, 5)
    <3>1. K \cap rows[j].keys \in SUBSET Files /\ K \cup rows[j].keys \in SUBSET Files
      BY <1>1, <1>4
    <3>2. Cardinality(K \cap rows[j].keys) \in Nat /\ Cardinality(K \cup rows[j].keys) \in Nat
      BY <1>3, <3>1, FS_CardinalityType
    <3> QED
      BY <2>3, <3>2 DEF Alike
  <2> QED
    BY <2>2, <2>3
<1>6. ASSUME NEW j \in Ids \ {i}, Rewritten(rows, match)[j] # NoGroup
      PROVE  K \cap Rewritten(rows, match)[j].keys = {}
  <2>1. Rewritten(rows, match)[j].keys \in found /\ place[Rewritten(rows, match)[j].keys] = j
    BY <1>6, RewrittenRows DEF place
  <2> QED
    BY <1>1, <2>1
<1> QED
  BY <1>5, <1>6 DEF K

LEMMA FoundFacts ==
  ASSUME NEW says \in Meanings, NEW means \in Meanings
  PROVE  /\ Found(says, means) \in SUBSET SUBSET Files
         /\ \A a, b \in Found(says, means) : a # b => a \cap b = {}
<1>1. DOMAIN says = Files /\ Files \subseteq DOMAIN Path
  BY DiscoveryAssumption DEF Meanings
<1>2. Found(says, means) = GroupsOf(says, means)
  <2>1. Known = [read \in Possible \X Possible |-> GroupsOf(read[1], read[2])]
    BY TableIs DEF Known
  <2>2. ASSUME says \in Possible, means \in Possible PROVE Known[<<says, means>>] = GroupsOf(says, means)
    BY <2>1, <2>2
  <2> QED
    BY <2>2 DEF Found
<1> QED
  BY <1>1, <1>2, GroupsApart

-------------------------------------------------------------------------------
(* The run, the owner and the merges.                                       *)

\* No file is in two groups of one run.
FoundApart == run.at = "reconcile" => \A a, b \in run.found : a # b => a \cap b = {}

\* Only a row that is there is named.
NamesSomeone == run.at \in {"llm", "name"} => run.id \in Ids

\* A row about to be named was left alone by the owner, or acted on since.
NamedStands == run.at = "name" => run.id \in acted \/ groups[run.id] = NoGroup \/ groups[run.id].by = "auto"

\* The rows are still as the run read them, where nobody acted on them since.
PriorStands == run.at = "save" => \A i \in Ids \ acted : groups[i] = run.prior[i]

\* A run writes where nothing was, or a proposal again.
RowsAreProposed ==
  run.at = "save" => \A i \in Ids : run.rows[i] # NoGroup =>
    \/ run.prior[i] = NoGroup
    \/ run.prior[i].status = "proposed" /\ run.rows[i] = Again(run.prior[i], run.rows[i].keys)

RunInv == FoundApart /\ NamesSomeone /\ NamedStands /\ PriorStands /\ RowsAreProposed /\ NewMeansNew

Scopes == [known: BOOLEAN, enabled: BOOLEAN, requested: BOOLEAN, finished: BOOLEAN, error: BOOLEAN, seq: Nat]
Merging == [at: {"idle", "save", "mark"}, ids: SUBSET Ids, keys: SUBSET Files, by: {"auto", "you"}]

\* TypeOK without the vectors.
RestTypeOK ==
  /\ scope \in Scopes
  /\ groups \in Groups
  /\ run \in Thread
  /\ merging \in Merging
  /\ left \in [Bounds -> 0..MaxLoad]
  /\ target \in BOOLEAN /\ paused \in BOOLEAN /\ old \in BOOLEAN /\ asked \in BOOLEAN
  /\ acted \in SUBSET Ids
  /\ basis \in Meanings

DiscoveryInv == VectorsInv /\ RestTypeOK /\ RunInv

-------------------------------------------------------------------------------
(* What the steps do to the files and the vectors is what FileVectors lets  *)
(* them do.                                                                 *)

LEMMA VectorSteps == [Next]_vars => [VectorsNext]_vectorVars
<1> SUFFICES ASSUME [Next]_vars PROVE [VectorsNext]_vectorVars
  OBVIOUS
<1> USE DEF VectorsNext
<1>1. ASSUME NEW f \in Changing, NEW t \in Texts \cup {None}, Index(f, t) PROVE VectorsNext
  BY <1>1, DiscoveryAssumption DEF Index
<1>2. ASSUME NEW f \in Changing, NEW g \in Changing, Rename(f, g) PROVE VectorsNext
  BY <1>2, DiscoveryAssumption DEF Rename
<1>3. ASSUME Vectors PROVE VectorsNext
  BY <1>3 DEF Vectors
<1>4. ASSUME Purge PROVE VectorsNext
  BY <1>4 DEF Purge
<1>5. ASSUME Switch \/ Day \/ Ask \/ Disable \/ MergeSave \/ MergeMark \/ Fail PROVE UNCHANGED vectorVars
  BY <1>5 DEF Switch, Day, Ask, Disable, MergeSave, MergeMark, Fail
<1>6. ASSUME NEW i \in Ids, Name(i) \/ \E status \in Statuses \ {"merged"} : Decide(i, status)
      PROVE  UNCHANGED vectorVars
  BY <1>6 DEF Name, Decide, Change
<1>7. ASSUME NEW ids \in SUBSET Ids, NEW named \in BOOLEAN, Merge(ids, named) PROVE UNCHANGED vectorVars
  BY <1>7 DEF Merge
<1>8. ASSUME ThreadStep PROVE [VectorsNext]_vectorVars
  <2>1. CASE Compare
    BY <2>1 DEF Compare, Refresh
  <2>2. CASE ~Compare
    BY <1>8, <2>2 DEF ThreadStep, Look, Start, ReadTexts, Reconcile, Save, Mark, ListNames, AskName, Answer, WriteName
  <2> QED
    BY <2>1, <2>2
<1>9. ASSUME Restart \/ Crash PROVE VectorsNext
  BY <1>9 DEF Restart, Crash
<1>10. ASSUME UNCHANGED vars PROVE UNCHANGED vectorVars
  BY <1>10 DEF vars
<1> QED
  BY <1>1, <1>2, <1>3, <1>4, <1>5, <1>6, <1>7, <1>8, <1>9, <1>10 DEF Next

-------------------------------------------------------------------------------
(* What a step may do to the rows, wherever the thread is.                  *)

\* Rows change only where they are acted on, and the thread stands still.
Acts ==
  /\ run' = run
  /\ groups' \in Groups
  /\ acted' \in SUBSET Ids /\ acted \subseteq acted'
  /\ \A i \in Ids \ acted' : groups'[i] = groups[i]

LEMMA ActsKeep == DiscoveryInv /\ Acts => RunInv'
<1> SUFFICES ASSUME DiscoveryInv, Acts PROVE RunInv'
  OBVIOUS
<1> USE DEF DiscoveryInv, RunInv, Acts
<1>1. FoundApart' /\ NamesSomeone' /\ RowsAreProposed' /\ NewMeansNew'
  BY DEF FoundApart, NamesSomeone, RowsAreProposed, NewMeansNew
<1>2. NamedStands'
  <2> SUFFICES ASSUME run.at = "name", run.id \notin acted'
               PROVE  groups'[run.id] = NoGroup \/ groups'[run.id].by = "auto"
    BY DEF NamedStands
  <2>1. run.id \in Ids \ acted'
    BY DEF NamesSomeone
  <2>2. groups'[run.id] = groups[run.id] /\ run.id \notin acted
    BY <2>1
  <2> QED
    BY <2>2 DEF NamedStands
<1>3. PriorStands'
  BY DEF PriorStands
<1> QED
  BY <1>1, <1>2, <1>3

\* The thread goes where it holds nothing of the rows.
LEMMA Elsewhere == run'.at \notin {"reconcile", "save", "llm", "name"} => RunInv'
BY DEF RunInv, FoundApart, NamesSomeone, NamedStands, PriorStands, RowsAreProposed, NewMeansNew

LEMMA RestingTypes ==
  /\ Resting \in Thread /\ Resting.at = "idle"
  /\ NoScope \in Scopes /\ NoMerge \in Merging
  /\ \A at \in {"idle", "begin", "list"} : [Resting EXCEPT !.at = at] \in Thread /\ [Resting EXCEPT !.at = at].at = at
<1>1. Nothing \in Meanings /\ NoGroups \in Groups
  BY PassTypes, GroupTypes
<1> QED
  BY <1>1 DEF Resting, Thread, NoScope, Scopes, NoMerge, Merging

LEMMA UseTypes ==
  ASSUME left \in [Bounds -> 0..MaxLoad], NEW bound \in Bounds, Use(bound)
  PROVE  left' \in [Bounds -> 0..MaxLoad]
<1>1. left[bound] \in 0..MaxLoad /\ left[bound] > 0 /\ MaxLoad \in Nat
  BY DiscoveryAssumption DEF Use
<1>2. left[bound] - 1 \in 0..MaxLoad
  BY <1>1
<1>3. left' = [left EXCEPT ![bound] = left[bound] - 1]
  BY DEF Use
<1> QED
  BY <1>2, <1>3

\* A group with another status, or another name.
LEMMA RowTypes ==
  ASSUME NEW row \in Group
  PROVE  /\ \A status \in Statuses : [row EXCEPT !.status = status] \in Group
         /\ \A by \in {"auto", "ai", "you"} : [row EXCEPT !.by = by] \in Group
BY DEF Group

LEMMA ChangedGroups ==
  ASSUME groups \in Groups, NEW i \in Ids, NEW row \in Group \cup {NoGroup}
  PROVE  [groups EXCEPT ![i] = row] \in Groups /\ \A j \in Ids \ {i} : [groups EXCEPT ![i] = row][j] = groups[j]
BY DEF Groups

-------------------------------------------------------------------------------
(* The steps of the files, the owner and the merges.                        *)

\* Everything the rest of a step keeps.
RestKept == RestTypeOK' /\ RunInv'

LEMMA FileSteps ==
  ASSUME DiscoveryInv,
         \/ \E f \in Changing : (\E t \in Texts \cup {None} : Index(f, t)) \/ (\E g \in Changing : Rename(f, g))
         \/ Vectors \/ Switch \/ Day \/ Ask \/ Disable
  PROVE  RestKept /\ UNCHANGED groups
<1> USE DEF DiscoveryInv, RestTypeOK
<1>1. UNCHANGED <<groups, run, merging, acted, basis>>
  BY DEF Index, Rename, Vectors, Switch, Day, Ask, Disable, engine
<1>2. left' \in [Bounds -> 0..MaxLoad]
  BY UseTypes DEF Index, Rename, Vectors, Switch, Day, Ask, Disable, Bounds
<1>3. target' \in BOOLEAN /\ paused' \in BOOLEAN /\ old' \in BOOLEAN /\ asked' \in BOOLEAN /\ scope' \in Scopes
  BY DEF Index, Rename, Vectors, Switch, Day, Ask, Disable, engine, outside, Scopes
<1>4. RunInv'
  BY <1>1, ActsKeep DEF Acts
<1> QED
  BY <1>1, <1>2, <1>3, <1>4 DEF RestKept

LEMMA PurgeStep == DiscoveryInv /\ Purge => RestKept /\ Acts
<1> SUFFICES ASSUME DiscoveryInv, Purge PROVE RestKept /\ Acts
  OBVIOUS
<1> USE DEF DiscoveryInv, RestTypeOK
<1>1. /\ target' = FALSE /\ scope' = NoScope /\ asked' = FALSE
      /\ groups' = NoGroups /\ acted' = Ids /\ basis' = Nothing
      /\ UNCHANGED <<run, old, paused, merging>>
  BY DEF Purge
<1>2. left' \in [Bounds -> 0..MaxLoad]
  BY UseTypes DEF Purge, Bounds
<1>3. Acts
  BY <1>1, GroupTypes DEF Acts
<1>4. RunInv'
  BY <1>3, ActsKeep
<1> QED
  BY <1>1, <1>2, <1>3, <1>4, RestingTypes, GroupTypes, PassTypes DEF RestKept

LEMMA ChangeStep ==
  ASSUME DiscoveryInv, NEW i \in Ids, Name(i) \/ \E status \in Statuses \ {"merged"} : Decide(i, status)
  PROVE  RestKept /\ Acts
<1> USE DEF DiscoveryInv, RestTypeOK
<1>1. PICK row \in Group \cup {NoGroup} : Change(i, row)
  <2>1. groups[i] \in Group
    BY DEF Name, Decide, Change, Groups
  <2> QED
    BY <2>1, RowTypes DEF Name, Decide
<1>2. /\ groups' = [groups EXCEPT ![i] = row] /\ acted' = acted \cup {i}
      /\ UNCHANGED <<engine, outside, merging>>
  BY <1>1 DEF Change
<1>3. left' \in [Bounds -> 0..MaxLoad]
  BY <1>1, UseTypes DEF Change, Bounds
<1>4. Acts
  BY <1>2, ChangedGroups DEF Acts, engine
<1>5. RunInv'
  BY <1>4, ActsKeep
<1> QED
  BY <1>2, <1>3, <1>4, <1>5 DEF RestKept, engine, outside, Acts

LEMMA MergeStep ==
  ASSUME DiscoveryInv, NEW ids \in SUBSET Ids, NEW named \in BOOLEAN, Merge(ids, named)
  PROVE  RestKept /\ Acts
<1> USE DEF DiscoveryInv, RestTypeOK
<1>1. UNCHANGED <<engine, outside, groups, acted>>
  BY DEF Merge
<1>2. left' \in [Bounds -> 0..MaxLoad]
  BY UseTypes DEF Merge, Bounds
<1>3. merging' \in Merging
  <2>1. UNION {groups[i].keys : i \in ids} \in SUBSET Files
    BY GroupTypes DEF Groups, Group
  <2>2. merging' = [at |-> "save", ids |-> ids, keys |-> UNION {groups[i].keys : i \in ids},
                    by |-> IF named THEN "you" ELSE "auto"]
    BY DEF Merge
  <2> QED
    BY <2>1, <2>2 DEF Merging
<1>4. Acts
  BY <1>1 DEF Acts, engine
<1>5. RunInv'
  BY <1>4, ActsKeep
<1> QED
  BY <1>1, <1>2, <1>3, <1>4, <1>5 DEF RestKept, engine, outside

LEMMA MergeSaveStep == DiscoveryInv /\ MergeSave => RestKept /\ Acts
<1> SUFFICES ASSUME DiscoveryInv, MergeSave PROVE RestKept /\ Acts
  OBVIOUS
<1> USE DEF DiscoveryInv, RestTypeOK
<1> DEFINE row == [keys |-> merging.keys, status |-> "proposed", by |-> merging.by]
<1>1. PICK i \in Lowest(Free(groups)) : groups' = [groups EXCEPT ![i] = row] /\ acted' = acted \cup {i}
  BY DEF MergeSave
<1>2. /\ UNCHANGED <<engine, outside, left>>
      /\ merging' = [merging EXCEPT !.at = "mark"]
  BY DEF MergeSave
<1>3. i \in Ids
  BY DEF Lowest, Free
<1>4. row \in Group /\ merging' \in Merging
  BY <1>2 DEF Merging, Group, Statuses
<1> HIDE DEF row
<1>5. Acts
  BY <1>1, <1>2, <1>3, <1>4, ChangedGroups DEF Acts, engine
<1>6. RunInv'
  BY <1>5, ActsKeep
<1> QED
  BY <1>2, <1>4, <1>5, <1>6 DEF RestKept, engine, outside, Acts

LEMMA MergeMarkStep == DiscoveryInv /\ MergeMark => RestKept /\ Acts
<1> SUFFICES ASSUME DiscoveryInv, MergeMark PROVE RestKept /\ Acts
  OBVIOUS
<1> USE DEF DiscoveryInv, RestTypeOK
<1>1. PICK i \in merging.ids :
        /\ groups' = IF groups[i] = NoGroup THEN groups ELSE [groups EXCEPT ![i].status = "merged"]
        /\ acted' = acted \cup {i}
        /\ merging' = IF merging.ids = {i} THEN NoMerge ELSE [merging EXCEPT !.ids = merging.ids \ {i}]
  BY DEF MergeMark
<1>2. UNCHANGED <<engine, outside, left>>
  BY DEF MergeMark
<1>3. i \in Ids /\ merging' \in Merging
  BY <1>1, RestingTypes DEF Merging
<1>4. groups' \in Groups /\ \A j \in Ids \ {i} : groups'[j] = groups[j]
  <2>1. CASE groups[i] = NoGroup
    BY <1>1, <2>1
  <2>2. CASE groups[i] # NoGroup
    <3>1. groups[i] \in Group
      BY <1>3, <2>2 DEF Groups
    <3>2. [groups[i] EXCEPT !.status = "merged"] \in Group
      BY <3>1, RowTypes DEF Statuses
    <3>3. groups' = [groups EXCEPT ![i] = [groups[i] EXCEPT !.status = "merged"]]
      BY <1>1, <2>2
    <3> QED
      BY <1>3, <3>2, <3>3, ChangedGroups
  <2> QED
    BY <2>1, <2>2
<1>5. Acts
  BY <1>1, <1>2, <1>3, <1>4 DEF Acts, engine
<1>6. RunInv'
  BY <1>5, ActsKeep
<1> QED
  BY <1>2, <1>3, <1>5, <1>6 DEF RestKept, engine, outside, Acts

-------------------------------------------------------------------------------
(* The steps of the thread.                                                 *)

LEMMA MarkedTypes ==
  ASSUME scope \in Scopes, NEW row \in Scopes, Marked(row)
  PROVE  scope' \in Scopes
BY DEF Marked

\* Before it reads the rows: it looks, starts, reads the texts.
LEMMA ReadingSteps ==
  ASSUME DiscoveryInv, Look \/ Start \/ ReadTexts
  PROVE  RestKept /\ UNCHANGED groups
<1> USE DEF DiscoveryInv, RestTypeOK
<1>1. UNCHANGED <<old, asked, basis, outside, groups, merging, left, acted>>
  BY DEF Look, Start, ReadTexts
<1>2. scope' \in Scopes
  <2>1. [scope EXCEPT !.requested = FALSE, !.error = FALSE] \in Scopes
    BY DEF Scopes
  <2> QED
    BY <2>1, MarkedTypes DEF Look, Start, ReadTexts
<1>3. run' \in Thread /\ run'.at \in {"begin", "list", "read", "compare"}
  <2>1. CASE Look
    BY <2>1, RestingTypes DEF Look
  <2>2. CASE Start
    <3>1. fvSeq \in Nat
      BY DEF VectorsInv, VectorsTypeOK
    <3> QED
      BY <2>2, <3>1 DEF Start, Thread
  <2>3. CASE ReadTexts
    <3>1. text \in Meanings
      BY DEF VectorsInv, VectorsTypeOK
    <3> QED
      BY <2>3, <3>1 DEF ReadTexts, Thread
  <2> QED
    BY <2>1, <2>2, <2>3
<1>4. RunInv'
  BY <1>3, Elsewhere
<1> QED
  BY <1>1, <1>2, <1>3, <1>4 DEF RestKept, outside

LEMMA CompareStep == DiscoveryInv /\ Compare => RestKept /\ UNCHANGED groups
<1> SUFFICES ASSUME DiscoveryInv, Compare PROVE RestKept /\ UNCHANGED groups
  OBVIOUS
<1> USE DEF DiscoveryInv, RestTypeOK
<1> DEFINE found == Found(run.says, Loaded)
<1>1. /\ run' = [run EXCEPT !.at = "reconcile", !.means = Loaded, !.found = found]
      /\ UNCHANGED <<scope, old, asked, basis, outside, groups, merging, left, acted>>
  BY DEF Compare
<1>2. run.says \in Meanings /\ Loaded \in Meanings
  BY DEF Thread, Loaded, Meanings, VectorsInv, VectorsTypeOK
<1>3. found \in SUBSET SUBSET Files /\ \A a, b \in found : a # b => a \cap b = {}
  BY <1>2, FoundFacts
<1> HIDE DEF found
<1>4. run' \in Thread /\ run'.at = "reconcile" /\ run'.found = found
  BY <1>1, <1>2, <1>3 DEF Thread
<1>5. RunInv'
  BY <1>3, <1>4 DEF RunInv, FoundApart, NamesSomeone, NamedStands, PriorStands, RowsAreProposed, NewMeansNew
<1> QED
  BY <1>1, <1>4, <1>5 DEF RestKept, outside

LEMMA ReconcileStep == DiscoveryInv /\ Reconcile => RestKept /\ UNCHANGED groups
<1> SUFFICES ASSUME DiscoveryInv, Reconcile PROVE RestKept /\ UNCHANGED groups
  OBVIOUS
<1>0. groups \in Groups /\ run \in Thread
  BY DEF DiscoveryInv, RestTypeOK
<1>1. PICK match \in Matches(run.found, groups) :
        /\ Cardinality(New(match)) <= Cardinality(Free(groups))
        /\ run' = [run EXCEPT !.at = "save", !.prior = groups, !.rows = Rewritten(groups, match)]
  BY DEF Reconcile
<1>2. /\ run.at = "reconcile" /\ acted' = {}
      /\ UNCHANGED <<scope, old, asked, basis, outside, groups, merging, left>>
  BY DEF Reconcile
<1>3. run.found \in SUBSET SUBSET Files /\ \A a, b \in run.found : a # b => a \cap b = {}
  BY <1>0, <1>2 DEF Thread, DiscoveryInv, RunInv, FoundApart
<1> DEFINE rows == Rewritten(groups, match)
<1>4. /\ rows \in Groups
      /\ \A i \in Ids : rows[i] # NoGroup =>
           \/ groups[i] = NoGroup
           \/ groups[i].status = "proposed" /\ rows[i] = Again(groups[i], rows[i].keys)
  <2>1. run.found \in SUBSET SUBSET Files /\ match \in Matches(run.found, groups)
    BY <1>1, <1>3
  <2>2. rows \in Groups
    BY <1>0, <1>1, <2>1, RewrittenRows
  <2>3. ASSUME NEW i \in Ids, rows[i] # NoGroup
        PROVE  \/ groups[i] = NoGroup
               \/ groups[i].status = "proposed" /\ rows[i] = Again(groups[i], rows[i].keys)
    BY <1>0, <1>1, <2>1, <2>3, RewrittenRows
  <2> HIDE DEF rows
  <2> QED
    BY <2>2, <2>3
<1>5. ASSUME NEW i \in Ids, rows[i] # NoGroup
      PROVE  /\ groups[i] = NoGroup => \A j \in Stored(groups) :
                  2 * Cardinality(rows[i].keys \cap groups[j].keys) <= Cardinality(rows[i].keys \cup groups[j].keys)
             /\ \A j \in Ids \ {i} : rows[j] # NoGroup => rows[i].keys \cap rows[j].keys = {}
  BY <1>0, <1>1, <1>3, <1>5, NewIsNew
<1> HIDE DEF rows
<1>6. run' \in Thread /\ run'.at = "save" /\ run'.prior = groups /\ run'.rows = rows
  BY <1>0, <1>1, <1>4 DEF Thread, rows
<1>7. FoundApart' /\ NamesSomeone' /\ NamedStands'
  BY <1>6 DEF FoundApart, NamesSomeone, NamedStands
<1>8. PriorStands' /\ RowsAreProposed'
  BY <1>2, <1>4, <1>6 DEF PriorStands, RowsAreProposed
<1>9. NewMeansNew'
  BY <1>5, <1>6 DEF NewMeansNew, Stored
<1>10. RunInv'
  BY <1>7, <1>8, <1>9 DEF RunInv
<1> QED
  BY <1>2, <1>6, <1>10 DEF RestKept, outside, DiscoveryInv, RestTypeOK

LEMMA SaveStep == DiscoveryInv /\ Save => RestKept
<1> SUFFICES ASSUME DiscoveryInv, Save PROVE RestKept
  OBVIOUS
<1> USE DEF DiscoveryInv, RestTypeOK
<1>1. /\ groups' = [i \in Ids |-> IF run.rows[i] # NoGroup THEN run.rows[i]
                                  ELSE IF i \in Dropped THEN NoGroup ELSE groups[i]]
      /\ run' = [run EXCEPT !.at = "mark", !.prior = NoGroups, !.rows = NoGroups, !.found = {}, !.says = Nothing]
      /\ UNCHANGED <<scope, old, asked, basis, outside, merging, left, acted>>
  BY DEF Save
<1>2. run.rows \in Groups
  BY DEF Thread
<1>3. groups' \in Groups
  BY <1>1, <1>2 DEF Groups
<1>4. run' \in Thread /\ run'.at = "mark"
  BY <1>1, GroupTypes, PassTypes DEF Thread
<1>5. RunInv'
  BY <1>4, Elsewhere
<1> QED
  BY <1>1, <1>3, <1>4, <1>5 DEF RestKept, outside

\* A run ends, well or not.
LEMMA EndSteps ==
  ASSUME DiscoveryInv, Mark \/ Fail
  PROVE  RestKept /\ UNCHANGED groups
<1> USE DEF DiscoveryInv, RestTypeOK
<1>1. /\ run' = [Resting EXCEPT !.at = "list"] /\ old' = FALSE
      /\ asked' = (asked /\ scope.requested) /\ basis' \in {basis, run.means}
      /\ UNCHANGED <<outside, groups, merging, acted>>
  BY DEF Mark, Fail
<1>2. left' \in [Bounds -> 0..MaxLoad]
  BY UseTypes DEF Mark, Fail, Bounds
<1>3. scope' \in Scopes
  <2>1. run.seq \in Nat
    BY DEF Thread
  <2>2. /\ [scope EXCEPT !.finished = TRUE, !.seq = run.seq] \in Scopes
        /\ [scope EXCEPT !.finished = TRUE, !.error = TRUE] \in Scopes
    BY <2>1 DEF Scopes
  <2> QED
    BY <2>2, MarkedTypes DEF Mark, Fail
<1>4. run' \in Thread /\ run'.at = "list"
  BY <1>1, RestingTypes
<1>5. basis' \in Meanings
  BY <1>1 DEF Thread
<1>6. asked' \in BOOLEAN
  BY <1>1 DEF Scopes
<1>7. RunInv'
  BY <1>4, Elsewhere
<1> QED
  BY <1>1, <1>2, <1>3, <1>4, <1>5, <1>6, <1>7 DEF RestKept, outside

LEMMA NextNameTypes ==
  ASSUME run \in Thread
  PROVE  NextName \in Thread /\ NextName.at \in {"idle", "names"}
BY RestingTypes DEF NextName, Thread

LEMMA ListingStep == DiscoveryInv /\ ListNames => RestKept /\ UNCHANGED groups
<1> SUFFICES ASSUME DiscoveryInv, ListNames PROVE RestKept /\ UNCHANGED groups
  OBVIOUS
<1> USE DEF DiscoveryInv, RestTypeOK
<1>1. UNCHANGED <<scope, old, asked, basis, outside, groups, merging, left, acted>>
  BY DEF ListNames
<1> DEFINE auto == {i \in Ids : groups[i].status = "proposed" /\ groups[i].by = "auto"}
<1>2. run' = IF left["names"] = 0 \/ auto = {} THEN Resting ELSE [Resting EXCEPT !.at = "names", !.names = auto]
  BY DEF ListNames
<1>3. auto \in SUBSET Ids
  OBVIOUS
<1> HIDE DEF auto
<1>4. [Resting EXCEPT !.at = "names", !.names = auto] \in Thread
  BY <1>3, PassTypes, GroupTypes DEF Resting, Thread
<1>5. [Resting EXCEPT !.at = "names", !.names = auto].at = "names"
  BY DEF Resting
<1>6. run' \in Thread /\ run'.at \in {"idle", "names"}
  BY <1>2, <1>4, <1>5, RestingTypes
<1>7. RunInv'
  BY <1>6, Elsewhere
<1> QED
  BY <1>1, <1>6, <1>7 DEF RestKept, outside

LEMMA AskNameStep ==
  ASSUME DiscoveryInv, NEW i \in Ids, AskName(i)
  PROVE  RestKept /\ UNCHANGED groups
<1> USE DEF DiscoveryInv, RestTypeOK
<1>1. UNCHANGED <<scope, old, asked, basis, outside, groups, merging, acted>>
  BY DEF AskName
<1>2. left' \in [Bounds -> 0..MaxLoad]
  BY UseTypes DEF AskName, Bounds
<1>3. run' \in Thread /\ (run'.at = "idle" \/ (run'.at = "llm" /\ run'.id = i))
  <2>1. CASE run' = Resting
    BY <2>1, RestingTypes
  <2>2. CASE run' = [run EXCEPT !.at = "llm", !.id = i, !.names = run.names \ {i}]
    BY <2>2 DEF Thread
  <2> QED
    BY <2>1, <2>2 DEF AskName
<1>4. RunInv'
  BY <1>3 DEF RunInv, FoundApart, NamesSomeone, NamedStands, PriorStands, RowsAreProposed, NewMeansNew
<1> QED
  BY <1>1, <1>2, <1>3, <1>4 DEF RestKept, outside

LEMMA AnswerStep == DiscoveryInv /\ Answer => RestKept /\ UNCHANGED groups
<1> SUFFICES ASSUME DiscoveryInv, Answer PROVE RestKept /\ UNCHANGED groups
  OBVIOUS
<1> USE DEF DiscoveryInv, RestTypeOK
<1>1. /\ run.at = "llm" /\ acted' \in SUBSET Ids
      /\ UNCHANGED <<scope, old, asked, basis, outside, groups, merging, left>>
  BY DEF Answer
<1>2. CASE run' \in {Resting, NextName}
  <2>1. run' \in Thread /\ run'.at \in {"idle", "names"}
    BY <1>2, RestingTypes, NextNameTypes
  <2> QED
    BY <1>1, <2>1, Elsewhere DEF RestKept, outside
<1>3. CASE run' \notin {Resting, NextName}
  <2>1. run' = [run EXCEPT !.at = "name"] /\ groups[run.id].by = "auto"
    BY <1>3 DEF Answer
  <2>2. run' \in Thread /\ run'.at = "name" /\ run'.id = run.id
    BY <2>1 DEF Thread
  <2>3. run.id \in Ids
    BY <1>1 DEF RunInv, NamesSomeone
  <2>4. RunInv'
    BY <1>1, <2>1, <2>2, <2>3
       DEF RunInv, FoundApart, NamesSomeone, NamedStands, PriorStands, RowsAreProposed, NewMeansNew
  <2> QED
    BY <1>1, <2>2, <2>4 DEF RestKept, outside
<1> QED
  BY <1>2, <1>3

LEMMA WriteNameStep ==
  DiscoveryInv /\ WriteName => /\ RestKept
                               /\ \A i \in Ids \ {run.id} : groups'[i] = groups[i]
<1> SUFFICES ASSUME DiscoveryInv, WriteName PROVE RestKept /\ \A i \in Ids \ {run.id} : groups'[i] = groups[i]
  OBVIOUS
<1> USE DEF DiscoveryInv, RestTypeOK
<1>1. /\ groups' = IF groups[run.id] = NoGroup THEN groups ELSE [groups EXCEPT ![run.id].by = "ai"]
      /\ run' = NextName
      /\ UNCHANGED <<scope, old, asked, basis, outside, merging, left, acted>>
  BY DEF WriteName
<1>2. run.id \in Ids
  BY DEF WriteName, RunInv, NamesSomeone
<1>3. groups' \in Groups /\ \A i \in Ids \ {run.id} : groups'[i] = groups[i]
  <2>1. CASE groups[run.id] = NoGroup
    BY <1>1, <2>1
  <2>2. CASE groups[run.id] # NoGroup
    <3> DEFINE row == [groups[run.id] EXCEPT !.by = "ai"]
    <3>1. row \in Group \cup {NoGroup}
      BY <1>2, <2>2, RowTypes DEF Groups
    <3>2. groups' = [groups EXCEPT ![run.id] = row]
      BY <1>1, <2>2
    <3> HIDE DEF row
    <3>3. /\ [groups EXCEPT ![run.id] = row] \in Groups
          /\ \A j \in Ids \ {run.id} : [groups EXCEPT ![run.id] = row][j] = groups[j]
      BY <1>2, <3>1, ChangedGroups
    <3> QED
      BY <3>2, <3>3
  <2> QED
    BY <2>1, <2>2
<1>4. run' \in Thread /\ run'.at \in {"idle", "names"}
  BY <1>1, NextNameTypes
<1>5. RunInv'
  BY <1>4, Elsewhere
<1> QED
  BY <1>1, <1>3, <1>4, <1>5 DEF RestKept, outside

\* The process ends.
LEMMA RestartSteps ==
  ASSUME DiscoveryInv, Restart \/ Crash
  PROVE  RestKept /\ UNCHANGED groups
<1> USE DEF DiscoveryInv, RestTypeOK
<1>1. /\ run' = Resting /\ merging' \in {merging, NoMerge} /\ asked' \in {asked, asked /\ scope.requested}
      /\ UNCHANGED <<old, basis, outside, groups, acted>>
  BY DEF Restart, Crash
<1>2. left' \in [Bounds -> 0..MaxLoad]
  BY UseTypes DEF Restart, Crash, Bounds
<1>3. scope' \in Scopes
  <2>1. Stopped(scope) \in Scopes
    BY DEF Stopped, Scopes
  <2> QED
    BY <2>1, MarkedTypes DEF Restart, Crash
<1>4. RunInv'
  BY <1>1, RestingTypes, Elsewhere
<1>5. asked' \in BOOLEAN
  BY <1>1 DEF Scopes
<1> QED
  BY <1>1, <1>2, <1>3, <1>4, <1>5, RestingTypes DEF RestKept, outside

-------------------------------------------------------------------------------
(* The invariant and what follows from it.                                  *)

LEMMA DiscoveryInitHolds == Init => DiscoveryInv
<1> SUFFICES ASSUME Init PROVE DiscoveryInv
  OBVIOUS
<1>1. Nothing \in Meanings /\ \A f \in Files : Nothing[f] = None
  BY DEF Nothing, Meanings
<1>2. /\ text \in Meanings /\ vec = text /\ idx = Nothing /\ idxSeq = 0 /\ fvSeq = 1
      /\ embedded \in SUBSET Texts /\ stamp = [f \in Files |-> IF vec[f] # None THEN 1 ELSE 0]
      /\ builder = Asleep /\ ready = FALSE
  BY DiscoveryAssumption DEF Init
<1>3. \A f \in Files : stamp[f] = IF vec[f] # None THEN 1 ELSE 0
  BY <1>2
<1>4. VectorsInv
  <2>1. stamp \in [Files -> Nat]
    BY <1>2
  <2>2. VectorsTypeOK
    BY <1>1, <1>2, <2>1, PassTypes DEF VectorsTypeOK
  <2>3. ASSUME NEW f \in Files
        PROVE  (stamp[f] = 0 => vec[f] = None) /\ stamp[f] <= fvSeq /\ (stamp[f] <= idxSeq => idx[f] = vec[f])
    BY <1>1, <1>2, <1>3
  <2> QED
    BY <1>2, <2>2, <2>3 DEF VectorsInv, NumbersAreOld, IndexFollowsTheStore
<1>5. RestTypeOK
  BY DiscoveryAssumption, RestingTypes, GroupTypes, PassTypes DEF Init, RestTypeOK
<1>6. RunInv
  BY RestingTypes DEF Init, RunInv, FoundApart, NamesSomeone, NamedStands, PriorStands, RowsAreProposed, NewMeansNew
<1> QED
  BY <1>4, <1>5, <1>6 DEF DiscoveryInv

LEMMA StutterKeeps == DiscoveryInv /\ UNCHANGED vars => RestKept
<1> SUFFICES ASSUME DiscoveryInv, UNCHANGED vars PROVE RestKept
  OBVIOUS
<1>1. Acts
  BY DEF vars, engine, DiscoveryInv, RestTypeOK, Acts
<1>2. RunInv'
  BY <1>1, ActsKeep
<1> QED
  BY <1>2 DEF RestKept, DiscoveryInv, RestTypeOK, vars, engine, outside

LEMMA DiscoveryNextKeeps == DiscoveryInv /\ [Next]_vars => DiscoveryInv'
<1> SUFFICES ASSUME DiscoveryInv, [Next]_vars PROVE DiscoveryInv'
  OBVIOUS
<1>1. VectorsInv'
  BY VectorSteps, NextKeeps DEF DiscoveryInv
<1>2. RestKept
  BY FileSteps, PurgeStep, ChangeStep, MergeStep, MergeSaveStep, MergeMarkStep,
     ReadingSteps, CompareStep, ReconcileStep, SaveStep, EndSteps, ListingStep, AskNameStep, AnswerStep,
     WriteNameStep, RestartSteps, StutterKeeps DEF Next, ThreadStep
<1> QED
  BY <1>1, <1>2 DEF DiscoveryInv, RestKept

(* DiscoveryInv is inductive: whatever the owner, the builder and the       *)
(* discovery thread do in between each other's steps.                       *)
THEOREM DiscoveryInvHolds == Spec => []DiscoveryInv
<1>1. Init => DiscoveryInv
  BY DiscoveryInitHolds
<1>2. DiscoveryInv /\ [Next]_vars => DiscoveryInv'
  BY DiscoveryNextKeeps
<1>3. QED
  BY <1>1, <1>2, PTL DEF Spec

(* The rows, the scope, the run and the merge only hold values of their     *)
(* types.                                                                   *)
THEOREM DiscoveryTypeCorrect == Spec => []TypeOK
<1>1. DiscoveryInv => TypeOK
  BY DEF DiscoveryInv, VectorsInv, RestTypeOK, TypeOK, Scopes, Merging
<1>2. QED
  BY <1>1, DiscoveryInvHolds, PTL

(* Discovery drives the file vectors as FileVectors lets it: each step of   *)
(* the composed system is a step of FileVectors or leaves the vectors alone.*)
THEOREM DiscoveryStepsVectors == Spec => [][VectorsNext]_vectorVars
<1>1. [Next]_vars => [VectorsNext]_vectorVars
  BY VectorSteps
<1>2. QED
  BY <1>1, PTL DEF Spec

(* The index the runs read never misses a write, whatever else is going on  *)
(* (FileIndex.refresh).                                                     *)
THEOREM DiscoveryReadsTheStore == Spec => []IndexFollowsTheStore
<1>1. DiscoveryInv => IndexFollowsTheStore
  BY DEF DiscoveryInv, VectorsInv
<1>2. QED
  BY <1>1, DiscoveryInvHolds, PTL

(* What a run proposes anew shares at most half its files with any group    *)
(* there was, and no file is proposed twice (reconcile, MATCH_SAME): for    *)
(* any evidence, any stored groups, and matches made in any order.          *)
THEOREM NewAlwaysMeansNew == Spec => []NewMeansNew
<1>1. DiscoveryInv => NewMeansNew
  BY DEF DiscoveryInv, RunInv
<1>2. QED
  BY <1>1, DiscoveryInvHolds, PTL

-------------------------------------------------------------------------------
(* The owner's word.                                                        *)

\* What a step may make of a row that nobody acts on.
Respects(row, new) ==
  /\ row.status # "proposed" => /\ new.status = row.status
                                /\ new.keys = row.keys
  /\ row.by = "you" /\ new # NoGroup => new.by = "you"

LEMMA SaveRespects ==
  ASSUME DiscoveryInv, Save, NEW i \in Stored(groups) \ acted'
  PROVE  Respects(groups[i], groups'[i])
<1>1. /\ i \in Ids /\ groups[i] # NoGroup
      /\ groups'[i] = IF run.rows[i] # NoGroup THEN run.rows[i]
                      ELSE IF i \in Dropped THEN NoGroup ELSE groups[i]
  BY DEF Save, Stored
<1>2. groups[i] = run.prior[i]
  BY <1>1 DEF Save, DiscoveryInv, RunInv, PriorStands
<1>3. CASE run.rows[i] # NoGroup
  <2>1. groups[i].status = "proposed" /\ run.rows[i] = Again(groups[i], run.rows[i].keys)
    BY <1>1, <1>2, <1>3 DEF Save, DiscoveryInv, RunInv, RowsAreProposed
  <2>2. groups[i].by = "you" => run.rows[i].by = "you"
    BY <2>1 DEF Again, KeepsName
  <2> QED
    BY <1>1, <1>3, <2>1, <2>2 DEF Respects
<1>4. CASE run.rows[i] = NoGroup /\ i \in Dropped
  <2>1. groups[i].status = "proposed"
    BY <1>2, <1>4 DEF Dropped
  <2> QED
    BY <1>1, <1>4, <2>1 DEF Respects
<1>5. CASE run.rows[i] = NoGroup /\ i \notin Dropped
  BY <1>1, <1>5 DEF Respects
<1> QED
  BY <1>3, <1>4, <1>5

LEMMA WriteNameRespects ==
  ASSUME DiscoveryInv, WriteName, NEW i \in Stored(groups) \ acted'
  PROVE  Respects(groups[i], groups'[i])
<1>1. i \in Ids /\ groups[i] # NoGroup /\ i \notin acted
  BY DEF WriteName, Stored
<1>2. CASE i # run.id
  BY <1>1, <1>2, WriteNameStep DEF Respects
<1>3. CASE i = run.id
  <2>1. groups[i].by = "auto" /\ groups[i] \in Group
    BY <1>1, <1>3 DEF WriteName, DiscoveryInv, RunInv, NamedStands, RestTypeOK, Groups
  <2>2. groups'[i] = [groups[i] EXCEPT !.by = "ai"]
    BY <1>1, <1>3 DEF WriteName, DiscoveryInv, RestTypeOK, Groups
  <2>3. groups'[i].status = groups[i].status /\ groups'[i].keys = groups[i].keys
    BY <2>1, <2>2 DEF Group
  <2> QED
    BY <2>1, <2>3 DEF Respects
<1> QED
  BY <1>2, <1>3

\* All other steps leave the rows alone, where they do not act on them.
LEMMA OthersRespect ==
  ASSUME DiscoveryInv, [Next]_vars, ~Save, ~WriteName, NEW i \in Stored(groups) \ acted'
  PROVE  groups'[i] = groups[i]
<1>1. i \in Ids \ acted'
  BY DEF Stored
<1>2. UNCHANGED groups \/ Acts
  BY FileSteps, PurgeStep, ChangeStep, MergeStep, MergeSaveStep, MergeMarkStep,
     ReadingSteps, CompareStep, ReconcileStep, EndSteps, ListingStep, AskNameStep, AnswerStep,
     RestartSteps DEF Next, ThreadStep, vars
<1> QED
  BY <1>1, <1>2 DEF Acts

(* What the owner decided stands, and a name the owner gave it too while    *)
(* the group is proposed, in every step that follows a look of the thread   *)
(* at the rows (reconcile, name_group).                                     *)
THEOREM OwnersWordAlwaysStands == Spec => OwnersWordStands
<1> DEFINE Stands == \A i \in Stored(groups) \ acted' :
             /\ groups[i].status # "proposed" => /\ groups'[i].status = groups[i].status
                                                /\ groups'[i].keys = groups[i].keys
             /\ groups[i].by = "you" /\ groups'[i] # NoGroup => groups'[i].by = "you"
<1>1. DiscoveryInv /\ [Next]_vars => [Stands]_vars
  <2> SUFFICES ASSUME DiscoveryInv, [Next]_vars, NEW i \in Stored(groups) \ acted'
               PROVE  Respects(groups[i], groups'[i])
    BY DEF Respects
  <2>1. CASE Save
    BY <2>1, SaveRespects
  <2>2. CASE WriteName
    BY <2>2, WriteNameRespects
  <2>3. CASE ~Save /\ ~WriteName
    <3>1. groups'[i] = groups[i]
      BY <2>3, OthersRespect
    <3> QED
      BY <3>1 DEF Respects
  <2> QED
    BY <2>1, <2>2, <2>3
<1>2. Spec => [][Stands]_vars
  BY <1>1, DiscoveryInvHolds, PTL DEF Spec
<1>3. QED
  BY <1>2 DEF OwnersWordStands
================================================================================
