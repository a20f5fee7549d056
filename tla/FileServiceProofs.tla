---------------------------- MODULE FileServiceProofs ---------------------------
(* What TLAPS proves of Vault and of FileService, which extends it: for any *)
(* workspaces, tokens and lists, any bodies of requests and records found,  *)
(* any requests, sessions, filespaces and times to live, and any number of  *)
(* requests, faults and changes.                                            *)
EXTENDS FileService, TLAPS, FiniteSetTheorems

-------------------------------------------------------------------------------
(* The vault by itself.                                                     *)

(***************************************************************************)
(* The inductive invariant: the editor inside the transaction is the       *)
(* writer, and what it read is still what the row says.                    *)
(***************************************************************************)
WriterIsInside == \A e \in Editors : edit[e].at = "inside" => writer = e

ReadIsCurrent == \A e \in Editors : edit[e].at = "inside" => edit[e].stored = row

VaultInv == VaultTypeOK /\ WriterIsInside /\ ReadIsCurrent /\ VaultIsAsSaved

\* The types of the edits apart from those of the record.
Edits == edit \in [Editors -> EditState] /\ writer \in Editors \cup {None}

Rest ==
  /\ migrated \in BOOLEAN
  /\ saves \in 0..MaxSaves
  /\ starts \in 0..MaxStarts

LEMMA TypeParts == VaultTypeOK <=> row \in Record /\ meant \in Record /\ Edits /\ Rest
BY DEF VaultTypeOK, Edits, Rest

-------------------------------------------------------------------------------
(* The record and what a body makes of it.                                  *)

LEMMA NormalisedRecord ==
  ASSUME NEW r \in Record
  PROVE  /\ Normalised(r) \in Record
         /\ ~Normalised(r).retired
         /\ Normalised(Normalised(r)) = Normalised(r)
         /\ ~r.retired => Normalised(r) = r
BY DEF Normalised, Record

LEMMA EmptyRecord == Empty \in Record /\ Idle \in EditState
BY VaultAssumption DEF Empty, Record, Idle, EditState

\* A merged token is a token or none, whatever was sent.
LEMMA MergedTokens ==
  ASSUME NEW s, NEW k \in Tokens \cup {Blank}
  PROVE  MergedToken(s, k) \in Tokens \cup {Blank}
BY DEF MergedToken

LEMMA MergedRecord ==
  ASSUME NEW r \in Record, ~r.retired, NEW p \in SettingsPut
  PROVE  Merged(r, p) \in Record /\ ~Merged(r, p).retired
<1> DEFINE tokens == [w \in Workspaces |->
                        IF w \in p.list THEN MergedToken(p.sent[w], r.token[w]) ELSE Blank]
           merged == IF p.listed THEN tokens ELSE r.token
           list == IF p.listed THEN p.list ELSE r.list
           active == IF p.chooses THEN p.active ELSE r.active
<1>1. r.token \in [Workspaces -> Tokens \cup {Blank}] /\ r.list \in SUBSET Workspaces
      /\ r.active \in Workspaces \cup {None} /\ r.retired \in BOOLEAN
      /\ r.favorites \in Lists /\ r.collections \in Lists
  BY DEF Record
<1>2. tokens \in [Workspaces -> Tokens \cup {Blank}]
  BY <1>1, MergedTokens
<1> HIDE DEF tokens
<1>3. merged \in [Workspaces -> Tokens \cup {Blank}] /\ list \in SUBSET Workspaces
      /\ active \in Workspaces \cup {None}
  BY <1>1, <1>2 DEF SettingsPut
<1>4. Merged(r, p) = [r EXCEPT !.list = list, !.token = merged, !.active = active]
  BY DEF Merged, tokens
<1> HIDE DEF merged, list, active
<1>5. QED
  BY <1>1, <1>3, <1>4 DEF Record

\* What is written is a record, and the same over a record with or without
\* what older versions stored.
LEMMA WrittenRecord ==
  ASSUME NEW r \in Record, NEW b \in Puts \cup {Purge}
  PROVE  /\ Written(r, b) \in Record
         /\ ~Written(r, b).retired
         /\ Written(Normalised(r), b) = Written(r, b)
<1>1. Normalised(r) \in Record /\ ~Normalised(r).retired /\ Normalised(Normalised(r)) = Normalised(r)
  BY NormalisedRecord
<1>2. Written(Normalised(r), b) = Written(r, b)
  BY <1>1 DEF Written
<1>3. b \in SettingsPut \/ b \in ListPut \/ b = Purge
  BY VaultAssumption
<1>4. CASE b \in SettingsPut
  <2>1. Written(r, b) = Merged(Normalised(r), b)
    BY <1>4 DEF Written, SettingsPut
  <2>2. QED
    BY <1>1, <1>2, <1>4, <2>1, MergedRecord
<1>5. CASE b \in ListPut
  <2>1. b.value \in Lists /\ b.part \in {"favorites", "collections"}
    BY <1>5 DEF ListPut
  <2>2. \/ Written(r, b) = [Normalised(r) EXCEPT !.favorites = b.value]
        \/ Written(r, b) = [Normalised(r) EXCEPT !.collections = b.value]
    BY <2>1 DEF Written
  <2>3. QED
    BY <1>1, <1>2, <2>1, <2>2 DEF Record
<1>6. CASE b = Purge
  <2>1. Written(r, b) = Normalised(r)
    BY <1>6 DEF Written, Purge
  <2>2. QED
    BY <1>1, <1>2, <2>1
<1>7. QED
  BY <1>3, <1>4, <1>5, <1>6

-------------------------------------------------------------------------------
(* The steps.                                                               *)

LEMMA InitHolds == VaultInit => VaultInv
<1> SUFFICES ASSUME VaultInit PROVE VaultInv
  OBVIOUS
<1>1. row \in Record /\ meant = Normalised(row)
  BY VaultAssumption DEF VaultInit
<1>2. \A e \in Editors : edit[e].at = "idle"
  BY DEF VaultInit, Idle
<1>3. WriterIsInside /\ ReadIsCurrent
  BY <1>2 DEF WriterIsInside, ReadIsCurrent
<1>4. VaultTypeOK
  BY <1>1, NormalisedRecord, EmptyRecord DEF VaultInit, VaultTypeOK
<1>5. VaultIsAsSaved
  BY <1>1 DEF VaultInit, VaultIsAsSaved, Normalised
<1>6. QED
  BY <1>3, <1>4, <1>5 DEF VaultInv

\* A step of one editor that leaves the record alone.
LEMMA EditKeeps ==
  ASSUME VaultInv, NEW e \in Editors, NEW new \in EditState, edit' = [edit EXCEPT ![e] = new],
         UNCHANGED <<row, meant, migrated>>, Rest', writer' \in Editors \cup {None},
         new.at = "inside" => writer' = e /\ new.stored = row,
         \A f \in Editors \ {e} : edit[f].at = "inside" => writer' = writer
  PROVE  VaultInv'
<1>1. edit \in [Editors -> EditState]
  BY DEF VaultInv, VaultTypeOK
<1>2. edit'[e] = new /\ \A f \in Editors \ {e} : edit'[f] = edit[f]
  BY <1>1
<1>3. WriterIsInside' /\ ReadIsCurrent'
  BY <1>2 DEF VaultInv, WriterIsInside, ReadIsCurrent
<1>4. VaultTypeOK'
  BY <1>1, TypeParts DEF VaultInv, VaultTypeOK, Rest
<1>5. VaultIsAsSaved'
  BY DEF VaultInv, VaultIsAsSaved
<1>6. QED
  BY <1>3, <1>4, <1>5 DEF VaultInv

\* What a commit leaves behind: nobody else was inside.
LEMMA CommitKeeps == ASSUME VaultInv, NEW e \in Editors, Commit(e) PROVE VaultInv'
<1> DEFINE b == edit[e].body
<1>1. /\ edit \in [Editors -> EditState] /\ edit[e].body \in Puts \cup {Purge}
      /\ row \in Record /\ meant \in Record /\ migrated \in BOOLEAN
  BY DEF VaultInv, VaultTypeOK, EditState
<1>2. writer = e /\ edit[e].stored = row /\ edit[e].at = "inside"
  BY DEF Commit, VaultInv, WriterIsInside, ReadIsCurrent
<1>3. row' = Written(row, b) /\ meant' = Written(meant, b) /\ meant = Normalised(row)
  BY <1>2 DEF Commit, VaultInv, VaultIsAsSaved, Normalised
<1>4. row' \in Record /\ ~row'.retired /\ meant' = row'
  BY <1>1, <1>3, WrittenRecord
<1>5. \A f \in Editors \ {e} : edit[f].at # "inside"
  BY <1>2 DEF VaultInv, WriterIsInside
<1>6. edit' = [edit EXCEPT ![e] = Idle] /\ Idle \in EditState /\ Idle.at = "idle"
  BY EmptyRecord DEF Commit, Idle
<1>7. \A f \in Editors : edit'[f].at # "inside"
  BY <1>1, <1>5, <1>6
<1>8. WriterIsInside' /\ ReadIsCurrent'
  BY <1>7 DEF WriterIsInside, ReadIsCurrent
<1>9. VaultIsAsSaved'
  BY <1>4, NormalisedRecord DEF VaultIsAsSaved, Normalised
<1>10. migrated' \in BOOLEAN
  BY DEF Commit
<1>11. VaultTypeOK'
  BY <1>1, <1>4, <1>6, <1>10 DEF Commit, VaultInv, VaultTypeOK
<1>12. QED
  BY <1>8, <1>9, <1>11 DEF VaultInv

LEMMA EditorKeeps == ASSUME VaultInv, NEW e \in Editors, EditorStep(e) PROVE VaultInv'
<1>1. /\ edit[e] \in EditState /\ row \in Record /\ Rest /\ writer \in Editors \cup {None}
      /\ None \notin Editors /\ MaxSaves \in Nat
  BY VaultAssumption DEF VaultInv, VaultTypeOK, Rest
<1>2. CASE Put(e)
  <2>1. PICK b \in Puts : edit' = [edit EXCEPT ![e] = [at |-> "waiting", body |-> b, stored |-> row]]
    BY <1>2 DEF Put
  <2>2. [at |-> "waiting", body |-> b, stored |-> row] \in EditState
    BY <1>1 DEF EditState
  <2>3. Rest'
    BY <1>1, <1>2 DEF Put, Rest
  <2>4. QED
    BY <1>1, <1>2, <2>1, <2>2, <2>3, EditKeeps DEF Put
<1>3. CASE Migrate(e)
  <2>1. edit' = [edit EXCEPT ![e] = [at |-> "waiting", body |-> Purge, stored |-> row]]
    BY <1>3 DEF Migrate
  <2>2. [at |-> "waiting", body |-> Purge, stored |-> row] \in EditState
    BY <1>1 DEF EditState
  <2>3. Rest'
    BY <1>1, <1>3 DEF Migrate, Rest
  <2>4. QED
    BY <1>1, <1>3, <2>1, <2>2, <2>3, EditKeeps DEF Migrate
<1>4. CASE Begin(e)
  <2> DEFINE new == [edit[e] EXCEPT !.at = "inside", !.stored = row]
  <2>1. new \in EditState /\ new.at = "inside" /\ new.stored = row
    BY <1>1 DEF EditState
  <2>2. edit' = [edit EXCEPT ![e] = new]
    BY <1>4 DEF Begin
  <2>3. \A f \in Editors : edit[f].at # "inside"
    BY <1>1, <1>4 DEF Begin, VaultInv, WriterIsInside
  <2>4. Rest' /\ writer' = e /\ UNCHANGED <<row, meant, migrated>>
    BY <1>1, <1>4 DEF Begin, Rest
  <2> HIDE DEF new
  <2>5. QED
    BY <2>1, <2>2, <2>3, <2>4, EditKeeps
<1>5. CASE Busy(e)
  <2>1. Idle \in EditState /\ Idle.at = "idle"
    BY EmptyRecord DEF Idle
  <2>2. Rest' /\ writer' = writer /\ UNCHANGED <<row, meant, migrated>> /\ edit' = [edit EXCEPT ![e] = Idle]
    BY <1>1, <1>5 DEF Busy, Rest
  <2>3. QED
    BY <1>1, <2>1, <2>2, EditKeeps
<1>6. CASE Rollback(e)
  <2>1. Idle \in EditState /\ Idle.at = "idle"
    BY EmptyRecord DEF Idle
  <2>2. \A f \in Editors \ {e} : edit[f].at # "inside"
    BY <1>6 DEF Rollback, VaultInv, WriterIsInside
  <2>3. Rest' /\ writer' = None /\ UNCHANGED <<row, meant, migrated>> /\ edit' = [edit EXCEPT ![e] = Idle]
    BY <1>1, <1>6 DEF Rollback, Rest
  <2>4. QED
    BY <2>1, <2>2, <2>3, EditKeeps
<1>7. QED
  BY <1>2, <1>3, <1>4, <1>5, <1>6, CommitKeeps DEF EditorStep

LEMMA RestartKeeps == ASSUME VaultInv, VaultRestart PROVE VaultInv'
<1>1. \A e \in Editors : edit'[e].at = "idle"
  BY DEF VaultRestart, Idle
<1>2. WriterIsInside' /\ ReadIsCurrent'
  BY <1>1 DEF WriterIsInside, ReadIsCurrent
<1>3. VaultTypeOK'
  <2>1. edit' \in [Editors -> EditState] /\ writer' = None /\ row' \in Record /\ meant' \in Record
    BY EmptyRecord DEF VaultRestart, VaultInv, VaultTypeOK
  <2>2. starts' \in 0..MaxStarts /\ saves' \in 0..MaxSaves
    BY VaultAssumption DEF VaultRestart, VaultInv, VaultTypeOK
  <2>3. migrated' \in BOOLEAN
    BY DEF VaultRestart
  <2>4. QED
    BY <2>1, <2>2, <2>3 DEF VaultTypeOK
<1>4. VaultIsAsSaved'
  BY DEF VaultRestart, VaultInv, VaultIsAsSaved
<1>5. QED
  BY <1>2, <1>3, <1>4 DEF VaultInv

LEMMA StutterKeeps == ASSUME VaultInv, UNCHANGED vaultVars PROVE VaultInv'
BY DEF vaultVars, VaultInv, VaultTypeOK, WriterIsInside, ReadIsCurrent, VaultIsAsSaved

-------------------------------------------------------------------------------
(* VaultInv is inductive: what a transaction read is current until it ends, *)
(* whoever else waits for it and wherever the process dies.                 *)
THEOREM VaultInvHolds == VaultSpec => []VaultInv
<1>1. VaultInit => VaultInv
  BY InitHolds
<1>2. VaultInv /\ [VaultNext]_vaultVars => VaultInv'
  BY EditorKeeps, RestartKeeps, StutterKeeps DEF VaultNext
<1>3. QED
  BY <1>1, <1>2, PTL DEF VaultSpec

(* No save of settings, favorites or collections undoes another, and what   *)
(* the migration removed stays removed (`_update`, `purge_retired`).        *)
THEOREM SavesAreKept == VaultSpec => []VaultIsAsSaved
<1>1. VaultInv => VaultIsAsSaved
  BY DEF VaultInv
<1>2. QED
  BY <1>1, VaultInvHolds, PTL

-------------------------------------------------------------------------------
(* The file service.                                                        *)

(***************************************************************************)
(* The invariant is built in layers: the types; what a request knows at    *)
(* each place; and, upon these, one layer for each property.               *)
(***************************************************************************)
Entry == [until: Nat, verdict: Verdicts]
Known == [until: Nat, names: Listings]
Keys == Tokens \X Names \X Filespaces

World ==
  /\ clock \in 0..MaxClock
  /\ identity \in [Jwts -> Verdicts] /\ leftAt \in [Jwts -> [Verdicts -> Int]]
  /\ named \in [Tokens -> Listings] /\ goneAt \in [Keys -> Int]

Memory ==
  /\ cache \in [Jwts -> Entry] /\ listing \in [Tokens -> Known]
  /\ clients \in SUBSET Tokens /\ links \in SUBSET Pairs /\ up \in SUBSET Pairs
  /\ lock \in Requests \cup {None}

ReqTypes == req \in [Requests -> ReqState]

AsOwner == {"verify", "asking", "answered", "refused", "vault"}
WithToken == {"lookup", "list", "listed", "ready", "using"}

\* What a request knows at its place.
Fits(q) ==
  /\ q.at # "idle" => q.name \in Names
  /\ q.at \in AsOwner => q.bearer \in Jwts
  /\ q.at \in WithToken => q.token \in Tokens
  /\ q.at \in {"ready", "using"} => q.fid \in Filespaces
  /\ q.on <= clock

ReqsFit == \A r \in Requests : Fits(req[r])

Base == VaultInv /\ World /\ Memory /\ ReqTypes /\ ReqsFit

-------------------------------------------------------------------------------
(* The requests.                                                            *)

\* One request moves on.
LEMMA GotoOne ==
  ASSUME ReqTypes, NEW r \in Requests, NEW q \in ReqState, Goto(r, q)
  PROVE  ReqTypes' /\ req'[r] = q /\ \A s \in Requests \ {r} : req'[s] = req[s]
BY DEF ReqTypes, Goto

LEMMA IdleFits ==
  /\ IdleReq \in ReqState
  /\ IdleReq.at = "idle" /\ IdleReq.wid = None /\ IdleReq.on = 0 /\ IdleReq.token = None
BY ServiceAssumption DEF IdleReq, ReqState, Places, NoListing, Listings

\* The times and the clock are numbers.
LEMMA Numbers ==
  /\ PositiveTTL \in Nat /\ NegativeTTL \in Nat /\ ListTTL \in Nat /\ Patience \in Nat /\ MaxClock \in Nat
  /\ 0 < NegativeTTL /\ NegativeTTL <= PositiveTTL /\ Patience < ListTTL
  /\ \A v \in Verdicts : TTL(v) \in Nat /\ TTL(v) > 0
BY ServiceAssumption DEF TTL, Verdicts

LEMMA ReqField ==
  ASSUME NEW q \in ReqState
  PROVE  /\ q.at \in Places /\ q.bearer \in Jwts \cup Tokens \cup {None} /\ q.asked \in Workspaces \cup {None}
         /\ q.name \in Names \cup {None} /\ q.writes \in BOOLEAN /\ q.on \in 0..MaxClock
         /\ q.answer \in Verdicts \cup {"error"} /\ q.seen \in Listings /\ q.token \in Tokens \cup {None}
         /\ q.wid \in Workspaces \cup {None} /\ q.fid \in Filespaces \cup {None}
BY DEF ReqState

\* The steps of a request, by what becomes of it.
Verified(r, q) ==
  q \in {[req[r] EXCEPT !.at = "vault", !.on = clock, !.answer = "error"],
         [req[r] EXCEPT !.at = "refused", !.on = clock, !.answer = "error"]}

Ready(r, q, x) == q = [req[r] EXCEPT !.at = "ready", !.fid = x, !.on = clock, !.seen = NoListing.names]

Became(r, q) ==
  \/ q = IdleReq
  \/ \E a \in Asks : q = [IdleReq EXCEPT !.at = IF a.bearer \in Jwts THEN "verify" ELSE "lookup", !.bearer = a.bearer,
                                         !.asked = a.asked, !.name = a.name, !.writes = a.writes,
                                         !.token = IF a.bearer \in Jwts THEN None ELSE a.bearer]
  \/ req[r].at \in {"verify", "answered"} /\ req[r].bearer \in Jwts /\ Verified(r, q)
  \/ req[r].at = "verify" /\ q = [req[r] EXCEPT !.at = "asking"]
  \/ req[r].at = "asking" /\ \E v \in Verdicts \cup {"error"} : q = [req[r] EXCEPT !.at = "answered", !.on = clock, !.answer = v]
  \/ req[r].at = "vault" /\ \E w \in row.list : /\ row.token[w] # Blank
                                               /\ q = [req[r] EXCEPT !.at = "lookup", !.token = row.token[w], !.wid = w]
  \/ req[r].at = "lookup" /\ q = [req[r] EXCEPT !.at = "list", !.on = clock]
  \/ req[r].at = "list" /\ q = [req[r] EXCEPT !.at = "listed", !.seen = named[req[r].token]]
  \/ req[r].at \in {"lookup", "listed"} /\ \E x \in Filespaces : Ready(r, q, x)
  \/ req[r].at = "ready" /\ q = [req[r] EXCEPT !.at = "using"]

\* Whatever a request becomes, it knows what its place needs.
LEMMA BecameFits ==
  ASSUME Base, NEW r \in Requests, NEW q, Became(r, q)
  PROVE  q \in ReqState /\ Fits(q)
<1> DEFINE p == req[r]
<1>1. p \in ReqState /\ Fits(p) /\ clock \in 0..MaxClock
  BY DEF Base, World, ReqTypes, ReqsFit
<1>2. IdleReq \in ReqState /\ Fits(IdleReq)
  BY <1>1, IdleFits, Numbers DEF Fits, AsOwner, WithToken
<1>3. NoListing.names \in Listings /\ clock <= clock /\ "error" \in Verdicts \cup {"error"}
  BY <1>1, Numbers DEF NoListing, Listings
<1> HIDE DEF p
<1>4. CASE \E a \in Asks : q = [IdleReq EXCEPT !.at = IF a.bearer \in Jwts THEN "verify" ELSE "lookup", !.bearer = a.bearer,
                                         !.asked = a.asked, !.name = a.name, !.writes = a.writes,
                                         !.token = IF a.bearer \in Jwts THEN None ELSE a.bearer]
  <2>1. PICK a \in Asks : q = [IdleReq EXCEPT !.at = IF a.bearer \in Jwts THEN "verify" ELSE "lookup", !.bearer = a.bearer,
                                         !.asked = a.asked, !.name = a.name, !.writes = a.writes,
                                         !.token = IF a.bearer \in Jwts THEN None ELSE a.bearer]
    BY <1>4
  <2>2. /\ a.bearer \in Jwts \cup Tokens /\ a.asked \in Workspaces \cup {None} /\ a.name \in Names
        /\ a.writes \in BOOLEAN
    BY ServiceAssumption
  <2>3. CASE a.bearer \in Jwts
    <3>1. q = [IdleReq EXCEPT !.at = "verify", !.bearer = a.bearer, !.asked = a.asked, !.name = a.name,
                              !.writes = a.writes, !.token = None]
      BY <2>1, <2>3
    <3>2. q \in ReqState
      BY <2>2, <3>1, IdleFits DEF ReqState, Places
    <3>3. q.at = "verify" /\ q.bearer \in Jwts /\ q.name \in Names /\ q.on = 0
      BY <2>2, <2>3, <3>1, IdleFits DEF ReqState
    <3>4. QED
      BY <1>1, <3>2, <3>3, Numbers DEF Fits, AsOwner, WithToken
  <2>4. CASE a.bearer \notin Jwts
    <3>1. q = [IdleReq EXCEPT !.at = "lookup", !.bearer = a.bearer, !.asked = a.asked, !.name = a.name,
                              !.writes = a.writes, !.token = a.bearer]
      BY <2>1, <2>4
    <3>2. q \in ReqState
      BY <2>2, <2>4, <3>1, IdleFits DEF ReqState, Places
    <3>3. q.at = "lookup" /\ q.token \in Tokens /\ q.name \in Names /\ q.on = 0
      BY <2>2, <2>4, <3>1, IdleFits DEF ReqState
    <3>4. QED
      BY <1>1, <3>2, <3>3, Numbers DEF Fits, AsOwner, WithToken
  <2>5. QED
    BY <2>3, <2>4
<1>5. CASE p.at \in {"verify", "answered"} /\ p.bearer \in Jwts /\ Verified(r, q)
  <2>1. PICK a \in {"vault", "refused"} : q = [p EXCEPT !.at = a, !.on = clock, !.answer = "error"]
    BY <1>5 DEF Verified, p
  <2>2. q \in ReqState
    BY <1>1, <1>3, <2>1 DEF ReqState, Places
  <2>3. q.at = a /\ q.bearer = p.bearer /\ q.name = p.name /\ q.on = clock
    BY <1>1, <2>1 DEF ReqState
  <2>4. p.name \in Names
    BY <1>1, <1>5 DEF Fits
  <2>5. QED
    BY <1>3, <1>5, <2>1, <2>2, <2>3, <2>4 DEF Fits, AsOwner, WithToken
<1>6. CASE p.at = "verify" /\ q = [p EXCEPT !.at = "asking"]
  BY <1>1, <1>6 DEF ReqState, Places, Fits, AsOwner, WithToken
<1>7. CASE p.at = "asking" /\ \E v \in Verdicts \cup {"error"} : q = [p EXCEPT !.at = "answered", !.on = clock, !.answer = v]
  <2>1. PICK v \in Verdicts \cup {"error"} : q = [p EXCEPT !.at = "answered", !.on = clock, !.answer = v]
    BY <1>7
  <2>2. q \in ReqState
    BY <1>1, <2>1 DEF ReqState, Places
  <2>3. q.at = "answered" /\ q.bearer = p.bearer /\ q.name = p.name /\ q.on = clock
    BY <1>1, <2>1 DEF ReqState
  <2>4. p.name \in Names /\ p.bearer \in Jwts
    BY <1>1, <1>7 DEF Fits, AsOwner
  <2>5. QED
    BY <1>3, <2>2, <2>3, <2>4 DEF Fits, AsOwner, WithToken
<1>8. CASE p.at = "vault" /\ \E w \in row.list : /\ row.token[w] # Blank
                                                /\ q = [p EXCEPT !.at = "lookup", !.token = row.token[w], !.wid = w]
  <2>1. PICK w \in row.list : row.token[w] # Blank /\ q = [p EXCEPT !.at = "lookup", !.token = row.token[w], !.wid = w]
    BY <1>8
  <2>2. w \in Workspaces /\ row.token[w] \in Tokens
    BY <2>1 DEF Base, VaultInv, VaultTypeOK, Record
  <2>3. QED
    BY <1>1, <1>8, <2>1, <2>2 DEF ReqState, Places, Fits, AsOwner, WithToken
<1>9. CASE p.at = "lookup" /\ q = [p EXCEPT !.at = "list", !.on = clock]
  <2>1. q \in ReqState
    BY <1>1, <1>9 DEF ReqState, Places
  <2>2. q.at = "list" /\ q.token = p.token /\ q.name = p.name /\ q.on = clock
    BY <1>1, <1>9 DEF ReqState
  <2>3. p.name \in Names /\ p.token \in Tokens
    BY <1>1, <1>9 DEF Fits, WithToken
  <2>4. QED
    BY <1>3, <2>1, <2>2, <2>3 DEF Fits, AsOwner, WithToken
<1>10. CASE p.at = "list" /\ q = [p EXCEPT !.at = "listed", !.seen = named[p.token]]
  <2>1. named[p.token] \in Listings
    BY <1>1, <1>10 DEF Base, World, Fits, WithToken
  <2>2. QED
    BY <1>1, <1>10, <2>1 DEF ReqState, Places, Fits, AsOwner, WithToken
<1>11. CASE p.at \in {"lookup", "listed"} /\ \E x \in Filespaces : Ready(r, q, x)
  <2>1. PICK x \in Filespaces : q = [p EXCEPT !.at = "ready", !.fid = x, !.on = clock, !.seen = NoListing.names]
    BY <1>11 DEF Ready, p
  <2>2. q \in ReqState
    BY <1>1, <1>3, <2>1 DEF ReqState, Places
  <2>3. q.at = "ready" /\ q.token = p.token /\ q.name = p.name /\ q.on = clock /\ q.fid = x
    BY <1>1, <2>1 DEF ReqState
  <2>4. p.name \in Names /\ p.token \in Tokens
    BY <1>1, <1>11 DEF Fits, WithToken
  <2>5. QED
    BY <1>3, <2>2, <2>3, <2>4 DEF Fits, AsOwner, WithToken
<1>12. CASE p.at = "ready" /\ q = [p EXCEPT !.at = "using"]
  BY <1>1, <1>12 DEF ReqState, Places, Fits, AsOwner, WithToken
<1>13. QED
  BY <1>2, <1>4, <1>5, <1>6, <1>7, <1>8, <1>9, <1>10, <1>11, <1>12 DEF Became, p

\* A step of a request is such a move.
LEMMA StepBecomes ==
  ASSUME Base, NEW r \in Requests, Arrive(r) \/ RequestStep(r)
  PROVE  (\E q : Became(r, q) /\ Goto(r, q)) /\ clock' = clock /\ UNCHANGED vaultVars
<1>1. req[r] \in ReqState /\ Fits(req[r])
  BY DEF Base, ReqTypes, ReqsFit
<1>2. ASSUME req[r].at \in {"verify", "answered"}, req[r].bearer \in Jwts, NEW v, Verdict(r, v)
      PROVE  \E q : Became(r, q) /\ Goto(r, q)
  BY <1>2 DEF Verdict, Became, Verified
<1>3. ASSUME Reply(r)
      PROVE  \E q : Became(r, q) /\ Goto(r, q)
  BY <1>3 DEF Reply, Became
<1>4. ASSUME req[r].at \in {"lookup", "listed"}, NEW names \in Listings, Choose(r, names)
      PROVE  \E q : Became(r, q) /\ Goto(r, q)
  <2>1. req[r].name \in Names
    BY <1>1, <1>4 DEF Fits
  <2>2. names[req[r].name] \in Filespaces \cup {None}
    BY <1>4, <2>1 DEF Listings
  <2>3. CASE names[req[r].name] = None
    BY <1>3, <1>4, <2>3 DEF Choose
  <2>4. CASE names[req[r].name] \in Filespaces
    <3> DEFINE x == names[req[r].name]
               q == [req[r] EXCEPT !.at = "ready", !.fid = x, !.on = clock, !.seen = NoListing.names]
    <3>1. x # None
      BY <2>4, ServiceAssumption
    <3>2. Goto(r, q)
      BY <1>4, <3>1 DEF Choose
    <3>3. Ready(r, q, x)
      BY DEF Ready
    <3>4. QED
      BY <1>4, <2>4, <3>2, <3>3 DEF Became
  <2>5. QED
    BY <2>2, <2>3, <2>4
<1>5. CASE Arrive(r)
  BY <1>5 DEF Arrive, Became
<1>6. CASE Verify(r)
  <2>1. req[r].bearer \in Jwts
    BY <1>1, <1>6 DEF Verify, Fits, AsOwner
  <2>2. CASE cache[req[r].bearer].until > clock
    BY <1>2, <1>6, <2>1, <2>2 DEF Verify
  <2>3. CASE ~(cache[req[r].bearer].until > clock)
    BY <1>6, <2>3 DEF Verify, Became
  <2>4. QED
    BY <2>2, <2>3
<1>7. CASE AskSupabase(r)
  <2>1. req[r].bearer \in Jwts /\ identity[req[r].bearer] \in Verdicts
    BY <1>1, <1>7 DEF AskSupabase, Fits, AsOwner, Base, World
  <2>2. QED
    BY <1>7, <2>1 DEF AskSupabase, Became
<1>8. CASE TakeAnswer(r)
  BY <1>2, <1>3, <1>8 DEF TakeAnswer
<1>9. CASE Refuse(r)
  BY <1>3, <1>9 DEF Refuse
<1>10. CASE Resolve(r)
  <2>1. \A w \in Picked(row, req[r].asked) : w \in row.list
    BY DEF Picked
  <2>2. QED
    BY <1>3, <1>10, <2>1 DEF Resolve, Became
<1>11. CASE Lookup(r)
  <2>1. req[r].token \in Tokens
    BY <1>1, <1>11 DEF Lookup, Fits, WithToken
  <2>2. listing[req[r].token].names \in Listings
    BY <2>1 DEF Base, Memory, Known
  <2>3. CASE listing[req[r].token].until > clock
    BY <1>4, <1>11, <2>2, <2>3 DEF Lookup
  <2>4. CASE ~(listing[req[r].token].until > clock)
    BY <1>11, <2>4 DEF Lookup, Became
  <2>5. QED
    BY <2>3, <2>4
<1>12. CASE List(r)
  BY <1>3, <1>12 DEF List, Became
<1>13. CASE Listed(r)
  <2>1. req[r].seen \in Listings
    BY <1>1 DEF ReqState
  <2>2. QED
    BY <1>4, <1>13, <2>1 DEF Listed
<1>14. CASE Acquire(r)
  BY <1>3, <1>14 DEF Acquire, Became
<1>15. CASE Finish(r)
  BY <1>3, <1>15 DEF Finish
<1>16. clock' = clock /\ UNCHANGED vaultVars
  BY DEF Arrive, RequestStep, Verify, AskSupabase, TakeAnswer, Refuse, Resolve, Lookup, List, Listed, Acquire, Finish
<1>17. QED
  BY <1>5, <1>6, <1>7, <1>8, <1>9, <1>10, <1>11, <1>12, <1>13, <1>14, <1>15, <1>16 DEF RequestStep

LEMMA RequestsKeepFit ==
  ASSUME Base, NEW r \in Requests, Arrive(r) \/ RequestStep(r)
  PROVE  ReqTypes' /\ ReqsFit' /\ VaultInv'
<1>1. PICK q : Became(r, q) /\ Goto(r, q)
  BY StepBecomes
<1>2. q \in ReqState /\ Fits(q)
  BY <1>1, BecameFits
<1>3. ReqTypes
  BY DEF Base
<1>4. ReqTypes' /\ req'[r] = q /\ \A s \in Requests \ {r} : req'[s] = req[s]
  BY <1>1, <1>2, <1>3, GotoOne
<1>5. clock' = clock /\ UNCHANGED vaultVars
  BY StepBecomes
<1>6. \A s \in Requests : Fits(req'[s])
  BY <1>2, <1>4 DEF Base, ReqsFit
<1>7. ReqsFit'
  BY <1>5, <1>6 DEF ReqsFit, Fits
<1>8. VaultInv'
  BY <1>5, StutterKeeps DEF Base
<1>9. QED
  BY <1>4, <1>7, <1>8

-------------------------------------------------------------------------------
(* The registry of clients.                                                 *)

LEMMA OpenedClients ==
  ASSUME NEW t, NEW c \in Opened(t)
  PROVE  t \in c /\ c \subseteq clients \cup {t}
<1>1. CASE t \in clients
  BY <1>1 DEF Opened
<1>2. CASE t \notin clients
  <2>1. PICK s \in Sized(clients, MaxClients - 1) : c = s \cup {t}
    BY <1>2 DEF Opened
  <2>2. QED
    BY <2>1 DEF Sized
<1>3. QED
  BY <1>1, <1>2

LEMMA LinkedPairs ==
  ASSUME NEW old, NEW t, NEW x, NEW k \in Linked(old, t, x)
  PROVE  <<t, x>> \in k /\ k \subseteq old \cup {<<t, x>>}
<1>1. CASE <<t, x>> \in old
  BY <1>1 DEF Linked
<1>2. CASE <<t, x>> \notin old
  <2>1. PICK s \in Sized(old \cap OfToken(t), MaxLinks - 1) : k = (old \ OfToken(t)) \cup s \cup {<<t, x>>}
    BY <1>2 DEF Linked
  <2>2. QED
    BY <2>1 DEF Sized
<1>3. QED
  BY <1>1, <1>2

\* What the registry keeps stays linked, whatever releasing the rest does.
LEMMA Released ==
  ASSUME links \in SUBSET Pairs, up \in SUBSET Pairs, links \subseteq up,
         NEW kept \in SUBSET Pairs, Release(kept) \/ (Drop(kept) /\ kept \subseteq links)
  PROVE  links' = kept /\ links' \subseteq up' /\ up' \in SUBSET Pairs
BY DEF Release, Drop

\* The registry is within its pairs, and what it holds is linked.
Registry ==
  /\ clients \in SUBSET Tokens /\ links \in SUBSET Pairs /\ up \in SUBSET Pairs
  /\ lock \in Requests \cup {None} /\ links \subseteq up

LEMMA RegistryKept ==
  ASSUME Base, links \subseteq up, NEW r \in Requests, Arrive(r) \/ RequestStep(r)
  PROVE  Registry'
<1>1. /\ clients \in SUBSET Tokens /\ links \in SUBSET Pairs /\ up \in SUBSET Pairs
      /\ lock \in Requests \cup {None} /\ req[r] \in ReqState /\ Fits(req[r])
  BY DEF Base, Memory, ReqTypes, ReqsFit
<1>2. \A cs : Beneath(cs) \subseteq links
  BY DEF Beneath
<1>3. CASE UNCHANGED <<clients, links, up, lock>>
  BY <1>1, <1>3 DEF Registry
<1>4. CASE List(r)
  <2> DEFINE t == req[r].token
  <2>1. t \in Tokens
    BY <1>1, <1>4 DEF List, Fits, WithToken
  <2>2. lock' = lock
    BY <1>4 DEF List
  <2>3. ASSUME clients' \in Opened(t), Release(Beneath(clients')) \/ Drop(Beneath(clients'))
        PROVE  Registry'
    <3>1. clients' \in SUBSET Tokens
      BY <1>1, <2>1, <2>3, OpenedClients
    <3>2. Beneath(clients') \in SUBSET Pairs /\ Beneath(clients') \subseteq links
      BY <1>1, <1>2
    <3>3. links' \in SUBSET Pairs /\ links' \subseteq up' /\ up' \in SUBSET Pairs
      BY <1>1, <2>3, <3>2, Released
    <3>4. QED
      BY <1>1, <2>2, <3>1, <3>3 DEF Registry
  <2>4. QED
    BY <1>3, <1>4, <2>2, <2>3 DEF List
<1>5. CASE Acquire(r)
  <2> DEFINE t == req[r].token
             x == req[r].fid
  <2>1. t \in Tokens /\ x \in Filespaces
    BY <1>1, <1>5 DEF Acquire, Fits, WithToken
  <2>2. lock' \in Requests \cup {None}
    BY <1>1, <1>5 DEF Acquire, poolVars
  <2>3. ASSUME clients' \in Opened(t)
        PROVE  /\ clients' \in SUBSET Tokens
               /\ Beneath(clients') \in SUBSET Pairs /\ Beneath(clients') \subseteq links
    BY <1>1, <1>2, <2>1, <2>3, OpenedClients
  <2>4. ASSUME clients' \in Opened(t), \E kept \in Linked(Beneath(clients'), t, x) : Release(kept)
        PROVE  Registry'
    <3>1. PICK kept \in Linked(Beneath(clients'), t, x) : Release(kept)
      BY <2>4
    <3>2. kept \subseteq Beneath(clients') \cup {<<t, x>>}
      BY <3>1, LinkedPairs
    <3>3. <<t, x>> \in Pairs
      BY <2>1 DEF Pairs
    <3>4. kept \in SUBSET Pairs
      BY <2>3, <2>4, <3>2, <3>3
    <3>5. links' \in SUBSET Pairs /\ links' \subseteq up' /\ up' \in SUBSET Pairs
      BY <1>1, <3>1, <3>4, Released
    <3>6. QED
      BY <2>2, <2>3, <2>4, <3>5 DEF Registry
  <2>5. ASSUME clients' \in Opened(t), Drop(Beneath(clients'))
        PROVE  Registry'
    <3>1. links' \in SUBSET Pairs /\ links' \subseteq up' /\ up' \in SUBSET Pairs
      BY <1>1, <2>3, <2>5, Released
    <3>2. QED
      BY <2>2, <2>3, <2>5, <3>1 DEF Registry
  <2>6. CASE UNCHANGED poolVars
    BY <1>3, <2>6 DEF poolVars
  <2>7. QED
    BY <1>5, <2>4, <2>5, <2>6 DEF Acquire
<1>6. CASE Finish(r)
  BY <1>1, <1>6 DEF Finish, Registry
<1>7. ASSUME \/ Arrive(r) \/ Verify(r) \/ AskSupabase(r) \/ TakeAnswer(r) \/ Refuse(r) \/ Resolve(r)
             \/ Lookup(r) \/ Listed(r)
      PROVE  UNCHANGED <<clients, links, up, lock>>
  BY <1>7 DEF Arrive, Verify, AskSupabase, TakeAnswer, Refuse, Resolve, Lookup, Listed, poolVars
<1>8. QED
  BY <1>3, <1>4, <1>5, <1>6, <1>7 DEF RequestStep

-------------------------------------------------------------------------------
(* The base is kept by every step.                                          *)

\* What the clock and the world say is of its type whatever happens outside.
LEMMA WorldKept == ASSUME Base, Next PROVE World'
<1>1. /\ clock \in 0..MaxClock /\ identity \in [Jwts -> Verdicts]
      /\ leftAt \in [Jwts -> [Verdicts -> Int]] /\ named \in [Tokens -> Listings] /\ goneAt \in [Keys -> Int]
  BY DEF Base, World
<1>2. CASE UNCHANGED <<clock, identity, leftAt, named, goneAt>>
  BY <1>1, <1>2 DEF World
<1>3. CASE Tick
  <2>1. clock' \in 0..MaxClock
    BY <1>1, <1>3, Numbers DEF Tick
  <2>2. UNCHANGED <<identity, leftAt, named, goneAt>>
    BY <1>3 DEF Tick, authVars, nameVars
  <2>3. QED
    BY <1>1, <2>1, <2>2 DEF World
<1>4. ASSUME NEW j \in Jwts, IdentityChanges(j) PROVE World'
  <2>1. PICK v \in Verdicts : identity' = [identity EXCEPT ![j] = v]
    BY <1>4 DEF IdentityChanges
  <2>2. identity' \in [Jwts -> Verdicts]
    BY <1>1, <2>1
  <2>3. clock \in Int
    BY <1>1, Numbers
  <2>4. [leftAt[j] EXCEPT ![identity[j]] = clock] \in [Verdicts -> Int]
    BY <1>1, <2>3
  <2>5. leftAt' = [leftAt EXCEPT ![j] = [leftAt[j] EXCEPT ![identity[j]] = clock]]
    BY <1>4 DEF IdentityChanges
  <2>6. leftAt' \in [Jwts -> [Verdicts -> Int]]
    BY <1>1, <2>4, <2>5
  <2>7. UNCHANGED <<clock, named, goneAt>>
    BY <1>4 DEF IdentityChanges, nameVars
  <2>8. QED
    BY <1>1, <2>2, <2>6, <2>7 DEF World
<1>5. ASSUME NEW t \in Tokens, NEW n \in Names, Rename(t, n) PROVE World'
  <2>1. PICK x \in Filespaces \cup {None} : named' = [named EXCEPT ![t] = [named[t] EXCEPT ![n] = x]]
    BY <1>5 DEF Rename
  <2>2. [named[t] EXCEPT ![n] = x] \in Listings
    BY <1>1 DEF Listings
  <2>3. named' \in [Tokens -> Listings]
    BY <1>1, <2>1, <2>2
  <2>4. clock \in Int
    BY <1>1, Numbers
  <2>5. goneAt' \in [Keys -> Int]
    BY <1>1, <1>5, <2>4 DEF Rename
  <2>6. UNCHANGED <<clock, identity, leftAt>>
    BY <1>5 DEF Rename, authVars
  <2>7. QED
    BY <1>1, <2>3, <2>5, <2>6 DEF World
<1>6. ASSUME NEW r \in Requests, Arrive(r) \/ RequestStep(r) PROVE UNCHANGED <<clock, identity, leftAt, named, goneAt>>
  BY <1>6 DEF Arrive, RequestStep, Verify, AskSupabase, TakeAnswer, Refuse, Resolve, Lookup, List, Listed, Acquire, Finish,
              authVars, nameVars
<1>7. ASSUME VaultStep \/ Restart \/ \E h \in hints : SendHint(h)
      PROVE  UNCHANGED <<clock, identity, leftAt, named, goneAt>>
  BY <1>7 DEF VaultStep, Restart, SendHint, authVars, nameVars
<1>8. QED
  BY <1>2, <1>3, <1>4, <1>5, <1>6, <1>7 DEF Next

\* What is remembered between requests is of its type.
Caches == cache \in [Jwts -> Entry] /\ listing \in [Tokens -> Known]

LEMMA CachesKept == ASSUME Base, Next PROVE Caches'
<1>1. cache \in [Jwts -> Entry] /\ listing \in [Tokens -> Known] /\ clock \in 0..MaxClock
  BY DEF Base, Memory, World
<1>2. CASE UNCHANGED <<cache, listing>>
  BY <1>1, <1>2 DEF Caches
<1>3. NoEntry \in Entry /\ NoListing \in Known
  BY DEF NoEntry, Entry, Verdicts, NoListing, Known, Listings
<1>4. CASE Restart
  BY <1>3, <1>4 DEF Restart, Caches
<1>5. ASSUME NEW r \in Requests, Verify(r) PROVE Caches'
  <2>1. cache' = cache \/ cache' = [cache EXCEPT ![req[r].bearer] = NoEntry]
    BY <1>5 DEF Verify
  <2>2. cache' \in [Jwts -> Entry]
    BY <1>1, <1>3, <2>1
  <2>3. QED
    BY <1>1, <1>5, <2>2 DEF Verify, nameVars, Caches
<1>6. ASSUME NEW r \in Requests, TakeAnswer(r) PROVE Caches'
  <2>1. listing' = listing
    BY <1>6 DEF TakeAnswer, nameVars
  <2>2. CASE cache' = cache
    BY <1>1, <2>1, <2>2 DEF Caches
  <2>3. CASE req[r].answer # "error"
    <3> DEFINE v == req[r].answer
               entry == [until |-> clock + TTL(v), verdict |-> v]
    <3>1. v \in Verdicts
      BY <1>6, <2>3 DEF Base, ReqTypes, ReqState
    <3>2. clock + TTL(v) \in Nat
      BY <1>1, <3>1, Numbers
    <3>3. entry \in Entry
      BY <3>1, <3>2 DEF Entry
    <3>4. CachePut(req[r].bearer, entry)
      BY <1>6, <2>3 DEF TakeAnswer
    <3> HIDE DEF entry
    <3>5. cache' \in [Jwts -> Entry]
      BY <1>1, <1>3, <3>3, <3>4 DEF CachePut
    <3>6. QED
      BY <1>1, <2>1, <3>5 DEF Caches
  <2>4. QED
    BY <1>6, <2>2, <2>3 DEF TakeAnswer
<1>7. ASSUME NEW r \in Requests, Listed(r) PROVE Caches'
  <2> DEFINE entry == [until |-> req[r].on + ListTTL, names |-> req[r].seen]
  <2>1. req[r].seen \in Listings /\ req[r].on \in 0..MaxClock
    BY DEF Base, ReqTypes, ReqState
  <2>2. req[r].on + ListTTL \in Nat
    BY <2>1, Numbers
  <2>3. entry \in Known
    BY <2>1, <2>2 DEF Known
  <2>4. listing' = [listing EXCEPT ![req[r].token] = entry] /\ cache' = cache
    BY <1>7 DEF Listed, authVars
  <2> HIDE DEF entry
  <2>5. QED
    BY <1>1, <2>3, <2>4 DEF Caches
<1>8. ASSUME NEW r \in Requests,
             \/ Arrive(r) \/ AskSupabase(r) \/ Refuse(r) \/ Resolve(r) \/ Lookup(r) \/ List(r)
             \/ Acquire(r) \/ Finish(r)
      PROVE  UNCHANGED <<cache, listing>>
  BY <1>8 DEF Arrive, AskSupabase, Refuse, Resolve, Lookup, List, Acquire, Finish, authVars, nameVars
<1>9. ASSUME \/ Tick \/ VaultStep
             \/ \E j \in Jwts : IdentityChanges(j)
             \/ \E t \in Tokens, n \in Names : Rename(t, n)
             \/ \E h \in hints : SendHint(h)
      PROVE  UNCHANGED <<cache, listing>>
  BY <1>9 DEF Tick, VaultStep, IdentityChanges, Rename, SendHint, authVars, nameVars
<1>10. QED
  BY <1>2, <1>4, <1>5, <1>6, <1>7, <1>8, <1>9 DEF Next, RequestStep

\* The vault's invariant, and its refinement, do not depend on the requests.
LEMMA VaultKept == ASSUME VaultInv, Next PROVE VaultInv' /\ [VaultNext]_vaultVars
<1>1. CASE VaultStep
  BY <1>1, EditorKeeps DEF VaultStep, VaultNext
<1>2. CASE Restart
  BY <1>2, RestartKeeps DEF Restart, VaultNext
<1>3. CASE UNCHANGED vaultVars
  BY <1>3, StutterKeeps
<1>4. ASSUME NEW r \in Requests, Arrive(r) \/ RequestStep(r) PROVE UNCHANGED vaultVars
  BY <1>4 DEF Arrive, RequestStep, Verify, AskSupabase, TakeAnswer, Refuse, Resolve, Lookup, List, Listed, Acquire, Finish
<1>5. ASSUME \/ Tick
             \/ \E j \in Jwts : IdentityChanges(j)
             \/ \E t \in Tokens, n \in Names : Rename(t, n)
             \/ \E h \in hints : SendHint(h)
      PROVE  UNCHANGED vaultVars
  BY <1>5 DEF Tick, IdentityChanges, Rename, SendHint
<1>6. QED
  BY <1>1, <1>2, <1>3, <1>4, <1>5 DEF Next

\* Apart from its own steps, a request is left alone or, by a restart, idle.
LEMMA OthersMove ==
  ASSUME Next
  PROVE  \/ \E r \in Requests : Arrive(r) \/ RequestStep(r)
         \/ req' = req /\ UNCHANGED <<clients, links, up, lock>>
         \/ Restart
BY DEF Next, Tick, VaultStep, IdentityChanges, Rename, SendHint, poolVars

LEMMA RequestsKept == ASSUME Base, World', Next PROVE ReqTypes' /\ ReqsFit'
<1>1. CASE \E r \in Requests : Arrive(r) \/ RequestStep(r)
  BY <1>1, RequestsKeepFit
<1>2. CASE Restart
  <2>1. req' = [r \in Requests |-> IdleReq] /\ IdleReq \in ReqState /\ IdleReq.at = "idle" /\ IdleReq.on = 0
    BY <1>2, IdleFits DEF Restart
  <2>2. 0 <= clock'
    BY Numbers DEF World
  <2>3. QED
    BY <2>1, <2>2 DEF ReqTypes, ReqsFit, Fits, AsOwner, WithToken
<1>3. CASE req' = req
  <2>1. clock' >= clock
    <3>1. clock \in Int
      BY Numbers DEF Base, World
    <3>2. CASE clock' = clock
      BY <3>1, <3>2
    <3>3. CASE Tick
      BY <3>1, <3>3 DEF Tick
    <3>4. ASSUME NEW r \in Requests, Arrive(r) \/ RequestStep(r) PROVE clock' = clock
      BY <3>4, StepBecomes
    <3>5. ASSUME \/ VaultStep \/ Restart
                 \/ \E j \in Jwts : IdentityChanges(j)
                 \/ \E t \in Tokens, n \in Names : Rename(t, n)
                 \/ \E h \in hints : SendHint(h)
          PROVE  clock' = clock
      BY <3>5 DEF VaultStep, Restart, IdentityChanges, Rename, SendHint
    <3>6. QED
      BY <3>2, <3>3, <3>4, <3>5 DEF Next
  <2>2. clock \in Int /\ clock' \in Int
    BY Numbers DEF Base, World
  <2>3. \A r \in Requests : req[r] \in ReqState /\ Fits(req[r])
    BY DEF Base, ReqTypes, ReqsFit
  <2>4. ASSUME NEW r \in Requests PROVE req[r].on <= clock'
    <3>1. req[r].on \in 0..MaxClock /\ req[r].on <= clock
      BY <2>3 DEF ReqState, Fits
    <3>2. QED
      BY <2>1, <2>2, <3>1, Numbers
  <2>5. ReqsFit'
    BY <1>3, <2>3, <2>4 DEF ReqsFit, Fits
  <2>6. QED
    BY <1>3, <2>5 DEF Base, ReqTypes
<1>4. QED
  BY <1>1, <1>2, <1>3, OthersMove

LEMMA RegistryKeptByAll == ASSUME Base, links \subseteq up, Next PROVE Registry'
<1>1. CASE Restart
  BY <1>1 DEF Restart, Registry
<1>2. CASE UNCHANGED <<clients, links, up, lock>>
  BY <1>2 DEF Base, Memory, Registry
<1>3. QED
  BY <1>1, <1>2, RegistryKept, OthersMove

\* The base, and with it what the registry holds is linked.
Sound == Base /\ links \subseteq up

LEMMA SoundAtFirst == ASSUME Init PROVE Sound
<1>1. VaultInv
  BY InitHolds DEF Init
<1>2. PICK load \in Loads : clock = load.clock
  BY DEF Init
<1>3. clock \in 0..MaxClock
  BY <1>2, ServiceAssumption
<1>4. World
  BY <1>3, ServiceAssumption DEF Init, World, Never, Keys
<1>5. Memory
  BY DEF Init, Memory, NoEntry, Entry, Verdicts, NoListing, Known, Listings
<1>6. ReqTypes /\ ReqsFit
  <2>1. \A r \in Requests : req[r] = IdleReq
    BY DEF Init
  <2>2. 0 <= clock
    BY <1>3, Numbers
  <2>3. QED
    BY <2>1, <2>2, IdleFits DEF Init, ReqTypes, ReqsFit, Fits, AsOwner, WithToken
<1>7. links \subseteq up
  BY DEF Init
<1>8. QED
  BY <1>1, <1>4, <1>5, <1>6, <1>7 DEF Sound, Base

LEMMA SoundKept == ASSUME Sound, Next PROVE Sound'
<1>1. Base /\ links \subseteq up /\ VaultInv
  BY DEF Sound, Base
<1>2. World' /\ Caches' /\ Registry' /\ VaultInv'
  BY <1>1, WorldKept, CachesKept, RegistryKeptByAll, VaultKept
<1>3. ReqTypes' /\ ReqsFit'
  BY <1>1, <1>2, RequestsKept
<1>4. Memory'
  BY <1>2 DEF Caches, Registry, Memory
<1>5. QED
  BY <1>2, <1>3, <1>4 DEF Sound, Base, Registry

LEMMA SoundStutters == ASSUME Sound, UNCHANGED vars PROVE Sound'
<1>1. VaultInv'
  BY StutterKeeps DEF vars, Sound, Base
<1>2. World' /\ Memory' /\ ReqTypes' /\ links' \subseteq up'
  BY DEF vars, authVars, nameVars, poolVars, Sound, Base, World, Memory, ReqTypes
<1>3. ReqsFit'
  BY DEF vars, Sound, Base, ReqsFit, Fits
<1>4. QED
  BY <1>1, <1>2, <1>3 DEF Sound, Base

(* Sound is inductive: every value has its type, a request knows what its   *)
(* place needs, and what the registry keeps is linked (`_get_session`,      *)
(* `_Session.link`), whatever requests, saves and restarts do.              *)
THEOREM SoundAlways == Spec => []Sound
<1>1. Init => Sound
  BY SoundAtFirst
<1>2. Sound /\ [Next]_vars => Sound'
  BY SoundKept, SoundStutters
<1>3. QED
  BY <1>1, <1>2, PTL DEF Spec

(* The file service uses the vault as VaultSpec describes it, so what is    *)
(* proved of the vault holds here (`_vault_resolve` only reads the row).    *)
THEOREM ServiceKeepsTheVault == Spec => VaultSpec
<1>1. Init => VaultInit
  BY DEF Init
<1>2. Sound /\ [Next]_vars => [VaultNext]_vaultVars
  <2>1. Sound /\ Next => [VaultNext]_vaultVars
    BY VaultKept DEF Sound, Base
  <2>2. UNCHANGED vars => UNCHANGED vaultVars
    BY DEF vars
  <2>3. QED
    BY <2>1, <2>2
<1>3. QED
  BY <1>1, <1>2, SoundAlways, PTL DEF Spec, VaultSpec

-------------------------------------------------------------------------------
(* A hint names a workspace and the token it had.                           *)

\* The tokens of the row are held, and what a request has of the vault was.
HintsInv ==
  /\ Holders(row) \subseteq held
  /\ \A r \in Requests : req[r].wid # None => <<req[r].wid, req[r].token>> \in held
  /\ HintsNameTheirWorkspace

LEMMA BecameHolds ==
  ASSUME Sound, HintsInv, NEW r \in Requests, NEW q, Became(r, q)
  PROVE  q.wid # None => <<q.wid, q.token>> \in held
<1>1. req[r] \in ReqState
  BY DEF Sound, Base, ReqTypes
<1>2. CASE req[r].at = "vault" /\ \E w \in row.list : /\ row.token[w] # Blank
                                                     /\ q = [req[r] EXCEPT !.at = "lookup", !.token = row.token[w], !.wid = w]
  <2>1. PICK w \in row.list : row.token[w] # Blank /\ q = [req[r] EXCEPT !.at = "lookup", !.token = row.token[w], !.wid = w]
    BY <1>2
  <2>2. <<w, row.token[w]>> \in Holders(row)
    BY <2>1 DEF Holders
  <2>3. q.wid = w /\ q.token = row.token[w]
    BY <1>1, <2>1 DEF ReqState
  <2>4. QED
    BY <2>2, <2>3 DEF HintsInv
<1>3. CASE q.wid = req[r].wid /\ q.token = req[r].token
  BY <1>3 DEF HintsInv
<1>4. CASE q.wid = None
  BY <1>4
<1>5. IdleReq.wid = None
  BY IdleFits
<1>6. CASE \E a \in Asks : q = [IdleReq EXCEPT !.at = IF a.bearer \in Jwts THEN "verify" ELSE "lookup", !.bearer = a.bearer,
                                         !.asked = a.asked, !.name = a.name, !.writes = a.writes,
                                         !.token = IF a.bearer \in Jwts THEN None ELSE a.bearer]
  BY <1>4, <1>5, <1>6, IdleFits DEF ReqState
<1>7. CASE \E x \in Filespaces : Ready(r, q, x)
  BY <1>1, <1>3, <1>7 DEF Ready, ReqState
<1>8. CASE Verified(r, q)
  BY <1>1, <1>3, <1>8 DEF Verified, ReqState
<1>9. CASE \/ q = [req[r] EXCEPT !.at = "asking"]
           \/ \E v \in Verdicts \cup {"error"} : q = [req[r] EXCEPT !.at = "answered", !.on = clock, !.answer = v]
           \/ q = [req[r] EXCEPT !.at = "list", !.on = clock]
           \/ q = [req[r] EXCEPT !.at = "listed", !.seen = named[req[r].token]]
           \/ q = [req[r] EXCEPT !.at = "using"]
  BY <1>1, <1>3, <1>9 DEF ReqState
<1>10. QED
  BY <1>2, <1>4, <1>5, <1>6, <1>7, <1>8, <1>9 DEF Became

LEMMA HintsKept == ASSUME Sound, HintsInv, [Next]_vars PROVE HintsInv'
<1>1. CASE \E r \in Requests : Arrive(r) \/ RequestStep(r)
  <2>1. PICK r \in Requests : Arrive(r) \/ RequestStep(r)
    BY <1>1
  <2>2. PICK q : Became(r, q) /\ Goto(r, q)
    BY <2>1, StepBecomes DEF Sound
  <2>3. q.wid # None => <<q.wid, q.token>> \in held
    BY <2>2, BecameHolds
  <2>4. row' = row /\ held' = held
    BY <2>1 DEF Arrive, RequestStep, Verify, AskSupabase, TakeAnswer, Refuse, Resolve, Lookup, List, Listed, Acquire, Finish,
                vaultVars
  <2>5. \A s \in Requests : req'[s].wid # None => <<req'[s].wid, req'[s].token>> \in held'
    BY <2>2, <2>3, <2>4 DEF Goto, HintsInv, Sound, Base, ReqTypes
  <2>6. hints' \subseteq hints \cup Hint(r)
    BY <2>1 DEF Arrive, RequestStep, Verify, AskSupabase, TakeAnswer, Refuse, Resolve, Lookup, List, Listed, Acquire, Finish
  <2>7. \A h \in Hint(r) : <<h.wid, h.token>> \in held
    BY DEF Hint, HintsInv
  <2>8. HintsNameTheirWorkspace'
    BY <2>4, <2>6, <2>7 DEF HintsInv, HintsNameTheirWorkspace
  <2>9. QED
    BY <2>4, <2>5, <2>8 DEF HintsInv, Holders
<1>2. CASE Restart
  <2>1. row' = row /\ held' = held /\ hints' = {}
    BY <1>2 DEF Restart, VaultRestart
  <2>2. \A r \in Requests : req'[r].wid = None
    BY <1>2, IdleFits DEF Restart
  <2>3. QED
    BY <2>1, <2>2 DEF HintsInv, HintsNameTheirWorkspace, Holders
<1>3. CASE VaultStep
  <2>1. req' = req /\ hints' = hints /\ held' = held \cup Holders(row')
    BY <1>3 DEF VaultStep
  <2>2. Holders(row)' = Holders(row')
    BY DEF Holders
  <2>3. QED
    BY <2>1, <2>2 DEF HintsInv, HintsNameTheirWorkspace
<1>4. CASE hints' \subseteq hints /\ UNCHANGED <<row, req, held>>
  BY <1>4 DEF HintsInv, HintsNameTheirWorkspace, Holders
<1>5. ASSUME \/ Tick \/ UNCHANGED vars
             \/ \E j \in Jwts : IdentityChanges(j)
             \/ \E t \in Tokens, n \in Names : Rename(t, n)
             \/ \E h \in hints : SendHint(h)
      PROVE  hints' \subseteq hints /\ UNCHANGED <<row, req, held>>
  BY <1>5 DEF Tick, IdentityChanges, Rename, SendHint, vars, vaultVars
<1>6. QED
  BY <1>1, <1>2, <1>3, <1>4, <1>5 DEF Next

(* What the indexer is told after a write names the workspace that wrote    *)
(* with its own token, however the vault changed meanwhile (`_hint`).       *)
THEOREM HintsNameWhoWrote == Spec => []HintsNameTheirWorkspace
<1>1. Init => HintsInv
  <2>1. Init => \A r \in Requests : req[r].wid = None
    BY IdleFits DEF Init
  <2>2. QED
    BY <2>1 DEF Init, HintsInv, HintsNameTheirWorkspace
<1>2. Sound /\ HintsInv /\ [Next]_vars => HintsInv'
  BY HintsKept
<1>3. HintsInv => HintsNameTheirWorkspace
  BY DEF HintsInv
<1>4. QED
  BY <1>1, <1>2, <1>3, SoundAlways, PTL DEF Spec

-------------------------------------------------------------------------------
(* The registry is a client pool.                                           *)

\* Who uses a client holds the lock, and its link is in the registry.
UsersHoldTheLock ==
  \A r \in Requests : req[r].at = "using" => lock = r /\ <<req[r].token, req[r].fid>> \in links

\* What the pool is shown as the uses in progress.
Uses(rs) == {<<r, rs[r].token, rs[r].fid>> : r \in {q \in Requests : rs[q].at = "using"}}

\* A request that neither starts nor ends an operation changes no use.
LEMMA UsesStay ==
  ASSUME ReqTypes, NEW r \in Requests, NEW q \in ReqState, Goto(r, q), req[r].at # "using", q.at # "using"
  PROVE  Uses(req') = Uses(req)
BY DEF ReqTypes, Goto, Uses

LEMMA Elsewhere ==
  ASSUME NEW r \in Requests, NEW q, Became(r, q), Sound, req[r].at # "using", req[r].at # "ready"
  PROVE  q.at # "using"
<1>1. req[r] \in ReqState
  BY DEF Sound, Base, ReqTypes
<1>2. CASE \E a \in Asks : q = [IdleReq EXCEPT !.at = IF a.bearer \in Jwts THEN "verify" ELSE "lookup", !.bearer = a.bearer,
                                         !.asked = a.asked, !.name = a.name, !.writes = a.writes,
                                         !.token = IF a.bearer \in Jwts THEN None ELSE a.bearer]
  BY <1>2, IdleFits DEF ReqState
<1>3. CASE \/ Verified(r, q)
           \/ \E x \in Filespaces : Ready(r, q, x)
  BY <1>1, <1>3 DEF Verified, Ready, ReqState
<1>4. CASE \/ q = [req[r] EXCEPT !.at = "asking"]
           \/ \E v \in Verdicts \cup {"error"} : q = [req[r] EXCEPT !.at = "answered", !.on = clock, !.answer = v]
           \/ \E w \in row.list : q = [req[r] EXCEPT !.at = "lookup", !.token = row.token[w], !.wid = w]
           \/ q = [req[r] EXCEPT !.at = "list", !.on = clock]
           \/ q = [req[r] EXCEPT !.at = "listed", !.seen = named[req[r].token]]
  BY <1>1, <1>4 DEF ReqState
<1>5. CASE q = IdleReq
  BY <1>5, IdleFits
<1>6. QED
  BY <1>2, <1>3, <1>4, <1>5 DEF Became

\* While the lock is free nobody uses a client.
LEMMA FreeMeansUnused ==
  ASSUME UsersHoldTheLock, Free
  PROVE  \A r \in Requests : req[r].at # "using"
BY ServiceAssumption DEF UsersHoldTheLock, Free

\* A step that starts and ends no use only arranges the pool.
LEMMA Arranges ==
  ASSUME Sound', UsersHoldTheLock', Uses(req') = Uses(req)
  PROVE  Pool!Arrange
<1>1. Pool!InUse(Uses(req')) \subseteq up'
  BY DEF Pool!InUse, Uses, UsersHoldTheLock, Sound
<1>2. up' \in SUBSET Pool!Pairs
  BY DEF Sound, Base, Memory, Pairs, Pool!Pairs
<1>3. QED
  BY <1>1, <1>2 DEF Pool!Arrange, Uses

\* A step of a request that touches no lock, link or use.
LEMMA ElsewhereArranges ==
  ASSUME Sound, Sound', UsersHoldTheLock, NEW r \in Requests, Arrive(r) \/ RequestStep(r),
         UNCHANGED <<links, lock>>, req[r].at # "using", req[r].at # "ready"
  PROVE  UsersHoldTheLock' /\ Pool!Arrange
<1>1. PICK q : Became(r, q) /\ Goto(r, q)
  BY StepBecomes DEF Sound
<1>2. q.at # "using" /\ q \in ReqState /\ ReqTypes
  BY <1>1, Elsewhere, BecameFits DEF Sound, Base
<1>3. req'[r] = q /\ \A s \in Requests \ {r} : req'[s] = req[s]
  BY <1>1, <1>2, GotoOne
<1>4. UsersHoldTheLock'
  BY <1>2, <1>3 DEF UsersHoldTheLock
<1>5. Uses(req') = Uses(req)
  BY <1>1, <1>2, UsesStay
<1>6. QED
  BY <1>4, <1>5, Arranges

\* Listing filespaces opens and closes clients while the lock is free.
LEMMA ListArranges ==
  ASSUME Sound, Sound', UsersHoldTheLock, NEW r \in Requests, List(r)
  PROVE  UsersHoldTheLock' /\ Pool!Arrange
<1>1. PICK q : Became(r, q) /\ Goto(r, q)
  BY StepBecomes DEF Sound, RequestStep
<1>2. req[r].at = "list" /\ \A s \in Requests : req[s].at # "using"
  BY FreeMeansUnused DEF List
<1>3. q.at # "using" /\ q \in ReqState /\ ReqTypes
  BY <1>1, <1>2, Elsewhere, BecameFits DEF Sound, Base
<1>4. req'[r] = q /\ \A s \in Requests \ {r} : req'[s] = req[s]
  BY <1>1, <1>3, GotoOne
<1>5. UsersHoldTheLock'
  BY <1>2, <1>3, <1>4 DEF UsersHoldTheLock
<1>6. Uses(req') = Uses(req)
  BY <1>1, <1>2, <1>3, UsesStay
<1>7. QED
  BY <1>5, <1>6, Arranges

\* An operation starts when its link is there; one that does not start leaves no use.
LEMMA AcquireEnters ==
  ASSUME Sound, Sound', UsersHoldTheLock, NEW r \in Requests, Acquire(r)
  PROVE  UsersHoldTheLock' /\ (Pool!Enter \/ Pool!Arrange)
<1> DEFINE t == req[r].token
           x == req[r].fid
<1>1. req[r] \in ReqState /\ ReqTypes /\ req[r].at = "ready" /\ t \in Tokens /\ x \in Filespaces
  BY DEF Sound, Base, ReqTypes, ReqsFit, Fits, WithToken, Acquire
<1>2. \A s \in Requests : req[s].at # "using"
  BY FreeMeansUnused DEF Acquire
<1>3. CASE Reply(r)
  <2>1. Goto(r, IdleReq) /\ IdleReq \in ReqState /\ IdleReq.at # "using"
    BY <1>3, IdleFits DEF Reply
  <2>2. \A s \in Requests : req'[s].at # "using"
    BY <1>1, <1>2, <2>1, GotoOne
  <2>3. Uses(req') = Uses(req)
    BY <1>1, <2>1, UsesStay
  <2>4. UsersHoldTheLock'
    BY <2>2 DEF UsersHoldTheLock
  <2>5. QED
    BY <2>3, <2>4, Arranges
<1>4. CASE /\ \E kept \in Linked(Beneath(clients'), t, x) : Release(kept)
           /\ lock' = r
           /\ Goto(r, [req[r] EXCEPT !.at = "using"])
  <2> DEFINE q == [req[r] EXCEPT !.at = "using"]
  <2>1. q \in ReqState /\ q.at = "using" /\ q.token = t /\ q.fid = x
    BY <1>1 DEF ReqState, Places
  <2>2. req'[r] = q /\ \A s \in Requests \ {r} : req'[s] = req[s]
    BY <1>1, <1>4, <2>1, GotoOne
  <2>3. <<t, x>> \in links'
    <3>1. PICK kept \in Linked(Beneath(clients'), t, x) : Release(kept)
      BY <1>4
    <3>2. links' = kept
      BY <3>1 DEF Release
    <3>3. QED
      BY <3>1, <3>2, LinkedPairs
  <2> HIDE DEF q
  <2>4. UsersHoldTheLock'
    BY <1>2, <1>4, <2>1, <2>2, <2>3 DEF UsersHoldTheLock
  <2>5. Uses(req) = {} /\ Uses(req') = {<<r, t, x>>}
    BY <1>2, <2>1, <2>2 DEF Uses
  <2>6. <<t, x>> \in up'
    BY <2>3 DEF Sound
  <2>7. up' \in SUBSET Pool!Pairs
    BY DEF Sound, Base, Memory, Pairs, Pool!Pairs
  <2>8. <<r, t, x>> \in Pool!Uses
    BY <1>1 DEF Pool!Uses
  <2>9. Pool!Exclusive({<<r, t, x>>})
    BY DEF Pool!Exclusive
  <2>10. Pool!InUse({<<r, t, x>>}) \subseteq up'
    BY <2>6 DEF Pool!InUse
  <2>11. Pool!Enter
    <3> HIDE DEF t, x
    <3>1. Uses(req') = Uses(req) \cup {<<r, t, x>>} /\ <<r, t, x>> \notin Uses(req)
      BY <2>5
    <3>2. Pool!Exclusive(Uses(req')) /\ Pool!InUse(Uses(req')) \subseteq up'
      BY <2>5, <2>9, <2>10
    <3>3. QED
      BY <2>7, <2>8, <3>1, <3>2 DEF Pool!Enter, Uses
  <2>12. QED
    BY <2>4, <2>11
<1>5. QED
  BY <1>3, <1>4 DEF Acquire

LEMMA FinishLeaves ==
  ASSUME Sound, Sound', UsersHoldTheLock, NEW r \in Requests, Finish(r)
  PROVE  UsersHoldTheLock' /\ Pool!Leave
<1>1. req[r].at = "using" /\ lock = r /\ \A s \in Requests \ {r} : req[s].at # "using"
  BY DEF Finish, UsersHoldTheLock
<1>2. ReqTypes /\ Goto(r, IdleReq) /\ IdleReq \in ReqState /\ IdleReq.at = "idle"
  BY IdleFits DEF Finish, Reply, Sound, Base
<1>3. req'[r] = IdleReq /\ \A s \in Requests \ {r} : req'[s] = req[s]
  BY <1>2, GotoOne
<1>4. \A s \in Requests : req'[s].at # "using"
  BY <1>1, <1>2, <1>3
<1>5. Uses(req) = {<<r, req[r].token, req[r].fid>>} /\ Uses(req') = {}
  BY <1>1, <1>4 DEF Uses
<1>6. up' = up
  BY DEF Finish
<1>7. \E u \in Uses(req) : Uses(req') = Uses(req) \ {u}
  BY <1>5
<1>8. UsersHoldTheLock'
  BY <1>4 DEF UsersHoldTheLock
<1>9. QED
  BY <1>6, <1>7, <1>8 DEF Pool!Leave, Uses

LEMMA RestartEnds ==
  ASSUME Restart
  PROVE  UsersHoldTheLock' /\ Pool!End
<1>1. \A r \in Requests : req'[r].at # "using"
  BY IdleFits DEF Restart
<1>2. Uses(req') = {} /\ up' = {}
  BY <1>1 DEF Uses, Restart
<1>3. QED
  BY <1>1, <1>2 DEF UsersHoldTheLock, Pool!End, Uses

LEMMA PoolSteps ==
  ASSUME Sound, Sound', UsersHoldTheLock, Next
  PROVE  UsersHoldTheLock' /\ (Pool!PoolNext \/ UNCHANGED Pool!poolVars)
<1>1. ASSUME NEW r \in Requests, Arrive(r) \/ RequestStep(r)
      PROVE  UsersHoldTheLock' /\ Pool!PoolNext
  <2>1. CASE List(r)
    BY <2>1, ListArranges DEF Pool!PoolNext
  <2>2. CASE Acquire(r)
    BY <2>2, AcquireEnters DEF Pool!PoolNext
  <2>3. CASE Finish(r)
    BY <2>3, FinishLeaves DEF Pool!PoolNext
  <2>4. ASSUME \/ Arrive(r) \/ Verify(r) \/ AskSupabase(r) \/ TakeAnswer(r) \/ Refuse(r) \/ Resolve(r)
               \/ Lookup(r) \/ Listed(r)
        PROVE  UNCHANGED <<links, lock>> /\ req[r].at # "using" /\ req[r].at # "ready"
    BY <2>4 DEF Arrive, Verify, AskSupabase, TakeAnswer, Refuse, Resolve, Lookup, Listed, poolVars
  <2>5. QED
    BY <1>1, <2>1, <2>2, <2>3, <2>4, ElsewhereArranges DEF RequestStep, Pool!PoolNext
<1>2. CASE Restart
  BY <1>2, RestartEnds DEF Pool!PoolNext
<1>3. CASE req' = req /\ UNCHANGED <<clients, links, up, lock>>
  BY <1>3 DEF UsersHoldTheLock, Pool!poolVars
<1>4. QED
  BY <1>1, <1>2, <1>3, OthersMove

(* _get_session, _Session.link and _registry_lock implement a client pool:  *)
(* what an operation runs on stays linked and its client has no other user. *)
THEOREM RegistryIsAPool == Spec => KeepsPool
<1>1. Init => UsersHoldTheLock /\ Pool!PoolInit
  <2>1. Init => \A r \in Requests : req[r].at # "using"
    BY IdleFits DEF Init
  <2>2. Init => up = {}
    BY DEF Init
  <2>3. QED
    BY <2>1, <2>2 DEF UsersHoldTheLock, Pool!PoolInit
<1>2. Sound /\ Sound' /\ UsersHoldTheLock /\ [Next]_vars
        => UsersHoldTheLock' /\ [Pool!PoolNext]_(Pool!poolVars)
  <2>1. ASSUME UsersHoldTheLock, UNCHANGED vars PROVE UsersHoldTheLock' /\ UNCHANGED Pool!poolVars
    BY <2>1 DEF vars, poolVars, UsersHoldTheLock, Pool!poolVars
  <2>2. QED
    BY <2>1, PoolSteps
<1>3. QED
  BY <1>1, <1>2, SoundAlways, PTL DEF Spec, KeepsPool, Pool!PoolSpec

-------------------------------------------------------------------------------
(* The filespace a request works on.                                        *)

\* A name stood for a filespace at a time s or later, as far as nm and ga say.
Stands(nm, ga, t, n, x, s) == nm[t][n] = x \/ ga[<<t, n, x>>] >= s

\* A listing kept says nothing older than its age.
ListingsRecent ==
  \A t \in Tokens :
    /\ listing[t].until <= clock + ListTTL
    /\ \A n \in Names : listing[t].names[n] \in Filespaces =>
          Stands(named, goneAt, t, n, listing[t].names[n], listing[t].until - ListTTL)

\* Neither does the one a request has just been sent, nor its choice.
Recent(q, nm, ga, c) ==
  /\ q.at = "listed" => \A n \in Names : q.seen[n] \in Filespaces =>
       Stands(nm, ga, q.token, n, q.seen[n], q.on) /\ Stands(nm, ga, q.token, n, q.seen[n], c - Patience)
  /\ q.at \in {"ready", "using"} => Stands(nm, ga, q.token, q.name, q.fid, q.on - ListTTL + 1)

NamesInv == ListingsRecent /\ \A r \in Requests : Recent(req[r], named, goneAt, clock)

LEMMA WorldTypes ==
  ASSUME Sound
  PROVE  /\ clock \in Int /\ clock >= 0 /\ named \in [Tokens -> [Names -> Filespaces \cup {None}]]
         /\ goneAt \in [Tokens \X Names \X Filespaces -> Int]
         /\ \A t \in Tokens : listing[t].until \in Int /\ listing[t].names \in [Names -> Filespaces \cup {None}]
         /\ \A r \in Requests : req[r] \in ReqState /\ Fits(req[r]) /\ req[r].on \in Int /\ req[r].on <= clock
BY Numbers DEF Sound, Base, World, Memory, Known, Listings, Keys, ReqTypes, ReqsFit, ReqState, Fits

\* Only Rename touches names, and only Tick the clock.
LEMMA NamesAndClock ==
  ASSUME Sound, Next
  PROVE  /\ \/ UNCHANGED <<named, goneAt>>
            \/ \E t \in Tokens, n \in Names : Rename(t, n)
         /\ clock' = clock \/ Tick
         /\ clock' \in Int /\ clock' >= clock
<1>1. UNCHANGED <<named, goneAt>> \/ \E t \in Tokens, n \in Names : Rename(t, n)
  BY DEF Next, Tick, VaultStep, Restart, IdentityChanges, SendHint, Arrive, RequestStep, Verify, AskSupabase, TakeAnswer,
         Refuse, Resolve, Lookup, List, Listed, Acquire, Finish, nameVars
<1>2. clock' = clock \/ Tick
  BY DEF Next, VaultStep, Restart, IdentityChanges, Rename, SendHint, Arrive, RequestStep, Verify, AskSupabase, TakeAnswer,
         Refuse, Resolve, Lookup, List, Listed, Acquire, Finish
<1>3. clock \in Int
  BY WorldTypes
<1>4. QED
  BY <1>1, <1>2, <1>3 DEF Tick

\* What stood since a time that has passed stands since then.
LEMMA StandsKept ==
  ASSUME Sound, Next, NEW t \in Tokens, NEW n \in Names, NEW x \in Filespaces, NEW s \in Int, s <= clock,
         Stands(named, goneAt, t, n, x, s)
  PROVE  Stands(named', goneAt', t, n, x, s)
<1>1. CASE UNCHANGED <<named, goneAt>>
  BY <1>1 DEF Stands
<1>2. ASSUME NEW u \in Tokens, NEW m \in Names, Rename(u, m)
      PROVE  Stands(named', goneAt', t, n, x, s)
  <2>1. /\ named \in [Tokens -> [Names -> Filespaces \cup {None}]] /\ clock \in Int
        /\ goneAt \in [Tokens \X Names \X Filespaces -> Int] /\ x # None
    BY WorldTypes, ServiceAssumption
  <2>2. PICK y : named' = [named EXCEPT ![u][m] = y]
    BY <1>2 DEF Rename
  <2>3. goneAt' = IF named[u][m] = None THEN goneAt ELSE [goneAt EXCEPT ![<<u, m, named[u][m]>>] = clock]
    BY <1>2 DEF Rename
  <2>4. CASE named[u][m] = None
    <3>1. goneAt' = goneAt
      BY <2>3, <2>4
    <3>2. named[t][n] = x => named'[t][n] = x
      BY <2>1, <2>2, <2>4
    <3>3. QED
      BY <3>1, <3>2 DEF Stands
  <2>5. CASE named[u][m] \in Filespaces
    <3>1. <<u, m, named[u][m]>> \in Tokens \X Names \X Filespaces
      BY <2>5
    <3>2. goneAt' = [goneAt EXCEPT ![<<u, m, named[u][m]>>] = clock]
      BY <2>1, <2>3, <2>5, ServiceAssumption
    <3>3. CASE <<u, m, named[u][m]>> = <<t, n, x>>
      <4>1. goneAt'[<<t, n, x>>] = clock
        BY <2>1, <3>1, <3>2, <3>3
      <4>2. QED
        BY <4>1 DEF Stands
    <3>4. CASE <<u, m, named[u][m]>> # <<t, n, x>>
      <4>1. goneAt'[<<t, n, x>>] = goneAt[<<t, n, x>>]
        BY <2>1, <3>1, <3>2, <3>4
      <4>2. named[t][n] = x => named'[t][n] = x
        BY <2>1, <2>2, <3>4
      <4>3. QED
        BY <4>1, <4>2 DEF Stands
    <3>5. QED
      BY <3>3, <3>4
  <2>6. QED
    BY <2>1, <2>4, <2>5
<1>3. QED
  BY <1>1, <1>2, NamesAndClock

\* Later is weaker.
LEMMA StandsEarlier ==
  ASSUME NEW nm, NEW ga, NEW t, NEW n, NEW x, NEW s \in Int, NEW earlier \in Int, earlier <= s,
         ga[<<t, n, x>>] \in Int, Stands(nm, ga, t, n, x, s)
  PROVE  Stands(nm, ga, t, n, x, earlier)
BY DEF Stands

\* What a request knows ages no faster than it may.
LEMMA RecentKept ==
  ASSUME Sound, Sound', NamesInv, Next, NEW r \in Requests
  PROVE  Recent(req[r], named', goneAt', clock')
<1> DEFINE q == req[r]
<1>1. q \in ReqState /\ Fits(q) /\ q.on \in Int /\ q.on <= clock /\ clock \in Int /\ clock' \in Int
  BY WorldTypes, NamesAndClock
<1>2. ListTTL \in Int /\ Patience \in Int /\ 0 <= Patience /\ Patience < ListTTL
  BY Numbers
<1>3. Recent(q, named, goneAt, clock)
  BY DEF NamesInv
<1>4. \A t \in Tokens, n \in Names, x \in Filespaces : goneAt'[<<t, n, x>>] \in Int
  BY DEF Sound, Base, World, Keys
<1>5. ASSUME q.at = "listed", NEW n \in Names, q.seen[n] \in Filespaces
      PROVE  /\ Stands(named', goneAt', q.token, n, q.seen[n], q.on)
             /\ Stands(named', goneAt', q.token, n, q.seen[n], clock' - Patience)
  <2>1. q.token \in Tokens
    BY <1>1, <1>5 DEF Fits, WithToken
  <2>2. /\ Stands(named, goneAt, q.token, n, q.seen[n], q.on)
        /\ Stands(named, goneAt, q.token, n, q.seen[n], clock - Patience)
    BY <1>3, <1>5 DEF Recent
  <2> HIDE DEF q
  <2>3. clock - Patience \in Int /\ clock - Patience <= clock /\ clock' - Patience \in Int
    BY <1>1, <1>2
  <2>4. /\ Stands(named', goneAt', q.token, n, q.seen[n], q.on)
        /\ Stands(named', goneAt', q.token, n, q.seen[n], clock - Patience)
    BY <1>1, <1>5, <2>1, <2>2, <2>3, StandsKept
  <2>5. CASE clock' = clock
    BY <2>4, <2>5
  <2>6. CASE Tick
    <3>1. clock < q.on + Patience /\ clock' = clock + 1
      BY <1>5, <2>6 DEF Tick, Waiting, q
    <3>2. clock' - Patience <= q.on
      BY <1>1, <1>2, <3>1
    <3>3. QED
      BY <1>1, <1>4, <1>5, <2>1, <2>3, <2>4, <3>2, StandsEarlier
  <2>7. QED
    BY <2>5, <2>6, NamesAndClock
<1>6. ASSUME q.at \in {"ready", "using"}
      PROVE  Stands(named', goneAt', q.token, q.name, q.fid, q.on - ListTTL + 1)
  <2>1. q.token \in Tokens /\ q.name \in Names /\ q.fid \in Filespaces
    BY <1>1, <1>6 DEF Fits, WithToken
  <2>2. Stands(named, goneAt, q.token, q.name, q.fid, q.on - ListTTL + 1)
    BY <1>3, <1>6 DEF Recent
  <2> HIDE DEF q
  <2>3. q.on - ListTTL + 1 \in Int /\ q.on - ListTTL + 1 <= clock
    BY <1>1, <1>2
  <2>4. QED
    BY <2>1, <2>2, <2>3, StandsKept
<1>7. QED
  BY <1>5, <1>6 DEF Recent

LEMMA ListingsKept ==
  ASSUME Sound, Sound', NamesInv, Next
  PROVE  ListingsRecent'
<1>1. /\ clock \in Int /\ clock' \in Int /\ clock <= clock' /\ ListTTL \in Int /\ ListTTL > 0 /\ clock >= 0
      /\ \A t \in Tokens : listing[t].until \in Int
  BY WorldTypes, NamesAndClock, Numbers
<1>2. CASE UNCHANGED listing
  <2>1. ASSUME NEW t \in Tokens
        PROVE  listing[t].until <= clock' + ListTTL
    BY <1>1, <2>1 DEF NamesInv, ListingsRecent
  <2>2. ASSUME NEW t \in Tokens, NEW n \in Names, listing[t].names[n] \in Filespaces
        PROVE  Stands(named', goneAt', t, n, listing[t].names[n], listing[t].until - ListTTL)
    <3>1. Stands(named, goneAt, t, n, listing[t].names[n], listing[t].until - ListTTL)
      BY <2>2 DEF NamesInv, ListingsRecent
    <3>2. listing[t].until <= clock + ListTTL
      BY <2>2 DEF NamesInv, ListingsRecent
    <3>3. listing[t].until - ListTTL \in Int /\ listing[t].until - ListTTL <= clock
      BY <1>1, <2>2, <3>2
    <3>4. QED
      BY <2>2, <3>1, <3>3, StandsKept
  <2>3. QED
    BY <1>2, <2>1, <2>2 DEF ListingsRecent
<1>3. CASE Restart
  <2>1. \A t \in Tokens : listing'[t] = NoListing
    BY <1>3 DEF Restart
  <2>2. NoListing.until = 0 /\ \A n \in Names : NoListing.names[n] \notin Filespaces
    BY ServiceAssumption DEF NoListing
  <2>3. 0 <= clock' + ListTTL
    BY <1>1
  <2>4. QED
    BY <2>1, <2>2, <2>3 DEF ListingsRecent
<1>4. ASSUME NEW r \in Requests, Listed(r) PROVE ListingsRecent'
  <2> DEFINE u == req[r].token
  <2>1. /\ req[r].at = "listed" /\ u \in Tokens /\ req[r].on \in Int /\ req[r].on <= clock
    BY <1>4, WorldTypes DEF Listed, Fits, WithToken
  <2>2. UNCHANGED <<named, goneAt, clock>>
    BY <1>4 DEF Listed
  <2>3. /\ listing'[u].until = req[r].on + ListTTL /\ listing'[u].names = req[r].seen
        /\ \A t \in Tokens \ {u} : listing'[t] = listing[t]
    BY <1>4, <2>1 DEF Listed, Sound, Base, Memory
  <2>4. req[r].on + ListTTL <= clock + ListTTL /\ (req[r].on + ListTTL) - ListTTL = req[r].on
    BY <1>1, <2>1
  <2>5. \A n \in Names : req[r].seen[n] \in Filespaces =>
            Stands(named, goneAt, u, n, req[r].seen[n], req[r].on)
    BY <2>1 DEF NamesInv, Recent
  <2>6. ASSUME NEW t \in Tokens
        PROVE  /\ listing'[t].until <= clock + ListTTL
               /\ \A n \in Names : listing'[t].names[n] \in Filespaces =>
                    Stands(named, goneAt, t, n, listing'[t].names[n], listing'[t].until - ListTTL)
    <3>1. CASE t = u
      BY <2>3, <2>4, <2>5, <3>1
    <3>2. CASE t # u
      BY <2>3, <2>6, <3>2 DEF NamesInv, ListingsRecent
    <3>3. QED
      BY <3>1, <3>2
  <2>7. QED
    BY <2>2, <2>6 DEF ListingsRecent
<1>5. UNCHANGED listing \/ Restart \/ \E r \in Requests : Listed(r)
  BY DEF Next, Tick, VaultStep, IdentityChanges, Rename, SendHint, Arrive, RequestStep, Verify, AskSupabase, TakeAnswer,
         Refuse, Resolve, Lookup, List, Acquire, Finish, nameVars
<1>6. QED
  BY <1>2, <1>3, <1>4, <1>5

\* A name chosen from a listing stood for its filespace within a listing's age.
LEMMA ChoiceIsRecent ==
  ASSUME Sound, Sound', NEW r \in Requests, NEW names \in Listings, NEW s \in Int, req[r].at \in {"lookup", "listed"},
         Choose(r, names), UNCHANGED <<named, goneAt, clock>>, s >= clock - ListTTL + 1,
         \A n \in Names : names[n] \in Filespaces => Stands(named, goneAt, req[r].token, n, names[n], s)
  PROVE  Recent(req'[r], named, goneAt, clock)
<1> DEFINE p == req[r]
           x == names[p.name]
<1>1. p \in ReqState /\ p.token \in Tokens /\ p.name \in Names /\ ReqTypes
  BY WorldTypes DEF Fits, WithToken, Sound, Base
<1>2. CASE x = None
  <2>1. req'[r] = IdleReq
    BY <1>1, <1>2, IdleFits, GotoOne DEF Choose, Reply
  <2>2. QED
    BY <2>1, IdleFits DEF Recent
<1>3. CASE x # None
  <2> DEFINE q == [p EXCEPT !.at = "ready", !.fid = x, !.on = clock, !.seen = NoListing.names]
  <2>1. x \in Filespaces
    BY <1>1, <1>3 DEF Listings
  <2>2. Goto(r, q)
    BY <1>3 DEF Choose
  <2>3. q.at = "ready" /\ q.fid = x /\ q.on = clock /\ q.token = p.token /\ q.name = p.name
    BY <1>1 DEF ReqState
  <2>4. req'[r] = q
    BY <1>1, <2>2 DEF Goto, ReqTypes
  <2> HIDE DEF q
  <2>5. Stands(named, goneAt, p.token, p.name, x, s)
    BY <1>1, <2>1
  <2>6. clock \in Int /\ clock - ListTTL + 1 \in Int /\ goneAt[<<p.token, p.name, x>>] \in Int
    BY <1>1, <2>1, WorldTypes, Numbers
  <2>7. Stands(named, goneAt, p.token, p.name, x, clock - ListTTL + 1)
    BY <2>5, <2>6, StandsEarlier
  <2>8. QED
    BY <2>3, <2>4, <2>7 DEF Recent
<1>4. QED
  BY <1>2, <1>3

LEMMA MoverIsRecent ==
  ASSUME Sound, Sound', NamesInv, NEW r \in Requests, Arrive(r) \/ RequestStep(r)
  PROVE  Recent(req'[r], named, goneAt, clock) /\ UNCHANGED <<named, goneAt, clock>>
<1> DEFINE p == req[r]
<1>0. UNCHANGED <<named, goneAt, clock>>
  BY DEF Arrive, RequestStep, Verify, AskSupabase, TakeAnswer, Refuse, Resolve, Lookup, List, Listed, Acquire, Finish, nameVars
<1>1. /\ p \in ReqState /\ Fits(p) /\ p.on \in Int /\ p.on <= clock /\ clock \in Int /\ ReqTypes
      /\ ListTTL \in Int /\ Patience \in Int /\ 0 <= Patience /\ Patience < ListTTL
  BY WorldTypes, Numbers DEF Sound, Base
<1>2. ASSUME req'[r].at \notin {"listed", "ready", "using"} PROVE Recent(req'[r], named, goneAt, clock)
  BY <1>2 DEF Recent
<1>3. ASSUME NEW q, Goto(r, q) PROVE req'[r] = q
  BY <1>1, <1>3 DEF Goto, ReqTypes
<1>4. ASSUME Reply(r) PROVE Recent(req'[r], named, goneAt, clock)
  BY <1>2, <1>3, <1>4, IdleFits DEF Reply
<1>5. CASE Lookup(r)
  <2> DEFINE known == listing[p.token]
  <2>1. p.at = "lookup" /\ p.token \in Tokens
    BY <1>1, <1>5 DEF Lookup, Fits, WithToken
  <2>2. known.until \in Int /\ known.names \in Listings
    BY <2>1, WorldTypes DEF Listings
  <2>3. CASE known.until > clock
    <3>1. \A n \in Names : known.names[n] \in Filespaces =>
             Stands(named, goneAt, p.token, n, known.names[n], known.until - ListTTL)
      BY <2>1 DEF NamesInv, ListingsRecent
    <3>2. known.until - ListTTL \in Int /\ known.until - ListTTL >= clock - ListTTL + 1
      BY <1>1, <2>2, <2>3
    <3>3. Choose(r, known.names)
      BY <1>5, <2>3 DEF Lookup
    <3>4. QED
      BY <1>0, <2>1, <2>2, <3>1, <3>2, <3>3, ChoiceIsRecent
  <2>4. CASE ~(known.until > clock)
    <3>1. Goto(r, [p EXCEPT !.at = "list", !.on = clock])
      BY <1>5, <2>4 DEF Lookup
    <3>2. req'[r].at = "list"
      BY <1>1, <1>3, <3>1 DEF ReqState
    <3>3. QED
      BY <1>0, <1>2, <3>2
  <2>5. QED
    BY <2>3, <2>4
<1>6. CASE Listed(r)
  <2>1. p.at = "listed" /\ p.token \in Tokens /\ p.seen \in Listings /\ Choose(r, p.seen)
    BY <1>1, <1>6 DEF Listed, Fits, WithToken, ReqState
  <2>2. \A n \in Names : p.seen[n] \in Filespaces => Stands(named, goneAt, p.token, n, p.seen[n], clock - Patience)
    BY <2>1 DEF NamesInv, Recent
  <2>3. clock - Patience \in Int /\ clock - Patience >= clock - ListTTL + 1
    BY <1>1
  <2>4. QED
    BY <1>0, <2>1, <2>2, <2>3, ChoiceIsRecent
<1>7. CASE List(r)
  <2>1. CASE Goto(r, [p EXCEPT !.at = "listed", !.seen = named[p.token]])
    <3>1. /\ req'[r].at = "listed" /\ req'[r].token = p.token /\ req'[r].seen = named[p.token]
      BY <1>1, <1>3, <2>1 DEF ReqState
    <3>2. QED
      BY <1>0, <3>1 DEF Recent, Stands
  <2>2. QED
    BY <1>0, <1>4, <1>7, <2>1 DEF List
<1>8. CASE Acquire(r)
  <2>1. CASE Goto(r, [p EXCEPT !.at = "using"])
    <3>1. /\ req'[r].at = "using" /\ req'[r].token = p.token /\ req'[r].name = p.name /\ req'[r].fid = p.fid
          /\ req'[r].on = p.on
      BY <1>1, <1>3, <2>1 DEF ReqState
    <3>2. p.at = "ready"
      BY <1>8 DEF Acquire
    <3>3. Stands(named, goneAt, p.token, p.name, p.fid, p.on - ListTTL + 1)
      BY <3>2 DEF NamesInv, Recent
    <3>4. QED
      BY <1>0, <3>1, <3>3 DEF Recent
  <2>2. QED
    BY <1>0, <1>4, <1>8, <2>1 DEF Acquire
<1>9. CASE Finish(r) \/ Refuse(r)
  BY <1>0, <1>4, <1>9 DEF Finish, Refuse
<1>10. CASE Arrive(r) \/ Verify(r) \/ AskSupabase(r) \/ TakeAnswer(r) \/ Resolve(r)
  <2>1. req'[r].at \notin {"listed", "ready", "using"}
    <3>1. ASSUME NEW v, Verdict(r, v) PROVE req'[r].at \in {"vault", "refused"}
      BY <1>1, <1>3, <3>1 DEF Verdict, ReqState
    <3>2. ASSUME Reply(r) PROVE req'[r].at = "idle"
      BY <1>3, <3>2, IdleFits DEF Reply
    <3>3. CASE Arrive(r)
      <4>1. PICK a \in Asks :
              Goto(r, [IdleReq EXCEPT !.at = IF a.bearer \in Jwts THEN "verify" ELSE "lookup", !.bearer = a.bearer,
                                      !.asked = a.asked, !.name = a.name, !.writes = a.writes,
                                      !.token = IF a.bearer \in Jwts THEN None ELSE a.bearer])
        BY <3>3 DEF Arrive
      <4>2. req'[r].at = IF a.bearer \in Jwts THEN "verify" ELSE "lookup"
        BY <1>3, <4>1, IdleFits DEF ReqState
      <4>3. QED
        BY <4>2
    <3>4. CASE Verify(r)
      BY <1>1, <1>3, <3>1, <3>4 DEF Verify, ReqState
    <3>5. CASE AskSupabase(r)
      BY <1>1, <1>3, <3>5 DEF AskSupabase, ReqState
    <3>6. CASE TakeAnswer(r)
      BY <3>1, <3>2, <3>6 DEF TakeAnswer
    <3>7. CASE Resolve(r)
      BY <1>1, <1>3, <3>2, <3>7 DEF Resolve, ReqState
    <3>8. QED
      BY <1>10, <3>3, <3>4, <3>5, <3>6, <3>7
  <2>2. QED
    BY <1>0, <1>2, <2>1
<1>11. QED
  BY <1>0, <1>5, <1>6, <1>7, <1>8, <1>9, <1>10 DEF RequestStep

LEMMA NamesKept == ASSUME Sound, Sound', NamesInv, Next PROVE NamesInv'
<1>1. ListingsRecent'
  BY ListingsKept
<1>2. ASSUME NEW r \in Requests PROVE Recent(req'[r], named', goneAt', clock')
  <2>1. CASE req'[r] = req[r]
    BY <2>1, RecentKept
  <2>2. CASE Arrive(r) \/ RequestStep(r)
    BY <2>2, MoverIsRecent
  <2>3. ASSUME NEW s \in Requests \ {r}, Arrive(s) \/ RequestStep(s) PROVE req'[r] = req[r]
    BY <2>3, StepBecomes DEF Goto, Sound, Base, ReqTypes
  <2>4. CASE Restart
    <3>1. req'[r] = IdleReq
      BY <2>4 DEF Restart
    <3>2. QED
      BY <3>1, IdleFits DEF Recent
  <2>5. QED
    BY <2>1, <2>2, <2>3, <2>4, OthersMove
<1>3. QED
  BY <1>1, <1>2 DEF NamesInv

LEMMA NamesAtFirst == ASSUME Init PROVE NamesInv
<1>1. Sound
  BY SoundAtFirst
<1>2. \A t \in Tokens : listing[t] = NoListing
  BY DEF Init
<1>3. NoListing.until = 0 /\ \A n \in Names : NoListing.names[n] \notin Filespaces
  BY ServiceAssumption DEF NoListing
<1>4. 0 <= clock + ListTTL
  BY <1>1, WorldTypes, Numbers
<1>5. \A r \in Requests : req[r].at = "idle"
  BY IdleFits DEF Init
<1>6. QED
  BY <1>2, <1>3, <1>4, <1>5 DEF NamesInv, ListingsRecent, Recent

LEMMA NamesStutter == ASSUME NamesInv, UNCHANGED vars PROVE NamesInv'
BY DEF vars, nameVars, NamesInv, ListingsRecent, Recent, Stands

(* Late listings included, a request works on a filespace that bore the     *)
(* name it was asked for within the age of a listing                        *)
(* (`_list_filespaces_cached`, `_resolve_filespace_id`).                    *)
THEOREM FilespaceIsTheOneNamed == Spec => []RightFilespace
<1>1. Init => NamesInv
  BY NamesAtFirst
<1>2. Sound /\ Sound' /\ NamesInv /\ [Next]_vars => NamesInv'
  BY NamesKept, NamesStutter
<1>3. Sound /\ NamesInv => RightFilespace
  <2>1. ASSUME Sound, NamesInv, NEW r \in Requests, req[r].at \in {"ready", "using"}
        PROVE  Stood(req[r].token, req[r].name, req[r].fid, req[r].on - ListTTL)
    <3>1. Stands(named, goneAt, req[r].token, req[r].name, req[r].fid, req[r].on - ListTTL + 1)
      BY <2>1 DEF NamesInv, Recent
    <3>2. req[r].token \in Tokens /\ req[r].name \in Names /\ req[r].fid \in Filespaces /\ req[r].on \in Int
      BY <2>1, WorldTypes DEF Fits, WithToken
    <3>3. goneAt[<<req[r].token, req[r].name, req[r].fid>>] \in Int /\ ListTTL \in Int
      BY <2>1, <3>2, WorldTypes, Numbers
    <3>4. QED
      BY <3>1, <3>2, <3>3 DEF Stands, Stood
  <2>2. QED
    BY <2>1 DEF RightFilespace
<1>4. QED
  BY <1>1, <1>2, <1>3, SoundAlways, PTL DEF Spec

-------------------------------------------------------------------------------
(* Who is the owner.                                                        *)

\* Supabase said v of a session at a time s or later, as far as id and la say.
Was(id, la, j, v, s) == id[j] = v \/ la[j][v] >= s

Recalls(entry, id, la, j, c) ==
  /\ entry.until <= c + TTL(entry.verdict)
  /\ entry.until > 0 => Was(id, la, j, entry.verdict, entry.until - TTL(entry.verdict) - Patience)

\* What the cache and the requests know of a session is no older than it may be.
CacheRecent == \A j \in Jwts : Recalls(cache[j], identity, leftAt, j, clock)

Learnt(q, id, la, c) ==
  /\ q.at = "answered" => c <= q.on + Patience /\ (q.answer # "error" => Was(id, la, q.bearer, q.answer, q.on))
  /\ q.at = "vault" => Was(id, la, q.bearer, "owner", q.on - PositiveTTL - Patience + 1)
  /\ q.at = "refused" => Was(id, la, q.bearer, "other", q.on - NegativeTTL - Patience + 1)

AnswersInv == CacheRecent /\ \A r \in Requests : Learnt(req[r], identity, leftAt, clock)

LEMMA SaidTypes ==
  ASSUME Sound
  PROVE  /\ identity \in [Jwts -> Verdicts] /\ leftAt \in [Jwts -> [Verdicts -> Int]] /\ clock \in Int /\ clock >= 0
         /\ \A j \in Jwts : cache[j] \in Entry /\ cache[j].until \in Int /\ cache[j].verdict \in Verdicts
BY WorldTypes DEF Sound, Base, World, Memory, Entry

LEMMA Lifetimes ==
  /\ PositiveTTL \in Int /\ NegativeTTL \in Int /\ Patience \in Int
  /\ PositiveTTL > 0 /\ NegativeTTL > 0 /\ Patience >= 0
  /\ TTL("owner") = PositiveTTL /\ TTL("other") = NegativeTTL /\ \A v \in Verdicts : TTL(v) \in Int /\ TTL(v) > 0
BY Numbers DEF TTL

\* Only IdentityChanges touches what Supabase says.
LEMMA IdentityAndClock ==
  ASSUME Sound, Next
  PROVE  UNCHANGED <<identity, leftAt>> \/ \E j \in Jwts : IdentityChanges(j)
BY DEF Next, Tick, VaultStep, Restart, Rename, SendHint, Arrive, RequestStep, Verify, AskSupabase, TakeAnswer,
       Refuse, Resolve, Lookup, List, Listed, Acquire, Finish, authVars

LEMMA WasKept ==
  ASSUME Sound, Next, NEW j \in Jwts, NEW v \in Verdicts, NEW s \in Int, s <= clock, Was(identity, leftAt, j, v, s)
  PROVE  Was(identity', leftAt', j, v, s)
<1>1. CASE UNCHANGED <<identity, leftAt>>
  BY <1>1 DEF Was
<1>2. ASSUME NEW k \in Jwts, IdentityChanges(k)
      PROVE  Was(identity', leftAt', j, v, s)
  <2>1. identity \in [Jwts -> Verdicts] /\ leftAt \in [Jwts -> [Verdicts -> Int]] /\ clock \in Int
    BY SaidTypes
  <2>2. PICK w : identity' = [identity EXCEPT ![k] = w]
    BY <1>2 DEF IdentityChanges
  <2>3. leftAt' = [leftAt EXCEPT ![k] = [leftAt[k] EXCEPT ![identity[k]] = clock]]
    BY <1>2 DEF IdentityChanges
  <2>4. CASE j = k /\ v = identity[k]
    <3>1. leftAt'[j][v] = clock
      BY <2>1, <2>3, <2>4
    <3>2. QED
      BY <3>1 DEF Was
  <2>5. CASE ~(j = k /\ v = identity[k])
    <3>1. leftAt'[j][v] = leftAt[j][v]
      BY <2>1, <2>3, <2>5
    <3>2. identity[j] = v => identity'[j] = v
      BY <2>1, <2>2, <2>5
    <3>3. QED
      BY <3>1, <3>2 DEF Was
  <2>6. QED
    BY <2>4, <2>5
<1>3. QED
  BY <1>1, <1>2, IdentityAndClock

LEMMA WasEarlier ==
  ASSUME NEW id, NEW la, NEW j, NEW v, NEW s \in Int, NEW earlier \in Int, earlier <= s,
         la[j][v] \in Int, Was(id, la, j, v, s)
  PROVE  Was(id, la, j, v, earlier)
BY DEF Was

\* An entry that stays in the cache is still true of the past.
LEMMA EntryKept ==
  ASSUME Sound, Next, CacheRecent, NEW j \in Jwts
  PROVE  Recalls(cache[j], identity', leftAt', j, clock')
<1> DEFINE entry == cache[j]
<1>1. /\ entry.until \in Int /\ entry.verdict \in Verdicts /\ clock \in Int /\ clock' \in Int /\ clock <= clock'
  BY SaidTypes, NamesAndClock
<1>2. Recalls(entry, identity, leftAt, j, clock)
  BY DEF CacheRecent
<1>3. TTL(entry.verdict) \in Int /\ TTL(entry.verdict) > 0 /\ Patience \in Int /\ Patience >= 0
  BY <1>1, Lifetimes
<1> HIDE DEF entry
<1>4. entry.until <= clock' + TTL(entry.verdict)
  BY <1>1, <1>2, <1>3 DEF Recalls
<1>5. ASSUME entry.until > 0
      PROVE  Was(identity', leftAt', j, entry.verdict, entry.until - TTL(entry.verdict) - Patience)
  <2>1. /\ entry.until - TTL(entry.verdict) - Patience \in Int
        /\ entry.until - TTL(entry.verdict) - Patience <= clock
    BY <1>1, <1>2, <1>3 DEF Recalls
  <2>2. Was(identity, leftAt, j, entry.verdict, entry.until - TTL(entry.verdict) - Patience)
    BY <1>2, <1>5 DEF Recalls
  <2>3. QED
    BY <1>1, <2>1, <2>2, WasKept
<1>6. QED
  BY <1>4, <1>5 DEF Recalls, entry

LEMMA NothingRecalled ==
  ASSUME Sound, Sound', NEW j \in Jwts
  PROVE  Recalls(NoEntry, identity', leftAt', j, clock') /\ Recalls(NoEntry, identity, leftAt, j, clock)
<1>1. NoEntry.until = 0 /\ NoEntry.verdict \in Verdicts
  BY DEF NoEntry, Verdicts
<1>2. TTL(NoEntry.verdict) \in Int /\ TTL(NoEntry.verdict) > 0
  BY <1>1, Lifetimes
<1>3. clock \in Int /\ clock >= 0 /\ clock' \in Int /\ clock' >= 0
  BY SaidTypes, Numbers DEF Sound, Base, World
<1> HIDE DEF NoEntry
<1>4. QED
  BY <1>1, <1>2, <1>3 DEF Recalls

\* The answer a request takes into the cache is as old as its wait.
LEMMA CacheKept ==
  ASSUME Sound, Sound', AnswersInv, Next
  PROVE  CacheRecent'
<1>1. \A j \in Jwts : Recalls(cache[j], identity', leftAt', j, clock') /\ Recalls(NoEntry, identity', leftAt', j, clock')
  BY EntryKept, NothingRecalled DEF AnswersInv
<1>2. CASE \A j \in Jwts : cache'[j] \in {cache[j], NoEntry}
  BY <1>1, <1>2 DEF CacheRecent
<1>3. ASSUME NEW r \in Requests, TakeAnswer(r), req[r].answer # "error" PROVE CacheRecent'
  <2> DEFINE b == req[r].bearer
             v == req[r].answer
             entry == [until |-> clock + TTL(v), verdict |-> v]
  <2>1. /\ req[r].at = "answered" /\ b \in Jwts /\ v \in Verdicts /\ req[r].on \in Int /\ CachePut(b, entry)
    BY <1>3, WorldTypes DEF TakeAnswer, ReqState
  <2>2. UNCHANGED <<identity, leftAt, clock>>
    BY <1>3 DEF TakeAnswer
  <2>3. clock <= req[r].on + Patience /\ Was(identity, leftAt, b, v, req[r].on)
    BY <1>3, <2>1 DEF AnswersInv, Learnt
  <2>4. /\ clock \in Int /\ clock >= 0 /\ TTL(v) \in Int /\ TTL(v) > 0 /\ Patience \in Int
        /\ leftAt[b][v] \in Int
    BY <2>1, SaidTypes, Lifetimes
  <2>5. entry.until = clock + TTL(v) /\ entry.verdict = v
    OBVIOUS
  <2> HIDE DEF entry, v, b
  <2>6. (clock + TTL(v)) - TTL(v) - Patience <= req[r].on /\ (clock + TTL(v)) - TTL(v) - Patience \in Int
    BY <2>1, <2>3, <2>4
  <2>7. Was(identity, leftAt, b, v, (clock + TTL(v)) - TTL(v) - Patience)
    BY <2>1, <2>3, <2>4, <2>6, WasEarlier
  <2>8. clock + TTL(v) <= clock + TTL(v)
    BY <2>4
  <2>9. Recalls(entry, identity, leftAt, b, clock)
    BY <2>5, <2>7, <2>8 DEF Recalls
  <2>10. \A j \in Jwts : cache'[j] \in {cache[j], NoEntry} \/ (j = b /\ cache'[j] = entry)
    BY <2>1 DEF CachePut
  <2>11. QED
    BY <1>1, <2>2, <2>9, <2>10 DEF CacheRecent
<1>4. ASSUME NEW r \in Requests, TakeAnswer(r), req[r].answer = "error" PROVE cache' = cache
  BY <1>4 DEF TakeAnswer
<1>5. ASSUME NEW r \in Requests, Verify(r) PROVE \A j \in Jwts : cache'[j] \in {cache[j], NoEntry}
  BY <1>5 DEF Verify, Sound, Base, Memory
<1>6. ASSUME Restart PROVE \A j \in Jwts : cache'[j] \in {cache[j], NoEntry}
  BY <1>6 DEF Restart
<1>7. cache' = cache \/ Restart \/ \E r \in Requests : Verify(r) \/ TakeAnswer(r)
  BY DEF Next, Tick, VaultStep, IdentityChanges, Rename, SendHint, Arrive, RequestStep, AskSupabase,
         Refuse, Resolve, Lookup, List, Listed, Acquire, Finish, authVars
<1>8. QED
  BY <1>2, <1>3, <1>4, <1>5, <1>6, <1>7

\* What a request has learnt ages no faster than it may.
LEMMA LearntKept ==
  ASSUME Sound, Sound', AnswersInv, Next, NEW r \in Requests
  PROVE  Learnt(req[r], identity', leftAt', clock')
<1> DEFINE q == req[r]
<1>1. /\ q \in ReqState /\ Fits(q) /\ q.on \in Int /\ q.on <= clock /\ clock \in Int /\ clock' \in Int
      /\ q.answer \in Verdicts \cup {"error"}
  BY WorldTypes, NamesAndClock DEF ReqState
<1>2. Learnt(q, identity, leftAt, clock)
  BY DEF AnswersInv
<1>3. ASSUME q.at \in AsOwner PROVE q.bearer \in Jwts
  BY <1>1, <1>3 DEF Fits
<1>4. ASSUME q.at = "answered" PROVE clock' <= q.on + Patience
  <2>1. clock <= q.on + Patience
    BY <1>2, <1>4 DEF Learnt
  <2>2. CASE clock' = clock
    BY <2>1, <2>2
  <2>3. CASE Tick
    <3>1. clock < q.on + Patience /\ clock' = clock + 1
      BY <1>4, <2>3 DEF Tick, Waiting
    <3> HIDE DEF q
    <3>2. QED
      BY <1>1, <3>1, Lifetimes
  <2>4. QED
    BY <2>2, <2>3, NamesAndClock
<1>5. ASSUME q.at = "answered", q.answer # "error" PROVE Was(identity', leftAt', q.bearer, q.answer, q.on)
  <2>1. q.bearer \in Jwts /\ q.answer \in Verdicts
    BY <1>1, <1>3, <1>5 DEF AsOwner
  <2>2. Was(identity, leftAt, q.bearer, q.answer, q.on)
    BY <1>2, <1>5 DEF Learnt
  <2> HIDE DEF q
  <2>3. QED
    BY <1>1, <2>1, <2>2, WasKept
<1>6. ASSUME q.at = "vault" PROVE Was(identity', leftAt', q.bearer, "owner", q.on - PositiveTTL - Patience + 1)
  <2>1. q.bearer \in Jwts /\ "owner" \in Verdicts
    BY <1>3, <1>6 DEF AsOwner, Verdicts
  <2>2. Was(identity, leftAt, q.bearer, "owner", q.on - PositiveTTL - Patience + 1)
    BY <1>2, <1>6 DEF Learnt
  <2> HIDE DEF q
  <2>3. q.on - PositiveTTL - Patience + 1 \in Int /\ q.on - PositiveTTL - Patience + 1 <= clock
    BY <1>1, Lifetimes
  <2>4. QED
    BY <2>1, <2>2, <2>3, WasKept
<1>7. ASSUME q.at = "refused" PROVE Was(identity', leftAt', q.bearer, "other", q.on - NegativeTTL - Patience + 1)
  <2>1. q.bearer \in Jwts /\ "other" \in Verdicts
    BY <1>3, <1>7 DEF AsOwner, Verdicts
  <2>2. Was(identity, leftAt, q.bearer, "other", q.on - NegativeTTL - Patience + 1)
    BY <1>2, <1>7 DEF Learnt
  <2> HIDE DEF q
  <2>3. q.on - NegativeTTL - Patience + 1 \in Int /\ q.on - NegativeTTL - Patience + 1 <= clock
    BY <1>1, Lifetimes
  <2>4. QED
    BY <2>1, <2>2, <2>3, WasKept
<1>8. QED
  BY <1>4, <1>5, <1>6, <1>7 DEF Learnt

\* A verdict given now rests on what was said within its time to live.
LEMMA VerdictIsRecent ==
  ASSUME Sound, Sound', NEW r \in Requests, NEW v \in Verdicts, NEW s \in Int, req[r].bearer \in Jwts, Verdict(r, v),
         Was(identity, leftAt, req[r].bearer, v, s), s >= clock - TTL(v) - Patience + 1
  PROVE  Learnt(req'[r], identity, leftAt, clock)
<1> DEFINE b == req[r].bearer
           q == [req[r] EXCEPT !.at = IF v = "owner" THEN "vault" ELSE "refused", !.on = clock, !.answer = "error"]
<1>1. req'[r] = q
  BY DEF Verdict, Goto, Sound, Base, ReqTypes
<1>2. req[r] \in ReqState
  BY WorldTypes
<1>3. q.at = (IF v = "owner" THEN "vault" ELSE "refused") /\ q.bearer = b /\ q.on = clock
  BY <1>2 DEF ReqState
<1>4. clock \in Int /\ leftAt[b][v] \in Int /\ clock - TTL(v) - Patience + 1 \in Int
  BY SaidTypes, Lifetimes
<1>5. Was(identity, leftAt, b, v, clock - TTL(v) - Patience + 1)
  BY <1>4, WasEarlier
<1> HIDE DEF q, b
<1>6. CASE v = "owner"
  BY <1>1, <1>3, <1>5, <1>6, Lifetimes DEF Learnt
<1>7. CASE v = "other"
  BY <1>1, <1>3, <1>5, <1>7, Lifetimes DEF Learnt
<1>8. QED
  BY <1>6, <1>7 DEF Verdicts

LEMMA MoverLearnt ==
  ASSUME Sound, Sound', AnswersInv, NEW r \in Requests, Arrive(r) \/ RequestStep(r)
  PROVE  Learnt(req'[r], identity, leftAt, clock) /\ UNCHANGED <<identity, leftAt, clock>>
<1> DEFINE p == req[r]
<1>0. UNCHANGED <<identity, leftAt, clock>>
  BY DEF Arrive, RequestStep, Verify, AskSupabase, TakeAnswer, Refuse, Resolve, Lookup, List, Listed, Acquire, Finish, authVars
<1>1. /\ p \in ReqState /\ Fits(p) /\ p.on \in Int /\ p.on <= clock /\ clock \in Int /\ ReqTypes
  BY WorldTypes DEF Sound, Base
<1>2. ASSUME req'[r].at \notin {"answered", "vault", "refused"} PROVE Learnt(req'[r], identity, leftAt, clock)
  BY <1>2 DEF Learnt
<1>3. ASSUME NEW q, Goto(r, q) PROVE req'[r] = q
  BY <1>1, <1>3 DEF Goto, ReqTypes
<1>4. ASSUME Reply(r) PROVE Learnt(req'[r], identity, leftAt, clock)
  BY <1>2, <1>3, <1>4, IdleFits DEF Reply
<1>5. CASE Verify(r)
  <2>1. p.at = "verify" /\ p.bearer \in Jwts
    BY <1>1, <1>5 DEF Verify, Fits, AsOwner
  <2>2. CASE cache[p.bearer].until > clock
    <3> DEFINE entry == cache[p.bearer]
    <3>1. Verdict(r, entry.verdict)
      BY <1>5, <2>2 DEF Verify
    <3>2. Recalls(entry, identity, leftAt, p.bearer, clock)
      BY <2>1 DEF AnswersInv, CacheRecent
    <3>3. entry.until \in Int /\ entry.verdict \in Verdicts /\ clock >= 0
      BY <2>1, SaidTypes
    <3>4. TTL(entry.verdict) \in Int /\ TTL(entry.verdict) > 0 /\ Patience \in Int /\ Patience >= 0
      BY <3>3, Lifetimes
    <3>5. entry.until > clock
      BY <2>2
    <3> HIDE DEF entry
    <3>6. entry.until > 0
      BY <1>1, <3>3, <3>5
    <3>7. Was(identity, leftAt, p.bearer, entry.verdict, entry.until - TTL(entry.verdict) - Patience)
      BY <3>2, <3>6 DEF Recalls
    <3>8. /\ entry.until - TTL(entry.verdict) - Patience \in Int
          /\ entry.until - TTL(entry.verdict) - Patience >= clock - TTL(entry.verdict) - Patience + 1
      BY <1>1, <3>3, <3>4, <3>5
    <3>9. QED
      BY <1>0, <2>1, <3>1, <3>3, <3>7, <3>8, VerdictIsRecent
  <2>3. CASE ~(cache[p.bearer].until > clock)
    <3>1. Goto(r, [p EXCEPT !.at = "asking"])
      BY <1>5, <2>3 DEF Verify
    <3>2. req'[r].at = "asking"
      BY <1>1, <1>3, <3>1 DEF ReqState
    <3>3. QED
      BY <1>0, <1>2, <3>2
  <2>4. QED
    BY <2>2, <2>3
<1>6. CASE AskSupabase(r)
  <2>1. PICK v \in {identity[p.bearer], "error"} : Goto(r, [p EXCEPT !.at = "answered", !.on = clock, !.answer = v])
    BY <1>6 DEF AskSupabase
  <2>2. req'[r].at = "answered" /\ req'[r].on = clock /\ req'[r].answer = v /\ req'[r].bearer = p.bearer
    BY <1>1, <1>3, <2>1 DEF ReqState
  <2>3. clock <= clock + Patience
    BY <1>1, Lifetimes
  <2>4. v # "error" => Was(identity, leftAt, p.bearer, v, clock)
    BY <2>1 DEF Was
  <2>5. QED
    BY <1>0, <2>2, <2>3, <2>4 DEF Learnt
<1>7. CASE TakeAnswer(r)
  <2>1. CASE p.answer = "error"
    BY <1>0, <1>4, <1>7, <2>1 DEF TakeAnswer
  <2>2. CASE p.answer # "error"
    <3>1. /\ p.at = "answered" /\ p.bearer \in Jwts /\ p.answer \in Verdicts /\ Verdict(r, p.answer)
      BY <1>1, <1>7, <2>2 DEF TakeAnswer, ReqState
    <3>2. clock <= p.on + Patience /\ Was(identity, leftAt, p.bearer, p.answer, p.on)
      BY <2>2, <3>1 DEF AnswersInv, Learnt
    <3>3. TTL(p.answer) \in Int /\ TTL(p.answer) > 0 /\ Patience \in Int
      BY <3>1, Lifetimes
    <3> HIDE DEF p
    <3>4. p.on >= clock - TTL(p.answer) - Patience + 1
      BY <1>1, <3>2, <3>3
    <3>5. QED
      BY <1>0, <1>1, <3>1, <3>2, <3>4, VerdictIsRecent DEF p
  <2>3. QED
    BY <2>1, <2>2
<1>8. CASE Refuse(r) \/ Finish(r)
  BY <1>0, <1>4, <1>8 DEF Refuse, Finish
<1>9. CASE Arrive(r) \/ Resolve(r) \/ Lookup(r) \/ List(r) \/ Listed(r) \/ Acquire(r)
  <2>1. ASSUME Reply(r) PROVE req'[r].at = "idle"
    BY <1>3, <2>1, IdleFits DEF Reply
  <2>2. ASSUME NEW names, Choose(r, names) PROVE req'[r].at \in {"idle", "ready"}
    BY <1>1, <1>3, <2>1, <2>2 DEF Choose, ReqState
  <2>3. CASE Arrive(r)
    <3>1. PICK a \in Asks :
            Goto(r, [IdleReq EXCEPT !.at = IF a.bearer \in Jwts THEN "verify" ELSE "lookup", !.bearer = a.bearer,
                                    !.asked = a.asked, !.name = a.name, !.writes = a.writes,
                                    !.token = IF a.bearer \in Jwts THEN None ELSE a.bearer])
      BY <2>3 DEF Arrive
    <3>2. req'[r].at = IF a.bearer \in Jwts THEN "verify" ELSE "lookup"
      BY <1>3, <3>1, IdleFits DEF ReqState
    <3>3. QED
      BY <1>0, <1>2, <3>2
  <2>4. CASE Resolve(r) \/ Lookup(r) \/ List(r) \/ Listed(r) \/ Acquire(r)
    <3>1. ASSUME Resolve(r) PROVE req'[r].at \in {"idle", "lookup"}
      BY <1>1, <1>3, <2>1, <3>1 DEF Resolve, ReqState
    <3>2. ASSUME Lookup(r) PROVE req'[r].at \in {"idle", "ready", "list"}
      BY <1>1, <1>3, <2>2, <3>2 DEF Lookup, ReqState
    <3>3. ASSUME List(r) PROVE req'[r].at \in {"idle", "listed"}
      BY <1>1, <1>3, <2>1, <3>3 DEF List, ReqState
    <3>4. ASSUME Listed(r) PROVE req'[r].at \in {"idle", "ready"}
      BY <2>2, <3>4 DEF Listed
    <3>5. ASSUME Acquire(r) PROVE req'[r].at \in {"idle", "using"}
      BY <1>1, <1>3, <2>1, <3>5 DEF Acquire, ReqState
    <3>6. req'[r].at \notin {"answered", "vault", "refused"}
      BY <2>4, <3>1, <3>2, <3>3, <3>4, <3>5
    <3>7. QED
      BY <1>0, <1>2, <3>6
  <2>5. QED
    BY <1>9, <2>3, <2>4
<1>10. QED
  BY <1>5, <1>6, <1>7, <1>8, <1>9 DEF RequestStep

LEMMA AnswersKept == ASSUME Sound, Sound', AnswersInv, Next PROVE AnswersInv'
<1>1. CacheRecent'
  BY CacheKept
<1>2. ASSUME NEW r \in Requests PROVE Learnt(req'[r], identity', leftAt', clock')
  <2>1. CASE req'[r] = req[r]
    BY <2>1, LearntKept
  <2>2. CASE Arrive(r) \/ RequestStep(r)
    BY <2>2, MoverLearnt
  <2>3. ASSUME NEW s \in Requests \ {r}, Arrive(s) \/ RequestStep(s) PROVE req'[r] = req[r]
    BY <2>3, StepBecomes DEF Goto, Sound, Base, ReqTypes
  <2>4. CASE Restart
    <3>1. req'[r] = IdleReq
      BY <2>4 DEF Restart
    <3>2. QED
      BY <3>1, IdleFits DEF Learnt
  <2>5. QED
    BY <2>1, <2>2, <2>3, <2>4, OthersMove
<1>3. QED
  BY <1>1, <1>2 DEF AnswersInv

LEMMA AnswersAtFirst == ASSUME Init PROVE AnswersInv
<1>1. Sound
  BY SoundAtFirst
<1>2. \A j \in Jwts : cache[j] = NoEntry
  BY DEF Init
<1>3. ASSUME NEW j \in Jwts PROVE Recalls(NoEntry, identity, leftAt, j, clock)
  <2>1. NoEntry.until = 0 /\ TTL(NoEntry.verdict) \in Int /\ TTL(NoEntry.verdict) > 0
    BY Lifetimes DEF NoEntry, Verdicts
  <2>2. clock \in Int /\ clock >= 0
    BY <1>1, SaidTypes
  <2> HIDE DEF NoEntry
  <2>3. QED
    BY <2>1, <2>2 DEF Recalls
<1>4. \A r \in Requests : req[r].at = "idle"
  BY IdleFits DEF Init
<1>5. QED
  BY <1>2, <1>3, <1>4 DEF AnswersInv, CacheRecent, Learnt

LEMMA AnswersStutter == ASSUME AnswersInv, UNCHANGED vars PROVE AnswersInv'
BY DEF vars, authVars, AnswersInv, CacheRecent, Recalls, Learnt, Was

(* However many verifications of a session cross, an acceptance or refusal  *)
(* is no older than its time to live and the wait for it, and an outage is  *)
(* neither (`verify_owner`, `_cache_get`, `_cache_put`).                    *)
THEOREM OwnerIsRecentlyTheOwner == Spec => []AnswersAreRecent
<1>1. Init => AnswersInv
  BY AnswersAtFirst
<1>2. Sound /\ Sound' /\ AnswersInv /\ [Next]_vars => AnswersInv'
  BY AnswersKept, AnswersStutter
<1>3. Sound /\ AnswersInv => AnswersAreRecent
  <2>1. ASSUME Sound, AnswersInv, NEW r \in Requests, req[r].at = "vault"
        PROVE  Said(req[r].bearer, "owner", req[r].on - PositiveTTL - Patience)
    <3>1. Was(identity, leftAt, req[r].bearer, "owner", req[r].on - PositiveTTL - Patience + 1)
      BY <2>1 DEF AnswersInv, Learnt
    <3>2. req[r].bearer \in Jwts /\ req[r].on \in Int
      BY <2>1, WorldTypes DEF Fits, AsOwner
    <3>3. leftAt[req[r].bearer]["owner"] \in Int /\ PositiveTTL \in Int /\ Patience \in Int
      BY <2>1, <3>2, SaidTypes, Lifetimes DEF Verdicts
    <3>4. QED
      BY <3>1, <3>2, <3>3 DEF Was, Said
  <2>2. ASSUME Sound, AnswersInv, NEW r \in Requests, req[r].at = "refused"
        PROVE  Said(req[r].bearer, "other", req[r].on - NegativeTTL - Patience)
    <3>1. Was(identity, leftAt, req[r].bearer, "other", req[r].on - NegativeTTL - Patience + 1)
      BY <2>2 DEF AnswersInv, Learnt
    <3>2. req[r].bearer \in Jwts /\ req[r].on \in Int
      BY <2>2, WorldTypes DEF Fits, AsOwner
    <3>3. leftAt[req[r].bearer]["other"] \in Int /\ NegativeTTL \in Int /\ Patience \in Int
      BY <2>2, <3>2, SaidTypes, Lifetimes DEF Verdicts
    <3>4. QED
      BY <3>1, <3>2, <3>3 DEF Was, Said
  <2>3. QED
    BY <2>1, <2>2 DEF AnswersAreRecent
<1>4. QED
  BY <1>1, <1>2, <1>3, SoundAlways, PTL DEF Spec

-------------------------------------------------------------------------------
(* The bounds of the registry and of the cache.                             *)

Few(S, n) == IsFiniteSet(S) /\ Cardinality(S) <= n

Live(c) == {j \in Jwts : c[j].until > 0}

BoundsInv ==
  /\ Few(Live(cache), CacheMax)
  /\ Few(clients, MaxClients)
  /\ \A t \in Tokens : Few(links \cap OfToken(t), MaxLinks)

LEMMA FewerAreFew ==
  ASSUME NEW S, NEW T, NEW n \in Nat, Few(S, n), T \subseteq S
  PROVE  Few(T, n)
BY FS_Subset, FS_CardinalityType DEF Few

LEMMA OneMoreIsFew ==
  ASSUME NEW S, NEW x, NEW n \in Nat \ {0}, Few(S, n - 1)
  PROVE  Few(S \cup {x}, n)
<1>1. IsFiniteSet(S) /\ Cardinality(S) \in Nat /\ Cardinality(S) <= n - 1
  BY FS_CardinalityType DEF Few
<1>2. IsFiniteSet(S \cup {x})
  BY <1>1, FS_AddElement
<1>3. Cardinality(S \cup {x}) = Cardinality(S) \/ Cardinality(S \cup {x}) = Cardinality(S) + 1
  BY <1>1, FS_AddElement
<1>4. Cardinality(S \cup {x}) <= n
  BY <1>1, <1>3
<1>5. QED
  BY <1>2, <1>4 DEF Few

LEMMA SizedIsFew ==
  ASSUME NEW S, IsFiniteSet(S), NEW n \in Nat, NEW s \in Sized(S, n)
  PROVE  Few(s, n)
<1>1. s \subseteq S /\ Cardinality(S) \in Nat
  BY FS_CardinalityType DEF Sized
<1>2. IsFiniteSet(s)
  BY <1>1, FS_Subset
<1>3. Cardinality(s) = IF Cardinality(S) < n THEN Cardinality(S) ELSE n
  BY DEF Sized
<1>4. QED
  BY <1>1, <1>2, <1>3 DEF Few

LEMMA NoneIsFew == ASSUME NEW n \in Nat PROVE Few({}, n)
BY FS_EmptySet DEF Few

LEMMA Limits ==
  /\ CacheMax \in Nat \ {0} /\ MaxClients \in Nat \ {0} /\ MaxLinks \in Nat \ {0}
  /\ CacheMax \in Nat /\ MaxClients \in Nat /\ MaxLinks \in Nat
  /\ CacheMax - 1 \in Nat /\ MaxClients - 1 \in Nat /\ MaxLinks - 1 \in Nat
BY ServiceAssumption

LEMMA OpenedAreFew ==
  ASSUME Few(clients, MaxClients), NEW t, NEW c \in Opened(t)
  PROVE  Few(c, MaxClients)
<1>1. CASE t \in clients
  BY <1>1 DEF Opened
<1>2. CASE t \notin clients
  <2>1. PICK s \in Sized(clients, MaxClients - 1) : c = s \cup {t}
    BY <1>2 DEF Opened
  <2>2. Few(s, MaxClients - 1)
    BY <2>1, SizedIsFew, Limits DEF Few
  <2>3. QED
    BY <2>1, <2>2, OneMoreIsFew, Limits
<1>3. QED
  BY <1>1, <1>2

LEMMA LinkedAreFew ==
  ASSUME NEW old, \A u \in Tokens : Few(old \cap OfToken(u), MaxLinks), NEW t \in Tokens, NEW x \in Filespaces,
         NEW kept \in Linked(old, t, x), NEW u \in Tokens
  PROVE  Few(kept \cap OfToken(u), MaxLinks)
<1>1. CASE <<t, x>> \in old
  BY <1>1 DEF Linked
<1>2. CASE <<t, x>> \notin old
  <2>1. PICK s \in Sized(old \cap OfToken(t), MaxLinks - 1) : kept = (old \ OfToken(t)) \cup s \cup {<<t, x>>}
    BY <1>2 DEF Linked
  <2>2. s \subseteq old \cap OfToken(t) /\ <<t, x>> \in OfToken(t)
    BY <2>1 DEF Sized, OfToken
  <2>3. CASE u = t
    <3>1. kept \cap OfToken(u) = s \cup {<<t, x>>}
      BY <2>1, <2>2, <2>3
    <3>2. Few(s, MaxLinks - 1)
      BY <2>1, SizedIsFew, Limits DEF Few
    <3>3. Few(s \cup {<<t, x>>}, MaxLinks)
      BY <3>2, OneMoreIsFew, Limits
    <3>4. QED
      BY <3>1, <3>3
  <2>4. CASE u # t
    <3>1. OfToken(t) \cap OfToken(u) = {}
      BY <2>4 DEF OfToken
    <3>2. kept \cap OfToken(u) \subseteq old \cap OfToken(u)
      BY <2>1, <2>2, <3>1
    <3>3. QED
      BY <3>2, FewerAreFew, Limits
  <2>5. QED
    BY <2>3, <2>4
<1>3. QED
  BY <1>1, <1>2

LEMMA CacheStaysSmall ==
  ASSUME Sound, Few(Live(cache), CacheMax), NEW r \in Requests, TakeAnswer(r)
  PROVE  Few(Live(cache'), CacheMax)
<1>1. CASE cache' = cache
  BY <1>1
<1>2. CASE req[r].answer # "error"
  <2> DEFINE j == req[r].bearer
             entry == [until |-> clock + TTL(req[r].answer), verdict |-> req[r].answer]
  <2>1. CachePut(j, entry)
    BY <1>2 DEF TakeAnswer
  <2> HIDE DEF j, entry
  <2>2. PICK keep \in SUBSET Jwts :
          /\ \A k \in keep : cache[k].until > clock \/ cache[k].until > 0
          /\ Cardinality(keep) < CacheMax
          /\ cache' = [k \in Jwts |-> IF k = j THEN entry ELSE IF k \in keep THEN cache[k] ELSE NoEntry]
    <3>1. PICK keep \in SUBSET {k \in Jwts \ {j} :
                       cache[k].until > IF Cardinality({i \in Jwts : cache[i].until > 0}) >= CacheMax THEN clock ELSE 0} :
            /\ Cardinality(keep) < CacheMax
            /\ cache' = [k \in Jwts |-> IF k = j THEN entry ELSE IF k \in keep THEN cache[k] ELSE NoEntry]
      BY <2>1 DEF CachePut
    <3>2. QED
      BY <3>1
  <2>3. \A k \in Jwts : cache[k].until \in Int /\ clock \in Int /\ clock >= 0
    BY SaidTypes
  <2>4. keep \subseteq Live(cache)
    <3>1. ASSUME NEW k \in keep PROVE cache[k].until > 0
      <4>1. k \in Jwts /\ cache[k].until \in Int /\ (cache[k].until > clock \/ cache[k].until > 0)
        BY <2>2, <2>3, <3>1
      <4>2. QED
        BY <2>3, <4>1
    <3>2. QED
      BY <2>2, <3>1 DEF Live
  <2>5. IsFiniteSet(keep) /\ Cardinality(keep) \in Nat
    BY <2>4, FS_Subset, FS_CardinalityType DEF Few
  <2>6. Few(keep, CacheMax - 1)
    BY <2>2, <2>5, Limits DEF Few
  <2>7. Live(cache') \subseteq keep \cup {j}
    BY <2>2 DEF Live, NoEntry
  <2>8. QED
    BY <2>6, <2>7, OneMoreIsFew, FewerAreFew, Limits
<1>3. QED
  BY <1>1, <1>2 DEF TakeAnswer

LEMMA BoundsKept == ASSUME Sound, Sound', BoundsInv, Next PROVE BoundsInv'
<1>1. Few(Live(cache'), CacheMax)
  <2>1. ASSUME NEW r \in Requests, Verify(r) PROVE Live(cache') \subseteq Live(cache)
    BY <2>1 DEF Verify, Live, NoEntry, Sound, Base, Memory
  <2>2. ASSUME Restart PROVE Live(cache') = {}
    BY <2>2 DEF Restart, Live, NoEntry
  <2>3. cache' = cache \/ Restart \/ \E r \in Requests : Verify(r) \/ TakeAnswer(r)
    BY DEF Next, Tick, VaultStep, IdentityChanges, Rename, SendHint, Arrive, RequestStep, AskSupabase,
           Refuse, Resolve, Lookup, List, Listed, Acquire, Finish, authVars
  <2>4. QED
    BY <2>1, <2>2, <2>3, CacheStaysSmall, FewerAreFew, NoneIsFew, Limits DEF BoundsInv
<1>2. Few(clients', MaxClients)
  <2>1. ASSUME NEW r \in Requests, Arrive(r) \/ RequestStep(r)
        PROVE  clients' = clients \/ \E t \in Tokens : clients' \in Opened(t)
    <3>1. req[r].at \in WithToken => req[r].token \in Tokens
      BY <2>1, WorldTypes DEF Fits
    <3>2. QED
      BY <2>1, <3>1 DEF Arrive, RequestStep, Verify, AskSupabase, TakeAnswer, Refuse, Resolve, Lookup, List, Listed, Acquire,
                        Finish, poolVars, WithToken
  <2>2. ASSUME Restart PROVE clients' = {}
    BY <2>2 DEF Restart
  <2>3. QED
    BY <2>1, <2>2, OthersMove, OpenedAreFew, NoneIsFew, Limits DEF BoundsInv
<1>3. ASSUME NEW u \in Tokens PROVE Few(links' \cap OfToken(u), MaxLinks)
  <2>1. \A cs : Beneath(cs) \subseteq links
    BY DEF Beneath
  <2>2. \A cs : \A t \in Tokens : Few(Beneath(cs) \cap OfToken(t), MaxLinks)
    <3>1. \A cs : \A t \in Tokens : Beneath(cs) \cap OfToken(t) \subseteq links \cap OfToken(t)
      BY <2>1
    <3>2. QED
      BY <3>1, FewerAreFew, Limits DEF BoundsInv
  <2>3. ASSUME NEW r \in Requests, Arrive(r) \/ RequestStep(r)
        PROVE  \/ links' = links \/ links' = Beneath(clients')
               \/ \E t \in Tokens, x \in Filespaces : links' \in Linked(Beneath(clients'), t, x)
    <3>1. CASE List(r)
      BY <3>1 DEF List, Release, Drop
    <3>2. CASE Acquire(r)
      <4>1. req[r].token \in Tokens /\ req[r].fid \in Filespaces
        BY <3>2, WorldTypes DEF Fits, WithToken, Acquire
      <4>2. QED
        BY <3>2, <4>1 DEF Acquire, Release, Drop, poolVars
    <3>3. CASE ~List(r) /\ ~Acquire(r)
      BY <2>3, <3>3 DEF Arrive, RequestStep, Verify, AskSupabase, TakeAnswer, Refuse, Resolve, Lookup, Listed, Finish, poolVars
    <3>4. QED
      BY <3>1, <3>2, <3>3
  <2>4. ASSUME Restart PROVE links' \cap OfToken(u) = {}
    BY <2>4 DEF Restart
  <2>5. CASE links' = links
    BY <2>5 DEF BoundsInv
  <2>6. CASE links' = Beneath(clients')
    BY <2>2, <2>6
  <2>7. CASE \E t \in Tokens, x \in Filespaces : links' \in Linked(Beneath(clients'), t, x)
    BY <2>2, <2>7, LinkedAreFew
  <2>8. QED
    BY <2>3, <2>4, <2>5, <2>6, <2>7, OthersMove, NoneIsFew, Limits
<1>4. QED
  BY <1>1, <1>2, <1>3 DEF BoundsInv

HintsTyped == hints \in SUBSET [wid: Workspaces, token: Tokens]

LEMMA HintsTypedKept == ASSUME Sound, HintsTyped, Next PROVE HintsTyped'
<1>1. ASSUME NEW r \in Requests, Arrive(r) \/ RequestStep(r), hints' # hints
      PROVE  HintsTyped'
  <2>1. Finish(r)
    BY <1>1 DEF Arrive, RequestStep, Verify, AskSupabase, TakeAnswer, Refuse, Resolve, Lookup, List, Listed, Acquire
  <2>2. req[r] \in ReqState /\ req[r].token \in Tokens
    BY <2>1, WorldTypes DEF Finish, Fits, WithToken
  <2>3. req[r].wid \in Workspaces \cup {None}
    BY <2>2 DEF ReqState
  <2>4. Hint(r) \subseteq [wid: Workspaces, token: Tokens]
    BY <2>2, <2>3 DEF Hint
  <2>5. hints' \subseteq hints \cup Hint(r)
    BY <2>1 DEF Finish
  <2>6. QED
    BY <2>4, <2>5 DEF HintsTyped
<1>2. CASE hints' \subseteq hints
  BY <1>2 DEF HintsTyped
<1>3. hints' \subseteq hints \/ \E r \in Requests : (Arrive(r) \/ RequestStep(r)) /\ hints' # hints
  BY DEF Next, Tick, VaultStep, Restart, IdentityChanges, Rename, SendHint
<1>4. QED
  BY <1>1, <1>2, <1>3

(* The cache and the registry of clients and links stay within their bounds *)
(* (`_cache_put`, `_get_session`, `_Session.link`), and the state has its   *)
(* type.                                                                    *)
THEOREM RegistriesStayBounded == Spec => []TypeOK
<1>1. Init => NamesInv /\ AnswersInv
  BY NamesAtFirst, AnswersAtFirst
<1>2. Init => BoundsInv /\ HintsTyped
  <2>1. ASSUME Init PROVE BoundsInv /\ HintsTyped
    <3>1. Live(cache) = {} /\ clients = {} /\ hints = {} /\ \A t \in Tokens : links \cap OfToken(t) = {}
      BY <2>1 DEF Init, Live, NoEntry
    <3>2. QED
      BY <3>1, NoneIsFew, Limits DEF BoundsInv, HintsTyped
  <2>2. QED
    BY <2>1
<1>3. Sound /\ Sound' /\ NamesInv /\ AnswersInv /\ BoundsInv /\ HintsTyped /\ [Next]_vars
        => NamesInv' /\ AnswersInv' /\ BoundsInv' /\ HintsTyped'
  <2>1. ASSUME NamesInv, AnswersInv, BoundsInv, HintsTyped, UNCHANGED vars
        PROVE  NamesInv' /\ AnswersInv' /\ BoundsInv' /\ HintsTyped'
    BY <2>1, NamesStutter, AnswersStutter DEF vars, authVars, poolVars, BoundsInv, HintsTyped
  <2>2. QED
    BY <2>1, NamesKept, AnswersKept, BoundsKept, HintsTypedKept
<1>4. Sound /\ NamesInv /\ AnswersInv /\ BoundsInv /\ HintsTyped => TypeOK
  <2> SUFFICES ASSUME Sound, NamesInv, AnswersInv, BoundsInv, HintsTyped
               PROVE  TypeOK
    OBVIOUS
  <2>1. clock \in 0..MaxClock /\ clock \in Int /\ MaxClock \in Nat /\ ListTTL \in Nat /\ PositiveTTL \in Nat
    BY Numbers, WorldTypes DEF Sound, Base, World
  <2>2. ASSUME NEW j \in Jwts PROVE cache[j] \in [until: Times, verdict: Verdicts]
    <3>1. cache[j] \in Entry /\ cache[j].verdict \in Verdicts /\ cache[j].until \in Nat
      BY <2>2, SaidTypes DEF Entry
    <3>2. cache[j].until <= clock + TTL(cache[j].verdict)
      BY <2>2 DEF AnswersInv, CacheRecent, Recalls
    <3>3. TTL(cache[j].verdict) \in Nat /\ TTL(cache[j].verdict) <= PositiveTTL
      BY <3>1, Numbers DEF TTL
    <3>4. cache[j].until \in Times
      BY <2>1, <3>1, <3>2, <3>3 DEF Times
    <3>5. QED
      BY <3>1, <3>4 DEF Entry
  <2>3. ASSUME NEW t \in Tokens PROVE listing[t] \in [until: Times, names: Listings]
    <3>1. listing[t] \in Known /\ listing[t].until \in Nat
      BY <2>3 DEF Sound, Base, Memory, Known
    <3>2. listing[t].until <= clock + ListTTL
      BY <2>3 DEF NamesInv, ListingsRecent
    <3>3. listing[t].until \in Times
      BY <2>1, <3>1, <3>2 DEF Times
    <3>4. QED
      BY <3>1, <3>3 DEF Known
  <2>4. cache \in [Jwts -> [until: Times, verdict: Verdicts]] /\ listing \in [Tokens -> [until: Times, names: Listings]]
    BY <2>2, <2>3 DEF Sound, Base, Memory
  <2>5. VaultTypeOK /\ identity \in [Jwts -> Verdicts] /\ named \in [Tokens -> Listings] /\ req \in [Requests -> ReqState]
    BY DEF Sound, Base, VaultInv, World, ReqTypes
  <2>6. clients \in SUBSET Tokens /\ links \in SUBSET Pairs /\ lock \in Requests \cup {None}
    BY DEF Sound, Base, Memory
  <2>7. /\ Cardinality({j \in Jwts : cache[j].until > 0}) <= CacheMax /\ Cardinality(clients) <= MaxClients
        /\ \A t \in Tokens : Cardinality(links \cap OfToken(t)) <= MaxLinks
    BY DEF BoundsInv, Few, Live
  <2>8. QED
    BY <2>1, <2>4, <2>5, <2>6, <2>7 DEF TypeOK, HintsTyped
<1>5. QED
  BY <1>1, <1>2, <1>3, <1>4, SoundAlways, PTL DEF Spec

(* Whatever requests, changes of tokens and restarts do, no save of the     *)
(* owner's is lost (`_update`, `purge_retired`).                            *)
THEOREM ServiceKeepsTheSaves == Spec => []VaultIsAsSaved
BY ServiceKeepsTheVault, SavesAreKept, PTL
================================================================================
