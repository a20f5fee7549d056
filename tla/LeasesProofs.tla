------------------------------ MODULE LeasesProofs ------------------------------
(* What TLAPS proves of Leases, for any jobs, workspaces, tokens and        *)
(* filespaces, any bounds of the registries and any number of faults.       *)
EXTENDS Leases, FiniteSetTheorems, FunctionTheorems, TLAPS

(***************************************************************************)
(* The inductive invariant: the lock of a session is with the one lease    *)
(* that is past waiting for it, the pins count the leases that wait for    *)
(* or have the session, and what a job reads is linked.                    *)
(***************************************************************************)
Asked == \A j \in Jobs : lease[j].at # "idle" => lease[j].name \in Names /\ lease[j].token \in Tokens

Resolved == \A j \in Jobs : lease[j].at \in {"link", "using"} => lease[j].fid \in Filespaces

Locked == \A j \in Jobs : lease[j].at \in Holding => owner[lease[j].token] = j

PinnedTo(t) == {j \in Jobs : lease[j].at \in Pinned /\ lease[j].token = t}

PinsAreRight == \A t \in Tokens : pins[t] = Cardinality(PinnedTo(t))

UsedIsLinked == \A j \in Jobs : lease[j].at = "using" => <<lease[j].token, lease[j].fid>> \in up

LeasesInv ==
  /\ TypeOK /\ Asked /\ Resolved
  /\ Locked /\ PinsAreRight /\ UsedIsLinked
  /\ RegistryIsBounded

\* What concerns the leases alone, and what the registry adds.
Leasing == Asked /\ Resolved /\ Locked /\ PinsAreRight /\ UsedIsLinked

\* The types of what a step of a job may change.
Registries ==
  /\ sessions \in SUBSET Tokens
  /\ pins \in [Tokens -> Nat]
  /\ names \in [Tokens -> SUBSET Listings]
  /\ links \in [Tokens -> SUBSET Filespaces]
  /\ up \in SUBSET Pairs /\ leaked \in SUBSET Pairs

Counts == leases \in 0..MaxLeases /\ events \in 0..MaxEvents

LEMMA TypeParts ==
  TypeOK <=> /\ token \in [Workspaces -> Tokens \cup {None}] /\ named \in [Tokens -> Listings]
             /\ Registries /\ Counts
             /\ owner \in [Tokens -> Jobs \cup {None}] /\ lease \in [Jobs -> LeaseState]
BY DEF TypeOK, Registries, Counts

-------------------------------------------------------------------------------
(* One job moves: what stays true of all of them.                           *)

\* Only j's lease changes, and not whether it is pinned, nor to what.
Moves(j) ==
  /\ lease \in [Jobs -> LeaseState] /\ lease' \in [Jobs -> LeaseState]
  /\ \A k \in Jobs \ {j} : lease'[k] = lease[k]

StaysPinned(j) ==
  /\ lease'[j].at \in Pinned <=> lease[j].at \in Pinned
  /\ lease[j].at \in Pinned => lease'[j].token = lease[j].token

LEMMA PinsStay ==
  ASSUME PinsAreRight, UNCHANGED pins, NEW j \in Jobs, Moves(j), StaysPinned(j)
  PROVE  PinsAreRight'
<1> SUFFICES ASSUME NEW t \in Tokens PROVE pins'[t] = Cardinality(PinnedTo(t)')
  BY DEF PinsAreRight
<1>1. ASSUME NEW k \in Jobs
      PROVE  (lease'[k].at \in Pinned /\ lease'[k].token = t) <=> (lease[k].at \in Pinned /\ lease[k].token = t)
  <2>1. CASE k = j
    BY <2>1 DEF StaysPinned
  <2>2. CASE k # j
    BY <2>2 DEF Moves
  <2>3. QED
    BY <2>1, <2>2
<1>2. PinnedTo(t)' = PinnedTo(t)
  BY <1>1 DEF PinnedTo
<1>3. QED
  BY <1>2 DEF PinsAreRight

LEMMA PinnedIsFinite == ASSUME NEW t PROVE IsFiniteSet(PinnedTo(t)) /\ IsFiniteSet(PinnedTo(t)')
<1>1. PinnedTo(t) \subseteq Jobs /\ PinnedTo(t)' \subseteq Jobs
  BY DEF PinnedTo
<1>2. QED
  BY <1>1, FS_Subset, LeasesAssumption

\* A pinned session counts as busy.
LEMMA PinnedIsBusy ==
  ASSUME LeasesInv, NEW j \in Jobs, lease[j].at \in Pinned
  PROVE  lease[j].token \in Tokens /\ Busy(lease[j].token)
<1> DEFINE t == lease[j].token
<1>1. t \in Tokens
  BY DEF LeasesInv, Asked, Pinned
<1>2. j \in PinnedTo(t)
  BY DEF PinnedTo
<1>3. Cardinality(PinnedTo(t)) # 0 /\ Cardinality(PinnedTo(t)) \in Nat
  BY <1>2, PinnedIsFinite, FS_EmptySet, FS_CardinalityType
<1>4. pins[t] = Cardinality(PinnedTo(t))
  BY <1>1 DEF LeasesInv, PinsAreRight
<1>5. QED
  BY <1>1, <1>3, <1>4 DEF Busy

-------------------------------------------------------------------------------
(* The bounds.                                                              *)

LEMMA TokensAreFinite ==
  /\ \A S \in SUBSET Tokens : IsFiniteSet(S) /\ Cardinality(S) \in Nat
  /\ \A S \in SUBSET Filespaces : IsFiniteSet(S) /\ Cardinality(S) \in Nat
BY LeasesAssumption, FS_Subset, FS_CardinalityType

\* The sessions that jobs need, and the one a job opens, are no more than jobs.
LEMMA NeededAreFew ==
  ASSUME LeasesInv, NEW j \in Jobs, lease[j].at = "login"
  PROVE  LET P == {lease[j].token} \cup {s \in sessions : Busy(s)}
         IN  P \in SUBSET Tokens /\ Cardinality(P) <= Cardinality(Jobs)
<1> DEFINE P == {lease[j].token} \cup {s \in sessions : Busy(s)}
           T == {lease[k].token : k \in Jobs}
           f == [k \in Jobs |-> lease[k].token]
<1>1. P \in SUBSET Tokens
  BY DEF LeasesInv, Asked, TypeOK
<1>2. P \subseteq T
  <2>1. ASSUME NEW s \in sessions, Busy(s)
        PROVE  s \in T
    <3>1. s \in Tokens /\ pins[s] = Cardinality(PinnedTo(s)) /\ pins[s] # 0
      BY <2>1 DEF LeasesInv, TypeOK, PinsAreRight, Busy
    <3>2. PinnedTo(s) # {}
      BY <3>1, FS_EmptySet
    <3>3. PICK k \in PinnedTo(s) : TRUE
      BY <3>2
    <3>4. QED
      BY <3>3 DEF PinnedTo
  <2>2. QED
    BY <2>1
<1>3. f \in Surjection(Jobs, T)
  BY DEF Surjection
<1>4. IsFiniteSet(T) /\ Cardinality(T) <= Cardinality(Jobs)
  BY <1>3, FS_Surjection, LeasesAssumption
<1>5. Cardinality(P) <= Cardinality(T) /\ Cardinality(P) \in Nat /\ Cardinality(T) \in Nat
  BY <1>2, <1>4, FS_Subset, FS_CardinalityType
<1>6. Cardinality(P) <= Cardinality(Jobs)
  BY <1>4, <1>5, LeasesAssumption, FS_CardinalityType
<1>7. QED
  BY <1>1, <1>6

\* Evicting leaves at most n, or what is pinned.
LEMMA ShrunkIsSmall ==
  ASSUME NEW S, NEW P, NEW n \in Nat, NEW s \in Shrunk(S, P, n)
  PROVE  /\ s \subseteq S /\ P \subseteq s
         /\ (Size(s) = Size(S) /\ Size(S) <= n) \/ Size(s) = n \/ Size(s) = Size(P)
BY DEF Shrunk

-------------------------------------------------------------------------------
(* A step of a job that leaves the registry alone.                          *)

\* The lock goes to nobody else, and is given up only by its holder.
OwnerMoves(j) ==
  /\ owner' \in [Tokens -> Jobs \cup {None}]
  /\ \A k \in Jobs \ {j}, t \in Tokens : owner[t] = k => owner'[t] = k
  /\ lease'[j].at \in Holding => owner'[lease'[j].token] = j

Knows(j) ==
  /\ lease'[j].at # "idle" => lease'[j].name \in Names /\ lease'[j].token \in Tokens
  /\ lease'[j].at \in {"link", "using"} => lease'[j].fid \in Filespaces

LEMMA LeaseParts ==
  ASSUME LeasesInv, NEW j \in Jobs, Moves(j), Knows(j), OwnerMoves(j)
  PROVE  Asked' /\ Resolved' /\ Locked'
<1>1. Asked' /\ Resolved'
  BY DEF LeasesInv, Asked, Resolved, Moves, Knows
<1>2. ASSUME NEW k \in Jobs, lease'[k].at \in Holding
      PROVE  owner'[lease'[k].token] = k
  <2>1. CASE k = j
    BY <1>2, <2>1 DEF OwnerMoves
  <2>2. CASE k # j
    <3>1. lease'[k] = lease[k]
      BY <2>2 DEF Moves
    <3>2. lease[k].token \in Tokens /\ owner[lease[k].token] = k
      BY <1>2, <3>1 DEF LeasesInv, Asked, Locked, Holding
    <3>3. QED
      BY <2>2, <3>1, <3>2 DEF OwnerMoves
  <2>3. QED
    BY <2>1, <2>2
<1>3. QED
  BY <1>1, <1>2 DEF Locked

\* What is pinned stays in the registry.
SessionsHold == \A j \in Jobs : lease[j].at \in Pinned => lease[j].token \in sessions

LinksHold ==
  /\ \A t \in Tokens : Size(links[t]) <= MaxLinks
  /\ \A t \in Tokens : links[t] # {} => t \in sessions
  /\ \A p \in up : p[2] \in links[p[1]] \/ p \in leaked

SessionsAreFew == Size(sessions) <= IF Size(Jobs) > MaxClients THEN Size(Jobs) ELSE MaxClients

LEMMA RegistryParts == RegistryIsBounded <=> SessionsAreFew /\ LinksHold /\ SessionsHold
BY DEF RegistryIsBounded, SessionsAreFew, LinksHold, SessionsHold

LEMMA RegistryStays ==
  ASSUME LeasesInv, UNCHANGED registry
  PROVE  SessionsAreFew' /\ LinksHold'
BY RegistryParts DEF LeasesInv, SessionsAreFew, LinksHold, registry

\* The step of a job that changes neither registry nor pins.
LEMMA JobMoves ==
  ASSUME LeasesInv, UNCHANGED <<settings, registry>>, NEW j \in Jobs,
         Moves(j), StaysPinned(j), Knows(j), OwnerMoves(j),
         lease'[j].at = "using" => lease[j].at = "using" /\ lease'[j] = lease[j],
         names' \in [Tokens -> SUBSET Listings], Counts'
  PROVE  LeasesInv'
<1>1. Asked' /\ Resolved' /\ Locked'
  BY LeaseParts
<1>2. PinsAreRight'
  BY PinsStay DEF LeasesInv, registry
<1>3. UsedIsLinked'
  BY DEF LeasesInv, UsedIsLinked, Moves, registry
<1>4. SessionsHold'
  BY RegistryParts DEF LeasesInv, SessionsHold, Moves, StaysPinned, registry
<1>5. RegistryIsBounded'
  BY <1>4, RegistryStays DEF RegistryIsBounded, SessionsAreFew, LinksHold, SessionsHold
<1>6. TypeOK'
  BY DEF LeasesInv, TypeOK, Counts, Moves, OwnerMoves, registry, settings
<1>7. QED
  BY <1>1, <1>2, <1>3, <1>5, <1>6 DEF LeasesInv

-------------------------------------------------------------------------------
(* The steps.                                                               *)

LEMMA EventCounts == ASSUME Counts, UNCHANGED leases, Event PROVE Counts'
BY LeasesAssumption DEF Counts, Event

LEMMA LeaseTypes ==
  ASSUME LeasesInv, NEW j \in Jobs
  PROVE  /\ lease \in [Jobs -> LeaseState] /\ lease[j] \in LeaseState
         /\ owner \in [Tokens -> Jobs \cup {None}]
         /\ Counts
         /\ names \in [Tokens -> SUBSET Listings]
         /\ Idle \in LeaseState
BY DEF LeasesInv, TypeOK, Counts, LeaseState, Idle

\* Only token and named change.
LEMMA SettingsKeep ==
  ASSUME LeasesInv, UNCHANGED <<registry, owner, names, lease>>, Counts',
         token' \in [Workspaces -> Tokens \cup {None}], named' \in [Tokens -> Listings]
  PROVE  LeasesInv'
<1>1. PinsAreRight'
  BY DEF LeasesInv, PinsAreRight, PinnedTo, registry
<1>2. TypeOK' /\ RegistryIsBounded'
  BY DEF LeasesInv, TypeOK, RegistryIsBounded, Counts, registry
<1>3. Asked' /\ Resolved' /\ Locked' /\ UsedIsLinked'
  BY DEF LeasesInv, Asked, Resolved, Locked, UsedIsLinked, registry
<1>4. QED
  BY <1>1, <1>2, <1>3 DEF LeasesInv

LEMMA RotateKeeps == ASSUME LeasesInv, NEW w \in Workspaces, Rotate(w) PROVE LeasesInv'
<1>1. Counts'
  BY EventCounts DEF Rotate, LeasesInv, TypeOK, Counts
<1>2. token' \in [Workspaces -> Tokens \cup {None}] /\ named' \in [Tokens -> Listings]
  BY DEF Rotate, LeasesInv, TypeOK
<1>3. QED
  BY <1>1, <1>2, SettingsKeep DEF Rotate

LEMMA RenameKeeps == ASSUME LeasesInv, NEW t \in Tokens, NEW n \in Names, Rename(t, n) PROVE LeasesInv'
<1>1. Counts'
  BY EventCounts DEF Rename, LeasesInv, TypeOK, Counts
<1>2. token' \in [Workspaces -> Tokens \cup {None}] /\ named \in [Tokens -> Listings]
  BY DEF Rename, LeasesInv, TypeOK
<1>3. PICK x \in Filespaces \cup {None} : named' = [named EXCEPT ![t][n] = x]
  BY DEF Rename
<1>4. named' \in [Tokens -> Listings]
  BY <1>2, <1>3 DEF Listings
<1>5. QED
  BY <1>1, <1>2, <1>4, SettingsKeep DEF Rename

LEMMA AskKeeps == ASSUME LeasesInv, NEW j \in Jobs, Ask(j) PROVE LeasesInv'
<1>1. PICK want \in Wants :
        lease' = IF token[want[1]] = None THEN lease
                 ELSE [lease EXCEPT ![j] = [Idle EXCEPT !.at = "login", !.name = want[2], !.token = token[want[1]]]]
  BY DEF Ask
<1>2. want[1] \in Workspaces /\ want[2] \in Names
  BY LeasesAssumption
<1>3. token[want[1]] \in Tokens \cup {None}
  BY <1>2 DEF LeasesInv, TypeOK
<1>4. Counts'
  BY LeasesAssumption DEF Ask, LeasesInv, TypeOK, Counts
<1>5. CASE token[want[1]] = None
  <2>1. UNCHANGED <<token, named, registry, owner, names, lease>>
    BY <1>1, <1>5 DEF Ask, settings
  <2>2. QED
    BY <1>4, <2>1, SettingsKeep DEF LeasesInv, TypeOK
<1>6. CASE token[want[1]] # None
  <2> DEFINE new == [Idle EXCEPT !.at = "login", !.name = want[2], !.token = token[want[1]]]
  <2>1. new \in LeaseState /\ new.at = "login" /\ new.name \in Names /\ new.token \in Tokens
    BY <1>2, <1>3, <1>6 DEF LeaseState, Idle
  <2>2. lease' = [lease EXCEPT ![j] = new]
    BY <1>1, <1>6
  <2> HIDE DEF new
  <2>3. lease'[j] = new /\ Moves(j)
    BY <2>1, <2>2, LeaseTypes DEF Moves
  <2>4. StaysPinned(j) /\ Knows(j)
    BY <2>1, <2>3 DEF StaysPinned, Knows, Pinned, Ask
  <2>5. OwnerMoves(j)
    BY <2>1, <2>3, LeaseTypes DEF OwnerMoves, Ask, Holding
  <2>6. UNCHANGED <<settings, registry>> /\ names' \in [Tokens -> SUBSET Listings]
    BY LeaseTypes DEF Ask
  <2>7. QED
    BY <1>4, <2>1, <2>3, <2>4, <2>5, <2>6, JobMoves
<1>7. QED
  BY <1>5, <1>6

LEMMA TakeKeeps == ASSUME LeasesInv, NEW j \in Jobs, Take(j) PROVE LeasesInv'
<1> DEFINE t == lease[j].token
<1>1. lease[j].at = "wait" /\ t \in Tokens /\ lease[j].name \in Names
  BY DEF Take, LeasesInv, Asked
<1>2. lease' = [lease EXCEPT ![j].at = "resolve"] /\ owner' = [owner EXCEPT ![t] = j] /\ owner[t] = None
  BY DEF Take
<1>3. Moves(j) /\ lease'[j].at = "resolve" /\ lease'[j].token = t /\ lease'[j].name = lease[j].name
  BY <1>2, LeaseTypes DEF Moves, LeaseState, Pinned
<1>4. StaysPinned(j) /\ Knows(j)
  BY <1>1, <1>3 DEF StaysPinned, Knows, Pinned
<1>5. OwnerMoves(j)
  BY <1>1, <1>2, <1>3, LeaseTypes, LeasesAssumption DEF OwnerMoves
<1>6. UNCHANGED <<settings, registry>> /\ names' \in [Tokens -> SUBSET Listings] /\ Counts'
  BY LeaseTypes DEF Take, Counts
<1>7. QED
  BY <1>3, <1>4, <1>5, <1>6, JobMoves

\* Giving the lease up, from a place that holds the session's lock.
LEMMA LeavingMoves ==
  ASSUME LeasesInv, NEW j \in Jobs, lease[j].at \in Holding, Leave(j), Unlock(j)
  PROVE  Moves(j) /\ StaysPinned(j) /\ Knows(j) /\ OwnerMoves(j) /\ lease'[j].at = "unpin"
<1> DEFINE t == lease[j].token
<1>1. /\ t \in Tokens /\ lease[j].name \in Names /\ owner[t] = j
      /\ lease[j].at \in Pinned
  BY DEF LeasesInv, Asked, Locked, Holding, Pinned
<1>2. Moves(j) /\ lease'[j].at = "unpin" /\ lease'[j].token = t /\ lease'[j].name = lease[j].name
  BY LeaseTypes DEF Leave, Moves, LeaseState, Pinned
<1>3. StaysPinned(j) /\ Knows(j)
  BY <1>1, <1>2 DEF StaysPinned, Knows, Pinned
<1>4. OwnerMoves(j)
  BY <1>1, <1>2, LeaseTypes, LeasesAssumption DEF OwnerMoves, Unlock, Holding
<1>5. QED
  BY <1>2, <1>3, <1>4

LEMMA ResolveKeeps == ASSUME LeasesInv, NEW j \in Jobs, Resolve(j) PROVE LeasesInv'
<1> DEFINE t == lease[j].token
<1>1. /\ t \in Tokens /\ lease[j].name \in Names
      /\ lease[j].at = "resolve" /\ lease[j].at \in Holding /\ lease[j].at \in Pinned
      /\ UNCHANGED <<settings, registry, leases>>
  BY DEF Resolve, LeasesInv, Asked, Holding, Pinned
<1>2. CASE Fault("list") /\ Leave(j) /\ Unlock(j) /\ UNCHANGED names
  <2>1. Counts'
    BY <1>1, <1>2, LeaseTypes, EventCounts DEF Fault
  <2>2. names' \in [Tokens -> SUBSET Listings]
    BY <1>2, LeaseTypes
  <2>3. QED
    BY <1>1, <1>2, <2>1, <2>2, LeavingMoves, JobMoves
<1>3. ASSUME names' \in {[names EXCEPT ![t] = s] : s \in Refreshed(t)},
             NEW listing \in names'[t],
             IF listing[lease[j].name] = None THEN Leave(j) /\ Unlock(j)
             ELSE /\ lease' = [lease EXCEPT ![j].at = "link", ![j].fid = listing[lease[j].name]]
                  /\ UNCHANGED owner,
             UNCHANGED events
      PROVE  LeasesInv'
  <2>1. Refreshed(t) \subseteq SUBSET Listings
    BY <1>1 DEF Refreshed, LeasesInv, TypeOK
  <2>2. names' \in [Tokens -> SUBSET Listings]
    BY <1>1, <1>3, <2>1, LeaseTypes
  <2>3. Counts'
    BY <1>1, <1>3, LeaseTypes DEF Counts
  <2>4. CASE listing[lease[j].name] = None
    BY <1>1, <1>3, <2>2, <2>3, <2>4, LeavingMoves, JobMoves
  <2>5. CASE listing[lease[j].name] # None
    <3> DEFINE x == listing[lease[j].name]
    <3>1. x \in Filespaces
      BY <1>1, <1>3, <2>2, <2>5 DEF Listings
    <3>2. lease' = [lease EXCEPT ![j].at = "link", ![j].fid = x] /\ owner' = owner
      BY <1>3, <2>5
    <3> HIDE DEF x
    <3>3. Moves(j) /\ lease'[j].at = "link" /\ lease'[j].token = t /\ lease'[j].fid = x
          /\ lease'[j].name = lease[j].name
      BY <3>1, <3>2, LeaseTypes DEF Moves, LeaseState, Pinned
    <3>4. StaysPinned(j) /\ Knows(j)
      BY <1>1, <3>1, <3>3 DEF StaysPinned, Knows, Pinned
    <3>5. OwnerMoves(j)
      BY <1>1, <3>2, <3>3, LeaseTypes DEF OwnerMoves, LeasesInv, Locked
    <3>6. QED
      BY <1>1, <2>2, <2>3, <3>3, <3>4, <3>5, JobMoves
  <2>6. QED
    BY <2>4, <2>5
<1>4. QED
  BY <1>2, <1>3 DEF Resolve

LEMMA FinishKeeps == ASSUME LeasesInv, NEW j \in Jobs, Finish(j) PROVE LeasesInv'
<1>1. lease[j].at \in Holding /\ Leave(j) /\ Unlock(j)
  BY DEF Finish, Holding
<1>2. UNCHANGED <<settings, registry>> /\ names' \in [Tokens -> SUBSET Listings] /\ Counts'
  BY LeaseTypes DEF Finish, Counts
<1>3. QED
  BY <1>1, <1>2, LeavingMoves, JobMoves

\* The last step of a lease takes its pin off.
LEMMA UnpinKeeps == ASSUME LeasesInv, NEW j \in Jobs, Unpin(j) PROVE LeasesInv'
<1>0. PICK t \in Tokens : t = lease[j].token
  BY DEF Unpin, LeasesInv, Asked
<1>1. /\ lease[j].token = t /\ lease[j].at = "unpin"
      /\ lease' = [lease EXCEPT ![j] = Idle] /\ pins' = [pins EXCEPT ![t] = @ - 1]
      /\ UNCHANGED <<settings, sessions, owner, names, links, up, leaked, leases, events>>
  BY <1>0 DEF Unpin
<1>2. Moves(j) /\ lease'[j] = Idle
  BY <1>1, LeaseTypes DEF Moves
<1>3. Idle.at = "idle"
  BY DEF Idle
<1>4. Knows(j) /\ OwnerMoves(j)
  BY <1>1, <1>2, <1>3, LeaseTypes DEF Knows, OwnerMoves, Holding
<1>5. PinnedTo(t)' = PinnedTo(t) \ {j} /\ j \in PinnedTo(t)
  BY <1>1, <1>2, <1>3 DEF PinnedTo, Moves, Pinned
<1>6. ASSUME NEW s \in Tokens, s # t
      PROVE  PinnedTo(s)' = PinnedTo(s)
  BY <1>1, <1>2, <1>3, <1>6 DEF PinnedTo, Moves, Pinned
<1>7. Cardinality(PinnedTo(t)') = Cardinality(PinnedTo(t)) - 1 /\ Cardinality(PinnedTo(t)') \in Nat
  BY <1>5, PinnedIsFinite, FS_RemoveElement, FS_CardinalityType
<1>8. pins \in [Tokens -> Nat] /\ \A s \in Tokens : pins[s] = Cardinality(PinnedTo(s))
  BY DEF LeasesInv, TypeOK, PinsAreRight
<1>9. pins' \in [Tokens -> Nat] /\ PinsAreRight'
  <2>1. pins[t] - 1 \in Nat
    BY <1>1, <1>7, <1>8
  <2>2. ASSUME NEW s \in Tokens
        PROVE  pins'[s] = Cardinality(PinnedTo(s)')
    <3>1. CASE s = t
      BY <1>1, <1>7, <1>8, <3>1
    <3>2. CASE s # t
      BY <1>1, <1>6, <1>8, <3>2
    <3>3. QED
      BY <3>1, <3>2
  <2>3. QED
    BY <1>1, <1>8, <2>1, <2>2 DEF PinsAreRight
<1>10. Asked' /\ Resolved' /\ Locked'
  BY <1>2, <1>4, LeaseParts
<1>11. UsedIsLinked' /\ SessionsHold'
  BY <1>1, <1>2, <1>3, RegistryParts DEF LeasesInv, UsedIsLinked, SessionsHold, Moves, Pinned
<1>12. RegistryIsBounded'
  BY <1>1, <1>11, RegistryParts DEF LeasesInv, RegistryIsBounded, SessionsAreFew, LinksHold, SessionsHold
<1>13. TypeOK'
  BY <1>1, <1>2, <1>4, <1>9 DEF LeasesInv, TypeOK, Moves, OwnerMoves, settings
<1>14. QED
  BY <1>9, <1>10, <1>11, <1>12, <1>13 DEF LeasesInv

\* Closing sessions unlinks only what is beneath them, and accounts for it.
LEMMA CloseKeeps ==
  ASSUME LeasesInv, NEW gone \in SUBSET Tokens, Close(gone)
  PROVE  /\ links' \in [Tokens -> SUBSET Filespaces] /\ names' \in [Tokens -> SUBSET Listings]
         /\ up' \in SUBSET Pairs /\ leaked' \in SUBSET Pairs
         /\ \A s \in Tokens : links'[s] = IF s \in gone THEN {} ELSE links[s]
         /\ \A p \in up : p[1] \notin gone => p \in up'
         /\ \A p \in up' : p[2] \in links'[p[1]] \/ p \in leaked'
         /\ UNCHANGED events \/ Event
<1> DEFINE beneath == {p \in Pairs : p[1] \in gone /\ p[2] \in links[p[1]]}
<1>1. /\ links \in [Tokens -> SUBSET Filespaces] /\ names \in [Tokens -> SUBSET Listings]
      /\ up \in SUBSET Pairs /\ leaked \in SUBSET Pairs
  BY DEF LeasesInv, TypeOK
<1>2. /\ links' \in [Tokens -> SUBSET Filespaces] /\ names' \in [Tokens -> SUBSET Listings]
      /\ \A s \in Tokens : links'[s] = IF s \in gone THEN {} ELSE links[s]
  BY <1>1 DEF Close
<1>3. \A p \in up : p[2] \in links[p[1]] \/ p \in leaked
  BY DEF LeasesInv, RegistryIsBounded
<1>4. \A p \in Pairs : p[1] \in Tokens
  BY DEF Pairs
<1>5. CASE up' = up \ beneath /\ UNCHANGED <<leaked, events>>
  BY <1>1, <1>2, <1>3, <1>4, <1>5
<1>6. CASE Fault("unlink") /\ leaked' = leaked \cup beneath /\ up' = up
  <2>1. leaked' \in SUBSET Pairs /\ Event
    BY <1>1, <1>6 DEF Fault
  <2>2. QED
    BY <1>1, <1>2, <1>3, <1>4, <1>6, <2>1
<1>7. QED
  BY <1>5, <1>6 DEF Close

\* A login, or a session found, gets its pin; idle sessions are evicted.
LEMMA PinSucceeds ==
  ASSUME LeasesInv, NEW j \in Jobs, NEW t \in Tokens, lease[j].token = t, lease[j].at = "login",
         sessions' \in Shrunk(sessions \cup {t}, {t} \cup {s \in sessions : Busy(s)}, MaxClients),
         Close(sessions \ sessions'),
         pins' = [pins EXCEPT ![t] = @ + 1],
         lease' = [lease EXCEPT ![j].at = "wait"],
         UNCHANGED <<settings, owner, leases>>
  PROVE  LeasesInv'
<1> DEFINE P == {t} \cup {s \in sessions : Busy(s)}
           gone == sessions \ sessions'
<1>1. /\ Moves(j) /\ lease'[j].at = "wait" /\ lease'[j].token = t /\ lease'[j].name = lease[j].name
      /\ lease[j].name \in Names
  BY LeaseTypes DEF Moves, LeaseState, Pinned, LeasesInv, Asked
<1>2. Knows(j) /\ OwnerMoves(j)
  BY <1>1, LeaseTypes DEF Knows, OwnerMoves, Holding
<1>3. Asked' /\ Resolved' /\ Locked'
  BY <1>1, <1>2, LeaseParts
<1>4. PinnedTo(t)' = PinnedTo(t) \cup {j} /\ j \notin PinnedTo(t)
  BY <1>1 DEF PinnedTo, Moves, Pinned
<1>5. ASSUME NEW s \in Tokens, s # t
      PROVE  PinnedTo(s)' = PinnedTo(s)
  BY <1>1, <1>5 DEF PinnedTo, Moves, Pinned
<1>6. Cardinality(PinnedTo(t)') = Cardinality(PinnedTo(t)) + 1
  BY <1>4, PinnedIsFinite, FS_AddElement
<1>7. pins \in [Tokens -> Nat] /\ \A s \in Tokens : pins[s] = Cardinality(PinnedTo(s))
  BY DEF LeasesInv, TypeOK, PinsAreRight
<1>8. pins' \in [Tokens -> Nat] /\ PinsAreRight'
  <2>1. ASSUME NEW s \in Tokens
        PROVE  pins'[s] = Cardinality(PinnedTo(s)')
    <3>1. CASE s = t
      BY <1>6, <1>7, <3>1
    <3>2. CASE s # t
      BY <1>5, <1>7, <3>2
    <3>3. QED
      BY <3>1, <3>2
  <2>2. QED
    BY <1>7, <2>1 DEF PinsAreRight
<1>9. sessions \in SUBSET Tokens /\ MaxClients \in Nat /\ MaxClients > 0
  BY LeasesAssumption DEF LeasesInv, TypeOK
<1>10. /\ sessions' \subseteq sessions \cup {t} /\ P \subseteq sessions'
       /\ \/ Size(sessions') = Size(sessions \cup {t}) /\ Size(sessions \cup {t}) <= MaxClients
          \/ Size(sessions') = MaxClients
          \/ Size(sessions') = Size(P)
  BY <1>9, ShrunkIsSmall
<1>11. SessionsAreFew'
  <2>1. Size(P) <= Size(Jobs) /\ Size(P) \in Nat /\ Size(Jobs) \in Nat /\ Size(sessions \cup {t}) \in Nat
    BY <1>9, NeededAreFew, TokensAreFinite, LeasesAssumption, FS_CardinalityType DEF Size
  <2> HIDE DEF P
  <2>2. QED
    BY <1>9, <1>10, <2>1 DEF SessionsAreFew
<1>12. gone \in SUBSET Tokens /\ sessions' \in SUBSET Tokens
  BY <1>9, <1>10
<1>13. /\ links' \in [Tokens -> SUBSET Filespaces] /\ names' \in [Tokens -> SUBSET Listings]
       /\ up' \in SUBSET Pairs /\ leaked' \in SUBSET Pairs
       /\ \A s \in Tokens : links'[s] = IF s \in gone THEN {} ELSE links[s]
       /\ \A p \in up : p[1] \notin gone => p \in up'
       /\ \A p \in up' : p[2] \in links'[p[1]] \/ p \in leaked'
       /\ UNCHANGED events \/ Event
  BY <1>12, CloseKeeps
<1>14. SessionsHold'
  <2>1. ASSUME NEW k \in Jobs, lease'[k].at \in Pinned
        PROVE  lease'[k].token \in sessions'
    <3>1. CASE k = j
      BY <1>1, <1>10, <3>1
    <3>2. CASE k # j
      <4>1. lease'[k] = lease[k]
        BY <1>1, <3>2 DEF Moves
      <4>2. lease[k].token \in sessions /\ Busy(lease[k].token)
        BY <2>1, <4>1, PinnedIsBusy DEF LeasesInv, RegistryIsBounded
      <4>3. QED
        BY <1>10, <4>1, <4>2
    <3>3. QED
      BY <3>1, <3>2
  <2>2. QED
    BY <2>1 DEF SessionsHold
<1>15. LinksHold'
  <2>1. ASSUME NEW s \in Tokens
        PROVE  Size(links'[s]) <= MaxLinks /\ (links'[s] # {} => s \in sessions')
    <3>1. Size(links[s]) <= MaxLinks /\ (links[s] # {} => s \in sessions)
      BY DEF LeasesInv, RegistryIsBounded
    <3>2. CASE s \in gone
      <4>1. links'[s] = {} /\ Size({}) = 0
        BY <1>13, <3>2, FS_EmptySet DEF Size
      <4>2. QED
        BY <4>1, LeasesAssumption
    <3>3. CASE s \notin gone
      BY <1>13, <3>1, <3>3
    <3>4. QED
      BY <3>2, <3>3
  <2>2. QED
    BY <1>13, <2>1 DEF LinksHold
<1>16. UsedIsLinked'
  <2>1. ASSUME NEW k \in Jobs, lease'[k].at = "using"
        PROVE  <<lease'[k].token, lease'[k].fid>> \in up'
    <3>1. k # j /\ lease'[k] = lease[k] /\ lease[k].at \in Pinned
      BY <1>1, <2>1 DEF Moves, Pinned
    <3>2. <<lease[k].token, lease[k].fid>> \in up /\ lease[k].token \in sessions /\ Busy(lease[k].token)
      BY <2>1, <3>1, PinnedIsBusy DEF LeasesInv, RegistryIsBounded, UsedIsLinked
    <3>3. lease[k].token \notin gone
      BY <1>10, <3>2
    <3>4. QED
      BY <1>13, <3>1, <3>2, <3>3
  <2>2. QED
    BY <2>1 DEF UsedIsLinked
<1>17. RegistryIsBounded'
  BY <1>11, <1>14, <1>15 DEF RegistryIsBounded, SessionsAreFew, LinksHold, SessionsHold
<1>18. Counts'
  BY <1>13, LeaseTypes, EventCounts DEF Counts
<1>19. TypeOK'
  BY <1>1, <1>2, <1>8, <1>12, <1>13, <1>18 DEF LeasesInv, TypeOK, Counts, Moves, OwnerMoves, settings
<1>20. QED
  BY <1>3, <1>8, <1>16, <1>17, <1>19 DEF LeasesInv

LEMMA PinKeeps == ASSUME LeasesInv, NEW j \in Jobs, Pin(j) PROVE LeasesInv'
<1>0. PICK t \in Tokens : t = lease[j].token
  BY DEF Pin, LeasesInv, Asked
<1>1. CASE t \notin sessions /\ Fault("login") /\ lease' = [lease EXCEPT ![j] = Idle] /\ UNCHANGED <<registry, names>>
  <2>1. lease[j].at = "login" /\ UNCHANGED <<settings, owner, leases>> /\ Idle.at = "idle"
    BY DEF Pin, Idle
  <2>2. Moves(j) /\ lease'[j] = Idle
    BY <1>1, LeaseTypes DEF Moves
  <2>3. StaysPinned(j) /\ Knows(j) /\ OwnerMoves(j)
    BY <2>1, <2>2, LeaseTypes DEF StaysPinned, Knows, OwnerMoves, Pinned, Holding
  <2>4. Counts' /\ names' \in [Tokens -> SUBSET Listings]
    BY <1>1, <2>1, LeaseTypes, EventCounts DEF Fault
  <2>5. QED
    BY <1>1, <2>1, <2>2, <2>3, <2>4, JobMoves
<1>2. QED
  BY <1>0, <1>1, PinSucceeds DEF Pin

\* A link, and the filespaces of the session that make room for it.
LEMMA LinkSucceeds ==
  ASSUME LeasesInv, NEW j \in Jobs, NEW t \in Tokens, NEW x \in Filespaces,
         lease[j].token = t, lease[j].fid = x, lease[j].at = "link",
         NEW kept \in Shrunk(links[t] \cup {x}, {x}, MaxLinks),
         links' = [links EXCEPT ![t] = kept],
         lease' = [lease EXCEPT ![j].at = "using"],
         UNCHANGED <<settings, sessions, pins, names, leases, owner>>,
         \/ up' = (up \ ({t} \X (links[t] \ kept))) \cup {<<t, x>>} /\ UNCHANGED <<leaked, events>>
         \/ /\ Event
            /\ up' = up \cup {<<t, x>>} /\ leaked' = leaked \cup ({t} \X (links[t] \ kept))
  PROVE  LeasesInv'
<1> DEFINE gone == {t} \X (links[t] \ kept)
<1>1. /\ Moves(j) /\ lease'[j].at = "using" /\ lease'[j].token = t /\ lease'[j].fid = x
      /\ lease'[j].name = lease[j].name /\ lease[j].name \in Names
  BY LeaseTypes DEF Moves, LeaseState, Pinned, LeasesInv, Asked
<1>2. owner[t] = j /\ t \in sessions
  BY DEF LeasesInv, Locked, RegistryIsBounded, Holding, Pinned
<1>3. StaysPinned(j) /\ Knows(j) /\ OwnerMoves(j)
  BY <1>1, <1>2, LeaseTypes DEF StaysPinned, Knows, OwnerMoves, Pinned
<1>4. Asked' /\ Resolved' /\ Locked'
  BY <1>1, <1>3, LeaseParts
<1>5. PinsAreRight'
  BY <1>1, <1>3, PinsStay DEF LeasesInv
<1>6. /\ links \in [Tokens -> SUBSET Filespaces] /\ up \in SUBSET Pairs /\ leaked \in SUBSET Pairs
  BY DEF LeasesInv, TypeOK
<1>7. /\ kept \subseteq links[t] \cup {x} /\ x \in kept
      /\ \/ Size(kept) = Size(links[t] \cup {x}) /\ Size(links[t] \cup {x}) <= MaxLinks
         \/ Size(kept) = MaxLinks
         \/ Size(kept) = Size({x})
  BY <1>6, ShrunkIsSmall, LeasesAssumption
<1>8. Size(kept) <= MaxLinks
  <2>1. Size({x}) = 1
    BY FS_Singleton DEF Size
  <2>2. kept \in SUBSET Filespaces
    BY <1>6, <1>7
  <2>3. Size(kept) \in Nat
    BY <2>2, TokensAreFinite DEF Size
  <2>4. QED
    BY <1>7, <2>1, <2>3, LeasesAssumption
<1>9. links' \in [Tokens -> SUBSET Filespaces] /\ <<t, x>> \in Pairs /\ gone \subseteq Pairs
  BY <1>6, <1>7 DEF Pairs
<1>10. up' \in SUBSET Pairs /\ leaked' \in SUBSET Pairs
  BY <1>6, <1>9
<1>11. /\ <<t, x>> \in up'
       /\ \A p \in up : p[1] # t => p \in up'
       /\ \A p \in up' : p = <<t, x>> \/ p \in up
       /\ \A p \in up' : p \in gone => p = <<t, x>> \/ p \in leaked'
       /\ leaked \subseteq leaked'
  BY <1>6
<1>12. \A p \in up' : p[2] \in links'[p[1]] \/ p \in leaked'
  <2>1. ASSUME NEW p \in up', p # <<t, x>>
        PROVE  p[2] \in links'[p[1]] \/ p \in leaked'
    <3>1. p \in up /\ p \in Pairs /\ p[1] \in Tokens /\ p[2] \in Filespaces /\ p = <<p[1], p[2]>>
      BY <1>6, <1>11, <2>1 DEF Pairs
    <3>2. p[2] \in links[p[1]] \/ p \in leaked
      BY <3>1 DEF LeasesInv, RegistryIsBounded
    <3>3. CASE p[1] # t
      BY <1>6, <1>11, <3>1, <3>2, <3>3
    <3>4. CASE p[1] = t
      <4>1. CASE p[2] \in links[t] /\ p[2] \notin kept
        <5>1. p \in gone
          BY <3>1, <3>4, <4>1
        <5>2. QED
          BY <1>11, <2>1, <5>1
      <4>2. CASE p[2] \in kept
        BY <1>6, <3>4, <4>2
      <4>3. QED
        BY <1>11, <3>2, <3>4, <4>1, <4>2
    <3>5. QED
      BY <3>3, <3>4
  <2>2. <<t, x>>[2] \in links'[<<t, x>>[1]]
    BY <1>6, <1>7
  <2>3. QED
    BY <2>1, <2>2
<1>13. LinksHold'
  <2>1. ASSUME NEW s \in Tokens
        PROVE  Size(links'[s]) <= MaxLinks /\ (links'[s] # {} => s \in sessions')
    <3>1. Size(links[s]) <= MaxLinks /\ (links[s] # {} => s \in sessions)
      BY DEF LeasesInv, RegistryIsBounded
    <3>2. CASE s = t
      BY <1>2, <1>6, <1>8, <3>2
    <3>3. CASE s # t
      BY <1>6, <3>1, <3>3
    <3>4. QED
      BY <3>2, <3>3
  <2>2. QED
    BY <1>12, <2>1 DEF LinksHold
<1>14. SessionsHold'
  BY <1>1, <1>2 DEF SessionsHold, LeasesInv, RegistryIsBounded, Moves
<1>15. SessionsAreFew'
  BY DEF SessionsAreFew, LeasesInv, RegistryIsBounded
<1>16. RegistryIsBounded'
  BY <1>13, <1>14, <1>15 DEF RegistryIsBounded, SessionsAreFew, LinksHold, SessionsHold
<1>17. UsedIsLinked'
  <2>1. ASSUME NEW k \in Jobs, lease'[k].at = "using", k # j
        PROVE  <<lease'[k].token, lease'[k].fid>> \in up'
    <3>1. lease'[k] = lease[k]
      BY <1>1, <2>1 DEF Moves
    <3>2. owner[lease[k].token] = k /\ <<lease[k].token, lease[k].fid>> \in up
      BY <2>1, <3>1 DEF LeasesInv, Locked, UsedIsLinked, Holding
    <3>3. lease[k].token # t
      BY <1>2, <2>1, <3>2
    <3>4. QED
      BY <1>11, <3>1, <3>2, <3>3
  <2>2. QED
    BY <1>1, <1>11, <2>1 DEF UsedIsLinked
<1>18. Counts'
  BY LeaseTypes, EventCounts DEF Counts
<1>19. TypeOK'
  BY <1>1, <1>3, <1>9, <1>10, <1>18 DEF LeasesInv, TypeOK, Counts, Moves, OwnerMoves, settings
<1>20. QED
  BY <1>4, <1>5, <1>16, <1>17, <1>19 DEF LeasesInv

\* A successful link in the form above, or a failure that gives the lease up.
LEMMA LinkCases ==
  ASSUME LeasesInv, NEW j \in Jobs, Link(j)
  PROVE  /\ lease[j].at = "link" /\ lease[j].token \in Tokens /\ lease[j].fid \in Filespaces
         /\ UNCHANGED <<settings, sessions, pins, names, leases>>
         /\ LinkFails(j)
            \/ \E kept \in Shrunk(links[lease[j].token] \cup {lease[j].fid}, {lease[j].fid}, MaxLinks) :
                LET t == lease[j].token
                    x == lease[j].fid
                    gone == {t} \X (links[t] \ kept)
                IN  /\ links' = [links EXCEPT ![t] = kept]
                    /\ lease' = [lease EXCEPT ![j].at = "using"]
                    /\ UNCHANGED owner
                    /\ \/ up' = (up \ gone) \cup {<<t, x>>} /\ UNCHANGED <<leaked, events>>
                       \/ Event /\ up' = up \cup {<<t, x>>} /\ leaked' = leaked \cup gone
BY DEF Link, LeasesInv, Asked, Resolved, Fault

LEMMA LinkKeeps == ASSUME LeasesInv, NEW j \in Jobs, Link(j) PROVE LeasesInv'
<1>0. /\ lease[j].at = "link" /\ lease[j].token \in Tokens /\ lease[j].fid \in Filespaces
      /\ UNCHANGED <<settings, sessions, pins, names, leases>>
  BY LinkCases
<1>1. CASE LinkFails(j)
  <2>1. lease[j].at \in Holding /\ Leave(j) /\ Unlock(j)
    BY <1>0, <1>1 DEF LinkFails, Holding
  <2>2. UNCHANGED <<settings, registry>> /\ names' \in [Tokens -> SUBSET Listings] /\ Counts'
    BY <1>0, <1>1, LeaseTypes, EventCounts DEF LinkFails, Fault, registry
  <2>3. QED
    BY <2>1, <2>2, LeavingMoves, JobMoves
<1>2. CASE ~LinkFails(j)
  <2>1. PICK t \in Tokens, x \in Filespaces : t = lease[j].token /\ x = lease[j].fid
    BY <1>0
  <2>2. PICK kept \in Shrunk(links[t] \cup {x}, {x}, MaxLinks) :
          /\ links' = [links EXCEPT ![t] = kept]
          /\ lease' = [lease EXCEPT ![j].at = "using"]
          /\ UNCHANGED owner
          /\ \/ up' = (up \ ({t} \X (links[t] \ kept))) \cup {<<t, x>>} /\ UNCHANGED <<leaked, events>>
             \/ Event /\ up' = up \cup {<<t, x>>} /\ leaked' = leaked \cup ({t} \X (links[t] \ kept))
    BY <1>2, <2>1, LinkCases
  <2>3. QED
    BY <1>0, <2>1, <2>2, LinkSucceeds
<1>3. QED
  BY <1>1, <1>2

LEMMA FreshKeeps ==
  /\ Init => LeasesInv
  /\ LeasesInv /\ Restart => LeasesInv'
<1>1. Idle \in LeaseState /\ Idle.at = "idle"
  BY DEF Idle, LeaseState
<1>2. Size({}) = 0 /\ MaxLinks \in Nat /\ MaxClients \in Nat /\ Size(Jobs) \in Nat /\ MaxEvents \in Nat /\ MaxLeases \in Nat
  BY FS_EmptySet, FS_CardinalityType, LeasesAssumption DEF Size
<1>3. "idle" \notin Pinned /\ "idle" \notin Holding /\ "idle" \notin {"link", "using"}
  BY DEF Pinned, Holding
<1>4. ASSUME Init PROVE LeasesInv
  <2>1. \A j \in Jobs : lease[j] = Idle
    BY <1>4 DEF Init
  <2>2. \A t \in Tokens : PinnedTo(t) = {}
    BY <1>1, <1>3, <2>1 DEF PinnedTo
  <2>3. PinsAreRight
    BY <1>4, <2>2, FS_EmptySet DEF Init, PinsAreRight
  <2>4. Asked /\ Resolved /\ Locked /\ UsedIsLinked
    BY <1>1, <1>3, <2>1 DEF Asked, Resolved, Locked, UsedIsLinked
  <2>5. RegistryIsBounded
    BY <1>1, <1>2, <1>3, <1>4, <2>1 DEF Init, RegistryIsBounded
  <2>6. TypeOK
    BY <1>1, <1>2, <1>4, LeasesAssumption DEF Init, TypeOK
  <2>7. QED
    BY <2>3, <2>4, <2>5, <2>6 DEF LeasesInv
<1>5. ASSUME LeasesInv, Restart PROVE LeasesInv'
  <2>1. \A j \in Jobs : lease'[j] = Idle
    BY <1>5 DEF Restart
  <2>2. \A t \in Tokens : PinnedTo(t)' = {}
    BY <1>1, <1>3, <2>1 DEF PinnedTo
  <2>3. PinsAreRight'
    BY <1>5, <2>2, FS_EmptySet DEF Restart, PinsAreRight
  <2>4. Asked' /\ Resolved' /\ Locked' /\ UsedIsLinked'
    BY <1>1, <1>3, <2>1 DEF Asked, Resolved, Locked, UsedIsLinked
  <2>5. RegistryIsBounded'
    BY <1>1, <1>2, <1>3, <1>5, <2>1 DEF Restart, RegistryIsBounded
  <2>6. Counts'
    BY <1>5, EventCounts DEF Restart, LeasesInv, TypeOK, Counts
  <2>7. TypeOK'
    BY <1>1, <1>5, <2>6 DEF Restart, LeasesInv, TypeOK, Counts, settings
  <2>8. QED
    BY <2>3, <2>4, <2>5, <2>7 DEF LeasesInv
<1>6. QED
  BY <1>4, <1>5

LEMMA StutterKeeps == LeasesInv /\ UNCHANGED vars => LeasesInv'
<1> SUFFICES ASSUME LeasesInv, UNCHANGED vars PROVE LeasesInv'
  OBVIOUS
<1>1. /\ UNCHANGED <<registry, owner, names, lease>> /\ Counts'
      /\ token' \in [Workspaces -> Tokens \cup {None}] /\ named' \in [Tokens -> Listings]
  BY DEF vars, registry, LeasesInv, TypeOK, Counts
<1>2. QED
  BY <1>1, SettingsKeep

LEMMA NextKeeps == LeasesInv /\ [Next]_vars => LeasesInv'
BY RotateKeeps, RenameKeeps, AskKeeps, PinKeeps, TakeKeeps, ResolveKeeps, LinkKeeps, FinishKeeps, UnpinKeeps,
   FreshKeeps, StutterKeeps DEF Next, JobStep

-------------------------------------------------------------------------------
(* The refinement: what the steps are to the pool.                          *)

PoolUsing == {<<j, lease[j].token, lease[j].fid>> : j \in {i \in Jobs : lease[i].at = "using"}}

LEMMA UsingIsPooled ==
  ASSUME LeasesInv
  PROVE  Pool!Exclusive(PoolUsing) /\ Pool!InUse(PoolUsing) \subseteq up /\ PoolUsing \subseteq Pool!Uses
<1>1. ASSUME NEW i \in Jobs, NEW j \in Jobs, lease[i].at = "using", lease[j].at = "using",
             lease[i].token = lease[j].token
      PROVE  i = j
  BY <1>1 DEF LeasesInv, Locked, Holding
<1>2. Pool!Exclusive(PoolUsing)
  BY <1>1 DEF Pool!Exclusive, PoolUsing
<1>3. Pool!InUse(PoolUsing) \subseteq up
  BY DEF Pool!InUse, PoolUsing, LeasesInv, UsedIsLinked
<1>4. PoolUsing \subseteq Pool!Uses
  BY DEF Pool!Uses, PoolUsing, LeasesInv, Asked, Resolved
<1>5. QED
  BY <1>2, <1>3, <1>4

\* A step that keeps what is in use may rearrange the rest.
LEMMA ArrangeStep ==
  ASSUME LeasesInv', PoolUsing' = PoolUsing
  PROVE  Pool!Arrange
<1>1. Pool!InUse(PoolUsing') \subseteq up'
  BY DEF Pool!InUse, PoolUsing, LeasesInv, UsedIsLinked
<1>2. up' \in SUBSET Pool!Pairs
  BY DEF LeasesInv, TypeOK, Pairs, Pool!Pairs
<1>3. QED
  BY <1>1, <1>2 DEF Pool!Arrange, PoolUsing

\* A job that neither begins nor ends its reading leaves what is in use.
LEMMA UsingStays ==
  ASSUME NEW j \in Jobs, Moves(j), lease[j].at # "using", lease'[j].at # "using"
  PROVE  PoolUsing' = PoolUsing
<1>1. {i \in Jobs : lease[i].at = "using"} = {i \in Jobs : lease'[i].at = "using"}
  BY DEF Moves
<1>2. \A i \in Jobs : lease'[i].at = "using" => lease'[i] = lease[i]
  BY DEF Moves
<1>3. QED
  BY <1>1, <1>2 DEF PoolUsing

LEMMA QuietSteps ==
  ASSUME LeasesInv, NEW j \in Jobs, Ask(j) \/ Pin(j) \/ Take(j) \/ Resolve(j) \/ Unpin(j) \/ (Link(j) /\ LinkFails(j))
  PROVE  PoolUsing' = PoolUsing
<1>1. lease \in [Jobs -> LeaseState] /\ Idle.at = "idle"
  BY LeaseTypes DEF Idle
<1>2. CASE Ask(j)
  <2>1. PICK want \in Wants :
          lease' = IF token[want[1]] = None THEN lease
                   ELSE [lease EXCEPT ![j] = [Idle EXCEPT !.at = "login", !.name = want[2], !.token = token[want[1]]]]
    BY <1>2 DEF Ask
  <2> DEFINE new == [Idle EXCEPT !.at = "login", !.name = want[2], !.token = token[want[1]]]
  <2>2. lease[j].at = "idle" /\ new.at = "login"
    BY <1>2 DEF Ask, Idle
  <2>3. lease' = lease \/ lease' = [lease EXCEPT ![j] = new]
    BY <2>1
  <2> HIDE DEF new
  <2>4. /\ lease'[j].at # "using" /\ lease[j].at # "using"
        /\ \A i \in Jobs \ {j} : lease'[i] = lease[i]
    BY <1>1, <2>2, <2>3
  <2>5. QED
    BY <2>4 DEF PoolUsing
<1>3. CASE Pin(j) \/ Take(j) \/ Resolve(j) \/ Unpin(j) \/ (Link(j) /\ LinkFails(j))
  <2>1. lease[j].at # "using"
    BY <1>3 DEF Pin, Take, Resolve, Unpin, Link
  <2>2. \/ lease' = [lease EXCEPT ![j].at = "wait"]
        \/ lease' = [lease EXCEPT ![j] = Idle]
        \/ lease' = [lease EXCEPT ![j].at = "resolve"]
        \/ lease' = [lease EXCEPT ![j].at = "unpin", ![j].fid = None]
        \/ \E x : lease' = [lease EXCEPT ![j].at = "link", ![j].fid = x]
    BY <1>3 DEF Pin, Take, Resolve, Unpin, LinkFails, Leave
  <2>3. lease'[j].at # "using" /\ \A i \in Jobs \ {j} : lease'[i] = lease[i]
    BY <1>1, <2>2 DEF LeaseState, Pinned
  <2>4. QED
    BY <2>1, <2>3 DEF PoolUsing
<1>4. QED
  BY <1>2, <1>3

LEMMA LinkEnters ==
  ASSUME LeasesInv, LeasesInv', NEW j \in Jobs, Link(j), ~LinkFails(j)
  PROVE  Pool!Enter
<1> DEFINE u == <<j, lease[j].token, lease[j].fid>>
<1>1. /\ lease[j].at = "link" /\ lease[j].token \in Tokens /\ lease[j].fid \in Filespaces
      /\ lease' = [lease EXCEPT ![j].at = "using"]
  BY LinkCases
<1>2. /\ \A i \in Jobs \ {j} : lease'[i] = lease[i]
      /\ lease'[j].at = "using" /\ lease'[j].token = lease[j].token /\ lease'[j].fid = lease[j].fid
  BY <1>1, LeaseTypes DEF LeaseState, Pinned
<1>3. PoolUsing' = PoolUsing \cup {u} /\ u \notin PoolUsing /\ u \in Pool!Uses
  BY <1>1, <1>2 DEF PoolUsing, Pool!Uses
<1>4. Pool!Exclusive(PoolUsing')
  BY DEF LeasesInv, Locked, Holding, Pool!Exclusive, PoolUsing
<1>5. Pool!InUse(PoolUsing') \subseteq up' /\ up' \in SUBSET Pool!Pairs
  BY DEF LeasesInv, TypeOK, UsedIsLinked, PoolUsing, Pool!InUse, Pairs, Pool!Pairs
<1> HIDE DEF u
<1>6. QED
  BY <1>3, <1>4, <1>5 DEF Pool!Enter, PoolUsing

LEMMA FinishLeaves ==
  ASSUME LeasesInv, NEW j \in Jobs, Finish(j)
  PROVE  Pool!Leave
<1> DEFINE u == <<j, lease[j].token, lease[j].fid>>
<1>1. lease[j].at = "using" /\ Leave(j) /\ up' = up
  BY DEF Finish, registry
<1>2. lease'[j].at = "unpin" /\ \A i \in Jobs \ {j} : lease'[i] = lease[i]
  BY <1>1, LeaseTypes DEF Leave, LeaseState, Pinned
<1>3. u \in PoolUsing /\ PoolUsing' = PoolUsing \ {u}
  BY <1>1, <1>2 DEF PoolUsing
<1> HIDE DEF u
<1>4. QED
  BY <1>1, <1>3 DEF Pool!Leave, PoolUsing

LEMMA RestartEnds ==
  ASSUME Restart
  PROVE  Pool!End
<1>1. \A j \in Jobs : lease'[j].at = "idle"
  BY DEF Restart, Idle
<1>2. PoolUsing' = {} /\ up' = {}
  BY <1>1 DEF Restart, PoolUsing
<1>3. QED
  BY <1>2 DEF Pool!End, PoolUsing

LEMMA StepsAreSteps == LeasesInv /\ LeasesInv' /\ [Next]_vars => [Pool!PoolNext]_(Pool!poolVars)
<1> SUFFICES ASSUME LeasesInv, LeasesInv', [Next]_vars
             PROVE  Pool!PoolNext
  OBVIOUS
<1>1. ASSUME UNCHANGED lease
      PROVE  Pool!PoolNext
  <2>1. PoolUsing' = PoolUsing
    BY <1>1 DEF PoolUsing
  <2>2. QED
    BY <2>1, ArrangeStep DEF Pool!PoolNext
<1>2. ASSUME NEW w \in Workspaces, Rotate(w)
      PROVE  Pool!PoolNext
  BY <1>1, <1>2 DEF Rotate
<1>3. ASSUME NEW t \in Tokens, NEW n \in Names, Rename(t, n)
      PROVE  Pool!PoolNext
  BY <1>1, <1>3 DEF Rename
<1>4. ASSUME NEW j \in Jobs, Ask(j) \/ JobStep(j)
      PROVE  Pool!PoolNext
  <2>1. CASE Ask(j) \/ Pin(j) \/ Take(j) \/ Resolve(j) \/ Unpin(j) \/ (Link(j) /\ LinkFails(j))
    BY <2>1, QuietSteps, ArrangeStep DEF Pool!PoolNext
  <2>2. CASE Link(j) /\ ~LinkFails(j)
    BY <2>2, LinkEnters DEF Pool!PoolNext
  <2>3. CASE Finish(j)
    BY <2>3, FinishLeaves DEF Pool!PoolNext
  <2>4. QED
    BY <1>4, <2>1, <2>2, <2>3 DEF JobStep
<1>5. ASSUME Restart
      PROVE  Pool!PoolNext
  BY <1>5, RestartEnds DEF Pool!PoolNext
<1>6. ASSUME UNCHANGED vars
      PROVE  Pool!PoolNext
  BY <1>1, <1>6 DEF vars
<1>7. QED
  BY <1>2, <1>3, <1>4, <1>5, <1>6 DEF Next

LEMMA InitIsInit == Init => Pool!PoolInit
<1> SUFFICES ASSUME Init PROVE Pool!PoolInit
  OBVIOUS
<1>1. \A j \in Jobs : lease[j].at = "idle"
  BY DEF Init, Idle
<1>2. QED
  BY <1>1 DEF Init, Pool!PoolInit

-------------------------------------------------------------------------------
(* LeasesInv is inductive: however leases, failures and restarts of jobs of *)
(* any workspaces are interleaved.                                          *)
THEOREM LeasesInvHolds == Spec => []LeasesInv
<1>1. Init => LeasesInv
  BY FreshKeeps
<1>2. LeasesInv /\ [Next]_vars => LeasesInv'
  BY NextKeeps
<1>3. QED
  BY <1>1, <1>2, PTL DEF Spec

(* The registries of sessions and links stay within their bounds, and what  *)
(* a job holds or waits for is never closed.                                *)
THEOREM RegistryStaysBounded == Spec => []RegistryIsBounded
<1>1. LeasesInv => RegistryIsBounded
  BY DEF LeasesInv
<1>2. QED
  BY <1>1, LeasesInvHolds, PTL

(* SdkSourceProvider implements a client pool: a filespace stays linked     *)
(* while a job reads it, and its client has no other user (`lease`).        *)
THEOREM ProviderIsAPool == Spec => KeepsPool
<1>1. Init => Pool!PoolInit
  BY InitIsInit
<1>2. LeasesInv /\ LeasesInv' /\ [Next]_vars => [Pool!PoolNext]_(Pool!poolVars)
  BY StepsAreSteps
<1>3. QED
  BY <1>1, <1>2, LeasesInvHolds, PTL DEF Spec, KeepsPool, Pool!PoolSpec
================================================================================
