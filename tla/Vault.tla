--------------------------------- MODULE Vault ---------------------------------
(***************************************************************************)
(* The encrypted settings record of docker/vault.py: one row that holds    *)
(* the workspaces with their LucidLink tokens, the favorites and the       *)
(* collections, each saved by a route of its own.  Every save reads the    *)
(* row, merges and writes it inside one BEGIN IMMEDIATE; threads of the    *)
(* server and, after an update, the migration compete for that             *)
(* transaction, and the process may die in it.                             *)
(*                                                                         *)
(* No row and the empty record are the same to every reader.  Lists of     *)
(* favorites and of collections are members of Lists; a token sent back    *)
(* in its masked form is "masked", "" with tokenSet is "blanked".          *)
(***************************************************************************)
EXTENDS Naturals, FiniteSets

CONSTANTS
    Workspaces,     \* ids of workspaces
    Tokens,         \* service-account tokens
    Lists,          \* lists of favorites or collections
    EmptyList,      \* the empty one
    Editors,        \* requests to /vault that may be in progress
    Puts,           \* the bodies browsers send
    Stored,         \* the records an earlier process may have left
    None,           \* no workspace, no editor
    Blank,          \* no token
    MaxSaves,       \* bound: requests to /vault
    MaxStarts       \* bound: restarts of the service

VARIABLES
    row,            \* the committed record
    writer,         \* the editor inside BEGIN IMMEDIATE, or None
    edit,           \* edit[e]: what a request is doing
    migrated,       \* _migrated: the purge has run in this process
    meant,          \* history: what the owner's saves say
    saves, starts

vaultVars == <<row, writer, edit, migrated, meant, saves, starts>>

Kept == {"omitted", "masked", "blanked"}
Cleared == {"null", "empty"}
Sent == Kept \cup Cleared \cup Tokens

Record == [list: SUBSET Workspaces, token: [Workspaces -> Tokens \cup {Blank}],
           active: Workspaces \cup {None}, favorites: Lists, collections: Lists, retired: BOOLEAN]

\* A PUT that leaves out the workspaces sends listed = FALSE; one that leaves
\* out activeWorkspaceId sends chooses = FALSE.
SettingsPut == [part: {"settings"}, listed: BOOLEAN, list: SUBSET Workspaces, sent: [Workspaces -> Sent],
                chooses: BOOLEAN, active: Workspaces \cup {None}]
ListPut == [part: {"favorites", "collections"}, value: Lists]
Purge == [part |-> "purge"]

ASSUME VaultAssumption ==
    /\ Workspaces # {}
    /\ None \notin Workspaces \cup Editors
    /\ Blank \notin Tokens
    /\ Tokens \cap (Kept \cup Cleared) = {}
    /\ EmptyList \in Lists
    /\ Puts \subseteq SettingsPut \cup ListPut
    /\ Stored \subseteq Record
    /\ MaxSaves \in Nat
    /\ MaxStarts \in Nat

Empty == [list |-> {}, token |-> [w \in Workspaces |-> Blank], active |-> None,
          favorites |-> EmptyList, collections |-> EmptyList, retired |-> FALSE]
Idle == [at |-> "idle", body |-> Purge, stored |-> Empty]

-------------------------------------------------------------------------------
\* The contract of one token: what keeps, clears or replaces the stored one.
MergedToken(sent, stored) ==
    IF sent \in Kept THEN stored ELSE IF sent \in Tokens THEN sent ELSE Blank

\* merge() over a normalised record: the list sent is the new list, tokens
\* merged by workspace id; what is left out of the body stays.
Merged(stored, put) ==
    LET tokens == [w \in Workspaces |-> IF w \in put.list THEN MergedToken(put.sent[w], stored.token[w]) ELSE Blank]
    IN  [stored EXCEPT !.list = IF put.listed THEN put.list ELSE @,
                       !.token = IF put.listed THEN tokens ELSE @,
                       !.active = IF put.chooses THEN put.active ELSE @]

\* The record without what older versions stored.
Normalised(stored) == [stored EXCEPT !.retired = FALSE]

\* What a transaction writes for a body over the record it read.
Written(stored, body) ==
    CASE body.part = "settings" -> Merged(Normalised(stored), body)
      [] body.part = "favorites" -> [Normalised(stored) EXCEPT !.favorites = body.value]
      [] body.part = "collections" -> [Normalised(stored) EXCEPT !.collections = body.value]
      [] OTHER -> Normalised(stored)

\* _pick_workspace: an id that was asked for is never replaced by another.
Picked(record, asked) ==
    IF asked # None THEN {asked} \cap record.list
    ELSE IF record.active \in record.list THEN {record.active}
    ELSE IF Cardinality(record.list) = 1 THEN record.list ELSE {}

-------------------------------------------------------------------------------
VaultInit ==
    /\ row \in Stored
    /\ writer = None
    /\ edit = [e \in Editors |-> Idle]
    /\ migrated = FALSE
    /\ meant = Normalised(row)
    /\ saves \in 0..MaxSaves     \* any part of the bounds may be used up
    /\ starts \in 0..MaxStarts

\* A PUT of settings, favorites or collections reaches its save.
Put(e) ==
    /\ edit[e].at = "idle"
    /\ saves < MaxSaves
    /\ saves' = saves + 1
    /\ \E b \in Puts : edit' = [edit EXCEPT ![e] = [at |-> "waiting", body |-> b, stored |-> row]]
    /\ UNCHANGED <<row, writer, migrated, meant, starts>>

\* A GET, or the start of the service, runs the migration first.
Migrate(e) ==
    /\ edit[e].at = "idle"
    /\ ~migrated
    /\ saves < MaxSaves
    /\ saves' = saves + 1
    /\ edit' = [edit EXCEPT ![e] = [at |-> "waiting", body |-> Purge, stored |-> row]]
    /\ UNCHANGED <<row, writer, migrated, meant, starts>>

\* As a plausible bug would have it: the record is read before the transaction.
BeginWithEarlierRead(e) ==
    /\ edit[e].at = "waiting"
    /\ writer = None
    /\ writer' = e
    /\ edit' = [edit EXCEPT ![e].at = "inside"]
    /\ UNCHANGED <<row, migrated, meant, saves, starts>>

\* BEGIN IMMEDIATE, and the row read inside it.
Begin(e) ==
    /\ edit[e].at = "waiting"
    /\ writer = None
    /\ writer' = e
    /\ edit' = [edit EXCEPT ![e].at = "inside", ![e].stored = row]
    /\ UNCHANGED <<row, migrated, meant, saves, starts>>

\* The write lock was not free within the busy timeout: the request fails.
Busy(e) ==
    /\ edit[e].at = "waiting"
    /\ writer # None
    /\ edit' = [edit EXCEPT ![e] = Idle]
    /\ UNCHANGED <<row, writer, migrated, meant, saves, starts>>

Commit(e) ==
    /\ edit[e].at = "inside"
    /\ row' = Written(edit[e].stored, edit[e].body)
    /\ meant' = Written(meant, edit[e].body)
    /\ migrated' = (migrated \/ edit[e].body = Purge)
    /\ writer' = None
    /\ edit' = [edit EXCEPT ![e] = Idle]
    /\ UNCHANGED <<saves, starts>>

\* The body is refused inside the transaction, or the write fails: ROLLBACK.
Rollback(e) ==
    /\ edit[e].at = "inside"
    /\ writer' = None
    /\ edit' = [edit EXCEPT ![e] = Idle]
    /\ UNCHANGED <<row, migrated, meant, saves, starts>>

\* The process dies; SQLite drops the transaction.
VaultRestart ==
    /\ starts < MaxStarts
    /\ starts' = starts + 1
    /\ writer' = None
    /\ edit' = [e \in Editors |-> Idle]
    /\ migrated' = FALSE
    /\ UNCHANGED <<row, meant, saves>>

EditorStep(e) == Put(e) \/ Migrate(e) \/ Begin(e) \/ Busy(e) \/ Commit(e) \/ Rollback(e)

VaultNext == (\E e \in Editors : EditorStep(e)) \/ VaultRestart
VaultSpec == VaultInit /\ [][VaultNext]_vaultVars

-------------------------------------------------------------------------------
EditState == [at: {"idle", "waiting", "inside"}, body: Puts \cup {Purge}, stored: Record]

VaultTypeOK ==
    /\ row \in Record
    /\ writer \in Editors \cup {None}
    /\ edit \in [Editors -> EditState]
    /\ migrated \in BOOLEAN
    /\ meant \in Record
    /\ saves \in 0..MaxSaves
    /\ starts \in 0..MaxStarts

\* The record is what the saves that were answered amount to, one after the
\* other: no save of settings, favorites or collections undoes another, however
\* their requests overlap, and once the migration has run the retired profiles
\* are gone for good.  `_update` and `purge_retired` each do their read, merge
\* and write in one transaction for it.
VaultIsAsSaved ==
    /\ [row EXCEPT !.retired = FALSE] = meant
    /\ migrated => ~row.retired
================================================================================
