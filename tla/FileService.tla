------------------------------ MODULE FileService ------------------------------
(***************************************************************************)
(* The file service: how a request becomes a call on a filespace.          *)
(*                                                                         *)
(* A bearer is a service-account token, used as it is, or the session of   *)
(* the web app's user, which owner_auth.py lets Supabase confirm, with a   *)
(* cache in between, and which the vault then exchanges for the token of a *)
(* workspace.  ll_core.py turns the filespace's name into an id through a  *)
(* listing it keeps for a while, links it under the token's client, both   *)
(* from a bounded registry behind one lock, and runs the operation.  After *)
(* a write of the owner's, lucidlink_api.py hints the indexer.             *)
(*                                                                         *)
(* Requests run in threads of the server; names, sessions, tokens and the  *)
(* clock move on between any two of their steps.                           *)
(***************************************************************************)
EXTENDS Vault, Integers

CONSTANTS
    Requests, Jwts, Names, Filespaces,
    PositiveTTL, NegativeTTL, ListTTL,
    Patience,       \* the longest wait for an answer of Supabase or LucidLink
    CacheMax, MaxClients, MaxLinks,
    InitialNames,   \* what the names stand for at first
    FaultKinds, MaxFaults,
    Asks,           \* what requests ask for
    MaxClock,
    Loads           \* bounds, by the record found: saves, restarts, requests, changes, faults, first clock

VARIABLES
    clock,
    identity,       \* identity[j]: what Supabase says of a session: "owner", "other"
    cache,          \* owner_auth._cache
    named,          \* named[t][n]: the filespace a name stands for, or None
    listing,        \* listing[t]: _fs_list_cache
    clients, links, \* _clients, and the links of its sessions
    up,             \* what is linked in the SDK
    lock,           \* _registry_lock: the request that holds it, or None
    req,            \* req[r]: where a request is
    hints,          \* hints queued behind responses
    requests, changes, faults,
    leftAt,         \* history: when a session stopped being the owner's, or not
    goneAt,         \* history: when a name stopped standing for a filespace
    held,           \* history: the tokens the vault has held, by workspace
    leaked          \* history: links whose release failed

authVars == <<identity, cache, leftAt>>
nameVars == <<named, listing, goneAt>>
poolVars == <<clients, links, up, lock, leaked>>
countVars == <<requests, changes, faults>>
vars == <<vaultVars, clock, authVars, nameVars, poolVars, req, hints, countVars, held>>

Verdicts == {"owner", "other"}
Never == -1
Listings == [Names -> Filespaces \cup {None}]
Pairs == Tokens \X Filespaces
OfToken(t) == {t} \X Filespaces

NoEntry == [until |-> 0, verdict |-> "other"]
NoListing == [until |-> 0, names |-> [n \in Names |-> None]]
IdleReq == [at |-> "idle", bearer |-> None, asked |-> None, name |-> None, writes |-> FALSE, on |-> 0,
            answer |-> "error", seen |-> NoListing.names, token |-> None, wid |-> None, fid |-> None]

ASSUME ServiceAssumption ==
    /\ None \notin Jwts \cup Tokens \cup Filespaces \cup Names \cup Requests
    /\ Jwts \cap Tokens = {}
    /\ PositiveTTL \in Nat /\ NegativeTTL \in Nat /\ ListTTL \in Nat /\ Patience \in Nat
    /\ 0 < NegativeTTL /\ NegativeTTL <= PositiveTTL /\ Patience < ListTTL
    /\ CacheMax \in Nat \ {0} /\ MaxClients \in Nat \ {0} /\ MaxLinks \in Nat \ {0}
    /\ MaxClock \in Nat /\ MaxFaults \in Nat
    /\ InitialNames \subseteq [Tokens -> Listings]
    /\ Asks \subseteq [bearer: Jwts \cup Tokens, asked: Workspaces \cup {None}, name: Names, writes: BOOLEAN]
    /\ Loads \subseteq [row: Stored, saves: 0..MaxSaves, starts: 0..MaxStarts, requests: Nat, changes: Nat,
                      faults: 0..MaxFaults, clock: 1..MaxClock]

-------------------------------------------------------------------------------
Holders(record) == {<<w, record.token[w]>> : w \in {v \in record.list : record.token[v] # Blank}}

Fault(kind) ==
    /\ kind \in FaultKinds
    /\ faults < MaxFaults
    /\ faults' = faults + 1
NoFault == faults' = faults

Init ==
    /\ VaultInit
    /\ \E load \in Loads :
        /\ row = load.row
        /\ saves = MaxSaves - load.saves
        /\ starts = MaxStarts - load.starts
        /\ requests = load.requests
        /\ changes = load.changes
        /\ faults = MaxFaults - load.faults
        /\ clock = load.clock
    /\ identity \in [Jwts -> Verdicts]
    /\ cache = [j \in Jwts |-> NoEntry]
    /\ named \in InitialNames
    /\ listing = [t \in Tokens |-> NoListing]
    /\ clients = {} /\ links = {} /\ up = {} /\ lock = None
    /\ req = [r \in Requests |-> IdleReq]
    /\ hints = {}
    /\ leftAt = [j \in Jwts |-> [v \in Verdicts |-> Never]]
    /\ goneAt = [k \in Tokens \X Names \X Filespaces |-> Never]
    /\ held = Holders(row)
    /\ leaked = {}

-------------------------------------------------------------------------------
(* The world outside. *)

\* A wait for an answer ends within its timeout.
Waiting(r) == req[r].at \in {"answered", "listed"}

Tick ==
    /\ clock < MaxClock
    /\ \A r \in Requests : Waiting(r) => clock < req[r].on + Patience
    /\ clock' = clock + 1
    /\ UNCHANGED <<vaultVars, authVars, nameVars, poolVars, req, hints, countVars, held>>

\* A sign-out, a sign-in, a change of address: Supabase says otherwise from now.
IdentityChanges(j) ==
    /\ changes > 0
    /\ changes' = changes - 1
    /\ \E v \in Verdicts \ {identity[j]} : identity' = [identity EXCEPT ![j] = v]
    /\ leftAt' = [leftAt EXCEPT ![j][identity[j]] = clock]
    /\ UNCHANGED <<vaultVars, clock, cache, nameVars, poolVars, req, hints, requests, faults, held>>

\* A filespace is renamed, created or deleted.
Rename(t, n) ==
    /\ changes > 0
    /\ changes' = changes - 1
    /\ \E x \in (Filespaces \cup {None}) \ {named[t][n]} : named' = [named EXCEPT ![t][n] = x]
    /\ goneAt' = IF named[t][n] = None THEN goneAt ELSE [goneAt EXCEPT ![<<t, n, named[t][n]>>] = clock]
    /\ UNCHANGED <<vaultVars, clock, authVars, listing, poolVars, req, hints, requests, faults, held>>

-------------------------------------------------------------------------------
(* Who is calling. *)

Goto(r, fields) == req' = [req EXCEPT ![r] = fields]
Reply(r) == Goto(r, IdleReq)

Arrive(r) ==
    /\ req[r].at = "idle"
    /\ requests > 0
    /\ requests' = requests - 1
    /\ \E a \in Asks :
        Goto(r, [IdleReq EXCEPT !.at = IF a.bearer \in Jwts THEN "verify" ELSE "lookup", !.bearer = a.bearer,
                                !.asked = a.asked, !.name = a.name, !.writes = a.writes,
                                !.token = IF a.bearer \in Jwts THEN None ELSE a.bearer])
    /\ UNCHANGED <<vaultVars, clock, authVars, nameVars, poolVars, hints, changes, faults, held>>

Verdict(r, v) ==
    Goto(r, [req[r] EXCEPT !.at = IF v = "owner" THEN "vault" ELSE "refused", !.on = clock, !.answer = "error"])

\* _cache_get: a fresh entry decides; an expired one is dropped.
Verify(r) ==
    LET j == req[r].bearer IN
    /\ req[r].at = "verify"
    /\ IF cache[j].until > clock
       THEN Verdict(r, cache[j].verdict) /\ UNCHANGED cache
       ELSE /\ cache' = [cache EXCEPT ![j] = NoEntry]
            /\ Goto(r, [req[r] EXCEPT !.at = "asking"])
    /\ UNCHANGED <<vaultVars, clock, identity, leftAt, nameVars, poolVars, hints, countVars, held>>

\* Supabase decides at one moment of the call, or the call fails.
AskSupabase(r) ==
    /\ req[r].at = "asking"
    /\ \/ /\ NoFault
          /\ Goto(r, [req[r] EXCEPT !.at = "answered", !.on = clock, !.answer = identity[req[r].bearer]])
       \/ /\ Fault("supabase")
          /\ Goto(r, [req[r] EXCEPT !.at = "answered", !.on = clock, !.answer = "error"])
    /\ UNCHANGED <<vaultVars, clock, authVars, nameVars, poolVars, hints, requests, changes, held>>

\* _cache_put: a full cache drops what has expired, then the oldest.
CachePut(j, entry) ==
    LET full == Cardinality({k \in Jwts : cache[k].until > 0}) >= CacheMax
        stays == {k \in Jwts \ {j} : cache[k].until > IF full THEN clock ELSE 0}
    IN  \E keep \in SUBSET stays :
            /\ Cardinality(keep) < CacheMax
            /\ ~full => keep = stays
            /\ cache' = [k \in Jwts |-> IF k = j THEN entry ELSE IF k \in keep THEN cache[k] ELSE NoEntry]

TTL(v) == IF v = "owner" THEN PositiveTTL ELSE NegativeTTL

\* As a plausible bug would have it: an outage is remembered as a refusal.
TakeOutageAsRefusal(r) ==
    LET v == IF req[r].answer = "owner" THEN "owner" ELSE "other" IN
    /\ req[r].at = "answered"
    /\ req[r].bearer \in Jwts
    /\ CachePut(req[r].bearer, [until |-> clock + TTL(v), verdict |-> v])
    /\ Verdict(r, v)
    /\ UNCHANGED <<vaultVars, clock, identity, leftAt, nameVars, poolVars, hints, countVars, held>>

\* The rest of verify_owner: an outage is a 503 and is not remembered.
TakeAnswer(r) ==
    LET v == req[r].answer IN
    /\ req[r].at = "answered"
    /\ req[r].bearer \in Jwts
    /\ IF v = "error"
       THEN Reply(r) /\ UNCHANGED cache
       ELSE CachePut(req[r].bearer, [until |-> clock + TTL(v), verdict |-> v]) /\ Verdict(r, v)
    /\ UNCHANGED <<vaultVars, clock, identity, leftAt, nameVars, poolVars, hints, countVars, held>>

Refuse(r) ==
    /\ req[r].at = "refused"
    /\ Reply(r)
    /\ UNCHANGED <<vaultVars, clock, authVars, nameVars, poolVars, hints, countVars, held>>

\* _vault_resolve: the workspace and its token from one read of the record.
Resolve(r) ==
    /\ req[r].at = "vault"
    /\ \/ \E w \in Picked(row, req[r].asked) :
            /\ row.token[w] # Blank
            /\ Goto(r, [req[r] EXCEPT !.at = "lookup", !.token = row.token[w], !.wid = w])
       \/ /\ \A w \in Picked(row, req[r].asked) : row.token[w] = Blank
          /\ Reply(r)
    /\ UNCHANGED <<vaultVars, clock, authVars, nameVars, poolVars, hints, countVars, held>>

-------------------------------------------------------------------------------
(* Which filespace is meant. *)

\* The name in a listing, or a 404.
Choose(r, names) ==
    LET x == names[req[r].name] IN
    IF x = None THEN Reply(r)
    ELSE Goto(r, [req[r] EXCEPT !.at = "ready", !.fid = x, !.on = clock, !.seen = NoListing.names])

\* _list_filespaces_cached: the clock is read before the listing is.
Lookup(r) ==
    LET known == listing[req[r].token] IN
    /\ req[r].at = "lookup"
    /\ IF known.until > clock THEN Choose(r, known.names) ELSE Goto(r, [req[r] EXCEPT !.at = "list", !.on = clock])
    /\ UNCHANGED <<vaultVars, clock, authVars, nameVars, poolVars, hints, countVars, held>>

Sized(set, n) == {s \in SUBSET set : Cardinality(s) = IF Cardinality(set) < n THEN Cardinality(set) ELSE n}

\* As a plausible bug would have it: the limit is not kept.
OpenedBeyondLimit(t) == {clients \cup {t}}

\* _get_session: the clients with that of a token among them.
Opened(t) == IF t \in clients THEN {clients} ELSE {s \cup {t} : s \in Sized(clients, MaxClients - 1)}

\* _Session.link: the links kept with one more beneath the client of t.
Linked(kept, t, x) ==
    IF <<t, x>> \in kept THEN {kept}
    ELSE {(kept \ OfToken(t)) \cup s \cup {<<t, x>>} : s \in Sized(kept \cap OfToken(t), MaxLinks - 1)}

\* The links that leave the registry are released; a failure is logged.
Release(kept) ==
    LET dropped == links \ kept IN
    /\ links' = kept
    /\ \/ NoFault /\ up' = (up \ dropped) \cup kept /\ UNCHANGED leaked
       \/ dropped # {} /\ Fault("release") /\ up' = up \cup kept /\ leaked' = leaked \cup dropped

Drop(kept) == links' = kept /\ up' = up \ (links \ kept) /\ UNCHANGED leaked

Beneath(cs) == {p \in links : p[1] \in cs}

\* As a plausible bug would have it: the lock is not taken.
Unguarded == TRUE

\* _registry_lock can be taken.
Free == lock = None

\* The listing is read by the token's client, with the lock held; the login or
\* the call may fail.
List(r) ==
    LET t == req[r].token IN
    /\ req[r].at = "list"
    /\ Free
    /\ \/ /\ clients' \in Opened(t)
          /\ Release(Beneath(clients'))
          /\ Goto(r, [req[r] EXCEPT !.at = "listed", !.seen = named[t]])
       \/ /\ clients' \in Opened(t)
          /\ Fault("listing")
          /\ Drop(Beneath(clients'))
          /\ Reply(r)
       \/ /\ t \notin clients
          /\ Fault("login")
          /\ Reply(r)
          /\ UNCHANGED <<clients, links, up, leaked>>
    /\ UNCHANGED <<vaultVars, clock, authVars, nameVars, lock, hints, requests, changes, held>>

\* As a plausible bug would have it: a listing is kept from when it was answered.
ListedFromNow(r) ==
    /\ req[r].at = "listed"
    /\ listing' = [listing EXCEPT ![req[r].token] = [until |-> clock + ListTTL, names |-> req[r].seen]]
    /\ Choose(r, req[r].seen)
    /\ UNCHANGED <<vaultVars, clock, authVars, named, goneAt, poolVars, hints, countVars, held>>

Listed(r) ==
    /\ req[r].at = "listed"
    /\ listing' = [listing EXCEPT ![req[r].token] = [until |-> req[r].on + ListTTL, names |-> req[r].seen]]
    /\ Choose(r, req[r].seen)
    /\ UNCHANGED <<vaultVars, clock, authVars, named, goneAt, poolVars, hints, countVars, held>>

-------------------------------------------------------------------------------
(* The operation. *)

\* _with_filespace up to fn: the client, the link, and the lock kept.  A failed
\* login leaves nothing behind; a failed link leaves the client.
Acquire(r) ==
    LET t == req[r].token IN
    /\ req[r].at = "ready"
    /\ Free
    /\ \/ /\ clients' \in Opened(t)
          /\ \E kept \in Linked(Beneath(clients'), t, req[r].fid) : Release(kept)
          /\ lock' = r
          /\ Goto(r, [req[r] EXCEPT !.at = "using"])
       \/ /\ clients' \in Opened(t)
          /\ <<t, req[r].fid>> \notin links
          /\ Fault("link")
          /\ Drop(Beneath(clients'))
          /\ Reply(r)
          /\ UNCHANGED lock
       \/ /\ t \notin clients
          /\ Fault("login")
          /\ Reply(r)
          /\ UNCHANGED poolVars
    /\ UNCHANGED <<vaultVars, clock, authVars, nameVars, hints, requests, changes, held>>

\* As a plausible bug would have it: the hint names the workspace active now.
HintForActive(r) == {[wid |-> w, token |-> req[r].token] : w \in Picked(row, None)}

\* The hint after a write, for the owner only.
Hint(r) == IF req[r].writes /\ req[r].wid # None THEN {[wid |-> req[r].wid, token |-> req[r].token]} ELSE {}

\* As a plausible bug would have it: a failed operation keeps the lock.
FinishKeepsLock(r) ==
    /\ req[r].at = "using"
    /\ \/ NoFault /\ lock' = None /\ hints' = hints \cup Hint(r)
       \/ Fault("operation") /\ UNCHANGED <<lock, hints>>
    /\ Reply(r)
    /\ UNCHANGED <<vaultVars, clock, authVars, nameVars, clients, links, up, leaked, requests, changes, held>>

\* The operation ends; only one that succeeded is followed by a hint.
Finish(r) ==
    /\ req[r].at = "using"
    /\ lock' = None
    /\ \/ /\ NoFault
          /\ hints' = hints \cup Hint(r)
       \/ /\ Fault("operation")
          /\ UNCHANGED hints
    /\ Reply(r)
    /\ UNCHANGED <<vaultVars, clock, authVars, nameVars, clients, links, up, leaked, requests, changes, held>>

\* Sent or failed: either way it is only logged.
SendHint(h) ==
    /\ hints' = hints \ {h}
    /\ UNCHANGED <<vaultVars, clock, authVars, nameVars, poolVars, req, countVars, held>>

-------------------------------------------------------------------------------
VaultStep ==
    /\ \E e \in Editors : EditorStep(e)
    /\ held' = held \cup Holders(row')
    /\ UNCHANGED <<clock, authVars, nameVars, poolVars, req, hints, countVars>>

\* The process ends: caches, clients and requests go with it.
Restart ==
    /\ VaultRestart
    /\ cache' = [j \in Jwts |-> NoEntry]
    /\ listing' = [t \in Tokens |-> NoListing]
    /\ clients' = {} /\ links' = {} /\ up' = {} /\ lock' = None /\ leaked' = {}
    /\ req' = [r \in Requests |-> IdleReq]
    /\ hints' = {}
    /\ UNCHANGED <<clock, identity, leftAt, named, goneAt, countVars, held>>

RequestStep(r) ==
    \/ Verify(r) \/ AskSupabase(r) \/ TakeAnswer(r) \/ Refuse(r) \/ Resolve(r)
    \/ Lookup(r) \/ List(r) \/ Listed(r) \/ Acquire(r) \/ Finish(r)

Next ==
    \/ Tick \/ VaultStep \/ Restart
    \/ \E j \in Jwts : IdentityChanges(j)
    \/ \E t \in Tokens, n \in Names : Rename(t, n)
    \/ \E r \in Requests : Arrive(r) \/ RequestStep(r)
    \/ \E h \in hints : SendHint(h)

Spec == Init /\ [][Next]_vars

\* Threads are scheduled, calls return within their timeouts, and the lock goes
\* to some request that waits for it.
FairSpec == Spec /\ \A r \in Requests : WF_vars(RequestStep(r))

-------------------------------------------------------------------------------
Places == {"idle", "verify", "asking", "answered", "refused", "vault", "lookup", "list", "listed", "ready", "using"}
Times == 0..(MaxClock + PositiveTTL + ListTTL)
ReqState == [at: Places, bearer: Jwts \cup Tokens \cup {None}, asked: Workspaces \cup {None}, name: Names \cup {None},
             writes: BOOLEAN, on: 0..MaxClock, answer: Verdicts \cup {"error"}, seen: Listings,
             token: Tokens \cup {None}, wid: Workspaces \cup {None}, fid: Filespaces \cup {None}]

TypeOK ==
    /\ VaultTypeOK
    /\ clock \in 0..MaxClock
    /\ identity \in [Jwts -> Verdicts]
    /\ cache \in [Jwts -> [until: Times, verdict: Verdicts]]
    /\ Cardinality({j \in Jwts : cache[j].until > 0}) <= CacheMax
    /\ named \in [Tokens -> Listings]
    /\ listing \in [Tokens -> [until: Times, names: Listings]]
    /\ clients \in SUBSET Tokens
    /\ Cardinality(clients) <= MaxClients
    /\ links \in SUBSET Pairs
    /\ \A t \in Tokens : Cardinality(links \cap OfToken(t)) <= MaxLinks
    /\ lock \in Requests \cup {None}
    /\ req \in [Requests -> ReqState]
    /\ hints \in SUBSET [wid: Workspaces, token: Tokens]

\* Supabase said so of the session at some moment after a time.
Said(j, v, since) == identity[j] = v \/ leftAt[j][v] > since

\* Nobody enters as the owner unless Supabase took the session for the owner's
\* within the time an acceptance is kept (and the wait for its answer), and
\* nobody is turned away unless it refused the session within the shorter time
\* a refusal is kept: an outage neither lets in nor signs out, whichever order
\* two verifications of one session write the cache in.  `verify_owner`.
AnswersAreRecent ==
    \A r \in Requests :
        /\ req[r].at = "vault" => Said(req[r].bearer, "owner", req[r].on - PositiveTTL - Patience)
        /\ req[r].at = "refused" => Said(req[r].bearer, "other", req[r].on - NegativeTTL - Patience)

Stood(t, n, x, since) == named[t][n] = x \/ goneAt[<<t, n, x>>] > since

\* The filespace a request works on bore the name it was asked for, for the
\* token it acts with, no longer ago than a listing is kept when the name was
\* looked up: a late listing may replace a newer one, but never outlives the
\* moment it was asked for.  `_list_filespaces_cached`, `_resolve_filespace_id`.
RightFilespace ==
    \A r \in Requests : req[r].at \in {"ready", "using"} =>
        Stood(req[r].token, req[r].name, req[r].fid, req[r].on - ListTTL)

\* A hint names a workspace whose token, as the vault held it, did the write,
\* whatever the vault says by the time it is sent.  `Caller`, `_hint`.
HintsNameTheirWorkspace == \A h \in hints : <<h.wid, h.token>> \in held

\* The registry is a client pool: what an operation runs on stays linked until
\* it is over, and nobody else uses its client.  `_with_filespace`.
Pool == INSTANCE ClientPool WITH
    PoolUsers <- Requests, PoolTokens <- Tokens, PoolFilespaces <- Filespaces, linked <- up,
    using <- {<<r, req[r].token, req[r].fid>> : r \in {q \in Requests : req[q].at = "using"}}
KeepsPool == Pool!PoolSpec

\* Every request is answered: no path leaves the lock held or waits for itself.
EveryRequestIsAnswered == \A r \in Requests : req[r].at # "idle" ~> req[r].at = "idle"
================================================================================
