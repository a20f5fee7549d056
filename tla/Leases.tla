--------------------------------- MODULE Leases ---------------------------------
(***************************************************************************)
(* SdkSourceProvider of docker/indexer/source.py: how the indexer's jobs   *)
(* lease filespaces.  A session, which is a client logged in with a        *)
(* token, is found or opened under the provider's lock and pinned by a     *)
(* count before its own lock is waited for; that lock is held for the      *)
(* whole lease.  Both registries, of sessions and of the filespaces linked *)
(* beneath one, shrink only when a lease begins, and never by what is      *)
(* pinned, so they "may briefly exceed" their bounds.                      *)
(*                                                                         *)
(* Time is left out: a session's list of names may be too old whenever it  *)
(* is read.                                                                *)
(***************************************************************************)
EXTENDS Naturals, FiniteSets

CONSTANTS
    Jobs, Workspaces, Tokens, Names, Filespaces, None,
    MaxClients, MaxLinks,
    InitialTokens,  \* what the vault may hold at first
    InitialNames,   \* what the names may stand for at first
    Wants,          \* what jobs lease: a workspace and a name
    FaultKinds,
    MaxLeases,      \* bound on leases
    MaxEvents       \* bound on faults, restarts and changes of the world

VARIABLES
    token,          \* token[w]: the vault's token of a workspace, or None
    named,          \* named[t][n]: what a name stands for, or None
    sessions,       \* the tokens with a session
    pins,           \* pins[t]: leases of the session taken or waiting (refs)
    owner,          \* owner[t]: the job that holds the session's lock, or None
    names,          \* names[t]: the session's list of names, {} before the first
    links,          \* links[t]: filespaces linked beneath the session
    up,             \* the pairs linked in the SDK
    lease,          \* lease[j]: where a job is
    leases, events,
    leaked          \* history: pairs whose unlinking failed

vars == <<token, named, sessions, pins, owner, names, links, up, lease, leases, events, leaked>>
settings == <<token, named>>
registry == <<sessions, pins, links, up, leaked>>

Listings == [Names -> Filespaces \cup {None}]
Pairs == Tokens \X Filespaces

ASSUME LeasesAssumption ==
    /\ None \notin Jobs \cup Tokens \cup Filespaces \cup Workspaces \cup Names
    /\ IsFiniteSet(Jobs) /\ IsFiniteSet(Tokens) /\ IsFiniteSet(Filespaces)
    /\ MaxClients \in Nat \ {0} /\ MaxLinks \in Nat \ {0}
    /\ InitialTokens \subseteq [Workspaces -> Tokens \cup {None}]
    /\ InitialNames \subseteq [Tokens -> Listings]
    /\ Wants \subseteq Workspaces \X Names
    /\ MaxLeases \in Nat /\ MaxEvents \in Nat

Idle == [at |-> "idle", name |-> None, token |-> None, fid |-> None]

Event ==
    /\ events < MaxEvents
    /\ events' = events + 1

Fault(kind) == kind \in FaultKinds /\ Event

Init ==
    /\ token \in InitialTokens
    /\ named \in InitialNames
    /\ sessions = {}
    /\ pins = [t \in Tokens |-> 0]
    /\ owner = [t \in Tokens |-> None]
    /\ names = [t \in Tokens |-> {}]
    /\ links = [t \in Tokens |-> {}]
    /\ up = {} /\ leaked = {}
    /\ lease = [j \in Jobs |-> Idle]
    /\ leases = 0 /\ events = 0

-------------------------------------------------------------------------------
\* The owner replaces a token; a filespace is renamed, created or deleted.
Rotate(w) ==
    /\ Event
    /\ \E t \in (Tokens \cup {None}) \ {token[w]} : token' = [token EXCEPT ![w] = t]
    /\ UNCHANGED <<named, registry, owner, names, lease, leases>>

Rename(t, n) ==
    /\ Event
    /\ \E x \in (Filespaces \cup {None}) \ {named[t][n]} : named' = [named EXCEPT ![t][n] = x]
    /\ UNCHANGED <<token, registry, owner, names, lease, leases>>

-------------------------------------------------------------------------------
\* A job asks for a lease: the token is read before the provider's lock.
Ask(j) ==
    /\ lease[j].at = "idle"
    /\ leases < MaxLeases
    /\ leases' = leases + 1
    /\ \E want \in Wants :
        lease' = IF token[want[1]] = None THEN lease
                 ELSE [lease EXCEPT ![j] = [Idle EXCEPT !.at = "login", !.name = want[2], !.token = token[want[1]]]]
    /\ UNCHANGED <<settings, registry, owner, names, events>>

Size(set) == Cardinality(set)

\* The subsets of `set` with `pinned` kept, and of the rest what fits in n.
Shrunk(set, pinned, n) ==
    {s \in SUBSET set : pinned \subseteq s /\ Size(s) = IF Size(set) <= n THEN Size(set)
                                                     ELSE IF Size(pinned) <= n THEN n ELSE Size(pinned)}

\* As a plausible bug would have it: only leases that were granted are counted.
Granted(t) == owner[t] # None

\* busy()
Busy(t) == pins[t] > 0

\* Closing a session unlinks what is beneath it; a failure is logged.
Close(gone) ==
    LET beneath == {p \in Pairs : p[1] \in gone /\ p[2] \in links[p[1]]} IN
    /\ links' = [t \in Tokens |-> IF t \in gone THEN {} ELSE links[t]]
    /\ names' = [t \in Tokens |-> IF t \in gone THEN {} ELSE names[t]]
    /\ \/ up' = up \ beneath /\ UNCHANGED <<leaked, events>>
       \/ beneath # {} /\ Fault("unlink") /\ leaked' = leaked \cup beneath /\ UNCHANGED up

\* _session and the pin, under the provider's lock: idle sessions beyond the
\* bound are closed; or the login fails.
Pin(j) ==
    LET t == lease[j].token IN
    /\ lease[j].at = "login"
    /\ \/ /\ sessions' \in Shrunk(sessions \cup {t}, {t} \cup {s \in sessions : Busy(s)}, MaxClients)
          /\ Close(sessions \ sessions')
          /\ pins' = [pins EXCEPT ![t] = @ + 1]
          /\ lease' = [lease EXCEPT ![j].at = "wait"]
       \/ /\ t \notin sessions
          /\ Fault("login")
          /\ lease' = [lease EXCEPT ![j] = Idle]
          /\ UNCHANGED <<registry, names>>
    /\ UNCHANGED <<settings, owner, leases>>

\* As a plausible bug would have it: a pinned session is used at once.
TakeAtOnce(j) ==
    /\ lease[j].at = "wait"
    /\ lease' = [lease EXCEPT ![j].at = "resolve"]
    /\ UNCHANGED <<settings, registry, owner, names, leases, events>>

\* The session's own lock.
Take(j) ==
    LET t == lease[j].token IN
    /\ lease[j].at = "wait"
    /\ owner[t] = None
    /\ owner' = [owner EXCEPT ![t] = j]
    /\ lease' = [lease EXCEPT ![j].at = "resolve"]
    /\ UNCHANGED <<settings, registry, names, leases, events>>

Leave(j) == lease' = [lease EXCEPT ![j].at = "unpin", ![j].fid = None]
Unlock(j) == owner' = [owner EXCEPT ![lease[j].token] = None]

\* resolve: the names are listed anew, or the list is fresh enough.
Refreshed(t) == {{named[t]}} \cup IF names[t] = {} THEN {} ELSE {names[t]}

Resolve(j) ==
    LET t == lease[j].token IN
    /\ lease[j].at = "resolve"
    /\ \/ /\ names' \in {[names EXCEPT ![t] = s] : s \in Refreshed(t)}
          /\ \E listing \in names'[t] :
              IF listing[lease[j].name] = None THEN Leave(j) /\ Unlock(j)
              ELSE /\ lease' = [lease EXCEPT ![j].at = "link", ![j].fid = listing[lease[j].name]]
                   /\ UNCHANGED owner
          /\ UNCHANGED events
       \/ /\ Fault("list")
          /\ Leave(j) /\ Unlock(j)
          /\ UNCHANGED names
    /\ UNCHANGED <<settings, registry, leases>>

\* As a plausible bug would have it: a failed link keeps the session locked.
LinkKeepsLock(j) ==
    /\ Fault("link")
    /\ Leave(j)
    /\ UNCHANGED <<links, up, leaked, owner>>

LinkFails(j) ==
    /\ Fault("link")
    /\ Leave(j) /\ Unlock(j)
    /\ UNCHANGED <<links, up, leaked>>

\* _link: idle filespaces beyond the bound are unlinked.
Link(j) ==
    LET t == lease[j].token
        x == lease[j].fid
    IN  /\ lease[j].at = "link"
        /\ \/ \E kept \in Shrunk(links[t] \cup {x}, {x}, MaxLinks) :
                LET gone == {t} \X (links[t] \ kept) IN
                /\ links' = [links EXCEPT ![t] = kept]
                /\ lease' = [lease EXCEPT ![j].at = "using"]
                /\ UNCHANGED owner
                /\ \/ up' = (up \ gone) \cup {<<t, x>>} /\ UNCHANGED <<leaked, events>>
                   \/ /\ gone # {} /\ Fault("unlink")
                      /\ up' = up \cup {<<t, x>>} /\ leaked' = leaked \cup gone
           \/ x \notin links[t] /\ LinkFails(j)
        /\ UNCHANGED <<settings, sessions, pins, names, leases>>

\* The job ends, in whatever way.
Finish(j) ==
    /\ lease[j].at = "using"
    /\ Leave(j) /\ Unlock(j)
    /\ UNCHANGED <<settings, registry, names, leases, events>>

Unpin(j) ==
    /\ lease[j].at = "unpin"
    /\ pins' = [pins EXCEPT ![lease[j].token] = @ - 1]
    /\ lease' = [lease EXCEPT ![j] = Idle]
    /\ UNCHANGED <<settings, sessions, owner, names, links, up, leaked, leases, events>>

\* close(), once the scheduler has stopped and its jobs have ended; or the
\* process is killed, and its clients with it.
Restart ==
    /\ Event
    /\ sessions' = {} /\ up' = {} /\ leaked' = {}
    /\ pins' = [t \in Tokens |-> 0]
    /\ owner' = [t \in Tokens |-> None]
    /\ names' = [t \in Tokens |-> {}]
    /\ links' = [t \in Tokens |-> {}]
    /\ lease' = [j \in Jobs |-> Idle]
    /\ UNCHANGED <<settings, leases>>

JobStep(j) == Pin(j) \/ Take(j) \/ Resolve(j) \/ Link(j) \/ Finish(j) \/ Unpin(j)

Next ==
    \/ \E w \in Workspaces : Rotate(w)
    \/ \E t \in Tokens, n \in Names : Rename(t, n)
    \/ \E j \in Jobs : Ask(j) \/ JobStep(j)
    \/ Restart

Spec == Init /\ [][Next]_vars

\* Jobs end, calls of the SDK return, and a session's lock that stays free is
\* taken by those who wait for it.
FairSpec == Spec /\ \A j \in Jobs : WF_vars(JobStep(j))

-------------------------------------------------------------------------------
Pinned == {"wait", "resolve", "link", "using", "unpin"}
Holding == {"resolve", "link", "using"}
LeaseState == [at: {"idle", "login"} \cup Pinned, name: Names \cup {None}, token: Tokens \cup {None},
               fid: Filespaces \cup {None}]

TypeOK ==
    /\ token \in [Workspaces -> Tokens \cup {None}]
    /\ named \in [Tokens -> Listings]
    /\ sessions \in SUBSET Tokens
    /\ pins \in [Tokens -> Nat]
    /\ owner \in [Tokens -> Jobs \cup {None}]
    /\ names \in [Tokens -> SUBSET Listings]
    /\ links \in [Tokens -> SUBSET Filespaces]
    /\ up \in SUBSET Pairs /\ leaked \in SUBSET Pairs
    /\ lease \in [Jobs -> LeaseState]
    /\ leases \in 0..MaxLeases /\ events \in 0..MaxEvents

\* The registry is a client pool: a filespace is never unlinked under the job
\* that reads it, and no other job uses its client meanwhile.  `lease`.
Pool == INSTANCE ClientPool WITH
    PoolUsers <- Jobs, PoolTokens <- Tokens, PoolFilespaces <- Filespaces, linked <- up,
    using <- {<<j, lease[j].token, lease[j].fid>> : j \in {i \in Jobs : lease[i].at = "using"}}
KeepsPool == Pool!PoolSpec

\* The registries stay small, and what is linked is in them: each session has
\* at most MaxLinks filespaces; there are more than MaxClients sessions only
\* while jobs need them; a session that a job holds or waits for is not closed.
\* `_session`, `_link`.
RegistryIsBounded ==
    /\ Size(sessions) <= IF Size(Jobs) > MaxClients THEN Size(Jobs) ELSE MaxClients
    /\ \A t \in Tokens : Size(links[t]) <= MaxLinks
    /\ \A t \in Tokens : links[t] # {} => t \in sessions
    /\ \A j \in Jobs : lease[j].at \in Pinned => lease[j].token \in sessions
    /\ \A p \in up : p[2] \in links[p[1]] \/ p \in leaked

\* A job that asks for a lease gets it, or is refused, and gives it back: no
\* failure leaves a session locked, and jobs of one workspace take turns.
EveryLeaseEnds == \A j \in Jobs : lease[j].at # "idle" ~> lease[j].at = "idle"
================================================================================
