------------------------------- MODULE ClientPool -------------------------------
(***************************************************************************)
(* What a registry of LucidLink clients promises to those who use it.      *)
(* The file service (ll_core.py) and the indexer (source.py) each keep     *)
(* one: a client per token, with the filespaces linked beneath it, both    *)
(* bounded.  Clients may be opened and closed and filespaces linked and    *)
(* unlinked at any time, in any number, except those in use; and a client  *)
(* "is not thread safe", so it has one user at a time.                     *)
(***************************************************************************)
CONSTANTS
    PoolUsers,      \* requests or jobs
    PoolTokens,     \* one client each
    PoolFilespaces

VARIABLES
    linked,         \* the pairs <<token, filespace>> that are linked
    using           \* the triples <<user, token, filespace>> in progress

poolVars == <<linked, using>>

Pairs == PoolTokens \X PoolFilespaces
Uses == PoolUsers \X PoolTokens \X PoolFilespaces

InUse(uses) == {<<u[2], u[3]>> : u \in uses}

PoolInit ==
    /\ linked = {}
    /\ using = {}

\* A client is used by nobody else, and what is in use stays linked.
Exclusive(uses) == \A u, v \in uses : u[2] = v[2] => u = v

Enter ==
    /\ \E u \in Uses : using' = using \cup {u} /\ u \notin using
    /\ Exclusive(using')
    /\ linked' \in SUBSET Pairs
    /\ InUse(using') \subseteq linked'

Leave ==
    /\ \E u \in using : using' = using \ {u}
    /\ UNCHANGED linked

Arrange ==
    /\ linked' \in SUBSET Pairs
    /\ InUse(using) \subseteq linked'
    /\ UNCHANGED using

\* The process ends, and its clients with it.
End ==
    /\ linked' = {}
    /\ using' = {}

PoolNext == Enter \/ Leave \/ Arrange \/ End
PoolSpec == PoolInit /\ [][PoolNext]_poolVars
================================================================================
