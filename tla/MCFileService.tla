----------------------------- MODULE MCFileService -----------------------------
(* A small instance of FileService. *)
EXTENDS FileService

CONSTANTS w1, w2, tokA, tokB, none, star, fsX, fsY, nameP, jwt

\* A save of the whole settings as the browser shows them, with one token
\* replaced, a save that drops a workspace and one that makes the other active.
Settings(list, sent, active) ==
    [part |-> "settings", listed |-> TRUE, list |-> list, sent |-> sent, chooses |-> TRUE, active |-> active]
SomePuts ==
    {Settings({w1, w2}, [w \in Workspaces |-> IF w = w1 THEN tokA ELSE "blanked"], w1),
     Settings({w2}, [w \in Workspaces |-> tokB], w2),
     [part |-> "favorites", value |-> star]}

\* A fresh installation, and one that older versions have used.
Used == [list |-> {w1}, token |-> [w \in Workspaces |-> IF w = w1 THEN tokA ELSE Blank], active |-> w1,
         favorites |-> star, collections |-> none, retired |-> TRUE]
SomeRecords == {Empty, Used}

\* One name, for a filespace of each token.
SomeNames == {[t \in Tokens |-> [n \in Names |-> IF t = tokA THEN fsX ELSE fsY]]}

\* The owner, for the active workspace, and the holder of a token.
Ask(b, w, writes) == [bearer |-> b, asked |-> w, name |-> nameP, writes |-> writes]
SomeAsks == {Ask(jwt, None, TRUE), Ask(tokB, None, FALSE)}

\* Where the bounds are spent: on saves that overlap, on a save during a
\* request, on two requests with a fault and on two while the world changes.
Load(record, s, x, r, c, f, t) ==
    [row |-> record, saves |-> s, starts |-> x, requests |-> r, changes |-> c, faults |-> f, clock |-> t]
SomeLoads == {Load(Empty, 3, 1, 0, 0, 0, MaxClock), Load(Used, 3, 1, 0, 0, 0, MaxClock),
              Load(Used, 1, 1, 1, 0, 0, MaxClock), Load(Used, 0, 1, 2, 0, 1, MaxClock),
              Load(Used, 0, 0, 2, 1, 0, 1)}
================================================================================
