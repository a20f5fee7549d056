------------------------------ MODULE MCDiscovery ------------------------------
EXTENDS Discovery, TLC

CONSTANTS a, b, c, d, e, lamp, tree, both, none

MCFiles == {a, b, c, d, e}
MCTexts == {lamp, tree, both}

\* Five files of four documents: e is a copy of d.
MCPath == (a :> 1) @@ (b :> 2) @@ (c :> 3) @@ (d :> 4) @@ (e :> 5)
MCCopy == [f \in MCFiles |-> IF f = e THEN d ELSE f]
MCBase == MCCopy

\* Two projects, and a text that is about both.
About(t) == IF t = both THEN {lamp, tree} ELSE {t}
MCShared == [t \in MCTexts |-> [u \in MCTexts |-> IF About(t) \cap About(u) # {} THEN 5 ELSE 0]]
MCRefersTo == [t \in MCTexts |-> IF t = both THEN {a} ELSE {}]
MCClose == [t \in MCTexts \cup {none} |-> [u \in MCTexts \cup {none} |-> IF t = u /\ t # none THEN 5 ELSE 0]]
MCNear == {<<a, b>>}

MCInitialTexts == {[f \in MCFiles |-> IF f \in {a, b} THEN lamp ELSE tree]}

MCChanging == {b, c}

MCResolutions == <<1, 2, 4, 8>>
MCIds == 1..5

NoUse == [bound \in Bounds |-> 0]
MCLoads == {
    [NoUse EXCEPT !["asks"] = 1, !["acts"] = 1, !["edits"] = 1, !["names"] = 1],
    [NoUse EXCEPT !["asks"] = 2, !["merges"] = 1, !["acts"] = 1],
    [NoUse EXCEPT !["asks"] = 1, !["restarts"] = 1, !["fails"] = 1, !["edits"] = 1],
    [NoUse EXCEPT !["asks"] = 1, !["crashes"] = 1, !["edits"] = 1],
    [NoUse EXCEPT !["rekeys"] = 1, !["edits"] = 2],
    [NoUse EXCEPT !["asks"] = 1, !["rekeys"] = 1, !["edits"] = 1],
    [NoUse EXCEPT !["asks"] = 2, !["forgets"] = 1, !["acts"] = 1],
    [NoUse EXCEPT !["asks"] = 2, !["stops"] = 1, !["switches"] = 2]}
================================================================================
