----------------------------- MODULE MCIndexLedger -----------------------------
(* Small instances of IndexLedger. *)
EXTENDS IndexLedger, TLC

CONSTANTS f1, f2, o1, pRoot, pSub, pOther, root, sub, textA, textB, blank, huge

MCDirOf == [p \in Paths |-> IF p = pSub THEN sub ELSE root]
MCSizeOf == [c \in Contents |-> IF c = huge THEN 9 ELSE IF c = textB THEN 2 ELSE 1]
MCNewIdOf == [l \in LegacyIds |-> f1]
MCSupported == Paths \ {pOther}

\* One file in the root folder, the other outside.
Outside(c, t) == [path |-> None, content |-> c, mtime |-> t]
Placed(p, c, t) == [path |-> p, content |-> c, mtime |-> t]
Files2(a, b) == [f \in Files |-> IF f = f1 THEN a ELSE b]

OneFile == {Files2(Placed(pRoot, textA, 0), Outside(textA, 0))}
TwoFiles == {Files2(Placed(pRoot, textA, 0), Placed(pSub, textB, 0))}
================================================================================
