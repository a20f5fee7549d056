------------------------------- MODULE MCFolders -------------------------------
EXTENDS Folders

CONSTANTS n1, p1, p2, top, sub, d1, d2, o1, o2, scheduler, none

MCNames == {n1}
MCPlaces == {p1, p2}
MCOverlaps == {<<p, p>> : p \in MCPlaces}
\* The engine's own source and a cloud folder: one name may stand for either.
MCEngine == [n \in MCNames |-> p1]
MCCloud == {p2}
MCFiles == {top, sub}
MCTopFiles == {top}
Holding(a, b) == [p \in MCPlaces |-> [f \in MCFiles |-> IF f = top THEN a ELSE b]]
MCDisks == {[Holding("here", "here") EXCEPT ![p2] = [f \in MCFiles |-> IF f = top THEN "here" ELSE "online"]]}
MCDrives == {d1, d2}
MCPlaceOn == [d \in MCDrives |-> IF d = d1 THEN {p2} ELSE {}]

\* Nothing stored by the app, or the cloud folder.
Fresh == [n \in Names |-> NoSource]
InCloud == [n \in Names |-> [place |-> p2, app |-> TRUE, download |-> FALSE]]
Budget(kept, furnished, looks, plugs, adds, removals, settings, jobs, edits, losses, restarts, atOnce) ==
    [apps |-> kept, others |-> furnished,
     left |-> [looks |-> looks, plugs |-> plugs, adds |-> adds, removals |-> removals, settings |-> settings,
               jobs |-> jobs, edits |-> edits, losses |-> losses, restarts |-> restarts, atOnce |-> atOnce]]

\* Where the bounds are spent: on drives that come and go under two looks, in a
\* root that is empty at first and in one with other entries; on requests that
\* overlap; on a folder replaced under the jobs of its name; on online-only files;
\* on a scan while the folder comes and goes; on drives that get connected; and on
\* a new drive that is put aside before a restart.
MCLoads == {Budget(Fresh, FALSE, 3, 2, 0, 0, 0, 0, 0, 0, 0, 2), Budget(Fresh, TRUE, 2, 2, 0, 0, 0, 0, 0, 0, 0, 2),
            Budget(Fresh, TRUE, 0, 0, 2, 1, 0, 0, 0, 0, 0, 2),
            Budget(Fresh, TRUE, 0, 0, 1, 1, 0, 2, 0, 0, 0, 1), Budget(InCloud, TRUE, 0, 0, 0, 0, 1, 2, 0, 0, 0, 1),
            Budget(InCloud, TRUE, 0, 0, 0, 0, 1, 1, 1, 0, 0, 1),
            Budget(InCloud, TRUE, 0, 0, 0, 0, 0, 2, 1, 2, 0, 1), Budget(Fresh, FALSE, 1, 1, 1, 1, 0, 0, 0, 0, 0, 1),
            Budget(Fresh, TRUE, 2, 1, 0, 0, 1, 0, 0, 0, 1, 1)}
\* One job, and its folder is removed.
RemovalLoads == {Budget(Fresh, TRUE, 0, 0, 0, 1, 0, 1, 0, 0, 0, 1)}
================================================================================
