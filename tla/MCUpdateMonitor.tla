--------------------------- MODULE MCUpdateMonitor ---------------------------
(* A small instance of UpdateMonitor. *)
EXTENDS UpdateMonitor

\* An image whose registry may be down for ever, checked before a package.
ImageAndPackage == <<"lucidlink-api", "lucidlink">>
Image == {"lucidlink-api"}
Package == {"lucidlink"}
TwoNotifiers == <<"ntfy", "webhook">>

\* A final release, a candidate of the next and the next: a candidate sorts
\* before its final and is not a release.
V1 == <<0, 14, 0, 0, 99, 0, 0>>
V2Candidate == <<1, 0, 0, 0, 3, 1, 0>>
V2 == <<1, 0, 0, 0, 99, 0, 0>>
SomeVersions == {V1, V2Candidate, V2}

\* The image has an update from the start; the package has one or may get it.
LiveAtFirst ==
    {[c \in Component |-> IF c \in Image THEN SomeVersions ELSE vs] : vs \in {{V1, V2Candidate}, SomeVersions}}
PinnedAtFirst == {[c \in Component |-> V1]}
==============================================================================
