------------------------------ MODULE Releases ------------------------------
(***************************************************************************)
(* What the start of package db promises about the database of a user,     *)
(* whichever release wrote it, however many processes open it, and         *)
(* whenever they die: it goes up by one release at a time, each of them    *)
(* gives up the rows it is known to give up and no other ones, and rows    *)
(* are only added at the last release.                                     *)
(***************************************************************************)
EXTENDS Naturals

CONSTANTS
    Row,      \* rows of all tables
    Last,     \* the release of this code
    Cleared,  \* Cleared[n]: rows of release n that the next one does not keep
    Held      \* Held[n]: rows that the tables of release n can hold

VARIABLES
    release,  \* of the committed database, 0 before its first one
    rows      \* committed rows

Init == release \in 0 .. Last /\ rows \subseteq Held[release]

Upgrade ==
    /\ release < Last
    /\ release' = release + 1
    /\ rows' = rows \ Cleared[release]

Add(r) ==
    /\ release = Last
    /\ rows' = rows \cup {r}
    /\ UNCHANGED release

Next == Upgrade \/ \E r \in Row : Add(r)

Spec == Init /\ [][Next]_<<release, rows>>
=============================================================================
