----------------------------- MODULE ImageLife -----------------------------
(***************************************************************************)
(* What the pipeline promises about the images, for any number of          *)
(* fetchers and whatever fails: an offer of an image is taken by one       *)
(* fetcher, an image is shown only by a fetcher that has written its       *)
(* thumbnail, and the first row of an image is its last.  An image may be  *)
(* offered again at any time, also while it is taken or has its row.       *)
(***************************************************************************)
CONSTANTS Hashes, Fetchers, Nothing

VARIABLES
    offered,  \* images that are pending
    row,      \* row[x]: "absent", "valid" or "blacklisted"
    file,     \* file[x]: the thumbnail is "none", "partial" or "complete"
    hand,     \* hand[f]: the image that f has taken, or Nothing
    written   \* fetchers that have written the thumbnail of their image

vars == <<offered, row, file, hand, written>>

Init ==
    /\ offered = {} /\ written = {}
    /\ row = [x \in Hashes |-> "absent"]
    /\ file = [x \in Hashes |-> "none"]
    /\ hand = [f \in Fetchers |-> Nothing]

Offer(x) ==
    /\ x \notin offered
    /\ offered' = offered \cup {x}
    /\ UNCHANGED <<row, file, hand, written>>

Refuse(x) ==
    /\ row[x] = "absent"
    /\ row' = [row EXCEPT ![x] = "blacklisted"]
    /\ UNCHANGED <<offered, file, hand, written>>

Take(f) ==
    /\ hand[f] = Nothing
    /\ \E x \in offered :
        /\ offered' = offered \ {x}
        /\ hand' = [hand EXCEPT ![f] = x]
    /\ UNCHANGED <<row, file, written>>

Open(f) ==
    /\ hand[f] # Nothing /\ f \notin written
    /\ file' = [file EXCEPT ![hand[f]] = "partial"]
    /\ UNCHANGED <<offered, row, hand, written>>

Flush(f) ==
    /\ hand[f] # Nothing /\ f \notin written
    /\ file[hand[f]] # "none"
    /\ file' = [file EXCEPT ![hand[f]] = "complete"]
    /\ written' = written \cup {f}
    /\ UNCHANGED <<offered, row, hand>>

Settle(f, fate) ==
    /\ hand[f] # Nothing
    /\ fate = "valid" => f \in written
    /\ row' = [row EXCEPT ![hand[f]] = IF @ = "absent" THEN fate ELSE @]
    /\ hand' = [hand EXCEPT ![f] = Nothing]
    /\ written' = written \ {f}
    /\ UNCHANGED <<offered, file>>

\* An error of one fetcher, or a crash of all of them.
Lose(some) ==
    /\ hand' = [f \in Fetchers |-> IF f \in some THEN Nothing ELSE hand[f]]
    /\ written' = written \ some
    /\ UNCHANGED <<offered, row, file>>

Next ==
    \/ \E x \in Hashes : Offer(x) \/ Refuse(x)
    \/ \E f \in Fetchers :
        \/ Take(f) \/ Open(f) \/ Flush(f)
        \/ Settle(f, "valid") \/ Settle(f, "blacklisted")
    \/ \E some \in SUBSET Fetchers : Lose(some)

Spec == Init /\ [][Next]_vars
=============================================================================
