---------------------------- MODULE MCPageCache ----------------------------
(* Instances of PageCache for TLC.                                         *)
EXTENDS PageCache

CONSTANTS a, b, c, d   \* four images

\* Four pages; image b is on two of them, as posts move while pages are fetched,
\* and the posts of the last page have no hash.
FourPages ==
    [p \in 0 .. 3 |-> CASE p = 0 -> {a, b} \cap Images [] p = 1 -> {b, c} \cap Images
                        [] p = 2 -> {d} \cap Images [] p = 3 -> {}]
=============================================================================
