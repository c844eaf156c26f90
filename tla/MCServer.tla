------------------------------ MODULE MCServer ------------------------------
(* Instances of Server for TLC.                                            *)
EXTENDS Server

CONSTANTS t1, t2, t3

\* No list is too short to be refused but the empty one, with First = 1.  Of the two
\* tags for the goroutine the first one has no images, so that its pool stays empty.
Lists == {<<>>, <<t1, t2, t3>>}
Rows == {<<"images", t>> : t \in {t1, t3}}
=============================================================================
