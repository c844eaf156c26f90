--------------------------- MODULE MCPostWorkers ---------------------------
(* Instances of PostWorkers for TLC.                                       *)
EXTENDS PostWorkers

CONSTANTS f1, f2, cirno, Cirno, reimu, solo, couple, hat

Names == {cirno, Cirno, reimu, solo, couple, hat}
Lowered == [t \in Names |-> IF t = Cirno THEN cirno ELSE t]

PostWith(tags) == [md5 |-> TRUE, still |-> TRUE, tags |-> tags]
Video == [PostWith(<<cirno, solo>>) EXCEPT !.still = FALSE]
NoHash == [PostWith(<<>>) EXCEPT !.md5 = FALSE]

\* Every list of up to two tags, and those of three with both tags that are asked
\* for: the third one in each place.
Lists == UNION {[1 .. n -> Names] : n \in 0 .. 2} \cup
    UNION {{<<t, cirno, solo>>, <<solo, t, Cirno>>, <<solo, cirno, t>>} : t \in Names}

\* The first fetcher gets a page of a single post, for every list of tags, or a
\* page that is bigger than dst; the other one gets a page of one post.
MixedPages == [f \in Fetchers |->
    IF f = f1 THEN {<<PostWith(l)>> : l \in Lists} \cup
                   {<<PostWith(<<solo, cirno>>), NoHash, Video>>}
    ELSE {<<Video>>}]
=============================================================================
