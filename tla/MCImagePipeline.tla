-------------------------- MODULE MCImagePipeline --------------------------
(* Instances of ImagePipeline for TLC.                                     *)
EXTENDS ImagePipeline, TLC

CONSTANTS a, b, t1, t2   \* two images, two tags

\* Image b has both tags, and is on a page of each of them.
SharedPages == [t \in Tags |-> IF t = t1 THEN {{a, b}} ELSE {{b}}]

\* No post has the second tag.
OneTagOnly == [t \in Tags |-> IF t = t1 THEN {{a, b}} ELSE {}]

\* Image a is unfit for both tags.
SomeUnfit == [t \in Tags |-> {a}]
NoneUnfit == [t \in Tags |-> {}]

\* No fetcher is special; safety properties only.
AnyFetcher == Permutations(Fetchers)
=============================================================================
