--------------------------- MODULE MCCaptchaGrid ---------------------------
(* Instances of CaptchaGrid for TLC.                                       *)
EXTENDS CaptchaGrid

CONSTANTS a, b, c, d, e, f, t1, t2   \* six images, two tags

\* The tags share two images.
Overlapping == [t \in Tags |-> IF t = t1 THEN {a, b, c, d} ELSE {c, d, e, f}]
=============================================================================
