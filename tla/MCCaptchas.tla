----------------------------- MODULE MCCaptchas -----------------------------
(* Small instances of module Captchas.                                     *)
EXTENDS Captchas, TLC

\* Handlers and IDs are interchangeable; only for runs without liveness.
Symmetry == Permutations(Handlers) \cup Permutations(Ids)
=============================================================================
