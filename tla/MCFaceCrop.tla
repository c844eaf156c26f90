----------------------------- MODULE MCFaceCrop -----------------------------
(* Instances of FaceCrop for TLC: the bounds are in the configurations.    *)
EXTENDS FaceCrop
=============================================================================
