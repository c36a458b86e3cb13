----------------------------- MODULE MCLimbQueue -----------------------------
(* A small instance of LimbQueue for TLC: the configuration gives sets of    *)
(* model values to all constants.  The refinement is a PROPERTY, so there is *)
(* no symmetry.                                                              *)
EXTENDS LimbQueue
=============================================================================
