--------------------------- MODULE MCImageService ----------------------------
(* Small instances of ImageService for TLC. *)
EXTENDS ImageService, TLC

\* Workers are interchangeable.
ServiceSymmetry == Permutations(Workers)
=============================================================================
