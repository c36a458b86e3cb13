----------------------------- MODULE MCImageJobs -----------------------------
(* Small instances of ImageJobs for TLC. *)
EXTENDS ImageJobs

CONSTANTS r1, r2, photo

\* Two requests on one jpg.
MCHolders == Workers \X {"codec", "pngCodec"}
MCRequests == {r1, r2}
MCImages == {photo}
MCImageId == [r \in MCRequests |-> photo]
MCFormat == [i \in MCImages |-> "jpg"]
=============================================================================
