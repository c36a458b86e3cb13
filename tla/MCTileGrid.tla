------------------------------ MODULE MCTileGrid ------------------------------
(* Small instances of TileGrid for TLC. *)
EXTENDS TileGrid
=============================================================================
