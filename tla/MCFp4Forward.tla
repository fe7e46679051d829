---------------------------- MODULE MCFp4Forward ----------------------------
(* Tile shapes for the runs of Fp4Forward. *)
EXTENDS Fp4Forward

OneTile == <<3>>
ShortLong == <<1, 2>>
=============================================================================
