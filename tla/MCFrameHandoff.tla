--------------------------- MODULE MCFrameHandoff ----------------------------
(* Small instances of FrameHandoff for TLC. *)
EXTENDS FrameHandoff

MCTiles == 1..2
MCTile == {1}
MCNoShifts == {}
MCScrollTiles == 1..3
MCShifts == {-1, 1}
=============================================================================
