-------------------------- MODULE MCScrollDetection --------------------------
(* A screen of 18 x 12 pixels has two regions side by side, 6 and 8 pixels wide,
   and one of 25 x 8 has three. *)
EXTENDS ScrollDetection

MCScreens == {[w |-> 18, h |-> 12], [w |-> 25, h |-> 8]}
MCShifts == {<<0, -2>>, <<-1, 1>>, <<2, 0>>}
=============================================================================
