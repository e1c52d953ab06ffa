--------------------------- MODULE MCFocusManager ----------------------------
(* A small instance of FocusManager for TLC: three windows, two popups, of   *)
(* which one grabs, one button, and a cursor over the windows, over one of   *)
(* the popups as well, or over nothing.                                      *)
EXTENDS FocusManager

CONSTANTS t1, t2, t3, p1, p2

MCToplevels == {t1, t2, t3}
MCPopups == {p1, p2}
MCAreas == {{}, MCToplevels, MCToplevels \cup {p2}}
MCSymmetry == Permutations(MCToplevels)
=============================================================================
