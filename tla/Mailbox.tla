------------------------------- MODULE Mailbox -------------------------------
(***************************************************************************)
(* What the double buffer between the compositor's main thread and its     *)
(* RDP send thread promises: a one-place mailbox whose content the writer  *)
(* may replace until the reader takes it, and a reader that keeps what it  *)
(* took, unchanged, until it says it is done.  FrameHandoff implements it. *)
(***************************************************************************)
EXTENDS Sequences

CONSTANT Frames   \* what may be handed over

VARIABLES slot,     \* <<f>> when frame f waits for the reader, <<>> otherwise
          reading   \* <<f>> while the reader works on frame f, <<>> otherwise

mailboxVars == <<slot, reading>>

Init == slot = <<>> /\ reading = <<>>

(* The writer replaces whatever waits; the reader is never disturbed. *)
Publish == /\ slot' # <<>> /\ slot'[1] \in Frames
           /\ UNCHANGED reading

(* The reader takes the frame that waits, and only when it has none. *)
Take == /\ slot # <<>> /\ reading = <<>>
        /\ reading' = slot
        /\ slot' = <<>>

Release == /\ reading # <<>>
           /\ reading' = <<>>
           /\ UNCHANGED slot

Next == Publish \/ Take \/ Release

Spec == Init /\ [][Next]_mailboxVars
=============================================================================
