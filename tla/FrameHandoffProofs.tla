------------------------- MODULE FrameHandoffProofs --------------------------
(***************************************************************************)
(* Proofs about FrameHandoff for every screen, every bound and every set   *)
(* of optional events: the buffers are never shared, no wakeup is lost,    *)
(* and the hand-over implements the mailbox.                               *)
(***************************************************************************)
EXTENDS FrameHandoff, TLAPS

(* The inductive invariant.  Ownership needs the types (a buffer index that
   is not -1 is 0 or 1), and got_frame's conjunct of NoLostWakeup, without
   which send_ptr could be read through the index -1. *)
HandoffInv == TypeOK /\ BufferOwnership /\ NoLostWakeup

(* The initial state of main(): three allocations, nothing handed over. *)
LEMMA InitHandoffInv == Init => HandoffInv
<1> SUFFICES ASSUME Init PROVE HandoffInv
  OBVIOUS
<1> USE DEF Init
<1>1. TypeOK
  <2>1. send_buf \in [Bufs -> Stores]
    BY DEF Bufs, Stores
  <2>2. /\ frame_event \in BOOLEAN /\ idle_frame \in BOOLEAN /\ scene_dirty \in BOOLEAN
        /\ force_full_frame \in BOOLEAN /\ send_full \in BOOLEAN
        /\ running \in BOOLEAN /\ dirty_staging_valid \in BOOLEAN
        /\ has_dirty \in BOOLEAN /\ do_full \in BOOLEAN /\ broken \in BOOLEAN
    BY Zenon DEF SendLocalsGone
  <2>3. /\ dirty_tiles \in [Bufs -> SUBSET Tiles]
        /\ dirty_valid \in [Bufs -> BOOLEAN]
    BY Zenon
  <2> QED
    BY <2>1, <2>2, <2>3 DEF TypeOK, Pixels, Bufs, Stores, Blank, Unseen, SendLocalsGone
<1>2. BufferOwnership
  BY DEF BufferOwnership, Using, Reading, Bufs, SendLocalsGone
<1>3. NoLostWakeup
  BY DEF NoLostWakeup, Using
<1> QED
  BY <1>1, <1>2, <1>3 DEF HandoffInv

(* The actions of the main thread, the send thread and the connection that
   leave every buffer, every index and the send thread's position alone. *)
ElsewhereStep ==
    \/ ClientCommit \/ ClientScroll \/ QuietChange \/ SkipFrame \/ BeginFrame
    \/ RenderFails \/ AccessFails \/ DecideToSend \/ DropFrame
    \/ LoopWakes \/ JoinSendThread \/ ScheduleFrame \/ BreakChannel

LEMMA ElsewhereType == HandoffInv /\ ElsewhereStep => TypeOK'
<1> SUFFICES ASSUME HandoffInv, ElsewhereStep PROVE TypeOK'
  OBVIOUS
<1>0. frame_event' \in BOOLEAN /\ idle_frame' \in BOOLEAN
  BY Zenon DEF HandoffInv, TypeOK, ElsewhereStep, ClientCommit, ClientScroll,
               QuietChange, SkipFrame, BeginFrame, RenderFails, AccessFails,
               DecideToSend, DropFrame, LoopWakes, JoinSendThread, ScheduleFrame,
               BreakChannel, FrameDue, LoopTurns, sceneVars
<1> USE <1>0 DEF HandoffInv, TypeOK, Pixels, sceneVars, bufVars, stagingVars,
                 sendVars, linkVars
<1>1. CASE ClientCommit
  BY <1>1 DEF ClientCommit
<1>2. CASE ClientScroll
  BY <1>2, TilesAssumption, ShiftsAssumption DEF ClientScroll
<1>3. CASE QuietChange
  BY <1>3 DEF QuietChange
<1>4. CASE SkipFrame \/ LoopWakes
  BY <1>4 DEF SkipFrame, LoopWakes
<1>5. CASE BeginFrame
  <2>1. scene_dirty' \in BOOLEAN
    BY <1>5, Zenon DEF BeginFrame
  <2> QED
    BY <1>5, <2>1 DEF BeginFrame
<1>6. CASE RenderFails
  BY <1>6 DEF RenderFails
<1>7. CASE AccessFails
  <2>1. dirty_staging_valid' \in BOOLEAN /\ has_dirty' \in BOOLEAN
    BY <1>7, Zenon DEF AccessFails
  <2> QED
    BY <1>7, <2>1 DEF AccessFails
<1>8. CASE DecideToSend
  <2>1. has_dirty' \in BOOLEAN
    BY <1>8, Zenon DEF DecideToSend
  <2> QED
    BY <1>8, <2>1 DEF DecideToSend
<1>9. CASE DropFrame
  BY <1>9 DEF DropFrame
<1>10. CASE JoinSendThread
  BY <1>10 DEF JoinSendThread
<1>11. CASE ScheduleFrame
  BY <1>11 DEF ScheduleFrame
<1>12. CASE BreakChannel
  BY <1>12 DEF BreakChannel
<1> QED
  BY <1>1, <1>2, <1>3, <1>4, <1>5, <1>6, <1>7, <1>8, <1>9, <1>10, <1>11, <1>12
  DEF ElsewhereStep
LEMMA ElsewhereInv == HandoffInv /\ ElsewhereStep => HandoffInv'
<1> SUFFICES ASSUME HandoffInv, ElsewhereStep PROVE HandoffInv'
  OBVIOUS
<1>1. UNCHANGED <<framebuf, send_buf, pending_buf, active_buf, s_pc, cur,
                  send_ptr, running>>
  BY DEF ElsewhereStep, ClientCommit, ClientScroll, QuietChange, SkipFrame,
         BeginFrame, RenderFails, AccessFails, DecideToSend, DropFrame,
         LoopWakes, JoinSendThread, ScheduleFrame, BreakChannel, bufVars, sendVars
<1>2. BufferOwnership' /\ NoLostWakeup'
  BY <1>1 DEF HandoffInv, BufferOwnership, NoLostWakeup, Using, Reading
<1> QED
  BY <1>2, ElsewhereType DEF HandoffInv

LEMMA RenderFrameInv == HandoffInv /\ RenderFrame => HandoffInv'
<1> SUFFICES ASSUME HandoffInv, RenderFrame PROVE HandoffInv'
  OBVIOUS
<1>1. TypeOK'
  <2>1. /\ frame_event' \in BOOLEAN /\ idle_frame' \in BOOLEAN
        /\ dirty_staging_valid' \in BOOLEAN /\ has_dirty' \in BOOLEAN
    BY Zenon DEF HandoffInv, TypeOK, RenderFrame, FrameDue
  <2> QED
    BY <2>1 DEF HandoffInv, TypeOK, BufferOwnership, NoLostWakeup, Using, Reading,
         Pixels, Bufs, Stores, RenderFrame, Copied, sceneVars, bufVars, stagingVars, sendVars,
         linkVars
<1>2. BufferOwnership'
  BY DEF HandoffInv, TypeOK, BufferOwnership, NoLostWakeup, Using, Reading, Bufs,
         Stores, RenderFrame, Copied, bufVars, sendVars
<1>3. NoLostWakeup'
  BY DEF HandoffInv, TypeOK, BufferOwnership, NoLostWakeup, Using, Bufs,
         RenderFrame, Copied, bufVars, sendVars
<1> QED
  BY <1>1, <1>2, <1>3 DEF HandoffInv

LEMMA ShutdownInv == HandoffInv /\ Shutdown => HandoffInv'
<1> SUFFICES ASSUME HandoffInv, Shutdown PROVE HandoffInv'
  OBVIOUS
<1>1. TypeOK'
  <2>1. running' \in BOOLEAN
    BY Zenon DEF HandoffInv, TypeOK, Shutdown, Signalled
  <2> QED
    BY <2>1 DEF HandoffInv, TypeOK, BufferOwnership, NoLostWakeup, Using, Reading,
         Pixels, Bufs, Stores, Shutdown, Signalled, sceneVars, bufVars, stagingVars, sendVars,
         linkVars
<1>2. BufferOwnership'
  BY DEF HandoffInv, TypeOK, BufferOwnership, NoLostWakeup, Using, Reading, Bufs,
         Stores, Shutdown, Signalled, bufVars, sendVars
<1>3. NoLostWakeup'
  BY DEF HandoffInv, TypeOK, BufferOwnership, NoLostWakeup, Using, Bufs,
         Shutdown, Signalled, bufVars, sendVars
<1> QED
  BY <1>1, <1>2, <1>3 DEF HandoffInv

LEMMA AcceptPeerInv == HandoffInv /\ AcceptPeer => HandoffInv'
<1> SUFFICES ASSUME HandoffInv, AcceptPeer PROVE HandoffInv'
  OBVIOUS
<1>1. TypeOK'
  BY DEF HandoffInv, TypeOK, BufferOwnership, NoLostWakeup, Using, Reading,
         Pixels, Bufs, Stores, AcceptPeer, sceneVars, bufVars, stagingVars, sendVars,
         linkVars
<1>2. BufferOwnership'
  BY DEF HandoffInv, TypeOK, BufferOwnership, NoLostWakeup, Using, Reading, Bufs,
         Stores, AcceptPeer, bufVars, sendVars
<1>3. NoLostWakeup'
  BY DEF HandoffInv, TypeOK, BufferOwnership, NoLostWakeup, Using, Bufs,
         AcceptPeer, bufVars, sendVars
<1> QED
  BY <1>1, <1>2, <1>3 DEF HandoffInv

LEMMA StopListeningInv == HandoffInv /\ StopListening => HandoffInv'
<1> SUFFICES ASSUME HandoffInv, StopListening PROVE HandoffInv'
  OBVIOUS
<1>1. TypeOK'
  BY DEF HandoffInv, TypeOK, BufferOwnership, NoLostWakeup, Using, Reading,
         Pixels, Bufs, Stores, StopListening, sceneVars, bufVars, stagingVars, sendVars,
         linkVars
<1>2. BufferOwnership'
  BY DEF HandoffInv, TypeOK, BufferOwnership, NoLostWakeup, Using, Reading, Bufs,
         Stores, StopListening, bufVars, sendVars
<1>3. NoLostWakeup'
  BY DEF HandoffInv, TypeOK, BufferOwnership, NoLostWakeup, Using, Bufs,
         StopListening, bufVars, sendVars
<1> QED
  BY <1>1, <1>2, <1>3 DEF HandoffInv

LEMMA WaitForFrameInv == HandoffInv /\ WaitForFrame => HandoffInv'
<1> SUFFICES ASSUME HandoffInv, WaitForFrame PROVE HandoffInv'
  OBVIOUS
<1>1. TypeOK'
  BY DEF HandoffInv, TypeOK, BufferOwnership, NoLostWakeup, Using, Reading,
         Pixels, Bufs, Stores, WaitForFrame, sceneVars, bufVars, stagingVars, sendVars,
         linkVars
<1>2. BufferOwnership'
  BY DEF HandoffInv, TypeOK, BufferOwnership, NoLostWakeup, Using, Reading, Bufs,
         Stores, WaitForFrame, bufVars, sendVars
<1>3. NoLostWakeup'
  BY DEF HandoffInv, TypeOK, BufferOwnership, NoLostWakeup, Using, Bufs,
         WaitForFrame, bufVars, sendVars
<1> QED
  BY <1>1, <1>2, <1>3 DEF HandoffInv

LEMMA SpuriousWakeupInv == HandoffInv /\ SpuriousWakeup => HandoffInv'
<1> SUFFICES ASSUME HandoffInv, SpuriousWakeup PROVE HandoffInv'
  OBVIOUS
<1>1. TypeOK'
  BY DEF HandoffInv, TypeOK, BufferOwnership, NoLostWakeup, Using, Reading,
         Pixels, Bufs, Stores, SpuriousWakeup, sceneVars, bufVars, stagingVars, sendVars,
         linkVars
<1>2. BufferOwnership'
  BY DEF HandoffInv, TypeOK, BufferOwnership, NoLostWakeup, Using, Reading, Bufs,
         Stores, SpuriousWakeup, bufVars, sendVars
<1>3. NoLostWakeup'
  BY DEF HandoffInv, TypeOK, BufferOwnership, NoLostWakeup, Using, Bufs,
         SpuriousWakeup, bufVars, sendVars
<1> QED
  BY <1>1, <1>2, <1>3 DEF HandoffInv

LEMMA LatchBufferInv == HandoffInv /\ LatchBuffer => HandoffInv'
<1> SUFFICES ASSUME HandoffInv, LatchBuffer PROVE HandoffInv'
  OBVIOUS
<1>1. TypeOK'
  BY DEF HandoffInv, TypeOK, BufferOwnership, NoLostWakeup, Using, Reading,
         Pixels, Bufs, Stores, LatchBuffer, sceneVars, bufVars, stagingVars, sendVars,
         linkVars
<1>2. BufferOwnership'
  BY DEF HandoffInv, TypeOK, BufferOwnership, NoLostWakeup, Using, Reading, Bufs,
         Stores, LatchBuffer, bufVars, sendVars
<1>3. NoLostWakeup'
  BY DEF HandoffInv, TypeOK, BufferOwnership, NoLostWakeup, Using, Bufs,
         LatchBuffer, bufVars, sendVars
<1> QED
  BY <1>1, <1>2, <1>3 DEF HandoffInv

LEMMA StopOnBrokenInv == HandoffInv /\ StopOnBroken => HandoffInv'
<1> SUFFICES ASSUME HandoffInv, StopOnBroken PROVE HandoffInv'
  OBVIOUS
<1>1. TypeOK'
  <2>1. running' \in BOOLEAN /\ do_full' \in BOOLEAN
    BY Zenon DEF HandoffInv, TypeOK, StopOnBroken, SendLocalsEnd
  <2> QED
    BY <2>1 DEF HandoffInv, TypeOK, BufferOwnership, NoLostWakeup, Using, Reading,
         Pixels, Bufs, Stores, StopOnBroken, SendLocalsEnd, sceneVars, bufVars, stagingVars, sendVars,
         linkVars
<1>2. BufferOwnership'
  BY DEF HandoffInv, TypeOK, BufferOwnership, NoLostWakeup, Using, Reading, Bufs,
         Stores, StopOnBroken, SendLocalsEnd, bufVars, sendVars
<1>3. NoLostWakeup'
  BY DEF HandoffInv, TypeOK, BufferOwnership, NoLostWakeup, Using, Bufs,
         StopOnBroken, SendLocalsEnd, bufVars, sendVars
<1> QED
  BY <1>1, <1>2, <1>3 DEF HandoffInv

LEMMA CheckForceInv == HandoffInv /\ CheckForce => HandoffInv'
<1> SUFFICES ASSUME HandoffInv, CheckForce PROVE HandoffInv'
  OBVIOUS
<1>1. TypeOK'
  BY DEF HandoffInv, TypeOK, BufferOwnership, NoLostWakeup, Using, Reading,
         Pixels, Bufs, Stores, CheckForce, sceneVars, bufVars, stagingVars, sendVars,
         linkVars
<1>2. BufferOwnership'
  BY DEF HandoffInv, TypeOK, BufferOwnership, NoLostWakeup, Using, Reading, Bufs,
         Stores, CheckForce, bufVars, sendVars
<1>3. NoLostWakeup'
  BY DEF HandoffInv, TypeOK, BufferOwnership, NoLostWakeup, Using, Bufs,
         CheckForce, bufVars, sendVars
<1> QED
  BY <1>1, <1>2, <1>3 DEF HandoffInv

LEMMA ClearForceInv == HandoffInv /\ ClearForce => HandoffInv'
<1> SUFFICES ASSUME HandoffInv, ClearForce PROVE HandoffInv'
  OBVIOUS
<1>1. TypeOK'
  <2>1. do_full' \in BOOLEAN /\ force_full_frame' \in BOOLEAN
    BY Zenon DEF HandoffInv, TypeOK, ClearForce
  <2> QED
    BY <2>1 DEF HandoffInv, TypeOK, BufferOwnership, NoLostWakeup, Using, Reading,
         Pixels, Bufs, Stores, ClearForce, sceneVars, bufVars, stagingVars, sendVars,
         linkVars
<1>2. BufferOwnership'
  BY DEF HandoffInv, TypeOK, BufferOwnership, NoLostWakeup, Using, Reading, Bufs,
         Stores, ClearForce, bufVars, sendVars
<1>3. NoLostWakeup'
  BY DEF HandoffInv, TypeOK, BufferOwnership, NoLostWakeup, Using, Bufs,
         ClearForce, bufVars, sendVars
<1> QED
  BY <1>1, <1>2, <1>3 DEF HandoffInv

LEMMA CompareTilesInv == HandoffInv /\ CompareTiles => HandoffInv'
<1> SUFFICES ASSUME HandoffInv, CompareTiles PROVE HandoffInv'
  OBVIOUS
<1>1. TypeOK'
  <2>1. prev_framebuf' \in Pixels
    <3>1. \A d \in PaysOff(content[send_ptr]) : Scrolled(d) \in Pixels
      BY TilesAssumption, ShiftsAssumption
      DEF HandoffInv, TypeOK, Pixels, PaysOff, Scrolled, DeadBeef
    <3> QED
      BY <3>1 DEF CompareTiles, ByDirtyMap, HandoffInv, TypeOK
  <2>2. work' \in SUBSET Tiles
    BY DEF CompareTiles, ByDirtyMap, Differing
  <2>3. s_pc' = "throttle"
    BY DEF CompareTiles, ByDirtyMap
  <2> QED
    BY <2>1, <2>2, <2>3 DEF HandoffInv, TypeOK, CompareTiles, ByDirtyMap, sceneVars, bufVars,
                            stagingVars, linkVars
<1>2. BufferOwnership'
  BY DEF HandoffInv, TypeOK, BufferOwnership, NoLostWakeup, Using, Reading, Bufs,
         Stores, CompareTiles, ByDirtyMap, bufVars, sendVars
<1>3. NoLostWakeup'
  BY DEF HandoffInv, TypeOK, BufferOwnership, NoLostWakeup, Using, Bufs,
         CompareTiles, ByDirtyMap, bufVars, sendVars
<1> QED
  BY <1>1, <1>2, <1>3 DEF HandoffInv

LEMMA ThrottleReturnsInv == HandoffInv /\ ThrottleReturns => HandoffInv'
<1> SUFFICES ASSUME HandoffInv, ThrottleReturns PROVE HandoffInv'
  OBVIOUS
<1>1. TypeOK'
  BY DEF HandoffInv, TypeOK, BufferOwnership, NoLostWakeup, Using, Reading,
         Pixels, Bufs, Stores, ThrottleReturns, sceneVars, bufVars, stagingVars, sendVars,
         linkVars
<1>2. BufferOwnership'
  BY DEF HandoffInv, TypeOK, BufferOwnership, NoLostWakeup, Using, Reading, Bufs,
         Stores, ThrottleReturns, bufVars, sendVars
<1>3. NoLostWakeup'
  BY DEF HandoffInv, TypeOK, BufferOwnership, NoLostWakeup, Using, Bufs,
         ThrottleReturns, bufVars, sendVars
<1> QED
  BY <1>1, <1>2, <1>3 DEF HandoffInv

(* What either outcome of a tile does: it leaves the list and is remembered. *)
LEMMA TileSteps ==
    ASSUME HandoffInv, StreamTile \/ LoseTile
    PROVE  /\ s_pc = "stream" /\ content[send_ptr] \in Pixels
           /\ UNCHANGED <<scene, damage, frame_event, idle_frame, commits,
                          scene_dirty, force_full_frame, send_full, bufVars,
                          running, m_pc, stagingVars, s_pc, cur, send_ptr, do_full,
                          peer, broken>>
           /\ \E t \in work :
                 /\ prev_framebuf' =
                       [prev_framebuf EXCEPT ![t] = content[send_ptr][t]]
                 /\ work' = work \ {t}
                 /\ \/ viewer' = viewer /\ ~viewerUp /\ lost' = lost \ {t}
                    \/ /\ viewer' = [viewer EXCEPT ![t] = content[send_ptr][t]]
                       /\ lost' = lost \ {t}
                    \/ viewer' = viewer /\ lost' = lost \cup {t}
<1>1. s_pc = "stream"
  BY DEF StreamTile, LoseTile
<1>2. content[send_ptr] \in Pixels
  BY <1>1 DEF HandoffInv, TypeOK, BufferOwnership, NoLostWakeup, Using, Reading, Bufs
<1> QED
  BY <1>1, <1>2 DEF StreamTile, LoseTile, sceneVars, bufVars, stagingVars

LEMMA StreamTileInv == HandoffInv /\ (StreamTile \/ LoseTile) => HandoffInv'
<1> SUFFICES ASSUME HandoffInv, StreamTile \/ LoseTile PROVE HandoffInv'
  OBVIOUS
<1> DEFINE pixels == content[send_ptr]
<1>1. PICK t \in work :
         /\ prev_framebuf' = [prev_framebuf EXCEPT ![t] = pixels[t]]
         /\ work' = work \ {t}
         /\ viewer' = viewer \/ viewer' = [viewer EXCEPT ![t] = pixels[t]]
         /\ lost' = lost \ {t} \/ lost' = lost \cup {t}
  BY TileSteps
<1>2. /\ pixels \in Pixels
      /\ UNCHANGED <<scene, damage, frame_event, idle_frame, commits, scene_dirty,
                     force_full_frame, send_full, bufVars, running, m_pc,
                     stagingVars, s_pc, cur, send_ptr, do_full, peer, broken>>
  BY TileSteps
<1>3. faults' \in Nat
  BY DEF StreamTile, LoseTile, HandoffInv, TypeOK, sceneVars
<1> HIDE DEF pixels
<1>4. TypeOK'
  <2>1. /\ viewer' \in Pixels /\ prev_framebuf' \in Pixels
        /\ work' \in SUBSET Tiles /\ lost' \in SUBSET Tiles
    BY <1>1, <1>2 DEF HandoffInv, TypeOK, Pixels
  <2> QED
    BY <1>2, <1>3, <2>1 DEF HandoffInv, TypeOK, bufVars, stagingVars
<1>5. BufferOwnership' /\ NoLostWakeup'
  BY <1>2 DEF HandoffInv, BufferOwnership, NoLostWakeup, Using, Reading, bufVars
<1> QED
  BY <1>4, <1>5 DEF HandoffInv

LEMMA ReleaseFrameInv == HandoffInv /\ ReleaseFrame => HandoffInv'
<1> SUFFICES ASSUME HandoffInv, ReleaseFrame PROVE HandoffInv'
  OBVIOUS
<1>1. TypeOK'
  <2>1. do_full' \in BOOLEAN
    BY Zenon DEF HandoffInv, TypeOK, ReleaseFrame, SendLocalsEnd
  <2> QED
    BY <2>1 DEF HandoffInv, TypeOK, BufferOwnership, NoLostWakeup, Using, Reading,
         Pixels, Bufs, Stores, ReleaseFrame, SendLocalsEnd, sceneVars, bufVars, stagingVars, sendVars,
         linkVars
<1>2. BufferOwnership'
  BY DEF HandoffInv, TypeOK, BufferOwnership, NoLostWakeup, Using, Reading, Bufs,
         Stores, ReleaseFrame, SendLocalsEnd, bufVars, sendVars
<1>3. NoLostWakeup'
  BY DEF HandoffInv, TypeOK, BufferOwnership, NoLostWakeup, Using, Bufs,
         ReleaseFrame, SendLocalsEnd, bufVars, sendVars
<1> QED
  BY <1>1, <1>2, <1>3 DEF HandoffInv

LEMMA PostConnectInv == HandoffInv /\ PostConnect => HandoffInv'
<1> SUFFICES ASSUME HandoffInv, PostConnect PROVE HandoffInv'
  OBVIOUS
<1>1. TypeOK'
  <2>1. force_full_frame' \in BOOLEAN
    BY Zenon DEF HandoffInv, TypeOK, PostConnect, Signalled
  <2> QED
    BY <2>1 DEF HandoffInv, TypeOK, BufferOwnership, NoLostWakeup, Using, Reading,
         Pixels, Bufs, Stores, PostConnect, Signalled, sceneVars, bufVars, stagingVars, sendVars,
         linkVars
<1>2. BufferOwnership'
  BY DEF HandoffInv, TypeOK, BufferOwnership, NoLostWakeup, Using, Reading, Bufs,
         Stores, PostConnect, Signalled, bufVars, sendVars
<1>3. NoLostWakeup'
  BY DEF HandoffInv, TypeOK, BufferOwnership, NoLostWakeup, Using, Bufs,
         PostConnect, Signalled, bufVars, sendVars
<1> QED
  BY <1>1, <1>2, <1>3 DEF HandoffInv

LEMMA TakeFrameInv == HandoffInv /\ TakeFrame => HandoffInv'
<1> SUFFICES ASSUME HandoffInv, TakeFrame PROVE HandoffInv'
  OBVIOUS
<1>1. TypeOK'
  <2>1. do_full' \in BOOLEAN /\ send_full' \in BOOLEAN
    BY Zenon DEF HandoffInv, TypeOK, TakeFrame
  <2> QED
    BY <2>1 DEF HandoffInv, TypeOK, BufferOwnership, NoLostWakeup, Using, Reading,
         Pixels, Bufs, Stores, TakeFrame, sceneVars, bufVars, stagingVars, sendVars,
         linkVars
<1>2. BufferOwnership'
  BY DEF HandoffInv, TypeOK, BufferOwnership, NoLostWakeup, Using, Reading, Bufs,
         Stores, TakeFrame, bufVars, sendVars
<1>3. NoLostWakeup'
  BY DEF HandoffInv, TypeOK, BufferOwnership, NoLostWakeup, Using, Bufs,
         TakeFrame, bufVars, sendVars
<1> QED
  BY <1>1, <1>2, <1>3 DEF HandoffInv

LEMMA SendFrameInv == HandoffInv /\ SendFrame => HandoffInv'
<1> SUFFICES ASSUME HandoffInv, SendFrame PROVE HandoffInv'
  OBVIOUS
<1>1. TypeOK'
  <2>1. send_full' \in BOOLEAN /\ dirty_staging_valid' \in BOOLEAN
    BY Zenon DEF HandoffInv, TypeOK, SendFrame, Signalled
  <2> QED
    BY <2>1 DEF HandoffInv, TypeOK, BufferOwnership, NoLostWakeup, Using, Reading,
         Pixels, Bufs, Stores, SendFrame, Signalled, sceneVars, bufVars, stagingVars, sendVars,
         linkVars
<1>2. BufferOwnership'
  <2> DEFINE buf == IF 0 \in FreeBufs THEN 0 ELSE 1
  <2>1. buf \in Bufs /\ buf # active_buf
    BY DEF SendFrame, FreeBufs, Bufs
  <2>2. /\ send_buf' = [send_buf EXCEPT ![buf] = framebuf]
        /\ framebuf' = send_buf[buf] /\ pending_buf' = buf
        /\ UNCHANGED <<active_buf, cur, send_ptr>>
    BY DEF SendFrame, sendVars
  <2>3. s_pc' \in Using <=> s_pc \in Using
    BY DEF SendFrame, Signalled, Using
  <2>4. s_pc' \in Reading <=> s_pc \in Reading
    BY DEF SendFrame, Signalled, Reading, Using
  <2>5. s_pc \in Reading => s_pc \in Using
    BY DEF Reading
  <2> HIDE DEF buf
  <2>6. /\ framebuf' # send_buf'[0] /\ framebuf' # send_buf'[1]
        /\ send_buf'[0] # send_buf'[1]
    BY <2>1, <2>2 DEF HandoffInv, TypeOK, BufferOwnership, Bufs
  <2>7. s_pc' \in Reading => send_ptr' = send_buf'[cur']
    BY <2>1, <2>2, <2>4, <2>5 DEF HandoffInv, TypeOK, BufferOwnership, Bufs
  <2> QED
    BY <2>1, <2>2, <2>3, <2>6, <2>7 DEF HandoffInv, BufferOwnership
<1>3. NoLostWakeup'
  BY DEF HandoffInv, TypeOK, BufferOwnership, NoLostWakeup, Using, Bufs,
         SendFrame, Signalled, bufVars, sendVars
<1> QED
  BY <1>1, <1>2, <1>3 DEF HandoffInv
(* Every step of every thread preserves the invariant. *)
LEMMA NextHandoffInv == HandoffInv /\ [Next]_vars => HandoffInv'
<1> SUFFICES ASSUME HandoffInv, [Next]_vars PROVE HandoffInv'
  OBVIOUS
<1>1. CASE ElsewhereStep
  BY <1>1, ElsewhereInv
<1>2. CASE RenderFrame \/ SendFrame \/ Shutdown
  BY <1>2, RenderFrameInv, SendFrameInv, ShutdownInv
<1>3. CASE AcceptPeer \/ StopListening \/ WaitForFrame \/ SpuriousWakeup
           \/ PostConnect
  BY <1>3, AcceptPeerInv, StopListeningInv, WaitForFrameInv, SpuriousWakeupInv,
     PostConnectInv
<1>4. CASE TakeFrame \/ LatchBuffer \/ StopOnBroken \/ CheckForce \/ ClearForce
  BY <1>4, TakeFrameInv, LatchBufferInv, StopOnBrokenInv, CheckForceInv,
     ClearForceInv
<1>5. CASE CompareTiles \/ ThrottleReturns \/ StreamTile \/ LoseTile \/ ReleaseFrame
  BY <1>5, CompareTilesInv, ThrottleReturnsInv, StreamTileInv, ReleaseFrameInv
<1>6. CASE UNCHANGED vars
  BY <1>6 DEF vars, sceneVars, bufVars, stagingVars, sendVars, linkVars,
              HandoffInv, TypeOK, BufferOwnership, NoLostWakeup, Using, Reading
<1> QED
  BY <1>1, <1>2, <1>3, <1>4, <1>5, <1>6
  DEF Next, MainStep, SendStep, Environment, ElsewhereStep

THEOREM HandoffInvariant == Spec => []HandoffInv
<1>1. Init => HandoffInv
  BY InitHandoffInv
<1>2. HandoffInv /\ [Next]_vars => HandoffInv'
  BY NextHandoffInv
<1> QED
  BY <1>1, <1>2, PTL DEF Spec

(* Every variable keeps its type, for any screen and any bounds. *)
THEOREM TypesHold == Spec => []TypeOK
<1>1. HandoffInv => TypeOK
  BY DEF HandoffInv
<1> QED
  BY <1>1, HandoffInvariant, PTL

(* The rotation of framebuf and the two send buffers never lets two threads
   hold the same pixels (output_frame, send_frame, send_thread_func). *)
THEOREM BuffersOwned == Spec => []BufferOwnership
<1>1. HandoffInv => BufferOwnership
  BY DEF HandoffInv
<1> QED
  BY <1>1, HandoffInvariant, PTL

(* The send thread never sleeps on a frame or on the order to stop, and what
   it takes is always a frame (send_thread_func, send_frame, toplevel_destroy,
   p9wl_peer_post_connect). *)
THEOREM WakeupsKept == Spec => []NoLostWakeup
<1>1. HandoffInv => NoLostWakeup
  BY DEF HandoffInv
<1> QED
  BY <1>1, HandoffInvariant, PTL

-----------------------------------------------------------------------------
(* What lies in a buffer is a frame. *)
LEMMA FrameType ==
    ASSUME TypeOK, NEW b \in Bufs
    PROVE  FrameIn(b) # <<>> /\ FrameIn(b)[1] \in Frames
BY DEF TypeOK, FrameIn, Frames, Bufs, Stores

(* The mailbox sees a step only where a buffer changes hands. *)
LEMMA StillBuffers ==
    ASSUME UNCHANGED bufVars
    PROVE  UNCHANGED <<FrameIn(pending_buf), FrameIn(active_buf)>>
BY DEF bufVars, FrameIn

(* Drawing into framebuf changes neither buffer. *)
LEMMA RenderFrameMaps ==
    HandoffInv /\ RenderFrame
        => UNCHANGED <<FrameIn(pending_buf), FrameIn(active_buf)>>
<1> SUFFICES ASSUME HandoffInv, RenderFrame
             PROVE  UNCHANGED <<FrameIn(pending_buf), FrameIn(active_buf)>>
  OBVIOUS
<1>1. UNCHANGED <<pending_buf, active_buf, send_buf, dirty_tiles, dirty_valid>>
  BY DEF RenderFrame, Copied
<1>2. \A b \in Bufs : content'[send_buf[b]] = content[send_buf[b]]
  BY DEF RenderFrame, Copied, HandoffInv, TypeOK, BufferOwnership, Bufs
<1>3. pending_buf \in {-1} \cup Bufs /\ active_buf \in {-1} \cup Bufs
  BY DEF HandoffInv, TypeOK
<1> QED
  BY <1>1, <1>2, <1>3 DEF FrameIn

LEMMA SendFramePublishes == HandoffInv /\ SendFrame => Handoff!Publish
<1> SUFFICES ASSUME HandoffInv, SendFrame PROVE Handoff!Publish
  OBVIOUS
<1> DEFINE buf == IF 0 \in FreeBufs THEN 0 ELSE 1
<1>1. buf \in Bufs /\ buf # active_buf
  BY DEF SendFrame, FreeBufs, Bufs
<1>2. /\ pending_buf' = buf
      /\ send_buf' = [send_buf EXCEPT ![buf] = framebuf]
      /\ dirty_tiles' = dirty_tiles
            \/ dirty_tiles' = [dirty_tiles EXCEPT ![buf] = dirty_staging]
      /\ dirty_valid' = [dirty_valid EXCEPT ![buf] = dirty_staging_valid]
      /\ UNCHANGED <<active_buf, content>>
  BY DEF SendFrame
<1> HIDE DEF buf
<1>3. TypeOK'
  BY SendFrameInv DEF HandoffInv
<1>4. FrameIn(pending_buf)' # <<>> /\ FrameIn(pending_buf)'[1] \in Frames
  BY <1>1, <1>2, <1>3 DEF TypeOK, FrameIn, Frames, Bufs, Stores, Pixels
<1>5. active_buf # -1 =>
         /\ send_buf'[active_buf] = send_buf[active_buf]
         /\ dirty_tiles'[active_buf] = dirty_tiles[active_buf]
         /\ dirty_valid'[active_buf] = dirty_valid[active_buf]
  BY <1>1, <1>2 DEF HandoffInv, TypeOK
<1>6. UNCHANGED FrameIn(active_buf)
  BY <1>2, <1>5 DEF FrameIn
<1> QED
  BY <1>4, <1>6 DEF Handoff!Publish

LEMMA TakeFrameTakes == HandoffInv /\ TakeFrame => Handoff!Take
<1> SUFFICES ASSUME HandoffInv, TakeFrame PROVE Handoff!Take
  OBVIOUS
<1>1. pending_buf # -1 /\ active_buf = -1
  BY DEF TakeFrame, HandoffInv, BufferOwnership, NoLostWakeup, Using
<1>2. /\ active_buf' = pending_buf /\ pending_buf' = -1
      /\ UNCHANGED <<content, send_buf, dirty_tiles, dirty_valid>>
  BY DEF TakeFrame
<1> QED
  BY <1>1, <1>2 DEF Handoff!Take, FrameIn

LEMMA ReleaseReleases ==
    HandoffInv /\ (ReleaseFrame \/ StopOnBroken) => Handoff!Release
<1> SUFFICES ASSUME HandoffInv, ReleaseFrame \/ StopOnBroken
             PROVE  Handoff!Release
  OBVIOUS
<1>1. active_buf # -1
  BY DEF ReleaseFrame, StopOnBroken, HandoffInv, BufferOwnership, NoLostWakeup,
         Using
<1>2. /\ active_buf' = -1
      /\ UNCHANGED <<pending_buf, content, send_buf, dirty_tiles, dirty_valid>>
  BY DEF ReleaseFrame, StopOnBroken
<1> QED
  BY <1>1, <1>2 DEF Handoff!Release, FrameIn

(* Everything else leaves the buffers alone. *)
LEMMA OtherSteps ==
    [Next]_vars =>
        \/ SendFrame \/ TakeFrame \/ ReleaseFrame \/ StopOnBroken \/ RenderFrame
        \/ UNCHANGED bufVars
BY DEF Next, MainStep, SendStep, Environment, vars, ClientCommit, ClientScroll,
       QuietChange, SkipFrame, BeginFrame, RenderFails, AccessFails,
       DecideToSend, DropFrame, Shutdown, JoinSendThread, AcceptPeer,
       StopListening, WaitForFrame, SpuriousWakeup, LatchBuffer, CheckForce,
       ClearForce, CompareTiles, ThrottleReturns, StreamTile, LoseTile, LoopWakes,
       PostConnect, ScheduleFrame, BreakChannel

(* The double buffer of output.c and send.c implements the mailbox: the frame
   being sent is never disturbed, each frame is taken at most once, and the one
   taken is the latest that was published. *)
THEOREM HandoffRefinesMailbox == Spec => HandoffIsMailbox
<1>1. Init => Handoff!Init
  BY DEF Init, Handoff!Init, FrameIn
<1>2. HandoffInv /\ [Next]_vars => [Handoff!Next]_(Handoff!mailboxVars)
  <2> SUFFICES ASSUME HandoffInv, [Next]_vars
               PROVE  [Handoff!Next]_(Handoff!mailboxVars)
    OBVIOUS
  <2>1. CASE SendFrame
    BY <2>1, SendFramePublishes DEF Handoff!Next
  <2>2. CASE TakeFrame
    BY <2>2, TakeFrameTakes DEF Handoff!Next
  <2>3. CASE ReleaseFrame \/ StopOnBroken
    BY <2>3, ReleaseReleases DEF Handoff!Next
  <2>4. CASE RenderFrame
    BY <2>4, RenderFrameMaps DEF Handoff!mailboxVars
  <2>5. CASE UNCHANGED bufVars
    BY <2>5, StillBuffers DEF Handoff!mailboxVars
  <2> QED
    BY <2>1, <2>2, <2>3, <2>4, <2>5, OtherSteps
<1> QED
  BY <1>1, <1>2, HandoffInvariant, PTL DEF Spec, HandoffIsMailbox, Handoff!Spec
-----------------------------------------------------------------------------
(* Why a tile that equals prev_framebuf may be left out.  A step keeps
   PrevIsViewer when it touches neither picture, withdraws no force_full_frame
   and shrinks no list of unsent tiles. *)
LEMMA PrevKept ==
    ASSUME PrevIsViewer, UNCHANGED <<viewer, prev_framebuf, lost>>,
           viewerUp' /\ ~force_full_frame' => viewerUp /\ ~force_full_frame,
           Unsent \subseteq Unsent'
    PROVE  PrevIsViewer'
BY DEF PrevIsViewer

(* The steps that touch nothing PrevIsViewer speaks of. *)
ApartStep ==
    \/ ClientCommit \/ ClientScroll \/ QuietChange \/ SkipFrame \/ BeginFrame
    \/ RenderFails \/ RenderFrame \/ AccessFails \/ DecideToSend \/ DropFrame
    \/ LoopWakes \/ JoinSendThread \/ ScheduleFrame \/ BreakChannel

LEMMA ApartKeepsPrev == PrevIsViewer /\ ApartStep => PrevIsViewer'
<1> SUFFICES ASSUME PrevIsViewer, ApartStep PROVE PrevIsViewer'
  OBVIOUS
<1>1. UNCHANGED <<viewer, prev_framebuf, lost, force_full_frame, s_pc, do_full,
                  work>>
  BY DEF ApartStep, ClientCommit, ClientScroll, QuietChange, SkipFrame,
         BeginFrame, RenderFails, RenderFrame, AccessFails, DecideToSend,
         DropFrame, LoopWakes, JoinSendThread, ScheduleFrame, BreakChannel,
         sendVars, linkVars
<1>2. viewerUp' = viewerUp
  BY DEF viewerUp, ApartStep, ClientCommit, ClientScroll, QuietChange, SkipFrame,
         BeginFrame, RenderFails, RenderFrame, AccessFails, DecideToSend,
         DropFrame, LoopWakes, JoinSendThread, ScheduleFrame, BreakChannel, linkVars
<1>3. Unsent' = Unsent
  BY <1>1 DEF Unsent
<1> QED
  BY <1>1, <1>2, <1>3, PrevKept

(* The steps of the send thread, and those that wake it, which move no pixels. *)
ControlStep ==
    \/ SendFrame \/ Shutdown \/ AcceptPeer \/ StopListening \/ WaitForFrame
    \/ SpuriousWakeup \/ LatchBuffer \/ ThrottleReturns

LEMMA ControlKeepsPrev == PrevIsViewer /\ ControlStep => PrevIsViewer'
<1> SUFFICES ASSUME PrevIsViewer, ControlStep PROVE PrevIsViewer'
  OBVIOUS
<1>1. UNCHANGED <<viewer, prev_framebuf, lost, force_full_frame, do_full, work>>
  BY DEF ControlStep, SendFrame, Shutdown, AcceptPeer, StopListening, WaitForFrame,
         SpuriousWakeup, LatchBuffer, ThrottleReturns, sendVars, linkVars
<1>2. viewerUp' => viewerUp
  BY DEF viewerUp, ControlStep, SendFrame, Shutdown, AcceptPeer, StopListening,
         WaitForFrame, SpuriousWakeup, LatchBuffer, ThrottleReturns, linkVars
<1>3. Unsent' = Unsent
  BY <1>1 DEF Unsent, ControlStep, SendFrame, Shutdown, AcceptPeer, StopListening,
         WaitForFrame, SpuriousWakeup, LatchBuffer, ThrottleReturns, Signalled
<1> QED
  BY <1>1, <1>2, <1>3, PrevKept

(* The steps that begin and end a frame. *)
FrameStep == TakeFrame \/ StopOnBroken \/ CheckForce \/ ReleaseFrame

LEMMA FrameKeepsPrev ==
    HandoffInv /\ PrevIsViewer /\ FrameStep => PrevIsViewer'
<1> SUFFICES ASSUME HandoffInv, PrevIsViewer, FrameStep PROVE PrevIsViewer'
  OBVIOUS
<1>1. /\ UNCHANGED <<viewer, prev_framebuf, lost, force_full_frame>>
      /\ viewerUp' = viewerUp
  BY DEF FrameStep, TakeFrame, StopOnBroken, CheckForce, ReleaseFrame, sendVars,
         linkVars, viewerUp
<1>2. Unsent = {}
  BY DEF Unsent, FrameStep, TakeFrame, StopOnBroken, CheckForce, ReleaseFrame
<1> QED
  BY <1>1, <1>2, PrevKept

LEMMA CompareKeepsPrev ==
    Shifts = {} /\ PrevIsViewer /\ CompareTiles => PrevIsViewer'
<1> SUFFICES ASSUME Shifts = {}, PrevIsViewer, CompareTiles PROVE PrevIsViewer'
  OBVIOUS
<1>1. UNCHANGED <<viewer, prev_framebuf, lost, force_full_frame, do_full>>
  BY DEF CompareTiles, ByDirtyMap, PaysOff, linkVars
<1>2. viewerUp' = viewerUp
  BY DEF CompareTiles, ByDirtyMap, linkVars, viewerUp
<1>3. Unsent \subseteq Unsent'
  BY <1>1 DEF CompareTiles, ByDirtyMap, PaysOff, Unsent
<1> QED
  BY <1>1, <1>2, <1>3, PrevKept

(* A tile that is sent is remembered; that is where the two pictures meet.  One
   that is remembered without being sent is lost. *)
LEMMA StreamKeepsPrev ==
    HandoffInv /\ PrevIsViewer /\ (StreamTile \/ LoseTile) => PrevIsViewer'
<1> SUFFICES ASSUME HandoffInv, PrevIsViewer, StreamTile \/ LoseTile,
                    viewerUp', ~force_full_frame',
                    NEW x \in Tiles, x \notin Unsent', x \notin lost'
             PROVE  viewer'[x] = prev_framebuf'[x]
  BY DEF PrevIsViewer
<1> DEFINE pixels == content[send_ptr]
<1>1. viewerUp /\ ~force_full_frame
  BY TileSteps DEF viewerUp
<1>2. PICK t \in work :
         /\ \/ /\ viewer' = [viewer EXCEPT ![t] = pixels[t]]
               /\ lost' = lost \ {t}
            \/ viewer' = viewer /\ lost' = lost \cup {t}
         /\ prev_framebuf' = [prev_framebuf EXCEPT ![t] = pixels[t]]
         /\ work' = work \ {t}
  BY <1>1, TileSteps
<1>3. UNCHANGED <<s_pc, do_full>> /\ s_pc = "stream"
  BY TileSteps
<1> HIDE DEF pixels
<1>4. viewer \in Pixels /\ prev_framebuf \in Pixels
  BY DEF HandoffInv, TypeOK
<1>5. CASE x = t
  BY <1>2, <1>4, <1>5 DEF Pixels
<1>6. CASE x # t
  <2>1. x \notin Unsent /\ x \notin lost
    BY <1>2, <1>3, <1>6 DEF Unsent
  <2>2. viewer[x] = prev_framebuf[x]
    BY <1>1, <2>1 DEF PrevIsViewer
  <2> QED
    BY <1>2, <1>4, <1>6, <2>2 DEF Pixels
<1> QED
  BY <1>5, <1>6

(* Taking up force_full_frame makes every tile unsent; asking for it lifts the
   claim. *)
LEMMA ForceKeepsPrev == ClearForce \/ PostConnect => PrevIsViewer'
<1>1. ClearForce => Unsent' = Tiles
  BY DEF ClearForce, Unsent
<1>2. PostConnect => force_full_frame'
  BY Zenon DEF PostConnect
<1> QED
  BY <1>1, <1>2 DEF PrevIsViewer

(* Without scroll optimisation (scroll_disabled: a fractional scale), a tile the
   send thread leaves out because it equals prev_framebuf is a tile the viewer
   already shows, for every interleaving of the connection's callback with the
   unlocked test and reset of force_full_frame.  The tiles the last compose or
   SurfaceBits failed for are the only ones for which it is not. *)
THEOREM PrevIsWhatViewerShows ==
    ASSUME Shifts = {}
    PROVE  Spec => []PrevIsViewer
<1>1. Init => PrevIsViewer
  BY DEF Init, PrevIsViewer, viewerUp
<1>2. HandoffInv /\ PrevIsViewer /\ [Next]_vars => PrevIsViewer'
  <2> SUFFICES ASSUME HandoffInv, PrevIsViewer, [Next]_vars PROVE PrevIsViewer'
    OBVIOUS
  <2>1. CASE ApartStep
    BY <2>1, ApartKeepsPrev
  <2>2. CASE ControlStep
    BY <2>2, ControlKeepsPrev
  <2>3. CASE FrameStep
    BY <2>3, FrameKeepsPrev
  <2>4. CASE CompareTiles
    BY <2>4, CompareKeepsPrev
  <2>5. CASE StreamTile \/ LoseTile
    BY <2>5, StreamKeepsPrev
  <2>6. CASE ClearForce \/ PostConnect
    BY <2>6, ForceKeepsPrev
  <2>7. CASE UNCHANGED vars
    <3>1. UNCHANGED <<viewer, prev_framebuf, lost, force_full_frame, peer, s_pc,
                      do_full, work>>
      BY <2>7 DEF vars, sendVars, linkVars
    <3> QED
      BY <3>1, PrevKept DEF viewerUp, Unsent
  <2> QED
    BY <2>1, <2>2, <2>3, <2>4, <2>5, <2>6, <2>7
    DEF Next, MainStep, SendStep, Environment, ApartStep, ControlStep, FrameStep
<1> QED
  BY <1>1, <1>2, HandoffInvariant, PTL DEF Spec
-----------------------------------------------------------------------------
(* Why a viewer never goes back in time.  The pictures on their way are in
   order: what the viewer shows, the frame being sent, the frame that waits and
   the scene, each no newer than the next, tile by tile.  The main thread puts a
   frame into the mailbox only right after it copied the scene. *)
Older(p, q) == \A t \in Tiles : p[t] <= q[t]
Picture(b) == content[send_buf[b]]

SceneIsLatest ==
    /\ \A t \in Tiles : scene[t] <= commits + 1
    /\ Older(viewer, scene)
    /\ m_pc \in {"decide", "send"} => content[framebuf] = scene

FramesInOrder ==
    /\ \A b \in Bufs : b \in {active_buf, pending_buf}
          => Older(viewer, Picture(b)) /\ Older(Picture(b), scene)
    /\ active_buf # -1 /\ pending_buf # -1
          => Older(Picture(active_buf), Picture(pending_buf))

OrderInv == SceneIsLatest /\ FramesInOrder

(* The steps that touch no picture on its way and start no frame. *)
BesideStep ==
    \/ SkipFrame \/ BeginFrame \/ RenderFails \/ DecideToSend \/ DropFrame
    \/ Shutdown \/ JoinSendThread \/ AcceptPeer \/ StopListening \/ WaitForFrame
    \/ SpuriousWakeup \/ LatchBuffer \/ CheckForce \/ ClearForce \/ CompareTiles
    \/ ThrottleReturns \/ LoseTile \/ LoopWakes \/ PostConnect \/ ScheduleFrame
    \/ BreakChannel

LEMMA BesideKeepsOrder == OrderInv /\ BesideStep => OrderInv' /\ UNCHANGED viewer
<1> SUFFICES ASSUME OrderInv, BesideStep PROVE OrderInv' /\ UNCHANGED viewer
  OBVIOUS
<1>1. UNCHANGED <<scene, commits, content, framebuf, send_buf, pending_buf,
                  active_buf, viewer>>
  BY DEF BesideStep, SkipFrame, BeginFrame, RenderFails, DecideToSend, DropFrame,
         Shutdown, JoinSendThread, AcceptPeer, StopListening, WaitForFrame,
         SpuriousWakeup, LatchBuffer, CheckForce, ClearForce, CompareTiles,
         ThrottleReturns, LoseTile, LoopWakes, PostConnect, ScheduleFrame,
         BreakChannel, sceneVars, bufVars, linkVars
<1>2. m_pc' \in {"decide", "send"} => m_pc \in {"decide", "send"}
  BY DEF BesideStep, SkipFrame, BeginFrame, RenderFails, DecideToSend, DropFrame,
         Shutdown, JoinSendThread, AcceptPeer, StopListening, WaitForFrame,
         SpuriousWakeup, LatchBuffer, CheckForce, ClearForce, CompareTiles,
         ThrottleReturns, LoseTile, LoopWakes, PostConnect, ScheduleFrame,
         BreakChannel
<1> QED
  BY <1>1, <1>2 DEF OrderInv, SceneIsLatest, FramesInOrder, Older, Picture

(* A client draws: the scene only gets newer. *)
LEMMA DrawKeepsOrder ==
    HandoffInv /\ OrderInv /\ (ClientCommit \/ QuietChange)
        => OrderInv' /\ UNCHANGED viewer
<1> SUFFICES ASSUME HandoffInv, OrderInv, ClientCommit \/ QuietChange
             PROVE  OrderInv' /\ UNCHANGED viewer
  OBVIOUS
<1>1. /\ UNCHANGED <<content, framebuf, send_buf, pending_buf, active_buf, viewer>>
      /\ m_pc' = "idle" /\ commits' = commits + 1
      /\ \E D \in SUBSET Tiles :
            scene' = [t \in Tiles |-> IF t \in D THEN commits' + 1 ELSE scene[t]]
  BY DEF ClientCommit, QuietChange, bufVars, linkVars
<1>2. commits \in Int /\ scene \in Pixels /\ scene' \in Pixels
  BY <1>1 DEF HandoffInv, TypeOK, Pixels
<1>3. \A t \in Tiles : scene[t] <= scene'[t] /\ scene'[t] <= commits' + 1
  BY <1>1, <1>2 DEF OrderInv, SceneIsLatest, Pixels
<1>4. \A p \in Pixels : Older(p, scene) => Older(p, scene')
  BY <1>2, <1>3 DEF Older, Pixels
<1>5. viewer \in Pixels /\ \A b \in Bufs : Picture(b) \in Pixels
  BY DEF HandoffInv, TypeOK, Picture
<1>6. \A b \in Bufs : Picture(b)' = Picture(b)
  BY <1>1 DEF Picture
<1>7. SceneIsLatest'
  BY <1>1, <1>3, <1>4, <1>5 DEF OrderInv, SceneIsLatest, Older
<1>8. FramesInOrder'
  BY <1>1, <1>4, <1>5, <1>6 DEF OrderInv, FramesInOrder, Older, Picture
<1> QED
  BY <1>1, <1>7, <1>8 DEF OrderInv

(* The scene is drawn into framebuf, which is no frame on its way. *)
LEMMA RenderKeepsOrder ==
    HandoffInv /\ OrderInv /\ RenderFrame => OrderInv' /\ UNCHANGED viewer
<1> SUFFICES ASSUME HandoffInv, OrderInv, RenderFrame
             PROVE  OrderInv' /\ UNCHANGED viewer
  OBVIOUS
<1>1. /\ UNCHANGED <<scene, commits, framebuf, send_buf, pending_buf, active_buf,
                     viewer>>
      /\ content' = [content EXCEPT ![framebuf] = scene]
  BY DEF RenderFrame, Copied, linkVars
<1>2. \A b \in Bufs : Picture(b)' = Picture(b)
  BY <1>1 DEF Picture, HandoffInv, TypeOK, BufferOwnership, Bufs
<1>3. content'[framebuf] = scene
  BY <1>1 DEF HandoffInv, TypeOK
<1>4. active_buf \in {-1} \cup Bufs /\ pending_buf \in {-1} \cup Bufs
  BY DEF HandoffInv, TypeOK
<1>5. SceneIsLatest'
  BY <1>1, <1>3 DEF OrderInv, SceneIsLatest, Older
<1>6. FramesInOrder'
  <2>1. \A b \in Bufs : b \in {active_buf, pending_buf}'
           => (Older(viewer, Picture(b)) /\ Older(Picture(b), scene))'
    BY <1>1, <1>2 DEF OrderInv, FramesInOrder, Older
  <2>2. active_buf # -1 /\ pending_buf # -1
           => Older(Picture(active_buf)', Picture(pending_buf)')
    <3> SUFFICES ASSUME active_buf # -1, pending_buf # -1
                 PROVE  Older(Picture(active_buf)', Picture(pending_buf)')
      OBVIOUS
    <3>1. Picture(active_buf)' = Picture(active_buf)
      BY <1>1, <1>2, <1>4 DEF Picture
    <3>2. Picture(pending_buf)' = Picture(pending_buf)
      BY <1>1, <1>2, <1>4 DEF Picture
    <3> QED
      BY <3>1, <3>2 DEF OrderInv, FramesInOrder
  <2> QED
    BY <1>1, <2>1, <2>2 DEF FramesInOrder, Older
<1> QED
  BY <1>1, <1>5, <1>6 DEF OrderInv

(* The frame put into the mailbox is the scene, newer than the one being sent. *)
LEMMA SendKeepsOrder ==
    HandoffInv /\ OrderInv /\ SendFrame => OrderInv' /\ UNCHANGED viewer
<1> SUFFICES ASSUME HandoffInv, OrderInv, SendFrame
             PROVE  OrderInv' /\ UNCHANGED viewer
  OBVIOUS
<1> DEFINE buf == IF 0 \in FreeBufs THEN 0 ELSE 1
<1>1. buf \in Bufs /\ buf # active_buf
  BY DEF SendFrame, FreeBufs, Bufs
<1>2. /\ UNCHANGED <<scene, commits, content, active_buf, viewer>>
      /\ send_buf' = [send_buf EXCEPT ![buf] = framebuf]
      /\ pending_buf' = buf /\ m_pc' = "idle" /\ m_pc = "send"
  BY DEF SendFrame, sceneVars, linkVars
<1> HIDE DEF buf
<1>3. send_buf \in [Bufs -> Stores] /\ active_buf \in {-1} \cup Bufs
  BY DEF HandoffInv, TypeOK
<1>4. content[framebuf] = scene
  BY <1>2 DEF OrderInv, SceneIsLatest
<1>5. \A b \in Bufs : b = buf => Picture(b)' = scene
  BY <1>1, <1>2, <1>3, <1>4 DEF Picture
<1>6. \A b \in Bufs : b = active_buf => Picture(b)' = Picture(b)
  BY <1>1, <1>2, <1>3 DEF Picture
<1>7. Older(scene, scene) /\ Older(viewer, scene)
  BY DEF HandoffInv, TypeOK, Pixels, Older, OrderInv, SceneIsLatest
<1>8. active_buf # -1 => /\ Older(viewer, Picture(active_buf))
                         /\ Older(Picture(active_buf), scene)
  BY <1>3 DEF OrderInv, FramesInOrder
<1>9. SceneIsLatest'
  BY <1>2 DEF OrderInv, SceneIsLatest, Older
<1>10. FramesInOrder'
  <2>1. ASSUME NEW b \in Bufs, b \in {active_buf, buf}
        PROVE  Older(viewer, Picture(b)') /\ Older(Picture(b)', scene)
    <3>1. CASE b = buf
      BY <1>5, <1>7, <3>1
    <3>2. CASE b = active_buf
      <4>1. Picture(b)' = Picture(b)
        BY <1>6, <3>2
      <4> QED
        BY <1>8, <3>2, <4>1 DEF Bufs
    <3> QED
      BY <2>1, <3>1, <3>2
  <2>2. ASSUME NEW a \in Bufs, NEW b \in Bufs, a = active_buf, b = buf
        PROVE  Older(Picture(a)', Picture(b)')
    <3>1. Picture(a)' = Picture(a) /\ Picture(b)' = scene
      BY <1>5, <1>6, <2>2
    <3> QED
      BY <1>8, <2>2, <3>1 DEF Bufs
  <2> QED
    BY <1>1, <1>2, <1>3, <2>1, <2>2 DEF FramesInOrder, Older, Picture
<1> QED
  BY <1>2, <1>9, <1>10 DEF OrderInv

(* The send thread moves the mailbox's frame into its hands, or lets go of it. *)
LEMMA TakeKeepsOrder ==
    HandoffInv /\ OrderInv /\ (TakeFrame \/ ReleaseFrame \/ StopOnBroken)
        => OrderInv' /\ UNCHANGED viewer
<1> SUFFICES ASSUME HandoffInv, OrderInv, TakeFrame \/ ReleaseFrame \/ StopOnBroken
             PROVE  OrderInv' /\ UNCHANGED viewer
  OBVIOUS
<1>1. /\ UNCHANGED <<scene, commits, content, framebuf, send_buf, viewer, m_pc>>
      /\ \/ active_buf' = pending_buf /\ pending_buf' = -1
         \/ active_buf' = -1 /\ pending_buf' = pending_buf
  BY DEF TakeFrame, ReleaseFrame, StopOnBroken, sceneVars, linkVars
<1>2. {active_buf, pending_buf}' \cap Bufs \subseteq {active_buf, pending_buf}
  BY <1>1 DEF Bufs
<1>3. SceneIsLatest'
  BY <1>1 DEF OrderInv, SceneIsLatest, Older
<1>4. FramesInOrder'
  BY <1>1, <1>2 DEF OrderInv, FramesInOrder, Older, Picture
<1> QED
  BY <1>1, <1>3, <1>4 DEF OrderInv

(* A tile is sent: it comes from the frame in hand, which is newer than what the
   viewer shows and older than whatever waits. *)
LEMMA StreamKeepsOrder ==
    HandoffInv /\ OrderInv /\ StreamTile
        => OrderInv' /\ \A t \in Tiles : viewer'[t] >= viewer[t]
<1> SUFFICES ASSUME HandoffInv, OrderInv, StreamTile
             PROVE  OrderInv' /\ \A t \in Tiles : viewer'[t] >= viewer[t]
  OBVIOUS
<1> DEFINE pixels == content[send_ptr]
<1>0. PICK x \in work :
         viewer' = viewer \/ viewer' = [viewer EXCEPT ![x] = pixels[x]]
  BY TileSteps
<1>1. /\ UNCHANGED <<scene, commits, content, framebuf, send_buf, pending_buf,
                     active_buf, m_pc>>
      /\ s_pc = "stream"
  BY TileSteps DEF bufVars
<1>2. active_buf = cur /\ active_buf \in Bufs /\ pixels = Picture(active_buf)
  BY <1>1 DEF HandoffInv, TypeOK, BufferOwnership, NoLostWakeup, Using, Reading,
              Picture
<1> HIDE DEF pixels
<1>3. /\ viewer \in Pixels /\ scene \in Pixels
      /\ \A b \in Bufs : Picture(b) \in Pixels
      /\ pending_buf \in {-1} \cup Bufs
  BY DEF HandoffInv, TypeOK, Picture
<1>4. Older(viewer, pixels) /\ Older(pixels, scene) /\ Older(viewer, scene)
  BY <1>2 DEF OrderInv, FramesInOrder, SceneIsLatest
<1>5. \A t \in Tiles : viewer'[t] \in {viewer[t], pixels[t]}
  BY <1>0, <1>3 DEF Pixels
<1>6. \A t \in Tiles : viewer'[t] >= viewer[t]
  BY <1>2, <1>3, <1>4, <1>5 DEF Older, Pixels
<1>7. \A q \in Pixels : Older(viewer, q) /\ Older(pixels, q) => Older(viewer', q)
  BY <1>5 DEF Older
<1>8. Older(pixels, pixels)
  BY <1>2, <1>3 DEF Older, Pixels
<1>9. pending_buf # -1 => /\ Older(viewer, Picture(pending_buf))
                          /\ Older(pixels, Picture(pending_buf))
  BY <1>2, <1>3 DEF OrderInv, FramesInOrder, Bufs
<1>10. SceneIsLatest'
  <2>1. Older(viewer', scene)
    BY <1>3, <1>4, <1>7
  <2> QED
    BY <1>1, <2>1 DEF OrderInv, SceneIsLatest, Older
<1>11. FramesInOrder'
  <2>1. ASSUME NEW b \in Bufs, b \in {active_buf, pending_buf}
        PROVE  Older(viewer', Picture(b))
    <3>1. CASE b = active_buf
      BY <1>2, <1>3, <1>4, <1>7, <1>8, <3>1
    <3>2. CASE b = pending_buf
      <4>1. pending_buf # -1
        BY <3>2 DEF Bufs
      <4> QED
        BY <1>3, <1>7, <1>9, <3>2, <4>1
    <3> QED
      BY <2>1, <3>1, <3>2
  <2> QED
    BY <1>1, <2>1 DEF OrderInv, FramesInOrder, Older, Picture
<1> QED
  BY <1>6, <1>10, <1>11 DEF OrderInv

LEMMA NextKeepsOrder ==
    ASSUME Shifts = {}, "data_ptr" \notin Events
    PROVE  HandoffInv /\ OrderInv /\ [Next]_vars
               => OrderInv' /\ [\A t \in Tiles : viewer'[t] >= viewer[t]]_viewer
<1> SUFFICES ASSUME HandoffInv, OrderInv, [Next]_vars
             PROVE  /\ OrderInv'
                    /\ [\A t \in Tiles : viewer'[t] >= viewer[t]]_viewer
  OBVIOUS
<1>1. CASE BesideStep
  BY <1>1, BesideKeepsOrder
<1>2. CASE ClientCommit \/ QuietChange
  BY <1>2, DrawKeepsOrder
<1>3. CASE RenderFrame
  BY <1>3, RenderKeepsOrder
<1>4. CASE SendFrame
  BY <1>4, SendKeepsOrder
<1>5. CASE TakeFrame \/ ReleaseFrame \/ StopOnBroken
  BY <1>5, TakeKeepsOrder
<1>6. CASE StreamTile
  BY <1>6, StreamKeepsOrder
<1>7. CASE UNCHANGED vars
  <2>1. UNCHANGED <<scene, commits, content, framebuf, send_buf, pending_buf,
                    active_buf, viewer, m_pc>>
    BY <1>7 DEF vars, sceneVars, bufVars, linkVars
  <2> QED
    BY <2>1 DEF OrderInv, SceneIsLatest, FramesInOrder, Older, Picture
<1>8. ~ClientScroll /\ ~AccessFails
  BY DEF ClientScroll, AccessFails
<1> QED
  BY <1>1, <1>2, <1>3, <1>4, <1>5, <1>6, <1>7, <1>8
  DEF Next, MainStep, SendStep, Environment, BesideStep

(* Although three buffers rotate and frames are replaced or dropped before they
   are sent (send_frame, send_thread_func), no tile of the viewer goes back to an
   older picture: for every screen, any number of frames and any interleaving,
   as long as no client scrolls its old pixels to another place and the rendered
   picture can be read. *)
THEOREM NoRewind ==
    ASSUME Shifts = {}, "data_ptr" \notin Events
    PROVE  Spec => ViewerNeverRewinds
<1>1. Init => OrderInv
  BY BoundsAssumption
  DEF Init, OrderInv, SceneIsLatest, FramesInOrder, Older, Unseen, Bufs
<1>2. HandoffInv /\ OrderInv /\ [Next]_vars
         => OrderInv' /\ [\A t \in Tiles : viewer'[t] >= viewer[t]]_viewer
  BY NextKeepsOrder
<1> QED
  BY <1>1, <1>2, HandoffInvariant, PTL DEF Spec, ViewerNeverRewinds
-----------------------------------------------------------------------------
(* Why the poison of a scroll never outlives its frame.  No picture that is
   drawn contains it, so a poisoned tile differs from the frame being sent and
   is on the list of tiles to send until it is sent. *)
PoisonFree(p) == \A t \in Tiles : p[t] # DeadBeef

PoisonInv ==
    /\ commits >= 0
    /\ PoisonFree(scene) /\ PoisonFree(viewer)
    /\ \A s \in Stores : PoisonFree(content[s])
    /\ \A t \in Tiles : prev_framebuf[t] = DeadBeef
          => s_pc \in {"throttle", "stream"} /\ t \in work

(* A client draws new pixels, or moves old ones. *)
LEMMA DrawKeepsPoison ==
    HandoffInv /\ PoisonInv /\ (ClientCommit \/ ClientScroll \/ QuietChange)
        => PoisonInv'
<1> SUFFICES ASSUME HandoffInv, PoisonInv,
                    ClientCommit \/ ClientScroll \/ QuietChange
             PROVE  PoisonInv'
  OBVIOUS
<1>1. /\ UNCHANGED <<content, viewer, prev_framebuf, s_pc, work>>
      /\ commits' = commits + 1
  BY DEF ClientCommit, ClientScroll, QuietChange, bufVars, sendVars, linkVars
<1>2. commits \in Nat
  BY DEF HandoffInv, TypeOK
<1>3. PoisonFree(scene')
  <2>1. CASE ClientCommit \/ QuietChange
    BY <1>1, <1>2, <2>1 DEF ClientCommit, QuietChange, PoisonInv, PoisonFree, DeadBeef
  <2>2. CASE ClientScroll
    <3>1. PICK d \in Shifts :
             scene' = [t \in Tiles |-> IF t \notin Region THEN scene[t]
                                      ELSE IF t - d \in Region THEN scene[t - d]
                                      ELSE commits' + 1]
      BY <2>2 DEF ClientScroll
    <3>2. commits' + 1 # DeadBeef
      BY <1>1, <1>2 DEF DeadBeef
    <3> QED
      BY <3>1, <3>2, TilesAssumption DEF PoisonInv, PoisonFree
  <2> QED
    BY <2>1, <2>2
<1> QED
  BY <1>1, <1>2, <1>3 DEF PoisonInv, PoisonFree

(* The scroll: what is poisoned differs from every frame, and a frame that
   scrolled ignores its dirty map. *)
LEMMA CompareKeepsPoison ==
    HandoffInv /\ PoisonInv /\ CompareTiles => PoisonInv'
<1> SUFFICES ASSUME HandoffInv, PoisonInv, CompareTiles PROVE PoisonInv'
  OBVIOUS
<1> DEFINE pixels == content[send_ptr]
<1>1. /\ UNCHANGED <<scene, viewer, content, commits>>
      /\ s_pc = "compare" /\ s_pc' = "throttle"
      /\ \/ prev_framebuf' = prev_framebuf
         \/ work' = ByDirtyMap(Differing(pixels, prev_framebuf'), TRUE)
  BY DEF CompareTiles, sceneVars, bufVars, linkVars
<1>2. PoisonFree(pixels)
  BY <1>1 DEF HandoffInv, TypeOK, BufferOwnership, NoLostWakeup, Using, Reading,
              Bufs, PoisonInv
<1>3. ASSUME NEW t \in Tiles, prev_framebuf'[t] = DeadBeef PROVE t \in work'
  <2>1. work' = ByDirtyMap(Differing(pixels, prev_framebuf'), TRUE)
    BY <1>1, <1>3 DEF PoisonInv
  <2> QED
    BY <1>2, <1>3, <2>1 DEF ByDirtyMap, Differing, PoisonFree
<1> QED
  BY <1>1, <1>3 DEF PoisonInv, PoisonFree

(* A poisoned tile that is sent gets the frame's pixels. *)
LEMMA StreamKeepsPoison ==
    HandoffInv /\ PoisonInv /\ (StreamTile \/ LoseTile) => PoisonInv'
<1> SUFFICES ASSUME HandoffInv, PoisonInv, StreamTile \/ LoseTile
             PROVE  PoisonInv'
  OBVIOUS
<1> DEFINE pixels == content[send_ptr]
<1>0. PICK x \in work :
         /\ viewer' = viewer \/ viewer' = [viewer EXCEPT ![x] = pixels[x]]
         /\ prev_framebuf' = [prev_framebuf EXCEPT ![x] = pixels[x]]
         /\ work' = work \ {x}
  BY TileSteps
<1>1. UNCHANGED <<scene, content, commits, s_pc>> /\ s_pc = "stream"
  BY TileSteps DEF bufVars
<1>2. PoisonFree(pixels)
  BY <1>1 DEF HandoffInv, TypeOK, BufferOwnership, NoLostWakeup, Using, Reading,
              Bufs, PoisonInv
<1> HIDE DEF pixels
<1>3. viewer \in Pixels /\ prev_framebuf \in Pixels
  BY DEF HandoffInv, TypeOK
<1>4. PoisonFree(viewer')
  BY <1>0, <1>1, <1>2, <1>3 DEF PoisonInv, PoisonFree, Pixels
<1>5. \A t \in Tiles : prev_framebuf'[t] = DeadBeef => t \in work'
  BY <1>0, <1>1, <1>2, <1>3 DEF PoisonInv, PoisonFree, Pixels
<1> QED
  BY <1>1, <1>4, <1>5 DEF PoisonInv, PoisonFree

(* The other steps move no pixels but those of framebuf, and end a frame only
   when the list of tiles to send is empty. *)
LEMMA OthersKeepPoison ==
    HandoffInv /\ PoisonInv /\ [Next]_vars
        => \/ ClientCommit \/ ClientScroll \/ QuietChange \/ CompareTiles
           \/ StreamTile \/ LoseTile
           \/ PoisonInv'
<1> SUFFICES ASSUME HandoffInv, PoisonInv, [Next]_vars,
                    ~ClientCommit, ~ClientScroll, ~QuietChange, ~CompareTiles,
                    ~StreamTile, ~LoseTile
             PROVE  PoisonInv'
  OBVIOUS
<1>1. UNCHANGED <<scene, viewer, commits, prev_framebuf>>
  BY DEF Next, MainStep, SendStep, Environment, vars, SkipFrame, BeginFrame,
         RenderFails, RenderFrame, AccessFails, DecideToSend, SendFrame, DropFrame,
         Shutdown, JoinSendThread, AcceptPeer, StopListening, WaitForFrame,
         SpuriousWakeup, TakeFrame, LatchBuffer, StopOnBroken, CheckForce,
         ClearForce, ThrottleReturns, ReleaseFrame, LoopWakes, PostConnect,
         ScheduleFrame, BreakChannel, sceneVars, sendVars, linkVars
<1>2. \/ content' = content
      \/ content' = [content EXCEPT ![framebuf] = scene]
  BY DEF Next, MainStep, SendStep, Environment, vars, SkipFrame, BeginFrame,
         RenderFails, RenderFrame, Copied, AccessFails, DecideToSend, SendFrame,
         DropFrame, Shutdown, JoinSendThread, AcceptPeer, StopListening,
         WaitForFrame, SpuriousWakeup, TakeFrame, LatchBuffer, StopOnBroken,
         CheckForce, ClearForce, ThrottleReturns, ReleaseFrame, LoopWakes,
         PostConnect, ScheduleFrame, BreakChannel, bufVars
<1>3. \/ work = {}
      \/ work' = work /\ (s_pc \in {"throttle", "stream"}
                             => s_pc' \in {"throttle", "stream"})
      \/ s_pc \notin {"throttle", "stream"}
  BY DEF Next, MainStep, SendStep, Environment, vars, SkipFrame, BeginFrame,
         RenderFails, RenderFrame, AccessFails, DecideToSend, SendFrame, DropFrame,
         Shutdown, JoinSendThread, AcceptPeer, StopListening, WaitForFrame,
         SpuriousWakeup, TakeFrame, LatchBuffer, StopOnBroken, CheckForce,
         ClearForce, ThrottleReturns, ReleaseFrame, LoopWakes, PostConnect,
         ScheduleFrame, BreakChannel, Signalled, sendVars
<1>4. \A s \in Stores : PoisonFree(content'[s])
  BY <1>2 DEF PoisonInv, PoisonFree, HandoffInv, TypeOK
<1> QED
  BY <1>1, <1>3, <1>4 DEF PoisonInv, PoisonFree

(* Whatever scrolls detect_scroll reports, in whatever order with the other
   threads: the strip apply_scroll_to_prevbuf poisons is sent again before the
   frame is released, and the poison itself is never sent. *)
THEOREM PoisonRepaired == Spec => []PoisonIsRepaired
<1>1. Init => PoisonInv
  BY DEF Init, PoisonInv, PoisonFree, DeadBeef, Blank, Unseen
<1>2. HandoffInv /\ PoisonInv /\ [Next]_vars => PoisonInv'
  BY DrawKeepsPoison, CompareKeepsPoison, StreamKeepsPoison, OthersKeepPoison
<1>3. PoisonInv => PoisonIsRepaired
  BY DEF PoisonInv, PoisonFree, PoisonIsRepaired, Using
<1> QED
  BY <1>1, <1>2, <1>3, HandoffInvariant, PTL DEF Spec
-----------------------------------------------------------------------------
(* Why the dirty map of a frame may stand in for a comparison, when every frame
   is sent before the next is drawn.  What a picture has and prev_framebuf has
   not is always written down somewhere: in the scene's damage, in the staged
   bitmap, in the frame's map or in the list of tiles to send. *)
NoneInUse == pending_buf = -1 /\ active_buf = -1
Drawing == {"render", "decide", "send"}
Listed == {"throttle", "stream"}

(* No frame is under way, or one is just being drawn. *)
ScreenAccounted ==
    /\ m_pc \in Drawing => NoneInUse
    /\ NoneInUse /\ m_pc \notin {"decide", "send"}
          => Differing(scene, prev_framebuf) \subseteq damage
    /\ m_pc \in {"decide", "send"} =>
          /\ damage = {} /\ dirty_staging_valid
          /\ content[framebuf] = scene
          /\ Differing(scene, prev_framebuf) \subseteq dirty_staging
    /\ m_pc = "decide" => (has_dirty <=> dirty_staging # {})

(* The frame that waits or is being sent: there is only one. *)
FrameAccounted ==
    /\ pending_buf # -1 => active_buf = -1
    /\ \A b \in Bufs : b \in {pending_buf, active_buf} =>
          /\ Differing(scene, Picture(b)) \subseteq damage
          /\ IF b = active_buf /\ s_pc \in Listed
             THEN Differing(Picture(b), prev_framebuf) \subseteq work
             ELSE /\ dirty_valid[b]
                  /\ Differing(Picture(b), prev_framebuf) \subseteq dirty_tiles[b]

AccountInv ==
    faults = 0 /\ s_pc # "stopped" => ScreenAccounted /\ FrameAccounted

(* The steps that draw nothing, move no frame and make no list. *)
IdleStep ==
    \/ SkipFrame \/ Shutdown \/ JoinSendThread \/ AcceptPeer \/ StopListening
    \/ WaitForFrame \/ SpuriousWakeup \/ LatchBuffer \/ CheckForce \/ ClearForce
    \/ ThrottleReturns \/ LoopWakes \/ PostConnect \/ ScheduleFrame
    \/ BreakChannel

LEMMA IdleKeepsAccount == AccountInv /\ IdleStep => AccountInv'
<1> SUFFICES ASSUME AccountInv, IdleStep PROVE AccountInv'
  OBVIOUS
<1>1. UNCHANGED <<scene, damage, faults, content, framebuf, send_buf, pending_buf,
                  active_buf, dirty_tiles, dirty_valid, dirty_staging,
                  dirty_staging_valid, has_dirty, prev_framebuf, work>>
  BY DEF IdleStep, SkipFrame, Shutdown, JoinSendThread, AcceptPeer, StopListening,
         WaitForFrame, SpuriousWakeup, LatchBuffer, CheckForce, ClearForce,
         ThrottleReturns, LoopWakes, PostConnect, ScheduleFrame, BreakChannel,
         sceneVars, bufVars, stagingVars, sendVars
<1>2. m_pc' = m_pc \/ {m_pc, m_pc'} \subseteq {"idle", "join", "exited"}
  BY DEF IdleStep, SkipFrame, Shutdown, JoinSendThread, AcceptPeer, StopListening,
         WaitForFrame, SpuriousWakeup, LatchBuffer, CheckForce, ClearForce,
         ThrottleReturns, LoopWakes, PostConnect, ScheduleFrame, BreakChannel
<1>3. s_pc' # "stopped" => s_pc # "stopped" /\ (s_pc' \in Listed <=> s_pc \in Listed)
  BY DEF IdleStep, SkipFrame, Shutdown, JoinSendThread, AcceptPeer, StopListening,
         WaitForFrame, SpuriousWakeup, LatchBuffer, CheckForce, ClearForce,
         ThrottleReturns, LoopWakes, PostConnect, ScheduleFrame, BreakChannel,
         Signalled, Listed
<1>4. ASSUME faults' = 0, s_pc' # "stopped" PROVE ScreenAccounted' /\ FrameAccounted'
  <2>1. ScreenAccounted /\ FrameAccounted
    BY <1>1, <1>3, <1>4 DEF AccountInv
  <2>2. ScreenAccounted'
    BY <1>1, <1>2, <2>1 DEF ScreenAccounted, NoneInUse, Drawing, Differing
  <2>3. FrameAccounted'
    BY <1>1, <1>3, <1>4, <2>1 DEF FrameAccounted, Differing, Picture
  <2> QED
    BY <2>2, <2>3
<1> QED
  BY <1>4 DEF AccountInv

(* What a client draws or moves, it damages. *)
LEMMA DrawKeepsAccount ==
    AccountInv /\ (ClientCommit \/ ClientScroll) => AccountInv'
<1> SUFFICES ASSUME AccountInv, ClientCommit \/ ClientScroll,
                    faults' = 0, s_pc' # "stopped"
             PROVE  ScreenAccounted' /\ FrameAccounted'
  BY DEF AccountInv
<1>1. /\ UNCHANGED <<content, framebuf, send_buf, pending_buf, active_buf,
                     dirty_tiles, dirty_valid, prev_framebuf, work, s_pc, faults>>
      /\ m_pc = "idle" /\ m_pc' = "idle"
  BY DEF ClientCommit, ClientScroll, bufVars, sendVars
<1>2. /\ damage \subseteq damage'
      /\ \A t \in Tiles \ damage' : scene'[t] = scene[t]
  BY DEF ClientCommit, ClientScroll
<1>3. ScreenAccounted /\ FrameAccounted
  BY <1>1 DEF AccountInv
<1>4. ASSUME NEW p, Differing(scene, p) \subseteq damage
      PROVE  Differing(scene', p) \subseteq damage'
  BY <1>2, <1>4 DEF Differing
<1>5. ScreenAccounted'
  BY <1>1, <1>3, <1>4 DEF ScreenAccounted, NoneInUse, Drawing
<1>6. FrameAccounted'
  <2>1. \A b \in Bufs : Picture(b)' = Picture(b)
    BY <1>1 DEF Picture
  <2> QED
    BY <1>1, <1>3, <1>4, <2>1 DEF FrameAccounted, Differing, Picture
<1> QED
  BY <1>5, <1>6

(* The main thread's frame: drawn only when no other is under way (SlowFrames),
   its damage staged, and given up only when nothing was damaged. *)
LEMMA MainKeepsAccount ==
    ASSUME SlowFrames, HandoffInv, AccountInv,
           BeginFrame \/ RenderFrame \/ DecideToSend \/ DropFrame
    PROVE  AccountInv'
<1> SUFFICES ASSUME faults' = 0, s_pc' # "stopped"
             PROVE  ScreenAccounted' /\ FrameAccounted'
  BY DEF AccountInv
<1>1. UNCHANGED <<scene, faults, s_pc, framebuf, send_buf, pending_buf, active_buf,
                  dirty_tiles, dirty_valid, prev_framebuf, work>>
  BY DEF BeginFrame, RenderFrame, DecideToSend, DropFrame, sceneVars, bufVars,
         sendVars
<1>2. ScreenAccounted /\ FrameAccounted
  BY <1>1 DEF AccountInv
<1>3. CASE BeginFrame
  <2>1. UNCHANGED <<damage, content>> /\ m_pc = "idle" /\ m_pc' = "render" /\ NoneInUse
    BY <1>3 DEF BeginFrame, NoneInUse, bufVars
  <2> QED
    BY <1>1, <1>2, <2>1
    DEF ScreenAccounted, FrameAccounted, NoneInUse, Drawing, Differing, Picture
<1>4. CASE RenderFrame
  <2>1. /\ m_pc = "render" /\ m_pc' = "decide" /\ damage' = {}
        /\ dirty_staging' = damage /\ content' = [content EXCEPT ![framebuf] = scene]
    BY <1>4 DEF RenderFrame, Copied
  <2>2. dirty_staging_valid' /\ (has_dirty' <=> dirty_staging' # {})
    BY <1>4, Zenon DEF RenderFrame
  <2>3. NoneInUse
    BY <1>2, <2>1 DEF ScreenAccounted, Drawing
  <2>4. content'[framebuf] = scene
    BY <2>1 DEF HandoffInv, TypeOK
  <2>5. Differing(scene, prev_framebuf) \subseteq damage
    BY <1>2, <2>1, <2>3 DEF ScreenAccounted
  <2> QED
    BY <1>1, <2>1, <2>2, <2>3, <2>4, <2>5
    DEF ScreenAccounted, FrameAccounted, NoneInUse, Drawing, Differing, Bufs
<1>5. CASE DecideToSend
  <2>1. /\ UNCHANGED <<damage, content, dirty_staging>>
        /\ m_pc = "decide" /\ m_pc' \in {"send", "idle"}
    BY <1>5 DEF DecideToSend, sceneVars, bufVars
  <2>2. UNCHANGED dirty_staging_valid /\ (m_pc' = "idle" => ~has_dirty)
    BY <1>5, Zenon DEF DecideToSend
  <2>3. NoneInUse
    BY <1>2, <2>1 DEF ScreenAccounted, Drawing
  <2>4. m_pc' = "idle" => Differing(scene, prev_framebuf) = {}
    BY <1>2, <2>1, <2>2 DEF ScreenAccounted
  <2> QED
    BY <1>1, <1>2, <2>1, <2>2, <2>3, <2>4
    DEF ScreenAccounted, FrameAccounted, NoneInUse, Drawing, Differing, Bufs
<1>6. CASE DropFrame
  <2>1. m_pc = "send" /\ FreeBufs = {}
    BY <1>6 DEF DropFrame
  <2>2. NoneInUse
    BY <1>2, <2>1 DEF ScreenAccounted, Drawing
  <2> QED
    BY <2>1, <2>2 DEF FreeBufs, NoneInUse, Bufs
<1> QED
  BY <1>3, <1>4, <1>5, <1>6

(* The staged bitmap becomes the frame's map. *)
LEMMA SendKeepsAccount == HandoffInv /\ AccountInv /\ SendFrame => AccountInv'
<1> SUFFICES ASSUME HandoffInv, AccountInv, SendFrame, faults' = 0,
                    s_pc' # "stopped"
             PROVE  ScreenAccounted' /\ FrameAccounted'
  BY DEF AccountInv
<1> DEFINE buf == IF 0 \in FreeBufs THEN 0 ELSE 1
<1>1. buf \in Bufs
  BY DEF Bufs
<1>2. /\ UNCHANGED <<scene, damage, content, active_buf, prev_framebuf, faults>>
      /\ send_buf' = [send_buf EXCEPT ![buf] = framebuf]
      /\ dirty_tiles' = IF dirty_staging_valid
                        THEN [dirty_tiles EXCEPT ![buf] = dirty_staging]
                        ELSE dirty_tiles
      /\ dirty_valid' = [dirty_valid EXCEPT ![buf] = dirty_staging_valid]
      /\ pending_buf' = buf /\ m_pc = "send" /\ m_pc' = "idle"
  BY DEF SendFrame, sceneVars, sendVars
<1> HIDE DEF buf
<1>3. s_pc # "stopped"
  BY DEF SendFrame, Signalled
<1>4. ScreenAccounted
  BY <1>2, <1>3 DEF AccountInv
<1>5. /\ active_buf = -1 /\ damage = {} /\ content[framebuf] = scene
      /\ Differing(scene, prev_framebuf) \subseteq dirty_staging
  BY <1>2, <1>4 DEF ScreenAccounted, NoneInUse, Drawing
<1>6. dirty_staging_valid
  BY <1>2, <1>4, Zenon DEF ScreenAccounted
<1>7. /\ send_buf \in [Bufs -> Stores] /\ dirty_tiles \in [Bufs -> SUBSET Tiles]
      /\ dirty_valid \in [Bufs -> BOOLEAN]
  BY DEF HandoffInv, TypeOK
<1>8. \A b \in Bufs : b = buf => /\ Picture(b)' = scene
                                 /\ dirty_tiles'[b] = dirty_staging
  BY <1>1, <1>2, <1>5, <1>6, <1>7 DEF Picture
<1>9. \A b \in Bufs : b = buf => dirty_valid'[b]
  BY <1>1, <1>2, <1>6, <1>7
<1>10. ScreenAccounted'
  BY <1>1, <1>2 DEF ScreenAccounted, NoneInUse, Drawing, Bufs
<1>11. FrameAccounted'
  <2>1. ASSUME NEW b \in Bufs, b \in {buf, active_buf}
        PROVE  /\ Differing(scene, Picture(b)') \subseteq damage
               /\ b # active_buf /\ dirty_valid'[b]
               /\ Differing(Picture(b)', prev_framebuf) \subseteq dirty_tiles'[b]
    <3>1. b = buf /\ b # active_buf
      BY <1>5, <2>1 DEF Bufs
    <3> QED
      BY <1>5, <1>8, <1>9, <3>1 DEF Differing
  <2> QED
    BY <1>2, <1>5, <2>1 DEF FrameAccounted, Differing, Picture
<1> QED
  BY <1>10, <1>11

(* The frame changes hands, and when it is let go nothing of it is left over. *)
LEMMA HandsKeepAccount ==
    HandoffInv /\ AccountInv /\ (TakeFrame \/ ReleaseFrame) => AccountInv'
<1> SUFFICES ASSUME HandoffInv, AccountInv, TakeFrame \/ ReleaseFrame, faults' = 0,
                    s_pc' # "stopped"
             PROVE  ScreenAccounted' /\ FrameAccounted'
  BY DEF AccountInv
<1>1. UNCHANGED <<scene, damage, content, framebuf, send_buf, dirty_tiles,
                  dirty_valid, prev_framebuf, faults, m_pc, dirty_staging,
                  dirty_staging_valid, has_dirty>>
  BY DEF TakeFrame, ReleaseFrame, sceneVars, stagingVars
<1>2. ScreenAccounted /\ FrameAccounted
  BY <1>1 DEF AccountInv, TakeFrame, ReleaseFrame
<1>3. pending_buf \in {-1} \cup Bufs /\ active_buf \in {-1} \cup Bufs
  BY DEF HandoffInv, TypeOK
<1>4. CASE TakeFrame
  <2>1. /\ pending_buf # -1 /\ active_buf = -1 /\ s_pc' = "latch"
        /\ active_buf' = pending_buf /\ pending_buf' = -1
    BY <1>4 DEF TakeFrame, HandoffInv, BufferOwnership, NoLostWakeup, Using
  <2> QED
    BY <1>1, <1>2, <1>3, <2>1
    DEF ScreenAccounted, FrameAccounted, NoneInUse, Drawing, Listed, Differing, Picture,
        Bufs
<1>5. CASE ReleaseFrame
  <2>1. /\ s_pc = "stream" /\ work = {} /\ active_buf' = -1
        /\ pending_buf' = pending_buf
    BY <1>5 DEF ReleaseFrame
  <2>2. active_buf \in Bufs /\ pending_buf = -1
    BY <1>2, <1>3, <2>1 DEF FrameAccounted, HandoffInv, BufferOwnership, NoLostWakeup,
                            Using
  <2>3. /\ Differing(scene, Picture(active_buf)) \subseteq damage
        /\ Differing(Picture(active_buf), prev_framebuf) = {}
    BY <1>2, <2>1, <2>2 DEF FrameAccounted, Listed
  <2>4. Differing(scene, prev_framebuf) \subseteq damage
    BY <2>3 DEF Differing
  <2>5. m_pc \notin Drawing
    BY <1>2, <2>2 DEF ScreenAccounted, NoneInUse, Bufs
  <2> QED
    BY <1>1, <2>1, <2>2, <2>4, <2>5
    DEF ScreenAccounted, FrameAccounted, NoneInUse, Drawing, Differing, Bufs
<1> QED
  BY <1>4, <1>5

(* The comparison puts every tile that differs on the list: the map leaves out
   none of them, and a frame that scrolled ignores its map. *)
LEMMA CompareKeepsAccount ==
    HandoffInv /\ AccountInv /\ CompareTiles => AccountInv'
<1> SUFFICES ASSUME HandoffInv, AccountInv, CompareTiles, faults' = 0
             PROVE  ScreenAccounted' /\ FrameAccounted'
  BY DEF AccountInv
<1> DEFINE pixels == content[send_ptr]
<1>1. /\ UNCHANGED <<scene, damage, content, framebuf, send_buf, dirty_tiles,
                     dirty_valid, pending_buf, active_buf, faults, m_pc>>
      /\ s_pc = "compare" /\ s_pc' = "throttle"
      /\ \/ work' = Tiles
         \/ /\ prev_framebuf' = prev_framebuf
            /\ work' = ByDirtyMap(Differing(pixels, prev_framebuf), FALSE)
         \/ work' = ByDirtyMap(Differing(pixels, prev_framebuf'), TRUE)
  BY DEF CompareTiles, sceneVars, bufVars
<1>2. ScreenAccounted /\ FrameAccounted
  BY <1>1 DEF AccountInv
<1>3. active_buf = cur /\ active_buf \in Bufs /\ pixels = Picture(active_buf)
  BY <1>1 DEF HandoffInv, TypeOK, BufferOwnership, NoLostWakeup, Using, Reading,
              Picture
<1>4. /\ Differing(scene, pixels) \subseteq damage
      /\ Differing(pixels, prev_framebuf) \subseteq dirty_tiles[cur]
  BY <1>1, <1>2, <1>3 DEF FrameAccounted, Listed
<1>5. Differing(pixels, prev_framebuf') \subseteq work'
  BY <1>1, <1>4 DEF ByDirtyMap, Differing
<1>6. pending_buf = -1 /\ m_pc \notin Drawing
  BY <1>2, <1>3 DEF FrameAccounted, ScreenAccounted, NoneInUse, Bufs
<1>7. ScreenAccounted'
  BY <1>1, <1>3, <1>6 DEF ScreenAccounted, NoneInUse, Drawing, Bufs
<1>8. FrameAccounted'
  BY <1>1, <1>3, <1>4, <1>5, <1>6
  DEF FrameAccounted, Differing, Picture, Listed, Bufs
<1> QED
  BY <1>7, <1>8

LEMMA StreamKeepsAccount ==
    HandoffInv /\ AccountInv /\ StreamTile => AccountInv'
<1> SUFFICES ASSUME HandoffInv, AccountInv, StreamTile, faults' = 0
             PROVE  ScreenAccounted' /\ FrameAccounted'
  BY DEF AccountInv
<1> DEFINE pixels == content[send_ptr]
<1>0. PICK x \in work :
         /\ prev_framebuf' = [prev_framebuf EXCEPT ![x] = pixels[x]]
         /\ work' = work \ {x}
  BY TileSteps
<1>1. /\ UNCHANGED <<scene, damage, content, framebuf, send_buf, dirty_tiles,
                     dirty_valid, pending_buf, active_buf, faults, m_pc, s_pc>>
      /\ s_pc = "stream"
  BY DEF StreamTile, sceneVars, bufVars
<1>2. ScreenAccounted /\ FrameAccounted
  BY <1>1 DEF AccountInv
<1>3. active_buf \in Bufs /\ pixels = Picture(active_buf)
  BY <1>1 DEF HandoffInv, TypeOK, BufferOwnership, NoLostWakeup, Using, Reading,
              Picture
<1> HIDE DEF pixels
<1>4. /\ Differing(scene, pixels) \subseteq damage
      /\ Differing(pixels, prev_framebuf) \subseteq work
  BY <1>1, <1>2, <1>3 DEF FrameAccounted, Listed
<1>5. Differing(pixels, prev_framebuf') \subseteq work'
  <2>1. prev_framebuf \in Pixels
    BY DEF HandoffInv, TypeOK
  <2> QED
    BY <1>0, <1>4, <2>1 DEF Differing, Pixels
<1>6. pending_buf = -1 /\ m_pc \notin Drawing
  BY <1>2, <1>3 DEF FrameAccounted, ScreenAccounted, NoneInUse, Bufs
<1>7. ScreenAccounted'
  BY <1>1, <1>3, <1>6 DEF ScreenAccounted, NoneInUse, Drawing, Bufs
<1>8. Picture(active_buf)' = pixels
  BY <1>1, <1>3 DEF Picture
<1>9. FrameAccounted'
  BY <1>1, <1>3, <1>4, <1>5, <1>6, <1>8
  DEF FrameAccounted, Differing, Listed, Bufs, Picture
<1> QED
  BY <1>7, <1>9

(* The faults the bound counts, and the end of the send thread, end the claim. *)
LEMMA FaultsEndAccount ==
    ASSUME HandoffInv,
           QuietChange \/ RenderFails \/ AccessFails \/ LoseTile \/ StopOnBroken
    PROVE  AccountInv'
<1>1. CASE StopOnBroken
  BY <1>1 DEF StopOnBroken, AccountInv
<1>2. CASE QuietChange \/ RenderFails \/ AccessFails \/ LoseTile
  <2>1. faults' # 0
    BY <1>2 DEF QuietChange, RenderFails, AccessFails, LoseTile, HandoffInv, TypeOK
  <2> QED
    BY <2>1 DEF AccountInv
<1> QED
  BY <1>1, <1>2

(* When each frame is sent before the next is drawn and nothing failed, the tiles
   the dirty map keeps out of the comparison are the same in the frame and in
   prev_framebuf: for every screen, scroll and number of frames.  Finding 1 is
   what happens without SlowFrames. *)
THEOREM DirtyMapsSound ==
    ASSUME SlowFrames
    PROVE  Spec => []DirtyMapSound
<1>1. Init => AccountInv
  BY DEF Init, AccountInv, ScreenAccounted, FrameAccounted, NoneInUse, Drawing,
         Differing, Bufs
<1>2. HandoffInv /\ AccountInv /\ [Next]_vars => AccountInv'
  <2> SUFFICES ASSUME HandoffInv, AccountInv, [Next]_vars PROVE AccountInv'
    OBVIOUS
  <2>1. CASE IdleStep
    BY <2>1, IdleKeepsAccount
  <2>2. CASE ClientCommit \/ ClientScroll
    BY <2>2, DrawKeepsAccount
  <2>3. CASE BeginFrame \/ RenderFrame \/ DecideToSend \/ DropFrame
    BY <2>3, MainKeepsAccount
  <2>4. CASE SendFrame \/ TakeFrame \/ ReleaseFrame
    BY <2>4, SendKeepsAccount, HandsKeepAccount
  <2>5. CASE CompareTiles \/ StreamTile
    BY <2>5, CompareKeepsAccount, StreamKeepsAccount
  <2>6. CASE QuietChange \/ RenderFails \/ AccessFails \/ LoseTile \/ StopOnBroken
    BY <2>6, FaultsEndAccount
  <2>7. CASE UNCHANGED vars
    BY <2>7 DEF vars, sceneVars, bufVars, stagingVars, sendVars, AccountInv,
                ScreenAccounted, FrameAccounted, NoneInUse, Differing, Picture
  <2> QED
    BY <2>1, <2>2, <2>3, <2>4, <2>5, <2>6, <2>7
    DEF Next, MainStep, SendStep, Environment, IdleStep
<1>3. HandoffInv /\ AccountInv => DirtyMapSound
  <2> SUFFICES ASSUME HandoffInv, AccountInv, s_pc = "compare", faults = 0
               PROVE  Differing(content[send_ptr], prev_framebuf)
                          \subseteq dirty_tiles[cur]
    BY DEF DirtyMapSound
  <2>1. cur \in Bufs /\ active_buf = cur /\ send_ptr = send_buf[cur]
    BY DEF HandoffInv, TypeOK, BufferOwnership, NoLostWakeup, Using, Reading
  <2> QED
    BY <2>1 DEF AccountInv, FrameAccounted, Listed, Picture
<1> QED
  BY <1>1, <1>2, <1>3, HandoffInvariant, PTL DEF Spec
=============================================================================
