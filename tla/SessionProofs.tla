---------------------------- MODULE SessionProofs ----------------------------
(***************************************************************************)
(* Proofs about RdpSession for every frame size, throttle and set of       *)
(* failures.  The startup and the clean-up of main around the session are  *)
(* still the session: every step main adds is a step of RdpSession or      *)
(* none.  What is proved of RdpSession therefore holds from the first line *)
(* of main to the exit, wherever a step of the setup fails.                *)
(***************************************************************************)
EXTENDS Startup, TLAPS

(* While a frame is being counted, the tiles in flight and the tiles still to
   come fit the bound together.  Once broken is seen, no tile is counted. *)
CountingInv ==
    /\ InFlightBounded
    /\ s_pc = "notify" => left > 0
    /\ s_pc = "notify" \/ (s_pc = "stream" /\ ~broken /\ instance # "freed")
          => pending + left <= MaxPending + MaxTiles

(* There is a drain thread when one was started and not joined yet; a joined one
   belongs to a peer that was accepted, so none is started again. *)
DrainInv ==
    /\ thread = "none" => d_pc = "absent"
    /\ thread = "joined" => d_pc = "exited"
    /\ thread # "none" => instance # "null"

SessionInv == TypeOK /\ CountingInv /\ DrainInv

LEMMA InitSessionInv == Init => SessionInv
<1>1. Init => running \in BOOLEAN /\ drain \in BOOLEAN /\ broken \in BOOLEAN
  BY Zenon DEF Init
<1> QED
  BY <1>1, SizesAssumption
  DEF Init, SessionInv, TypeOK, CountingInv, InFlightBounded, DrainInv

LEMMA SessionTypes == SessionInv /\ [Next]_vars => TypeOK'
<1> SUFFICES ASSUME SessionInv, [Next]_vars PROVE TypeOK'
  OBVIOUS
<1> USE SizesAssumption DEF SessionInv, CountingInv, TypeOK, sendState, linkState
<1>1. CASE ContextFails
  BY <1>1 DEF ContextFails
<1>2. CASE StartDrain
  <2>1. drain' \in BOOLEAN /\ broken' \in BOOLEAN
    BY <1>2, Zenon DEF StartDrain
  <2> QED
    BY <1>2, <2>1 DEF StartDrain
<1>3. CASE StartDrainFails
  <2>1. drain' \in BOOLEAN /\ broken' \in BOOLEAN
    BY <1>3, Zenon DEF StartDrainFails
  <2> QED
    BY <1>3, <2>1 DEF StartDrainFails
<1>4. CASE Initialize
  BY <1>4 DEF Initialize
<1>5. CASE InitializeFails
  <2>1. drain' \in BOOLEAN
    BY <1>5, Zenon DEF InitializeFails
  <2> QED
    BY <1>5, <2>1 DEF InitializeFails
<1>6. CASE UndoStart
  BY <1>6 DEF UndoStart
<1>7. CASE LeaveListening
  BY <1>7 DEF LeaveListening
<1>8. CASE NextFrame
  BY <1>8 DEF NextFrame
<1>9. CASE LeaveLoop
  BY <1>9 DEF LeaveLoop
<1>10. CASE CheckBroken
  <2>1. running' \in BOOLEAN
    BY <1>10, Zenon DEF CheckBroken
  <2> QED
    BY <1>10, <2>1 DEF CheckBroken
<1>11. CASE ThrottleLock
  BY <1>11 DEF ThrottleLock
<1>12. CASE ThrottleTest
  BY <1>12 DEF ThrottleTest
<1>13. CASE StreamTile
  BY <1>13 DEF StreamTile
<1>14. CASE Notify
  BY <1>14 DEF Notify
<1>15. CASE EndFrame
  BY <1>15 DEF EndFrame
<1>16. CASE StopDrain
  <2>1. drain' \in BOOLEAN
    BY <1>16, Zenon DEF StopDrain
  <2> QED
    BY <1>16, <2>1 DEF StopDrain
<1>17. CASE JoinDrain
  BY <1>17 DEF JoinDrain
<1>18. CASE DrainTest
  BY <1>18 DEF DrainTest
<1>19. CASE ServeEvents
  BY <1>19 DEF ServeEvents
<1>20. CASE ChannelBreaks
  <2>1. broken' \in BOOLEAN
    BY <1>20, Zenon DEF ChannelBreaks
  <2> QED
    BY <1>20, <2>1 DEF ChannelBreaks
<1>21. CASE DrainCount
  BY <1>21 DEF DrainCount
<1>22. CASE DrainBroadcast
  BY <1>22 DEF DrainBroadcast
<1>23. CASE LastToplevelDestroyed
  <2>1. running' \in BOOLEAN
    BY <1>23, Zenon DEF LastToplevelDestroyed
  <2> QED
    BY <1>23, <2>1 DEF LastToplevelDestroyed
<1>24. CASE Exit
  BY <1>24 DEF Exit
<1>26. CASE ListenerFails
  BY <1>26 DEF ListenerFails
<1>27. CASE NoWork
  BY <1>27 DEF NoWork
<1>25. CASE UNCHANGED vars
  BY <1>25 DEF vars
<1> QED
  BY <1>1, <1>2, <1>3, <1>4, <1>5, <1>6, <1>7, <1>8, <1>9, <1>10, <1>11, <1>12,
     <1>13, <1>14, <1>15, <1>16, <1>17, <1>18, <1>19, <1>20, <1>21, <1>22, <1>23, <1>24,
     <1>25, <1>26, <1>27
  DEF Next, SendStep, DrainStep, Environment

(* The sum of the tiles in flight and the tiles to come falls or stays, except
   where the throttle has just found the counter low. *)
LEMMA CountingSteps == SessionInv /\ [Next]_vars => CountingInv'
<1> SUFFICES ASSUME SessionInv, [Next]_vars PROVE CountingInv'
  OBVIOUS
<1> USE SizesAssumption
    DEF SessionInv, CountingInv, InFlightBounded, TypeOK, sendState, linkState
<1>1. CASE ContextFails
  BY <1>1 DEF ContextFails
<1>2. CASE StartDrain
  BY <1>2 DEF StartDrain
<1>3. CASE StartDrainFails
  BY <1>3 DEF StartDrainFails
<1>4. CASE Initialize
  BY <1>4 DEF Initialize
<1>5. CASE InitializeFails
  BY <1>5 DEF InitializeFails
<1>6. CASE UndoStart
  BY <1>6 DEF UndoStart
<1>7. CASE LeaveListening
  BY <1>7 DEF LeaveListening
<1>8. CASE NextFrame
  BY <1>8 DEF NextFrame
<1>9. CASE LeaveLoop
  BY <1>9 DEF LeaveLoop
<1>10. CASE CheckBroken
  BY <1>10 DEF CheckBroken
<1>11. CASE ThrottleLock
  BY <1>11 DEF ThrottleLock
<1>12. CASE ThrottleTest
  BY <1>12 DEF ThrottleTest
<1>13. CASE StreamTile
  BY <1>13 DEF StreamTile
<1>14. CASE Notify
  BY <1>14 DEF Notify
<1>15. CASE EndFrame
  BY <1>15 DEF EndFrame
<1>16. CASE StopDrain
  BY <1>16 DEF StopDrain
<1>17. CASE JoinDrain
  BY <1>17 DEF JoinDrain
<1>18. CASE DrainTest
  BY <1>18 DEF DrainTest
<1>19. CASE ServeEvents
  BY <1>19 DEF ServeEvents
<1>20. CASE ChannelBreaks
  BY <1>20 DEF ChannelBreaks
<1>21. CASE DrainCount
  BY <1>21 DEF DrainCount
<1>22. CASE DrainBroadcast
  BY <1>22 DEF DrainBroadcast
<1>23. CASE LastToplevelDestroyed
  BY <1>23 DEF LastToplevelDestroyed
<1>24. CASE Exit
  BY <1>24 DEF Exit
<1>26. CASE ListenerFails
  BY <1>26 DEF ListenerFails
<1>27. CASE NoWork
  BY <1>27 DEF NoWork
<1>25. CASE UNCHANGED vars
  BY <1>25 DEF vars
<1> QED
  BY <1>1, <1>2, <1>3, <1>4, <1>5, <1>6, <1>7, <1>8, <1>9, <1>10, <1>11, <1>12,
     <1>13, <1>14, <1>15, <1>16, <1>17, <1>18, <1>19, <1>20, <1>21, <1>22, <1>23, <1>24,
     <1>25, <1>26, <1>27
  DEF Next, SendStep, DrainStep, Environment

(* Only an accepted peer has a drain thread, and only once. *)
LEMMA DrainSteps == SessionInv /\ [Next]_vars => DrainInv'
<1> SUFFICES ASSUME SessionInv, [Next]_vars PROVE DrainInv'
  OBVIOUS
<1> USE SizesAssumption
    DEF SessionInv, DrainInv, TypeOK, sendState, linkState
<1>1. CASE ContextFails
  BY <1>1 DEF ContextFails
<1>2. CASE StartDrain
  BY <1>2 DEF StartDrain
<1>3. CASE StartDrainFails
  BY <1>3 DEF StartDrainFails
<1>4. CASE Initialize
  BY <1>4 DEF Initialize
<1>5. CASE InitializeFails
  BY <1>5 DEF InitializeFails
<1>6. CASE UndoStart
  BY <1>6 DEF UndoStart
<1>7. CASE LeaveListening
  BY <1>7 DEF LeaveListening
<1>8. CASE NextFrame
  BY <1>8 DEF NextFrame
<1>9. CASE LeaveLoop
  BY <1>9 DEF LeaveLoop
<1>10. CASE CheckBroken
  BY <1>10 DEF CheckBroken
<1>11. CASE ThrottleLock
  BY <1>11 DEF ThrottleLock
<1>12. CASE ThrottleTest
  BY <1>12 DEF ThrottleTest
<1>13. CASE StreamTile
  BY <1>13 DEF StreamTile
<1>14. CASE Notify
  BY <1>14 DEF Notify
<1>15. CASE EndFrame
  BY <1>15 DEF EndFrame
<1>16. CASE StopDrain
  BY <1>16 DEF StopDrain
<1>17. CASE JoinDrain
  BY <1>17 DEF JoinDrain
<1>18. CASE DrainTest
  BY <1>18 DEF DrainTest
<1>19. CASE ServeEvents
  BY <1>19 DEF ServeEvents
<1>20. CASE ChannelBreaks
  BY <1>20 DEF ChannelBreaks
<1>21. CASE DrainCount
  BY <1>21 DEF DrainCount
<1>22. CASE DrainBroadcast
  BY <1>22 DEF DrainBroadcast
<1>23. CASE LastToplevelDestroyed
  BY <1>23 DEF LastToplevelDestroyed
<1>24. CASE Exit
  BY <1>24 DEF Exit
<1>26. CASE ListenerFails
  BY <1>26 DEF ListenerFails
<1>27. CASE NoWork
  BY <1>27 DEF NoWork
<1>25. CASE UNCHANGED vars
  BY <1>25 DEF vars
<1> QED
  BY <1>1, <1>2, <1>3, <1>4, <1>5, <1>6, <1>7, <1>8, <1>9, <1>10, <1>11, <1>12,
     <1>13, <1>14, <1>15, <1>16, <1>17, <1>18, <1>19, <1>20, <1>21, <1>22, <1>23, <1>24,
     <1>25, <1>26, <1>27
  DEF Next, SendStep, DrainStep, Environment

THEOREM SessionInvariant == Spec => []SessionInv
<1>1. Init => SessionInv
  BY InitSessionInv
<1>2. SessionInv /\ [Next]_vars => SessionInv'
  BY SessionTypes, CountingSteps, DrainSteps DEF SessionInv
<1> QED
  BY <1>1, <1>2, PTL DEF Spec

(* The throttle bounds the tiles in flight, for every frame size and every
   interleaving of the counter's unlocked changes (rdp_drain_throttle,
   rdp_drain_notify, rdp_drain_thread_func). *)
THEOREM ThrottleBounds == Spec => []InFlightBounded
<1>1. SessionInv => InFlightBounded
  BY DEF SessionInv, CountingInv
<1> QED
  BY <1>1, SessionInvariant, PTL

-----------------------------------------------------------------------------
(* Until the send thread returns, the peer rdp_ctx points to lives exactly as
   long as its drain thread; past the listening loop there is one. *)
PeerInv ==
    /\ s_pc # "returned" => (instance = "live" <=> thread = "live")
    /\ s_pc \in Streaming \cup {"initialize", "undo"} => instance # "null"

LEMMA PeerSteps == PeerInv /\ [Next]_vars => PeerInv'
<1> SUFFICES ASSUME PeerInv, [Next]_vars PROVE PeerInv'
  OBVIOUS
<1> USE DEF PeerInv, Streaming, sendState, linkState
<1>1. CASE ContextFails
  BY <1>1 DEF ContextFails
<1>2. CASE StartDrain
  BY <1>2 DEF StartDrain
<1>3. CASE StartDrainFails
  BY <1>3 DEF StartDrainFails
<1>4. CASE Initialize
  BY <1>4 DEF Initialize
<1>5. CASE InitializeFails
  BY <1>5 DEF InitializeFails
<1>6. CASE UndoStart
  BY <1>6 DEF UndoStart
<1>7. CASE LeaveListening
  BY <1>7 DEF LeaveListening
<1>8. CASE NextFrame
  BY <1>8 DEF NextFrame
<1>9. CASE LeaveLoop
  BY <1>9 DEF LeaveLoop
<1>10. CASE CheckBroken
  BY <1>10 DEF CheckBroken
<1>11. CASE ThrottleLock
  BY <1>11 DEF ThrottleLock
<1>12. CASE ThrottleTest
  BY <1>12 DEF ThrottleTest
<1>13. CASE StreamTile
  BY <1>13 DEF StreamTile
<1>14. CASE Notify
  BY <1>14 DEF Notify
<1>15. CASE EndFrame
  BY <1>15 DEF EndFrame
<1>16. CASE StopDrain
  BY <1>16 DEF StopDrain
<1>17. CASE JoinDrain
  BY <1>17 DEF JoinDrain
<1>18. CASE DrainTest
  BY <1>18 DEF DrainTest
<1>19. CASE ServeEvents
  BY <1>19 DEF ServeEvents
<1>20. CASE ChannelBreaks
  BY <1>20 DEF ChannelBreaks
<1>21. CASE DrainCount
  BY <1>21 DEF DrainCount
<1>22. CASE DrainBroadcast
  BY <1>22 DEF DrainBroadcast
<1>23. CASE LastToplevelDestroyed
  BY <1>23 DEF LastToplevelDestroyed
<1>24. CASE Exit
  BY <1>24 DEF Exit
<1>25. CASE ListenerFails
  BY <1>25 DEF ListenerFails
<1>26. CASE NoWork
  BY <1>26 DEF NoWork
<1>27. CASE UNCHANGED vars
  BY <1>27 DEF vars
<1> QED
  BY <1>1, <1>2, <1>3, <1>4, <1>5, <1>6, <1>7, <1>8, <1>9, <1>10, <1>11, <1>12,
     <1>13, <1>14, <1>15, <1>16, <1>17, <1>18, <1>19, <1>20, <1>21, <1>22, <1>23, <1>24,
     <1>25, <1>26, <1>27
  DEF Next, SendStep, DrainStep, Environment

(* rdp_drain_stop always has a drain thread to join that was started and not
   joined before, whichever step of rdp_peer_accepted_callback failed. *)
THEOREM DrainToJoin == Spec => []LivePeerOnly
<1>1. Init => PeerInv
  BY DEF Init, PeerInv, Streaming
<1>2. PeerInv /\ [Next]_vars => PeerInv'
  BY PeerSteps
<1>3. PeerInv => LivePeerOnly
  BY DEF PeerInv, LivePeerOnly, Streaming
<1> QED
  BY <1>1, <1>2, <1>3, PTL DEF Spec

-----------------------------------------------------------------------------
(* Main's set-up and clean-up touch the session only through running and the
   join; the threads' steps are the session's own. *)
THEOREM StartupIsSession == StartupSpec => Spec
<1>1. StartupInit => Init
  BY DEF StartupInit
<1>2. [StartupNext]_allVars => [Next]_vars
  <2> SUFFICES ASSUME [StartupNext]_allVars PROVE Next \/ UNCHANGED vars
    BY DEF vars
  <2>1. CASE MainStep
    <3>1. CASE Make \/ NewOutput \/ OutputFrame \/ DestroyDisplay \/ Release
      BY <3>1 DEF Make, NewOutput, OutputFrame, DestroyDisplay, Release
    <3>2. CASE Exits \/ JoinSendThread
      BY <3>2 DEF Exits, JoinSendThread, Next
    <3>3. CASE ServerCleanup
      BY <3>3 DEF ServerCleanup, Next, Environment
    <3> QED
      BY <2>1, <3>1, <3>2, <3>3 DEF MainStep
  <2>2. CASE DoWithout \/ PrintUsage \/ MakeFails \/ PostConnect \/ ScheduleFrame
    BY <2>2 DEF DoWithout, PrintUsage, MakeFails, PostConnect, ScheduleFrame
  <2>3. CASE LastToplevelGone \/ Accept \/ Frame \/ Breaks
    BY <2>3 DEF LastToplevelGone, Accept, Frame, Breaks, Next, Environment
  <2>4. CASE SendThread \/ DrainThread
    BY <2>4 DEF SendThread, DrainThread, Next, DrainStep
  <2>5. CASE UNCHANGED allVars
    BY <2>5 DEF allVars
  <2>6. CASE LoopWakes
    BY <2>6 DEF LoopWakes
  <2> QED
    BY <2>1, <2>2, <2>3, <2>4, <2>5, <2>6 DEF StartupNext
<1> QED
  BY <1>1, <1>2, PTL DEF StartupSpec, Spec

(* Hence the throttle's bound and the thread to join, with main failing at any
   step. *)
THEOREM SessionKept == StartupSpec => []InFlightBounded /\ []LivePeerOnly
BY StartupIsSession, ThrottleBounds, DrainToJoin, PTL

(* Main is past the making of the thread only with its buffers and locks; where
   there is no send thread, it returned or never accepted a viewer. *)
BuffersInv ==
    /\ "thread" \in made => {"buffers", "locks"} \subseteq made
    /\ stage = "thread" => {"buffers", "locks"} \subseteq made
    /\ stage = "locks" => "buffers" \in made
    /\ stage = "release" => "thread" \notin made
    /\ "thread" \notin made => d_pc = "absent" \/ s_pc = "returned"

(* The order of the first steps. *)
LEMMA AfterThat ==
    ASSUME NEW r \in DOMAIN After
    PROVE  /\ After[r] = "locks" => r = "buffers"
           /\ After[r] = "thread" => r = "locks"
           /\ After[r] # "release"
BY DEF After

(* A thread that has returned does nothing more, and a drain thread is started
   only by the send thread. *)
LEMMA ThreadsEnd ==
    ASSUME SendThread \/ Accept \/ Frame \/ DrainThread \/ Breaks \/ LastToplevelGone,
           d_pc = "absent" \/ s_pc = "returned", "thread" \notin made
    PROVE  d_pc' = "absent" \/ s_pc' = "returned"
<1>1. CASE SendThread \/ Accept
  BY <1>1 DEF SendThread, Accept
<1>2. CASE Frame \/ LastToplevelGone
  BY <1>2 DEF Frame, NextFrame, LastToplevelGone, LastToplevelDestroyed, sendState,
              linkState
<1>3. CASE DrainThread \/ Breaks
  BY <1>3 DEF DrainThread, Breaks, DrainTest, DrainCount, DrainBroadcast, ServeEvents,
              ChannelBreaks, sendState
<1> QED
  BY <1>1, <1>2, <1>3

LEMMA BuffersSteps ==
    ASSUME BuffersInv, [StartupNext]_allVars PROVE BuffersInv'
<1> USE DEF BuffersInv
<1>1. CASE Make
  <2>1. stage \in DOMAIN After
    BY <1>1 DEF Make
  <2>2. /\ After[stage] = "locks" => stage = "buffers"
        /\ After[stage] = "thread" => stage = "locks"
        /\ After[stage] # "release"
    BY <2>1, AfterThat
  <2> QED
    BY <1>1, <2>2 DEF Make, vars, sendState
<1>2. CASE DoWithout
  <2>1. stage \in {"thread", "xwayland"}
    BY <1>2 DEF DoWithout, Optional
  <2>2. After[stage] \in {"display", "socket"}
    BY <2>1 DEF After
  <2> QED
    BY <1>2, <2>2 DEF DoWithout, vars, sendState
<1>3. CASE NewOutput
  BY <1>3 DEF NewOutput, After, vars, sendState
<1>4. CASE MakeFails \/ PrintUsage
  BY <1>4 DEF MakeFails, PrintUsage, vars, sendState
<1>5. CASE Exits
  BY <1>5 DEF Exits, Exit, vars, sendState
<1>6. CASE DestroyDisplay \/ Release
  BY <1>6 DEF DestroyDisplay, OfDisplay, Release, vars, sendState
<1>7. CASE ServerCleanup \/ JoinSendThread
  BY <1>7 DEF ServerCleanup, LastToplevelDestroyed, JoinSendThread, Exit, sendState
<1>8. CASE OutputFrame \/ LoopWakes \/ PostConnect \/ ScheduleFrame
  BY <1>8 DEF OutputFrame, LoopWakes, PostConnect, ScheduleFrame, vars, sendState
<1>9. CASE LastToplevelGone \/ SendThread \/ Accept \/ Frame \/ DrainThread \/ Breaks
  <2>1. UNCHANGED <<stage, made>>
    BY <1>9 DEF LastToplevelGone, SendThread, Accept, Frame, DrainThread, Breaks,
                startVars
  <2> QED
    BY <1>9, <2>1, ThreadsEnd
<1>10. CASE UNCHANGED allVars
  BY <1>10 DEF allVars, startVars, vars, sendState
<1> QED
  BY <1>1, <1>2, <1>3, <1>4, <1>5, <1>6, <1>7, <1>8, <1>9, <1>10
  DEF StartupNext, MainStep

(* What server_cleanup frees, neither the send thread nor the drain thread still
   uses: it is freed after the join, a thread is started only with its buffers
   and locks, and the send thread joins the drain thread before it returns,
   except between the accept and the streaming. *)
THEOREM BuffersKept == StartupSpec => []ReleasedAfterJoin
<1>1. StartupInit => BuffersInv
  BY DEF StartupInit, Init, BuffersInv
<1>2. BuffersInv /\ [StartupNext]_allVars => BuffersInv'
  BY BuffersSteps
<1>3. SessionInv /\ BuffersInv => ReleasedAfterJoin
  BY DEF SessionInv, TypeOK, DrainInv, BuffersInv, ReleasedAfterJoin
<1>4. StartupSpec => []SessionInv
  BY StartupIsSession, SessionInvariant, PTL
<1> QED
  BY <1>1, <1>2, <1>3, <1>4, PTL DEF StartupSpec
=============================================================================
