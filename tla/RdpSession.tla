----------------------------- MODULE RdpSession ------------------------------
(***************************************************************************)
(* The life of the one RDP connection (draw/send.c) and the end of the     *)
(* process (wayland/toplevel.c): the send thread accepts a peer, starts    *)
(* the drain thread, streams frames while a counter of tiles in flight     *)
(* throttles it, and stops; the drain thread lets the counter fall; the    *)
(* main thread joins the send thread when the last toplevel is destroyed.  *)
(* The frames themselves are FrameHandoff's; here one is only its number   *)
(* of tiles, and when the next one comes is the environment's choice.      *)
(* An action that Next does not use is a slip of the one below it: put in  *)
(* its place, it must break a property (README, Slips).                    *)
(***************************************************************************)
EXTENDS Integers

CONSTANTS
    MaxTiles,     \* the most tiles one frame sends (tiles_x * tiles_y)
    MaxPending,   \* the argument of rdp_drain_throttle, 2 in the code
    Events        \* which optional events may happen: "break" (the channel
                  \* fails), "listener" (it cannot listen, or stops to),
                  \* "context", "drain_start", "initialize" (a step of
                  \* rdp_peer_accepted_callback fails), "memory" (malloc)

ASSUME SizesAssumption == MaxTiles \in Nat /\ MaxPending \in Nat

VARIABLES
    running,      \* server.running
    m_pc,         \* the main thread
    s_pc,         \* the send thread
    left,         \* tiles of the current frame still to be sent
    instance,     \* rdp_ctx.instance: "null", "live", or "freed" and still set
    thread,       \* rdp_ctx.thread: "none", "live", "joined"
    drain,        \* rdp_ctx.running, the order to the drain thread
    d_pc,         \* the drain thread
    pending, broken

sendState == <<s_pc, left>>
linkState == <<instance, thread, drain>>
vars == <<running, m_pc, sendState, linkState, d_pc, pending, broken>>

Init == /\ running = TRUE /\ m_pc = "run"
        /\ s_pc = "listen" /\ left = 0
        /\ instance = "null" /\ thread = "none" /\ drain = FALSE
        /\ d_pc = "absent"
        /\ pending = 0 /\ broken = FALSE

-----------------------------------------------------------------------------
(* The send thread: the listening loop and rdp_peer_accepted_callback. *)

(* No listener, no port, or the wait for a peer fails: the thread is over, with
   nobody to start it again. *)
ListenerFails ==
    /\ s_pc = "listen" /\ instance = "null" /\ "listener" \in Events
    /\ s_pc' = "returned"
    /\ UNCHANGED <<running, m_pc, left, linkState, d_pc, pending, broken>>

(* No context: the callback returns FALSE and the listener goes on. *)
ContextFails ==
    /\ s_pc = "listen" /\ running /\ instance = "null" /\ "context" \in Events
    /\ s_pc' = "listened"
    /\ UNCHANGED <<running, m_pc, left, linkState, d_pc, pending, broken>>

(* rdp_drain_start resets the counters; its pthread_create starts the thread
   while the callback is still to initialise the peer. *)
StartDrain ==
    /\ s_pc = "listen" /\ running /\ instance = "null"
    /\ instance' = "live" /\ thread' = "live" /\ drain' = TRUE
    /\ d_pc' = "test"
    /\ pending' = 0 /\ broken' = FALSE
    /\ s_pc' = "initialize"
    /\ UNCHANGED <<running, m_pc, left>>

(* rdp_drain_start fails before it has a thread; the context is freed, but
   rdp_ctx still points to it. *)
StartDrainFails ==
    /\ s_pc = "listen" /\ running /\ instance = "null"
    /\ "drain_start" \in Events
    /\ instance' = "freed" /\ drain' = TRUE
    /\ pending' = 0 /\ broken' = FALSE
    /\ s_pc' = "listened"
    /\ UNCHANGED <<running, m_pc, left, thread, d_pc>>

Initialize ==
    /\ s_pc = "initialize"
    /\ s_pc' = "listened"
    /\ UNCHANGED <<running, m_pc, left, linkState, d_pc, pending, broken>>

InitializeLeavesDrain ==
    /\ s_pc = "initialize" /\ "initialize" \in Events
    /\ instance' = "freed"
    /\ s_pc' = "listened"
    /\ UNCHANGED <<running, m_pc, left, thread, drain, d_pc, pending, broken>>

(* peer->Initialize fails: the drain thread is stopped at once ... *)
InitializeFails ==
    /\ s_pc = "initialize" /\ "initialize" \in Events
    /\ drain' = FALSE
    /\ s_pc' = "undo"
    /\ UNCHANGED <<running, m_pc, left, instance, thread, d_pc, pending, broken>>

(* ... joined, and the context freed. *)
UndoStart ==
    /\ s_pc = "undo" /\ d_pc = "exited"
    /\ thread' = "joined" /\ instance' = "freed"
    /\ s_pc' = "listened"
    /\ UNCHANGED <<running, m_pc, left, drain, d_pc, pending, broken>>

(* The test of the listening loop, and the one after it. *)
LeaveListening ==
    /\ \/ s_pc = "listened"
       \/ s_pc = "listen" /\ ~running
    /\ s_pc' = IF ~running THEN "returned"
               ELSE IF instance = "null" THEN "listen" ELSE "loop"
    /\ UNCHANGED <<running, m_pc, left, linkState, d_pc, pending, broken>>

(* No memory for the lists of tiles: the drain thread is stopped again. *)
NoWork ==
    /\ s_pc = "listened" /\ running /\ instance # "null" /\ "memory" \in Events
    /\ s_pc' = "stop"
    /\ UNCHANGED <<running, m_pc, left, linkState, d_pc, pending, broken>>

-----------------------------------------------------------------------------
(* The send thread: the streaming loop. *)

(* A frame came while the thread waited (FrameHandoff's mailbox). *)
NextFrame ==
    /\ s_pc = "loop" /\ running
    /\ left' \in 0..MaxTiles
    /\ s_pc' = "check_broken"
    /\ UNCHANGED <<running, m_pc, linkState, d_pc, pending, broken>>

LeaveLoop ==
    /\ s_pc = "loop" /\ ~running
    /\ s_pc' = "stop"
    /\ UNCHANGED <<running, m_pc, left, linkState, d_pc, pending, broken>>

(* "RDP channel stream broken, shutting down": running is cleared and the main
   loop is woken by an INPUT_WAKEUP, of which it makes nothing. *)
CheckBroken ==
    /\ s_pc = "check_broken"
    /\ s_pc' = IF broken THEN "stop" ELSE "throttle"
    /\ running' = (running /\ ~broken)
    /\ UNCHANGED <<m_pc, left, linkState, d_pc, pending, broken>>

(* rdp_drain_throttle: lock, test, and wait on done_cond or return. *)
ThrottleLock ==
    /\ s_pc = "throttle"
    /\ s_pc' = "throttle_test"
    /\ UNCHANGED <<running, m_pc, left, linkState, d_pc, pending, broken>>

ThrottleTest ==
    /\ s_pc = "throttle_test"
    /\ s_pc' = IF pending > MaxPending /\ ~broken THEN "throttle_wait" ELSE "stream"
    /\ UNCHANGED <<running, m_pc, left, linkState, d_pc, pending, broken>>

(* One tile is sent; rdp_drain_notify tests broken ... (After a failed accept
   there is no codec: nothing is sent or counted.) *)
StreamTile ==
    /\ s_pc = "stream" /\ left > 0
    /\ IF broken \/ instance = "freed"
       THEN left' = left - 1 /\ UNCHANGED s_pc
       ELSE s_pc' = "notify" /\ UNCHANGED left
    /\ UNCHANGED <<running, m_pc, linkState, d_pc, pending, broken>>

(* ... and counts the tile. *)
Notify ==
    /\ s_pc = "notify"
    /\ pending' = pending + 1
    /\ left' = left - 1
    /\ s_pc' = "stream"
    /\ UNCHANGED <<running, m_pc, linkState, d_pc, broken>>

EndFrame ==
    /\ s_pc = "stream" /\ left = 0
    /\ s_pc' = "loop"
    /\ UNCHANGED <<running, m_pc, left, linkState, d_pc, pending, broken>>

StopWithoutOrder ==
    /\ s_pc = "stop"
    /\ s_pc' = "join"
    /\ UNCHANGED <<running, m_pc, left, linkState, d_pc, pending, broken>>

(* rdp_drain_stop: the order, then the join and the release of the codec.  A
   join of a thread that never was, or was joined before, is undefined: the
   model goes no further there. *)
StopDrain ==
    /\ s_pc = "stop"
    /\ drain' = FALSE
    /\ s_pc' = "join"
    /\ UNCHANGED <<running, m_pc, left, instance, thread, d_pc, pending, broken>>

DetachDrain ==
    /\ s_pc = "join" /\ thread = "live"
    /\ thread' = "joined"
    /\ s_pc' = "returned"
    /\ UNCHANGED <<running, m_pc, left, instance, drain, d_pc, pending, broken>>

JoinDrain ==
    /\ s_pc = "join" /\ thread = "live" /\ d_pc = "exited"
    /\ thread' = "joined"
    /\ s_pc' = "returned"
    /\ UNCHANGED <<running, m_pc, left, instance, drain, d_pc, pending, broken>>

-----------------------------------------------------------------------------
(* The drain thread. *)

DrainTest ==
    /\ d_pc = "test"
    /\ d_pc' = IF drain THEN "event" ELSE "exited"
    /\ UNCHANGED <<running, m_pc, sendState, linkState, pending, broken>>

(* The peer's handles are served, for at most 50 ms ... *)
ServeEvents ==
    /\ d_pc = "event"
    /\ d_pc' = "count"
    /\ UNCHANGED <<running, m_pc, sendState, linkState, pending, broken>>

(* ... or the wait fails, the descriptor check fails, the peer disconnects: the
   thread leaves, and signals no condition variable. *)
ChannelBreaks ==
    /\ d_pc = "event" /\ "break" \in Events
    /\ broken' = TRUE
    /\ d_pc' = "exited"
    /\ UNCHANGED <<running, m_pc, sendState, linkState, pending>>

(* One tile is written off per round, outside the lock ... *)
DrainCount ==
    /\ d_pc = "count"
    /\ IF pending > 0 THEN pending' = pending - 1 /\ d_pc' = "broadcast"
                      ELSE UNCHANGED pending /\ d_pc' = "test"
    /\ UNCHANGED <<running, m_pc, sendState, linkState, broken>>

AnnounceOnCond ==
    /\ d_pc = "broadcast"
    /\ s_pc # "throttle_test"
    /\ d_pc' = "test"
    /\ UNCHANGED <<running, m_pc, sendState, linkState, pending, broken>>

WakeUntested ==
    /\ d_pc = "broadcast"
    /\ s_pc # "throttle_test"
    /\ d_pc' = "test"
    /\ s_pc' = IF s_pc = "throttle_wait" THEN "stream" ELSE s_pc
    /\ UNCHANGED <<running, m_pc, left, linkState, pending, broken>>

(* ... and announced under it. *)
DrainBroadcast ==
    /\ d_pc = "broadcast"
    /\ s_pc # "throttle_test"
    /\ d_pc' = "test"
    /\ s_pc' = IF s_pc = "throttle_wait" THEN "throttle" ELSE s_pc
    /\ UNCHANGED <<running, m_pc, left, linkState, pending, broken>>

-----------------------------------------------------------------------------
(* The main thread: toplevel_destroy of the last toplevel. *)

LastToplevelDestroyed ==
    /\ m_pc = "run"
    /\ running' = FALSE
    /\ m_pc' = "join"
    /\ UNCHANGED <<sendState, linkState, d_pc, pending, broken>>

Exit ==
    /\ m_pc = "join" /\ s_pc = "returned"
    /\ m_pc' = "exited"
    /\ UNCHANGED <<running, sendState, linkState, d_pc, pending, broken>>

-----------------------------------------------------------------------------
SendStep == \/ Initialize \/ UndoStart \/ LeaveListening \/ LeaveLoop
            \/ CheckBroken \/ ThrottleLock \/ ThrottleTest \/ StreamTile
            \/ Notify \/ EndFrame \/ StopDrain \/ JoinDrain

DrainStep == DrainTest \/ ServeEvents \/ DrainCount \/ DrainBroadcast

Environment == \/ ListenerFails \/ ContextFails \/ StartDrain
               \/ StartDrainFails \/ InitializeFails \/ NoWork \/ NextFrame
               \/ ChannelBreaks \/ LastToplevelDestroyed

Next == SendStep \/ DrainStep \/ Exit \/ Environment

Spec == Init /\ [][Next]_vars

(* The threads run when they can.  DrainBroadcast competes for a mutex the send
   thread holds for one test at a time, again and again: a fair mutex lets it
   in, hence the strong fairness.  Nothing obliges a peer to connect, a client
   to draw or a toplevel to go. *)
Fairness == /\ WF_vars(SendStep) /\ WF_vars(Exit)
            /\ WF_vars(DrainStep) /\ SF_vars(DrainBroadcast)

FairSpec == Spec /\ Fairness

-----------------------------------------------------------------------------
TypeOK ==
    /\ running \in BOOLEAN /\ drain \in BOOLEAN /\ broken \in BOOLEAN
    /\ m_pc \in {"run", "join", "exited"}
    /\ s_pc \in {"listen", "initialize", "undo", "listened", "loop",
                 "check_broken", "throttle", "throttle_test", "throttle_wait",
                 "stream", "notify", "stop", "join", "returned"}
    /\ left \in 0..MaxTiles
    /\ instance \in {"null", "live", "freed"}
    /\ thread \in {"none", "live", "joined"}
    /\ d_pc \in {"absent", "test", "event", "count", "broadcast", "exited"}
    /\ pending \in Nat

(* However the counter's unlocked changes interleave with the throttle's test,
   no more tiles are ever in flight than the throttle lets pass plus one frame:
   what rdp_drain_throttle is for. *)
InFlightBounded == pending <= MaxPending + MaxTiles

(* The send thread streams only after a peer was accepted, and rdp_drain_stop
   then has a drain thread to join that was started and not joined before, unless
   a step of the accept failed and left rdp_ctx pointing to a freed context. *)
Streaming == {"loop", "check_broken", "throttle", "throttle_test",
              "throttle_wait", "stream", "notify", "stop", "join"}
LivePeerOnly ==
    s_pc \in Streaming => /\ instance # "null"
                          /\ instance = "live" <=> thread = "live"

(* rdp_drain_throttle lets the send thread go on, unless the channel breaks. *)
ThrottleEnds == s_pc = "throttle" ~> s_pc = "stream" \/ broken

(* rdp_drain_stop returns, from wherever the drain thread was. *)
StopEnds == s_pc = "stop" /\ instance = "live" ~> s_pc = "returned"

(* toplevel.c: "Exit when last toplevel is destroyed". *)
ExitsWithLastToplevel == m_pc = "join" ~> m_pc = "exited"
=============================================================================
