---------------------------- MODULE FrameHandoff -----------------------------
(***************************************************************************)
(* How a picture travels from the Wayland scene to the RDP viewer.         *)
(*                                                                         *)
(* The main thread (wayland/output.c, output_frame) renders the scene into *)
(* framebuf, notes which tiles were damaged, and hands the frame over by   *)
(* swapping framebuf with one of two send buffers (draw/send.c,            *)
(* send_frame).  The send thread (draw/send.c, send_thread_func) takes the *)
(* pending buffer, compares it with prev_framebuf and streams the tiles    *)
(* that changed.  The drain thread runs the connection callbacks.          *)
(*                                                                         *)
(* A tile's pixels are abstracted to an integer: the number of the commit  *)
(* that drew them.  The three pixel allocations that framebuf and          *)
(* send_buf[0..1] rotate through are Stores.                               *)
(*                                                                         *)
(* An operator that no action uses and that stands just before an          *)
(* operation (SignalLost before Signalled, ...) is a slip of that          *)
(* operation: put in its place, it must break a property (README, Slips).  *)
(***************************************************************************)
EXTENDS Integers, FiniteSetsExt

CONSTANTS
    Tiles,       \* 1..n, the tiles of the screen, in the order they are sent,
                 \* at most the max_tiles the list of work has room for
    Region,      \* the tiles of the scroll region, {} when scroll_disabled
    Shifts,      \* the scroll distances, in tiles, phase correlation may report
    Events,      \* which optional events may happen: the faults "build_state",
                 \* "data_ptr", "compose" and "break"; "quiet", "shutdown",
                 \* "spurious"
    SlowFrames,  \* TRUE: a frame is rendered only when no buffer is in use
    MaxCommits,  \* bound: client commits
    MaxFaults    \* bound: faults

Stores == 1..3
Bufs == 0..1
Blank == 0              \* calloc'ed pixels
Unseen == -1            \* the viewer was never sent this tile
DeadBeef == -2          \* the poison a scrolled-in strip is filled with

ASSUME TilesAssumption == Tiles \subseteq Int /\ Region \subseteq Tiles
ASSUME ShiftsAssumption == Shifts \subseteq Int
ASSUME BoundsAssumption == MaxCommits \in Nat /\ MaxFaults \in Nat
ASSUME FlagsAssumption == SlowFrames \in BOOLEAN

VARIABLES
    (* the wlroots side *)
    scene,               \* what the clients have drawn
    damage,              \* tiles wlroots will report as damaged
    frame_event,         \* main's own loop has a frame event due
    idle_frame,          \* one that another thread queued, which wakes nobody
    commits, faults,     \* counters for the bounds
    (* struct server, shared *)
    scene_dirty, force_full_frame, send_full, pending_buf, active_buf,
    framebuf, send_buf, content, dirty_tiles, dirty_valid, running,
    (* the main thread *)
    m_pc, dirty_staging, dirty_staging_valid, has_dirty,
    (* the send thread *)
    s_pc, cur, send_ptr, do_full, work, prev_framebuf,
    (* the connection *)
    peer, broken, viewer,
    lost                 \* history: tiles the viewer missed the last time

sceneVars == <<scene, damage, frame_event, idle_frame, commits, faults>>
bufVars == <<pending_buf, active_buf, framebuf, send_buf, content,
             dirty_tiles, dirty_valid>>
stagingVars == <<dirty_staging, dirty_staging_valid, has_dirty>>
sendVars == <<cur, send_ptr, do_full, work, prev_framebuf>>
linkVars == <<peer, broken, viewer, lost>>
vars == <<sceneVars, scene_dirty, force_full_frame, send_full, bufVars,
          running, m_pc, stagingVars, s_pc, sendVars, linkVars>>

(* Locals of the loop body of send_thread_func before they have a value: no
   buffer, a NULL pointer. *)
SendLocalsGone == cur = -1 /\ send_ptr = 0 /\ do_full = FALSE /\ work = {}
SendLocalsEnd == cur' = -1 /\ send_ptr' = 0 /\ do_full' = FALSE /\ work' = {}

viewerUp == peer \in {"scheduling", "connected"}

SignalLost == s_pc

(* pthread_cond_signal(&send_cond): a sleeping send thread tests again. *)
Signalled == IF s_pc = "asleep" THEN "wait" ELSE s_pc

Init ==
    /\ scene = [t \in Tiles |-> 1]
    /\ damage = Tiles /\ frame_event = TRUE /\ idle_frame = FALSE
    /\ commits = 0 /\ faults = 0
    /\ scene_dirty = FALSE /\ force_full_frame = TRUE /\ send_full = FALSE
    /\ pending_buf = -1 /\ active_buf = -1
    /\ framebuf = 1 /\ send_buf = [b \in Bufs |-> b + 2]
    /\ content = [p \in Stores |-> [t \in Tiles |-> Blank]]
    /\ dirty_tiles = [b \in Bufs |-> {}] /\ dirty_valid = [b \in Bufs |-> FALSE]
    /\ running = TRUE
    /\ m_pc = "idle"
    /\ dirty_staging = {} /\ dirty_staging_valid = FALSE /\ has_dirty = FALSE
    /\ s_pc = "listen" /\ SendLocalsGone
    /\ prev_framebuf = [t \in Tiles |-> Blank]
    /\ peer = "none" /\ broken = FALSE
    /\ viewer = [t \in Tiles |-> Unseen] /\ lost = {}

-----------------------------------------------------------------------------
(* The main thread: its event loop runs one handler at a time. *)

(* Main's own wlr_output_schedule_frame, or the frame timer a commit of the
   output starts: the event comes by itself, and takes the place of one that
   another thread queued. *)
FrameDue == frame_event' = TRUE /\ idle_frame' = FALSE

(* Back in its loop, main dispatches what was queued meanwhile. *)
LoopTurns == frame_event' = idle_frame /\ idle_frame' = FALSE

CommitUnmarked ==
    /\ m_pc = "idle" /\ commits < MaxCommits
    /\ commits' = commits + 1
    /\ \E D \in SUBSET Tiles \ {{}} :
          /\ scene' = [t \in Tiles |-> IF t \in D THEN commits' + 1 ELSE scene[t]]
          /\ damage' = damage \cup D
    /\ FrameDue
    /\ UNCHANGED <<faults, scene_dirty, force_full_frame, send_full, bufVars,
                   running, m_pc, stagingVars, s_pc, sendVars, linkVars>>

(* A client draws the tiles D; toplevel_commit, popup_commit or
   subsurface_commit marks the scene and asks for a frame. *)
ClientCommit ==
    /\ m_pc = "idle" /\ commits < MaxCommits
    /\ commits' = commits + 1
    /\ \E D \in SUBSET Tiles \ {{}} :
          /\ scene' = [t \in Tiles |-> IF t \in D THEN commits' + 1 ELSE scene[t]]
          /\ damage' = damage \cup D
    /\ scene_dirty' = TRUE /\ FrameDue
    /\ UNCHANGED <<faults, force_full_frame, send_full, bufVars, running, m_pc,
                   stagingVars, s_pc, sendVars, linkVars>>

(* A client scrolls the region: its content moves by d tiles and the strip
   that scrolls in is new. *)
ClientScroll ==
    /\ m_pc = "idle" /\ commits < MaxCommits
    /\ commits' = commits + 1
    /\ \E d \in Shifts :
          /\ scene' = [t \in Tiles |-> IF t \notin Region THEN scene[t]
                                       ELSE IF t - d \in Region THEN scene[t - d]
                                       ELSE commits' + 1]
          /\ damage' = damage \cup Region
    /\ Region # {}
    /\ scene_dirty' = TRUE /\ FrameDue
    /\ UNCHANGED <<faults, force_full_frame, send_full, bufVars, running, m_pc,
                   stagingVars, s_pc, sendVars, linkVars>>

(* A change of the scene that reaches no handler setting scene_dirty: an
   unmapping commit (toplevel_commit and popup_commit return before they set
   it), a surface destroyed with its client, a toplevel raised on focus.
   wlroots damages the output and schedules a frame by itself. *)
QuietChange ==
    /\ m_pc = "idle" /\ commits < MaxCommits /\ faults < MaxFaults
    /\ "quiet" \in Events
    /\ commits' = commits + 1 /\ faults' = faults + 1
    /\ \E D \in SUBSET Tiles \ {{}} :
          /\ scene' = [t \in Tiles |-> IF t \in D THEN commits' + 1 ELSE scene[t]]
          /\ damage' = damage \cup D
    /\ FrameDue
    /\ UNCHANGED <<scene_dirty, force_full_frame, send_full, bufVars, running,
                   m_pc, stagingVars, s_pc, sendVars, linkVars>>

(* output_frame on an idle screen: nothing to draw, no further frame event. *)
SkipFrame ==
    /\ m_pc = "idle" /\ frame_event
    /\ ~scene_dirty /\ ~force_full_frame
    /\ LoopTurns
    /\ UNCHANGED <<scene, damage, commits, faults, scene_dirty, force_full_frame,
                   send_full, bufVars, running, m_pc, stagingVars, s_pc,
                   sendVars, linkVars>>

BeginFrame ==
    /\ m_pc = "idle" /\ frame_event
    /\ scene_dirty \/ force_full_frame
    /\ SlowFrames => pending_buf = -1 /\ active_buf = -1
    /\ m_pc' = "render"
    /\ frame_event' = FALSE
    /\ scene_dirty' = FALSE
    /\ UNCHANGED <<scene, damage, idle_frame, commits, faults, force_full_frame,
                   send_full, bufVars, running, stagingVars, s_pc, sendVars,
                   linkVars>>

(* wlr_scene_output_build_state fails: the damage stays with the scene, but
   nothing was committed, so no frame event follows of itself. *)
RenderFails ==
    /\ m_pc = "render" /\ "build_state" \in Events /\ faults < MaxFaults
    /\ faults' = faults + 1
    /\ m_pc' = "idle"
    /\ LoopTurns
    /\ UNCHANGED <<scene, damage, commits, scene_dirty, force_full_frame,
                   send_full, bufVars, running, stagingVars, s_pc, sendVars,
                   linkVars>>

CopiedDamage(pixels) ==
    [t \in Tiles |-> IF t \in damage THEN scene[t] ELSE pixels[t]]

(* What framebuf holds after the copy, given what it held: all of the picture. *)
Copied(pixels) == scene

(* The frame is rendered: its damage becomes the staged tile bitmap, all of
   it is copied into framebuf, and the output is committed, which settles the
   damage and makes the backend send another frame event. *)
RenderFrame ==
    /\ m_pc = "render"
    /\ m_pc' = "decide"
    /\ dirty_staging' = damage /\ dirty_staging_valid' = TRUE
    /\ has_dirty' = (damage # {})
    /\ content' = [content EXCEPT ![framebuf] = Copied(@)]
    /\ damage' = {} /\ FrameDue
    /\ UNCHANGED <<scene, commits, faults, scene_dirty, force_full_frame,
                   send_full, pending_buf, active_buf, framebuf, send_buf,
                   dirty_tiles, dirty_valid, running, s_pc, sendVars, linkVars>>

(* The state has no buffer, or its pixels cannot be read: nothing is copied,
   nothing is staged, and the output is committed all the same. *)
AccessFails ==
    /\ m_pc = "render" /\ "data_ptr" \in Events /\ faults < MaxFaults
    /\ faults' = faults + 1
    /\ m_pc' = "decide"
    /\ dirty_staging_valid' = FALSE /\ has_dirty' = FALSE
    /\ damage' = {} /\ FrameDue
    /\ UNCHANGED <<scene, commits, scene_dirty, force_full_frame, send_full,
                   bufVars, running, dirty_staging, s_pc, sendVars, linkVars>>

DecideToSend ==
    /\ m_pc = "decide"
    /\ m_pc' = IF force_full_frame \/ has_dirty \/ ~dirty_staging_valid
               THEN "send" ELSE "idle"
    /\ has_dirty' = FALSE
    /\ UNCHANGED <<sceneVars, scene_dirty, force_full_frame, send_full, bufVars,
                   running, dirty_staging, dirty_staging_valid, s_pc, sendVars,
                   linkVars>>

NotPending == Bufs \ {pending_buf}

(* send_frame, under send_lock: the first buffer neither pending nor active. *)
FreeBufs == Bufs \ {active_buf, pending_buf}

SendFrame ==
    /\ m_pc = "send" /\ FreeBufs # {}
    /\ m_pc' = "idle"
    /\ LET buf == IF 0 \in FreeBufs THEN 0 ELSE 1 IN
          /\ send_buf' = [send_buf EXCEPT ![buf] = framebuf]
          /\ framebuf' = send_buf[buf]
          /\ dirty_tiles' = IF dirty_staging_valid
                            THEN [dirty_tiles EXCEPT ![buf] = dirty_staging]
                            ELSE dirty_tiles
          /\ dirty_valid' = [dirty_valid EXCEPT ![buf] = dirty_staging_valid]
          /\ pending_buf' = buf
    /\ dirty_staging_valid' = FALSE
    /\ send_full' = (send_full \/ force_full_frame)
    /\ s_pc' = Signalled
    /\ UNCHANGED <<sceneVars, scene_dirty, force_full_frame, active_buf, content,
                   running, dirty_staging, has_dirty, sendVars, linkVars>>

(* Both buffers are in use: the frame is dropped. *)
DropFrame ==
    /\ m_pc = "send" /\ FreeBufs = {}
    /\ m_pc' = "idle"
    /\ UNCHANGED <<sceneVars, scene_dirty, force_full_frame, send_full, bufVars,
                   running, stagingVars, s_pc, sendVars, linkVars>>

(* Something else wakes the sleeping loop: a client's request, a timer, an
   event in the input queue.  It dispatches what was queued. *)
LoopWakes ==
    /\ m_pc = "idle" /\ idle_frame
    /\ FrameDue
    /\ UNCHANGED <<scene, damage, commits, faults, scene_dirty, force_full_frame,
                   send_full, bufVars, running, m_pc, stagingVars, s_pc,
                   sendVars, linkVars>>

(* toplevel_destroy, the last toplevel: the send thread is told to stop and
   joined, then the process exits. *)
Shutdown ==
    /\ m_pc = "idle" /\ "shutdown" \in Events
    /\ m_pc' = "join"
    /\ running' = FALSE
    /\ s_pc' = Signalled
    /\ UNCHANGED <<sceneVars, scene_dirty, force_full_frame, send_full, bufVars,
                   stagingVars, sendVars, linkVars>>

JoinSendThread ==
    /\ m_pc = "join" /\ s_pc = "stopped"
    /\ m_pc' = "exited"
    /\ UNCHANGED <<sceneVars, scene_dirty, force_full_frame, send_full, bufVars,
                   running, stagingVars, s_pc, sendVars, linkVars>>

-----------------------------------------------------------------------------
(* The send thread. *)

(* The listening loop polls running and accepts the peer. *)
AcceptPeer ==
    /\ s_pc = "listen" /\ running
    /\ peer' = "handshake"
    /\ s_pc' = "accepted"
    /\ UNCHANGED <<sceneVars, scene_dirty, force_full_frame, send_full, bufVars,
                   running, m_pc, stagingVars, sendVars, broken, viewer, lost>>

StopListening ==
    /\ \/ s_pc = "listen" /\ ~running /\ s_pc' = "stopped"
       \/ s_pc = "accepted" /\ s_pc' = (IF running THEN "wait" ELSE "stopped")
    /\ UNCHANGED <<sceneVars, scene_dirty, force_full_frame, send_full, bufVars,
                   running, m_pc, stagingVars, sendVars, linkVars>>

WaitForFrameOnly ==
    /\ s_pc = "wait"
    /\ s_pc' = IF pending_buf = -1 THEN "asleep"
               ELSE IF ~running THEN "stopped" ELSE "take"
    /\ UNCHANGED <<sceneVars, scene_dirty, force_full_frame, send_full, bufVars,
                   running, m_pc, stagingVars, sendVars, linkVars>>

WaitForFrame ==
    /\ s_pc = "wait"
    /\ s_pc' = IF ~running THEN "stopped"
               ELSE IF pending_buf = -1 THEN "asleep" ELSE "take"
    /\ UNCHANGED <<sceneVars, scene_dirty, force_full_frame, send_full, bufVars,
                   running, m_pc, stagingVars, sendVars, linkVars>>

(* pthread_cond_wait may return without a signal. *)
SpuriousWakeup ==
    /\ s_pc = "asleep" /\ "spurious" \in Events
    /\ s_pc' = "wait"
    /\ UNCHANGED <<sceneVars, scene_dirty, force_full_frame, send_full, bufVars,
                   running, m_pc, stagingVars, sendVars, linkVars>>

TakeFrame ==
    /\ s_pc = "take"
    /\ s_pc' = "latch"
    /\ cur' = pending_buf
    /\ active_buf' = pending_buf /\ pending_buf' = -1
    /\ do_full' = send_full /\ send_full' = FALSE
    /\ UNCHANGED <<sceneVars, scene_dirty, force_full_frame, framebuf, send_buf,
                   content, dirty_tiles, dirty_valid, running, m_pc, stagingVars,
                   send_ptr, work, prev_framebuf, linkVars>>

(* The buffer pointer is read after the lock was released. *)
LatchBuffer ==
    /\ s_pc = "latch"
    /\ s_pc' = "check_broken"
    /\ send_ptr' = send_buf[cur]
    /\ UNCHANGED <<sceneVars, scene_dirty, force_full_frame, send_full, bufVars,
                   running, m_pc, stagingVars, cur, do_full, work,
                   prev_framebuf, linkVars>>

StopOnBroken ==
    /\ s_pc = "check_broken" /\ broken
    /\ s_pc' = "stopped"
    /\ running' = FALSE
    /\ active_buf' = -1
    /\ SendLocalsEnd
    /\ UNCHANGED <<sceneVars, scene_dirty, force_full_frame, send_full,
                   pending_buf, framebuf, send_buf, content, dirty_tiles,
                   dirty_valid, m_pc, stagingVars, prev_framebuf, linkVars>>

(* force_full_frame is read, then cleared, without the lock. *)
CheckForce ==
    /\ s_pc = "check_broken" /\ ~broken
    /\ s_pc' = IF force_full_frame THEN "clear_force" ELSE "compare"
    /\ UNCHANGED <<sceneVars, scene_dirty, force_full_frame, send_full, bufVars,
                   running, m_pc, stagingVars, sendVars, linkVars>>

ClearForce ==
    /\ s_pc = "clear_force"
    /\ s_pc' = "compare"
    /\ do_full' = TRUE
    /\ force_full_frame' = FALSE
    /\ UNCHANGED <<sceneVars, scene_dirty, send_full, bufVars, running, m_pc,
                   stagingVars, cur, send_ptr, work, prev_framebuf, linkVars>>

(* prev_framebuf after apply_scroll_to_prevbuf for the shift d: the region
   moves, the strip it uncovers is poisoned. *)
Scrolled(d) ==
    [t \in Tiles |-> IF t \notin Region THEN prev_framebuf[t]
                     ELSE IF t - d \in Region THEN prev_framebuf[t - d]
                     ELSE DeadBeef]

Differing(pixels, prev) == {t \in Tiles : pixels[t] # prev[t]}

(* detect_region_scroll: a shift is taken when encoding the region against
   the shifted picture costs no more than against the unshifted one.  Every
   tile that differs costs the same here; an uncovered one always costs. *)
ScrollPays(pixels, d) ==
    LET without == Differing(pixels, prev_framebuf) \cap Region
        with == Differing(pixels, Scrolled(d)) \cap Region
    IN  /\ without # {}
        /\ Cardinality(with) <= Cardinality(without)

PaysOff(pixels) == {d \in Shifts : Region # {} /\ ScrollPays(pixels, d)}

InMap(tiles, scrolled) ==
    {t \in tiles : dirty_valid[cur] => t \in dirty_tiles[cur]}

(* The tiles the dirty map of the frame lets through; a frame that scrolled
   prev_framebuf has no use for its map. *)
ByDirtyMap(tiles, scrolled) ==
    {t \in tiles : dirty_valid[cur] /\ ~scrolled => t \in dirty_tiles[cur]}

(* The scroll search, then the list of tiles to send.  The list has places for
   a screen of 4096 by 4096 pixels, and Tiles for no larger one: of a larger
   screen the code leaves the last tiles out. *)
CompareTiles ==
    /\ s_pc = "compare"
    /\ s_pc' = "throttle"
    /\ LET pixels == content[send_ptr] IN
       \/ /\ do_full
          /\ UNCHANGED prev_framebuf
          /\ work' = Tiles
       \/ /\ ~do_full
          /\ UNCHANGED prev_framebuf
          /\ work' = ByDirtyMap(Differing(pixels, prev_framebuf), FALSE)
       \/ /\ ~do_full
          /\ \E d \in PaysOff(pixels) : prev_framebuf' = Scrolled(d)
          /\ work' = ByDirtyMap(Differing(pixels, prev_framebuf'), TRUE)
    /\ UNCHANGED <<sceneVars, scene_dirty, force_full_frame, send_full, bufVars,
                   running, m_pc, stagingVars, cur, send_ptr, do_full, linkVars>>

(* rdp_drain_throttle; module RdpSession has its inside. *)
ThrottleReturns ==
    /\ s_pc = "throttle"
    /\ s_pc' = "stream"
    /\ UNCHANGED <<sceneVars, scene_dirty, force_full_frame, send_full, bufVars,
                   running, m_pc, stagingVars, sendVars, linkVars>>

Foremost(t) == \A u \in work : t <= u

StreamTileForgetting ==
    /\ s_pc = "stream"
    /\ \E t \in work :
          /\ Foremost(t)
          /\ viewer' = IF viewerUp
                       THEN [viewer EXCEPT ![t] = content[send_ptr][t]]
                       ELSE viewer
          /\ work' = work \ {t} /\ lost' = lost \ {t}
    /\ UNCHANGED <<sceneVars, scene_dirty, force_full_frame, send_full, bufVars,
                   running, m_pc, stagingVars, s_pc, cur, send_ptr, do_full,
                   prev_framebuf, peer, broken>>

(* One tile is encoded, sent and remembered. *)
StreamTile ==
    /\ s_pc = "stream"
    /\ \E t \in work :
          /\ Foremost(t)
          /\ viewer' = IF viewerUp
                       THEN [viewer EXCEPT ![t] = content[send_ptr][t]]
                       ELSE viewer
          /\ prev_framebuf' = [prev_framebuf EXCEPT ![t] = content[send_ptr][t]]
          /\ work' = work \ {t} /\ lost' = lost \ {t}
    /\ UNCHANGED <<sceneVars, scene_dirty, force_full_frame, send_full, bufVars,
                   running, m_pc, stagingVars, s_pc, cur, send_ptr, do_full,
                   peer, broken>>

(* rfx_compose_message answers FALSE, or SurfaceBits does and nobody looks: the
   tile does not reach the viewer, and is remembered as if it had. *)
LoseTile ==
    /\ s_pc = "stream" /\ "compose" \in Events /\ faults < MaxFaults
    /\ faults' = faults + 1
    /\ \E t \in work :
          /\ Foremost(t)
          /\ prev_framebuf' = [prev_framebuf EXCEPT ![t] = content[send_ptr][t]]
          /\ work' = work \ {t} /\ lost' = lost \cup {t}
    /\ UNCHANGED <<scene, damage, frame_event, idle_frame, commits, scene_dirty,
                   force_full_frame, send_full, bufVars, running, m_pc,
                   stagingVars, s_pc, cur, send_ptr, do_full, peer, broken,
                   viewer>>

ReleaseFrame ==
    /\ s_pc = "stream" /\ work = {}
    /\ s_pc' = "wait"
    /\ active_buf' = -1
    /\ SendLocalsEnd
    /\ UNCHANGED <<sceneVars, scene_dirty, force_full_frame, send_full,
                   pending_buf, framebuf, send_buf, content, dirty_tiles,
                   dirty_valid, running, m_pc, stagingVars, prev_framebuf,
                   linkVars>>

-----------------------------------------------------------------------------
(* The drain thread: the callbacks of the connection. *)

PostConnectUnforced ==
    /\ peer = "handshake" /\ ~broken
    /\ peer' = "scheduling"
    /\ s_pc' = Signalled
    /\ UNCHANGED <<sceneVars, scene_dirty, force_full_frame, send_full, bufVars,
                   running, m_pc, stagingVars, sendVars, broken, viewer, lost>>

ConnectUnscheduled ==
    /\ peer = "scheduling"
    /\ peer' = "connected"
    /\ UNCHANGED <<sceneVars, scene_dirty, force_full_frame, send_full, bufVars,
                   running, m_pc, stagingVars, s_pc, sendVars, broken, viewer, lost>>

(* p9wl_peer_post_connect, under send_lock ... *)
PostConnect ==
    /\ peer = "handshake" /\ ~broken
    /\ peer' = "scheduling"
    /\ force_full_frame' = TRUE
    /\ s_pc' = Signalled
    /\ UNCHANGED <<sceneVars, scene_dirty, send_full, bufVars, running, m_pc,
                   stagingVars, sendVars, broken, viewer, lost>>

(* ... and, after the lock, wlr_output_schedule_frame: unless a frame is due
   anyway, an idle source is added to the loop of another thread, which sleeps
   on if it sleeps. *)
ScheduleFrame ==
    /\ peer = "scheduling"
    /\ peer' = "connected"
    /\ idle_frame' = ~frame_event
    /\ UNCHANGED <<scene, damage, frame_event, commits, faults, scene_dirty,
                   force_full_frame, send_full, bufVars, running, m_pc,
                   stagingVars, s_pc, sendVars, broken, viewer, lost>>

BreakChannel ==
    /\ peer \in {"handshake", "connected"} /\ ~broken /\ "break" \in Events
    /\ broken' = TRUE
    /\ UNCHANGED <<sceneVars, scene_dirty, force_full_frame, send_full, bufVars,
                   running, m_pc, stagingVars, s_pc, sendVars, peer, viewer, lost>>

-----------------------------------------------------------------------------
MainStep == \/ SkipFrame \/ BeginFrame \/ RenderFrame \/ DecideToSend
            \/ SendFrame \/ DropFrame \/ JoinSendThread

SendStep == \/ StopListening \/ WaitForFrame \/ TakeFrame \/ LatchBuffer
            \/ StopOnBroken \/ CheckForce \/ ClearForce \/ CompareTiles
            \/ StreamTile \/ ReleaseFrame

Environment == \/ ClientCommit \/ ClientScroll \/ QuietChange
               \/ RenderFails \/ AccessFails \/ LoseTile
               \/ LoopWakes \/ Shutdown
               \/ AcceptPeer \/ SpuriousWakeup \/ PostConnect \/ BreakChannel

Next == MainStep \/ SendStep \/ ThrottleReturns \/ ScheduleFrame \/ Environment

Spec == Init /\ [][Next]_vars

(* Each thread runs when it can.  rdp_drain_throttle returns as long as the
   drain thread lives, and that is all that is assumed of it.  Clients,
   viewers and faults owe nothing, nor does what may wake a sleeping loop. *)
Fairness == /\ WF_vars(MainStep)
            /\ WF_vars(SendStep)
            /\ WF_vars(ScheduleFrame)
            /\ WF_vars(ThrottleReturns /\ ~broken)

FairSpec == Spec /\ Fairness

-----------------------------------------------------------------------------
Pixels == [Tiles -> Int]

TypeOK ==
    /\ scene \in Pixels /\ damage \in SUBSET Tiles /\ frame_event \in BOOLEAN
    /\ idle_frame \in BOOLEAN /\ commits \in Nat /\ faults \in Nat
    /\ scene_dirty \in BOOLEAN /\ force_full_frame \in BOOLEAN
    /\ send_full \in BOOLEAN /\ running \in BOOLEAN
    /\ pending_buf \in {-1} \cup Bufs /\ active_buf \in {-1} \cup Bufs
    /\ framebuf \in Stores /\ send_buf \in [Bufs -> Stores]
    /\ content \in [Stores -> Pixels]
    /\ dirty_tiles \in [Bufs -> SUBSET Tiles] /\ dirty_valid \in [Bufs -> BOOLEAN]
    /\ m_pc \in {"idle", "render", "decide", "send", "join", "exited"}
    /\ dirty_staging \in SUBSET Tiles
    /\ dirty_staging_valid \in BOOLEAN /\ has_dirty \in BOOLEAN
    /\ s_pc \in {"listen", "accepted", "wait", "asleep", "take", "latch",
                 "check_broken", "clear_force", "compare", "throttle", "stream",
                 "stopped"}
    /\ cur \in {-1} \cup Bufs /\ send_ptr \in {0} \cup Stores
    /\ do_full \in BOOLEAN /\ work \in SUBSET Tiles
    /\ prev_framebuf \in Pixels /\ viewer \in Pixels
    /\ peer \in {"none", "handshake", "scheduling", "connected"}
    /\ broken \in BOOLEAN /\ lost \in SUBSET Tiles
-----------------------------------------------------------------------------
(* The states in which the send thread works on a buffer, and those in which
   it already holds the pointer to its pixels. *)
Using == {"latch", "check_broken", "clear_force", "compare", "throttle", "stream"}
Reading == Using \ {"latch"}

(* The three pixel allocations are never shared: the one the send thread reads
   without the lock is neither the one the main thread draws into nor the one
   that waits, however the swaps of send_frame interleave with the takes. *)
BufferOwnership ==
    /\ framebuf # send_buf[0] /\ framebuf # send_buf[1]
    /\ send_buf[0] # send_buf[1]
    /\ pending_buf # -1 => pending_buf # active_buf
    /\ active_buf = IF s_pc \in Using THEN cur ELSE -1
    /\ s_pc \in Reading => send_ptr = send_buf[cur]

(* The send thread never sleeps on send_cond while a frame waits or after it
   was told to stop, and it never finds the mailbox empty once it left the
   wait: got_frame is always true. *)
NoLostWakeup ==
    /\ s_pc = "asleep" => pending_buf = -1 /\ running
    /\ s_pc = "take" => pending_buf # -1
    /\ s_pc \in Using => cur # -1

(* The tiles of a full frame that are still to be sent. *)
Unsent == IF ~do_full THEN {}
          ELSE IF s_pc = "compare" THEN Tiles
          ELSE IF s_pc \in {"throttle", "stream"} THEN work ELSE {}

(* The send thread leaves out a tile because it equals prev_framebuf.  That is
   right because, once the full frame a new viewer asked for is under way,
   prev_framebuf is what the viewer shows, tile by tile, whenever the callback
   of the connection sets force_full_frame relative to its reset.  A tile that
   could not be encoded or sent is the exception, until it is sent again. *)
PrevIsViewer ==
    viewerUp /\ ~force_full_frame =>
        \A t \in Tiles \ (Unsent \cup lost) : viewer[t] = prev_framebuf[t]

(* A viewer never sees a tile go back to an older picture, although the three
   buffers rotate and frames are replaced before they are sent. *)
ViewerNeverRewinds == [][\A t \in Tiles : viewer'[t] >= viewer[t]]_viewer

(* When the send thread restricts its comparison to the dirty tiles of a
   frame, the tiles it leaves out have not changed since the last frame it
   sent. *)
DirtyMapSound ==
    s_pc = "compare" /\ ~do_full /\ dirty_valid[cur] /\ faults = 0 =>
        Differing(content[send_ptr], prev_framebuf) \subseteq dirty_tiles[cur]

(* The poison that apply_scroll_to_prevbuf leaves in the strip a scroll
   uncovers is gone when the frame is done: every poisoned tile was sent again,
   and no viewer was ever sent the poison itself. *)
PoisonIsRepaired ==
    /\ s_pc \notin Using => \A t \in Tiles : prev_framebuf[t] # DeadBeef
    /\ \A t \in Tiles : viewer[t] # DeadBeef

(* A frame that waits is taken, unless the session ends or the channel breaks. *)
PendingTaken ==
    s_pc # "listen" /\ pending_buf # -1 ~> pending_buf = -1 \/ ~running \/ broken

(* The full frame a connecting viewer asks for is sent even when no client draws
   anything any more, unless the request still lies in main's loop, unseen:
   post_connect adds it there without waking main. *)
ForceConsumed ==
    peer = "connected" /\ force_full_frame /\ ~idle_frame
        ~> ~force_full_frame \/ ~running \/ broken

(* The join of the last toplevel's destroy handler returns, wherever the send
   thread was, unless the channel broke. *)
ShutdownCompletes == m_pc = "join" ~> m_pc = "exited" \/ broken

(* When the clients stop drawing, prev_framebuf ends up with the screen: nothing
   that changed stays behind a dirty map, a scroll or a frame that was skipped,
   unless a fault lost it (AccessFails). *)
PrevCatchesUp ==
    <>[](peer = "connected" /\ running /\ ~broken /\ faults = 0
            => prev_framebuf = scene)

(* When the clients stop drawing, a connected viewer ends up with the screen,
   unless the frame it asked for still lies in main's loop, unseen. *)
ScreenCatchesUp ==
    <>[](peer = "connected" /\ running /\ ~broken /\ ~idle_frame
            => viewer = scene)

-----------------------------------------------------------------------------
(* The hand-over is a one-place mailbox: what lies in the pending buffer is the
   slot, what lies in the active buffer is what the reader holds. *)
Frames == [pixels : Pixels, map : SUBSET Tiles, valid : BOOLEAN]
FrameIn(b) == IF b = -1 THEN <<>>
              ELSE <<[pixels |-> content[send_buf[b]], map |-> dirty_tiles[b],
                      valid |-> dirty_valid[b]]>>

Handoff == INSTANCE Mailbox WITH slot <- FrameIn(pending_buf),
                                 reading <- FrameIn(active_buf)

(* The writer never disturbs the frame the reader works on, a frame is taken at
   most once, and the reader gets the latest one published. *)
HandoffIsMailbox == Handoff!Spec
=============================================================================
