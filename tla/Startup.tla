------------------------------- MODULE Startup -------------------------------
(***************************************************************************)
(* From the first line of main (main.c) to the end of the process: what is *)
(* initialised in which order, which step may fail, what the clean-up does *)
(* (wayland/client.c, server_cleanup), and the session (RdpSession) whose  *)
(* send thread main starts half-way: a viewer may connect long before      *)
(* there is an output, and main may give up while it does.                 *)
(*                                                                         *)
(* What main sets up is a set of named resources, made in the order After. *)
(***************************************************************************)
EXTENDS RdpSession

CONSTANTS
    Faults        \* the steps of main that may fail, a subset of MayFail

VARIABLES
    stage,        \* what main is about to make, or where its clean-up is
    made,         \* the resources that exist
    asked,        \* force_full_frame was set by post_connect and no frame came
    frame_due,    \* main's own loop has a frame event due
    frame_idle,   \* one that another thread queued, which wakes nobody
    handshake     \* p9wl_peer_post_connect: "none", "asking", "done"

startVars == <<stage, made, asked, frame_due, frame_idle, handshake>>
allVars == <<vars, startVars>>

(* The setup of main and init_wayland, line by line; "args" are the options,
   "output" the start of the backend, whose headless output comes to life with
   it, "run" is wl_display_run. *)
After ==
    [args |-> "buffers", buffers |-> "locks", locks |-> "thread",
     thread |-> "display", display |-> "backend", backend |-> "renderer",
     renderer |-> "allocator", allocator |-> "scene", scene |-> "xdg_shell",
     xdg_shell |-> "keyboard", keyboard |-> "xwayland", xwayland |-> "socket",
     socket |-> "child", child |-> "sources", sources |-> "output",
     output |-> "run"]

(* The steps whose failure ends in "goto cleanup" ... *)
MayFail == {"buffers", "display", "backend", "renderer", "allocator", "scene",
            "xdg_shell", "socket", "child", "output"}

(* ... and those main goes on without: the result of pthread_create is not
   looked at, a missing Xwayland is logged. *)
Optional == {"thread", "xwayland"}

(* What wl_display_destroy takes with it. *)
OfDisplay == {"display", "backend", "renderer", "allocator", "scene",
              "xdg_shell", "xwayland", "socket", "sources"}

ASSUME FaultsAssumption == Faults \subseteq MayFail \cup Optional \cup {"args"}

StartupInit == /\ Init
               /\ stage = "args" /\ made = {}
               /\ asked = FALSE /\ handshake = "none"
               /\ frame_due = FALSE /\ frame_idle = FALSE

-----------------------------------------------------------------------------
(* The main thread: setting up. *)

(* One resource after the other. *)
Make ==
    /\ stage \in DOMAIN After \ {"output"}
    /\ made' = made \cup {stage}
    /\ stage' = After[stage]
    /\ UNCHANGED <<vars, asked, frame_due, frame_idle, handshake>>

DoWithout ==
    /\ stage \in Optional \cap Faults
    /\ stage' = After[stage]
    /\ UNCHANGED <<vars, made, asked, frame_due, frame_idle, handshake>>

(* An unknown option or a request for help: nothing was made yet. *)
PrintUsage ==
    /\ stage = "args" /\ "args" \in Faults
    /\ stage' = "exited"
    /\ UNCHANGED <<vars, made, asked, frame_due, frame_idle, handshake>>

MakeFails ==
    /\ stage \in MayFail \cap Faults
    /\ stage' = "cleanup"
    /\ UNCHANGED <<vars, made, asked, frame_due, frame_idle, handshake>>

NewOutputIdle ==
    /\ stage = "output"
    /\ made' = made \cup {"output"}
    /\ stage' = After[stage]
    /\ UNCHANGED <<vars, asked, frame_due, frame_idle, handshake>>

(* wlr_backend_start reports the headless output: new_output commits its mode,
   sets s->output, and the new scene output is damaged as a whole. *)
NewOutput ==
    /\ stage = "output"
    /\ made' = made \cup {"output"}
    /\ frame_due' = TRUE
    /\ stage' = After[stage]
    /\ UNCHANGED <<vars, asked, frame_idle, handshake>>

(* output_frame (FrameHandoff has its inside): the full frame that a viewer
   asked for is on its way. *)
OutputFrame ==
    /\ stage = "run" /\ m_pc = "run" /\ frame_due
    /\ frame_due' = FALSE /\ asked' = FALSE
    /\ UNCHANGED <<vars, stage, made, frame_idle, handshake>>

(* Anything else that wakes main's loop lets it dispatch what was queued. *)
LoopWakes ==
    /\ stage = "run" /\ m_pc = "run" /\ frame_idle
    /\ frame_due' = TRUE /\ frame_idle' = FALSE
    /\ UNCHANGED <<vars, stage, made, asked, handshake>>

(* toplevel_destroy of the last toplevel, and the join in it. *)
LastToplevelGone ==
    /\ stage = "run"
    /\ LastToplevelDestroyed
    /\ UNCHANGED startVars

(* exit(0), once the send thread, if there is one, is joined. *)
Exits ==
    /\ stage = "run" /\ m_pc = "join"
    /\ IF "thread" \in made THEN Exit ELSE UNCHANGED vars
    /\ stage' = "exited"
    /\ UNCHANGED <<made, asked, frame_due, frame_idle, handshake>>

-----------------------------------------------------------------------------
(* The main thread: giving up. *)

DestroyDisplay ==
    /\ stage = "cleanup"
    /\ made' = made \ OfDisplay
    /\ stage' = "server_cleanup"
    /\ UNCHANGED <<vars, asked, frame_due, frame_idle, handshake>>

CleanupUnordered ==
    /\ stage = "server_cleanup"
    /\ stage' = IF "thread" \in made THEN "join" ELSE "release"
    /\ UNCHANGED <<vars, made, asked, frame_due, frame_idle, handshake>>

CleanupUnjoined ==
    /\ stage = "server_cleanup"
    /\ LastToplevelDestroyed
    /\ stage' = "release"
    /\ UNCHANGED <<made, asked, frame_due, frame_idle, handshake>>

(* server_cleanup: running is cleared and the send thread woken, as the last
   toplevel's handler does; then the join, if there is a thread. *)
ServerCleanup ==
    /\ stage = "server_cleanup"
    /\ LastToplevelDestroyed
    /\ stage' = IF "thread" \in made THEN "join" ELSE "release"
    /\ UNCHANGED <<made, asked, frame_due, frame_idle, handshake>>

JoinSendThread ==
    /\ stage = "join"
    /\ Exit
    /\ made' = made \ {"thread"}
    /\ stage' = "release"
    /\ UNCHANGED <<asked, frame_due, frame_idle, handshake>>

(* The keyboard, the focus manager, the buffers, the locks, the pipe: all of
   them, made or not; then main returns. *)
Release ==
    /\ stage = "release"
    /\ made' = made \cap {"thread"}
    /\ stage' = "exited"
    /\ UNCHANGED <<vars, asked, frame_due, frame_idle, handshake>>

-----------------------------------------------------------------------------
(* The other threads run as RdpSession says, once they exist; a process that
   has exited has none. *)

Alive == stage # "exited"

SendThread ==
    /\ Alive /\ "thread" \in made
    /\ SendStep
    /\ UNCHANGED startVars

(* A viewer comes, or a step of the accept fails. *)
Accept ==
    /\ Alive /\ "thread" \in made
    /\ \/ ListenerFails \/ ContextFails \/ StartDrain \/ StartDrainFails
       \/ InitializeFails \/ NoWork
    /\ UNCHANGED startVars

(* A frame to stream exists only when there is an output. *)
Frame ==
    /\ Alive /\ "output" \in made
    /\ NextFrame
    /\ UNCHANGED startVars

DrainThread ==
    /\ Alive
    /\ \/ DrainTest \/ DrainCount \/ DrainBroadcast
       \/ handshake # "asking" /\ ServeEvents
    /\ UNCHANGED startVars

Announced == Alive /\ DrainBroadcast /\ UNCHANGED startVars

Breaks ==
    /\ Alive /\ handshake # "asking"
    /\ ChannelBreaks
    /\ UNCHANGED startVars

(* p9wl_peer_post_connect, among the peer's events: the viewer's full frame is
   asked for under send_lock ... *)
PostConnect ==
    /\ Alive
    /\ d_pc = "event" /\ handshake = "none"
    /\ handshake' = "asking"
    /\ asked' = TRUE
    /\ UNCHANGED <<vars, stage, made, frame_due, frame_idle>>

(* ... and a frame is scheduled, if there is an output by now: queued in main's
   loop, which sleeps on if it sleeps, unless one is due there anyway. *)
ScheduleFrame ==
    /\ Alive
    /\ handshake = "asking"
    /\ handshake' = "done"
    /\ frame_idle' = ("output" \in made /\ ~frame_due)
    /\ UNCHANGED <<vars, stage, made, asked, frame_due>>

-----------------------------------------------------------------------------
MainStep == \/ Make \/ NewOutput \/ OutputFrame \/ Exits
            \/ DestroyDisplay \/ ServerCleanup \/ JoinSendThread \/ Release

StartupNext == \/ MainStep \/ DoWithout \/ PrintUsage \/ MakeFails
               \/ LastToplevelGone \/ LoopWakes
               \/ SendThread \/ Accept \/ Frame
               \/ DrainThread \/ Breaks \/ PostConnect \/ ScheduleFrame

StartupSpec == StartupInit /\ [][StartupNext]_allVars

(* As in RdpSession; main goes on with its setup, its event loop or its
   clean-up, and a callback that was entered returns. *)
StartupFair ==
    /\ StartupSpec
    /\ WF_allVars(MainStep) /\ WF_allVars(SendThread)
    /\ WF_allVars(DrainThread) /\ SF_allVars(Announced)
    /\ WF_allVars(ScheduleFrame)

-----------------------------------------------------------------------------
GivingUp == stage \in {"cleanup", "server_cleanup", "join", "release", "exited"}

(* Whoever connects while main is still setting up, or races new_output for
   s->output, gets the full frame it asked for, unless the request ended up in
   main's loop without waking it. *)
ViewerServed ==
    asked /\ handshake = "done" /\ ~frame_idle
        ~> ~asked \/ GivingUp \/ m_pc # "run"

(* The process ends when its last toplevel goes, and when a step of main fails,
   wherever the send thread was: listening, accepting, streaming, throttled.
   A broken channel and a failed accept are the exceptions (README, Findings). *)
ProcessEnds ==
    m_pc = "join" \/ stage = "cleanup"
        ~> stage = "exited" \/ broken \/ instance = "freed"

(* What server_cleanup frees is not in use: a send thread that was started and
   not joined still finds its buffers and its locks, and so does the drain
   thread, unless the order to stop met the send thread between the accept and
   the streaming, where it returns without rdp_drain_stop (README, Findings
   without a run). *)
ReleasedAfterJoin ==
    ~({"buffers", "locks"} \subseteq made) =>
        /\ "thread" \notin made
        /\ \/ d_pc \in {"absent", "exited"}
           \/ s_pc = "returned" /\ thread = "live"

=============================================================================
