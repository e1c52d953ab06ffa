------------------------------ MODULE Decoration -----------------------------
(***************************************************************************)
(* Server-side decorations (wayland/client.c).  A client may ask for a     *)
(* mode before its toplevel's initial commit; the answer then waits for    *)
(* that commit in a listener on the surface, which must be gone before the *)
(* surface is.  One surface, whose toplevel and decoration come and go.    *)
(***************************************************************************)

VARIABLES
    surface,      \* the wl_surface exists
    toplevel,     \* its role object: "none", "new", "initialized"
    decoration,   \* "none", "live", or "bare": without a decoration_data
    requested,    \* the client asked for a mode
    mode_set, listening   \* dd->mode_set, dd->surface_commit is linked

decorVars == <<surface, toplevel, decoration, requested, mode_set, listening>>

Gone == /\ decoration' = "none" /\ requested' = FALSE
        /\ mode_set' = FALSE /\ listening' = FALSE

DecorInit == /\ surface = FALSE /\ toplevel = "none" /\ decoration = "none"
             /\ requested = FALSE /\ mode_set = FALSE /\ listening = FALSE

(* decoration_set_mode_if_ready, with the toplevel in state top. *)
SetModeIfReady(top) ==
    /\ mode_set' = (mode_set \/ top = "initialized")
    /\ listening' = (listening /\ (top # "initialized" \/ mode_set))

CreateSurface ==
    /\ ~surface
    /\ surface' = TRUE
    /\ UNCHANGED <<toplevel, decoration, requested, mode_set, listening>>

CreateToplevel ==
    /\ surface /\ toplevel = "none"
    /\ toplevel' = "new"
    /\ UNCHANGED <<surface, decoration, requested, mode_set, listening>>

(* Its decoration_data may find no memory. *)
HandleNewDecoration ==
    /\ toplevel # "none" /\ decoration = "none"
    /\ decoration' \in {"live", "bare"}
    /\ UNCHANGED <<surface, toplevel, requested, mode_set, listening>>

RequestUnlistened ==
    /\ decoration = "live"
    /\ requested' = TRUE
    /\ SetModeIfReady(toplevel)
    /\ UNCHANGED <<surface, toplevel, decoration>>

(* A request that cannot be answered yet leaves the listener behind. *)
RequestMode ==
    /\ decoration = "live"
    /\ requested' = TRUE
    /\ mode_set' = (mode_set \/ toplevel = "initialized")
    /\ listening' = ~mode_set'
    /\ UNCHANGED <<surface, toplevel, decoration>>

(* wlroots initialises the role before the commit's listeners run. *)
SurfaceCommit ==
    /\ toplevel = "new"
    /\ toplevel' = "initialized"
    /\ IF listening THEN SetModeIfReady("initialized")
                    ELSE UNCHANGED <<mode_set, listening>>
    /\ UNCHANGED <<surface, decoration, requested>>

(* A commit without a buffer takes the role back to where it began. *)
UnmapToplevel ==
    /\ toplevel = "initialized"
    /\ toplevel' = "new"
    /\ UNCHANGED <<surface, decoration, requested, mode_set, listening>>

(* decoration_handle_destroy, on the client's wish ... *)
DestroyDecoration ==
    /\ decoration # "none"
    /\ Gone
    /\ UNCHANGED <<surface, toplevel>>

(* ... or with its toplevel. *)
DestroyToplevel ==
    /\ toplevel # "none"
    /\ toplevel' = "none"
    /\ Gone
    /\ UNCHANGED surface

DestroySurface ==
    /\ surface /\ toplevel = "none"
    /\ surface' = FALSE
    /\ UNCHANGED <<toplevel, decoration, requested, mode_set, listening>>

DecorNext == \/ CreateSurface \/ CreateToplevel \/ HandleNewDecoration
             \/ RequestMode \/ SurfaceCommit \/ UnmapToplevel
             \/ DestroyDecoration \/ DestroyToplevel \/ DestroySurface

(* A mode asked for at any time, before the initial commit or after it, is
   answered by the time the toplevel is initialized. *)
AskedIsAnswered ==
    decoration = "live" /\ requested /\ toplevel = "initialized" => mode_set

(* The commit listener is linked only while its decoration_data lives and
   waits, on a surface that exists: a destroyed surface must have none. *)
ListenerHasSurface ==
    listening => surface /\ decoration = "live" /\ ~mode_set
=============================================================================
