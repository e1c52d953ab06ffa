----------------------------- MODULE ToplevelLife -----------------------------
(***************************************************************************)
(* The listeners a toplevel leaves on the objects of wlroots               *)
(* (wayland/toplevel.c), together with those of its decoration             *)
(* (Decoration): wlroots asserts that an object it destroys has none left, *)
(* and destroys the xdg_toplevel before the xdg_surface and that before    *)
(* the wl_surface.  One wl_surface; its xdg_surface may be given a new     *)
(* xdg_toplevel when the old one is gone, and each one gets a struct       *)
(* toplevel of its own.  Sub-surfaces come and go, and are tracked from    *)
(* the commits of the toplevel they are on.                                *)
(* An operator that nothing uses is a slip of the one below it.            *)
(***************************************************************************)
EXTENDS Decoration

CONSTANTS
    Tls,          \* the structs toplevel that may be allocated at once
    Subs          \* the sub-surfaces of the surface

VARIABLES
    xdg_surface,  \* it exists
    shown,        \* wlr_surface.mapped
    live, xdg,    \* the structs allocated; those with tl->xdg # NULL
    links,        \* the listeners of each that are linked
    twice,        \* a listener was removed that was not linked
    sub,          \* "none", "pending" until the parent's next commit, "current"
    tracked,      \* tl->subsurfaces
    missed,       \* sub-surfaces the last commit found no memory to track
    awaits        \* the client asked for a state and has no configure yet

structs == <<live, xdg, links, twice>>
subVars == <<sub, tracked, missed>>
topVars == <<decorVars, xdg_surface, shown, structs, subVars, awaits>>

RoleLinks == {"xdg_destroy", "request_fullscreen", "request_maximize",
              "request_minimize"}
SurfaceLinks == {"commit", "destroy"}

TopInit == /\ DecorInit
           /\ xdg_surface = FALSE /\ shown = FALSE
           /\ live = {} /\ xdg = {} /\ links = [t \in Tls |-> {}] /\ twice = FALSE
           /\ sub = [x \in Subs |-> "none"] /\ tracked = [t \in Tls |-> {}]
           /\ missed = {} /\ awaits = FALSE

-----------------------------------------------------------------------------
(* The surface and its role come into being. *)

NewSurface == /\ CreateSurface
              /\ UNCHANGED <<xdg_surface, shown, structs, subVars, awaits>>

NewXdgSurface == /\ surface /\ ~xdg_surface
                 /\ xdg_surface' = TRUE
                 /\ UNCHANGED <<decorVars, shown, structs, subVars, awaits>>

NewToplevel(t) ==
    /\ xdg_surface /\ CreateToplevel /\ t \notin live
    /\ live' = live \cup {t} /\ xdg' = xdg \cup {t}
    /\ links' = [links EXCEPT ![t] = RoleLinks \cup SurfaceLinks]
    /\ UNCHANGED <<xdg_surface, shown, twice, subVars, awaits>>

(* No memory for the struct or its scene tree. *)
NewToplevelFails == /\ xdg_surface /\ CreateToplevel
                    /\ UNCHANGED <<xdg_surface, shown, structs, subVars, awaits>>

Decorate == /\ HandleNewDecoration \/ RequestMode \/ DestroyDecoration
            /\ UNCHANGED <<xdg_surface, shown, structs, subVars, awaits>>

(* set_fullscreen, set_maximized or set_minimized: the handlers answer with a
   configure, unless the toplevel waits for its initial commit. *)
RequestState ==
    /\ toplevel # "none"
    /\ awaits' = (awaits \/ xdg = {} \/ toplevel # "initialized")
    /\ UNCHANGED <<decorVars, xdg_surface, shown, structs, subVars>>

-----------------------------------------------------------------------------
(* Commits.  A sub-surface shows from its parent's next commit on. *)

Placed == [x \in Subs |-> IF sub[x] = "pending" THEN "current" ELSE sub[x]]

AddSub(x) == /\ surface /\ sub[x] = "none"
             /\ sub' = [sub EXCEPT ![x] = "pending"]
             /\ UNCHANGED <<decorVars, xdg_surface, shown, structs, tracked, missed, awaits>>

InitialCommit ==
    /\ SurfaceCommit
    /\ sub' = Placed
    /\ awaits' = (awaits /\ xdg = {})
    /\ UNCHANGED <<xdg_surface, shown, structs, tracked, missed>>

(* check_new_subsurfaces, by the struct that still has its xdg_toplevel. *)
TrackWhenMapped(found) ==
    /\ missed' \in SUBSET found
    /\ tracked' = [t \in Tls |-> IF t \in xdg /\ ~shown
                                 THEN tracked[t] \cup (found \ missed')
                                 ELSE tracked[t]]

Track(found) ==
    /\ missed' \in SUBSET {x \in found : \E t \in xdg : x \notin tracked[t]}
    /\ tracked' = [t \in Tls |-> IF t \in xdg THEN tracked[t] \cup (found \ missed')
                                 ELSE tracked[t]]

(* A commit with a buffer: wlroots maps the surface before the handlers run. *)
BufferCommit ==
    /\ toplevel = "initialized"
    /\ shown' = TRUE
    /\ sub' = Placed
    /\ Track({x \in Subs : sub'[x] = "current"})
    /\ UNCHANGED <<decorVars, xdg_surface, structs, awaits>>

(* One without: wlroots has unmapped and reset the surface, and toplevel_commit
   returns before it looks at the sub-surfaces. *)
NullCommit ==
    /\ UnmapToplevel
    /\ shown' = FALSE
    /\ sub' = Placed
    /\ UNCHANGED <<xdg_surface, structs, tracked, missed, awaits>>

-----------------------------------------------------------------------------
(* Destruction. *)

RemoveLinks(from) ==
    /\ links' = [t \in Tls |-> links[t] \ from[t]]
    /\ twice' = (twice \/ \E t \in Tls : ~(from[t] \subseteq links[t]))

SubsurfaceDestroy(x) ==
    /\ sub[x] # "none"
    /\ sub' = [sub EXCEPT ![x] = "none"]
    /\ tracked' = [t \in Tls |-> tracked[t] \ {x}]
    /\ missed' = missed \ {x}
    /\ UNCHANGED <<decorVars, xdg_surface, shown, structs, awaits>>

DestroyKeepingXdg ==
    /\ DestroyToplevel
    /\ RemoveLinks([t \in Tls |-> IF t \in xdg THEN RoleLinks ELSE {}])
    /\ shown' = FALSE /\ awaits' = FALSE
    /\ UNCHANGED <<xdg_surface, live, xdg, subVars>>

(* toplevel_xdg_destroy. *)
ToplevelXdgDestroy ==
    /\ DestroyToplevel
    /\ RemoveLinks([t \in Tls |-> IF t \in xdg THEN RoleLinks ELSE {}])
    /\ xdg' = {}
    /\ shown' = FALSE /\ awaits' = FALSE
    /\ UNCHANGED <<xdg_surface, live, subVars>>

(* toplevel_destroy, of every struct that listens to this xdg_surface. *)
ToplevelDestroy ==
    /\ xdg_surface /\ toplevel = "none"
    /\ xdg_surface' = FALSE
    /\ RemoveLinks([t \in Tls |-> IF t \notin live THEN {}
                                  ELSE IF t \in xdg THEN SurfaceLinks \cup RoleLinks
                                  ELSE SurfaceLinks])
    /\ tracked' = [t \in Tls |-> {}]
    /\ live' = {} /\ xdg' = {}
    /\ UNCHANGED <<decorVars, shown, sub, missed, awaits>>

(* The sub-surfaces stay behind without a parent. *)
SurfaceGone ==
    /\ ~xdg_surface /\ DestroySurface
    /\ sub' = [x \in Subs |-> "none"] /\ missed' = {}
    /\ UNCHANGED <<xdg_surface, shown, structs, tracked, awaits>>

-----------------------------------------------------------------------------
TopNext == \/ NewSurface \/ NewXdgSurface \/ NewToplevelFails
           \/ \E t \in Tls : NewToplevel(t)
           \/ Decorate \/ RequestState
           \/ InitialCommit \/ BufferCommit \/ NullCommit
           \/ \E x \in Subs : AddSub(x) \/ SubsurfaceDestroy(x)
           \/ ToplevelXdgDestroy \/ ToplevelDestroy \/ SurfaceGone

TopSpec == TopInit /\ [][TopNext]_topVars

(* No listener outlives the object it is linked to, whichever way and in
   whichever order the client destroys them, and none is removed twice: not the
   toplevel's, not its sub-surfaces', not its decoration's. *)
ListenersLive ==
    /\ ListenerHasSurface
    /\ ~twice
    /\ \A t \in Tls :
        /\ links[t] \cap RoleLinks # {} => toplevel # "none"
        /\ "destroy" \in links[t] => xdg_surface
        /\ "commit" \in links[t] => surface
        /\ tracked[t] \subseteq {x \in Subs : sub[x] # "none"}
        /\ t \notin live => links[t] = {} /\ tracked[t] = {}

(* Every sub-surface that shows is tracked: its own commits mark the scene and
   schedule a frame.  (One there was no memory for waits for the next commit.) *)
ShownIsTracked ==
    shown => \A t \in xdg : {x \in Subs : sub[x] = "current"} \subseteq tracked[t] \cup missed

(* What a client asked of its toplevel, a decoration mode or a state, before the
   initial commit or after it, is answered by the time it is initialized. *)
Answered ==
    /\ AskedIsAnswered
    /\ awaits /\ xdg # {} => toplevel # "initialized"
=============================================================================
