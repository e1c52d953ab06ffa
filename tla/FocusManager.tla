---------------------------- MODULE FocusManager -----------------------------
(***************************************************************************)
(* Pointer focus, keyboard focus and the popup stack: focus_manager.c and  *)
(* its callers in toplevel.c, popup.c and wl_input.c.  All of it runs in   *)
(* the main thread, so one handler is one action; what is hard is the      *)
(* order in which clients and the user make the handlers run.              *)
(*                                                                         *)
(* s is the part of struct server the handlers share, and each operator on *)
(* s below is the C function of that name, applied to the state its caller *)
(* has reached.  The life of a surface is what wlroots (0.19) and the      *)
(* client make of it.  Sub-surfaces count as the surface they belong to.   *)
(* An operator that nothing uses is a slip of the one below it.            *)
(***************************************************************************)
EXTENDS Integers, FiniteSets, SequencesExt

CONSTANTS
    Toplevels, Popups,   \* the surfaces clients may ever create
    Buttons, Left,       \* mouse buttons
    NoSurface,           \* NULL
    Areas,               \* the sets of surfaces the cursor can be over
    Grabbing,            \* the popups new_popup finds with popup->seat # NULL
    MaxSurfaces          \* bound: the surfaces that exist at once

Surfaces == Toplevels \cup Popups

ASSUME SurfacesAssumption == /\ Toplevels \cap Popups = {}
                             /\ NoSurface \notin Surfaces
ASSUME InputAssumption == /\ Left \in Buttons
                          /\ Areas \subseteq SUBSET Surfaces
                          /\ Grabbing \subseteq Popups /\ MaxSurfaces \in Nat

VARIABLE s

(* "created": it has its xdg_surface and role but is not mapped (the       *)
(* initial commit only sends a configure and is left out); "visible":      *)
(* surface->mapped; "norole": its xdg_toplevel or xdg_popup is destroyed;  *)
(* "noxdg": its xdg_surface is; "none": it does not exist (yet, or any     *)
(* more: a new surface may take its place).                                *)
Stages == {"none", "created", "visible", "norole", "noxdg"}
WithRole == {"created", "visible"}
HasRole(x) == s.life[x] \in WithRole

Init == s = [life        |-> [x \in Surfaces |-> "none"],
             mapped      |-> [x \in Surfaces |-> FALSE],  \* tl->mapped, pd->mapped
             has_grab    |-> [x \in Surfaces |-> FALSE],
             above       |-> [x \in Surfaces |-> {}],     \* parent, its parent, ...
             toplevels   |-> <<>>,    \* as stacked in the scene, front first
             popup_stack |-> <<>>,
             pointer     |-> NoSurface,    \* seat->pointer_state.focused_surface
             keyboard    |-> NoSurface,    \* seat->keyboard_state.focused_surface
             held        |-> {},           \* seat->pointer_state.buttons
             deferred    |-> FALSE, target |-> NoSurface,
             last        |-> {},           \* last_buttons
             over        |-> {},           \* surfaces whose area has the cursor
             running     |-> TRUE]

-----------------------------------------------------------------------------
(* Queries on a state st that a handler has reached. *)

(* The first surface of a list that is in set (wl_list_for_each, break). *)
FirstIn(seq, set) == LET found == {i \in DOMAIN seq : seq[i] \in set}
                     IN  IF found = {} THEN NoSurface ELSE seq[Min(found)]

Mapped(st) == {x \in Surfaces : st.mapped[x]}

Place(seq, x) == SelectInSeq(seq, LAMBDA e : e = x)
Unlinked(seq, x) == RemoveAt(seq, Place(seq, x))     \* wl_list_remove

(* wlr_scene_node_at: popups lie above their parent, inside its tree. *)
Root(st, x) == CHOOSE t \in Toplevels : t \in {x} \cup st.above[x]
InFront(st, x, y) ==
    \/ Place(st.toplevels, Root(st, x)) < Place(st.toplevels, Root(st, y))
    \/ /\ Root(st, x) = Root(st, y)
       /\ y \in Toplevels \/ (x \in Popups /\ Place(st.popup_stack, x)
                                               <= Place(st.popup_stack, y))

SurfaceAtCursor(st) ==
    LET hit == {x \in st.over : st.life[x] = "visible"}
    IN  IF hit # {} THEN CHOOSE x \in hit : \A y \in hit : InFront(st, x, y)
        ELSE FirstIn(st.toplevels, Mapped(st))

FallbackSurface(st, skip) ==
    FirstIn(st.popup_stack \o st.toplevels, Mapped(st) \ {skip})

FrontToplevel(st) ==
    FirstIn(st.toplevels, {t \in Mapped(st) : st.life[t] # "norole"})

-----------------------------------------------------------------------------
(* The focus state machine. *)

PointerSetUndeferred(st, x, forced) == [st EXCEPT !.pointer = x]

PointerSet(st, x, forced) ==
    IF x = st.pointer \/ st.held = {} \/ forced
    THEN [st EXCEPT !.pointer = x]
    ELSE [st EXCEPT !.deferred = TRUE, !.target = x]

PointerRecheck(st) ==
    IF st.held # {} THEN st
    ELSE PointerSet([st EXCEPT !.deferred = FALSE, !.target = NoSurface],
                    SurfaceAtCursor(st), FALSE)

KeyboardSet(st, x) == [st EXCEPT !.keyboard = x]

RaiseNothing(st, t) == st.toplevels
Raise(st, t) == <<t>> \o Unlinked(st.toplevels, t)

FocusToplevel(st, t) ==
    IF st.life[t] \notin WithRole \/ st.keyboard = t
    THEN st
    ELSE KeyboardSet([st EXCEPT !.toplevels = Raise(st, t)], t)

OnSurfaceMap(st, t) ==
    LET f == FocusToplevel(st, t)
    IN  IF SurfaceAtCursor(f) = t THEN PointerSet(f, t, FALSE) ELSE f

(* pd->surface or tl->surface x loses the pointer. *)
PointerLeaves(st, x) ==
    LET to == FallbackSurface(st, x)
    IN  IF st.pointer = x THEN PointerSet(st, to, to = NoSurface) ELSE st

OnSurfaceUnmap(st, x) ==
    LET f == PointerLeaves(st, x)
    IN  IF st.keyboard = x THEN KeyboardSet(f, FallbackSurface(st, x)) ELSE f

OnSurfaceDestroy(st, x) ==
    LET f == OnSurfaceUnmap(st, x)
    IN  IF f.target = x THEN [f EXCEPT !.deferred = FALSE, !.target = NoSurface]
        ELSE f

PopupMapped(st, p) ==
    PointerRecheck(IF st.has_grab[p] THEN KeyboardSet(st, p) ELSE st)

PopupUnregister(st, p) ==
    LET out    == [st EXCEPT !.popup_stack = Unlinked(@, p)]
        none   == PointerSet(out, NoSurface, TRUE)
        target == FallbackSurface(none, p)
        moved  == IF target = NoSurface THEN none ELSE PointerSet(none, target, FALSE)
        front  == FrontToplevel(out)
    IN  IF st.has_grab[p] THEN IF target = NoSurface THEN moved
                               ELSE KeyboardSet(moved, target)
        ELSE IF out.popup_stack = <<>> /\ front # NoSurface
             THEN KeyboardSet(moved, front) ELSE moved

-----------------------------------------------------------------------------
(* What wlroots does when x leaves the screen for stage: the popups above  *)
(* it lose their role.                                                     *)
Leaves(st, x, stage) ==
    [st EXCEPT !.life = [y \in Surfaces |->
        IF y = x THEN stage
        ELSE IF x \in st.above[y] /\ st.life[y] \in WithRole
        THEN "norole" ELSE st.life[y]]]

(* wlr_xdg_popup_destroy for every popup of the stack that has its role.   *)
DismissAll(st) ==
    [st EXCEPT !.life = [y \in Surfaces |->
        IF Contains(st.popup_stack, y) /\ st.life[y] \in WithRole
        THEN "norole" ELSE st.life[y]]]

(* focus_popup_dismiss_topmost_grabbed: its value is the state it leaves,   *)
(* st itself where the C function returns false.                           *)
DismissTopmostGrabbed(st) ==
    IF st.popup_stack # <<>> /\ st.has_grab[st.popup_stack[1]]
                             /\ st.life[st.popup_stack[1]] \in WithRole
    THEN Leaves(st, st.popup_stack[1], "norole") ELSE st

RoomForOne == Cardinality({x \in Surfaces : s.life[x] # "none"}) < MaxSurfaces

(* new_toplevel and new_popup, when all they allocate is there.  On their   *)
(* error paths they return before a listener of theirs hears the surface:  *)
(* it gets no configure, so it is never mapped, and s stays as it is.      *)
NewToplevel(t) ==
    /\ s.running
    /\ s.life[t] = "none" /\ RoomForOne
    /\ s' = [s EXCEPT !.life[t] = "created", !.toplevels = <<t>> \o @]

NewPopup(p, parent) ==
    /\ s.running
    /\ s.life[p] = "none" /\ RoomForOne /\ HasRole(parent)
    /\ s' = [s EXCEPT !.life[p] = "created", !.has_grab[p] = p \in Grabbing,
                      !.above[p] = {parent} \cup s.above[parent],
                      !.popup_stack = <<p>> \o @]

(* A commit that attaches a buffer; wlroots has mapped the surface.        *)
ToplevelCommit(t) ==
    /\ s.running
    /\ HasRole(t)
    /\ LET st  == [s EXCEPT !.life[t] = "visible", !.mapped[t] = TRUE]
       IN  s' = PointerRecheck(IF s.mapped[t] THEN st ELSE OnSurfaceMap(st, t))

PopupCommit(p) ==
    /\ s.running
    /\ HasRole(p)
    /\ LET st == [s EXCEPT !.life[p] = "visible", !.mapped[p] = TRUE]
       IN  s' = IF s.mapped[p] THEN st ELSE PopupMapped(st, p)

(* A commit without a buffer: wlroots has unmapped the surface, and the    *)
(* handlers return before they look at tl->mapped or pd->mapped.           *)
UnmapCommit(x) ==
    /\ s.running
    /\ s.life[x] = "visible"
    /\ s' = Leaves(s, x, "created")

(* A sub-surface of t appears or disappears. *)
SubsurfaceCommit(t) ==
    /\ s.running
    /\ s.life[t] = "visible"
    /\ s' = PointerRecheck(s)

(* The client destroys the role object; of a toplevel, tl->xdg = NULL.     *)
RoleDestroyed(x) ==
    /\ s.running
    /\ HasRole(x)
    /\ s' = Leaves(s, x, "norole")

(* free(tl), free(pd). *)
Freed(st, x) == [st EXCEPT !.mapped[x] = FALSE, !.has_grab[x] = FALSE,
                           !.above[x] = {}]

(* The client destroys the xdg_surface; with the last toplevel the process *)
(* exits (RdpSession has how).                                             *)
UnlistNothing(st, t) == st.toplevels
Unlist(st, t) == Unlinked(st.toplevels, t)

ToplevelDestroy(t) ==
    /\ s.life[t] = "norole"
    /\ LET st == OnSurfaceDestroy(s, t)
       IN  s' = [Freed(st, t) EXCEPT !.life[t] = "noxdg",
                                     !.toplevels = Unlist(st, t),
                                     !.running = Unlist(st, t) # <<>>]

PopupDestroy(p) ==
    /\ s.running
    /\ s.life[p] = "norole"
    /\ s' = Freed(PopupUnregister([s EXCEPT !.life[p] = "noxdg"], p), p)

(* The seat forgets a destroyed wl_surface. *)
SurfaceDestroyed(x) ==
    /\ s.running
    /\ s.life[x] = "noxdg"
    /\ s' = [s EXCEPT !.life[x] = "none",
                      !.pointer = IF @ = x THEN NoSurface ELSE @,
                      !.keyboard = IF @ = x THEN NoSurface ELSE @]

-----------------------------------------------------------------------------
HandleClick(st, x) ==
    IF x \in Popups THEN st
    ELSE IF st.popup_stack # <<>>
    THEN LET out == DismissAll(st)
             to  == SurfaceAtCursor(out)
         IN  IF to = NoSurface THEN out ELSE PointerSet(out, to, FALSE)
    ELSE FocusToplevel(st, x)

(* The surface a click goes to, looked up again when HandleClick is through. *)
StaleSurface(clicked) == SurfaceAtCursor(s)
ClickedSurface(clicked) == SurfaceAtCursor(clicked)

(* The cursor moves over the surfaces of over, and buttons are down.       *)
HandleMouse(over, buttons) ==
    LET at       == [s EXCEPT !.over = over]
        released == s.last # {} /\ buttons = {} /\ s.deferred /\ s.held = {}
        st       == IF released THEN PointerRecheck(at) ELSE at
        press    == Left \in buttons \ s.last
        found    == SurfaceAtCursor(at)
        clicked  == IF press /\ found # NoSurface THEN HandleClick(st, found) ELSE st
        surface  == IF press /\ found # NoSurface THEN ClickedSurface(clicked)
                    ELSE found
        moved    == IF surface # NoSurface THEN PointerSet(clicked, surface, FALSE)
                    ELSE PointerSet(IF press THEN DismissAll(clicked) ELSE clicked,
                                    NoSurface, TRUE)
        heard    == moved.pointer # NoSurface /\ moved.life[moved.pointer] = "visible"
    IN  /\ s.running
        /\ s' = [moved EXCEPT
                !.held = IF heard THEN (@ \ (s.last \ buttons)) \cup (buttons \ s.last)
                         ELSE @,
                !.last = buttons]

(* Escape, when pressed, dismisses the topmost popup if it has a grab; any   *)
(* other key goes to the surface with the keyboard, if there is one, and     *)
(* moves no focus.  (keymapmod knows no modifiers, and active_kb_inhibitor   *)
(* is never set.)                                                            *)
HandleKey(escape, pressed) ==
    /\ s.running
    /\ s' = IF escape /\ pressed THEN DismissTopmostGrabbed(s) ELSE s

-----------------------------------------------------------------------------
Next == \/ \E t \in Toplevels : \/ NewToplevel(t) \/ ToplevelCommit(t)
                                \/ SubsurfaceCommit(t) \/ ToplevelDestroy(t)
        \/ \E p \in Popups : \/ \E x \in Surfaces : NewPopup(p, x)
                             \/ PopupCommit(p) \/ PopupDestroy(p)
        \/ \E x \in Surfaces : \/ UnmapCommit(x)
                               \/ RoleDestroyed(x) \/ SurfaceDestroyed(x)
        \/ \E o \in Areas, b \in SUBSET Buttons : HandleMouse(o, b)
        \/ \E escape, pressed \in BOOLEAN : HandleKey(escape, pressed)

Spec == Init /\ [][Next]_s

-----------------------------------------------------------------------------
(* The state has its type, and the lists hold exactly the surfaces whose   *)
(* xdg_surface lives, each once: new_toplevel, new_popup and the two       *)
(* destroy handlers keep them in step with what the clients do.            *)
Listed(set) == {x \in set : s.life[x] \in WithRole \cup {"norole"}}
TypeOK ==
    /\ s.life \in [Surfaces -> Stages]
    /\ {s.mapped, s.has_grab} \subseteq [Surfaces -> BOOLEAN]
    /\ s.above \in [Surfaces -> SUBSET Surfaces]
    /\ {s.pointer, s.keyboard, s.target} \subseteq Surfaces \cup {NoSurface}
    /\ {s.deferred, s.running} \subseteq BOOLEAN
    /\ {s.held, s.last} \subseteq SUBSET Buttons /\ s.over \subseteq Surfaces
    /\ ToSet(s.toplevels) = Listed(Toplevels)
    /\ Len(s.toplevels) = Cardinality(Listed(Toplevels))
    /\ ToSet(s.popup_stack) = Listed(Popups)
    /\ Len(s.popup_stack) = Cardinality(Listed(Popups))

(* With no popup open and no window half destroyed, what the user types   *)
(* goes to the front window: the first toplevel of the list that has been  *)
(* mapped.  focus_toplevel raises and focuses together, and every handler  *)
(* that takes the keyboard from a surface hands it on.                     *)
KeysGoToFront ==
    LET front == FirstIn(s.toplevels, Mapped(s))
    IN  /\ s.popup_stack = <<>> /\ \A t \in Toplevels : s.life[t] # "norole"
        /\ front # NoSurface
        => s.keyboard = front

PointerStays == s.held # {} /\ s'.pointer # s.pointer => s'.pointer = NoSurface

(* While a button is held the pointer never goes over to another surface:  *)
(* it can only lose the one it is on (focus_pointer_set defers).           *)
DragNeverSwitches == [][PointerStays]_s

PressLands ==
    Left \in s'.last \ s.last /\ SurfaceAtCursor(s') # NoSurface =>
        \/ s'.pointer = SurfaceAtCursor(s')
        \/ /\ s.held # {} /\ s'.deferred
           /\ s'.target = SurfaceAtCursor(s')

(* A press of the left button reaches the surface that is under the cursor *)
(* when handle_mouse is through with it, even if the press dismissed       *)
(* popups or raised a window; while the seat counts a button as held, that *)
(* surface, and no other, is the one the pointer is deferred to.           *)
PressGoesUnderCursor == [][PressLands]_s

(* focus_manager.c:49 looks for "any mapped surface to give focus to", and *)
(* types.h:139 says of mapped "Surface has buffer and is visible": the     *)
(* keyboard never goes to a surface that is not on the screen.             *)
KeyboardGoesToVisible ==
    [][s'.running /\ s'.keyboard # s.keyboard /\ s'.keyboard # NoSurface
       => s'.life[s'.keyboard] = "visible"]_s
=============================================================================
