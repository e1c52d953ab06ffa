----------------------------- MODULE PartsProofs -----------------------------
(***************************************************************************)
(* The listeners of a toplevel and the TLS client, the parts that interact *)
(* with nothing else: for any number of structs and sub-surfaces, and for  *)
(* any buffer, configuration and certificates.                             *)
(***************************************************************************)
EXTENDS ToplevelLife, TlsClient, SequenceTheorems, TLAPS

-----------------------------------------------------------------------------
(* A toplevel and what hangs on it. *)

TopFlags ==
    /\ surface \in BOOLEAN /\ requested \in BOOLEAN /\ mode_set \in BOOLEAN
    /\ listening \in BOOLEAN /\ xdg_surface \in BOOLEAN /\ shown \in BOOLEAN
    /\ twice \in BOOLEAN /\ awaits \in BOOLEAN

TopTypes ==
    /\ toplevel \in {"none", "new", "initialized"}
    /\ decoration \in {"none", "live", "bare"}
    /\ live \subseteq Tls /\ xdg \subseteq live
    /\ links \in [Tls -> SUBSET (RoleLinks \cup SurfaceLinks)]
    /\ sub \in [Subs -> {"none", "pending", "current"}]
    /\ tracked \in [Tls -> SUBSET Subs] /\ missed \subseteq Subs

(* wlroots' order of destruction: nothing outlives what it stands on. *)
Standing ==
    /\ toplevel # "none" => xdg_surface
    /\ xdg_surface => surface
    /\ decoration # "none" => toplevel # "none"
    /\ xdg # {} => toplevel # "none"
    /\ live # {} => xdg_surface
    /\ shown => toplevel = "initialized"

(* A struct toplevel is linked to all it needs to hear of, until that goes. *)
LinksOf(t) == IF t \in xdg THEN RoleLinks \cup SurfaceLinks
              ELSE IF t \in live THEN SurfaceLinks ELSE {}

Linked ==
    /\ ~twice
    /\ \A t \in Tls :
        /\ links[t] = LinksOf(t)
        /\ tracked[t] \subseteq {x \in Subs : sub[x] # "none"}
        /\ t \notin live => tracked[t] = {}

(* A mode asked for is set, or its decoration_data waits for the commit. *)
ModeDue ==
    /\ decoration # "live" => ~requested /\ ~listening
    /\ requested /\ ~mode_set => listening
    /\ listening => ~mode_set /\ toplevel # "initialized"

TopInv == /\ TopFlags /\ TopTypes /\ Standing /\ Linked /\ ModeDue
          /\ ShownIsTracked /\ Answered

LEMMA TopInitInv == TopInit => TopInv
<1> SUFFICES ASSUME TopInit PROVE TopInv
  OBVIOUS
<1>1. TopFlags
  BY Zenon DEF TopInit, DecorInit, TopFlags
<1>2. TopTypes /\ Standing /\ Linked /\ ModeDue /\ ShownIsTracked /\ Answered
  BY DEF TopInit, DecorInit, TopTypes, Standing, Linked, LinksOf, ModeDue,
         ShownIsTracked, Answered, AskedIsAnswered
<1> QED
  BY <1>1, <1>2 DEF TopInv

(* What no step can do to a flag. *)
LEMMA TopFlagsKept == ASSUME TopInv, TopNext PROVE TopFlags'
<1> USE DEF TopInv, TopFlags, structs, subVars
<1>1. CASE NewSurface \/ NewXdgSurface \/ NewToplevelFails \/ \E t \in Tls : NewToplevel(t)
  BY <1>1, Zenon DEF NewSurface, NewXdgSurface, NewToplevelFails, NewToplevel,
     CreateSurface, CreateToplevel, decorVars
<1>2. CASE Decorate \/ RequestState
  BY <1>2, Zenon DEF Decorate, RequestState, HandleNewDecoration, RequestMode,
     DestroyDecoration, Gone, decorVars
<1>3. CASE InitialCommit \/ BufferCommit \/ NullCommit
  BY <1>3, Zenon DEF InitialCommit, BufferCommit, NullCommit, SurfaceCommit,
     SetModeIfReady, UnmapToplevel, decorVars
<1>4. CASE \E x \in Subs : AddSub(x) \/ SubsurfaceDestroy(x)
  BY <1>4, Zenon DEF AddSub, SubsurfaceDestroy, decorVars
<1>5. CASE ToplevelXdgDestroy \/ ToplevelDestroy \/ SurfaceGone
  BY <1>5, Zenon DEF ToplevelXdgDestroy, ToplevelDestroy, SurfaceGone, DestroyToplevel,
     DestroySurface, Gone, RemoveLinks, decorVars
<1> QED
  BY <1>1, <1>2, <1>3, <1>4, <1>5 DEF TopNext

(* The rest of TopInv, which is what a step must keep. *)
TopCore == TopTypes /\ Standing /\ Linked /\ ModeDue /\ ShownIsTracked /\ Answered

(* The role and its surface come into being: there is no struct yet that has
   the xdg_toplevel. *)
LEMMA RoleAppears ==
  ASSUME TopInv,
         NewSurface \/ NewXdgSurface \/ NewToplevelFails \/ \E t \in Tls : NewToplevel(t)
  PROVE  TopCore'
<1> USE DEF TopInv, structs, subVars, decorVars
<1>1. CASE NewSurface \/ NewXdgSurface \/ NewToplevelFails
  <2> USE <1>1 DEF NewSurface, NewXdgSurface, NewToplevelFails, CreateSurface, CreateToplevel
  <2>1. UNCHANGED <<decoration, requested, mode_set, listening, structs, subVars, shown, awaits>>
    OBVIOUS
  <2>2. toplevel' \in {toplevel, "new"} /\ (toplevel' # toplevel => toplevel = "none" /\ xdg_surface)
    OBVIOUS
  <2>3. (TopTypes /\ Linked)'
    BY <2>1, <2>2 DEF TopTypes, Linked, LinksOf
  <2>4. Standing'
    BY DEF Standing
  <2>5. (ModeDue /\ Answered)'
    BY <2>1, <2>2 DEF Standing, ModeDue, Answered, AskedIsAnswered
  <2>6. ShownIsTracked'
    BY <2>1 DEF ShownIsTracked
  <2> QED
    BY <2>3, <2>4, <2>5, <2>6 DEF TopCore
<1>2. ASSUME NEW t \in Tls, NewToplevel(t) PROVE TopCore'
  <2> USE <1>2 DEF NewToplevel, CreateToplevel
  <2>1. xdg = {} /\ ~shown
    BY DEF Standing
  <2>2. TopTypes'
    BY DEF TopTypes
  <2>3. Standing'
    BY <2>1 DEF Standing
  <2>4. Linked'
    BY <2>1 DEF Linked, LinksOf, TopTypes
  <2>5. (ModeDue /\ ShownIsTracked /\ Answered)'
    BY <2>1 DEF Standing, ModeDue, ShownIsTracked, Answered, AskedIsAnswered
  <2> QED
    BY <2>2, <2>3, <2>4, <2>5 DEF TopCore
<1> QED
  BY <1>1, <1>2

(* A request that cannot be answered yet leaves a listener or a debt. *)
LEMMA RequestsKept == ASSUME TopInv, Decorate \/ RequestState PROVE TopCore'
<1> USE DEF TopInv, structs, subVars
<1>1. CASE Decorate
  <2> USE <1>1 DEF Decorate, HandleNewDecoration, RequestMode, DestroyDecoration, Gone
  <2>1. UNCHANGED <<surface, toplevel, xdg_surface, shown, structs, subVars, awaits>>
    OBVIOUS
  <2>2. (TopTypes /\ Linked /\ ShownIsTracked)'
    BY <2>1 DEF TopTypes, Linked, LinksOf, ShownIsTracked
  <2>3. Standing'
    BY <2>1 DEF Standing
  <2>4. (ModeDue /\ Answered)'
    <3>1. CASE RequestMode
      <4>1. listening' <=> ~mode_set'
        BY <3>1, Zenon DEF RequestMode
      <4>2. mode_set' <=> mode_set \/ toplevel = "initialized"
        BY <3>1, Zenon DEF RequestMode
      <4> QED
        BY <3>1, <4>1, <4>2, <2>1 DEF RequestMode, ModeDue, Answered, AskedIsAnswered
    <3>2. CASE HandleNewDecoration \/ DestroyDecoration
      BY <3>2, <2>1 DEF ModeDue, Answered, AskedIsAnswered
    <3> QED
      BY <3>1, <3>2
  <2> QED
    BY <2>2, <2>3, <2>4 DEF TopCore
<1>2. CASE RequestState
  <2> USE <1>2 DEF RequestState, decorVars
  <2>1. (TopTypes /\ Linked /\ ShownIsTracked)'
    BY DEF TopTypes, Linked, LinksOf, ShownIsTracked
  <2>2. (Standing /\ ModeDue)'
    BY DEF Standing, ModeDue
  <2>3. Answered'
    BY DEF Answered, AskedIsAnswered
  <2> QED
    BY <2>1, <2>2, <2>3 DEF TopCore
<1> QED
  BY <1>1, <1>2

(* The initial commit sets the mode that waited; later ones track what shows. *)
LEMMA CommitsKept == ASSUME TopInv, InitialCommit \/ BufferCommit \/ NullCommit PROVE TopCore'
<1> USE DEF TopInv, structs, Placed
<1>1. CASE InitialCommit
  <2> USE <1>1 DEF InitialCommit, SurfaceCommit, SetModeIfReady
  <2>1. TopTypes'
    BY DEF TopTypes
  <2>2. (Standing /\ ShownIsTracked)'
    BY DEF Standing, ShownIsTracked
  <2>3. Linked'
    BY DEF Linked, LinksOf, TopTypes
  <2>4. (ModeDue /\ Answered)'
    BY DEF ModeDue, Answered, AskedIsAnswered
  <2> QED
    BY <2>1, <2>2, <2>3, <2>4 DEF TopCore
<1>2. CASE BufferCommit
  <2> USE <1>2 DEF BufferCommit, Track, decorVars
  <2>1. TopTypes'
    BY DEF TopTypes
  <2>2. (Standing /\ ModeDue /\ Answered)'
    BY DEF Standing, ModeDue, Answered, AskedIsAnswered
  <2>3. Linked'
    BY DEF Linked, LinksOf, TopTypes
  <2>4. ShownIsTracked'
    BY DEF ShownIsTracked, TopTypes
  <2> QED
    BY <2>1, <2>2, <2>3, <2>4 DEF TopCore
<1>3. CASE NullCommit
  <2> USE <1>3 DEF NullCommit, UnmapToplevel
  <2>1. TopTypes'
    BY DEF TopTypes
  <2>2. (Standing /\ ModeDue /\ Answered /\ ShownIsTracked)'
    BY DEF Standing, ModeDue, Answered, AskedIsAnswered, ShownIsTracked
  <2>3. Linked'
    BY DEF Linked, LinksOf, TopTypes
  <2> QED
    BY <2>1, <2>2, <2>3 DEF TopCore
<1> QED
  BY <1>1, <1>2, <1>3

(* A sub-surface comes, to show later, or goes and is forgotten. *)
LEMMA SubsKept ==
  ASSUME TopInv, NEW x \in Subs, AddSub(x) \/ SubsurfaceDestroy(x) PROVE TopCore'
<1> USE DEF TopInv, structs, AddSub, SubsurfaceDestroy, decorVars
<1>1. TopTypes'
  BY DEF TopTypes
<1>2. (Standing /\ ModeDue /\ Answered)'
  <2>1. UNCHANGED <<decorVars, xdg_surface, shown, structs, awaits>>
    OBVIOUS
  <2> QED
    BY <2>1 DEF Standing, ModeDue, Answered, AskedIsAnswered
<1>3. CASE AddSub(x)
  <2>1. UNCHANGED <<links, live, xdg, twice, tracked, missed, shown>>
    BY <1>3
  <2>2. \A y \in Subs : sub'[y] = IF y = x THEN "pending" ELSE sub[y]
    BY <1>3 DEF TopTypes
  <2>3. Linked'
    BY <2>1, <2>2 DEF Linked, LinksOf
  <2>4. ShownIsTracked'
    BY <2>1, <2>2 DEF ShownIsTracked
  <2> QED
    BY <1>1, <1>2, <2>3, <2>4 DEF TopCore
<1>4. CASE SubsurfaceDestroy(x)
  <2>1. UNCHANGED <<links, live, xdg, twice, shown>>
    BY <1>4
  <2>2. /\ \A y \in Subs : sub'[y] = IF y = x THEN "none" ELSE sub[y]
        /\ \A t \in Tls : tracked'[t] = tracked[t] \ {x}
        /\ missed' = missed \ {x}
    BY <1>4 DEF TopTypes
  <2>3. Linked'
    <3>1. ASSUME NEW t \in Tls
          PROVE  tracked'[t] \subseteq {y \in Subs : sub'[y] # "none"}
      BY <2>2 DEF Linked
    <3>2. \A t \in Tls : t \notin live => tracked'[t] = {}
      BY <2>2 DEF Linked
    <3> QED
      BY <2>1, <3>1, <3>2 DEF Linked, LinksOf
  <2>4. ShownIsTracked'
    <3>1. ASSUME shown, NEW t \in xdg, NEW y \in Subs, sub'[y] = "current"
          PROVE  y \in tracked'[t] \cup missed'
      <4>1. t \in Tls /\ y # x /\ sub[y] = "current"
        BY <3>1, <2>2 DEF TopTypes
      <4>2. y \in tracked[t] \cup missed
        BY <3>1, <4>1 DEF ShownIsTracked
      <4> QED
        BY <4>1, <4>2, <2>2
    <3> QED
      BY <2>1, <3>1 DEF ShownIsTracked
  <2> QED
    BY <1>1, <1>2, <2>3, <2>4 DEF TopCore
<1> QED
  BY <1>3, <1>4

(* Each handler removes just the listeners that are linked. *)
LEMMA DestructionsKept ==
  ASSUME TopInv, ToplevelXdgDestroy \/ ToplevelDestroy \/ SurfaceGone PROVE TopCore'
<1> USE DEF TopInv, structs, subVars, RoleLinks, SurfaceLinks
<1>1. CASE ToplevelXdgDestroy
  <2> USE <1>1 DEF ToplevelXdgDestroy, DestroyToplevel, Gone, RemoveLinks
  <2>1. TopTypes'
    BY DEF TopTypes
  <2>2. (Standing /\ ModeDue /\ Answered /\ ShownIsTracked)'
    BY DEF Standing, ModeDue, Answered, AskedIsAnswered, ShownIsTracked
  <2>3. Linked'
    BY DEF Linked, LinksOf, TopTypes
  <2> QED
    BY <2>1, <2>2, <2>3 DEF TopCore
<1>2. CASE ToplevelDestroy
  <2> USE <1>2 DEF ToplevelDestroy, RemoveLinks, decorVars
  <2>1. TopTypes'
    BY DEF TopTypes
  <2>2. (Standing /\ ModeDue /\ Answered /\ ShownIsTracked)'
    BY DEF Standing, ModeDue, Answered, AskedIsAnswered, ShownIsTracked
  <2>3. Linked'
    BY DEF Linked, LinksOf, TopTypes, Standing
  <2> QED
    BY <2>1, <2>2, <2>3 DEF TopCore
<1>3. CASE SurfaceGone
  <2> USE <1>3 DEF SurfaceGone, DestroySurface
  <2>1. TopTypes'
    BY DEF TopTypes
  <2>2. (Standing /\ ModeDue /\ Answered /\ ShownIsTracked)'
    BY DEF Standing, ModeDue, Answered, AskedIsAnswered, ShownIsTracked
  <2>3. Linked'
    BY DEF Linked, LinksOf, TopTypes, Standing
  <2> QED
    BY <2>1, <2>2, <2>3 DEF TopCore
<1> QED
  BY <1>1, <1>2, <1>3

(* TopInv is inductive. *)
THEOREM TopInvariant == TopSpec => []TopInv
<1>1. ASSUME TopInv, [TopNext]_topVars PROVE TopInv'
  <2>1. CASE TopNext
    <3>1. TopFlags'
      BY <1>1, <2>1, TopFlagsKept
    <3>2. TopCore'
      BY <1>1, <2>1, RoleAppears, RequestsKept, CommitsKept, SubsKept, DestructionsKept
         DEF TopNext
    <3> QED
      BY <3>1, <3>2 DEF TopInv, TopCore
  <2>2. CASE UNCHANGED topVars
    <3>1. UNCHANGED <<decorVars, xdg_surface, shown, structs, subVars, awaits>>
      BY <2>2 DEF topVars
    <3>2. (TopFlags /\ TopTypes /\ Standing /\ ModeDue /\ Answered)'
      BY <1>1, <3>1 DEF decorVars, structs, subVars, TopInv, TopFlags, TopTypes,
         Standing, ModeDue, Answered, AskedIsAnswered
    <3>3. (Linked /\ ShownIsTracked)'
      BY <1>1, <3>1 DEF structs, subVars, TopInv, Linked, LinksOf, ShownIsTracked
    <3> QED
      BY <3>2, <3>3 DEF TopInv
  <2> QED
    BY <1>1, <2>1, <2>2
<1> QED
  BY TopInitInv, <1>1, PTL DEF TopSpec

(* No listener of a toplevel, its sub-surfaces or its decoration outlives the
   object it is linked to, in whichever order a client destroys them
   (toplevel_xdg_destroy, toplevel_destroy, decoration_handle_destroy). *)
THEOREM NoListenerLeftBehind == TopSpec => []ListenersLive
<1>1. ASSUME TopInv PROVE ListenersLive
  <2>1. ListenerHasSurface
    BY <1>1 DEF TopInv, Standing, ModeDue, ListenerHasSurface
  <2>2. ASSUME NEW t \in Tls
        PROVE  /\ links[t] \cap RoleLinks # {} => toplevel # "none"
               /\ "destroy" \in links[t] => xdg_surface
               /\ "commit" \in links[t] => surface
               /\ tracked[t] \subseteq {x \in Subs : sub[x] # "none"}
               /\ t \notin live => links[t] = {} /\ tracked[t] = {}
    BY <1>1 DEF TopInv, TopTypes, Standing, Linked, LinksOf, RoleLinks, SurfaceLinks
  <2> QED
    BY <1>1, <2>1, <2>2 DEF TopInv, Linked, ListenersLive
<1> QED
  BY TopInvariant, <1>1, PTL

(* Every sub-surface that shows is tracked by its toplevel, or there was no
   memory for it at the last commit (check_new_subsurfaces). *)
THEOREM ShownAreTracked == TopSpec => []ShownIsTracked
<1>1. TopInv => ShownIsTracked
  BY DEF TopInv
<1> QED
  BY TopInvariant, <1>1, PTL

(* A mode or a state that a client asks for before its toplevel's initial
   commit is answered at that commit, one asked for later at once. *)
THEOREM RequestsAnswered == TopSpec => []Answered
<1>1. TopInv => Answered
  BY DEF TopInv
<1> QED
  BY TopInvariant, <1>1, PTL

-----------------------------------------------------------------------------
(* The TLS client. *)

TlsTypes ==
    /\ conn \in {"none", "handshake", "verify", "compare", "open", "failed"}
    /\ io \in {"idle", "write", "read", "done", "failed"}
    /\ total \in 0..Length /\ buf \in [1..Length -> Nat] /\ wire \in Seq(Nat)

(* Up to the server's certificate there is nothing but the SSL object. *)
ConnInv == /\ conn \in {"handshake", "verify"} => owned = {"ssl"}
           /\ VerifiedAndFreed

(* A transfer begins with nothing on the wire. *)
TransferInv == (io = "idle" => wire = <<>>) /\ WholeOrError

TlsInv == TlsTypes /\ ConnInv /\ TransferInv

LEMMA TlsInitInv == TlsInit => TlsInv
  BY TlsAssumption DEF TlsInit, TlsInv, TlsTypes, ConnInv, VerifiedAndFreed, TransferInv,
     WholeOrError

(* No way out of the verification leaves anything behind. *)
LEMMA ConnStep == ASSUME TlsInv, TlsNext PROVE ConnInv'
<1> USE DEF TlsInv, ConnInv, VerifiedAndFreed, link, transfer
<1>1. CASE InitContext \/ CleanupContext \/ StartTransfer \/ WriteSome \/ ReadSome \/ TransferFails
  BY <1>1 DEF InitContext, CleanupContext, StartTransfer, WriteSome, ReadSome, TransferFails
<1>2. CASE Connect \/ Handshake \/ PeerCertificate \/ LoadPinned
  BY <1>2 DEF Connect, Handshake, PeerCertificate, LoadPinned, Abort
<1>3. CASE Compare \/ Disconnect
  BY <1>3 DEF Compare, Disconnect, Matches, Abort
<1> QED
  BY <1>1, <1>2, <1>3 DEF TlsNext

(* A call of SSL_write lays the next bytes behind what is on the wire. *)
LEMMA WireGrows ==
  ASSUME NEW s \in Seq(Nat), \A i \in 1..Len(s) : s[i] = i,
         NEW w \in Nat, NEW more \in Seq(Nat), more = [k \in 1..w |-> Len(s) + k]
  PROVE  /\ s \o more \in Seq(Nat) /\ Len(s \o more) = Len(s) + w
         /\ \A i \in 1..Len(s \o more) : (s \o more)[i] = i
<1>1. Len(more) = w
  OBVIOUS
<1>2. /\ s \o more \in Seq(Nat) /\ Len(s \o more) = Len(s) + w
      /\ \A i \in 1..Len(s) + w : (s \o more)[i] = IF i <= Len(s) THEN s[i] ELSE more[i - Len(s)]
  BY <1>1, ConcatProperties, Zenon
<1>3. ASSUME NEW i \in 1..Len(s) + w PROVE (s \o more)[i] = i
  <2>1. CASE i <= Len(s)
    BY <1>2, <1>3, <2>1
  <2>2. CASE ~(i <= Len(s))
    <3>1. i - Len(s) \in 1..w
      BY <1>3, <2>2
    <3>2. more[i - Len(s)] = Len(s) + (i - Len(s))
      BY <3>1
    <3> QED
      BY <1>2, <1>3, <2>2, <3>2
  <2> QED
    BY <2>1, <2>2
<1> QED
  BY <1>2, <1>3

(* The loops of tls_write_full and tls_read_full. *)
LEMMA TransferStep == ASSUME TlsInv, TlsNext PROVE (TlsTypes /\ TransferInv)'
<1> USE TlsAssumption DEF TlsInv, TlsTypes, TransferInv, WholeOrError, link, transfer
<1>1. CASE InitContext \/ CleanupContext \/ Connect \/ Handshake \/ PeerCertificate
           \/ LoadPinned \/ Compare
  BY <1>1 DEF InitContext, CleanupContext, Connect, Handshake, PeerCertificate,
     LoadPinned, Compare, Matches, Abort
<1>2. CASE Disconnect \/ StartTransfer \/ TransferFails
  <2>1. CASE Disconnect
    <3>1. buf' \in [1..Length -> Nat] /\ wire' = <<>> /\ total' = 0 /\ io' = "idle" /\ conn' = "none"
      BY <2>1 DEF Disconnect
    <3> QED
      BY <3>1
  <2>2. CASE StartTransfer \/ TransferFails
    <3>1. UNCHANGED <<conn, buf, wire>> /\ io' \in {"write", "read", "failed"}
          /\ total' \in {0, total}
      BY <2>2 DEF StartTransfer, TransferFails
    <3>2. wire' \in Seq(Nat) /\ \A i \in 1..Len(wire') : wire'[i] = i
      BY <3>1
    <3>3. io' # "failed" => io = "idle" /\ total' = 0
      BY <2>2 DEF StartTransfer, TransferFails
    <3> QED
      BY <3>1, <3>2, <3>3
  <2> QED
    BY <1>2, <2>1, <2>2
<1>3. CASE WriteSome
  <2>1. PICK w \in 1..Length - total :
            /\ wire' = wire \o [k \in 1..w |-> total + k]
            /\ total' = total + w
            /\ io' = Ended(total + w)
    BY <1>3 DEF WriteSome
  <2>2. [k \in 1..w |-> total + k] \in Seq(Nat) /\ w \in Nat
    BY <2>1
  <2>3. total = Len(wire) /\ \A i \in 1..Len(wire) : wire[i] = i
    BY <1>3 DEF WriteSome
  <2>4. wire' \in Seq(Nat) /\ Len(wire') = total + w /\ \A i \in 1..Len(wire') : wire'[i] = i
    BY <2>1, <2>2, <2>3, WireGrows
  <2>5. UNCHANGED <<conn, buf>> /\ io = "write" /\ total < Length
    BY <1>3 DEF WriteSome
  <2>6. total' \in 0..Length /\ io' \in {"write", "done"} /\ (io' = "done" => Len(wire') = Length)
    BY <2>1, <2>4, <2>5 DEF Ended
  <2>7. io' = "write" => Len(wire') = total'
    BY <2>1, <2>4
  <2> QED
    BY <2>4, <2>5, <2>6, <2>7
<1>4. CASE ReadSome
  <2>1. PICK r \in 1..Length - total :
            /\ buf' = [i \in 1..Length |-> IF i \in total + 1..total + r THEN i ELSE buf[i]]
            /\ total' = total + r
            /\ io' = Ended(total + r)
    BY <1>4 DEF ReadSome
  <2>2. UNCHANGED <<conn, wire>> /\ io = "read" /\ total < Length
    BY <1>4 DEF ReadSome
  <2>3. buf' \in [1..Length -> Nat]
    BY <2>1
  <2>4. \A i \in 1..total' : buf'[i] = i
    BY <2>1, <2>2
  <2> QED
    BY <2>1, <2>2, <2>3, <2>4 DEF Ended
<1> QED
  BY <1>1, <1>2, <1>3, <1>4 DEF TlsNext

(* TlsInv is inductive. *)
THEOREM TlsInvariant == TlsSpec => []TlsInv
<1>1. ASSUME TlsInv, [TlsNext]_tlsVars PROVE TlsInv'
  <2>1. CASE TlsNext
    BY <1>1, <2>1, ConnStep, TransferStep DEF TlsInv
  <2>2. CASE UNCHANGED tlsVars
    BY <1>1, <2>2 DEF tlsVars, TlsInv, TlsTypes, ConnInv, VerifiedAndFreed, TransferInv,
       WholeOrError
  <2> QED
    BY <1>1, <2>1, <2>2
<1> QED
  BY TlsInitInv, <1>1, PTL DEF TlsSpec

(* tls_connect hands out only a connection verified as the configuration says,
   and every way out of it has freed what it allocated. *)
THEOREM OnlyVerified == TlsSpec => []VerifiedAndFreed
<1>1. TlsInv => VerifiedAndFreed
  BY DEF TlsInv, ConnInv
<1> QED
  BY TlsInvariant, <1>1, PTL

(* tls_write_full and tls_read_full move the beginning of the buffer, in order,
   and all of it when they report success, for a buffer of any length. *)
THEOREM BuffersWhole == TlsSpec => []WholeOrError
<1>1. TlsInv => WholeOrError
  BY DEF TlsInv, TransferInv
<1> QED
  BY TlsInvariant, <1>1, PTL
=============================================================================
