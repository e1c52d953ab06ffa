--------------------------- MODULE ScrollDetection ---------------------------
(***************************************************************************)
(* Scroll detection (draw/scroll.c) over the worker pool (ParallelFor):    *)
(* the send thread lays the grid of regions over the screen, the workers   *)
(* correlate one region each with FFT resources of their own               *)
(* (draw/phase_correlate.c), and the send thread then moves the pixels of  *)
(* every scrolled region inside prev_framebuf, row by row in place, and    *)
(* poisons the tiles the scroll uncovers.  The worker's call of fn,        *)
(* ParallelFor's RunFn, is split into its steps.  A pixel is named by the  *)
(* place it had when the frame began.  An action that Next does not use is *)
(* a slip of the one below it (README, Slips).                             *)
(***************************************************************************)
EXTENDS ParallelFor, TileGrid

CONSTANTS
    Screens,    \* the sizes the screen may have: records of w and h
    Shifts,     \* bounds the shifts the correlation reports: pairs <<dx, dy>>
    Faults,     \* which allocations may fail: "calloc", "buffers", "plans"
    Nobody      \* fftw_plan_lock is free

ASSUME NobodyAssumption == Nobody \notin Workers

(* parse_args raises a smaller screen to 640 by 480. *)
ASSUME ScreensAssumption ==
    \A s \in Screens : /\ s.w \in Nat /\ s.w >= 2 * TILE_SIZE
                       /\ s.h \in Nat /\ s.h >= 2 * TILE_SIZE

VARIABLES
    screen, regions,
    prev,       \* prev_framebuf
    phase,      \* the send thread: "compare" (no detection under way),
                \* "detect", or "apply"
    a_reg, a_row,   \* apply_scroll_to_prevbuf: region, rows of it moved
    fn_pc,      \* a worker inside detect_region_scroll
    res,        \* the worker's fft_thread_resources exist
    planner     \* holder of fftw_plan_lock

poolAll == <<c_pc, w_pc, w_idx, count, next_idx, done_count, shutdown, calls, ran>>
applyVars == <<prev, phase, a_reg, a_row>>
fftVars == <<fn_pc, res, planner>>
allVars == <<poolAll, screen, regions, applyVars, fftVars>>

Place(x, y) == y * screen.w + x      \* the index into prev_framebuf
Pixels == 0..screen.w * screen.h - 1
X(p) == p % screen.w
Y(p) == p \div screen.w
Poison == -1                         \* 0xDEADBEEF
Unmoved == [p \in Pixels |-> p]

ScrollInit == /\ Init
              /\ screen \in Screens
              /\ regions = <<>>
              /\ prev = Unmoved /\ phase = "compare"
              /\ a_reg = 1 /\ a_row = 0
              /\ fn_pc = [w \in Workers |-> "entry"]
              /\ res = [w \in Workers |-> FALSE]
              /\ planner = Nobody

-----------------------------------------------------------------------------
(* The send thread. *)

(* detect_scroll lays the grid and calls parallel_for.  A screen parse_args
   admits has at least one region.  The regions past the last place of
   scroll_regions, which the code writes over the fields that follow the array,
   are laid like the others here: RegionsFit tells the screens that have some.  The comparison of the last frame has made
   prev_framebuf a picture again (FrameHandoff). *)
DetectScroll == /\ phase = "compare"
                /\ regions' = Grid(screen)
                /\ Call /\ count' = Len(regions')
                /\ prev' = Unmoved
                /\ phase' = "detect"
                /\ UNCHANGED <<screen, a_reg, a_row, fftVars>>

WaitAgain == WaitReturns /\ UNCHANGED <<screen, regions, applyVars, fftVars>>

(* parallel_for returns when its test lets it. *)
Detected == /\ phase = "detect" /\ Return
            /\ phase' = IF c_pc' = "out" THEN "apply" ELSE "detect"
            /\ a_reg' = 1 /\ a_row' = 0
            /\ UNCHANGED <<screen, regions, prev, fftVars>>

(* The region apply_scroll_to_prevbuf is at, and the place its rows go to. *)
Current == regions[a_reg]
RowsToMove == DstHi(Current.y2, Current.dy) - DstLo(Current.y1, Current.dy)

RowUpwards == DstLo(Current.y1, Current.dy) + a_row

Row == IF Current.dy > 0 THEN DstHi(Current.y2, Current.dy) - 1 - a_row
                         ELSE DstLo(Current.y1, Current.dy) + a_row

SkipRegion == /\ phase = "apply" /\ a_reg <= Len(regions) /\ ~Current.detected
              /\ a_reg' = a_reg + 1
              /\ UNCHANGED <<poolAll, screen, regions, prev, phase, a_row, fftVars>>

(* One memmove. *)
MoveRow ==
    /\ phase = "apply" /\ a_reg <= Len(regions) /\ Current.detected
    /\ a_row < RowsToMove
    /\ LET first == Place(DstLo(Current.x1, Current.dx), Row)
           last == Place(DstHi(Current.x2, Current.dx) - 1, Row)
           source == Place(SrcLo(Current.x1, Current.dx), Row - Current.dy)
       IN prev' = [p \in Pixels |-> IF p \in first..last
                                   THEN prev[source + p - first] ELSE prev[p]]
    /\ a_row' = a_row + 1
    /\ UNCHANGED <<poolAll, screen, regions, phase, a_reg, fftVars>>

InRegion(p, r) == X(p) \in r.x1..r.x2 - 1 /\ Y(p) \in r.y1..r.y2 - 1
InExposed(p, r) == /\ InRegion(p, r)
                   /\ \/ Y(p) \in Exposed(r.y1, r.y2, r.dy)
                      \/ X(p) \in Exposed(r.x1, r.x2, r.dx)

PoisonExposed ==
    /\ phase = "apply" /\ a_reg <= Len(regions) /\ Current.detected
    /\ a_row = RowsToMove
    /\ prev' = [p \in Pixels |-> IF InExposed(p, Current) THEN Poison ELSE prev[p]]
    /\ a_reg' = a_reg + 1 /\ a_row' = 0
    /\ UNCHANGED <<poolAll, screen, regions, phase, fftVars>>

Applied == /\ phase = "apply" /\ a_reg > Len(regions)
           /\ phase' = "compare"
           /\ UNCHANGED <<poolAll, screen, regions, prev, a_reg, a_row, fftVars>>

(* scroll_cleanup: the workers end and free their resources, then FFTW is
   reset. *)
EndPool == phase = "compare" /\ Cleanup /\ UNCHANGED <<screen, regions, applyVars, fftVars>>

PoolEnded == /\ Join /\ \A w \in Workers : ~res[w]
             /\ UNCHANGED <<screen, regions, applyVars, fftVars>>

-----------------------------------------------------------------------------
(* A worker inside fn = detect_region_scroll. *)

InFn(w, where) == w_pc[w] = "run" /\ fn_pc[w] = where

Goto(w, where) == fn_pc' = [fn_pc EXCEPT ![w] = where]

(* get_thread_resources: use the thread's own, or allocate. *)
GetResources(w) ==
    /\ InFn(w, "entry")
    /\ \/ res[w] /\ Goto(w, "correlate")
       \/ ~res[w] /\ Goto(w, "make")
       \/ ~res[w] /\ "calloc" \in Faults /\ Goto(w, "give_up")
       \/ ~res[w] /\ "buffers" \in Faults /\ Goto(w, "free")
    /\ UNCHANGED <<poolAll, screen, regions, applyVars, res, planner>>

LockNothing(w) ==
    /\ \/ InFn(w, "make") /\ Goto(w, "making")
       \/ InFn(w, "free") /\ Goto(w, "freeing")
       \/ w_pc[w] = "exited" /\ res[w] /\ fn_pc[w] = "entry" /\ Goto(w, "exiting")
    /\ planner' = w
    /\ UNCHANGED <<poolAll, screen, regions, applyVars, res>>

(* pthread_mutex_lock(&fftw_plan_lock), to make plans, to free what could not be
   completed, or in the destructor of a thread that ended. *)
LockPlanner(w) ==
    /\ planner = Nobody
    /\ \/ InFn(w, "make") /\ Goto(w, "making")
       \/ InFn(w, "free") /\ Goto(w, "freeing")
       \/ w_pc[w] = "exited" /\ res[w] /\ fn_pc[w] = "entry" /\ Goto(w, "exiting")
    /\ planner' = w
    /\ UNCHANGED <<poolAll, screen, regions, applyVars, res>>

MakePlans(w) ==
    /\ InFn(w, "making")
    /\ \/ Goto(w, "correlate") /\ res' = [res EXCEPT ![w] = TRUE]
       \/ "plans" \in Faults /\ Goto(w, "free") /\ UNCHANGED res
    /\ planner' = Nobody
    /\ UNCHANGED <<poolAll, screen, regions, applyVars>>

(* free_thread_resources. *)
FreePlans(w) ==
    /\ \/ InFn(w, "freeing") /\ Goto(w, "give_up") /\ UNCHANGED res
       \/ fn_pc[w] = "exiting" /\ Goto(w, "gone") /\ res' = [res EXCEPT ![w] = FALSE]
    /\ planner' = Nobody
    /\ UNCHANGED <<poolAll, screen, regions, applyVars>>

(* No resources: the result says no shift, and the region is left alone. *)
GiveUp(w) == /\ InFn(w, "give_up")
             /\ RunFn(w) /\ Goto(w, "entry")
             /\ UNCHANGED <<screen, regions, applyVars, res, planner>>

(* What phase_correlate_detect may answer for region r: its peak lies anywhere
   in the range it searches. *)
Correlated(r) == {s \in Shifts : /\ s[1] \in Reported(MaxShift(r))
                                 /\ s[2] \in Reported(MaxShift(r))}

(* The shift is kept if the tiles compress no worse with it, and dropped
   otherwise. *)
Correlate(w) ==
    /\ InFn(w, "correlate")
    /\ RunFn(w) /\ Goto(w, "entry")
    /\ LET i == w_idx[w] + 1
           r == regions[i]
       IN \/ UNCHANGED regions
          \/ \E s \in Correlated(r) :
                /\ Acceptable(r, s[1], s[2])
                /\ regions' = [regions EXCEPT ![i] =
                     [r EXCEPT !.detected = TRUE, !.dx = s[1], !.dy = s[2]]]
    /\ UNCHANGED <<screen, applyVars, res, planner>>

(* The loop of worker_func around fn. *)
OutsideFn(w) == (Work(w) \/ Finish(w)) /\ UNCHANGED <<screen, regions, applyVars, fftVars>>

-----------------------------------------------------------------------------
SendThread == \/ Detected \/ SkipRegion \/ MoveRow \/ PoisonExposed \/ Applied
              \/ PoolEnded

FftStep(w) == \/ GetResources(w) \/ MakePlans(w) \/ FreePlans(w) \/ GiveUp(w)
              \/ Correlate(w)

ScrollNext == \/ DetectScroll \/ WaitAgain \/ EndPool \/ SendThread
              \/ \E w \in Workers : OutsideFn(w) \/ LockPlanner(w) \/ FftStep(w)

ScrollSpec == ScrollInit /\ [][ScrollNext]_allVars

(* Threads run when they can.  The plan lock is taken a bounded number of times
   by each thread, so weak fairness is enough for a thread that waits for it. *)
ScrollFair == /\ ScrollSpec
              /\ WF_allVars(SendThread)
              /\ \A w \in Workers : /\ WF_allVars(OutsideFn(w))
                                    /\ WF_allVars(LockPlanner(w) \/ FftStep(w))

-----------------------------------------------------------------------------
(* The regions detect_scroll indexes and apply_scroll_to_prevbuf moves pixels in
   never share a pixel, lie on whole tiles of the screen, and what a scroll of
   one uncovers is part of it: one worker's region, one region's memmoves and
   its poison never touch another's. *)
Apart(q, r) == q.x2 <= r.x1 \/ r.x2 <= q.x1 \/ q.y2 <= r.y1 \/ r.y2 <= q.y1

GridSound ==
    /\ \A i \in DOMAIN regions :
        LET r == regions[i]
        IN /\ r.x1 >= 0 /\ r.y1 >= 0
           /\ r.x2 <= TileLo(TileCount(screen.w)) /\ r.y2 <= TileLo(TileCount(screen.h))
           /\ \A n \in {r.x1, r.x2, r.y1, r.y2} : n % TILE_SIZE = 0
           /\ Exposed(r.x1, r.x2, r.dx) \subseteq r.x1..r.x2 - 1
           /\ Exposed(r.y1, r.y2, r.dy) \subseteq r.y1..r.y2 - 1
    /\ \A i, j \in DOMAIN regions :
        i # j => Apart(regions[i], regions[j])

(* server.scroll_regions has a place for every region of every screen the
   program may be started with. *)
RegionsFit == Len(regions) <= MAX_SCROLL_REGIONS

(* After apply_scroll_to_prevbuf, a pixel of a scrolled region is the one that
   was a shift away, or poison where the scroll uncovered its tile; and a pixel
   of no scrolled region is what it was.  The rows are moved in place: a row
   read after it was overwritten would show here. *)
Scrolled(p, r) == IF InExposed(p, r) THEN Poison ELSE p - Place(r.dx, r.dy)

ShiftExact ==
    phase = "compare" =>
        \A p \in Pixels :
            \/ \E i \in DOMAIN regions : /\ regions[i].detected
                                         /\ InRegion(p, regions[i])
                                         /\ prev[p] = Scrolled(p, regions[i])
            \/ /\ ~\E i \in DOMAIN regions : regions[i].detected /\ InRegion(p, regions[i])
               /\ prev[p] = p

(* FFTW's planner is not thread-safe: plans are made and destroyed by one
   thread at a time, the destructor of an ending thread included. *)
InPlanner == {w \in Workers : fn_pc[w] \in {"making", "freeing", "exiting"}}
PlannerSerial == \A v, w \in InPlanner : v = w
=============================================================================
