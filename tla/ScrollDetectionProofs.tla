------------------------ MODULE ScrollDetectionProofs ------------------------
(***************************************************************************)
(* The worker pool, for any finite set of workers and any count: its calls *)
(* return only when fn ran exactly once for every index and no worker is   *)
(* inside fn.  The count of finished indices and the workers that are busy *)
(* always add up to the indices handed out; that is the core of the        *)
(* inductive invariant.                                                    *)
(* Scroll detection uses the pool as ParallelFor describes it: what is     *)
(* proved of the pool holds while regions are correlated, whatever the     *)
(* screen, the shifts and the allocations that fail.  And FFTW's planner   *)
(* has one user at a time, for any number of workers.  Then the geometry   *)
(* of TileGrid, for every screen and every tile size, and what a scroll    *)
(* does to the pixels.                                                     *)
(***************************************************************************)
EXTENDS ScrollDetection, NumberFacts


Running(i) == \E w \in Workers : w_pc[w] = "run" /\ w_idx[w] = i

OwnIndex ==
    /\ \A w \in Busy : w_idx[w] \in 0..next_idx - 1
    /\ \A v, w \in Busy : v # w => w_idx[v] # w_idx[w]

RanOnce ==
    \A i \in Indices : ran[i] = IF i < next_idx /\ ~Running(i) THEN 1 ELSE 0

AllAccounted ==
    /\ done_count + Cardinality(Busy) = next_idx
    /\ c_pc \in {"out", "joining"} => done_count = count

PoolInv == TypeOK /\ OwnIndex /\ RanOnce /\ AllAccounted

LEMMA BusyFinite ==
    IsFiniteSet(Busy) /\ Cardinality(Busy) \in Nat
<1>1. Busy \subseteq Workers
  BY DEF Busy
<1>. QED
  BY <1>1, WorkersAssumption, FS_Subset, FS_CardinalityType

LEMMA PoolInvImplies == PoolInv => ExactlyOnce /\ NoneAfterReturn
<1> SUFFICES ASSUME PoolInv PROVE ExactlyOnce /\ NoneAfterReturn
  OBVIOUS
<1>1. \A i \in Indices : ran[i] <= 1
  BY DEF PoolInv, RanOnce
<1>2. ASSUME c_pc = "out"
      PROVE  Busy = {} /\ \A i \in 0..count - 1 : ran[i] = 1
  <2>1. Cardinality(Busy) = 0 /\ next_idx = count
    BY <1>2, BusyFinite, CountsAssumption DEF PoolInv, AllAccounted, TypeOK
  <2>2. Busy = {}
    BY <2>1, BusyFinite, FS_EmptySet
  <2>3. \A i \in 0..count - 1 : i \in Indices /\ i < next_idx
    BY <2>1, CountsAssumption DEF PoolInv, TypeOK, Indices
  <2>. QED
    BY <2>2, <2>3 DEF PoolInv, RanOnce, Running, Busy
<1>. QED
  BY <1>1, <1>2 DEF ExactlyOnce, NoneAfterReturn

LEMMA InitPoolInv == Init => PoolInv
<1> SUFFICES ASSUME Init PROVE PoolInv
  OBVIOUS
<1>1. Busy = {}
  BY DEF Init, Busy
<1>2. TypeOK
  <2>1. shutdown \in BOOLEAN /\ c_pc \in {"out", "waiting", "woken", "joining"}
    BY Zenon DEF Init
  <2>2. /\ w_pc \in [Workers -> {"absent", "asleep", "awake", "run", "ran", "exited"}]
        /\ w_idx \in [Workers -> Int] /\ ran \in [Indices -> Nat]
    BY DEF Init
  <2>3. /\ count \in 0..MaxCount /\ next_idx \in 0..count /\ done_count \in 0..count
        /\ calls \in 0..MaxCalls
    BY CountsAssumption DEF Init
  <2>. QED
    BY <2>1, <2>2, <2>3 DEF TypeOK
<1>3. OwnIndex /\ RanOnce
  <2>1. OwnIndex
    BY <1>1 DEF OwnIndex
  <2>2. \A i \in Indices : ran[i] = 0 /\ ~(i < next_idx)
    BY CountsAssumption DEF Init, Indices
  <2>. QED
    BY <2>1, <2>2 DEF RanOnce
<1>4. AllAccounted
  BY <1>1, FS_EmptySet DEF Init, AllAccounted
<1>. QED
  BY <1>2, <1>3, <1>4 DEF PoolInv

(* The loop's head hands an index to a worker that is not busy and leaves the
   others alone; given what the step did before it, in terms of the set of
   workers still busy and of the indices finished. *)
LEMMA TakeKeeps ==
    ASSUME PoolInv, NEW w \in Workers, w_pc[w] \in {"awake", "ran"}, Take(w),
           count' = count, shutdown' = shutdown, calls' = calls, ran' = ran,
           c_pc' \in {"out", "waiting", "woken", "joining"},
           c_pc' \in {"out", "joining"} => c_pc' = c_pc,
           done_count' = IF w_pc[w] = "ran" THEN done_count + 1 ELSE done_count
    PROVE  PoolInv'
<1>. DEFINE Others == Busy \ {w}
<1>1. /\ IsFiniteSet(Others) /\ Cardinality(Others) \in Nat
      /\ Cardinality(Busy) = IF w_pc[w] = "ran" THEN Cardinality(Others) + 1
                             ELSE Cardinality(Others)
  <2>1. CASE w_pc[w] = "ran"
    <3>1. w \in Busy
      BY <2>1 DEF Busy
    <3>2. IsFiniteSet(Others) /\ Cardinality(Others) = Cardinality(Busy) - 1
      BY <3>1, BusyFinite, FS_RemoveElement
    <3>. QED
      BY <2>1, <3>2, BusyFinite, FS_CardinalityType
  <2>2. CASE w_pc[w] = "awake"
    <3>1. Others = Busy
      BY <2>2 DEF Busy
    <3>. QED
      BY <3>1, <2>2, BusyFinite
  <2>. QED
    BY <2>1, <2>2
<1>2. done_count' + Cardinality(Others) = next_idx /\ done_count' \in 0..count
  BY <1>1, CountsAssumption DEF PoolInv, AllAccounted, TypeOK
<1>3. c_pc' \in {"out", "joining"} => done_count' = count
  <2> SUFFICES ASSUME c_pc' \in {"out", "joining"} PROVE done_count' = count
    OBVIOUS
  <2>1. done_count = count
    BY DEF PoolInv, AllAccounted
  <2>. QED
    BY <1>1, <1>2, <2>1, CountsAssumption DEF PoolInv, AllAccounted, TypeOK
<1>4. CASE ~shutdown /\ next_idx < count
  <2>1. /\ w_pc' = [w_pc EXCEPT ![w] = "run"]
        /\ w_idx' = [w_idx EXCEPT ![w] = next_idx]
        /\ next_idx' = next_idx + 1
    BY <1>4 DEF Take
  <2>2. TypeOK'
    BY <1>2, <1>4, <2>1, CountsAssumption DEF PoolInv, TypeOK
  <2>3. Busy' = Others \cup {w} /\ w \notin Others
    BY <2>1 DEF Busy, PoolInv, TypeOK
  <2>4. Cardinality(Busy') = Cardinality(Others) + 1
    BY <1>1, <2>3, FS_AddElement
  <2>5. AllAccounted'
    BY <1>1, <1>2, <1>3, <2>1, <2>4, CountsAssumption
    DEF PoolInv, TypeOK, AllAccounted
  <2>6. OwnIndex'
    BY <2>1, <2>3, CountsAssumption DEF PoolInv, TypeOK, OwnIndex, Busy
  <2>7. RanOnce'
    <3> SUFFICES ASSUME NEW i \in Indices
                 PROVE ran[i] = IF i < next_idx' /\ ~Running(i)' THEN 1 ELSE 0
      BY DEF RanOnce
    <3>1. CASE i = next_idx
      BY <3>1, <2>1, CountsAssumption
      DEF PoolInv, TypeOK, RanOnce, Running, Indices
    <3>2. CASE i # next_idx
      <4>1. Running(i)' <=> Running(i)
        BY <3>2, <2>1 DEF Running, PoolInv, TypeOK
      <4>2. i < next_idx' <=> i < next_idx
        BY <3>2, <2>1, CountsAssumption DEF PoolInv, TypeOK, Indices
      <4>. QED
        BY <4>1, <4>2 DEF PoolInv, RanOnce
    <3>. QED
      BY <3>1, <3>2
  <2>. QED
    BY <2>2, <2>5, <2>6, <2>7 DEF PoolInv
<1>5. CASE shutdown \/ ~(next_idx < count)
  <2>1. /\ \E pc \in {"exited", "asleep"} : w_pc' = [w_pc EXCEPT ![w] = pc]
        /\ w_idx' = w_idx /\ next_idx' = next_idx
    BY <1>5 DEF Take
  <2>2. TypeOK'
    BY <1>2, <2>1, CountsAssumption DEF PoolInv, TypeOK
  <2>3. Busy' = Others
    BY <2>1 DEF Busy, PoolInv, TypeOK
  <2>4. AllAccounted'
    BY <1>2, <1>3, <2>1, <2>3 DEF AllAccounted
  <2>5. OwnIndex'
    BY <2>1, <2>3 DEF PoolInv, OwnIndex
  <2>6. \A i \in Indices : Running(i)' <=> Running(i)
    BY <2>1 DEF Running, PoolInv, TypeOK
  <2>7. RanOnce'
    BY <2>1, <2>6 DEF PoolInv, RanOnce
  <2>. QED
    BY <2>2, <2>4, <2>5, <2>7 DEF PoolInv
<1>. QED
  BY <1>4, <1>5 DEF PoolInv, TypeOK

LEMMA WorkInv == ASSUME PoolInv, NEW w \in Workers, Work(w) PROVE PoolInv'
<1>1. /\ w_pc[w] = "awake" /\ Take(w) /\ count' = count /\ shutdown' = shutdown
      /\ calls' = calls /\ ran' = ran /\ c_pc' = c_pc /\ done_count' = done_count
  BY DEF Work
<1>. QED
  BY <1>1, TakeKeeps DEF PoolInv, TypeOK

LEMMA FinishInv == ASSUME PoolInv, NEW w \in Workers, Finish(w) PROVE PoolInv'
<1>1. /\ w_pc[w] = "ran" /\ Take(w) /\ count' = count /\ shutdown' = shutdown
      /\ calls' = calls /\ ran' = ran /\ done_count' = done_count + 1
      /\ c_pc' \in {"out", "waiting", "woken", "joining"}
      /\ c_pc' \in {"out", "joining"} => c_pc' = c_pc
  BY DEF Finish, PoolInv, TypeOK
<1>. QED
  BY <1>1, TakeKeeps

LEMMA RunFnInv == ASSUME PoolInv, NEW w \in Workers, RunFn(w) PROVE PoolInv'
<1>1. /\ w_pc[w] = "run" /\ w_pc' = [w_pc EXCEPT ![w] = "ran"]
      /\ ran' = [ran EXCEPT ![w_idx[w]] = @ + 1]
      /\ UNCHANGED <<c_pc, w_idx, poolVars, calls>>
  BY DEF RunFn
<1>2. Busy' = Busy /\ w \in Busy
  BY <1>1 DEF Busy, PoolInv, TypeOK
<1>3. w_idx[w] \in Indices /\ w_idx[w] < next_idx
  BY <1>2, CountsAssumption DEF PoolInv, TypeOK, OwnIndex, Indices
<1>4. TypeOK'
  BY <1>1, <1>3 DEF PoolInv, TypeOK, poolVars
<1>5. OwnIndex' /\ AllAccounted'
  BY <1>1, <1>2 DEF PoolInv, OwnIndex, AllAccounted, poolVars
<1>6. RanOnce'
  <2> SUFFICES ASSUME NEW i \in Indices
               PROVE ran'[i] = IF i < next_idx' /\ ~Running(i)' THEN 1 ELSE 0
    BY DEF RanOnce
  <2>1. CASE i = w_idx[w]
    <3>1. Running(i) /\ ~Running(i)'
      <4>1. \A v \in Workers \ {w} : ~(w_pc[v] = "run" /\ w_idx[v] = i)
        BY <2>1, <1>2 DEF PoolInv, OwnIndex, Busy
      <4>. QED
        BY <4>1, <2>1, <1>1 DEF Running, PoolInv, TypeOK
    <3>2. ran[i] = 0
      BY <3>1 DEF PoolInv, RanOnce
    <3>3. ran'[i] = 1 /\ i < next_idx'
      BY <3>2, <2>1, <1>1, <1>3 DEF PoolInv, TypeOK, poolVars
    <3>. QED
      BY <3>1, <3>3
  <2>2. CASE i # w_idx[w]
    <3>1. Running(i)' <=> Running(i)
      BY <2>2, <1>1 DEF Running, PoolInv, TypeOK
    <3>2. ran'[i] = ran[i] /\ next_idx' = next_idx
      BY <2>2, <1>1 DEF PoolInv, TypeOK, poolVars
    <3>. QED
      BY <3>1, <3>2 DEF PoolInv, RanOnce
  <2>. QED
    BY <2>1, <2>2
<1>. QED
  BY <1>4, <1>5, <1>6 DEF PoolInv

LEMMA CallerInv == ASSUME PoolInv, Caller PROVE PoolInv'
<1>1. CASE Call
  <2>1. Busy = {}
    BY <1>1, PoolInvImplies DEF Call, NoneAfterReturn
  <2>2. Busy' = {} /\ \A i \in Indices : ~Running(i)'
    BY <1>1, <2>1 DEF Call, Woken, Busy, Running
  <2>3. TypeOK'
    BY <1>1, CountsAssumption DEF Call, Woken, PoolInv, TypeOK, Indices
  <2>4. OwnIndex' /\ RanOnce'
    BY <1>1, <2>2 DEF Call, OwnIndex, RanOnce, Indices
  <2>5. AllAccounted'
    BY <1>1, <2>2, FS_EmptySet DEF Call, AllAccounted
  <2>. QED
    BY <2>3, <2>4, <2>5 DEF PoolInv
<1>2. CASE WaitReturns \/ Return \/ Join
  <2>1. UNCHANGED <<w_pc, w_idx, poolVars, calls, ran>>
    BY <1>2 DEF WaitReturns, Return, Join
  <2>2. TypeOK'
    BY <1>2, <2>1 DEF WaitReturns, Return, Join, PoolInv, TypeOK, poolVars
  <2>3. Busy' = Busy /\ \A i \in Indices : Running(i)' <=> Running(i)
    BY <2>1 DEF Busy, Running
  <2>4. OwnIndex' /\ RanOnce'
    BY <2>1, <2>3 DEF PoolInv, OwnIndex, RanOnce, poolVars
  <2>5. AllAccounted'
    BY <1>2, <2>1, <2>3, CountsAssumption
    DEF WaitReturns, Return, Join, PoolInv, TypeOK, AllAccounted, poolVars
  <2>. QED
    BY <2>2, <2>4, <2>5 DEF PoolInv
<1>3. CASE Cleanup
  <2>1. Busy' = Busy /\ \A i \in Indices : Running(i)' <=> Running(i)
    BY <1>3 DEF Cleanup, Woken, Busy, Running
  <2>2. TypeOK'
    BY <1>3 DEF Cleanup, Woken, PoolInv, TypeOK
  <2>3. OwnIndex' /\ RanOnce' /\ AllAccounted'
    BY <1>3, <2>1 DEF Cleanup, PoolInv, OwnIndex, RanOnce, AllAccounted
  <2>. QED
    BY <2>2, <2>3 DEF PoolInv
<1>. QED
  BY <1>1, <1>2, <1>3 DEF Caller

LEMMA StepPoolInv == PoolInv /\ [Next]_vars => PoolInv'
<1> SUFFICES ASSUME PoolInv, [Next]_vars PROVE PoolInv'
  OBVIOUS
<1>1. ASSUME NEW w \in Workers, Worker(w) PROVE PoolInv'
  BY <1>1, WorkInv, RunFnInv, FinishInv DEF Worker
<1>2. CASE UNCHANGED vars
  BY <1>2 DEF vars, poolVars, PoolInv, TypeOK, OwnIndex, RanOnce, Running,
              AllAccounted, Busy
<1>. QED
  BY <1>1, <1>2, CallerInv DEF Next

(* The inductive invariant of the pool: indices handed out, busy workers and
   finished indices always add up. *)
THEOREM PoolInvariant == Spec => []PoolInv
  BY InitPoolInv, StepPoolInv, PTL DEF Spec

(* parallel_for calls fn exactly once for every index, for every number of
   workers and of indices. *)
THEOREM EachIndexOnce == Spec => []ExactlyOnce
  BY PoolInvariant, PoolInvImplies, PTL

(* No worker is inside fn once parallel_for has returned. *)
THEOREM NoFnAfterReturn == Spec => []NoneAfterReturn
  BY PoolInvariant, PoolInvImplies, PTL

-----------------------------------------------------------------------------

(* Every step is a step of the pool or leaves the pool alone. *)
THEOREM ScrollIsPool == ScrollSpec => Spec
<1>1. ScrollInit => Init
  BY DEF ScrollInit
<1>2. [ScrollNext]_allVars => [Next]_vars
  <2> SUFFICES ASSUME [ScrollNext]_allVars PROVE Next \/ UNCHANGED vars
    BY DEF vars
  <2> USE DEF poolAll, vars, poolVars
  <2>1. CASE DetectScroll \/ WaitAgain \/ EndPool
    BY <2>1 DEF DetectScroll, WaitAgain, EndPool, Next, Caller
  <2>2. CASE Detected \/ PoolEnded
    BY <2>2 DEF Detected, PoolEnded, Next, Caller
  <2>3. CASE SkipRegion \/ MoveRow \/ PoisonExposed \/ Applied
    BY <2>3 DEF SkipRegion, MoveRow, PoisonExposed, Applied
  <2>4. ASSUME NEW w \in Workers, OutsideFn(w) \/ GiveUp(w) \/ Correlate(w)
        PROVE  Next
    BY <2>4 DEF OutsideFn, GiveUp, Correlate, Next, Worker
  <2>5. ASSUME NEW w \in Workers,
               LockPlanner(w) \/ GetResources(w) \/ MakePlans(w) \/ FreePlans(w)
        PROVE  UNCHANGED vars
    BY <2>5 DEF LockPlanner, GetResources, MakePlans, FreePlans
  <2>6. CASE UNCHANGED allVars
    BY <2>6 DEF allVars
  <2> QED
    BY <2>1, <2>2, <2>3, <2>4, <2>5, <2>6 DEF ScrollNext, SendThread, FftStep
<1> QED
  BY <1>1, <1>2, PTL DEF ScrollSpec, Spec

(* Hence each region is correlated once, and by nobody once detect_scroll has
   its results. *)
THEOREM RegionsOnce == ScrollSpec => []ExactlyOnce /\ []NoneAfterReturn
BY ScrollIsPool, EachIndexOnce, NoFnAfterReturn, PTL

FnPlaces == {"entry", "make", "making", "free", "freeing", "give_up", "correlate",
             "exiting", "gone"}
Inside == {"making", "freeing", "exiting"}

(* A thread between its lock and its unlock of fftw_plan_lock holds it. *)
PlannerInv ==
    /\ fn_pc \in [Workers -> FnPlaces]
    /\ \A w \in Workers : fn_pc[w] \in Inside => planner = w

LEMMA NotInside ==
    ASSUME NEW w \in Workers, NEW s \in FnPlaces \ Inside, PlannerInv,
           fn_pc' = [fn_pc EXCEPT ![w] = s],
           planner' = planner \/ fn_pc[w] \in Inside
    PROVE  PlannerInv'
<1>1. fn_pc' \in [Workers -> FnPlaces] /\ fn_pc'[w] \notin Inside
  BY DEF PlannerInv
<1>2. ASSUME NEW v \in Workers, fn_pc'[v] \in Inside PROVE planner' = v
  <2>1. v # w /\ fn_pc[v] \in Inside
    BY <1>1, <1>2 DEF PlannerInv
  <2> QED
    BY <2>1 DEF PlannerInv
<1> QED
  BY <1>1, <1>2 DEF PlannerInv

(* fftw_plan_lock keeps a second thread out of the planner: the plans of a new
   thread, the release of incomplete ones and the destructors of ending threads
   exclude one another. *)
THEOREM PlannerAlone == ScrollSpec => []PlannerSerial
<1>1. ScrollInit => PlannerInv
  BY DEF ScrollInit, PlannerInv, FnPlaces, Inside
<1>2. PlannerInv /\ [ScrollNext]_allVars => PlannerInv'
  <2> SUFFICES ASSUME PlannerInv, [ScrollNext]_allVars PROVE PlannerInv'
    OBVIOUS
  <2>1. CASE UNCHANGED fftVars
    BY <2>1 DEF fftVars, PlannerInv
  <2>2. ASSUME NEW w \in Workers, LockPlanner(w) PROVE PlannerInv'
    <3>1. PICK s \in Inside : fn_pc' = [fn_pc EXCEPT ![w] = s]
      BY <2>2 DEF LockPlanner, Goto, Inside
    <3>2. planner = Nobody /\ planner' = w
      BY <2>2 DEF LockPlanner
    <3>3. fn_pc' \in [Workers -> FnPlaces]
      BY <3>1 DEF PlannerInv, Inside, FnPlaces
    <3>4. \A v \in Workers : fn_pc[v] \notin Inside
      BY <3>2, NobodyAssumption DEF PlannerInv
    <3>5. \A v \in Workers \ {w} : fn_pc'[v] = fn_pc[v]
      BY <3>1 DEF PlannerInv
    <3> QED
      BY <3>2, <3>3, <3>4, <3>5 DEF PlannerInv
  <2>3. ASSUME NEW w \in Workers, GetResources(w) PROVE PlannerInv'
    <3>1. PICK s \in {"correlate", "make", "give_up", "free"} :
            fn_pc' = [fn_pc EXCEPT ![w] = s]
      BY <2>3 DEF GetResources, Goto
    <3>2. s \in FnPlaces \ Inside /\ planner' = planner
      BY <2>3 DEF GetResources, FnPlaces, Inside
    <3> QED
      BY <3>1, <3>2, NotInside
  <2>4. ASSUME NEW w \in Workers, MakePlans(w) PROVE PlannerInv'
    <3>1. PICK s \in {"correlate", "free"} : fn_pc' = [fn_pc EXCEPT ![w] = s]
      BY <2>4 DEF MakePlans, Goto
    <3>2. s \in FnPlaces \ Inside /\ fn_pc[w] \in Inside
      BY <2>4 DEF MakePlans, InFn, FnPlaces, Inside
    <3> QED
      BY <3>1, <3>2, NotInside
  <2>5. ASSUME NEW w \in Workers, FreePlans(w) PROVE PlannerInv'
    <3>1. PICK s \in {"give_up", "gone"} : fn_pc' = [fn_pc EXCEPT ![w] = s]
      BY <2>5 DEF FreePlans, Goto
    <3>2. s \in FnPlaces \ Inside /\ fn_pc[w] \in Inside
      BY <2>5 DEF FreePlans, InFn, FnPlaces, Inside
    <3> QED
      BY <3>1, <3>2, NotInside
  <2>6. ASSUME NEW w \in Workers, GiveUp(w) \/ Correlate(w) PROVE PlannerInv'
    <3>1. /\ "entry" \in FnPlaces \ Inside
          /\ fn_pc' = [fn_pc EXCEPT ![w] = "entry"] /\ planner' = planner
      BY <2>6 DEF GiveUp, Correlate, Goto, FnPlaces, Inside
    <3> QED
      BY <3>1, NotInside
  <2>7. CASE SendThread \/ DetectScroll \/ WaitAgain \/ EndPool
    BY <2>1, <2>7 DEF SendThread, DetectScroll, WaitAgain, EndPool, Detected,
       SkipRegion, MoveRow, PoisonExposed, Applied, PoolEnded
  <2>8. ASSUME NEW w \in Workers, OutsideFn(w) PROVE PlannerInv'
    BY <2>1, <2>8 DEF OutsideFn
  <2>9. CASE UNCHANGED allVars
    BY <2>1, <2>9 DEF allVars
  <2> QED
    BY <2>2, <2>3, <2>4, <2>5, <2>6, <2>7, <2>8, <2>9 DEF ScrollNext, FftStep
<1>3. PlannerInv => PlannerSerial
  BY DEF PlannerInv, PlannerSerial, InPlanner, Inside
<1> QED
  BY <1>1, <1>2, <1>3, PTL DEF ScrollSpec
-----------------------------------------------------------------------------
(* The geometry: damage marks the tiles it touches, the cells of the region grid
   are apart, and what a scroll uncovers is poisoned and stays in its region. *)
LEMMA Quotient ==
    ASSUME NEW n \in Nat
    PROVE  /\ n \div TILE_SIZE \in Nat
           /\ (n \div TILE_SIZE) * TILE_SIZE <= n
           /\ n < (n \div TILE_SIZE) * TILE_SIZE + TILE_SIZE
  BY GridAssumption

LEMMA Ordered ==
    ASSUME NEW a \in Nat, NEW b \in Nat, a < b
    PROVE  a * TILE_SIZE + TILE_SIZE <= b * TILE_SIZE
<1>1. (a + 1) * TILE_SIZE = a * TILE_SIZE + TILE_SIZE
  BY GridAssumption
<1>2. (a + 1) * TILE_SIZE <= b * TILE_SIZE
  BY GridAssumption
<1> QED
  BY <1>1, <1>2, GridAssumption

(* Rounding down to whole tiles. *)
LEMMA DownFacts ==
    ASSUME NEW n \in Nat
    PROVE  /\ Down(n) \in Nat /\ Down(n) <= n /\ n < Down(n) + TILE_SIZE
           /\ \E k \in Nat : Down(n) = k * TILE_SIZE
<1> DEFINE q == n \div TILE_SIZE
<1>1. q \in Nat /\ q * TILE_SIZE <= n /\ n < q * TILE_SIZE + TILE_SIZE
  BY Quotient
<1>2. Down(n) = q * TILE_SIZE
  BY DEF Down
<1> HIDE DEF q
<1> QED
  BY <1>1, <1>2, GridAssumption

LEMMA DownMultiple ==
    ASSUME NEW k \in Nat
    PROVE  k * TILE_SIZE \in Nat /\ Down(k * TILE_SIZE) = k * TILE_SIZE
<1>1. k * TILE_SIZE \in Nat
  BY GridAssumption
<1> DEFINE q == (k * TILE_SIZE) \div TILE_SIZE
<1>2. q \in Nat /\ q * TILE_SIZE <= k * TILE_SIZE /\ k * TILE_SIZE < q * TILE_SIZE + TILE_SIZE
  BY <1>1, Quotient
<1> HIDE DEF q
<1>3. ~(q < k) /\ ~(k < q)
  BY <1>2, Ordered, GridAssumption
<1>4. q = k
  BY <1>2, <1>3
<1> QED
  BY <1>1, <1>4 DEF q, Down

(* Nothing aligned lies strictly between n and what it is rounded to. *)
LEMMA DownLargest ==
    ASSUME NEW n \in Nat, NEW k \in Nat, k * TILE_SIZE <= n
    PROVE  k * TILE_SIZE <= Down(n)
<1> DEFINE q == n \div TILE_SIZE
<1>1. q \in Nat /\ q * TILE_SIZE <= n /\ n < q * TILE_SIZE + TILE_SIZE
  BY Quotient
<1>2. Down(n) = q * TILE_SIZE
  BY DEF Down
<1> HIDE DEF q
<1>3. ~(q < k)
  BY <1>1, Ordered, GridAssumption
<1>4. CASE k = q
  BY <1>2, <1>4, GridAssumption
<1>5. CASE k < q
  <2>1. k * TILE_SIZE + TILE_SIZE <= q * TILE_SIZE
    BY <1>5, <1>1, Ordered
  <2> QED
    BY <2>1, <1>1, <1>2, GridAssumption
<1> QED
  BY <1>1, <1>3, <1>4, <1>5

LEMMA UpFacts ==
    ASSUME NEW n \in Nat
    PROVE  /\ Up(n) \in Nat /\ n <= Up(n)
           /\ \A k \in Nat : n <= k * TILE_SIZE => Up(n) <= k * TILE_SIZE
<1> DEFINE q == (n + TILE_SIZE - 1) \div TILE_SIZE
<1>1. n + TILE_SIZE - 1 \in Nat
  BY GridAssumption
<1>2. q \in Nat /\ q * TILE_SIZE <= n + TILE_SIZE - 1 /\ n + TILE_SIZE - 1 < q * TILE_SIZE + TILE_SIZE
  BY <1>1, Quotient
<1>3. Up(n) = q * TILE_SIZE
  BY DEF Up, Down
<1> HIDE DEF q
<1>4. ASSUME NEW k \in Nat, n <= k * TILE_SIZE
      PROVE  q * TILE_SIZE <= k * TILE_SIZE
  <2>1. k < q => k * TILE_SIZE + TILE_SIZE <= q * TILE_SIZE
    BY <1>2, Ordered
  <2>2. ~(k < q)
    BY <2>1, <1>2, <1>4, GridAssumption
  <2>3. CASE q = k
    BY <2>3, <1>2, GridAssumption
  <2>4. CASE q < k
    <3>1. q * TILE_SIZE + TILE_SIZE <= k * TILE_SIZE
      BY <2>4, <1>2, Ordered
    <3> QED
      BY <3>1, <1>2, GridAssumption
  <2> QED
    BY <2>2, <2>3, <2>4, <1>2
<1>5. q * TILE_SIZE \in Nat
  BY <1>2, GridAssumption
<1> QED
  BY <1>2, <1>3, <1>4, <1>5, GridAssumption

(* Every damaged pixel that lies in a tile at all lies in one that output_frame
   marks; the pixels past the last whole tile lie in none (README, Findings). *)
THEOREM DamageIsMarked ==
    ASSUME NEW extent \in Nat, NEW lo \in Nat, NEW hi \in Nat,
           NEW p \in lo..hi - 1, p < TileLo(TileCount(extent))
    PROVE  \E t \in DirtySpan(lo, hi, extent) : p \in TileLo(t)..TileHi(t, extent) - 1
<1> DEFINE t == p \div TILE_SIZE
<1>1. p \in Nat /\ hi \in Nat /\ p + TILE_SIZE <= hi + TILE_SIZE - 1
  BY GridAssumption
<1>2. t \in Nat /\ t * TILE_SIZE <= p /\ p < t * TILE_SIZE + TILE_SIZE
  BY <1>1, Quotient
<1>3. TileCount(extent) \in Nat /\ TileLo(TileCount(extent)) <= extent
  BY Quotient DEF TileCount, TileLo
<1> HIDE DEF t
<1>4. t < TileCount(extent)
  <2> SUFFICES ASSUME TileCount(extent) <= t PROVE FALSE
    BY <1>2, <1>3
  <2>1. TileCount(extent) * TILE_SIZE <= t * TILE_SIZE
    <3>1. CASE TileCount(extent) = t
      BY <3>1, <1>2, GridAssumption
    <3>2. CASE TileCount(extent) < t
      <4>1. TileCount(extent) * TILE_SIZE + TILE_SIZE <= t * TILE_SIZE
        BY <3>2, <1>2, <1>3, Ordered
      <4> QED
        BY <4>1, <1>2, <1>3, GridAssumption
    <3> QED
      BY <3>1, <3>2, <1>2, <1>3
  <2> QED
    BY <2>1, <1>1, <1>2, <1>3, GridAssumption DEF TileLo
<1>5. t < (hi + TILE_SIZE - 1) \div TILE_SIZE
  <2> DEFINE u == (hi + TILE_SIZE - 1) \div TILE_SIZE
  <2>1. u \in Nat /\ hi + TILE_SIZE - 1 < u * TILE_SIZE + TILE_SIZE
    BY <1>1, Quotient, GridAssumption
  <2> HIDE DEF u
  <2>2. u <= t => u * TILE_SIZE <= t * TILE_SIZE
    <3>1. u < t => u * TILE_SIZE + TILE_SIZE <= t * TILE_SIZE
      BY <2>1, <1>2, Ordered
    <3> QED
      BY <3>1, <2>1, <1>2, GridAssumption
  <2>3. ~(u <= t)
    BY <2>1, <2>2, <1>1, <1>2, GridAssumption
  <2> QED
    BY <2>1, <2>3, <1>2 DEF u
<1>6. lo \div TILE_SIZE <= t
  <2> DEFINE l == lo \div TILE_SIZE
  <2>1. l \in Nat /\ l * TILE_SIZE <= lo
    BY Quotient
  <2> HIDE DEF l
  <2>2. t < l => t * TILE_SIZE + TILE_SIZE <= l * TILE_SIZE
    BY <2>1, <1>2, Ordered
  <2>3. ~(t < l)
    BY <2>1, <2>2, <1>1, <1>2, GridAssumption
  <2> QED
    BY <2>1, <2>3, <1>2 DEF l
<1>7. t \in DirtySpan(lo, hi, extent)
  BY <1>1, <1>2, <1>3, <1>4, <1>5, <1>6, Quotient, GridAssumption DEF DirtySpan, Least
<1>8. p \in TileLo(t)..TileHi(t, extent) - 1
  BY <1>1, <1>2, <1>3, GridAssumption DEF TileLo, TileHi, Least
<1> QED
  BY <1>7, <1>8

-----------------------------------------------------------------------------
(* The cells of detect_scroll's grid. *)

LEMMA CellFacts ==
    ASSUME NEW extent \in Nat, extent >= 2 * TILE_SIZE, NEW i \in Nat
    PROVE  /\ \E k \in Nat \ {0} : CellExtent(extent) = k * TILE_SIZE
           /\ \E k \in Nat : CellLo(i, extent) = k * TILE_SIZE
           /\ CellLo(i, extent) = TILE_SIZE + i * CellExtent(extent)
<1> DEFINE C == Cells(extent)
           E == CellExtent(extent)
<1>1. C \in Nat \ {0}
  BY GridAssumption DEF Cells
<1>2. (extent - 2 * TILE_SIZE) \div C \in Nat
  BY <1>1, GridAssumption
<1>3. PICK k \in Nat \ {0} : E = k * TILE_SIZE
  <2>1. PICK q \in Nat : Down((extent - 2 * TILE_SIZE) \div C) = q * TILE_SIZE
    BY <1>2, DownFacts
  <2>2. CASE q * TILE_SIZE < TILE_SIZE
    <3>1. E = 1 * TILE_SIZE
      BY <2>1, <2>2, GridAssumption DEF CellExtent
    <3> QED
      BY <3>1
  <2>3. CASE ~(q * TILE_SIZE < TILE_SIZE)
    <3>1. q # 0
      BY <2>3, GridAssumption
    <3>2. E = q * TILE_SIZE
      BY <2>1, <2>3 DEF CellExtent
    <3> QED
      BY <3>1, <3>2
  <2> QED
    BY <2>2, <2>3
<1> HIDE DEF E
<1>4. 1 + i * k \in Nat /\ (1 + i * k) * TILE_SIZE = TILE_SIZE + i * E
  BY <1>3, GridAssumption
<1>5. CellLo(i, extent) = (1 + i * k) * TILE_SIZE
  BY <1>4, DownMultiple DEF CellLo, E
<1> QED
  BY <1>3, <1>4, <1>5 DEF E

(* Two cells of an axis share no pixel, and none reaches past the last whole
   tile: one worker's region is never another's, for every screen detect_scroll
   can meet (parse_args asks for 640 by 480 at least). *)
THEOREM CellsApart ==
    ASSUME NEW extent \in Nat, extent >= 2 * TILE_SIZE,
           NEW i \in Nat, NEW j \in Nat, i < j, j < Cells(extent)
    PROVE  /\ CellHi(i, extent) <= CellLo(j, extent)
           /\ CellHi(j, extent) <= TileLo(TileCount(extent))
<1> DEFINE E == CellExtent(extent)
<1>1. Cells(extent) \in Nat
  BY GridAssumption DEF Cells
<1>2. PICK k \in Nat \ {0} : E = k * TILE_SIZE
  BY CellFacts
<1>3. E \in Nat
  BY <1>2, GridAssumption
<1>4. /\ CellLo(i, extent) = TILE_SIZE + i * E
      /\ CellLo(j, extent) = TILE_SIZE + j * E
  BY CellFacts
<1>5. Down(extent) = TileLo(TileCount(extent)) /\ Down(extent) \in Nat
  BY DownFacts DEF Down, TileLo, TileCount
<1>6. i # Cells(extent) - 1
  BY <1>1
<1> HIDE DEF E
<1>7. TILE_SIZE + i * E + E <= TILE_SIZE + j * E
  <2>1. (i + 1) * E <= j * E
    BY <1>3
  <2>2. (i + 1) * E = i * E + E
    BY <1>3
  <2> QED
    BY <2>1, <2>2, <1>3, GridAssumption
<1>8. Up(CellLo(i, extent) + E) <= TILE_SIZE + i * E + E
  <2>1. 1 + i * k + k \in Nat
    BY <1>2
  <2>2. (1 + i * k + k) * TILE_SIZE = TILE_SIZE + i * E + E
    BY <1>2, GridAssumption
  <2>3. CellLo(i, extent) + E \in Nat /\ CellLo(i, extent) + E = (1 + i * k + k) * TILE_SIZE
    BY <2>2, <1>3, <1>4, GridAssumption
  <2> QED
    BY <2>1, <2>2, <2>3, UpFacts
<1>9. CellLo(i, extent) + E \in Nat
  BY <1>3, <1>4, GridAssumption
<1>10. Up(CellLo(i, extent) + E) \in Nat
  BY <1>9, UpFacts
<1>11. CellHi(i, extent) <= Up(CellLo(i, extent) + E)
  BY <1>5, <1>6, <1>10 DEF CellHi, Least, E
<1>12. CellHi(j, extent) <= Down(extent)
  <2> DEFINE h == IF j = Cells(extent) - 1 THEN Down(extent - TILE_SIZE)
                  ELSE Up(CellLo(j, extent) + CellExtent(extent))
  <2>1. h \in Nat
    <3>1. extent - TILE_SIZE \in Nat /\ CellLo(j, extent) + CellExtent(extent) \in Nat
      BY <1>3, <1>4, GridAssumption DEF E
    <3> QED
      BY <3>1, DownFacts, UpFacts
  <2>2. CellHi(j, extent) = Least(h, Down(extent))
    BY DEF CellHi
  <2> HIDE DEF h
  <2> QED
    BY <2>1, <2>2, <1>5 DEF Least
<1>13. CellHi(i, extent) \in Int
  BY <1>5, <1>6, <1>10 DEF CellHi, Least, E
<1> QED
  BY <1>3, <1>4, <1>5, <1>7, <1>8, <1>10, <1>11, <1>12, <1>13, GridAssumption

-----------------------------------------------------------------------------
(* What compute_scroll_rects says of an axis: source and destination have one
   length and lie in the region, they are d apart, and a pixel of the region
   that no pixel moves to is exposed, which apply_scroll_to_prevbuf poisons. *)
THEOREM UncoveredIsExposed ==
    ASSUME NEW m \in Nat, NEW n \in Nat, m < n,
           NEW d \in Int, Abs(d) < n * TILE_SIZE - m * TILE_SIZE
    PROVE  LET lo == m * TILE_SIZE
               hi == n * TILE_SIZE
           IN  /\ lo <= SrcLo(lo, d) /\ SrcHi(hi, d) <= hi
               /\ lo <= DstLo(lo, d) /\ DstHi(hi, d) <= hi
               /\ DstLo(lo, d) - SrcLo(lo, d) = d /\ DstHi(hi, d) - SrcHi(hi, d) = d
               /\ \A p \in lo..hi - 1 :
                    p \notin DstLo(lo, d)..DstHi(hi, d) - 1 => p \in Exposed(lo, hi, d)
               /\ Exposed(lo, hi, d) \subseteq lo..hi - 1
<1> DEFINE lo == m * TILE_SIZE
           hi == n * TILE_SIZE
<1>1. lo \in Nat /\ hi \in Nat
  BY GridAssumption
<1>2. CASE d = 0
  BY <1>1, <1>2 DEF SrcLo, SrcHi, DstLo, DstHi, Exposed, Abs
<1>3. CASE d < 0
  <2>1. DstHi(hi, d) = hi + d /\ hi + d \in Nat /\ lo <= hi + d
    BY <1>1, <1>3 DEF DstHi, Abs
  <2>2. /\ Down(hi + d) \in Nat /\ Down(hi + d) <= hi + d
        /\ lo <= Down(hi + d)
    BY <2>1, DownFacts, DownLargest
  <2>3. Exposed(lo, hi, d) = Down(hi + d)..hi - 1
    BY <1>3, <2>1 DEF Exposed
  <2>4. SrcLo(lo, d) = lo - d /\ DstLo(lo, d) = lo /\ SrcHi(hi, d) = hi
    BY <1>1, <1>3 DEF SrcLo, DstLo, SrcHi
  <2> HIDE DEF lo, hi
  <2>5. /\ lo <= SrcLo(lo, d) /\ SrcHi(hi, d) <= hi
        /\ lo <= DstLo(lo, d) /\ DstHi(hi, d) <= hi
        /\ DstLo(lo, d) - SrcLo(lo, d) = d /\ DstHi(hi, d) - SrcHi(hi, d) = d
    BY <1>1, <1>3, <2>1, <2>4
  <2>6. \A p \in lo..hi - 1 :
            p \notin DstLo(lo, d)..DstHi(hi, d) - 1 => p \in Exposed(lo, hi, d)
    BY <1>1, <1>3, <2>1, <2>2, <2>3, <2>4
  <2>7. Exposed(lo, hi, d) \subseteq lo..hi - 1
    BY <1>1, <2>1, <2>2, <2>3
  <2> QED
    BY <2>5, <2>6, <2>7 DEF lo, hi
<1>4. CASE d > 0
  <2>1. DstLo(lo, d) = lo + d /\ lo + d \in Nat /\ lo + d <= hi
    BY <1>1, <1>4 DEF DstLo, Abs
  <2>2. Up(lo + d) \in Nat /\ lo + d <= Up(lo + d) /\ Up(lo + d) <= hi
    BY <2>1, UpFacts
  <2>3. Exposed(lo, hi, d) = lo..Up(lo + d) - 1
    BY <1>4, <2>1 DEF Exposed
  <2>4. SrcLo(lo, d) = lo /\ DstHi(hi, d) = hi /\ SrcHi(hi, d) = hi - d
    BY <1>1, <1>4 DEF SrcLo, DstHi, SrcHi
  <2> HIDE DEF lo, hi
  <2>5. /\ lo <= SrcLo(lo, d) /\ SrcHi(hi, d) <= hi
        /\ lo <= DstLo(lo, d) /\ DstHi(hi, d) <= hi
        /\ DstLo(lo, d) - SrcLo(lo, d) = d /\ DstHi(hi, d) - SrcHi(hi, d) = d
    BY <1>1, <1>4, <2>1, <2>4
  <2>6. \A p \in lo..hi - 1 :
            p \notin DstLo(lo, d)..DstHi(hi, d) - 1 => p \in Exposed(lo, hi, d)
    BY <1>1, <1>4, <2>1, <2>2, <2>3, <2>4
  <2>7. Exposed(lo, hi, d) \subseteq lo..hi - 1
    BY <1>1, <2>1, <2>2, <2>3
  <2> QED
    BY <2>5, <2>6, <2>7 DEF lo, hi
<1> QED
  BY <1>2, <1>3, <1>4 DEF lo, hi

-----------------------------------------------------------------------------
(* The grid as a whole.  The recursive function Laid exists, since it does up to
   each number of cells, and so it is what its definition says. *)
LEMMA LaidExists ==
    ASSUME NEW screen_, CellCount(screen_) \in Nat
    PROVE  LET Step(f, k) ==
                  IF k = 0 THEN <<>>
                  ELSE IF LargeEnough(Cell(screen_, k))
                       THEN Append(f[k - 1], Cell(screen_, k))
                  ELSE f[k - 1]
           IN  \E f : f = [k \in 0..CellCount(screen_) |-> Step(f, k)]
<1> DEFINE Step(f, k) == IF k = 0 THEN <<>>
                         ELSE IF LargeEnough(Cell(screen_, k))
                              THEN Append(f[k - 1], Cell(screen_, k))
                         ELSE f[k - 1]
           n == CellCount(screen_)
           Good == {m \in 0..n : \E f : f = [k \in 0..m |-> Step(f, k)]}
<1>1. 0 \in Good
  <2> DEFINE g == [k \in 0..0 |-> <<>>]
  <2>1. g = [k \in 0..0 |-> Step(g, k)]
    OBVIOUS
  <2>2. 0 \in 0..n
    OBVIOUS
  <2> HIDE DEF g, Step, n
  <2> QED
    BY <2>1, <2>2
<1>2. ASSUME NEW m \in 0..n - 1, m \in Good PROVE m + 1 \in Good
  <2>1. PICK f : f = [k \in 0..m |-> Step(f, k)]
    BY <1>2
  <2> DEFINE g == [k \in 0..m + 1 |-> IF k <= m THEN f[k] ELSE Step(f, m + 1)]
  <2>2. ASSUME NEW k \in 0..m + 1 PROVE Step(g, k) = Step(f, k)
    <3>1. k # 0 => g[k - 1] = f[k - 1]
      OBVIOUS
    <3> HIDE DEF g
    <3> QED
      BY <3>1
  <2>3. ASSUME NEW k \in 0..m + 1 PROVE g[k] = Step(f, k)
    <3>1. CASE k <= m
      <4>1. g[k] = f[k] /\ k \in 0..m
        BY <3>1
      <4> HIDE DEF g, Step
      <4> QED
        BY <4>1, <2>1
    <3>2. CASE k = m + 1
      <4> HIDE DEF Step
      <4> QED
        BY <3>2
    <3> QED
      BY <3>1, <3>2
  <2>4. g = [k \in 0..m + 1 |-> Step(g, k)]
    <3>1. g = [k \in 0..m + 1 |-> g[k]]
      OBVIOUS
    <3> HIDE DEF g, Step
    <3> QED
      BY <3>1, <2>2, <2>3
  <2> HIDE DEF g, Step
  <2> QED
    BY <2>4
<1>3. n \in Good
  <2> HIDE DEF Good
  <2> QED
    BY <1>1, <1>2, UpTo
<1> QED
  BY <1>3

LEMMA LaidSteps ==
    ASSUME NEW screen_, CellCount(screen_) \in Nat
    PROVE  Laid(screen_) =
             [k \in 0..CellCount(screen_) |->
                IF k = 0 THEN <<>>
                ELSE IF LargeEnough(Cell(screen_, k))
                     THEN Append(Laid(screen_)[k - 1], Cell(screen_, k))
                ELSE Laid(screen_)[k - 1]]
  BY LaidExists, Zenon DEF Laid

RegionRecord == [x1 : Nat, x2 : Nat, y1 : Nat, y2 : Nat, detected : BOOLEAN,
                 dx : Int, dy : Int]

(* An interval of whole tiles of an axis. *)
OnTiles(lo, hi, extent) ==
    \E m, n \in Nat : /\ m < n /\ lo = m * TILE_SIZE /\ hi = n * TILE_SIZE
                      /\ hi <= TileLo(TileCount(extent))

(* A region of screen s, and a shift that leaves some of its pixels in it. *)
RegionOk(r, s) ==
    /\ r \in RegionRecord
    /\ OnTiles(r.x1, r.x2, s.w) /\ OnTiles(r.y1, r.y2, s.h)
    /\ Abs(r.dx) < r.x2 - r.x1 /\ Abs(r.dy) < r.y2 - r.y1

GridOk(regs, s) ==
    /\ regs \in Seq(RegionRecord)
    /\ \A i \in 1..Len(regs) : RegionOk(regs[i], s)
    /\ \A i, j \in 1..Len(regs) : i # j => Apart(regs[i], regs[j])

LEMMA CellOnTiles ==
    ASSUME NEW extent \in Nat, extent >= 2 * TILE_SIZE, NEW i \in 0..Cells(extent) - 1,
           CellHi(i, extent) - CellLo(i, extent) >= MinRegion
    PROVE  OnTiles(CellLo(i, extent), CellHi(i, extent), extent)
<1> DEFINE D == Down(extent)
           lo == CellLo(i, extent)
           hi == CellHi(i, extent)
           h == IF i = Cells(extent) - 1 THEN Down(extent - TILE_SIZE)
                ELSE Up(lo + CellExtent(extent))
<1>1. Cells(extent) \in Nat /\ i \in Nat
  BY GridAssumption DEF Cells
<1>2. PICK m \in Nat : lo = m * TILE_SIZE
  BY <1>1, CellFacts
<1>3. PICK e \in Nat : CellExtent(extent) = e * TILE_SIZE
  BY <1>1, CellFacts
<1>4. D \in Nat /\ D = TileLo(TileCount(extent)) /\ \E k \in Nat : D = k * TILE_SIZE
  BY DownFacts DEF Down, TileLo, TileCount
<1>5. h \in Nat /\ \E k \in Nat : h = k * TILE_SIZE
  <2>1. CASE i = Cells(extent) - 1
    <3>1. extent - TILE_SIZE \in Nat
      BY GridAssumption
    <3> QED
      BY <2>1, <3>1, DownFacts
  <2>2. CASE i # Cells(extent) - 1
    <3>1. lo + CellExtent(extent) + TILE_SIZE - 1 \in Nat
      BY <1>2, <1>3, GridAssumption
    <3> QED
      BY <2>2, <3>1, DownFacts DEF Up
  <2> QED
    BY <2>1, <2>2
<1>6. hi = Least(h, D)
  BY DEF CellHi
<1> HIDE DEF h, D, lo, hi
<1>7. hi \in Nat /\ hi <= D
  BY <1>4, <1>5, <1>6 DEF Least
<1>8. PICK n \in Nat : hi = n * TILE_SIZE
  BY <1>4, <1>5, <1>6 DEF Least
<1>9. m < n
  <2>1. m * TILE_SIZE < n * TILE_SIZE
    <3>1. m * TILE_SIZE \in Nat /\ n * TILE_SIZE \in Nat
      BY GridAssumption
    <3> QED
      BY <1>2, <1>8, <3>1, GridAssumption DEF lo, hi
  <2>2. ~(n < m)
    <3>1. n < m => n * TILE_SIZE + TILE_SIZE <= m * TILE_SIZE
      BY Ordered
    <3>2. m * TILE_SIZE \in Nat /\ n * TILE_SIZE \in Nat
      BY GridAssumption
    <3> QED
      BY <2>1, <3>1, <3>2, GridAssumption
  <2>3. n # m
    <3>1. m * TILE_SIZE \in Nat
      BY GridAssumption
    <3> QED
      BY <2>1, <3>1
  <2> QED
    BY <2>2, <2>3
<1> QED
  BY <1>2, <1>4, <1>7, <1>8, <1>9 DEF OnTiles, lo, hi

(* The two loops of detect_scroll, numbered. *)
LEMMA CellNumbers ==
    ASSUME NEW s \in Screens
    PROVE  /\ Cells(s.w) \in Nat \ {0} /\ Cells(s.h) \in Nat \ {0} /\ CellCount(s) \in Nat
           /\ \A c \in 1..CellCount(s) :
                /\ (c - 1) % Cells(s.w) \in 0..Cells(s.w) - 1
                /\ (c - 1) \div Cells(s.w) \in 0..Cells(s.h) - 1
           /\ \A c, d \in 1..CellCount(s) :
                /\ (c - 1) % Cells(s.w) = (d - 1) % Cells(s.w)
                /\ (c - 1) \div Cells(s.w) = (d - 1) \div Cells(s.w)
                => c = d
<1>1. Cells(s.w) \in Nat \ {0} /\ Cells(s.h) \in Nat \ {0}
  BY GridAssumption, ScreensAssumption DEF Cells
<1> DEFINE w == Cells(s.w)
           h == Cells(s.h)
<1>2. CellCount(s) = w * h /\ w * h \in Nat
  BY <1>1 DEF CellCount
<1> HIDE DEF w, h
<1>3. ASSUME NEW p \in 0..w * h - 1
      PROVE  p % w \in 0..w - 1 /\ p \div w \in 0..h - 1 /\ p = (p \div w) * w + (p % w)
  <2> DEFINE q == p \div w
  <2>1. w \in Nat \ {0} /\ h \in Nat \ {0} /\ p \in Nat
    BY <1>1 DEF w, h
  <2>2. q \in Nat /\ q * w <= p /\ p < q * w + w /\ p % w = p - q * w
    BY <2>1, DivMod
  <2> HIDE DEF q
  <2>3. ~(h <= q)
    <3>1. h <= q => w * h <= q * w
      BY <2>1, <2>2
    <3> QED
      BY <3>1, <1>2, <2>1, <2>2
  <2>4. q * w \in Nat
    BY <2>1, <2>2
  <2> QED
    BY <2>1, <2>2, <2>3, <2>4 DEF q
<1>4. \A c \in 1..CellCount(s) : c - 1 \in 0..w * h - 1
  BY <1>2
<1>5. ASSUME NEW c \in 1..CellCount(s), NEW d \in 1..CellCount(s),
             (c - 1) % w = (d - 1) % w, (c - 1) \div w = (d - 1) \div w
      PROVE  c = d
  <2>1. c - 1 = d - 1
    BY <1>3, <1>4, <1>5
  <2> QED
    BY <2>1, <1>2
<1> QED
  BY <1>1, <1>2, <1>3, <1>4, <1>5 DEF w, h

(* One region is never another's, whichever two cells they are. *)
LEMMA CellsOfGridApart ==
    ASSUME NEW s \in Screens, NEW c \in 1..CellCount(s), NEW d \in 1..CellCount(s), c # d
    PROVE  Apart(Cell(s, c), Cell(s, d))
<1> DEFINE col(k) == (k - 1) % Cells(s.w)
           row(k) == (k - 1) \div Cells(s.w)
<1>1. /\ s.w \in Nat /\ s.w >= 2 * TILE_SIZE /\ s.h \in Nat /\ s.h >= 2 * TILE_SIZE
      /\ Cells(s.w) \in Nat /\ Cells(s.h) \in Nat
      /\ col(c) \in 0..Cells(s.w) - 1 /\ col(d) \in 0..Cells(s.w) - 1
      /\ row(c) \in 0..Cells(s.h) - 1 /\ row(d) \in 0..Cells(s.h) - 1
      /\ col(c) # col(d) \/ row(c) # row(d)
  BY ScreensAssumption, CellNumbers
<1>2. /\ Cell(s, c).x1 = CellLo(col(c), s.w) /\ Cell(s, c).x2 = CellHi(col(c), s.w)
      /\ Cell(s, c).y1 = CellLo(row(c), s.h) /\ Cell(s, c).y2 = CellHi(row(c), s.h)
      /\ Cell(s, d).x1 = CellLo(col(d), s.w) /\ Cell(s, d).x2 = CellHi(col(d), s.w)
      /\ Cell(s, d).y1 = CellLo(row(d), s.h) /\ Cell(s, d).y2 = CellHi(row(d), s.h)
  BY DEF Cell, Region
<1> HIDE DEF col, row
<1>3. CASE col(c) < col(d) \/ col(d) < col(c)
  BY <1>1, <1>2, <1>3, CellsApart DEF Apart
<1>4. CASE row(c) < row(d) \/ row(d) < row(c)
  BY <1>1, <1>2, <1>4, CellsApart DEF Apart
<1> QED
  BY <1>1, <1>3, <1>4

LEMMA LargeCellOk ==
    ASSUME NEW s \in Screens, NEW c \in 1..CellCount(s), LargeEnough(Cell(s, c))
    PROVE  RegionOk(Cell(s, c), s)
<1> DEFINE i == (c - 1) % Cells(s.w)
           j == (c - 1) \div Cells(s.w)
<1>1. /\ s.w \in Nat /\ s.w >= 2 * TILE_SIZE /\ s.h \in Nat /\ s.h >= 2 * TILE_SIZE
      /\ i \in 0..Cells(s.w) - 1 /\ j \in 0..Cells(s.h) - 1
  BY ScreensAssumption, CellNumbers
<1>2. Cell(s, c) = Region(s, i, j)
  BY DEF Cell
<1> HIDE DEF i, j
<1>3. /\ CellHi(i, s.w) - CellLo(i, s.w) >= MinRegion
      /\ CellHi(j, s.h) - CellLo(j, s.h) >= MinRegion
  BY <1>2 DEF LargeEnough, Region
<1>4. /\ OnTiles(CellLo(i, s.w), CellHi(i, s.w), s.w)
      /\ OnTiles(CellLo(j, s.h), CellHi(j, s.h), s.h)
  BY <1>1, <1>3, CellOnTiles
<1>5. /\ CellLo(i, s.w) \in Nat /\ CellHi(i, s.w) \in Nat
      /\ CellLo(j, s.h) \in Nat /\ CellHi(j, s.h) \in Nat
  BY <1>4, GridAssumption DEF OnTiles
<1>6. Abs(0) = 0 /\ MinRegion > 0
  BY GridAssumption DEF Abs
<1> DEFINE r == Cell(s, c)
<1>7. /\ r.x1 = CellLo(i, s.w) /\ r.x2 = CellHi(i, s.w)
      /\ r.y1 = CellLo(j, s.h) /\ r.y2 = CellHi(j, s.h) /\ r.dx = 0 /\ r.dy = 0
  BY <1>2 DEF Region
<1>8. r \in RegionRecord
  BY <1>2, <1>5 DEF RegionRecord, Region
<1> HIDE DEF r
<1>9. Abs(r.dx) < r.x2 - r.x1 /\ Abs(r.dy) < r.y2 - r.y1
  BY <1>3, <1>5, <1>6, <1>7, GridAssumption
<1>10. OnTiles(r.x1, r.x2, s.w) /\ OnTiles(r.y1, r.y2, s.h)
  BY <1>4, <1>7
<1> QED
  BY <1>8, <1>9, <1>10 DEF RegionOk, r

(* The grid detect_scroll lays: by induction over its cells. *)
LEMMA GridOfScreen ==
    ASSUME NEW s \in Screens
    PROVE  GridOk(Grid(s), s) /\ Len(Grid(s)) <= CellCount(s)
<1> DEFINE n == CellCount(s)
           L(k) == Laid(s)[k]
           From(k) == /\ L(k) \in Seq(RegionRecord) /\ Len(L(k)) <= k
                      /\ \A i \in 1..Len(L(k)) : \E c \in 1..k :
                            L(k)[i] = Cell(s, c) /\ LargeEnough(Cell(s, c))
                      /\ \A i, j \in 1..Len(L(k)) : i # j => Apart(L(k)[i], L(k)[j])
           T == {k \in 0..n : From(k)}
<1>1. n \in Nat
  BY CellNumbers
<1>2. /\ L(0) = <<>>
      /\ \A k \in 0..n - 1 : L(k + 1) = IF LargeEnough(Cell(s, k + 1))
                                        THEN Append(L(k), Cell(s, k + 1)) ELSE L(k)
  <2>1. \A k \in 0..n : L(k) = IF k = 0 THEN <<>>
                               ELSE IF LargeEnough(Cell(s, k))
                                    THEN Append(L(k - 1), Cell(s, k))
                               ELSE L(k - 1)
    BY <1>1, LaidSteps, Zenon
  <2>2. \A k \in 0..n - 1 : k + 1 \in 0..n /\ k + 1 # 0 /\ (k + 1) - 1 = k
    BY <1>1
  <2>3. 0 \in 0..n
    BY <1>1
  <2> HIDE DEF L, n
  <2>4. L(0) = <<>>
    BY <2>1, <2>3, Zenon
  <2>5. ASSUME NEW k \in 0..n - 1
        PROVE  L(k + 1) = IF LargeEnough(Cell(s, k + 1))
                          THEN Append(L(k), Cell(s, k + 1)) ELSE L(k)
    <3>1. L(k + 1) = IF LargeEnough(Cell(s, k + 1))
                     THEN Append(L((k + 1) - 1), Cell(s, k + 1)) ELSE L((k + 1) - 1)
      BY <2>1, <2>2, Zenon
    <3> QED
      BY <3>1, <2>2, Zenon
  <2> QED
    BY <2>4, <2>5
<1> HIDE DEF n, L
<1>3. 0 \in T
  <2> DEFINE a == L(0)
  <2>1. a = <<>>
    BY <1>2
  <2> HIDE DEF a
  <2>2. /\ a \in Seq(RegionRecord) /\ Len(a) <= 0
        /\ \A i \in 1..Len(a) : \E c \in 1..0 : a[i] = Cell(s, c) /\ LargeEnough(Cell(s, c))
        /\ \A i, j \in 1..Len(a) : i # j => Apart(a[i], a[j])
    BY <2>1
  <2>3. 0 \in 0..n
    BY <1>1
  <2> QED
    BY <2>2, <2>3 DEF a
<1>4. ASSUME NEW k \in 0..n - 1, k \in T PROVE k + 1 \in T
  <2> DEFINE a == L(k)
             b == L(k + 1)
             e == Cell(s, k + 1)
  <2>1. k + 1 \in 0..n /\ k \in Nat /\ k + 1 \in 1..CellCount(s)
    BY <1>1 DEF n
  <2>2. /\ a \in Seq(RegionRecord) /\ Len(a) <= k
        /\ \A i \in 1..Len(a) : \E c \in 1..k : a[i] = Cell(s, c) /\ LargeEnough(Cell(s, c))
        /\ \A i, j \in 1..Len(a) : i # j => Apart(a[i], a[j])
    BY <1>4
  <2>3. b = IF LargeEnough(e) THEN Append(a, e) ELSE a
    BY <1>2
  <2> SUFFICES /\ b \in Seq(RegionRecord) /\ Len(b) <= k + 1
               /\ \A i \in 1..Len(b) : \E c \in 1..k + 1 :
                     b[i] = Cell(s, c) /\ LargeEnough(Cell(s, c))
               /\ \A i, j \in 1..Len(b) : i # j => Apart(b[i], b[j])
    BY <2>1
  <2> HIDE DEF T, From, a, b, e
  <2>4. CASE ~LargeEnough(e)
    BY <2>1, <2>2, <2>3, <2>4
  <2>5. CASE LargeEnough(e)
    <3>1. e \in RegionRecord
      BY <2>1, <2>5, LargeCellOk DEF e, RegionOk
    <3>2. /\ b \in Seq(RegionRecord) /\ Len(b) = Len(a) + 1
          /\ \A i \in 1..Len(a) : b[i] = a[i]
          /\ b[Len(a) + 1] = e
      BY <3>1, <2>2, <2>3, <2>5
    <3>3. \A i \in 1..Len(a) : Apart(a[i], e) /\ Apart(e, a[i])
      <4> SUFFICES ASSUME NEW i \in 1..Len(a) PROVE Apart(a[i], e) /\ Apart(e, a[i])
        OBVIOUS
      <4>1. PICK c \in 1..k : a[i] = Cell(s, c)
        BY <2>2
      <4>2. c \in 1..CellCount(s) /\ c # k + 1
        BY <1>1, <2>1 DEF n
      <4> QED
        BY <4>1, <4>2, <2>1, CellsOfGridApart DEF e
    <3>4. ASSUME NEW i \in 1..Len(b)
          PROVE  \E c \in 1..k + 1 : b[i] = Cell(s, c) /\ LargeEnough(Cell(s, c))
      BY <2>1, <2>2, <2>5, <3>2 DEF e
    <3>5. ASSUME NEW i \in 1..Len(b), NEW j \in 1..Len(b), i # j
          PROVE  Apart(b[i], b[j])
      <4>1. i \in 1..Len(a) \/ i = Len(a) + 1
        BY <2>2, <3>2
      <4>2. j \in 1..Len(a) \/ j = Len(a) + 1
        BY <2>2, <3>2
      <4> QED
        BY <4>1, <4>2, <3>5, <2>2, <3>2, <3>3
    <3> QED
      BY <2>1, <2>2, <3>2, <3>4, <3>5
  <2> QED
    BY <2>4, <2>5
<1>5. n \in T
  <2> HIDE DEF T
  <2> QED
    BY <1>1, <1>3, <1>4, UpTo
<1>6. Grid(s) = L(n)
  BY DEF Grid, L, n
<1>7. \A i \in 1..Len(L(n)) : RegionOk(L(n)[i], s)
  BY <1>5, LargeCellOk DEF n
<1> QED
  BY <1>5, <1>6, <1>7 DEF GridOk, n

(* The regions at any time: a grid of the screen, whatever shifts are found. *)
GridInv == /\ screen \in Screens
           /\ GridOk(regions, screen) /\ Len(regions) <= CellCount(screen)

LEMMA ShiftKeepsRegion ==
    ASSUME NEW s, NEW r, RegionOk(r, s), NEW q \in RegionRecord, Acceptable(r, q.dx, q.dy),
           q.x1 = r.x1 /\ q.x2 = r.x2 /\ q.y1 = r.y1 /\ q.y2 = r.y2
    PROVE  RegionOk(q, s) /\ \A o : (Apart(r, o) <=> Apart(q, o)) /\ (Apart(o, r) <=> Apart(o, q))
<1>1. q.dx \in Int /\ q.dy \in Int
  BY DEF RegionRecord
<1>2. r.x1 \in Nat /\ r.x2 \in Nat /\ r.y1 \in Nat /\ r.y2 \in Nat
  BY DEF RegionOk, RegionRecord
<1>3. /\ OnTiles(q.x1, q.x2, s.w) /\ OnTiles(q.y1, q.y2, s.h)
      /\ r.x1 < r.x2 /\ r.y1 < r.y2
  BY <1>1, <1>2 DEF RegionOk, Abs, RegionRecord
<1>4. Abs(q.dx) < r.x2 - r.x1 /\ Abs(q.dy) < r.y2 - r.y1
  BY <1>1, <1>2, <1>3 DEF Acceptable, Abs
<1> QED
  BY <1>1, <1>3, <1>4 DEF RegionOk, Apart

LEMMA GridInvInit == ScrollInit => GridInv
<1> SUFFICES ASSUME ScrollInit PROVE GridInv
  OBVIOUS
<1>1. screen \in Screens /\ regions = <<>>
  BY DEF ScrollInit
<1>2. CellCount(screen) \in Nat
  BY <1>1, CellNumbers
<1> QED
  BY <1>1, <1>2 DEF GridInv, GridOk

LEMMA GridInvStep == ASSUME GridInv, [ScrollNext]_allVars PROVE GridInv'
<1>1. CASE DetectScroll
  <2>1. regions' = Grid(screen) /\ screen' = screen /\ screen \in Screens
    BY <1>1 DEF DetectScroll, GridInv
  <2> QED
    BY <2>1, GridOfScreen DEF GridInv
<1>2. ASSUME NEW w \in Workers, Correlate(w) PROVE GridInv'
  <2>1. screen' = screen /\ screen \in Screens
    BY <1>2 DEF Correlate, GridInv
  <2>2. CASE UNCHANGED regions
    BY <2>1, <2>2 DEF GridInv
  <2> DEFINE i == w_idx[w] + 1
             r == regions[i]
  <2>3. ASSUME NEW s \in Correlated(r), Acceptable(r, s[1], s[2]),
               regions' = [regions EXCEPT ![i] =
                             [r EXCEPT !.detected = TRUE, !.dx = s[1], !.dy = s[2]]]
        PROVE  GridInv'
    <3> HIDE DEF r
    <3>0. PICK q : /\ q = [r EXCEPT !.detected = TRUE, !.dx = s[1], !.dy = s[2]]
                   /\ regions' = [regions EXCEPT ![i] = q]
      BY <2>3
    <3>1. GridOk(regions, screen) /\ Len(regions) <= CellCount(screen)
      BY DEF GridInv
    <3>2. s[1] \in Int /\ s[2] \in Int
      BY <2>3 DEF Correlated, Reported
    <3>3. CASE i \notin 1..Len(regions)
      <4>1. regions' = regions
        BY <3>0, <3>1, <3>3 DEF GridOk
      <4> QED
        BY <2>1, <2>2, <4>1
    <3>4. CASE i \in 1..Len(regions)
      <4>1. RegionOk(r, screen)
        BY <3>1, <3>4 DEF GridOk, r
      <4>2. /\ q \in RegionRecord /\ q.dx = s[1] /\ q.dy = s[2]
            /\ q.x1 = r.x1 /\ q.x2 = r.x2 /\ q.y1 = r.y1 /\ q.y2 = r.y2
        BY <3>0, <3>2, <4>1 DEF RegionOk, RegionRecord
      <4>3. /\ RegionOk(q, screen)
            /\ \A o : (Apart(r, o) <=> Apart(q, o)) /\ (Apart(o, r) <=> Apart(o, q))
        BY <2>3, <4>1, <4>2, ShiftKeepsRegion
      <4>4. /\ regions' \in Seq(RegionRecord) /\ Len(regions') = Len(regions)
            /\ \A k \in 1..Len(regions) : regions'[k] = IF k = i THEN q ELSE regions[k]
        BY <3>0, <3>1, <3>4, <4>2 DEF GridOk
      <4>5. \A k \in 1..Len(regions') : RegionOk(regions'[k], screen)
        BY <3>1, <4>3, <4>4 DEF GridOk
      <4>6. \A j, k \in 1..Len(regions') : j # k => Apart(regions'[j], regions'[k])
        BY <3>1, <4>3, <4>4 DEF GridOk, r
      <4> QED
        BY <2>1, <3>1, <4>4, <4>5, <4>6 DEF GridInv, GridOk
    <3> QED
      BY <3>3, <3>4
  <2> QED
    BY <1>2, <2>2, <2>3 DEF Correlate
<1>3. CASE WaitAgain \/ EndPool \/ SendThread
  BY <1>3 DEF GridInv, WaitAgain, EndPool, SendThread, Detected, SkipRegion, MoveRow,
     PoisonExposed, Applied, PoolEnded
<1>4. ASSUME NEW w \in Workers,
             OutsideFn(w) \/ LockPlanner(w) \/ GetResources(w) \/ MakePlans(w)
             \/ FreePlans(w) \/ GiveUp(w)
      PROVE  GridInv'
  BY <1>4 DEF GridInv, OutsideFn, LockPlanner, GetResources, MakePlans, FreePlans, GiveUp
<1>5. CASE UNCHANGED allVars
  BY <1>5 DEF GridInv, allVars
<1> QED
  BY <1>1, <1>2, <1>3, <1>4, <1>5 DEF ScrollNext, FftStep

LEMMA Aligned == ASSUME NEW k \in Nat PROVE (k * TILE_SIZE) % TILE_SIZE = 0
<1>1. k * TILE_SIZE \in Nat /\ TILE_SIZE \in Nat \ {0}
  BY GridAssumption
<1> DEFINE p == k * TILE_SIZE
<1>2. (p \div TILE_SIZE) * TILE_SIZE = p
  BY DownMultiple DEF Down
<1> HIDE DEF p
<1>3. p \in Nat
  BY <1>1 DEF p
<1>4. p % TILE_SIZE = p - (p \div TILE_SIZE) * TILE_SIZE
  BY <1>1, <1>3, DivMod
<1> QED
  BY <1>2, <1>3, <1>4 DEF p

(* The regions share no pixel, lie on whole tiles of the screen, and what a
   scroll uncovers stays in its region, for every screen parse_args admits and
   every shift detect_region_scroll keeps. *)
THEOREM GridIsSound == ScrollSpec => []GridSound
<1>1. GridInv => GridSound
  <2> SUFFICES ASSUME GridInv PROVE GridSound
    OBVIOUS
  <2>1. regions \in Seq(RegionRecord) /\ DOMAIN regions = 1..Len(regions)
    BY DEF GridInv, GridOk
  <2>2. ASSUME NEW i \in 1..Len(regions), NEW r, r = regions[i]
        PROVE  /\ r.x1 >= 0 /\ r.y1 >= 0
               /\ r.x2 <= TileLo(TileCount(screen.w)) /\ r.y2 <= TileLo(TileCount(screen.h))
               /\ \A n \in {r.x1, r.x2, r.y1, r.y2} : n % TILE_SIZE = 0
               /\ Exposed(r.x1, r.x2, r.dx) \subseteq r.x1..r.x2 - 1
               /\ Exposed(r.y1, r.y2, r.dy) \subseteq r.y1..r.y2 - 1
    <3>1. RegionOk(r, screen)
      BY <2>2 DEF GridInv, GridOk
    <3>2. PICK m, n \in Nat : m < n /\ r.x1 = m * TILE_SIZE /\ r.x2 = n * TILE_SIZE
                              /\ r.x2 <= TileLo(TileCount(screen.w))
      BY <3>1 DEF RegionOk, OnTiles
    <3>3. PICK k, l \in Nat : k < l /\ r.y1 = k * TILE_SIZE /\ r.y2 = l * TILE_SIZE
                              /\ r.y2 <= TileLo(TileCount(screen.h))
      BY <3>1 DEF RegionOk, OnTiles
    <3>4. r.dx \in Int /\ r.dy \in Int /\ r.x1 \in Nat /\ r.y1 \in Nat
          /\ Abs(r.dx) < r.x2 - r.x1 /\ Abs(r.dy) < r.y2 - r.y1
      BY <3>1 DEF RegionOk, RegionRecord
    <3>5. Exposed(r.x1, r.x2, r.dx) \subseteq r.x1..r.x2 - 1
      BY <3>2, <3>4, UncoveredIsExposed
    <3>6. Exposed(r.y1, r.y2, r.dy) \subseteq r.y1..r.y2 - 1
      BY <3>3, <3>4, UncoveredIsExposed
    <3>7. \A p \in {r.x1, r.x2, r.y1, r.y2} : p % TILE_SIZE = 0
      BY <3>2, <3>3, Aligned
    <3> QED
      BY <3>2, <3>3, <3>4, <3>5, <3>6, <3>7
  <2>3. \A i, j \in 1..Len(regions) : i # j => Apart(regions[i], regions[j])
    BY DEF GridInv, GridOk
  <2> QED
    BY <2>1, <2>2, <2>3 DEF GridSound
<1>2. GridInv /\ [ScrollNext]_allVars => GridInv'
  BY GridInvStep
<1> QED
  BY <1>1, <1>2, GridInvInit, PTL DEF ScrollSpec

-----------------------------------------------------------------------------
(* What a scroll does to prev_framebuf. *)

LEMMA ScreenSize ==
    ASSUME screen \in Screens
    PROVE  /\ screen.w \in Nat \ {0} /\ screen.h \in Nat \ {0}
           /\ TileLo(TileCount(screen.w)) <= screen.w
           /\ TileLo(TileCount(screen.h)) <= screen.h
           /\ TileLo(TileCount(screen.w)) \in Nat /\ TileLo(TileCount(screen.h)) \in Nat
<1>1. /\ screen.w \in Nat /\ screen.w >= 2 * TILE_SIZE
      /\ screen.h \in Nat /\ screen.h >= 2 * TILE_SIZE
  BY ScreensAssumption
<1>2. ASSUME NEW e \in Nat PROVE TileLo(TileCount(e)) <= e /\ TileLo(TileCount(e)) \in Nat
  BY DownFacts DEF Down, TileLo, TileCount
<1> QED
  BY <1>1, <1>2, GridAssumption

(* A pixel and its place on the screen. *)
LEMMA PixelPlace ==
    ASSUME screen \in Screens
    PROVE  \A p \in Pixels : /\ X(p) \in 0..screen.w - 1 /\ Y(p) \in 0..screen.h - 1
                             /\ p = Place(X(p), Y(p)) /\ p \in Nat
<1> DEFINE w == screen.w
           h == screen.h
<1>1. w \in Nat \ {0} /\ h \in Nat \ {0}
  BY ScreenSize
<1> SUFFICES ASSUME NEW p \in 0..w * h - 1
             PROVE  p % w \in 0..w - 1 /\ p \div w \in 0..h - 1 /\ p = (p \div w) * w + (p % w)
  BY <1>1 DEF Pixels, X, Y, Place
<1> HIDE DEF w, h
<1>2. p \in Nat /\ p < w * h /\ w * h \in Nat
  BY <1>1
<1> DEFINE q == p \div w
<1>3. q \in Nat /\ q * w <= p /\ p < q * w + w /\ p % w = p - q * w
  BY <1>1, <1>2, DivMod
<1> HIDE DEF q
<1>4. ~(h <= q)
  <2>1. h <= q => w * h <= q * w
    BY <1>1, <1>3
  <2> QED
    BY <2>1, <1>1, <1>2, <1>3
<1> QED
  BY <1>1, <1>2, <1>3, <1>4 DEF q

LEMMA PlacePixel ==
    ASSUME screen \in Screens, NEW x \in 0..screen.w - 1, NEW y \in 0..screen.h - 1
    PROVE  Place(x, y) \in Pixels /\ X(Place(x, y)) = x /\ Y(Place(x, y)) = y
<1> DEFINE w == screen.w
           h == screen.h
           p == y * w + x
<1>1. w \in Nat \ {0} /\ h \in Nat \ {0}
  BY ScreenSize
<1> SUFFICES p \in 0..w * h - 1 /\ p % w = x /\ p \div w = y
  BY <1>1 DEF Pixels, X, Y, Place
<1>2. x \in 0..w - 1 /\ y \in 0..h - 1
  OBVIOUS
<1> HIDE DEF w, h
<1>3. y * w \in Nat /\ y \in Nat
  BY <1>1, <1>2
<1>4. p \in Nat /\ y * w <= p /\ p < y * w + w
  BY <1>1, <1>2, <1>3
<1>5. p <= w * h - 1
  <2>1. (y + 1) * w <= h * w
    BY <1>1, <1>2
  <2> QED
    BY <2>1, <1>1, <1>2, <1>3
<1>6. p \div w = y
  BY <1>1, <1>3, <1>4, DivUnique
<1>7. p % w = p - y * w
  BY <1>1, <1>4, <1>6, DivMod
<1>8. p % w = x
  BY <1>1, <1>2, <1>3, <1>7
<1> QED
  BY <1>1, <1>4, <1>5, <1>6, <1>8

(* A piece of a row is an interval of prev_framebuf. *)
LEMMA RowPiece ==
    ASSUME screen \in Screens, NEW p \in Pixels,
           NEW a \in 0..screen.w - 1, NEW b \in a + 1..screen.w, NEW row \in 0..screen.h - 1
    PROVE  p \in Place(a, row)..Place(b - 1, row) <=> Y(p) = row /\ X(p) \in a..b - 1
<1> DEFINE w == screen.w
           x == X(p)
           y == Y(p)
<1>1. w \in Nat \ {0} /\ x \in 0..w - 1 /\ y \in Nat /\ p = y * w + x /\ row \in Nat
      /\ a \in 0..w - 1 /\ b \in a + 1..w
  BY ScreenSize, PixelPlace DEF Place
<1>2. Place(a, row) = row * w + a /\ Place(b - 1, row) = row * w + (b - 1)
  BY DEF Place
<1> HIDE DEF w, x, y
<1>3. y * w \in Nat /\ row * w \in Nat
  BY <1>1
<1>4. CASE y = row
  BY <1>1, <1>2, <1>3, <1>4 DEF x, y
<1>5. CASE y < row
  <2>1. (y + 1) * w <= row * w
    BY <1>1, <1>5
  <2>2. (y + 1) * w = y * w + w
    BY <1>1
  <2>3. p < row * w + a
    BY <2>1, <2>2, <1>1, <1>3
  <2>4. p \notin Place(a, row)..Place(b - 1, row)
    BY <2>3, <1>1, <1>2, <1>3
  <2> QED
    BY <2>4, <1>5, <1>1 DEF y
<1>6. CASE row < y
  <2>1. (row + 1) * w <= y * w
    BY <1>1, <1>6
  <2>2. (row + 1) * w = row * w + w
    BY <1>1
  <2>3. p > row * w + (b - 1)
    BY <2>1, <2>2, <1>1, <1>3
  <2>4. p \notin Place(a, row)..Place(b - 1, row)
    BY <2>3, <1>1, <1>2, <1>3
  <2> QED
    BY <2>4, <1>6, <1>1 DEF y
<1> QED
  BY <1>1, <1>4, <1>5, <1>6

(* The rectangle a scrolled region's pixels go to, and its rows that n turns of
   the loop have written: downwards from the top, or from the bottom up. *)
ToX(r) == DstLo(r.x1, r.dx)..DstHi(r.x2, r.dx) - 1
ToY(r) == DstLo(r.y1, r.dy)..DstHi(r.y2, r.dy) - 1
Written(r, n) ==
    IF r.dy > 0 THEN DstHi(r.y2, r.dy) - n..DstHi(r.y2, r.dy) - 1
                ELSE DstLo(r.y1, r.dy)..DstLo(r.y1, r.dy) + n - 1

LEMMA AxisMoves ==
    ASSUME NEW lo \in Nat, NEW hi \in Nat, NEW d \in Int, NEW e, OnTiles(lo, hi, e),
           Abs(d) < hi - lo
    PROVE  /\ DstLo(lo, d) \in lo..hi - 1 /\ DstHi(hi, d) \in DstLo(lo, d) + 1..hi
           /\ SrcLo(lo, d) = DstLo(lo, d) - d
           /\ \A z \in DstLo(lo, d)..DstHi(hi, d) - 1 : z - d \in lo..hi - 1
           /\ \A z \in lo..hi - 1 :
                z \notin DstLo(lo, d)..DstHi(hi, d) - 1 => z \in Exposed(lo, hi, d)
<1>1. PICK m, n \in Nat : m < n /\ lo = m * TILE_SIZE /\ hi = n * TILE_SIZE
  BY DEF OnTiles
<1>2. /\ lo <= SrcLo(lo, d) /\ SrcHi(hi, d) <= hi
      /\ lo <= DstLo(lo, d) /\ DstHi(hi, d) <= hi
      /\ DstLo(lo, d) - SrcLo(lo, d) = d /\ DstHi(hi, d) - SrcHi(hi, d) = d
      /\ \A z \in lo..hi - 1 :
           z \notin DstLo(lo, d)..DstHi(hi, d) - 1 => z \in Exposed(lo, hi, d)
  BY <1>1, UncoveredIsExposed
<1>3. /\ DstLo(lo, d) \in Int /\ DstHi(hi, d) \in Int
      /\ SrcLo(lo, d) \in Int /\ SrcHi(hi, d) \in Int
      /\ DstLo(lo, d) < DstHi(hi, d)
  BY DEF DstLo, DstHi, SrcLo, SrcHi, Abs
<1> QED
  BY <1>2, <1>3

(* A region on its screen and where its pixels go. *)
LEMMA RegionMoves ==
    ASSUME screen \in Screens, NEW r, RegionOk(r, screen)
    PROVE  /\ r.x1 \in 0..screen.w - 1 /\ r.x2 \in r.x1 + 1..screen.w
           /\ r.y1 \in 0..screen.h - 1 /\ r.y2 \in r.y1 + 1..screen.h
           /\ r.dx \in Int /\ r.dy \in Int
           /\ DstLo(r.x1, r.dx) \in r.x1..r.x2 - 1
           /\ DstHi(r.x2, r.dx) \in DstLo(r.x1, r.dx) + 1..r.x2
           /\ DstLo(r.y1, r.dy) \in r.y1..r.y2 - 1
           /\ DstHi(r.y2, r.dy) \in DstLo(r.y1, r.dy) + 1..r.y2
           /\ SrcLo(r.x1, r.dx) = DstLo(r.x1, r.dx) - r.dx
           /\ \A x \in ToX(r) : x - r.dx \in r.x1..r.x2 - 1
           /\ \A y \in ToY(r) : y - r.dy \in r.y1..r.y2 - 1
           /\ \A p \in Pixels : InRegion(p, r) /\ ~InExposed(p, r) => X(p) \in ToX(r) /\ Y(p) \in ToY(r)
<1>1. r.x1 \in Nat /\ r.x2 \in Nat /\ r.y1 \in Nat /\ r.y2 \in Nat /\ r.dx \in Int /\ r.dy \in Int
  BY DEF RegionOk, RegionRecord
<1>2. r.x2 <= TileLo(TileCount(screen.w)) /\ r.y2 <= TileLo(TileCount(screen.h))
  BY DEF RegionOk, OnTiles
<1>3. Abs(r.dx) < r.x2 - r.x1 /\ Abs(r.dy) < r.y2 - r.y1
  BY DEF RegionOk
<1>4. r.x1 < r.x2 /\ r.y1 < r.y2
  BY <1>1, <1>3 DEF Abs
<1>5. /\ r.x1 \in 0..screen.w - 1 /\ r.x2 \in r.x1 + 1..screen.w
      /\ r.y1 \in 0..screen.h - 1 /\ r.y2 \in r.y1 + 1..screen.h
  BY <1>1, <1>2, <1>4, ScreenSize
<1>6. /\ DstLo(r.x1, r.dx) \in r.x1..r.x2 - 1
      /\ DstHi(r.x2, r.dx) \in DstLo(r.x1, r.dx) + 1..r.x2
      /\ SrcLo(r.x1, r.dx) = DstLo(r.x1, r.dx) - r.dx
      /\ \A x \in ToX(r) : x - r.dx \in r.x1..r.x2 - 1
      /\ \A x \in r.x1..r.x2 - 1 : x \notin ToX(r) => x \in Exposed(r.x1, r.x2, r.dx)
  BY <1>1, <1>3, AxisMoves DEF ToX, RegionOk
<1>7. /\ DstLo(r.y1, r.dy) \in r.y1..r.y2 - 1
      /\ DstHi(r.y2, r.dy) \in DstLo(r.y1, r.dy) + 1..r.y2
      /\ \A y \in ToY(r) : y - r.dy \in r.y1..r.y2 - 1
      /\ \A y \in r.y1..r.y2 - 1 : y \notin ToY(r) => y \in Exposed(r.y1, r.y2, r.dy)
  BY <1>1, <1>3, AxisMoves DEF ToY, RegionOk
<1>8. ASSUME NEW p \in Pixels, InRegion(p, r), ~InExposed(p, r)
      PROVE  X(p) \in ToX(r) /\ Y(p) \in ToY(r)
  BY <1>6, <1>7, <1>8 DEF InRegion, InExposed
<1> QED
  BY <1>1, <1>5, <1>6, <1>7, <1>8

(* Pixel p lies in the scrolled region i.  By GridOk in no other. *)
Within(p, i) == regions[i].detected /\ InRegion(p, regions[i])

LEMMA WithinOne ==
    ASSUME GridInv, NEW p \in Pixels, NEW i \in 1..Len(regions), NEW j \in 1..Len(regions),
           Within(p, i), Within(p, j)
    PROVE  i = j
<1> SUFFICES ASSUME i # j PROVE FALSE
  OBVIOUS
<1>1. Apart(regions[i], regions[j])
  BY DEF GridInv, GridOk
<1>2. X(p) \in Int /\ Y(p) \in Int
  BY PixelPlace DEF GridInv
<1> DEFINE q == regions[i]
           r == regions[j]
<1>3. q \in RegionRecord /\ r \in RegionRecord
  BY DEF GridInv, GridOk, RegionOk
<1>4. /\ X(p) \in q.x1..q.x2 - 1 /\ Y(p) \in q.y1..q.y2 - 1
      /\ X(p) \in r.x1..r.x2 - 1 /\ Y(p) \in r.y1..r.y2 - 1
  BY DEF Within, InRegion
<1>5. q.x2 <= r.x1 \/ r.x2 <= q.x1 \/ q.y2 <= r.y1 \/ r.y2 <= q.y1
  BY <1>1 DEF Apart
<1> HIDE DEF q, r
<1>6. /\ q.x1 \in Nat /\ q.x2 \in Nat /\ q.y1 \in Nat /\ q.y2 \in Nat
      /\ r.x1 \in Nat /\ r.x2 \in Nat /\ r.y1 \in Nat /\ r.y2 \in Nat
  BY <1>3 DEF RegionRecord
<1>7. CASE q.x2 <= r.x1
  BY <1>2, <1>4, <1>6, <1>7
<1>8. CASE r.x2 <= q.x1
  BY <1>2, <1>4, <1>6, <1>8
<1>9. CASE q.y2 <= r.y1
  BY <1>2, <1>4, <1>6, <1>9
<1>10. CASE r.y2 <= q.y1
  BY <1>2, <1>4, <1>6, <1>10
<1> QED
  BY <1>5, <1>7, <1>8, <1>9, <1>10

(* While the scroll is applied: the regions before a_reg are done, a_row rows of
   region a_reg are, and every other pixel is where it was. *)
Expected(p, i) ==
    LET r == regions[i]
    IN IF i < a_reg THEN Scrolled(p, r)
       ELSE IF i = a_reg /\ X(p) \in ToX(r) /\ Y(p) \in Written(r, a_row)
            THEN p - Place(r.dx, r.dy)
       ELSE p

PixelsInv ==
    \A p \in Pixels :
        /\ \A i \in 1..Len(regions) : Within(p, i) => prev[p] = Expected(p, i)
        /\ (\A i \in 1..Len(regions) : ~Within(p, i)) => prev[p] = p

ApplyInv ==
    /\ a_reg \in 1..Len(regions) + 1
    /\ a_row \in Nat
    /\ IF a_reg <= Len(regions) /\ Current.detected THEN a_row <= RowsToMove ELSE a_row = 0
    /\ PixelsInv

PhaseInv ==
    /\ phase \in {"compare", "detect", "apply"}
    /\ phase = "detect" <=> c_pc \in {"waiting", "woken"}
    /\ phase = "detect" => prev = Unmoved
    /\ phase = "apply" => ApplyInv
    /\ ShiftExact

ScrollInv == GridInv /\ PhaseInv

(* One memmove: its row's pixels come from pixels of the region that no earlier
   memmove has written. *)
LEMMA MoveRowKeeps == ASSUME GridInv, ApplyInv, MoveRow PROVE ApplyInv'
<1> DEFINE r == regions[a_reg]
           first == Place(DstLo(r.x1, r.dx), Row)
           last == Place(DstHi(r.x2, r.dx) - 1, Row)
           source == Place(SrcLo(r.x1, r.dx), Row - r.dy)
           top == DstLo(r.y1, r.dy)
           bottom == DstHi(r.y2, r.dy)
<1>1. /\ a_reg \in 1..Len(regions) /\ r.detected
      /\ a_row \in Nat /\ a_row < RowsToMove /\ RowsToMove = bottom - top
      /\ UNCHANGED <<screen, regions, a_reg>> /\ a_row' = a_row + 1
  BY DEF MoveRow, ApplyInv, Current, RowsToMove
<1>2. prev' = [p \in Pixels |-> IF p \in first..last THEN prev[source + p - first] ELSE prev[p]]
  BY Zenon DEF MoveRow, Current
<1>3. screen \in Screens /\ RegionOk(r, screen)
  BY <1>1 DEF GridInv, GridOk
<1>4. /\ r.x1 \in 0..screen.w - 1 /\ r.x2 \in r.x1 + 1..screen.w
      /\ r.y1 \in 0..screen.h - 1 /\ r.y2 \in r.y1 + 1..screen.h
      /\ r.dx \in Int /\ r.dy \in Int
      /\ DstLo(r.x1, r.dx) \in r.x1..r.x2 - 1
      /\ DstHi(r.x2, r.dx) \in DstLo(r.x1, r.dx) + 1..r.x2
      /\ top \in r.y1..r.y2 - 1
      /\ bottom \in top + 1..r.y2
      /\ SrcLo(r.x1, r.dx) = DstLo(r.x1, r.dx) - r.dx
      /\ \A x \in ToX(r) : x - r.dx \in r.x1..r.x2 - 1
      /\ \A y \in ToY(r) : y - r.dy \in r.y1..r.y2 - 1
  BY <1>3, RegionMoves
<1>5. Row = IF r.dy > 0 THEN bottom - 1 - a_row ELSE top + a_row
  BY DEF Row, Current
<1>0. \A n : Written(r, n) = IF r.dy > 0 THEN bottom - n..bottom - 1 ELSE top..top + n - 1
  BY DEF Written
<1> HIDE DEF r, top, bottom
<1>6. Row \in top..bottom - 1 /\ Row \in 0..screen.h - 1 /\ screen.h \in Nat /\ screen.w \in Nat
  <2>1. screen.h \in Nat /\ screen.w \in Nat
    BY <1>3, ScreenSize
  <2>2. Row \in Int /\ top <= Row /\ Row <= bottom - 1
    BY <1>1, <1>4, <1>5
  <2> QED
    BY <2>1, <2>2, <1>4
<1>a. top \in Int /\ bottom \in Int /\ r.dy \in Int /\ a_row \in Nat /\ Row \in Int
  BY <1>1, <1>4, <1>6
<1>7. ASSUME NEW p \in Pixels
      PROVE  p \in first..last <=> Y(p) = Row /\ X(p) \in ToX(r)
  <2>1. /\ DstLo(r.x1, r.dx) \in 0..screen.w - 1
        /\ DstHi(r.x2, r.dx) \in DstLo(r.x1, r.dx) + 1..screen.w
    BY <1>4, <1>6
  <2> QED
    BY <1>3, <1>6, <2>1, RowPiece DEF ToX
<1>8. Row \in ToY(r)
  BY <1>4, <1>6 DEF ToY, top, bottom
<1>9. ASSUME NEW p \in Pixels, Y(p) = Row, X(p) \in ToX(r)
      PROVE  prev'[p] = p - Place(r.dx, r.dy) /\ Within(p, a_reg)
  <2> DEFINE q == Place(X(p) - r.dx, Row - r.dy)
  <2>1. X(p) - r.dx \in r.x1..r.x2 - 1 /\ Row - r.dy \in r.y1..r.y2 - 1
    BY <1>4, <1>8, <1>9
  <2>2. X(p) - r.dx \in 0..screen.w - 1 /\ Row - r.dy \in 0..screen.h - 1
    BY <2>1, <1>4, <1>6
  <2>3. q \in Pixels /\ X(q) = X(p) - r.dx /\ Y(q) = Row - r.dy
    BY <1>3, <2>2, PlacePixel
  <2>4. p = Place(X(p), Row) /\ X(p) \in Int
    BY <1>3, <1>9, PixelPlace
  <2>5. q = p - Place(r.dx, r.dy) /\ source + p - first = q
    <3>1. screen.w \in Nat /\ Row \in Int /\ X(p) \in Int /\ r.dx \in Int /\ r.dy \in Int
          /\ DstLo(r.x1, r.dx) \in Int
      BY <1>4, <1>6, <2>4
    <3>2. (Row - r.dy) * screen.w = Row * screen.w - r.dy * screen.w
          /\ Row * screen.w \in Int /\ r.dy * screen.w \in Int
      BY <3>1
    <3>3. q = (Row - r.dy) * screen.w + (X(p) - r.dx) /\ p = Row * screen.w + X(p)
          /\ Place(r.dx, r.dy) = r.dy * screen.w + r.dx
      BY <2>4 DEF Place
    <3>4. source = (Row - r.dy) * screen.w + (DstLo(r.x1, r.dx) - r.dx)
          /\ first = Row * screen.w + DstLo(r.x1, r.dx)
      BY <1>4 DEF Place
    <3> HIDE DEF q, source, first
    <3> QED
      BY <3>1, <3>2, <3>3, <3>4
  <2>6. prev'[p] = prev[q]
    BY <1>2, <1>7, <1>9, <2>5
  <2> HIDE DEF q
  <2>7. Within(q, a_reg) /\ Within(p, a_reg)
    <3>1. InRegion(q, r)
      BY <2>1, <2>3 DEF InRegion
    <3>2. InRegion(p, r)
      BY <1>4, <1>6, <1>9 DEF InRegion, ToX
    <3> QED
      BY <1>1, <3>1, <3>2 DEF Within, r
  <2>8. Y(q) \notin Written(r, a_row)
    <3>1. CASE r.dy > 0
      <4>1. Y(q) < bottom - a_row /\ Y(q) \in Int
        BY <1>5, <1>a, <2>3, <3>1
      <4> QED
        BY <1>0, <1>a, <3>1, <4>1
    <3>2. CASE ~(r.dy > 0)
      <4>1. Y(q) >= top + a_row /\ Y(q) \in Int
        BY <1>5, <1>a, <2>3, <3>2
      <4> QED
        BY <1>0, <1>a, <3>2, <4>1
    <3> QED
      BY <3>1, <3>2
  <2>9. prev[q] = q
    <3>1. prev[q] = Expected(q, a_reg)
      BY <1>1, <2>3, <2>7 DEF ApplyInv, PixelsInv
    <3> QED
      BY <1>1, <2>8, <3>1 DEF Expected, r
  <2> QED
    BY <2>5, <2>6, <2>7, <2>9
<1>10. ASSUME NEW p \in Pixels, ~(Y(p) = Row /\ X(p) \in ToX(r)) PROVE prev'[p] = prev[p]
  BY <1>2, <1>7, <1>10
<1>11. \A y \in Int : y \in Written(r, a_row + 1) <=> y \in Written(r, a_row) \/ y = Row
  <2>1. CASE r.dy > 0
    BY <1>0, <1>5, <1>a, <2>1
  <2>2. CASE ~(r.dy > 0)
    BY <1>0, <1>5, <1>a, <2>2
  <2> QED
    BY <2>1, <2>2
<1>12. UNCHANGED <<Pixels, Len(regions)>>
  BY <1>1 DEF Pixels
<1>13. ASSUME NEW p \in Pixels
       PROVE  /\ X(p)' = X(p) /\ Y(p)' = Y(p)
              /\ \A i \in 1..Len(regions) :
                   /\ Within(p, i)' <=> Within(p, i)
                   /\ Scrolled(p, regions[i])' = Scrolled(p, regions[i])
  BY <1>1 DEF X, Y, Within, InRegion, Scrolled, InExposed, Place
<1>14. ASSUME NEW p \in Pixels, NEW i \in 1..Len(regions), Within(p, i)
       PROVE  prev'[p] = Expected(p, i)'
  <2>1. Expected(p, i)' = IF i < a_reg THEN Scrolled(p, regions[i])
                          ELSE IF i = a_reg /\ X(p) \in ToX(r) /\ Y(p) \in Written(r, a_row + 1)
                               THEN p - Place(r.dx, r.dy)
                          ELSE p
    BY <1>1, <1>13 DEF Expected, ToX, Written, Place, r
  <2>2. CASE Y(p) = Row /\ X(p) \in ToX(r)
    <3>1. i = a_reg
      BY <1>1, <1>9, <1>14, <2>2, WithinOne
    <3>2. Y(p) \in Written(r, a_row + 1)
      BY <1>6, <1>11, <2>2, <1>3, PixelPlace
    <3> QED
      BY <1>1, <1>9, <2>1, <2>2, <3>1, <3>2
  <2>3. CASE ~(Y(p) = Row /\ X(p) \in ToX(r))
    <3>1. prev'[p] = Expected(p, i)
      BY <1>10, <1>14, <2>3 DEF ApplyInv, PixelsInv
    <3>2. Y(p) \in Int
      BY <1>3, PixelPlace
    <3> QED
      BY <1>11, <2>1, <2>3, <3>1, <3>2 DEF Expected, r
  <2> QED
    BY <2>2, <2>3
<1>15. ASSUME NEW p \in Pixels, \A i \in 1..Len(regions) : ~Within(p, i)
       PROVE  prev'[p] = p
  BY <1>1, <1>9, <1>10, <1>15 DEF ApplyInv, PixelsInv
<1>16. PixelsInv'
  BY <1>12, <1>13, <1>14, <1>15 DEF PixelsInv
<1>17. (a_reg <= Len(regions) /\ Current.detected)' /\ RowsToMove' = RowsToMove
  BY <1>1 DEF Current, RowsToMove, r
<1> QED
  BY <1>1, <1>4, <1>16, <1>17 DEF ApplyInv

(* The next region begins with none of its rows written. *)
LEMMA NothingWritten ==
    ASSUME GridInv, NEW i \in 1..Len(regions), NEW y
    PROVE  y \notin Written(regions[i], 0)
<1> DEFINE r == regions[i]
<1>1. DstHi(r.y2, r.dy) \in Int /\ DstLo(r.y1, r.dy) \in Int
  <2>1. screen \in Screens /\ RegionOk(r, screen)
    BY DEF GridInv, GridOk
  <2> HIDE DEF r
  <2>2. r.y1 \in Nat /\ r.y2 \in Nat /\ r.dy \in Int
    BY <2>1 DEF RegionOk, RegionRecord
  <2> QED
    BY <2>2 DEF DstLo, DstHi
<1> HIDE DEF r
<1>2. y \notin Written(r, 0)
  BY <1>1 DEF Written
<1> QED
  BY <1>2 DEF r

LEMMA SomeRows ==
    ASSUME GridInv, NEW i \in 1..Len(regions)
    PROVE  0 <= DstHi(regions[i].y2, regions[i].dy) - DstLo(regions[i].y1, regions[i].dy)
<1> DEFINE r == regions[i]
<1>1. screen \in Screens /\ RegionOk(r, screen)
  BY DEF GridInv, GridOk
<1> HIDE DEF r
<1>2. /\ r.y1 \in Int /\ DstLo(r.y1, r.dy) \in r.y1..r.y2 - 1
      /\ DstHi(r.y2, r.dy) \in DstLo(r.y1, r.dy) + 1..r.y2
  BY <1>1, RegionMoves
<1>3. 0 <= DstHi(r.y2, r.dy) - DstLo(r.y1, r.dy)
  BY <1>2
<1> QED
  BY <1>3 DEF r

(* A region is done: what no pixel moved to is poisoned, the rest is moved. *)
LEMMA PoisonKeeps == ASSUME GridInv, ApplyInv, PoisonExposed PROVE ApplyInv'
<1> DEFINE r == regions[a_reg]
<1>1. /\ a_reg \in 1..Len(regions) /\ r.detected /\ a_row = RowsToMove
      /\ UNCHANGED <<screen, regions>> /\ a_reg' = a_reg + 1 /\ a_row' = 0
      /\ prev' = [p \in Pixels |-> IF InExposed(p, r) THEN Poison ELSE prev[p]]
  BY DEF PoisonExposed, ApplyInv, Current
<1>2. screen \in Screens /\ RegionOk(r, screen)
  BY <1>1 DEF GridInv, GridOk
<1>3. UNCHANGED <<Pixels, Len(regions)>>
  BY <1>1 DEF Pixels
<1>4. ASSUME NEW p \in Pixels
      PROVE  /\ X(p)' = X(p) /\ Y(p)' = Y(p)
             /\ \A i \in 1..Len(regions) :
                  /\ Within(p, i)' <=> Within(p, i)
                  /\ Scrolled(p, regions[i])' = Scrolled(p, regions[i])
  BY <1>1 DEF X, Y, Within, InRegion, Scrolled, InExposed, Place
<1>5. ASSUME NEW p \in Pixels, NEW i \in 1..Len(regions), Within(p, i)
      PROVE  prev'[p] = Expected(p, i)'
  <2>1. Expected(p, i)' = IF i < a_reg + 1 THEN Scrolled(p, regions[i]) ELSE p
    <3>1. Y(p) \notin Written(regions[i], 0)
      BY NothingWritten
    <3>2. Written(regions[i], a_row)' = Written(regions[i], 0)
      BY <1>1 DEF Written
    <3> QED
      BY <1>1, <1>4, <3>1, <3>2 DEF Expected
  <2>2. prev[p] = Expected(p, i)
    BY <1>5 DEF ApplyInv, PixelsInv
  <2>3. CASE i = a_reg
    <3>1. CASE InExposed(p, r)
      BY <1>1, <2>1, <2>3, <3>1 DEF Scrolled
    <3>2. CASE ~InExposed(p, r)
      <4>1. X(p) \in ToX(r) /\ Y(p) \in ToY(r)
        BY <1>2, <1>5, <2>3, <3>2, RegionMoves DEF Within
      <4>2. Written(r, a_row) = ToY(r)
        <5>1. /\ DstHi(r.y2, r.dy) \in Int /\ DstLo(r.y1, r.dy) \in Int
              /\ a_row = DstHi(r.y2, r.dy) - DstLo(r.y1, r.dy)
          BY <1>1, <1>2, RegionMoves DEF RowsToMove, Current
        <5> HIDE DEF r
        <5> QED
          BY <5>1 DEF Written, ToY
      <4>3. prev[p] = p - Place(r.dx, r.dy)
        BY <1>1, <2>2, <2>3, <4>1, <4>2 DEF Expected
      <4> QED
        BY <1>1, <2>1, <2>3, <3>2, <4>3 DEF Scrolled
    <3> QED
      BY <3>1, <3>2
  <2>4. CASE i # a_reg
    <3>1. ~Within(p, a_reg)
      BY <1>1, <1>5, <2>4, WithinOne
    <3>2. ~InExposed(p, r)
      BY <1>1, <3>1 DEF Within, InExposed
    <3>3. prev'[p] = prev[p]
      BY <1>1, <3>2
    <3>4. i < a_reg + 1 <=> i < a_reg
      BY <1>1, <2>4
    <3> QED
      BY <2>1, <2>2, <2>4, <3>3, <3>4 DEF Expected
  <2> QED
    BY <2>3, <2>4
<1>6. ASSUME NEW p \in Pixels, \A i \in 1..Len(regions) : ~Within(p, i)
      PROVE  prev'[p] = p
  <2>1. ~InExposed(p, r)
    BY <1>1, <1>6 DEF Within, InExposed
  <2> QED
    BY <1>1, <1>6, <2>1 DEF ApplyInv, PixelsInv
<1>7. PixelsInv'
  BY <1>3, <1>4, <1>5, <1>6 DEF PixelsInv
<1>8. a_reg' \in 1..Len(regions) + 1 /\ a_row' = 0
  BY <1>1
<1>9. RowsToMove' >= 0 \/ ~(a_reg <= Len(regions) /\ Current.detected)'
  BY <1>1, <1>8, SomeRows DEF RowsToMove, Current
<1> QED
  BY <1>1, <1>3, <1>7, <1>8, <1>9 DEF ApplyInv

(* A region without a scroll is passed over. *)
LEMMA SkipKeeps == ASSUME GridInv, ApplyInv, SkipRegion PROVE ApplyInv'
<1>1. /\ a_reg \in 1..Len(regions) /\ ~regions[a_reg].detected /\ a_row = 0
      /\ UNCHANGED <<screen, regions, prev, a_row>> /\ a_reg' = a_reg + 1
  BY DEF SkipRegion, ApplyInv, Current
<1>2. ASSUME NEW p \in Pixels, NEW i \in 1..Len(regions), Within(p, i)
      PROVE  prev[p] = Expected(p, i)'
  <2>1. i # a_reg
    BY <1>1, <1>2 DEF Within
  <2>2. Y(p) \notin Written(regions[i], 0)
    BY NothingWritten
  <2>3. prev[p] = Expected(p, i)
    BY <1>2 DEF ApplyInv, PixelsInv
  <2>4. /\ X(p)' = X(p) /\ Y(p)' = Y(p) /\ Scrolled(p, regions[i])' = Scrolled(p, regions[i])
        /\ Written(regions[i], a_row)' = Written(regions[i], 0)
    BY <1>1 DEF X, Y, Scrolled, InRegion, InExposed, Place, Written
  <2>5. i < a_reg' <=> i < a_reg
    BY <1>1, <2>1
  <2> QED
    BY <1>1, <2>1, <2>2, <2>3, <2>4, <2>5 DEF Expected
<1>3. ASSUME NEW p \in Pixels
      PROVE  \A i \in 1..Len(regions) : Within(p, i)' <=> Within(p, i)
  BY <1>1 DEF X, Y, Within, InRegion
<1>4. PixelsInv'
  <2>1. UNCHANGED <<Pixels, Len(regions)>>
    BY <1>1 DEF Pixels
  <2> QED
    BY <1>1, <1>2, <1>3, <2>1 DEF ApplyInv, PixelsInv
<1>5. RowsToMove' >= 0 \/ ~(a_reg <= Len(regions) /\ Current.detected)'
  BY <1>1, SomeRows DEF RowsToMove, Current
<1> QED
  BY <1>1, <1>4, <1>5 DEF ApplyInv

(* The scroll is applied to the picture the viewer has, or was just sent. *)
LEMMA ApplyBegins ==
    ASSUME GridInv, prev = Unmoved, UNCHANGED <<screen, regions, prev>>, a_reg' = 1, a_row' = 0
    PROVE  ApplyInv'
<1>1. Len(regions) \in Nat
  BY DEF GridInv, GridOk
<1>2. \A p \in Pixels : prev[p] = p
  BY DEF Unmoved
<1>3. ASSUME NEW p \in Pixels, NEW i \in 1..Len(regions) PROVE Expected(p, i)' = p
  <2>1. Y(p) \notin Written(regions[i], 0)
    BY NothingWritten
  <2>2. Y(p)' = Y(p) /\ Written(regions[i], a_row)' = Written(regions[i], 0)
    BY DEF Y, Written
  <2> QED
    BY <2>1, <2>2 DEF Expected
<1>4. PixelsInv'
  <2>1. UNCHANGED <<Pixels, Len(regions)>>
    BY DEF Pixels
  <2> QED
    BY <1>2, <1>3, <2>1 DEF PixelsInv
<1>5. RowsToMove' >= 0 \/ ~(a_reg <= Len(regions) /\ Current.detected)'
  BY <1>1, SomeRows DEF RowsToMove, Current
<1> QED
  BY <1>1, <1>4, <1>5 DEF ApplyInv

(* ShiftExact, without its phase. *)
PictureShifted ==
    \A p \in Pixels :
        \/ \E i \in DOMAIN regions : /\ regions[i].detected
                                     /\ InRegion(p, regions[i])
                                     /\ prev[p] = Scrolled(p, regions[i])
        \/ /\ ~\E i \in DOMAIN regions : regions[i].detected /\ InRegion(p, regions[i])
           /\ prev[p] = p

LEMMA ApplyEnds ==
    ASSUME GridInv, ApplyInv, a_reg > Len(regions) PROVE PictureShifted
<1>1. DOMAIN regions = 1..Len(regions) /\ Len(regions) \in Nat
  BY DEF GridInv, GridOk
<1> SUFFICES ASSUME NEW p \in Pixels
             PROVE  \/ \E i \in DOMAIN regions : /\ regions[i].detected
                                                 /\ InRegion(p, regions[i])
                                                 /\ prev[p] = Scrolled(p, regions[i])
                    \/ /\ ~\E i \in DOMAIN regions : regions[i].detected /\ InRegion(p, regions[i])
                       /\ prev[p] = p
  BY DEF PictureShifted
<1>2. CASE \E i \in 1..Len(regions) : Within(p, i)
  <2>1. PICK i \in 1..Len(regions) : Within(p, i)
    BY <1>2
  <2>2. i < a_reg
    BY <1>1 DEF ApplyInv
  <2>3. prev[p] = Scrolled(p, regions[i])
    BY <2>1, <2>2 DEF ApplyInv, PixelsInv, Expected
  <2> QED
    BY <1>1, <2>1, <2>3 DEF Within
<1>3. CASE \A i \in 1..Len(regions) : ~Within(p, i)
  BY <1>1, <1>3 DEF ApplyInv, PixelsInv, Within
<1> QED
  BY <1>2, <1>3

(* No worker is inside fn but between the call and the return. *)
LEMMA NoneBusy == ASSUME PoolInv, c_pc \in {"out", "joining"} PROVE Busy = {}
<1>1. Cardinality(Busy) = 0
  BY BusyFinite, CountsAssumption DEF PoolInv, AllAccounted, TypeOK
<1> QED
  BY <1>1, BusyFinite, FS_EmptySet

(* Steps that leave the picture alone. *)
LEMMA PictureKept ==
    ASSUME PhaseInv, UNCHANGED <<screen, regions, prev, phase, a_reg, a_row>>,
           c_pc' \in {"waiting", "woken"} <=> c_pc \in {"waiting", "woken"}
    PROVE  PhaseInv'
<1>1. ShiftExact'
  BY DEF PhaseInv, ShiftExact, Pixels, InRegion, Scrolled, InExposed, Place, X, Y
<1>2. ApplyInv => ApplyInv'
  <2>1. PixelsInv => PixelsInv'
    BY DEF PixelsInv, Pixels, Within, InRegion, Expected, Scrolled, InExposed, Place, X, Y
  <2>2. Current' = Current /\ RowsToMove' = RowsToMove
    BY DEF Current, RowsToMove
  <2> QED
    BY <2>1, <2>2 DEF ApplyInv
<1>3. prev = Unmoved => prev' = Unmoved'
  BY DEF Unmoved, Pixels
<1> QED
  BY <1>1, <1>2, <1>3 DEF PhaseInv

LEMMA PhaseInvInit == ScrollInit => PhaseInv
<1> SUFFICES ASSUME ScrollInit PROVE PhaseInv
  OBVIOUS
<1>1. c_pc = "out" /\ phase = "compare" /\ regions = <<>> /\ prev = Unmoved
  BY DEF ScrollInit, Init
<1>2. ShiftExact
  BY <1>1 DEF ShiftExact, Unmoved
<1> QED
  BY <1>1, <1>2 DEF PhaseInv

LEMMA PhaseInvStep ==
    ASSUME PoolInv, GridInv, PhaseInv, [ScrollNext]_allVars PROVE PhaseInv'
<1>1. CASE DetectScroll
  <2>1. phase' = "detect" /\ c_pc' = "waiting" /\ prev' = Unmoved /\ screen' = screen
    BY <1>1 DEF DetectScroll, Call
  <2>2. prev' = Unmoved'
    BY <2>1 DEF Unmoved, Pixels
  <2> QED
    BY <2>1, <2>2 DEF PhaseInv, ShiftExact
<1>2. CASE Detected
  <2>1. /\ phase = "detect" /\ prev = Unmoved /\ a_reg' = 1 /\ a_row' = 0
        /\ UNCHANGED <<screen, regions, prev>>
        /\ \/ c_pc' = "out" /\ phase' = "apply"
           \/ c_pc' = "waiting" /\ phase' = "detect"
    BY <1>2 DEF Detected, Return, PhaseInv
  <2>2. prev' = Unmoved'
    BY <2>1 DEF Unmoved, Pixels
  <2>3. ApplyInv'
    BY <2>1, ApplyBegins
  <2> QED
    BY <2>1, <2>2, <2>3 DEF PhaseInv, ShiftExact
<1>3. CASE MoveRow \/ PoisonExposed \/ SkipRegion
  <2>1. phase = "apply" /\ phase' = "apply" /\ c_pc' = c_pc
    BY <1>3 DEF MoveRow, PoisonExposed, SkipRegion, poolAll
  <2>2. ApplyInv'
    BY <1>3, <2>1, MoveRowKeeps, PoisonKeeps, SkipKeeps DEF PhaseInv
  <2> QED
    BY <2>1, <2>2 DEF PhaseInv, ShiftExact
<1>4. CASE Applied
  <2>1. /\ phase = "apply" /\ phase' = "compare" /\ c_pc' = c_pc /\ a_reg > Len(regions)
        /\ UNCHANGED <<screen, regions, prev>>
    BY <1>4 DEF Applied, poolAll
  <2>2. PictureShifted
    BY <2>1, ApplyEnds DEF PhaseInv
  <2>3. ShiftExact' <=> (phase' = "compare" => PictureShifted')
    BY DEF ShiftExact, PictureShifted
  <2>4. ShiftExact'
    BY <2>1, <2>2, <2>3 DEF PictureShifted, Pixels, InRegion, Scrolled, InExposed, Place, X, Y
  <2> QED
    BY <2>1, <2>4 DEF PhaseInv
<1>5. ASSUME NEW w \in Workers, Correlate(w) PROVE PhaseInv'
  <2>1. w \in Busy
    BY <1>5 DEF Correlate, InFn, Busy
  <2>2. phase = "detect"
    <3>1. c_pc \in {"out", "waiting", "woken", "joining"}
      BY DEF PoolInv, TypeOK
    <3> QED
      BY <2>1, <3>1, NoneBusy DEF PhaseInv
  <2>3. UNCHANGED <<screen, prev, phase, c_pc>>
    BY <1>5 DEF Correlate, RunFn, applyVars
  <2>4. prev' = Unmoved'
    BY <2>2, <2>3 DEF PhaseInv, Unmoved, Pixels
  <2> QED
    BY <2>2, <2>3, <2>4 DEF PhaseInv, ShiftExact
<1>6. CASE WaitAgain \/ EndPool \/ PoolEnded
  BY <1>6, PictureKept DEF WaitAgain, WaitReturns, EndPool, Cleanup, PoolEnded, Join, applyVars
<1>7. ASSUME NEW w \in Workers, OutsideFn(w) PROVE PhaseInv'
  BY <1>7, PictureKept DEF OutsideFn, Work, Finish, applyVars
<1>8. ASSUME NEW w \in Workers,
             LockPlanner(w) \/ GetResources(w) \/ MakePlans(w) \/ FreePlans(w) \/ GiveUp(w)
      PROVE  PhaseInv'
  BY <1>8, PictureKept DEF LockPlanner, GetResources, MakePlans, FreePlans, GiveUp, RunFn,
     applyVars, poolAll
<1>9. CASE UNCHANGED allVars
  BY <1>9, PictureKept DEF allVars, applyVars, poolAll
<1> QED
  BY <1>1, <1>2, <1>3, <1>4, <1>5, <1>6, <1>7, <1>8, <1>9 DEF ScrollNext, SendThread, FftStep

(* The invariant of the whole detection.  It needs the pool's: a worker still
   inside fn could find a shift for a region that is being moved. *)
THEOREM ScrollInvariant == ScrollSpec => []ScrollInv
<1>1. ScrollInit => ScrollInv
  BY GridInvInit, PhaseInvInit DEF ScrollInv
<1>2. PoolInv /\ ScrollInv /\ [ScrollNext]_allVars => ScrollInv'
  BY GridInvStep, PhaseInvStep DEF ScrollInv
<1> QED
  BY <1>1, <1>2, ScrollIsPool, PoolInvariant, PTL DEF ScrollSpec

(* After apply_scroll_to_prevbuf every pixel of prev_framebuf is the one a shift
   away, poison, or what it was, exactly as its region says: the in-place
   memmoves never read a row they have written, for every screen, grid, shift
   and number of workers. *)
THEOREM ShiftsExactly == ScrollSpec => []ShiftExact
<1>1. ScrollInv => ShiftExact
  BY DEF ScrollInv, PhaseInv
<1> QED
  BY ScrollInvariant, <1>1, PTL
=============================================================================
