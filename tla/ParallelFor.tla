----------------------------- MODULE ParallelFor -----------------------------
(***************************************************************************)
(* The pool of persistent worker threads of draw/parallel.c: parallel_for  *)
(* hands the indices 0..count-1 to the workers, which call fn once for     *)
(* each, and returns when the last call of fn has; parallel_cleanup ends   *)
(* the workers.  What a thread does between two releases of pool.lock is   *)
(* one action.  An action that Next does not use is a slip of the one      *)
(* below it (README, Slips).                                               *)
(***************************************************************************)
EXTENDS Integers, FiniteSets

CONSTANTS Workers, MaxCount, MaxCalls   \* MaxCalls bounds the calls

ASSUME WorkersAssumption == IsFiniteSet(Workers)
ASSUME CountsAssumption == MaxCount \in Nat /\ MaxCalls \in Nat

VARIABLES
    c_pc,       \* the caller: "out", "waiting" on done_cond, "woken", "joining"
    w_pc,       \* a worker: in fn ("run"), back from it ("ran"), ...
    w_idx,      \* the index a worker works on
    count, next_idx, done_count, shutdown,
    calls,      \* counter for the bound
    ran         \* how often fn ran for an index in the current call

poolVars == <<count, next_idx, done_count, shutdown>>
vars == <<c_pc, w_pc, w_idx, poolVars, calls, ran>>

Indices == 0..MaxCount - 1
Busy == {w \in Workers : w_pc[w] \in {"run", "ran"}}

(* pthread_cond_broadcast(&work_cond), after ensure_initialized made threads. *)
Woken == [w \in Workers |-> IF w_pc[w] \in {"absent", "asleep"} THEN "awake"
                            ELSE w_pc[w]]

Init == /\ c_pc = "out"
        /\ w_pc = [w \in Workers |-> "absent"] /\ w_idx = [w \in Workers |-> 0]
        /\ count = 0 /\ next_idx = 0 /\ done_count = 0 /\ shutdown = FALSE
        /\ calls = 0 /\ ran = [i \in Indices |-> 0]

-----------------------------------------------------------------------------
Call == /\ c_pc = "out" /\ ~shutdown /\ calls < MaxCalls
        /\ \E n \in 1..MaxCount : count' = n
        /\ next_idx' = 0 /\ done_count' = 0
        /\ w_pc' = Woken
        /\ c_pc' = "waiting"
        /\ calls' = calls + 1 /\ ran' = [i \in Indices |-> 0]
        /\ UNCHANGED <<w_idx, shutdown>>

(* pthread_cond_wait returns, with or without a signal. *)
WaitReturns == /\ c_pc = "waiting"
               /\ c_pc' = "woken"
               /\ UNCHANGED <<w_pc, w_idx, poolVars, calls, ran>>

ReturnUntested == /\ c_pc = "woken"
                  /\ c_pc' = "out"
                  /\ UNCHANGED <<w_pc, w_idx, poolVars, calls, ran>>

Return == /\ c_pc = "woken"
          /\ c_pc' = IF done_count < count THEN "waiting" ELSE "out"
          /\ UNCHANGED <<w_pc, w_idx, poolVars, calls, ran>>

(* parallel_cleanup; the pool is not used again. *)
Cleanup == /\ c_pc = "out" /\ ~shutdown /\ calls > 0
           /\ shutdown' = TRUE
           /\ w_pc' = Woken
           /\ c_pc' = "joining"
           /\ UNCHANGED <<w_idx, count, next_idx, done_count, calls, ran>>

Join == /\ c_pc = "joining" /\ \A w \in Workers : w_pc[w] = "exited"
        /\ c_pc' = "out"
        /\ UNCHANGED <<w_pc, w_idx, poolVars, calls, ran>>

-----------------------------------------------------------------------------
(* The head of worker_func's loop: take the next index or wait for work. *)
Take(w) ==
    IF shutdown
    THEN w_pc' = [w_pc EXCEPT ![w] = "exited"] /\ UNCHANGED <<w_idx, next_idx>>
    ELSE IF next_idx < count
    THEN /\ w_pc' = [w_pc EXCEPT ![w] = "run"]
         /\ w_idx' = [w_idx EXCEPT ![w] = next_idx]
         /\ next_idx' = next_idx + 1
    ELSE w_pc' = [w_pc EXCEPT ![w] = "asleep"] /\ UNCHANGED <<w_idx, next_idx>>

Work(w) == /\ w_pc[w] = "awake"
           /\ Take(w)
           /\ UNCHANGED <<c_pc, count, done_count, shutdown, calls, ran>>

RunFn(w) == /\ w_pc[w] = "run"
            /\ ran' = [ran EXCEPT ![w_idx[w]] = @ + 1]
            /\ w_pc' = [w_pc EXCEPT ![w] = "ran"]
            /\ UNCHANGED <<c_pc, w_idx, poolVars, calls>>

FinishUnsignalled(w) ==
    /\ w_pc[w] = "ran"
    /\ done_count' = done_count + 1
    /\ c_pc' = IF done_count = count /\ c_pc = "waiting" THEN "woken" ELSE c_pc
    /\ Take(w)
    /\ UNCHANGED <<count, shutdown, calls, ran>>

Finish(w) ==
    /\ w_pc[w] = "ran"
    /\ done_count' = done_count + 1
    /\ c_pc' = IF done_count' = count /\ c_pc = "waiting" THEN "woken" ELSE c_pc
    /\ Take(w)
    /\ UNCHANGED <<count, shutdown, calls, ran>>

-----------------------------------------------------------------------------
Worker(w) == Work(w) \/ RunFn(w) \/ Finish(w)
Caller == Call \/ WaitReturns \/ Return \/ Cleanup \/ Join

Next == Caller \/ \E w \in Workers : Worker(w)

Spec == Init /\ [][Next]_vars

(* Threads run when they can; a wait need not return without a signal, and
   nobody has to call again or to clean up. *)
FairSpec == /\ Spec
            /\ WF_vars(Return) /\ WF_vars(Join)
            /\ \A w \in Workers : WF_vars(Worker(w))

-----------------------------------------------------------------------------
TypeOK == /\ c_pc \in {"out", "waiting", "woken", "joining"}
          /\ w_pc \in [Workers -> {"absent", "asleep", "awake", "run", "ran", "exited"}]
          /\ w_idx \in [Workers -> Int]
          /\ count \in 0..MaxCount /\ next_idx \in 0..count /\ done_count \in 0..count
          /\ shutdown \in BOOLEAN
          /\ calls \in 0..MaxCalls /\ ran \in [Indices -> Nat]

(* When parallel_for returns, fn ran exactly once for every index, whichever
   workers took them and however often the waits returned too early. *)
ExactlyOnce == /\ c_pc = "out" => \A i \in 0..count - 1 : ran[i] = 1
               /\ \A i \in Indices : ran[i] <= 1

(* ... and no worker is still inside fn, with the ctx of the caller, whose
   lifetime may end with the call. *)
NoneAfterReturn == c_pc = "out" => Busy = {}

(* parallel_for returns, and parallel_cleanup's joins do. *)
CallReturns == c_pc # "out" ~> c_pc = "out"
=============================================================================
