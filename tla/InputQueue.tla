----------------------------- MODULE InputQueue ------------------------------
(***************************************************************************)
(* The queue through which other threads hand input events and wakeups to  *)
(* the compositor's event loop: a ring under a mutex (input/input.c) and a *)
(* pipe whose bytes wake the event loop, which empties first the pipe and  *)
(* then the ring (handle_input_events, wayland/wl_input.c).                *)
(* An operator that QueueNext does not use is a slip of the one below it   *)
(* (see README, Slips).                                                    *)
(***************************************************************************)
EXTENDS Integers, Sequences

CONSTANTS
    Producers,   \* the threads that push
    Events,      \* the kinds of event
    QueueSize,   \* INPUT_QUEUE_SIZE
    PipeCap,     \* bytes the kernel's pipe holds (65536)
    ReadSize,    \* bytes one read takes (32)
    MaxPushes    \* bound: calls of input_queue_push

ASSUME SizeAssumption == QueueSize \in Nat /\ QueueSize > 1
ASSUME PipeAssumption == PipeCap \in Nat /\ PipeCap > 0
ASSUME ReadAssumption == ReadSize \in Nat /\ ReadSize > 0
ASSUME PushesAssumption == MaxPushes \in Nat
ASSUME EventsAssumption == Events # {}

Nobody == "nobody"
ASSUME ProducersAssumption == Nobody \notin Producers

VARIABLES
    events, head, tail,   \* the ring
    lock,                 \* the thread inside input_queue_push, or Nobody
    pipe,                 \* bytes in the pipe
    unheard,              \* the last write to the pipe failed (history)
    dropped,              \* pushes refused so far (history)
    m_pc,                 \* the event loop
    pushes                \* counter for the bound

ring == <<events, head, tail>>
queueVars == <<ring, lock, pipe, unheard, dropped, m_pc, pushes>>

After(i) == (i + 1) % QueueSize

(* struct server starts zeroed: one and the same event in every place. *)
Zeroed == CHOOSE e \in Events : TRUE

QueueInit ==
    /\ events = [i \in 0..QueueSize - 1 |-> Zeroed]
    /\ head = 0 /\ tail = 0
    /\ lock = Nobody /\ pipe = 0
    /\ unheard = FALSE /\ dropped = 0
    /\ m_pc = "idle" /\ pushes = 0

-----------------------------------------------------------------------------
PushDroppedEarly(p) ==
    /\ lock = Nobody /\ pushes < MaxPushes
    /\ After(After(tail)) = head
    /\ pushes' = pushes + 1 /\ dropped' = dropped + 1
    /\ UNCHANGED <<ring, lock, pipe, unheard, m_pc>>

(* A push to a full queue is dropped. *)
PushDropped(p) ==
    /\ lock = Nobody /\ pushes < MaxPushes
    /\ After(tail) = head
    /\ pushes' = pushes + 1 /\ dropped' = dropped + 1
    /\ UNCHANGED <<ring, lock, pipe, unheard, m_pc>>

PushOverwrites(p) ==
    /\ lock = Nobody /\ pushes < MaxPushes
    /\ \E e \in Events : events' = [events EXCEPT ![tail] = e]
    /\ tail' = After(tail)
    /\ lock' = p
    /\ pushes' = pushes + 1
    /\ UNCHANGED <<head, pipe, unheard, dropped, m_pc>>

(* The event is stored, and with the mutex held ... *)
PushStored(p) ==
    /\ lock = Nobody /\ pushes < MaxPushes
    /\ After(tail) # head
    /\ \E e \in Events : events' = [events EXCEPT ![tail] = e]
    /\ tail' = After(tail)
    /\ lock' = p
    /\ pushes' = pushes + 1
    /\ UNCHANGED <<head, pipe, unheard, dropped, m_pc>>

(* ... a byte is written to the pipe.  The write end blocks when it is full. *)
PushWrites(p) ==
    /\ lock = p /\ pipe < PipeCap
    /\ pipe' = pipe + 1
    /\ lock' = Nobody /\ unheard' = FALSE
    /\ UNCHANGED <<ring, dropped, m_pc, pushes>>

(* A write that fails is ignored: the event stays in the ring without a byte.
   Every write fails if pipe() failed in input_queue_init. *)
WriteFails(p) ==
    /\ lock = p
    /\ lock' = Nobody /\ unheard' = TRUE
    /\ UNCHANGED <<ring, pipe, dropped, m_pc, pushes>>

-----------------------------------------------------------------------------
(* The event loop finds the pipe readable and calls handle_input_events. *)
Dispatch ==
    /\ m_pc = "idle" /\ pipe > 0
    /\ m_pc' = "drain"
    /\ UNCHANGED <<ring, lock, pipe, unheard, dropped, pushes>>

DrainPipe ==
    /\ m_pc = "drain"
    /\ IF pipe > 0
       THEN pipe' = (IF pipe > ReadSize THEN pipe - ReadSize ELSE 0)
            /\ UNCHANGED m_pc
       ELSE m_pc' = "pop" /\ UNCHANGED pipe
    /\ UNCHANGED <<ring, lock, unheard, dropped, pushes>>

PopOnce ==
    /\ m_pc = "pop" /\ lock = Nobody
    /\ head' = IF head = tail THEN head ELSE After(head)
    /\ m_pc' = "idle"
    /\ UNCHANGED <<events, tail, lock, pipe, unheard, dropped, pushes>>

(* input_queue_pop, until it finds nothing. *)
PopEvent ==
    /\ m_pc = "pop" /\ lock = Nobody
    /\ IF head = tail
       THEN m_pc' = "idle" /\ UNCHANGED head
       ELSE head' = After(head) /\ UNCHANGED m_pc
    /\ UNCHANGED <<events, tail, lock, pipe, unheard, dropped, pushes>>

-----------------------------------------------------------------------------
MainStep == Dispatch \/ DrainPipe \/ PopEvent
Push(p) == PushDropped(p) \/ PushStored(p)

QueueNext == MainStep \/ \E p \in Producers : Push(p) \/ PushWrites(p) \/ WriteFails(p)

QueueSpec == QueueInit /\ [][QueueNext]_queueVars

(* The event loop runs, and a thread in input_queue_push finishes it when the
   pipe has room.  Nobody is obliged to push. *)
QueueFairness == /\ WF_queueVars(MainStep)
                 /\ WF_queueVars(\E p \in Producers : PushWrites(p))

-----------------------------------------------------------------------------
TypeOK ==
    /\ events \in [0..QueueSize - 1 -> Events]
    /\ head \in 0..QueueSize - 1 /\ tail \in 0..QueueSize - 1
    /\ lock \in Producers \cup {Nobody}
    /\ pipe \in 0..PipeCap
    /\ unheard \in BOOLEAN /\ dropped \in 0..pushes
    /\ m_pc \in {"idle", "drain", "pop"}
    /\ pushes \in 0..MaxPushes

(* The event loop never goes to sleep over a queued event, unless the write of
   the last byte failed: emptying the pipe before the ring, and writing under
   the mutex after storing, leave no window in which an event has lost its
   byte, and one later byte makes good for all that were lost before. *)
NoLostWakeup ==
    head # tail /\ m_pc = "idle" => pipe > 0 \/ lock \in Producers \/ unheard

(* Every queued event is taken, however many arrive while others are handled,
   unless the write of the last byte failed. *)
AllTaken == head # tail ~> head = tail \/ unheard

(* The ring is a first-in first-out queue of QueueSize - 1 places: with the tail
   that runs after the head modulo QueueSize, nothing is reordered, repeated or
   overwritten, and a push is refused only when every place is taken. *)
Waiting == (tail - head) % QueueSize
Place(k) == (head + k) % QueueSize
Queued == [i \in 1..Waiting |-> events[Place(i - 1)]]
Fifo == INSTANCE BoundedFifo WITH queue <- Queued, refused <- dropped,
                                   Items <- Events, Room <- QueueSize - 1
RingIsFifo == Fifo!Spec
=============================================================================
