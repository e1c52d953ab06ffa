-------------------------- MODULE InputQueueProofs ---------------------------
(***************************************************************************)
(* For a ring, a pipe and reads of any size, and any number of threads that *)
(* push: the types hold, no queued event is slept over, and the ring is a  *)
(* first-in first-out queue.                                               *)
(***************************************************************************)
EXTENDS InputQueue, SequenceTheorems, TLAPS

(* Where the next place of the ring is. *)
LEMMA AfterValue ==
    ASSUME NEW i \in 0..QueueSize - 1
    PROVE  /\ After(i) \in 0..QueueSize - 1
           /\ After(i) = IF i = QueueSize - 1 THEN 0 ELSE i + 1
<1>1. CASE i = QueueSize - 1
  <2>1. QueueSize % QueueSize = 0
    BY SizeAssumption, SMTT(30)
  <2>. QED
    BY <1>1, <2>1, SizeAssumption DEF After
<1>2. CASE i # QueueSize - 1
  <2>1. i + 1 \in 0..QueueSize - 1
    BY <1>2, SizeAssumption
  <2>2. (i + 1) % QueueSize = i + 1
    BY <2>1, SizeAssumption, SMTT(30)
  <2>. QED
    BY <2>1, <2>2, <1>2, SizeAssumption DEF After
<1>. QED
  BY <1>1, <1>2

(* The modulus of a difference of two places. *)
LEMMA DifferenceValue ==
    ASSUME NEW h \in 0..QueueSize - 1, NEW t \in 0..QueueSize - 1
    PROVE  (t - h) % QueueSize = IF t >= h THEN t - h ELSE t - h + QueueSize
<1>1. CASE t >= h
  BY <1>1, SizeAssumption, SMTT(30)
<1>2. CASE t < h
  BY <1>2, SizeAssumption, SMTT(30)
<1>. QED
  BY <1>1, <1>2, SizeAssumption

(* The number of queued events, before and after a step. *)
LEMMA LengthValue ==
    ASSUME head \in 0..QueueSize - 1, tail \in 0..QueueSize - 1
    PROVE  /\ Waiting = IF tail >= head THEN tail - head ELSE tail - head + QueueSize
           /\ Waiting \in 0..QueueSize - 1
<1>1. Waiting = IF tail >= head THEN tail - head ELSE tail - head + QueueSize
  BY DifferenceValue DEF Waiting
<1>. QED
  BY <1>1, SizeAssumption

LEMMA LengthValuePrimed ==
    ASSUME head' \in 0..QueueSize - 1, tail' \in 0..QueueSize - 1
    PROVE  Waiting' = IF tail' >= head' THEN tail' - head' ELSE tail' - head' + QueueSize
BY DifferenceValue DEF Waiting

(* The modulus of a sum of two places. *)
LEMMA SumValue ==
    ASSUME NEW h \in 0..QueueSize - 1, NEW k \in 0..QueueSize - 1
    PROVE  (h + k) % QueueSize = IF h + k < QueueSize THEN h + k ELSE h + k - QueueSize
<1>1. CASE h + k < QueueSize
  BY <1>1, SizeAssumption, SMTT(30)
<1>2. CASE h + k >= QueueSize
  <2>. DEFINE x == h + k - QueueSize
  <2>1. x \in 0..QueueSize - 1
    BY <1>2, SizeAssumption
  <2>2. (x + QueueSize) % QueueSize = x
    <3>. HIDE DEF x
    <3>. QED
      BY <2>1, SizeAssumption, SMTT(30)
  <2>3. h + k = x + QueueSize
    BY SizeAssumption
  <2>. QED
    BY <2>2, <2>3, <1>2, SizeAssumption
<1>. QED
  BY <1>1, <1>2, SizeAssumption

(* The place of the k-th event after the head, before and after a step. *)
LEMMA PlaceValue ==
    ASSUME head \in 0..QueueSize - 1, NEW k \in 0..QueueSize - 1
    PROVE  /\ Place(k) = IF head + k < QueueSize THEN head + k ELSE head + k - QueueSize
           /\ Place(k) \in 0..QueueSize - 1
<1>1. Place(k) = IF head + k < QueueSize THEN head + k ELSE head + k - QueueSize
  BY SumValue DEF Place
<1>. QED
  BY <1>1, SizeAssumption

LEMMA PlaceValuePrimed ==
    ASSUME head' \in 0..QueueSize - 1, NEW k \in 0..QueueSize - 1
    PROVE  Place(k)' = IF head' + k < QueueSize THEN head' + k ELSE head' + k - QueueSize
BY SumValue DEF Place

-----------------------------------------------------------------------------
QueueInv == TypeOK /\ NoLostWakeup

LEMMA InitQueueInv == QueueInit => QueueInv
<1>1. Zeroed \in Events
  BY EventsAssumption DEF Zeroed
<1>2. QueueInit => unheard \in BOOLEAN
  BY DEF QueueInit
<1>3. ASSUME QueueInit
      PROVE  /\ events \in [0..QueueSize - 1 -> Events]
             /\ head \in 0..QueueSize - 1 /\ tail \in 0..QueueSize - 1
             /\ pipe \in 0..PipeCap /\ dropped \in 0..pushes
             /\ pushes \in 0..MaxPushes /\ head = tail
  <2>1. /\ events = [i \in 0..QueueSize - 1 |-> Zeroed]
        /\ head = 0 /\ tail = 0 /\ pipe = 0 /\ dropped = 0 /\ pushes = 0
    BY <1>3 DEF QueueInit
  <2>. QED
    BY <2>1, <1>1, SizeAssumption, PipeAssumption, PushesAssumption
<1>. QED
  BY <1>2, <1>3 DEF QueueInit, QueueInv, TypeOK, NoLostWakeup

LEMMA StepQueueInv == QueueInv /\ [QueueNext]_queueVars => QueueInv'
<1> SUFFICES ASSUME QueueInv, [QueueNext]_queueVars PROVE QueueInv'
  OBVIOUS
<1>. USE SizeAssumption, PipeAssumption, ReadAssumption, PushesAssumption,
         ProducersAssumption DEF QueueInv, TypeOK, NoLostWakeup, ring
<1>1. CASE Dispatch
  BY <1>1 DEF Dispatch
<1>2. CASE DrainPipe
  BY <1>2 DEF DrainPipe
<1>3. CASE PopEvent
  BY <1>3, AfterValue DEF PopEvent
<1>4. ASSUME NEW p \in Producers, PushDropped(p) PROVE QueueInv'
  BY <1>4 DEF PushDropped
<1>5. ASSUME NEW p \in Producers, PushStored(p) PROVE QueueInv'
  BY <1>5, AfterValue DEF PushStored
<1>6. ASSUME NEW p \in Producers, PushWrites(p) PROVE QueueInv'
  <2>1. unheard' \in BOOLEAN
    BY <1>6 DEF PushWrites
  <2>2. /\ pipe' = pipe + 1 /\ pipe < PipeCap /\ lock' = Nobody
        /\ UNCHANGED <<ring, dropped, m_pc, pushes>>
    BY <1>6 DEF PushWrites
  <2>. QED
    BY <2>1, <2>2
<1>7. ASSUME NEW p \in Producers, WriteFails(p) PROVE QueueInv'
  BY <1>7 DEF WriteFails
<1>8. CASE UNCHANGED queueVars
  BY <1>8 DEF queueVars
<1>. QED
  BY <1>1, <1>2, <1>3, <1>4, <1>5, <1>6, <1>7, <1>8 DEF QueueNext, MainStep, Push

(* In every reachable state the variables have their types and no queued event
   is slept over: the inductive invariant of the queue. *)
THEOREM QueueInvariant == QueueSpec => []QueueInv
  BY InitQueueInv, StepQueueInv, PTL DEF QueueSpec

(* input_queue_push and handle_input_events never lose a wakeup, whatever the
   size of the ring, of the pipe and of the reads: while the event loop waits,
   a queued event has a byte in the pipe or a thread about to write it, unless
   the last write failed. *)
THEOREM NoWakeupLost == QueueSpec => []NoLostWakeup
  BY QueueInvariant, PTL DEF QueueInv

-----------------------------------------------------------------------------
(* The ring implements the bounded queue. *)

(* Tail and Append, place by place. *)
LEMMA TailValue ==
    ASSUME NEW S, NEW s \in Seq(S), s # <<>>
    PROVE  Tail(s) = [i \in 1..Len(s) - 1 |-> s[i + 1]]
<1>. DEFINE f == [i \in 1..Len(s) - 1 |-> s[i + 1]]
<1>1. Len(s) - 1 \in Nat /\ \A i \in 1..Len(s) - 1 : i + 1 \in 1..Len(s)
  OBVIOUS
<1>2. f \in Seq(S) /\ Len(f) = Len(s) - 1
  BY <1>1
<1>3. Tail(s) \in Seq(S) /\ Len(Tail(s)) = Len(s) - 1
      /\ \A i \in 1..Len(Tail(s)) : Tail(s)[i] = s[i + 1]
  BY HeadTailProperties
<1>4. \A i \in 1..Len(Tail(s)) : Tail(s)[i] = f[i]
  BY <1>3
<1>. HIDE DEF f
<1>5. Tail(s) = f
  BY <1>2, <1>3, <1>4, SeqEqual
<1>. QED
  BY <1>5 DEF f

LEMMA AppendValue ==
    ASSUME NEW S, NEW s \in Seq(S), NEW e \in S
    PROVE  Append(s, e) = [i \in 1..Len(s) + 1 |-> IF i = Len(s) + 1 THEN e ELSE s[i]]
<1>. DEFINE f == [i \in 1..Len(s) + 1 |-> IF i = Len(s) + 1 THEN e ELSE s[i]]
<1>1. f \in Seq(S) /\ Len(f) = Len(s) + 1
  OBVIOUS
<1>2. Append(s, e) \in Seq(S) /\ Len(Append(s, e)) = Len(s) + 1
      /\ \A i \in 1..Len(s) : Append(s, e)[i] = s[i]
      /\ Append(s, e)[Len(s) + 1] = e
  BY AppendProperties
<1>3. \A i \in 1..Len(Append(s, e)) : Append(s, e)[i] = f[i]
  BY <1>2
<1>. HIDE DEF f
<1>4. Append(s, e) = f
  BY <1>1, <1>2, <1>3, SeqEqual
<1>. QED
  BY <1>4 DEF f

LEMMA QueuedIsSeq ==
    ASSUME TypeOK
    PROVE  /\ Queued \in Seq(Events)
           /\ Len(Queued) = Waiting
           /\ Waiting \in 0..QueueSize - 1
<1>1. Waiting \in 0..QueueSize - 1
  BY LengthValue DEF TypeOK
<1>2. \A i \in 1..Waiting : Place(i - 1) \in 0..QueueSize - 1
  <2> SUFFICES ASSUME NEW i \in 1..Waiting PROVE Place(i - 1) \in 0..QueueSize - 1
    OBVIOUS
  <2>1. i - 1 \in 0..QueueSize - 1
    BY <1>1, SizeAssumption
  <2>. QED
    BY <2>1, PlaceValue DEF TypeOK
<1>. QED
  BY <1>1, <1>2 DEF Queued, TypeOK

LEMMA PopTakesHead ==
    ASSUME TypeOK, PopEvent, head # tail
    PROVE  Queued # <<>> /\ Queued' = Tail(Queued)
<1>1. Waiting \in 1..QueueSize - 1
  BY LengthValue, SizeAssumption DEF TypeOK
<1>2. /\ head' = (IF head = QueueSize - 1 THEN 0 ELSE head + 1)
      /\ head' \in 0..QueueSize - 1 /\ tail' = tail /\ events' = events
  BY AfterValue, SizeAssumption DEF PopEvent, TypeOK
<1>3. Waiting' = Waiting - 1
  BY <1>1, <1>2, LengthValue, LengthValuePrimed, SizeAssumption DEF TypeOK
<1>4. \A i \in 1..Waiting - 1 : Place(i - 1)' = Place(i)
  <2> SUFFICES ASSUME NEW i \in 1..Waiting - 1 PROVE Place(i - 1)' = Place(i)
    OBVIOUS
  <2>1. i - 1 \in 0..QueueSize - 1 /\ i \in 0..QueueSize - 1
    BY <1>1, SizeAssumption
  <2>2. Place(i) = IF head + i < QueueSize THEN head + i ELSE head + i - QueueSize
    BY <2>1, PlaceValue DEF TypeOK
  <2>3. Place(i - 1)' = IF head' + (i - 1) < QueueSize THEN head' + (i - 1)
                        ELSE head' + (i - 1) - QueueSize
    BY <2>1, <1>2, PlaceValuePrimed
  <2>. QED
    BY <2>1, <2>2, <2>3, <1>2, SizeAssumption DEF TypeOK
<1>5. Queued' = [i \in 1..Waiting - 1 |-> events[Place(i)]]
  BY <1>2, <1>3, <1>4 DEF Queued
<1>6. Tail(Queued) = [i \in 1..Waiting - 1 |-> Queued[i + 1]] /\ Queued # <<>>
  <2>. HIDE DEF Queued
  <2>1. Len(Queued) = Waiting /\ Queued \in Seq(Events)
    BY QueuedIsSeq
  <2>2. Queued # <<>>
    BY <2>1, <1>1
  <2>. QED
    BY <2>1, <2>2, TailValue
<1>7. \A i \in 1..Waiting - 1 : Queued[i + 1] = events[Place(i)]
  <2> SUFFICES ASSUME NEW i \in 1..Waiting - 1
               PROVE Queued[i + 1] = events[Place(i)]
    OBVIOUS
  <2>1. i + 1 \in 1..Waiting /\ (i + 1) - 1 = i
    BY <1>1, SizeAssumption
  <2>. QED
    BY <2>1 DEF Queued
<1>. QED
  BY <1>5, <1>6, <1>7

LEMMA PushAppends ==
    ASSUME TypeOK, NEW p \in Producers, PushStored(p)
    PROVE  /\ Len(Queued) < QueueSize - 1
           /\ \E e \in Events : Queued' = Append(Queued, e)
<1>1. PICK e \in Events : events' = [events EXCEPT ![tail] = e]
  BY DEF PushStored
<1>2. /\ tail' = (IF tail = QueueSize - 1 THEN 0 ELSE tail + 1) /\ tail' # head
      /\ tail' \in 0..QueueSize - 1 /\ head' = head
  BY AfterValue, SizeAssumption DEF PushStored, TypeOK
<1>3. Waiting \in 0..QueueSize - 2 /\ Waiting' = Waiting + 1
  BY <1>2, LengthValue, LengthValuePrimed, SizeAssumption DEF TypeOK
<1>4. \A k \in 0..Waiting : Place(k)' = Place(k) /\ Place(k) \in 0..QueueSize - 1
  <2> SUFFICES ASSUME NEW k \in 0..Waiting
               PROVE Place(k)' = Place(k) /\ Place(k) \in 0..QueueSize - 1
    OBVIOUS
  <2>1. k \in 0..QueueSize - 1
    BY <1>3, SizeAssumption
  <2>. QED
    BY <2>1, <1>2, PlaceValue DEF TypeOK, Place
<1>5. \A k \in 0..Waiting : Place(k) = tail <=> k = Waiting
  <2> SUFFICES ASSUME NEW k \in 0..Waiting PROVE Place(k) = tail <=> k = Waiting
    OBVIOUS
  <2>1. Place(k) = IF head + k < QueueSize THEN head + k ELSE head + k - QueueSize
    BY <1>3, PlaceValue, SizeAssumption DEF TypeOK
  <2>2. Waiting = IF tail >= head THEN tail - head ELSE tail - head + QueueSize
    BY LengthValue DEF TypeOK
  <2>. QED
    BY <2>1, <2>2, <1>3, SizeAssumption DEF TypeOK
<1>6. Queued' = [i \in 1..Waiting + 1 |-> events'[Place(i - 1)']]
  BY <1>3 DEF Queued
<1>7. Len(Queued) = Waiting /\ Queued \in Seq(Events)
  BY QueuedIsSeq
<1>8. Append(Queued, e) =
          [i \in 1..Waiting + 1 |-> IF i = Waiting + 1 THEN e ELSE Queued[i]]
  <2>. HIDE DEF Queued
  <2>. QED
    BY <1>7, AppendValue
<1>9. \A i \in 1..Waiting + 1 :
          events'[Place(i - 1)'] = IF i = Waiting + 1 THEN e ELSE Queued[i]
  <2> SUFFICES ASSUME NEW i \in 1..Waiting + 1
               PROVE events'[Place(i - 1)'] =
                         IF i = Waiting + 1 THEN e ELSE Queued[i]
    OBVIOUS
  <2>1. i - 1 \in 0..Waiting
    BY <1>3, SizeAssumption
  <2>2. Place(i - 1)' = Place(i - 1) /\ Place(i - 1) \in 0..QueueSize - 1
    BY <2>1, <1>4
  <2>3. CASE i = Waiting + 1
    <3>1. Place(i - 1) = tail
      BY <2>1, <2>3, <1>3, <1>5
    <3>. QED
      BY <3>1, <2>2, <2>3, <1>1 DEF TypeOK
  <2>4. CASE i # Waiting + 1
    <3>1. Place(i - 1) # tail
      BY <2>1, <2>4, <1>3, <1>5
    <3>2. i \in 1..Waiting
      BY <2>4, <1>3
    <3>. QED
      BY <3>1, <3>2, <2>2, <2>4, <1>1 DEF TypeOK, Queued
  <2>. QED
    BY <2>3, <2>4
<1>10. Queued' = Append(Queued, e)
  BY <1>6, <1>8, <1>9
<1>. QED
  BY <1>3, <1>7, <1>10, SizeAssumption

(* A ring whose tail would meet the head holds QueueSize - 1 events. *)
LEMMA FullIsFull ==
    ASSUME TypeOK, After(tail) = head
    PROVE  Len(Queued) = QueueSize - 1
<1>1. head = IF tail = QueueSize - 1 THEN 0 ELSE tail + 1
  BY AfterValue DEF TypeOK
<1>2. Waiting = IF tail >= head THEN tail - head ELSE tail - head + QueueSize
  BY LengthValue DEF TypeOK
<1>3. Waiting = QueueSize - 1
  BY <1>1, <1>2, SizeAssumption DEF TypeOK
<1>. QED
  BY <1>3, QueuedIsSeq

LEMMA InitMaps == QueueInit => Fifo!Init
<1> SUFFICES ASSUME QueueInit PROVE Queued = <<>> /\ dropped = 0
  BY DEF Fifo!Init
<1>1. TypeOK
  BY InitQueueInv DEF QueueInv
<1>2. Waiting = 0
  BY <1>1, LengthValue, SizeAssumption DEF QueueInit, TypeOK
<1>. QED
  BY <1>1, <1>2, QueuedIsSeq DEF QueueInit

LEMMA StepMaps == QueueInv /\ [QueueNext]_queueVars => [Fifo!Next]_<<Queued, dropped>>
<1> SUFFICES ASSUME TypeOK, [QueueNext]_queueVars PROVE [Fifo!Next]_<<Queued, dropped>>
  BY DEF QueueInv
<1>1. ASSUME UNCHANGED ring PROVE UNCHANGED Queued
  BY <1>1 DEF Queued, Waiting, Place, ring
<1>2. CASE PopEvent
  <2>1. CASE head = tail
    BY <2>1, <1>1, <1>2 DEF PopEvent, ring
  <2>2. CASE head # tail
    <3>1. UNCHANGED dropped
      BY <1>2 DEF PopEvent
    <3>2. Queued # <<>> /\ Queued' = Tail(Queued)
      BY <2>2, <1>2, PopTakesHead
    <3>. QED
      BY <3>1, <3>2 DEF Fifo!Next, Fifo!Get
  <2>. QED
    BY <2>1, <2>2
<1>3. ASSUME NEW p \in Producers, PushStored(p) PROVE Fifo!Next
  <2>1. UNCHANGED dropped
    BY <1>3 DEF PushStored
  <2>2. Len(Queued) < QueueSize - 1 /\ \E e \in Events : Queued' = Append(Queued, e)
    BY <1>3, PushAppends
  <2>. QED
    BY <2>1, <2>2 DEF Fifo!Next, Fifo!Put
<1>4. ASSUME NEW p \in Producers, PushDropped(p) PROVE Fifo!Next
  <2>1. dropped' = dropped + 1 /\ UNCHANGED Queued
    BY <1>4, <1>1 DEF PushDropped
  <2>2. Len(Queued) = QueueSize - 1
    BY <1>4, FullIsFull DEF PushDropped
  <2>. QED
    BY <2>1, <2>2 DEF Fifo!Next, Fifo!Refuse
<1>5. CASE Dispatch \/ DrainPipe \/ UNCHANGED queueVars
  BY <1>5, <1>1 DEF Dispatch, DrainPipe, queueVars
<1>6. ASSUME NEW p \in Producers, PushWrites(p) \/ WriteFails(p)
      PROVE UNCHANGED <<Queued, dropped>>
  BY <1>6, <1>1 DEF PushWrites, WriteFails
<1>. QED
  BY <1>2, <1>3, <1>4, <1>5, <1>6 DEF QueueNext, MainStep, Push

(* The ring of input_queue_push and input_queue_pop is a first-in first-out
   queue of QueueSize - 1 places: the modular head and tail reorder, repeat and
   overwrite nothing, and a push is refused only when all QueueSize - 1 places are
   taken, for a ring of every size. *)
THEOREM RingImplementsFifo == QueueSpec => RingIsFifo
<1>1. QueueInit => Fifo!Init
  BY InitMaps
<1>2. QueueInv /\ [QueueNext]_queueVars => [Fifo!Next]_<<Queued, dropped>>
  BY StepMaps
<1>. QED
  BY <1>1, <1>2, QueueInvariant, PTL DEF QueueSpec, RingIsFifo, Fifo!Spec
=============================================================================
