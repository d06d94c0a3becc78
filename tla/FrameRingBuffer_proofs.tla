----------------------- MODULE FrameRingBuffer_proofs -----------------------
(***************************************************************************)
(* For every set of frames and every capacity of at least two: the         *)
(* variables of FrameRingBuffer keep their types, the capture thread and   *)
(* the feed thread are never in the same slot, and the ring implements the *)
(* FIFO queue FrameQueue.                                                  *)
(*                                                                         *)
(* NoSlotRace is not inductive: that the two locals pHead and cTail differ *)
(* says nothing about the shared cursors they were read from.  SpscInv     *)
(* adds what each thread knows: its own cursor is still the one it read,   *)
(* because only it stores that cursor, and what its check established      *)
(* about the other cursor still holds, because the other thread can only   *)
(* move away: a pop frees slots and a push fills them.  QueueInv adds what *)
(* the queued slots hold; a step then appends, takes or hides.             *)
(***************************************************************************)
EXTENDS FrameRingBuffer, SequenceTheorems, TLAPS

\* Spec has only the Clear between calls, never one in two stores.
NoSplitClear == clearing = {}

ProducerKnows ==
  /\ ppc # "idle" => pHead = head
  /\ ppc \in {"write", "publish"} => Succ(head) # tail

ConsumerKnows ==
  /\ cpc # "idle" => cTail = tail
  /\ cpc \in {"move", "publish"} => tail # head

SpscInv == TypeOK /\ NoSplitClear /\ ProducerKnows /\ ConsumerKnows

\* Advancing a cursor of the ring gives a cursor of the ring.
LEMMA SuccIsSlot == \A i \in Slots : Succ(i) \in Slots
  BY CapacityAssumption DEF Slots, Succ

\* The modulo is a wrap-around at the last slot and nothing else.
LEMMA SuccWraps ==
  \A i \in Slots : Succ(i) = IF i = Capacity - 1 THEN 0 ELSE i + 1
<1> TAKE i \in Slots
<1>1. CASE i = Capacity - 1
  BY <1>1, CapacityAssumption DEF Slots, Succ
<1>2. CASE i # Capacity - 1
  <2>1. i + 1 \in 0 .. Capacity - 1
    BY <1>2, CapacityAssumption DEF Slots
  <2>2. (i + 1) % Capacity = i + 1
    BY <2>1, CapacityAssumption
  <2> QED
    BY <1>2, <2>2 DEF Succ
<1> QED
  BY <1>1, <1>2

\* Two cursors with the same successor are the same cursor.
LEMMA SuccInjective == \A i, j \in Slots : Succ(i) = Succ(j) => i = j
  BY SuccWraps, CapacityAssumption DEF Slots

\* Advancing a cursor always moves it: this is where two slots are needed.
LEMMA SuccMoves == \A i \in Slots : Succ(i) # i
  BY CapacityAssumption DEF Slots, Succ

\* The ring starts empty with both threads outside it.
LEMMA InitSpscInv == Init => SpscInv
  BY CapacityAssumption
  DEF Init, SpscInv, TypeOK, NoSplitClear, ProducerKnows, ConsumerKnows, Slots

\* Each step of either thread, and a Clear between calls, keeps SpscInv.
LEMMA NextSpscInv == SpscInv /\ [Next]_vars => SpscInv'
<1> SUFFICES ASSUME SpscInv, [Next]_vars
             PROVE  SpscInv'
  OBVIOUS
<1> USE SuccIsSlot, SuccMoves DEF SpscInv, TypeOK, NoSplitClear,
        ProducerKnows, ConsumerKnows
<1>1. ASSUME NEW f \in Frames, PushLoadHead(f)
      PROVE  SpscInv'
  BY <1>1 DEF PushLoadHead, consumer
<1>2. CASE PushRefuse
  BY <1>2 DEF PushRefuse, consumer
<1>3. CASE PushClaimSlot
  BY <1>3 DEF PushClaimSlot, consumer, RingFull
<1>4. CASE PushWriteSlot
  BY <1>4 DEF PushWriteSlot, consumer
<1>5. CASE PushPublish
  \* The new head is not the consumer's slot: the push checked it.
  BY <1>5 DEF PushPublish, consumer
<1>6. CASE PopLoadTail
  BY <1>6 DEF PopLoadTail, producer
<1>7. CASE PopNothing
  BY <1>7 DEF PopNothing, producer
<1>8. CASE PopClaimSlot
  BY <1>8 DEF PopClaimSlot, producer, RingEmpty
<1>9. CASE PopMove
  BY <1>9 DEF PopMove, producer
<1>10. CASE PopPublish
  <2>1. (TypeOK /\ NoSplitClear /\ ConsumerKnows)'
    BY <1>10 DEF PopPublish, producer
  <2>2. ProducerKnows'
    \* Cursors that differ have successors that differ.
    BY <1>10, SuccInjective DEF PopPublish, producer
  <2> QED
    BY <2>1, <2>2
<1>11. CASE ClearQuiescent
  <2>1. 0 \in Slots
    BY CapacityAssumption DEF Slots
  <2> QED
    BY <1>11, <2>1 DEF ClearQuiescent, producer, consumer
<1>12. CASE UNCHANGED vars
  BY <1>12 DEF vars, producer, consumer
<1> QED
  BY <1>1, <1>2, <1>3, <1>4, <1>5, <1>6, <1>7, <1>8, <1>9, <1>10, <1>11, <1>12
  DEF Next, TryPush, TryPop

THEOREM SpscInvariant == Spec => []SpscInv
  BY InitSpscInv, NextSpscInv, PTL DEF Spec

\* The variables of the ring keep their types in every execution.
THEOREM TypeCorrect == Spec => []TypeOK
<1>1. SpscInv => TypeOK
  BY DEF SpscInv
<1> QED
  BY <1>1, SpscInvariant, PTL

(***************************************************************************)
(* The capture thread never copies into the slot the feed thread is moving *)
(* out of: each is in the slot of its own cursor, and a pop under way      *)
(* means that the cursors differ.                                          *)
(***************************************************************************)
THEOREM SlotRaceFree == Spec => []NoSlotRace
<1>1. SpscInv => NoSlotRace
  BY DEF SpscInv, ProducerKnows, ConsumerKnows, NoSlotRace
<1> QED
  BY <1>1, SpscInvariant, PTL

-----------------------------------------------------------------------------
(* The ring as a queue *)

\* The slot of the i-th frame in the queue
Place(i) == (First + i - 1) % Capacity

\* A push under way has its frame, and what is queued was pushed
QueueInv ==
  /\ SpscInv
  /\ ppc # "idle" => pFrame \in Frames
  /\ ppc = "publish" => slots[head] = pFrame
  /\ \A i \in 1 .. Count : slots[Place(i)] \in Frames
  /\ cpc = "publish" => out \in Frames

\* Below twice the capacity the modulo subtracts it at most once.
LEMMA ModWraps ==
  \A n \in 0 .. 2 * Capacity - 1 : n % Capacity = IF n < Capacity THEN n ELSE n - Capacity
<1> TAKE n \in 0 .. 2 * Capacity - 1
<1>1. CASE n < Capacity
  BY <1>1, CapacityAssumption
<1>2. CASE n >= Capacity
  <2>1. PICK k \in 0 .. Capacity - 1 : n = k + Capacity
    <3>1. n - Capacity \in 0 .. Capacity - 1 /\ n = (n - Capacity) + Capacity
      BY <1>2, CapacityAssumption
    <3> QED  BY <3>1
  <2>2. (k + Capacity) % Capacity = k
    BY CapacityAssumption
  <2> QED  BY <1>2, <2>1, <2>2, CapacityAssumption
<1> QED  BY <1>1, <1>2, CapacityAssumption

\* How far the head is from another slot, and the i-th slot from one
LEMMA Distance ==
  \A h, f \in Slots :
    (h + Capacity - f) % Capacity = IF h >= f THEN h - f ELSE h - f + Capacity
<1> TAKE h, f \in Slots
<1>1. h + Capacity - f \in 0 .. 2 * Capacity - 1
  BY CapacityAssumption DEF Slots
<1> QED  BY <1>1, ModWraps, CapacityAssumption DEF Slots

LEMMA Nth ==
  \A f \in Slots, i \in 1 .. Capacity :
    (f + i - 1) % Capacity = IF f + i - 1 < Capacity THEN f + i - 1 ELSE f + i - 1 - Capacity
<1> TAKE f \in Slots, i \in 1 .. Capacity
<1>1. f + i - 1 \in 0 .. 2 * Capacity - 1
  BY CapacityAssumption DEF Slots
<1>2. PICK n \in 0 .. 2 * Capacity - 1 : n = f + i - 1
  BY <1>1
<1>3. n % Capacity = IF n < Capacity THEN n ELSE n - Capacity
  BY ModWraps
<1> QED  BY <1>2, <1>3, CapacityAssumption DEF Slots

\* The queue's slots, without the modulo
LEMMA Layout ==
  ASSUME SpscInv
  PROVE  /\ head \in Slots /\ First \in Slots
         /\ Count = IF head >= First THEN head - First ELSE head - First + Capacity
         /\ Count \in 0 .. Capacity - 1
         /\ \A i \in 1 .. Capacity :
              /\ Place(i) = IF First + i - 1 < Capacity THEN First + i - 1
                                                        ELSE First + i - 1 - Capacity
              /\ Place(i) \in Slots
<1>1. head \in Slots /\ First \in Slots
  BY SuccIsSlot DEF First, SpscInv, TypeOK
<1>2. Count = IF head >= First THEN head - First ELSE head - First + Capacity
  BY <1>1, Distance DEF Count
<1>3. ASSUME NEW i \in 1 .. Capacity
      PROVE  Place(i) = IF First + i - 1 < Capacity THEN First + i - 1
                                                    ELSE First + i - 1 - Capacity
  BY <1>1, Nth DEF Place
<1> QED  BY <1>1, <1>2, <1>3, CapacityAssumption DEF Slots

\* A slot is left out of the queue only by its reader, one is put in only by
\* its writer: a step that moves neither end and keeps the queued slots keeps
\* the queue.
LEMMA QueueStays ==
  ASSUME QueueInv, SpscInv', head' = head, First' = First,
         \A i \in 1 .. Count : slots'[Place(i)] = slots[Place(i)]
  PROVE  Contents' = Contents /\ (\A i \in 1 .. Count' : slots'[Place(i)'] \in Frames)
<1>1. Count' = Count /\ (\A i \in 1 .. Count : Place(i)' = Place(i))
  BY DEF Count, Place
<1>2. Contents = [i \in 1 .. Count |-> slots[Place(i)]]
      /\ Contents' = [i \in 1 .. Count' |-> slots'[Place(i)']]
  BY DEF Contents, Place
<1> QED  BY <1>1, <1>2 DEF QueueInv

LEMMA ContentsSeq ==
  ASSUME QueueInv
  PROVE  /\ Contents \in Seq(Frames) /\ Len(Contents) = Count
         /\ \A i \in 1 .. Count : Contents[i] = slots[Place(i)]
<1>1. Count \in Nat
  BY Layout, CapacityAssumption DEF QueueInv
<1>2. Contents = [i \in 1 .. Count |-> slots[Place(i)]]
  BY DEF Contents, Place
<1>3. Contents \in [1 .. Count -> Frames]
  BY <1>2 DEF QueueInv
<1> QED  BY <1>1, <1>2, <1>3

LEMMA PushAppends ==
  ASSUME QueueInv, SpscInv', PushPublish
  PROVE  /\ Len(Contents) < Capacity - 1 /\ Contents' = Append(Contents, pFrame)
         /\ QueueInv'
<1>1. /\ head' = Succ(head) /\ First' = First /\ slots' = slots
      /\ Succ(head) # tail /\ slots[head] = pFrame /\ pFrame \in Frames
      /\ cpc = "publish" => First = Succ(tail) /\ tail # head
      /\ cpc # "publish" => First = tail
      /\ ppc' = "idle" /\ cpc' = cpc /\ out' = out
  BY DEF PushPublish, QueueInv, SpscInv, TypeOK, ProducerKnows, ConsumerKnows, First, consumer
<1>2. Succ(head) # First
  BY <1>1, SuccInjective DEF QueueInv, SpscInv, TypeOK
<1>3. Count < Capacity - 1 /\ Count' = Count + 1
  <2>1. Count' = IF head' >= First' THEN head' - First' ELSE head' - First' + Capacity
    BY <1>1, Layout, SuccIsSlot, Distance DEF Count, QueueInv, SpscInv, TypeOK
  <2> QED  BY <1>1, <1>2, <2>1, Layout, SuccWraps, CapacityAssumption DEF Slots, QueueInv
<1>4. \A i \in 1 .. Capacity : Place(i)' = Place(i)
  BY <1>1 DEF Place
<1>5. Place(Count + 1) = head
  BY <1>3, Layout, CapacityAssumption DEF Slots, QueueInv
<1>6. \A i \in 1 .. Count' : slots'[Place(i)'] \in Frames
  BY <1>1, <1>3, <1>4, <1>5, Layout, CapacityAssumption DEF QueueInv
<1>7. QueueInv'
  BY <1>1, <1>6 DEF QueueInv
<1>8. Contents' = [i \in 1 .. Count + 1 |-> slots[Place(i)]]
  BY <1>1, <1>3, <1>4, Layout, CapacityAssumption DEF Contents, Place, QueueInv
<1>9. Contents' = Append(Contents, pFrame)
  <2>1. Append(Contents, pFrame) \in Seq(Frames)
    BY <1>1, ContentsSeq
  <2>2. Contents' \in Seq(Frames) /\ Len(Contents') = Count + 1
    <3>1. Count + 1 \in Nat
      BY Layout, CapacityAssumption DEF QueueInv
    <3>2. Contents' \in [1 .. Count + 1 -> Frames]
      BY <1>1, <1>3, <1>4, <1>6, <1>8, Layout, CapacityAssumption DEF QueueInv
    <3> QED  BY <3>1, <3>2
  <2>3. \A i \in 1 .. Count + 1 : Contents'[i] = Append(Contents, pFrame)[i]
    BY <1>1, <1>3, <1>5, <1>8, ContentsSeq, AppendProperties, Layout DEF QueueInv
  <2> QED  BY <1>1, <2>1, <2>2, <2>3, ContentsSeq, SeqEqual, AppendProperties
<1> QED  BY <1>3, <1>7, <1>9, ContentsSeq

LEMMA PopTakesFirst ==
  ASSUME QueueInv, SpscInv', PopMove
  PROVE  Contents # << >> /\ Contents' = Tail(Contents) /\ QueueInv'
<1> /\ head \in Slots /\ tail \in Slots
    /\ Succ(tail) = IF tail = Capacity - 1 THEN 0 ELSE tail + 1
  BY SuccWraps DEF QueueInv, SpscInv, TypeOK
<1>1. /\ head' = head /\ First = tail /\ First' = Succ(tail) /\ tail # head
      /\ slots' = [slots EXCEPT ![tail] = Empty] /\ out' = slots[tail]
      /\ ppc' = ppc /\ pFrame' = pFrame
      /\ slots \in [Slots -> Frames \cup {Empty}]
  BY DEF PopMove, QueueInv, SpscInv, TypeOK, ConsumerKnows, First, producer
<1>2. Count >= 1 /\ Count' = Count - 1
  <2>2. Count = IF head >= tail THEN head - tail ELSE head - tail + Capacity
    BY <1>1, Layout DEF QueueInv
  <2>1. Count' = IF head' >= First' THEN head' - First' ELSE head' - First' + Capacity
    BY <1>1, Layout, SuccIsSlot, Distance DEF Count, QueueInv, SpscInv, TypeOK
  <2> QED  BY <1>1, <2>1, <2>2, CapacityAssumption DEF Slots
<1>3. \A i \in 1 .. Count - 1 : Place(i)' = Place(i + 1)
  <2>1. \A i \in 1 .. Capacity :
          Place(i)' = IF First' + i - 1 < Capacity THEN First' + i - 1
                                                   ELSE First' + i - 1 - Capacity
    BY <1>1, SuccIsSlot, Nth DEF Place, QueueInv, SpscInv, TypeOK
  <2>2. \A i \in 1 .. Capacity :
          Place(i) = IF tail + i - 1 < Capacity THEN tail + i - 1 ELSE tail + i - 1 - Capacity
    BY <1>1, Layout DEF QueueInv
  <2>3. Count \in 0 .. Capacity - 1
    BY Layout DEF QueueInv
  <2> QED  BY <1>1, <2>1, <2>2, <2>3, CapacityAssumption DEF Slots
<1>4. \A i \in 2 .. Count : Place(i) # tail /\ Place(i) \in Slots
  BY <1>1, Layout, CapacityAssumption DEF Slots, QueueInv
<1>5. Place(1) = tail
  BY <1>1, Layout, CapacityAssumption DEF Slots, QueueInv
<1>6. \A i \in 1 .. Count - 1 : slots'[Place(i)'] = slots[Place(i + 1)]
  BY <1>1, <1>2, <1>3, <1>4, Layout, CapacityAssumption DEF QueueInv
<1>7. QueueInv'
  <2>1. \A i \in 1 .. Count' : slots'[Place(i)'] \in Frames
    BY <1>2, <1>6, Layout, CapacityAssumption DEF QueueInv
  <2>2. out' \in Frames
    BY <1>1, <1>2, <1>5, Layout, CapacityAssumption DEF QueueInv
  <2>3. ppc = "publish" => slots'[head] = slots[head]
    BY <1>1, Layout DEF QueueInv
  <2> QED  BY <1>1, <2>1, <2>2, <2>3 DEF QueueInv
<1>8. Contents' \in Seq(Frames) /\ Len(Contents') = Count - 1
      /\ \A i \in 1 .. Count - 1 : Contents'[i] = slots[Place(i + 1)]
  <2>1. Contents' \in Seq(Frames) /\ Len(Contents') = Count'
        /\ \A i \in 1 .. Count' : Contents'[i] = slots'[Place(i)']
    <3>1. Count' \in Nat
      BY <1>2, Layout, CapacityAssumption DEF QueueInv
    <3>2. Contents' = [i \in 1 .. Count' |-> slots'[Place(i)']]
      BY DEF Contents, Place
    <3>3. Contents' \in [1 .. Count' -> Frames]
      BY <1>7, <3>2 DEF QueueInv
    <3> QED  BY <3>1, <3>2, <3>3
  <2> QED  BY <1>2, <1>6, <2>1
<1>9. Contents # << >>
  BY <1>2, ContentsSeq
<1>10. Contents' = Tail(Contents)
  <2>1. Tail(Contents) \in Seq(Frames) /\ Len(Tail(Contents)) = Count - 1
        /\ \A i \in 1 .. Count - 1 : Tail(Contents)[i] = Contents[i + 1]
    BY <1>9, ContentsSeq, HeadTailProperties
  <2>2. \A i \in 1 .. Count - 1 : Tail(Contents)[i] = slots[Place(i + 1)]
    BY <1>2, <2>1, ContentsSeq, Layout DEF QueueInv
  <2> QED  BY <1>8, <2>1, <2>2, SeqEqual
<1> QED  BY <1>7, <1>9, <1>10

\* The empty ring of the start and of Clear is the empty queue.
LEMMA EmptyRing ==
  ASSUME head = 0, First = 0
  PROVE  Count = 0 /\ Contents = << >>
<1>1. Count = 0
  BY Distance, CapacityAssumption DEF Count, Slots
<1>2. 1 .. Count = {}
  BY <1>1
<1> QED  BY <1>1, <1>2 DEF Contents

LEMMA InitQueue == Init => QueueInv /\ Contents = << >>
<1> SUFFICES ASSUME Init
             PROVE  QueueInv /\ Contents = << >>
  OBVIOUS
<1>1. head = 0 /\ First = 0
  BY DEF Init, First
<1> QED  BY <1>1, EmptyRing, InitSpscInv DEF Init, QueueInv

\* The slot the capture thread fills is not in the queue.
LEMMA HeadNotQueued ==
  ASSUME SpscInv
  PROVE  \A i \in 1 .. Count : Place(i) \in Slots /\ Place(i) # head
BY Layout, CapacityAssumption DEF Slots

\* The steps that read, check, fill a slot nobody sees yet, or give back one
\* that is empty already
LEMMA HiddenSteps ==
  ASSUME QueueInv, SpscInv',
         \/ \E f \in Frames : PushLoadHead(f)
         \/ PushRefuse \/ PushClaimSlot \/ PushWriteSlot
         \/ PopLoadTail \/ PopNothing \/ PopClaimSlot \/ PopPublish
         \/ UNCHANGED vars
  PROVE  Contents' = Contents /\ QueueInv'
<1> USE DEF QueueInv, SpscInv, TypeOK, ProducerKnows, ConsumerKnows, producer, consumer
<1>1. CASE \E f \in Frames : PushLoadHead(f)
  <2>1. /\ UNCHANGED << head, tail, slots, cpc, cTail, out >> /\ First' = First
        /\ pFrame' \in Frames /\ ppc' = "check"
    BY <1>1 DEF PushLoadHead, First
  <2> QED  BY <2>1, QueueStays
<1>2. CASE PushRefuse \/ PushClaimSlot
  <2>1. /\ UNCHANGED << head, tail, slots, cpc, cTail, out, pFrame >> /\ First' = First
        /\ ppc # "idle" /\ ppc' # "publish"
    BY <1>2 DEF PushRefuse, PushClaimSlot, First
  <2> QED  BY <2>1, QueueStays
<1>3. CASE PushWriteSlot
  <2>1. /\ UNCHANGED << head, tail, cpc, cTail, out, pFrame >> /\ First' = First
        /\ slots' = [slots EXCEPT ![head] = pFrame] /\ pFrame \in Frames
    BY <1>3 DEF PushWriteSlot, First
  <2>2. \A i \in 1 .. Count : Place(i) \in Slots /\ Place(i) # head
    BY HeadNotQueued
  <2>3. \A i \in 1 .. Count : slots'[Place(i)] = slots[Place(i)]
    BY <2>1, <2>2
  <2> QED  BY <2>1, <2>3, QueueStays
<1>4. CASE PopLoadTail \/ PopNothing \/ PopClaimSlot
  <2>1. /\ UNCHANGED << head, tail, slots, ppc, pFrame, out >> /\ First' = First
        /\ cpc' # "publish"
    BY <1>4 DEF PopLoadTail, PopNothing, PopClaimSlot, First
  <2> QED  BY <2>1, QueueStays
<1>5. CASE PopPublish
  <2>1. /\ UNCHANGED << head, slots, ppc, pFrame, out >> /\ First' = First
        /\ cpc' # "publish"
    BY <1>5 DEF PopPublish, First
  <2> QED  BY <2>1, QueueStays
<1>6. CASE UNCHANGED vars
  <2>1. UNCHANGED << head, slots, ppc, pFrame, out, cpc >> /\ First' = First
    BY <1>6 DEF vars, First
  <2> QED  BY <2>1, QueueStays
<1> QED  BY <1>1, <1>2, <1>3, <1>4, <1>5, <1>6

LEMMA ClearEmpties ==
  ASSUME QueueInv, SpscInv', ClearQuiescent
  PROVE  Contents' = << >> /\ QueueInv'
<1>1. head' = 0 /\ First' = 0 /\ ppc' = "idle" /\ cpc' = "idle"
  BY DEF ClearQuiescent, First, producer, consumer
<1>2. Count' = 0
  BY <1>1, Distance, CapacityAssumption DEF Count, Slots
<1>3. 1 .. Count' = {}
  BY <1>2
<1> QED  BY <1>1, <1>3 DEF Contents, QueueInv

\* Each step of the two threads and of Clear is one of the queue, or hidden.
LEMMA NextQueue ==
  ASSUME QueueInv, [Next]_vars
  PROVE  QueueInv' /\ [Queue!Next]_Contents
<1>1. SpscInv'
  BY NextSpscInv DEF QueueInv
<1>2. CASE PushPublish
  <2>1. pFrame \in Frames
    BY <1>2 DEF QueueInv, PushPublish
  <2> QED  BY <1>1, <1>2, <2>1, PushAppends DEF Queue!Next, Queue!Push
<1>3. CASE PopMove
  BY <1>1, <1>3, PopTakesFirst DEF Queue!Next, Queue!Pop
<1>4. CASE ClearQuiescent
  BY <1>1, <1>4, ClearEmpties DEF Queue!Next, Queue!Clear
<1>5. CASE ~(PushPublish \/ PopMove \/ ClearQuiescent)
  <2>1. Contents' = Contents /\ QueueInv'
    BY <1>1, <1>5, HiddenSteps DEF Next, TryPush, TryPop
  <2> QED  BY <2>1
<1> QED  BY <1>2, <1>3, <1>4, <1>5

THEOREM QueueInvariant == Spec => []QueueInv
<1>1. Init => QueueInv
  BY InitQueue
<1>2. QueueInv /\ [Next]_vars => QueueInv'
  BY NextQueue
<1> QED  BY <1>1, <1>2, PTL DEF Spec

(***************************************************************************)
(* The ring refines the FIFO queue: a frame is in it from the store of     *)
(* head_ that publishes it until the move out of its slot, in order, and   *)
(* nothing else ever is.                                                   *)
(***************************************************************************)
THEOREM RingImplementsQueue == Spec => ImplementsQueue
<1>1. Init => Queue!Init
  BY InitQueue DEF Queue!Init
<1>2. QueueInv /\ [Next]_vars => [Queue!Next]_Contents
  BY NextQueue
<1> QED  BY <1>1, <1>2, QueueInvariant, PTL DEF Spec, ImplementsQueue, Queue!Spec

(***************************************************************************)
(* TryPush drops a frame only when Capacity-1 are queued, or one fewer     *)
(* while a pop has emptied the tail slot and not given it back.            *)
(***************************************************************************)
THEOREM RefusesFull == Spec => RefusesOnlyWhenFull
<1>1. ASSUME SpscInv, PushRefuse
      PROVE  Count = Capacity - (IF cpc = "publish" THEN 2 ELSE 1)
  <2>1. /\ head \in Slots /\ tail \in Slots /\ Succ(head) = tail
        /\ First = IF cpc = "publish" THEN Succ(tail) ELSE tail
    BY <1>1 DEF SpscInv, TypeOK, ProducerKnows, ConsumerKnows, PushRefuse, RingFull, First
  <2>2. Count = IF head >= First THEN head - First ELSE head - First + Capacity
    BY <1>1, Layout
  <2>3. /\ Succ(head) = IF head = Capacity - 1 THEN 0 ELSE head + 1
        /\ Succ(tail) = IF tail = Capacity - 1 THEN 0 ELSE tail + 1
    BY <2>1, SuccWraps
  <2>4. CASE cpc = "publish"
    BY <2>1, <2>2, <2>3, <2>4, CapacityAssumption DEF Slots
  <2>5. CASE cpc # "publish"
    BY <2>1, <2>2, <2>3, <2>5, CapacityAssumption DEF Slots
  <2> QED  BY <2>4, <2>5
<1>2. SpscInv => [PushRefuse => Count = Capacity - (IF cpc = "publish" THEN 2 ELSE 1)]_vars
  BY <1>1
<1> QED  BY <1>2, SpscInvariant, PTL DEF RefusesOnlyWhenFull

(***************************************************************************)
(* Used as its header says, the ring hands the encoder only frames that    *)
(* the capture thread pushed; the Clear of a third thread breaks this.     *)
(***************************************************************************)
THEOREM PopsOnlyPushed == Spec => []PopsOnlyPushedFrames
<1>1. QueueInv => PopsOnlyPushedFrames
  BY DEF QueueInv, PopsOnlyPushedFrames
<1> QED  BY <1>1, QueueInvariant, PTL
-----------------------------------------------------------------------------
(* The ring with a Clear that races push and pop *)

LEMMA RacingNextTypeOK == TypeOK /\ [RacingNext]_vars => TypeOK'
<1> SUFFICES ASSUME TypeOK, [RacingNext]_vars
             PROVE  TypeOK'
  OBVIOUS
<1> USE SuccIsSlot DEF TypeOK, producer, consumer
<1>1. CASE TryPush
  BY <1>1 DEF TryPush, PushLoadHead, PushRefuse, PushClaimSlot, PushWriteSlot, PushPublish
<1>2. CASE TryPop
  BY <1>2 DEF TryPop, PopLoadTail, PopNothing, PopClaimSlot, PopMove, PopPublish
<1>3. CASE ClearBegin \/ ClearStoreHead \/ ClearStoreTail
  <2>1. 0 \in Slots
    BY CapacityAssumption DEF Slots
  <2> QED  BY <1>3, <2>1 DEF ClearBegin, ClearStoreHead, ClearStoreTail
<1>4. CASE UNCHANGED vars
  BY <1>4 DEF vars
<1> QED  BY <1>1, <1>2, <1>3, <1>4 DEF RacingNext

(***************************************************************************)
(* The Clear of StartRecording can make a pop take a frame nobody pushed,  *)
(* but wherever it falls in a push or a pop, no thread gets a slot outside *)
(* the array: each cursor is stored whole, and as one of the slots.        *)
(***************************************************************************)
THEOREM RacingTypeCorrect == RacingSpec => []TypeOK
<1>1. Init => TypeOK
  BY InitSpscInv DEF SpscInv
<1>2. TypeOK /\ [RacingNext]_vars => TypeOK'
  BY RacingNextTypeOK
<1> QED  BY <1>1, <1>2, PTL DEF RacingSpec
=============================================================================
