-------------------------- MODULE FrameRingBuffer --------------------------
(***************************************************************************)
(* include/RingBuffer.h: the lock-free ring between the capture thread     *)
(* (TryPush) and the encoder-feed thread (TryPop), one step per access to  *)
(* an atomic cursor or to a slot, so that every interleaving of the two    *)
(* threads is a behaviour.  A slot holds a frame, or Empty when its vector *)
(* is default-constructed or moved-from.                                   *)
(*                                                                         *)
(* Spec is the use the header promises: one producer, one consumer, and    *)
(* Clear while neither is inside a call.  RacingSpec is the use the        *)
(* Recorder makes of it: StartRecording runs Clear on the hotkey thread    *)
(* while the feed thread keeps polling TryPop, and while the capture       *)
(* thread may still be inside a TryPush it entered before the recording    *)
(* was stopped.  Clear's two relaxed stores are then steps of their own,   *)
(* in either order, anywhere in a push or a pop.                           *)
(***************************************************************************)
EXTENDS Naturals, Sequences

CONSTANTS Frames,    \* the frames the capture thread may push
          Empty,     \* content of a slot without pixel data
          Capacity   \* capacity_: the number of slots

ASSUME CapacityAssumption == Capacity \in Nat \ {0, 1}
ASSUME EmptyAssumption == Empty \notin Frames

VARIABLES head,      \* head_: the slot the next push fills
          tail,      \* tail_: the slot the next pop takes
          slots,     \* slots_
          ppc,       \* where the capture thread is inside TryPush
          pHead,     \* its local head
          pFrame,    \* the frame it is pushing
          cpc,       \* where the feed thread is inside TryPop
          cTail,     \* its local tail
          out,       \* the frame TryPop hands to the feed thread
          clearing   \* the cursors a running Clear has not stored yet

producer == << ppc, pHead, pFrame >>
consumer == << cpc, cTail, out >>
vars == << head, tail, slots, producer, consumer, clearing >>

Slots == 0 .. Capacity - 1

Succ(i) == (i + 1) % Capacity

Init ==
  /\ head = 0 /\ tail = 0
  /\ slots = [i \in Slots |-> Empty]
  /\ ppc = "idle" /\ pHead = 0 /\ pFrame = Empty
  /\ cpc = "idle" /\ cTail = 0 /\ out = Empty
  /\ clearing = {}
-----------------------------------------------------------------------------
(* TryPush, called by the capture thread *)

PushLoadHead(f) ==
  /\ ppc = "idle"
  /\ ppc' = "check" /\ pHead' = head /\ pFrame' = f
  /\ UNCHANGED << head, tail, slots, consumer, clearing >>

\* head_ may meet tail_ only when the ring is empty, so one slot stays free
RingNeverFull(h) == FALSE
RingFullTooEarly(h) == Succ(Succ(h)) = tail
RingFull(h) == Succ(h) = tail

PushRefuse ==
  /\ ppc = "check" /\ RingFull(pHead)
  /\ ppc' = "idle"
  /\ UNCHANGED << head, tail, slots, pHead, pFrame, consumer, clearing >>

PushPublishBeforeWriting ==
  /\ ppc = "check" /\ ~RingFull(pHead)
  /\ ppc' = "write" /\ head' = Succ(pHead)
  /\ UNCHANGED << tail, slots, pHead, pFrame, consumer, clearing >>

PushClaimSlot ==
  /\ ppc = "check" /\ ~RingFull(pHead)
  /\ ppc' = "write"
  /\ UNCHANGED << head, tail, slots, pHead, pFrame, consumer, clearing >>

PushWriteSlot ==
  /\ ppc = "write"
  /\ slots' = [slots EXCEPT ![pHead] = pFrame]
  /\ ppc' = "publish"
  /\ UNCHANGED << head, tail, pHead, pFrame, consumer, clearing >>

PushPublish ==
  /\ ppc = "publish"
  /\ head' = Succ(pHead)
  /\ ppc' = "idle"
  /\ UNCHANGED << tail, slots, pHead, pFrame, consumer, clearing >>
-----------------------------------------------------------------------------
(* TryPop, called by the encoder-feed thread in its polling loop *)

PopLoadTail ==
  /\ cpc = "idle"
  /\ cpc' = "check" /\ cTail' = tail
  /\ UNCHANGED << head, tail, slots, producer, out, clearing >>

RingEmptyTooEarly(t) == t = head \/ Succ(t) = head
RingEmpty(t) == t = head

PopNothing ==
  /\ cpc = "check" /\ RingEmpty(cTail)
  /\ cpc' = "idle"
  /\ UNCHANGED << head, tail, slots, producer, cTail, out, clearing >>

PopClaimSlot ==
  /\ cpc = "check" /\ ~RingEmpty(cTail)
  /\ cpc' = "move"
  /\ UNCHANGED << head, tail, slots, producer, cTail, out, clearing >>

PopMove ==
  /\ cpc = "move"
  /\ out' = slots[cTail]
  /\ slots' = [slots EXCEPT ![cTail] = Empty]
  /\ cpc' = "publish"
  /\ UNCHANGED << head, tail, producer, cTail, clearing >>

PopPublish ==
  /\ cpc = "publish"
  /\ tail' = Succ(cTail)
  /\ cpc' = "idle"
  /\ UNCHANGED << head, slots, producer, cTail, out, clearing >>
-----------------------------------------------------------------------------
(* Clear, called by StartRecording on the hotkey thread *)

ClearQuiescent ==
  /\ ppc = "idle" /\ cpc = "idle"
  /\ head' = 0 /\ tail' = 0
  /\ UNCHANGED << slots, producer, consumer, clearing >>

ClearBegin ==
  /\ clearing = {}
  /\ clearing' = {"head", "tail"}
  /\ UNCHANGED << head, tail, slots, producer, consumer >>

ClearStoreHead ==
  /\ "head" \in clearing
  /\ head' = 0 /\ clearing' = clearing \ {"head"}
  /\ UNCHANGED << tail, slots, producer, consumer >>

ClearStoreTail ==
  /\ "tail" \in clearing
  /\ tail' = 0 /\ clearing' = clearing \ {"tail"}
  /\ UNCHANGED << head, slots, producer, consumer >>
-----------------------------------------------------------------------------
TryPush ==
  \/ \E f \in Frames : PushLoadHead(f)
  \/ PushRefuse \/ PushClaimSlot \/ PushWriteSlot \/ PushPublish

TryPop == PopLoadTail \/ PopNothing \/ PopClaimSlot \/ PopMove \/ PopPublish

Next == TryPush \/ TryPop \/ ClearQuiescent

RacingNext == TryPush \/ TryPop \/ ClearBegin \/ ClearStoreHead \/ ClearStoreTail

\* Fairness: EncoderFeedLoop polls for as long as the program runs.
Spec == Init /\ [][Next]_vars /\ WF_vars(TryPop)

RacingSpec == Init /\ [][RacingNext]_vars
-----------------------------------------------------------------------------
TypeOK ==
  /\ head \in Slots /\ tail \in Slots
  /\ slots \in [Slots -> Frames \cup {Empty}]
  /\ ppc \in {"idle", "check", "write", "publish"}
  /\ pHead \in Slots /\ pFrame \in Frames \cup {Empty}
  /\ cpc \in {"idle", "check", "move", "publish"}
  /\ cTail \in Slots /\ out \in Frames \cup {Empty}
  /\ clearing \subseteq {"head", "tail"}

(***************************************************************************)
(* The capture thread's memcpy into a slot and the feed thread's move out  *)
(* of a slot never overlap: the acquire/release cursors alone keep the two *)
(* unlocked accesses apart.                                                *)
(***************************************************************************)
NoSlotRace == ~(ppc = "write" /\ cpc = "move" /\ pHead = cTail)

(***************************************************************************)
(* What TryPop hands to the encoder is a frame TryPush stored, never a     *)
(* slot without pixel data.                                                *)
(***************************************************************************)
PopsOnlyPushedFrames == cpc = "publish" => out \in Frames

\* The slots between the cursors, the one TryPop has emptied left out
First == IF cpc = "publish" THEN Succ(cTail) ELSE tail
Count == (head + Capacity - First) % Capacity
Contents == [i \in 1 .. Count |-> slots[(First + i - 1) % Capacity]]

(***************************************************************************)
(* The ring is a FIFO queue: each frame whose push published it is popped  *)
(* once, unchanged and in order, and no other frame is.                    *)
(***************************************************************************)
Queue == INSTANCE FrameQueue WITH queue <- Contents
ImplementsQueue == Queue!Spec

(***************************************************************************)
(* TryPush drops a frame only when Capacity-1 are queued, or one fewer     *)
(* while the pop that frees a slot is still under way.                     *)
(***************************************************************************)
RefusesOnlyWhenFull ==
  [][PushRefuse => Count = Capacity - (IF cpc = "publish" THEN 2 ELSE 1)]_vars

(***************************************************************************)
(* Every published frame is eventually taken out of its slot, since the    *)
(* feed loop never stops polling.                                          *)
(***************************************************************************)
Queued(s) == \E i \in 1 .. Count : s = (First + i - 1) % Capacity
EveryFrameIsTaken == \A s \in Slots : Queued(s) ~> ~Queued(s)
=============================================================================
