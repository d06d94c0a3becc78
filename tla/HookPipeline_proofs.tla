------------------------- MODULE HookPipeline_proofs -------------------------
(***************************************************************************)
(* With one thread in CaptureFrame the hook's pipeline keeps its promises  *)
(* for any number of slots, frames, resizes and restarts of the recorder:  *)
(* no torn frame, none older than one delivered before, no lost wakeup.    *)
(*                                                                         *)
(* One order carries the proof: frames are staged, pushed, queued, taken   *)
(* and delivered in the order in which the game presented them.  HookInv   *)
(* says at each place that what is there is newer than all that went on    *)
(* before.  A slot that is being written would break it, and is never      *)
(* between tail and head.                                                  *)
(***************************************************************************)
EXTENDS HookPipeline, Integers, SequenceTheorems, TLAPS

OneConsumer == \A c, d \in Consumers : c = d

Pushing == {"check", "copy", "publish"}

\* How many slots after the tail slot i comes, and the slots that hold frames
Distance(i) == IF i >= tail THEN i - tail ELSE i - tail + SlotCount
InRing(i) == i \in Slots /\ Distance(i) < Distance(head)

\* Presented before everything that is still to be pushed
Older(n) ==
  /\ n <= presented
  /\ hasPending => n < texture[1 - writeIndex]
  /\ ppc \in Pushing => n < pFrame

\* The render thread: what it pushes is older than what is staged, and a push
\* that found room still has it
Producer ==
  /\ hasPending => texture[1 - writeIndex] \in 1 .. presented
  /\ ppc \in Pushing => hasPending /\ pFrame \in 1 .. texture[1 - writeIndex] - 1
  /\ ppc \in {"copy", "publish"} => Succ(head) # tail
  /\ ppc = "publish" => slots[head] = pFrame

\* The ring: its frames are newer than those delivered, and in order
Queue ==
  /\ Older(delivered)
  /\ \A i \in Slots : InRing(i) => delivered < slots[i] /\ Older(slots[i])
  /\ \A i, j \in Slots :
       InRing(i) /\ InRing(j) /\ Distance(i) < Distance(j) => slots[i] < slots[j]

\* The drain loop: it copies from the tail, and has the newest it took
Drained(c) == cpc[c] = "deliver" \/ (cpc[c] = "pop" /\ gotAny[c])

Consumer ==
  \A c \in Consumers :
    /\ cpc[c] = "wait" => ~gotAny[c]
    /\ cpc[c] \in {"copy", "publish"} => cTail[c] = tail /\ tail # head
    /\ cpc[c] = "copy" => cFrame[c] = slots[tail]
    /\ cpc[c] = "publish" => scratch = slots[tail]
    /\ Drained(c) =>
         /\ delivered < scratch /\ Older(scratch)
         /\ \A i \in Slots : InRing(i) => scratch < slots[i]

\* The wakeup: nothing is left for it while a consumer is not draining
Woken ==
  restarts = 0 /\ head # tail /\ (\A c \in Consumers : cpc[c] \in {"idle", "wait", "deliver"})
    => event \/ ppc = "signal"

HookInv == TypeOK /\ Producer /\ Queue /\ Consumer /\ Woken

LEMMA SuccWraps ==
  \A i \in Slots : Succ(i) \in Slots /\ Succ(i) = IF i = SlotCount - 1 THEN 0 ELSE i + 1
<1> TAKE i \in Slots
<1>1. CASE i = SlotCount - 1
  BY <1>1, SlotAssumption DEF Slots, Succ
<1>2. CASE i # SlotCount - 1
  <2>1. i + 1 \in 0 .. SlotCount - 1
    BY <1>2, SlotAssumption DEF Slots
  <2>2. (i + 1) % SlotCount = i + 1
    BY <2>1, SlotAssumption
  <2> QED  BY <2>1, <2>2 DEF Succ, Slots
<1> QED  BY <1>1, <1>2

\* A push puts the slot at the head behind all the others
LEMMA HeadMoves ==
  ASSUME head \in Slots, tail \in Slots, head' = Succ(head), tail' = tail, Succ(head) # tail
  PROVE  \A i \in Slots : /\ Distance(i)' = Distance(i)
                          /\ InRing(i)' <=> InRing(i) \/ i = head
                          /\ InRing(i) => i # head /\ Distance(i) < Distance(head)
  BY SuccWraps, SlotAssumption DEF Slots, Distance, InRing

\* A pop takes out the slot at the tail, which came before all the others
LEMMA TailMoves ==
  ASSUME head \in Slots, tail \in Slots, tail' = Succ(tail), head' = head, tail # head
  PROVE  /\ InRing(tail)
         /\ \A i \in Slots : /\ InRing(i)' <=> InRing(i) /\ i # tail
                             /\ i # tail => Distance(tail) < Distance(i)
                             /\ i # tail => Distance(i)' = Distance(i) - 1
  BY SuccWraps, SlotAssumption DEF Slots, Distance, InRing

LEMMA RingStays ==
  ASSUME UNCHANGED << head, tail >>
  PROVE  \A i \in Slots : (InRing(i)' <=> InRing(i)) /\ Distance(i)' = Distance(i)
  BY DEF InRing, Distance

THEOREM HookInit == Init => HookInv
<1>1. SUFFICES ASSUME Init PROVE HookInv
  OBVIOUS
<1> USE <1>1, SlotAssumption, BoundsAssumption DEF Init
<1>2. TypeOK
  <2>1. 0 \in Slots /\ Torn \in Presents /\ 0 \in Staging
    BY DEF Slots, Presents, Torn, Staging
  <2>2. slots \in [Slots -> Presents] /\ texture \in [Staging -> Presents]
    BY <2>1
  <2>3. /\ cpc \in [Consumers -> {"idle", "wait", "pop", "copy", "publish", "deliver"}]
        /\ cTail \in [Consumers -> Slots] /\ cFrame \in [Consumers -> Presents]
    BY <2>1
  <2>4. cNeeds \in [Consumers -> BOOLEAN] /\ gotAny \in [Consumers -> BOOLEAN]
    OBVIOUS
  <2>5. presented \in 0 .. MaxPresents /\ resizes \in 0 .. MaxResizes /\ restarts \in 0 .. MaxRestarts
    OBVIOUS
  <2>6. /\ head \in Slots /\ tail \in Slots /\ writeIndex \in Staging
        /\ pFrame \in Presents /\ scratch \in Presents /\ delivered \in Presents
    BY <2>1
  <2>7. event \in BOOLEAN /\ wants \in BOOLEAN /\ hasPending \in BOOLEAN
    OBVIOUS
  <2> QED  BY <2>2, <2>3, <2>4, <2>5, <2>6, <2>7 DEF TypeOK
<1>3. \A i \in Slots : ~InRing(i)
  BY DEF InRing, Distance, Slots
<1>4. Queue /\ Consumer /\ Producer
  BY <1>3 DEF Queue, Consumer, Producer, Older, Pushing, Torn, Drained
<1> QED  BY <1>2, <1>4 DEF HookInv, Woken

(* The render thread *)

\* A Present that stages at most one frame, and may begin to push the last
LEMMA StagingSteps ==
  ASSUME HookInv, PresentUnwanted \/ PresentFirst \/ PresentNext \/ PresentResized
  PROVE  HookInv'
<1> USE DEF PresentUnwanted, PresentFirst, PresentNext, PresentResized, CopyToStaging
<1>1. /\ UNCHANGED << channel, popper >> /\ ppc = "present" /\ presented' = presented + 1
      /\ presented < MaxPresents
  BY DEF stagingVars
<1>2. /\ presented \in Nat /\ presented' \in Nat /\ texture \in [Staging -> Presents]
      /\ writeIndex \in Staging /\ Staging = {0, 1} /\ hasPending \in BOOLEAN
  BY <1>1 DEF HookInv, TypeOK, Staging
<1>3. TypeOK'
  <2>1. texture' \in [Staging -> Presents]
    BY <1>1, <1>2, BoundsAssumption DEF Presents, Torn, stagingVars
  <2>2. hasPending' \in BOOLEAN
    BY <1>2 DEF stagingVars
  <2>4. resizes' \in 0 .. MaxResizes
    <3>1. resizes \in 0 .. MaxResizes
      BY DEF HookInv, TypeOK
    <3> QED  BY <3>1, BoundsAssumption DEF stagingVars
  <2>5. writeIndex' \in Staging
    BY <1>2 DEF stagingVars
  <2>3. ppc' \in {"present", "check"} /\ pFrame' \in Presents
    BY <1>1, <1>2 DEF HookInv, TypeOK
  <2> QED  BY <1>1, <1>2, <2>1, <2>2, <2>3, <2>4, <2>5, BoundsAssumption
           DEF HookInv, TypeOK, channel, popper, locals
<1>4. Producer'
  BY <1>1, <1>2 DEF HookInv, Producer, Pushing, Presents, stagingVars, Torn
<1>5. ASSUME NEW n \in Nat, Older(n) PROVE Older(n)'
  BY <1>1, <1>2, <1>5 DEF HookInv, Older, Pushing, Producer, stagingVars, Presents, Torn
<1>6. \A i \in Slots : (InRing(i)' <=> InRing(i)) /\ Distance(i)' = Distance(i)
  BY <1>1, RingStays DEF channel
<1>7. \A i \in Slots : slots[i] \in Nat
  BY DEF HookInv, TypeOK, Presents, Torn
<1>8. delivered \in Nat /\ scratch \in Nat
  BY DEF HookInv, TypeOK, Presents, Torn
<1>9. Queue' /\ Consumer'
  BY <1>1, <1>5, <1>6, <1>7, <1>8
  DEF HookInv, Queue, Consumer, Drained, channel, popper, locals
<1> QED  BY <1>1, <1>3, <1>4, <1>9 DEF HookInv, Woken, channel, popper, locals

\* TryPush up to the copy into the free slot at the head
LEMMA PushSteps ==
  ASSUME HookInv, PushDropped \/ PushBeginCopy \/ PushEndCopy
  PROVE  HookInv'
<1> USE DEF PushDropped, PushBeginCopy, PushEndCopy, RingFull
<1>1. /\ UNCHANGED << head, tail, event, wants, presented, stagingVars, popper >>
      /\ ppc \in Pushing /\ ppc # "publish" /\ ppc' # "signal"
      /\ \A i \in Slots : i # head => slots'[i] = slots[i]
  BY DEF channel, Pushing, HookInv, TypeOK
<1>2. /\ head \in Slots /\ tail \in Slots /\ slots \in [Slots -> Presents]
      /\ pFrame \in Presents /\ Torn \in Presents
  BY BoundsAssumption DEF HookInv, TypeOK, Presents, Torn
<1>3. TypeOK'
  <2>1. slots' \in [Slots -> Presents] /\ pFrame' \in Presents
    BY <1>2 DEF channel
  <2> QED  BY <1>1, <2>1 DEF HookInv, TypeOK, stagingVars, popper, locals
<1>4. Producer'
  BY <1>1, <1>2 DEF HookInv, Producer, Pushing, stagingVars
<1>5. \A i \in Slots : (InRing(i)' <=> InRing(i)) /\ Distance(i)' = Distance(i)
  BY <1>1, RingStays
<1>6. \A i \in Slots : InRing(i) => slots'[i] = slots[i]
  BY <1>1, <1>2, SlotAssumption DEF InRing, Slots, Distance
<1>7. \A n \in Nat : Older(n) => Older(n)'
  BY <1>1 DEF Older, Pushing, stagingVars
<1>8. tail # head => InRing(tail)
  BY <1>2, SlotAssumption DEF InRing, Slots, Distance
<1>9. delivered \in Nat /\ scratch \in Nat /\ \A i \in Slots : slots[i] \in Nat
  BY <1>2 DEF HookInv, TypeOK, Presents, Torn
<1>10. Queue' /\ Consumer'
  BY <1>1, <1>2, <1>5, <1>6, <1>7, <1>8, <1>9
  DEF HookInv, Queue, Consumer, Drained, popper, locals
<1> QED  BY <1>1, <1>3, <1>4, <1>10 DEF HookInv, Woken, popper, locals, Pushing

\* The frame goes behind all the others, which are older
LEMMA PublishStep == ASSUME HookInv, PushPublish PROVE HookInv'
<1> USE DEF PushPublish
<1>1. /\ head \in Slots /\ tail \in Slots /\ slots \in [Slots -> Presents]
      /\ delivered \in Nat /\ scratch \in Nat /\ pFrame \in Nat
      /\ \A i \in Slots : slots[i] \in Nat
  BY DEF HookInv, TypeOK, Presents, Torn
<1>2. /\ Succ(head) # tail /\ slots[head] = pFrame /\ hasPending /\ Succ(head) \in Slots
      /\ pFrame \in 1 .. texture[1 - writeIndex] - 1
      /\ texture[1 - writeIndex] \in 1 .. presented
  BY <1>1, SuccWraps DEF HookInv, Producer, Pushing
<1>3. TypeOK' /\ Producer'
  BY <1>1, <1>2 DEF HookInv, TypeOK, Producer, Pushing, stagingVars, popper, locals
<1>4. \A i \in Slots : /\ Distance(i)' = Distance(i)
                       /\ InRing(i)' <=> InRing(i) \/ i = head
                       /\ InRing(i) => i # head /\ Distance(i) < Distance(head)
  BY <1>1, <1>2, HeadMoves
<1>5. \A n \in Nat : Older(n) => Older(n)' /\ n < pFrame
  BY DEF Older, Pushing, stagingVars
<1>6. Older(pFrame)'
  BY <1>2, <1>1 DEF Older, Pushing, stagingVars, HookInv, TypeOK
<1>7. Queue'
  <2>1. Older(delivered)'
    BY <1>1, <1>5 DEF HookInv, Queue, popper
  <2>2. \A i \in Slots : InRing(i)' => delivered' < slots'[i] /\ Older(slots[i])'
    BY <1>1, <1>2, <1>4, <1>5, <1>6 DEF HookInv, Queue, popper
  <2>3. \A i, j \in Slots :
          InRing(i)' /\ InRing(j)' /\ Distance(i)' < Distance(j)' => slots'[i] < slots'[j]
    <3>1. \A i \in Slots : Distance(i) \in Int
      BY <1>1, SlotAssumption DEF Distance, Slots
    <3> QED  BY <1>1, <1>2, <1>4, <1>5, <3>1 DEF HookInv, Queue
  <2> QED  BY <2>1, <2>2, <2>3 DEF Queue
<1>8. Consumer'
  BY <1>1, <1>2, <1>4, <1>5, SuccWraps
  DEF HookInv, Consumer, Drained, popper, locals
<1> QED  BY <1>3, <1>7, <1>8 DEF HookInv, Woken

LEMMA SignalStep == ASSUME HookInv, PushSignal PROVE HookInv'
<1> USE DEF PushSignal
<1>1. UNCHANGED << head, tail, slots, wants, presented, stagingVars, popper >>
  OBVIOUS
<1>2. TypeOK' /\ Producer' /\ Woken'
  BY BoundsAssumption
  DEF HookInv, TypeOK, Producer, Woken, Pushing, Presents, Torn, stagingVars, popper, locals
<1>3. \A i \in Slots : (InRing(i)' <=> InRing(i)) /\ Distance(i)' = Distance(i)
  BY RingStays
<1>4. \A n \in Nat : Older(n) => Older(n)'
  BY DEF Older, Pushing, stagingVars
<1>5. delivered \in Nat /\ scratch \in Nat /\ \A i \in Slots : slots[i] \in Nat
  BY DEF HookInv, TypeOK, Presents, Torn
<1>6. Queue' /\ Consumer'
  BY <1>1, <1>3, <1>4, <1>5 DEF HookInv, Queue, Consumer, Drained, popper, locals
<1> QED  BY <1>2, <1>6 DEF HookInv

(* The recorder *)

\* The call, the wait and the delivery: the ring is left alone
LEMMA CallSteps ==
  ASSUME HookInv, OneConsumer, NEW c \in Consumers,
         \/ \E needs \in BOOLEAN : CaptureCall(c, needs)
         \/ WaitSignaled(c) \/ WaitTimedOut(c) \/ DeliverFrame(c) \/ WithholdFrame(c)
  PROVE  HookInv'
<1> USE DEF CaptureCall, WaitSignaled, WaitTimedOut, DeliverFrame, WithholdFrame
<1>1. /\ UNCHANGED << head, tail, slots, pusher, cTail, cFrame, scratch, restarts >>
      /\ \A d \in Consumers : d = c
      /\ cpc'[c] \in {"idle", "wait", "pop"} /\ cpc' \in [Consumers -> {"idle", "wait", "pop"}]
  BY DEF HookInv, TypeOK, OneConsumer, channel
<1>2. delivered \in Presents /\ scratch \in Presents /\ \A i \in Slots : slots[i] \in Presents
  BY DEF HookInv, TypeOK
<1>3. TypeOK'
  <2>1. event' \in BOOLEAN /\ wants' \in BOOLEAN
    BY DEF HookInv, TypeOK, channel
  <2>2. cNeeds' \in [Consumers -> BOOLEAN] /\ gotAny' \in [Consumers -> BOOLEAN]
    BY DEF HookInv, TypeOK
  <2>3. delivered' \in Presents
    BY <1>2
  <2> QED  BY <1>1, <2>1, <2>2, <2>3 DEF HookInv, TypeOK, pusher, stagingVars
<1>4. Producer'
  BY <1>1 DEF HookInv, Producer, pusher, stagingVars
<1>5. \A i \in Slots : (InRing(i)' <=> InRing(i)) /\ Distance(i)' = Distance(i)
  BY <1>1, RingStays
<1>6. \A n \in Presents : Older(n)' <=> Older(n)
  BY <1>1 DEF Older, pusher, stagingVars
<1>7. \/ delivered' = delivered
      \/ delivered' = scratch /\ cpc[c] = "deliver"
  OBVIOUS
<1>8. Queue'
  BY <1>1, <1>2, <1>5, <1>6, <1>7 DEF HookInv, Queue, Consumer, Drained
<1>9. Consumer'
  <2>1. cpc'[c] \in {"wait", "pop"} => ~gotAny'[c]
    BY <1>1 DEF HookInv, TypeOK, Consumer
  <2> QED  BY <1>1, <2>1 DEF Consumer, Drained
<1>10. Woken'
  BY <1>1 DEF HookInv, Woken, pusher, channel
<1> QED  BY <1>3, <1>4, <1>8, <1>9, <1>10 DEF HookInv

\* TryPop's copy out of the slot at the tail, and the end of the drain loop
LEMMA CopySteps ==
  ASSUME HookInv, OneConsumer, NEW c \in Consumers,
         PopBeginCopy(c) \/ PopEndCopy(c) \/ PopDrained(c)
  PROVE  HookInv'
<1> USE DEF PopBeginCopy, PopEndCopy, PopDrained
<1>1. /\ UNCHANGED << channel, pusher, cNeeds, delivered, restarts >>
      /\ \A d \in Consumers : d = c
  BY DEF OneConsumer
<1>2. /\ delivered \in Presents /\ scratch \in Presents /\ Torn \in Presents
      /\ \A i \in Slots : slots[i] \in Presents
      /\ tail \in Slots /\ cTail[c] \in Slots /\ cFrame \in [Consumers -> Presents]
  BY BoundsAssumption DEF HookInv, TypeOK, Presents, Torn
<1>3. TypeOK'
  <2>1. cTail' \in [Consumers -> Slots] /\ cFrame' \in [Consumers -> Presents]
    BY <1>2 DEF HookInv, TypeOK
  <2>2. gotAny' \in [Consumers -> BOOLEAN]
    BY DEF HookInv, TypeOK
  <2>3. scratch' \in Presents
    <3>1. scratch' \in {scratch, Torn, cFrame[c]}
      OBVIOUS
    <3> QED  BY <1>2, <3>1
  <2>4. cpc' \in [Consumers -> {"idle", "wait", "pop", "copy", "publish", "deliver"}]
    <3>1. PICK at \in {"copy", "publish", "deliver", "idle"} : cpc' = [cpc EXCEPT ![c] = at]
      <4>1. CASE gotAny[c]
        BY <4>1
      <4>2. CASE ~gotAny[c]
        BY <4>2
      <4> QED  BY <4>1, <4>2
    <3> QED  BY <3>1 DEF HookInv, TypeOK
  <2> QED  BY <1>1, <2>1, <2>2, <2>3, <2>4 DEF HookInv, TypeOK, channel, pusher, stagingVars
<1>4. Producer'
  BY <1>1 DEF HookInv, Producer, channel, pusher, stagingVars
<1>5. \A i \in Slots : (InRing(i)' <=> InRing(i)) /\ Distance(i)' = Distance(i)
  BY <1>1, RingStays DEF channel
<1>6. \A n \in Presents : Older(n)' <=> Older(n)
  BY <1>1 DEF Older, pusher, stagingVars
<1>7. Queue'
  BY <1>1, <1>2, <1>5, <1>6 DEF HookInv, Queue, channel
<1>8. Consumer'
  <2>1. CASE PopBeginCopy(c)
    <3>1. /\ cpc'[c] = "copy" /\ tail # head /\ cTail'[c] = tail /\ cFrame'[c] = slots[tail]
      BY <1>1, <1>2, <2>1 DEF HookInv, TypeOK
    <3> QED  BY <1>1, <3>1 DEF Consumer, Drained, channel
  <2>2. CASE PopEndCopy(c)
    <3>1. cpc'[c] = "publish" /\ cTail'[c] = tail /\ tail # head /\ scratch' = slots[tail]
      BY <1>2, <2>2 DEF HookInv, TypeOK, Consumer
    <3> QED  BY <1>1, <3>1 DEF Consumer, Drained, channel
  <2>3. CASE PopDrained(c)
    <3>1. \/ cpc'[c] = "idle"
          \/ cpc'[c] = "deliver" /\ Drained(c)
      <4>1. cpc[c] = "pop" /\ (cpc'[c] = IF gotAny[c] THEN "deliver" ELSE "idle")
        BY <2>3 DEF HookInv, TypeOK
      <4>2. CASE gotAny[c]
        BY <4>1, <4>2 DEF Drained
      <4>3. CASE ~gotAny[c]
        BY <4>1, <4>3
      <4> QED  BY <4>2, <4>3
    <3> QED  BY <1>1, <1>2, <1>5, <1>6, <2>3, <3>1 DEF HookInv, Consumer, Drained, channel
  <2> QED  BY <2>1, <2>2, <2>3
<1>9. Woken'
  BY <1>1 DEF HookInv, TypeOK, Woken, channel, pusher
<1> QED  BY <1>3, <1>4, <1>7, <1>8, <1>9 DEF HookInv

\* The frame that was copied leaves the ring: those that stay are newer
LEMMA PopStep ==
  ASSUME HookInv, OneConsumer, NEW c \in Consumers, PopPublish(c)
  PROVE  HookInv'
<1> USE DEF PopPublish, PublishThen
<1>1. /\ UNCHANGED << head, slots, event, pusher, gotAny, scratch, delivered, restarts >>
      /\ \A d \in Consumers : d = c
      /\ cpc[c] = "publish" /\ cpc'[c] = "pop" /\ tail' = Succ(tail)
      /\ tail # head /\ scratch = slots[tail]
  BY DEF OneConsumer, HookInv, TypeOK, Consumer
<1>2. /\ head \in Slots /\ tail \in Slots /\ Succ(tail) \in Slots
      /\ delivered \in Presents /\ scratch \in Presents
      /\ \A i \in Slots : slots[i] \in Presents
  BY <1>1, SuccWraps DEF HookInv, TypeOK
<1>3. TypeOK'
  BY <1>1, <1>2 DEF HookInv, TypeOK, pusher, stagingVars
<1>4. Producer'
  <2>1. ppc \in {"copy", "publish"} => Succ(head) # Succ(tail)
    BY <1>1, <1>2, SuccWraps, SlotAssumption DEF Slots
  <2> QED  BY <1>1, <2>1 DEF HookInv, Producer, pusher, stagingVars
<1>5. /\ InRing(tail)
      /\ \A i \in Slots : /\ InRing(i)' <=> InRing(i) /\ i # tail
                          /\ i # tail => Distance(tail) < Distance(i)
                          /\ i # tail => Distance(i)' = Distance(i) - 1
  BY <1>1, <1>2, TailMoves
<1>6. \A n \in Presents : Older(n)' <=> Older(n)
  BY <1>1 DEF Older, pusher, stagingVars
<1>7. \A i \in Slots : Distance(i) \in Int
  BY <1>2, SlotAssumption DEF Distance, Slots
<1>8. Queue'
  BY <1>1, <1>2, <1>5, <1>6, <1>7 DEF HookInv, Queue
<1>9. Consumer'
  <2>1. delivered < scratch /\ Older(scratch) /\ \A i \in Slots : InRing(i)' => scratch < slots[i]
    BY <1>1, <1>2, <1>5 DEF HookInv, Queue
  <2> QED  BY <1>1, <1>2, <1>6, <2>1 DEF Consumer, Drained
<1> QED  BY <1>1, <1>3, <1>4, <1>8, <1>9 DEF HookInv, Woken

\* What a killed recorder held is lost or is taken again, never delivered
LEMMA RestartStep == ASSUME HookInv, RecorderRestarts PROVE HookInv'
<1> USE DEF RecorderRestarts
<1>1. /\ UNCHANGED << channel, pusher, delivered >> /\ \A c \in Consumers : cpc'[c] = "idle"
  OBVIOUS
<1>2. TypeOK'
  <2>1. restarts' \in 0 .. MaxRestarts /\ scratch' \in Presents
    BY BoundsAssumption DEF HookInv, TypeOK, Presents, Torn
  <2>2. /\ cpc' \in [Consumers -> {"idle", "wait", "pop", "copy", "publish", "deliver"}]
        /\ gotAny' \in [Consumers -> BOOLEAN]
    OBVIOUS
  <2> QED  BY <1>1, <2>1, <2>2 DEF HookInv, TypeOK, channel, pusher, stagingVars
<1>3. Producer' /\ Consumer'
  BY <1>1 DEF HookInv, Producer, Consumer, Drained, channel, pusher, stagingVars
<1>4. \A i \in Slots : (InRing(i)' <=> InRing(i)) /\ Distance(i)' = Distance(i)
  BY <1>1, RingStays DEF channel
<1>5. \A n \in Presents : Older(n)' <=> Older(n)
  BY <1>1 DEF Older, pusher, stagingVars
<1>6. Queue'
  BY <1>1, <1>4, <1>5 DEF HookInv, TypeOK, Queue, channel
<1>7. Woken'
  BY BoundsAssumption DEF HookInv, TypeOK, Woken
<1> QED  BY <1>2, <1>3, <1>6, <1>7 DEF HookInv

THEOREM HookNext == OneConsumer /\ HookInv /\ [Next]_vars => HookInv'
<1>1. SUFFICES ASSUME OneConsumer, HookInv, [Next]_vars PROVE HookInv'
  OBVIOUS
<1>2. CASE UNCHANGED vars
  BY <1>1, <1>2
  DEF vars, channel, pusher, popper, stagingVars, locals, HookInv, TypeOK, Producer, Queue,
      Consumer, Woken, Older, InRing, Distance, Drained
<1>3. CASE Render
  BY <1>1, <1>3, StagingSteps, PushSteps, PublishStep, SignalStep DEF Render
<1>4. ASSUME NEW c \in Consumers, CaptureFrame(c) PROVE HookInv'
  BY <1>1, <1>4, CallSteps, CopySteps, PopStep DEF CaptureFrame
<1>5. CASE RecorderRestarts
  BY <1>1, <1>5, RestartStep
<1> QED  BY <1>1, <1>2, <1>3, <1>4, <1>5 DEF Next

(***************************************************************************)
(* With one thread in CaptureFrame, what is at each place of the pipeline  *)
(* is newer than all that went on before, for any number of slots.         *)
(***************************************************************************)
THEOREM HookInvariant == ASSUME OneConsumer PROVE Spec => []HookInv
<1>1. Init => HookInv
  BY HookInit
<1>2. HookInv /\ [Next]_vars => HookInv'
  BY HookNext
<1> QED  BY <1>1, <1>2, PTL DEF Spec

\* Cursors, frames and program counters of both processes keep their types
THEOREM HookTypeOK == ASSUME OneConsumer PROVE Spec => []TypeOK
<1>1. HookInv => TypeOK
  BY DEF HookInv
<1> QED  BY <1>1, HookInvariant, PTL

(***************************************************************************)
(* The recorder is never handed a frame that was overwritten while it was  *)
(* copied, although the ring in shared memory has no lock.                 *)
(***************************************************************************)
THEOREM NeverTorn == ASSUME OneConsumer PROVE Spec => []NoTornFrame
<1>1. HookInv => NoTornFrame
  BY DEF HookInv, TypeOK, Consumer, Drained, NoTornFrame, Torn, Presents
<1> QED  BY <1>1, HookInvariant, PTL

(***************************************************************************)
(* A full ring, whose dropped pushes do not signal, still wakes the        *)
(* recorder that was not killed.                                           *)
(***************************************************************************)
THEOREM NeverLosesWakeup == ASSUME OneConsumer PROVE Spec => []NoLostWakeup
<1>1. HookInv => NoLostWakeup
  BY DEF HookInv, Woken, NoLostWakeup
<1> QED  BY <1>1, HookInvariant, PTL

(***************************************************************************)
(* Every delivery is of a frame presented after all that were delivered    *)
(* before, never of the same one again, across resizes and restarts of the *)
(* recorder: the drain took it from the ring, which holds newer ones only. *)
(***************************************************************************)
THEOREM AlwaysAdvances == ASSUME OneConsumer PROVE Spec => DeliversInOrder
<1>1. ASSUME HookInv, NEW c \in Consumers, DeliverFrame(c)
      PROVE  scratch > delivered
  BY <1>1 DEF DeliverFrame, HookInv, TypeOK, Consumer, Drained, Presents, Torn
<1>2. HookInv => [\A c \in Consumers : DeliverFrame(c) => scratch > delivered]_vars
  BY <1>1
<1> QED  BY <1>2, HookInvariant, PTL DEF DeliversInOrder
-----------------------------------------------------------------------------
(* The ring in shared memory as a queue *)

\* Below twice the number of slots the modulo subtracts it at most once.
LEMMA ModWraps ==
  \A n \in 0 .. 2 * SlotCount - 1 : n % SlotCount = IF n < SlotCount THEN n ELSE n - SlotCount
<1> TAKE n \in 0 .. 2 * SlotCount - 1
<1>1. CASE n < SlotCount
  BY <1>1, SlotAssumption
<1>2. CASE n >= SlotCount
  <2>1. PICK k \in 0 .. SlotCount - 1 : n = k + SlotCount
    <3>1. n - SlotCount \in 0 .. SlotCount - 1 /\ n = (n - SlotCount) + SlotCount
      BY <1>2, SlotAssumption
    <3> QED  BY <3>1
  <2>2. (k + SlotCount) % SlotCount = k
    BY SlotAssumption
  <2> QED  BY <1>2, <2>1, <2>2, SlotAssumption
<1> QED  BY <1>1, <1>2, SlotAssumption

\* How far the head is from the tail, and the i-th slot from the tail
LEMMA Apart ==
  \A h, t \in Slots :
    (h + SlotCount - t) % SlotCount = IF h >= t THEN h - t ELSE h - t + SlotCount
<1> TAKE h, t \in Slots
<1>1. h + SlotCount - t \in 0 .. 2 * SlotCount - 1
  BY SlotAssumption DEF Slots
<1> QED  BY <1>1, ModWraps, SlotAssumption DEF Slots

LEMMA Nth ==
  \A t \in Slots, i \in 1 .. SlotCount :
    (t + i - 1) % SlotCount = IF t + i - 1 < SlotCount THEN t + i - 1 ELSE t + i - 1 - SlotCount
<1> TAKE t \in Slots, i \in 1 .. SlotCount
<1>1. t + i - 1 \in 0 .. 2 * SlotCount - 1
  BY SlotAssumption DEF Slots
<1>2. PICK n \in 0 .. 2 * SlotCount - 1 : n = t + i - 1
  BY <1>1
<1>3. n % SlotCount = IF n < SlotCount THEN n ELSE n - SlotCount
  BY ModWraps
<1> QED  BY <1>2, <1>3, SlotAssumption DEF Slots

\* The places of the queued frames are the slots between tail and head; the
\* head's own, which the game may be filling, is none of them.
LEMMA Layout ==
  ASSUME head \in Slots, tail \in Slots
  PROVE  /\ Count = Distance(head) /\ Count \in 0 .. SlotCount - 1
         /\ \A i \in 1 .. SlotCount :
              /\ Place(i) = IF tail + i - 1 < SlotCount THEN tail + i - 1
                                                        ELSE tail + i - 1 - SlotCount
              /\ Place(i) \in Slots
         /\ \A i \in 1 .. Count : InRing(Place(i)) /\ Place(i) # head
<1>1. Count = Distance(head)
  BY Apart DEF Count, Distance
<1>2. Count \in 0 .. SlotCount - 1
  BY <1>1, SlotAssumption DEF Distance, Slots
<1>3. ASSUME NEW i \in 1 .. SlotCount
      PROVE  /\ Place(i) = IF tail + i - 1 < SlotCount THEN tail + i - 1
                                                       ELSE tail + i - 1 - SlotCount
             /\ Place(i) \in Slots
  BY <1>3, Nth, SlotAssumption DEF Place, Slots
<1>4. ASSUME NEW i \in 1 .. Count PROVE InRing(Place(i)) /\ Place(i) # head
  <2>1. i \in 1 .. SlotCount
    BY <1>2, SlotAssumption
  <2>2. Distance(Place(i)) = i - 1
    BY <1>3, <2>1, SlotAssumption DEF Distance, Slots
  <2> QED  BY <1>1, <1>2, <1>3, <2>1, <2>2, SlotAssumption DEF InRing
<1> QED  BY <1>1, <1>2, <1>3, <1>4

LEMMA FunctionIsSeq ==
  ASSUME NEW n \in Nat, NEW S, NEW f \in [1 .. n -> S]
  PROVE  f \in Seq(S) /\ Len(f) = n
  OBVIOUS

LEMMA ContentsSeq ==
  ASSUME HookInv
  PROVE  /\ head \in Slots /\ tail \in Slots
         /\ Contents \in Seq(1 .. MaxPresents) /\ Len(Contents) = Count
         /\ \A i \in 1 .. Count :
              Contents[i] = slots[Place(i)] /\ slots[Place(i)] \in 1 .. MaxPresents
<1>1. head \in Slots /\ tail \in Slots
  BY DEF HookInv, TypeOK
<1>2. Count \in Nat
  BY <1>1, Layout, SlotAssumption
<1>3. \A i \in Slots : InRing(i) => slots[i] \in 1 .. MaxPresents
  BY BoundsAssumption DEF HookInv, TypeOK, Queue, Presents, Torn
<1>4. \A i \in 1 .. Count : slots[Place(i)] \in 1 .. MaxPresents
  BY <1>1, <1>3, Layout DEF InRing
<1>5. Contents \in [1 .. Count -> 1 .. MaxPresents]
  BY <1>4 DEF Contents
<1> QED  BY <1>1, <1>2, <1>4, <1>5, FunctionIsSeq DEF Contents

\* The game's publication of the head appends what it copied.
LEMMA PushAppends ==
  ASSUME HookInv, HookInv', PushPublish
  PROVE  Fifo!Push(pFrame) /\ pFrame \in 1 .. MaxPresents
<1>1. /\ head' = Succ(head) /\ tail' = tail /\ slots' = slots
      /\ Succ(head) # tail /\ slots[head] = pFrame /\ pFrame \in 1 .. MaxPresents
      /\ head \in Slots /\ tail \in Slots /\ Succ(head) \in Slots
  BY SuccWraps DEF PushPublish, HookInv, TypeOK, Producer, Pushing, Presents, Torn
<1>2. Count < SlotCount - 1 /\ Count' = Count + 1
  <2>1. Count' = IF head' >= tail' THEN head' - tail' ELSE head' - tail' + SlotCount
    BY <1>1, Apart DEF Count
  <2>2. Count = IF head >= tail THEN head - tail ELSE head - tail + SlotCount
    BY <1>1, Apart DEF Count
  <2> QED  BY <1>1, <2>1, <2>2, SuccWraps, SlotAssumption DEF Slots
<1>3. \A i \in 1 .. SlotCount : Place(i)' = Place(i)
  BY <1>1 DEF Place
<1>4. Count \in 0 .. SlotCount - 1 /\ Place(Count + 1) = head
  BY <1>1, <1>2, Layout, SlotAssumption DEF Slots, Distance
<1>5. /\ Contents' \in Seq(1 .. MaxPresents) /\ Len(Contents') = Count'
      /\ \A i \in 1 .. Count' : Contents'[i] = slots'[Place(i)']
  <2>1. Count' \in Nat
    BY <1>2, <1>4, SlotAssumption
  <2>2. \A i \in 1 .. Count : slots[Place(i)] \in 1 .. MaxPresents
    BY ContentsSeq
  <2>3. \A i \in 1 .. Count' : slots'[Place(i)'] \in 1 .. MaxPresents
    BY <1>1, <1>2, <1>3, <1>4, <2>2, SlotAssumption
  <2>4. Contents' = [i \in 1 .. Count' |-> slots'[Place(i)']]
    BY DEF Contents
  <2>5. Contents' \in [1 .. Count' -> 1 .. MaxPresents]
    BY <2>3, <2>4
  <2> QED  BY <2>1, <2>4, <2>5, FunctionIsSeq
<1>6. Append(Contents, pFrame) \in Seq(1 .. MaxPresents)
  BY <1>1, ContentsSeq
<1>7. \A i \in 1 .. Count + 1 : Contents'[i] = Append(Contents, pFrame)[i]
  BY <1>1, <1>2, <1>3, <1>4, <1>5, ContentsSeq, AppendProperties, SlotAssumption
<1>8. Contents' = Append(Contents, pFrame)
  BY <1>1, <1>2, <1>5, <1>6, <1>7, ContentsSeq, SeqEqual, AppendProperties
<1> QED  BY <1>1, <1>2, <1>8, ContentsSeq DEF Fifo!Push

\* The recorder's publication of the tail takes the oldest frame.
LEMMA PopTakesFirst ==
  ASSUME HookInv, HookInv', NEW c \in Consumers, PopPublish(c)
  PROVE  Fifo!Pop
<1>1. /\ tail' = Succ(tail) /\ head' = head /\ slots' = slots /\ tail # head
      /\ head \in Slots /\ tail \in Slots /\ Succ(tail) \in Slots
  BY SuccWraps DEF PopPublish, PublishThen, HookInv, TypeOK, Consumer
<1>2. Count >= 1 /\ Count' = Count - 1 /\ Count \in 0 .. SlotCount - 1
  <2>1. Count' = IF head' >= tail' THEN head' - tail' ELSE head' - tail' + SlotCount
    BY <1>1, Apart DEF Count
  <2>2. Count = IF head >= tail THEN head - tail ELSE head - tail + SlotCount
    BY <1>1, Apart DEF Count
  <2> QED  BY <1>1, <2>1, <2>2, SuccWraps, SlotAssumption DEF Slots
<1>3. \A i \in 1 .. Count - 1 : Place(i)' = Place(i + 1)
  <2>1. \A i \in 1 .. SlotCount :
          Place(i)' = IF tail' + i - 1 < SlotCount THEN tail' + i - 1
                                                   ELSE tail' + i - 1 - SlotCount
    BY <1>1, Nth DEF Place
  <2>2. \A i \in 1 .. SlotCount :
          Place(i) = IF tail + i - 1 < SlotCount THEN tail + i - 1 ELSE tail + i - 1 - SlotCount
    BY <1>1, Layout
  <2>3. \A i \in 1 .. Count - 1 : i \in 1 .. SlotCount /\ i + 1 \in 1 .. SlotCount
    BY <1>2, SlotAssumption
  <2>4. \A i \in 1 .. Count - 1 :
          Place(i + 1) = IF tail + i < SlotCount THEN tail + i ELSE tail + i - SlotCount
    BY <1>1, <1>2, <2>2, <2>3, SlotAssumption DEF Slots
  <2>5. tail' = IF tail = SlotCount - 1 THEN 0 ELSE tail + 1
    BY <1>1, SuccWraps
  <2> QED  BY <1>1, <1>2, <2>1, <2>3, <2>4, <2>5, SlotAssumption DEF Slots
<1>4. /\ Contents' \in Seq(1 .. MaxPresents) /\ Len(Contents') = Count - 1
      /\ \A i \in 1 .. Count - 1 : Contents'[i] = slots[Place(i + 1)]
  <2>1. Contents' = [i \in 1 .. Count - 1 |-> slots[Place(i + 1)]]
    BY <1>1, <1>2, <1>3 DEF Contents
  <2>2. \A i \in 1 .. Count : slots[Place(i)] \in 1 .. MaxPresents
    BY ContentsSeq
  <2>3. \A i \in 1 .. Count - 1 : slots[Place(i + 1)] \in 1 .. MaxPresents
    BY <1>2, <2>2
  <2>4. Contents' \in [1 .. Count - 1 -> 1 .. MaxPresents]
    BY <2>1, <2>3
  <2>5. Count - 1 \in Nat
    BY <1>2
  <2> QED  BY <2>1, <2>4, <2>5, FunctionIsSeq
<1>5. Contents # << >>
  BY <1>2, ContentsSeq
<1>6. /\ Tail(Contents) \in Seq(1 .. MaxPresents) /\ Len(Tail(Contents)) = Count - 1
      /\ \A i \in 1 .. Count - 1 : Tail(Contents)[i] = slots[Place(i + 1)]
  <2>1. /\ Tail(Contents) \in Seq(1 .. MaxPresents) /\ Len(Tail(Contents)) = Count - 1
        /\ \A i \in 1 .. Count - 1 : Tail(Contents)[i] = Contents[i + 1]
    BY <1>5, ContentsSeq, HeadTailProperties
  <2> QED  BY <1>2, <2>1, ContentsSeq
<1>7. Contents' = Tail(Contents)
  BY <1>4, <1>6, SeqEqual
<1> QED  BY <1>5, <1>7 DEF Fifo!Pop

\* Nothing else moves an end of the ring, and the only slot written, the one
\* at the head, is not in the queue.
LEMMA OthersHidden ==
  ASSUME HookInv, [Next]_vars, ~PushPublish, \A c \in Consumers : ~PopPublish(c)
  PROVE  Contents' = Contents
<1>1. /\ UNCHANGED << head, tail >>
      /\ slots' = slots \/ PushBeginCopy \/ PushEndCopy
  BY DEF Next, Render, CaptureFrame, vars, channel, popper, PresentUnwanted, PresentFirst,
         PresentNext, PresentResized, PushDropped, PushBeginCopy, PushEndCopy, PushSignal,
         CaptureCall, WaitSignaled, WaitTimedOut, PopBeginCopy, PopEndCopy, PopDrained,
         DeliverFrame, WithholdFrame, RecorderRestarts
<1>2. \A i \in Slots : i # head => slots'[i] = slots[i]
  BY <1>1 DEF PushBeginCopy, PushEndCopy, HookInv, TypeOK
<1>3. Count' = Count /\ (\A i \in 1 .. Count : Place(i)' = Place(i))
  BY <1>1 DEF Count, Place
<1>4. \A i \in 1 .. Count : slots'[Place(i)] = slots[Place(i)]
  BY <1>2, Layout DEF HookInv, TypeOK, InRing
<1>5. Contents' = [i \in 1 .. Count' |-> slots'[Place(i)']]
  BY DEF Contents
<1> QED  BY <1>3, <1>4, <1>5 DEF Contents

(***************************************************************************)
(* The lock-free ring in shared memory is a bounded FIFO queue across the  *)
(* two processes: what the game publishes is taken once and in order, also *)
(* when the recorder is killed in the middle of a pop and started again.   *)
(***************************************************************************)
THEOREM RingImplementsQueue == ASSUME OneConsumer PROVE Spec => ImplementsQueue
<1>1. Init => Fifo!Init
  <2>1. SUFFICES ASSUME Init PROVE Contents = << >>
    BY DEF Fifo!Init
  <2>2. Count = 0
    BY <2>1, Apart, SlotAssumption DEF Init, Count, Slots
  <2>3. 1 .. Count = {}
    BY <2>2
  <2> QED  BY <2>3 DEF Contents
<1>2. HookInv /\ HookInv' /\ [Next]_vars => [FifoNext]_Contents
  <2>1. SUFFICES ASSUME HookInv, HookInv', [Next]_vars PROVE [FifoNext]_Contents
    OBVIOUS
  <2>2. CASE PushPublish
    BY <2>1, <2>2, PushAppends DEF FifoNext
  <2>3. ASSUME NEW c \in Consumers, PopPublish(c) PROVE [FifoNext]_Contents
    BY <2>1, <2>3, PopTakesFirst DEF FifoNext
  <2>4. CASE ~PushPublish /\ \A c \in Consumers : ~PopPublish(c)
    BY <2>1, <2>4, OthersHidden
  <2> QED  BY <2>2, <2>3, <2>4
<1> QED  BY <1>1, <1>2, HookInvariant, PTL DEF Spec, ImplementsQueue
=============================================================================
