---------------------------- MODULE HookPipeline ----------------------------
(***************************************************************************)
(* The game-hook capture path, across two processes: HookedPresent on the  *)
(* game's render thread (hook/src/D3D11Hook.cpp), the shared-memory ring   *)
(* with its auto-reset event (hook/include/SharedFrameChannel.h) and       *)
(* CaptureHook::CaptureFrame (hook/src/CaptureHook.cpp) in the recorder.   *)
(*                                                                         *)
(* A frame is the number of the Present() whose back buffer it shows.      *)
(* Every copy of pixels takes two steps, and what is being written holds   *)
(* Torn meanwhile, so that an overlapping read or write is seen.           *)
(* CaptureFrame is called by the capture loop and, for a screenshot, by    *)
(* the hotkey thread: Consumers are the threads that do.  They share one   *)
(* scratch buffer and one tail, each with its own locals.  Whether the     *)
(* throttle lets a frame through is left open here and is                  *)
(* DeliveryThrottle's subject.                                             *)
(***************************************************************************)
EXTENDS Naturals, Sequences

CONSTANTS Consumers,     \* threads that call CaptureFrame
          SlotCount,     \* kSlotCount
          MaxPresents,   \* bound: Present() calls of the game
          MaxResizes,    \* bound: changes of the back buffer's size
          MaxRestarts    \* bound: recorder processes killed and started again

ASSUME SlotAssumption == SlotCount \in Nat \ {0, 1}
ASSUME BoundsAssumption ==
  MaxPresents \in Nat /\ MaxResizes \in Nat /\ MaxRestarts \in Nat

Slots == 0 .. SlotCount - 1
Torn == 0                                  \* no whole frame
Presents == Torn .. MaxPresents
Staging == {0, 1}                          \* kStagingRingSize = 2

VARIABLES
  head, tail, slots,   \* the shared ring
  event,               \* the auto-reset event: is it set
  wants,               \* consumerWantsFrames
  presented,           \* Present() calls so far
  resizes,             \* size changes so far
  texture,             \* texture[i]: the frame copied into staging slot i
  writeIndex,          \* g_stagingWriteIndex11
  hasPending,          \* g_stagingHasPending11
  ppc, pFrame,         \* where the render thread is in TryPush, with what
  cpc, cNeeds, cTail, cFrame, gotAny,  \* each consumer inside CaptureFrame
  scratch,             \* the frame in scratchBuffer_
  delivered,           \* the last frame handed to a callback
  restarts             \* recorder restarts so far

channel == << head, tail, slots, event, wants >>
stagingVars == << texture, writeIndex, hasPending, resizes >>
pusher == << presented, stagingVars, ppc, pFrame >>
locals == << cpc, cNeeds, cTail, cFrame, gotAny >>
popper == << locals, scratch, delivered, restarts >>
vars == << channel, pusher, popper >>

Succ(i) == (i + 1) % SlotCount

Init ==
  /\ head = 0 /\ tail = 0 /\ slots = [i \in Slots |-> Torn]
  /\ event = FALSE /\ wants = FALSE
  /\ presented = 0 /\ resizes = 0
  /\ texture = [i \in Staging |-> Torn] /\ writeIndex = 0 /\ hasPending = FALSE
  /\ ppc = "present" /\ pFrame = Torn
  /\ cpc = [c \in Consumers |-> "idle"] /\ cNeeds = [c \in Consumers |-> FALSE]
  /\ cTail = [c \in Consumers |-> 0]
  /\ cFrame = [c \in Consumers |-> Torn] /\ gotAny = [c \in Consumers |-> FALSE]
  /\ scratch = Torn /\ delivered = Torn /\ restarts = 0
-----------------------------------------------------------------------------
(* HookedPresent, on the game's render thread *)

\* Nobody wants frames, or the back buffer has a format or size that is
\* not captured
PresentUnwanted ==
  /\ ppc = "present" /\ presented < MaxPresents
  /\ presented' = presented + 1
  /\ UNCHANGED << channel, stagingVars, ppc, pFrame, popper >>

\* CopyResource into the write slot; the other slot is read by the next call
CopyToStaging(n) ==
  /\ texture' = [texture EXCEPT ![writeIndex] = n]
  /\ writeIndex' = 1 - writeIndex

\* First copy since the textures were made: nothing to read back yet
PresentFirst ==
  /\ ppc = "present" /\ wants /\ ~hasPending /\ presented < MaxPresents
  /\ presented' = presented + 1
  /\ CopyToStaging(presented + 1)
  /\ hasPending' = TRUE
  /\ UNCHANGED << channel, resizes, ppc, pFrame, popper >>

\* Map and copy the slot of the previous copy; push it, unless Map failed
PresentNext ==
  /\ ppc = "present" /\ wants /\ hasPending /\ presented < MaxPresents
  /\ presented' = presented + 1
  /\ CopyToStaging(presented + 1)
  /\ \/ ppc' = "check" /\ pFrame' = texture[1 - writeIndex]
     \/ UNCHANGED << ppc, pFrame >>
  /\ UNCHANGED << channel, hasPending, resizes, popper >>

\* EnsureStagingTexture11 finds another size: new textures, an empty ring
PresentResized ==
  /\ ppc = "present" /\ wants /\ presented < MaxPresents
  /\ resizes < MaxResizes /\ resizes' = resizes + 1
  /\ presented' = presented + 1
  /\ texture' = [i \in Staging |-> IF i = 0 THEN presented + 1 ELSE Torn]
  /\ writeIndex' = 1 /\ hasPending' = TRUE
  /\ UNCHANGED << channel, ppc, pFrame, popper >>
-----------------------------------------------------------------------------
(* SharedFrameChannel::TryPush *)

RingNeverFull(h) == FALSE
RingFull(h) == Succ(h) = tail

PushDropped ==
  /\ ppc = "check" /\ RingFull(head)
  /\ ppc' = "present" /\ pFrame' = Torn
  /\ UNCHANGED << channel, presented, stagingVars, popper >>

PushBeginCopy ==
  /\ ppc = "check" /\ ~RingFull(head)
  /\ slots' = [slots EXCEPT ![head] = Torn]
  /\ ppc' = "copy"
  /\ UNCHANGED << head, tail, event, wants, presented, stagingVars, pFrame, popper >>

PushEndCopy ==
  /\ ppc = "copy"
  /\ slots' = [slots EXCEPT ![head] = pFrame]
  /\ ppc' = "publish"
  /\ UNCHANGED << head, tail, event, wants, presented, stagingVars, pFrame, popper >>

PushPublish ==
  /\ ppc = "publish"
  /\ head' = Succ(head)
  /\ ppc' = "signal"
  /\ UNCHANGED << tail, slots, event, wants, presented, stagingVars, pFrame, popper >>

PushReturn ==
  /\ ppc = "signal"
  /\ ppc' = "present" /\ pFrame' = Torn
  /\ UNCHANGED << channel, presented, stagingVars, popper >>

PushSignal ==
  /\ ppc = "signal"
  /\ event' = TRUE
  /\ ppc' = "present" /\ pFrame' = Torn
  /\ UNCHANGED << head, tail, slots, wants, presented, stagingVars, popper >>
-----------------------------------------------------------------------------
(* CaptureHook::CaptureFrame, by consumer c *)

CaptureCallNotReset(c, needs) ==
  /\ cpc[c] = "idle"
  /\ wants' = needs
  /\ cNeeds' = [cNeeds EXCEPT ![c] = needs]
  /\ cpc' = [cpc EXCEPT ![c] = "wait"]
  /\ UNCHANGED << head, tail, slots, event, pusher, cTail, cFrame, gotAny, scratch, delivered,
                  restarts >>

CaptureCall(c, needs) ==
  /\ cpc[c] = "idle"
  /\ wants' = needs
  /\ cNeeds' = [cNeeds EXCEPT ![c] = needs]
  /\ gotAny' = [gotAny EXCEPT ![c] = FALSE]
  /\ cpc' = [cpc EXCEPT ![c] = "wait"]
  /\ UNCHANGED << head, tail, slots, event, pusher, cTail, cFrame, scratch, delivered,
                  restarts >>

\* WaitForFrame: the event is set, and the wait resets it
WaitSignaled(c) ==
  /\ cpc[c] = "wait" /\ event
  /\ event' = FALSE
  /\ cpc' = [cpc EXCEPT ![c] = "pop"]
  /\ UNCHANGED << head, tail, slots, wants, pusher, cNeeds, cTail, cFrame, gotAny, scratch,
                  delivered, restarts >>

WaitTimedOut(c) ==
  /\ cpc[c] = "wait" /\ ~event
  /\ cpc' = [cpc EXCEPT ![c] = "idle"]
  /\ UNCHANGED << channel, pusher, cNeeds, cTail, cFrame, gotAny, scratch, delivered,
                  restarts >>

\* TryPop copies out of the tail slot; two copies into the scratch buffer
\* at once spoil each other
PopBeginCopy(c) ==
  /\ cpc[c] = "pop" /\ tail # head
  /\ cTail' = [cTail EXCEPT ![c] = tail]
  /\ LET copying == {d \in Consumers : cpc[d] = "copy"}
     IN cFrame' = [d \in Consumers |->
                     CASE d \in copying -> Torn
                       [] d = c -> IF copying = {} THEN slots[tail] ELSE Torn
                       [] OTHER -> cFrame[d]]
  /\ scratch' = Torn
  /\ cpc' = [cpc EXCEPT ![c] = "copy"]
  /\ UNCHANGED << channel, pusher, cNeeds, gotAny, delivered, restarts >>

\* The copy is whole when the slot did not change meanwhile
PopEndCopy(c) ==
  /\ cpc[c] = "copy"
  /\ scratch' = IF slots[cTail[c]] = cFrame[c] THEN cFrame[c] ELSE Torn
  /\ gotAny' = [gotAny EXCEPT ![c] = TRUE]
  /\ cpc' = [cpc EXCEPT ![c] = "publish"]
  /\ UNCHANGED << channel, pusher, cNeeds, cTail, cFrame, delivered, restarts >>

PublishThen(c, next) ==
  /\ cpc[c] = "publish"
  /\ tail' = Succ(cTail[c])
  /\ cpc' = [cpc EXCEPT ![c] = next]
  /\ UNCHANGED << head, slots, event, wants, pusher, cNeeds, cTail, cFrame, gotAny, scratch,
                  delivered, restarts >>

PopOnePerWakeup(c) == PublishThen(c, "deliver")

\* The drain loop goes on until the ring is empty
PopPublish(c) == PublishThen(c, "pop")

PopDrained(c) ==
  /\ cpc[c] = "pop" /\ tail = head
  /\ cpc' = [cpc EXCEPT ![c] = IF gotAny[c] THEN "deliver" ELSE "idle"]
  /\ UNCHANGED << channel, pusher, cNeeds, cTail, cFrame, gotAny, scratch, delivered,
                  restarts >>

\* The newest frame of the drain goes to the callback
DeliverFrame(c) ==
  /\ cpc[c] = "deliver" /\ cNeeds[c]
  /\ delivered' = scratch
  /\ cpc' = [cpc EXCEPT ![c] = "idle"]
  /\ UNCHANGED << channel, pusher, cNeeds, cTail, cFrame, gotAny, scratch, restarts >>

\* The throttle keeps it back, or the caller did not ask for pixels
WithholdFrame(c) ==
  /\ cpc[c] = "deliver"
  /\ cpc' = [cpc EXCEPT ![c] = "idle"]
  /\ UNCHANGED << channel, pusher, cNeeds, cTail, cFrame, gotAny, scratch, delivered,
                  restarts >>

\* The recorder is killed anywhere and started again: section and event
\* live on in the game as they are
RecorderRestarts ==
  /\ restarts < MaxRestarts /\ restarts' = restarts + 1
  /\ cpc' = [c \in Consumers |-> "idle"]
  /\ gotAny' = [c \in Consumers |-> FALSE] /\ scratch' = Torn
  /\ UNCHANGED << channel, pusher, cNeeds, cTail, cFrame, delivered >>
-----------------------------------------------------------------------------
Render ==
  \/ PresentUnwanted \/ PresentFirst \/ PresentNext \/ PresentResized
  \/ PushDropped \/ PushBeginCopy \/ PushEndCopy \/ PushPublish \/ PushSignal

CaptureFrame(c) ==
  \/ \E needs \in BOOLEAN : CaptureCall(c, needs)
  \/ WaitSignaled(c) \/ WaitTimedOut(c)
  \/ PopBeginCopy(c) \/ PopEndCopy(c) \/ PopPublish(c) \/ PopDrained(c)
  \/ DeliverFrame(c) \/ WithholdFrame(c)

Next == Render \/ (\E c \in Consumers : CaptureFrame(c)) \/ RecorderRestarts

\* Fairness: a thread inside a call goes on; the capture loop calls again
\* and again, and a wait that finds its event set does not time out.
Spec ==
  /\ Init /\ [][Next]_vars
  /\ WF_vars(Render /\ ppc # "present")
  /\ \A c \in Consumers : WF_vars(CaptureFrame(c))
-----------------------------------------------------------------------------
TypeOK ==
  /\ head \in Slots /\ tail \in Slots /\ slots \in [Slots -> Presents]
  /\ event \in BOOLEAN /\ wants \in BOOLEAN
  /\ presented \in 0 .. MaxPresents /\ resizes \in 0 .. MaxResizes
  /\ texture \in [Staging -> Presents] /\ writeIndex \in Staging
  /\ hasPending \in BOOLEAN
  /\ ppc \in {"present", "check", "copy", "publish", "signal"} /\ pFrame \in Presents
  /\ cpc \in [Consumers -> {"idle", "wait", "pop", "copy", "publish", "deliver"}]
  /\ cNeeds \in [Consumers -> BOOLEAN] /\ cTail \in [Consumers -> Slots]
  /\ cFrame \in [Consumers -> Presents] /\ gotAny \in [Consumers -> BOOLEAN]
  /\ scratch \in Presents /\ delivered \in Presents /\ restarts \in 0 .. MaxRestarts

(***************************************************************************)
(* The recorder never receives a frame that was overwritten while it was   *)
(* copied, nor the content of a slot or texture nobody filled.             *)
(***************************************************************************)
NoTornFrame == \A c \in Consumers : cpc[c] = "deliver" => scratch # Torn

(***************************************************************************)
(* Each delivery is of a whole frame presented after the one delivered     *)
(* before: a wakeup with nothing to drain never hands out the scratch      *)
(* buffer again, and "keeping only the newest" never goes back             *)
(* (CaptureHook.cpp:40-42).  How long ago the frame was presented has no   *)
(* bound: the staged frame of PresentNext may be from before a pause.      *)
(***************************************************************************)
DeliversInOrder ==
  [][\A c \in Consumers : DeliverFrame(c) => scratch > delivered]_vars

(***************************************************************************)
(* Across the two processes the shared ring is the bounded FIFO queue that *)
(* the recorder's own ring is (FrameQueue), and one that is never cleared, *)
(* also when the recorder is killed in the middle of a pop: a frame is     *)
(* queued when the game publishes the head and leaves when the recorder    *)
(* publishes the tail.                                                     *)
(***************************************************************************)
Count == (head + SlotCount - tail) % SlotCount
Place(i) == (tail + i - 1) % SlotCount
Contents == [i \in 1 .. Count |-> slots[Place(i)]]
Fifo == INSTANCE FrameQueue WITH
          Frames <- 1 .. MaxPresents, Capacity <- SlotCount, queue <- Contents
FifoNext == Fifo!Pop \/ \E f \in 1 .. MaxPresents : Fifo!Push(f)
ImplementsQueue == Fifo!Init /\ [][FifoNext]_Contents

(***************************************************************************)
(* A frame in the ring never waits for nobody: when every consumer is      *)
(* outside the drain loop, the event is set or about to be, so that a full *)
(* ring, whose dropped pushes do not signal, still wakes the recorder.     *)
(* Killing the recorder between its wait and its drain breaks this.        *)
(***************************************************************************)
NoLostWakeup ==
  /\ restarts = 0 /\ head # tail
  /\ \A c \in Consumers : cpc[c] \in {"idle", "wait"}
  => event \/ ppc = "signal"

(***************************************************************************)
(* Every frame pushed is taken out of the ring, unless the recorder is     *)
(* killed, so that the game's pushes find room again.                      *)
(***************************************************************************)
RingIsDrained == (restarts = 0 /\ head # tail) ~> (restarts > 0 \/ head = tail)
=============================================================================
