-------------------------- MODULE RecorderSession --------------------------
(***************************************************************************)
(* Recording sessions in src/Recorder.cpp: the hotkey thread that starts   *)
(* and stops them, the capture thread, the encoder-feed thread, one        *)
(* detached finish thread for each stopped session and the ffmpeg          *)
(* processes, over the state they share in Recorder.                       *)
(*                                                                         *)
(* A step is what a thread does between two accesses to shared state that  *)
(* another thread can come between.  Of a push and of a pop these are the  *)
(* test with the access to the slot, and the store of the cursor; Clear's  *)
(* two stores, in either order, may come between them, and it erases no    *)
(* slot, so that frames may come back or be passed over.  (The loads are   *)
(* steps of their own in FrameRingBuffer; here they matter only when the   *)
(* capture thread pushes twice within one TryPop.)  Sessions are numbered  *)
(* by F9 starts; an Encoder object and its ffmpeg process are named by the *)
(* session that made them, a frame by the session that asked for it.  Of   *)
(* the frame size only whether it is known matters: an encoder started     *)
(* before the first frame gets 0x0.  The pipe itself is                    *)
(* EncoderPipe's, sound, times and files are OutputFiles', the backends    *)
(* are DesktopCapture's and HookPipeline's; statistics are left out.       *)
(***************************************************************************)
EXTENDS Naturals, FiniteSets

CONSTANTS MaxSessions,    \* bound: F9 starts
          MaxLost,        \* bound: lost frames counted for each session
          Capacity,       \* capacity_ of the ring
          PushDriven,     \* ICapture::IsPushDriven
          Patient,        \* the user starts again only when all is finished
          CalmClear       \* no Clear meets a push or a pop under way

ASSUME BoundsAssumption ==
  MaxSessions \in Nat /\ MaxLost \in Nat /\ Capacity \in Nat \ {0, 1}
ASSUME ModesAssumption ==
  PushDriven \in BOOLEAN /\ Patient \in BOOLEAN /\ CalmClear \in BOOLEAN

Sessions == 1 .. MaxSessions
None == 0                   \* no encoder, no session, no pixels in a slot
Slots == 0 .. Capacity - 1
Succ(i) == (i + 1) % Capacity

VARIABLES
  session,      \* number of F9 starts so far
  isRecording,  \* isRecording_
  head, tail,   \* the cursors of ringBuffer_
  slots,        \* its slots: the session of the frame, None when moved out
  encoder,      \* encoder_: None or the session that made it
  mutex,        \* encoderMutex_: "free", "feed" or "finish"
  proc,         \* proc[s]: the ffmpeg process of session s
  sized,        \* frameWidth_ and frameHeight_ are not 0
  haveLast,     \* haveLastFrame_
  hot,          \* where the hotkey thread is
  cap,          \* where the capture thread is
  capRec,       \* recordingThisFrame: the session it sampled, None when idle
  capHead,      \* TryPush's local head, 0 outside of it
  feed,         \* where the feed thread is
  feedTail,     \* TryPop's local tail, 0 outside of it
  feedFrame,    \* the frame it popped
  fin,          \* fin[s]: where the finish thread of session s is
  took,         \* took[s]: whose encoder it finished
  lost          \* lost[s]: frames of s accepted, then dropped or overwritten

hotVars == << session, isRecording, hot >>
ring == << head, tail, slots >>
capVars == << sized, haveLast, cap, capRec, capHead >>
feedVars == << feed, feedTail, feedFrame >>
encVars == << encoder, proc >>
finVars == << fin, took >>
vars == << hotVars, capVars, feedVars, encVars, finVars, ring, mutex, lost >>

Init ==
  /\ session = 0 /\ isRecording = FALSE
  /\ head = 0 /\ tail = 0 /\ slots = [i \in Slots |-> None]
  /\ encoder = None /\ mutex = "free"
  /\ proc = [s \in Sessions |-> "none"]
  /\ sized = FALSE /\ haveLast = FALSE
  /\ hot = "ready"
  /\ cap = "top" /\ capRec = None /\ capHead = 0
  /\ feed = "idle" /\ feedTail = 0 /\ feedFrame = None
  /\ fin = [s \in Sessions |-> "none"] /\ took = [s \in Sessions |-> None]
  /\ lost = [s \in Sessions |-> 0]

\* lock_guard on encoderMutex_
MutexIgnored == TRUE
MutexFree == mutex = "free"

\* TryPush's test; Empty()
RoomInRing == Succ(head) # tail
RingNotChecked == TRUE
RingDrained == head = tail

AllFinished == \A s \in Sessions : fin[s] \in {"none", "done"}

\* One more frame f is lost (none is when f is a slot without pixels)
Lose(f) == [s \in Sessions |-> IF s = f /\ lost[s] < MaxLost THEN lost[s] + 1 ELSE lost[s]]
-----------------------------------------------------------------------------
(* StartRecording, on the hotkey thread *)

Clearing == hot \in {"clearHead", "clearTail"}

\* Clear stores one of its cursors
StartClear ==
  /\ hot = "ready" /\ ~isRecording /\ session < MaxSessions
  /\ Patient => AllFinished
  /\ CalmClear => cap # "store" /\ feed # "store"
  /\ session' = session + 1
  /\ \/ head' = 0 /\ tail' = tail /\ hot' = "clearTail"
     \/ tail' = 0 /\ head' = head /\ hot' = "clearHead"
  /\ UNCHANGED << isRecording, slots, capVars, feedVars, encVars, finVars, mutex, lost >>

\* ... and then the other
StartCleared ==
  /\ \/ hot = "clearHead" /\ head' = 0 /\ tail' = tail
     \/ hot = "clearTail" /\ tail' = 0 /\ head' = head
  /\ hot' = "encoder"
  /\ UNCHANGED << session, isRecording, slots, capVars, feedVars, encVars, finVars, mutex, lost >>

StdinLeftOpen(p, e) == p
\* ~Encoder and FinishStreamingEncode close ffmpeg's stdin
CloseStdin(p, e) ==
  [s \in Sessions |-> IF s = e /\ p[s] = "running" THEN "eof" ELSE p[s]]

\* make_unique destroys the encoder that is still there, then spawns ffmpeg,
\* which cannot run on a 0x0 video
StartEncoder ==
  /\ hot = "encoder" /\ MutexFree
  /\ encoder' = session
  /\ proc' = [CloseStdin(proc, encoder) EXCEPT
                ![session] = IF sized THEN "running" ELSE "failed"]
  /\ hot' = "flag"
  /\ UNCHANGED << session, isRecording, capVars, feedVars, finVars, ring, mutex, lost >>

StartEncoderFailsUnnoticed ==
  /\ hot = "encoder" /\ MutexFree
  /\ encoder' = None /\ proc' = CloseStdin(proc, encoder)
  /\ hot' = "flag"
  /\ UNCHANGED << session, isRecording, capVars, feedVars, finVars, ring, mutex, lost >>

StartEncoderFails ==
  /\ hot = "encoder" /\ MutexFree
  /\ encoder' = None /\ proc' = CloseStdin(proc, encoder)
  /\ hot' = "ready"
  /\ UNCHANGED << session, isRecording, capVars, feedVars, finVars, ring, mutex, lost >>

\* The audio captures have been started or have failed to, which is the same
StartFlag ==
  /\ hot = "flag"
  /\ isRecording' = TRUE
  /\ hot' = "ready"
  /\ UNCHANGED << session, capVars, feedVars, encVars, finVars, ring, mutex, lost >>
-----------------------------------------------------------------------------
(* StopRecordingAndEncode, on the hotkey thread *)

StopFlag ==
  /\ hot = "ready" /\ isRecording
  /\ isRecording' = FALSE
  /\ hot' = "spawn"
  /\ UNCHANGED << session, capVars, feedVars, encVars, finVars, ring, mutex, lost >>

\* When the audio captures are joined
StopSpawnFinish ==
  /\ hot = "spawn"
  /\ fin' = [fin EXCEPT ![session] = "drain"]
  /\ hot' = "ready"
  /\ UNCHANGED << session, isRecording, capVars, feedVars, encVars, took, ring, mutex, lost >>
-----------------------------------------------------------------------------
(* CaptureLoop, on the capture thread *)

IterationEnds == cap' = "top" /\ capRec' = None

CapSample ==
  /\ cap = "top"
  /\ capRec' = IF isRecording THEN session ELSE None
  /\ cap' = "call"
  /\ UNCHANGED << hotVars, sized, haveLast, capHead, feedVars, encVars, finVars, ring, mutex,
                  lost >>

\* CaptureFrame runs the callback only when pixels were asked for
CapDeliverIdle ==
  /\ cap = "call" /\ capRec = None /\ ~sized
  /\ sized' = TRUE
  /\ IterationEnds
  /\ UNCHANGED << hotVars, haveLast, capHead, feedVars, encVars, finVars, ring, mutex, lost >>

CapDeliver ==
  /\ cap = "call" /\ capRec # None
  /\ sized' = TRUE /\ haveLast' = TRUE
  /\ cap' = "push"
  /\ UNCHANGED << hotVars, capRec, capHead, feedVars, encVars, finVars, ring, mutex, lost >>

\* No frame but a cached one to push again
CapBackfill ==
  /\ cap = "call" /\ capRec # None /\ ~PushDriven /\ haveLast
  /\ cap' = "push"
  /\ UNCHANGED << hotVars, sized, haveLast, capRec, capHead, feedVars, encVars, finVars, ring,
                  mutex, lost >>

\* No frame and none to repeat, or a frame whose pixels could not be read,
\* for which CaptureFrame returns true and nothing is repeated
CapNothing ==
  /\ cap = "call"
  /\ IterationEnds
  /\ UNCHANGED << hotVars, sized, haveLast, capHead, feedVars, encVars, finVars, ring, mutex,
                  lost >>

CapPushRefused ==
  /\ cap = "push" /\ ~RoomInRing
  /\ IterationEnds
  /\ UNCHANGED << hotVars, sized, haveLast, capHead, feedVars, encVars, finVars, ring, mutex,
                  lost >>

\* TryPush up to the store of head_: a frame a Clear has passed over is lost
CapWriteSlot ==
  /\ cap = "push" /\ RoomInRing
  /\ CalmClear => ~Clearing
  /\ slots' = [slots EXCEPT ![head] = capRec]
  /\ lost' = Lose(slots[head])
  /\ capHead' = head
  /\ cap' = "store"
  /\ UNCHANGED << hotVars, sized, haveLast, capRec, feedVars, encVars, finVars, head, tail,
                  mutex >>

CapStoreHead ==
  /\ cap = "store"
  /\ head' = Succ(capHead)
  /\ capHead' = 0
  /\ IterationEnds
  /\ UNCHANGED << hotVars, sized, haveLast, feedVars, encVars, finVars, tail, slots, mutex,
                  lost >>
-----------------------------------------------------------------------------
(* EncoderFeedLoop, on the feed thread *)

FeedTakeWhileRecording ==
  /\ feed = "idle" /\ head # tail /\ isRecording
  /\ CalmClear => ~Clearing
  /\ feedFrame' = slots[tail] /\ slots' = [slots EXCEPT ![tail] = None]
  /\ feedTail' = tail
  /\ feed' = "store"
  /\ UNCHANGED << hotVars, capVars, encVars, finVars, head, tail, mutex, lost >>

\* TryPop up to the store of tail_, which moves the frame out of its slot
FeedTake ==
  /\ feed = "idle" /\ head # tail
  /\ CalmClear => ~Clearing
  /\ feedFrame' = slots[tail] /\ slots' = [slots EXCEPT ![tail] = None]
  /\ feedTail' = tail
  /\ feed' = "store"
  /\ UNCHANGED << hotVars, capVars, encVars, finVars, head, tail, mutex, lost >>

FeedStoreTail ==
  /\ feed = "store"
  /\ tail' = Succ(feedTail)
  /\ feedTail' = 0
  /\ feed' = "lock"
  /\ UNCHANGED << hotVars, capVars, feedFrame, encVars, finVars, head, slots, mutex, lost >>

FeedNoEncoder ==
  /\ feed = "lock" /\ MutexFree /\ encoder = None
  /\ lost' = Lose(feedFrame)
  /\ feed' = "idle" /\ feedFrame' = None
  /\ UNCHANGED << hotVars, capVars, feedTail, encVars, finVars, ring, mutex >>

FeedLock ==
  /\ feed = "lock" /\ MutexFree /\ encoder # None
  /\ mutex' = "feed"
  /\ feed' = "write"
  /\ UNCHANGED << hotVars, capVars, feedTail, feedFrame, encVars, finVars, ring, lost >>

\* WriteFrame blocks, mutex held, until ffmpeg takes the frame or is gone
FeedWrite ==
  /\ feed = "write"
  /\ mutex' = "free"
  /\ feed' = "idle" /\ feedFrame' = None
  /\ UNCHANGED << hotVars, capVars, feedTail, encVars, finVars, ring, lost >>
-----------------------------------------------------------------------------
(* ffmpeg, a process outside the program *)

FfmpegDies(s) ==
  /\ proc[s] = "running"
  /\ proc' = [proc EXCEPT ![s] = "failed"]
  /\ UNCHANGED << hotVars, capVars, feedVars, encoder, finVars, ring, mutex, lost >>

FfmpegExits(s) ==
  /\ proc[s] = "eof"
  /\ \E how \in {"ok", "failed"} : proc' = [proc EXCEPT ![s] = how]
  /\ UNCHANGED << hotVars, capVars, feedVars, encoder, finVars, ring, mutex, lost >>
-----------------------------------------------------------------------------
(* The finish thread of session s, detached by StopRecordingAndEncode *)

FinishTo(s, pc) == fin' = [fin EXCEPT ![s] = pc]

FinishDrained(s) ==
  /\ fin[s] = "drain" /\ RingDrained
  /\ FinishTo(s, "lock")
  /\ UNCHANGED << hotVars, capVars, feedVars, encVars, took, ring, mutex, lost >>

\* FinishStreamingEncode, up to its wait for ffmpeg
FinishCloseStdin(s) ==
  /\ fin[s] = "lock" /\ MutexFree /\ encoder # None
  /\ mutex' = "finish"
  /\ proc' = CloseStdin(proc, encoder)
  /\ took' = [took EXCEPT ![s] = encoder]
  /\ FinishTo(s, "wait")
  /\ UNCHANGED << hotVars, capVars, feedVars, encoder, ring, lost >>

FinishNoEncoder(s) ==
  /\ fin[s] = "lock" /\ MutexFree /\ encoder = None
  /\ FinishTo(s, "done")
  /\ UNCHANGED << hotVars, capVars, feedVars, encVars, took, ring, mutex, lost >>

\* ffmpeg has exited: reset the encoder, unlock, and go on if there is sound
FinishEncoded(s) ==
  /\ fin[s] = "wait" /\ proc[took[s]] \in {"ok", "failed"}
  /\ encoder' = None /\ mutex' = "free"
  /\ \/ FinishTo(s, "done")
     \/ proc[took[s]] = "ok" /\ FinishTo(s, "remux")
  /\ UNCHANGED << hotVars, capVars, feedVars, proc, took, ring, lost >>

\* Whether it succeeds or not
FinishRemux(s) ==
  /\ fin[s] = "remux"
  /\ FinishTo(s, "done")
  /\ UNCHANGED << hotVars, capVars, feedVars, encVars, took, ring, mutex, lost >>
-----------------------------------------------------------------------------
Start == StartClear \/ StartCleared \/ StartEncoder \/ StartEncoderFails \/ StartFlag
Stop == StopFlag \/ StopSpawnFinish
Hotkey == Start \/ Stop

Capture ==
  \/ CapSample \/ CapDeliverIdle \/ CapDeliver \/ CapBackfill \/ CapNothing
  \/ CapPushRefused \/ CapWriteSlot \/ CapStoreHead

Feed == FeedTake \/ FeedStoreTail \/ FeedNoEncoder \/ FeedLock \/ FeedWrite

FinishThread(s) ==
  \/ FinishDrained(s) \/ FinishCloseStdin(s) \/ FinishNoEncoder(s)
  \/ FinishEncoded(s) \/ FinishRemux(s)

Next ==
  \/ Hotkey \/ Capture \/ Feed
  \/ \E s \in Sessions : FfmpegDies(s) \/ FfmpegExits(s) \/ FinishThread(s)

(***************************************************************************)
(* Fairness: the threads are scheduled, but nobody need press F9, so the   *)
(* hotkey thread is fair only inside a command; ffmpeg takes its input or  *)
(* dies (FeedWrite) and exits after end of file.                           *)
(***************************************************************************)
Fairness ==
  /\ WF_vars(Hotkey /\ hot # "ready") /\ WF_vars(Capture) /\ WF_vars(Feed)
  /\ \A s \in Sessions : WF_vars(FfmpegExits(s)) /\ WF_vars(FinishThread(s))

Spec == Init /\ [][Next]_vars /\ Fairness
-----------------------------------------------------------------------------
TypeOK ==
  /\ session \in 0 .. MaxSessions /\ isRecording \in BOOLEAN
  /\ head \in Slots /\ tail \in Slots /\ slots \in [Slots -> {None} \cup Sessions]
  /\ encoder \in {None} \cup Sessions
  /\ mutex \in {"free", "feed", "finish"}
  /\ proc \in [Sessions -> {"none", "running", "eof", "ok", "failed"}]
  /\ sized \in BOOLEAN /\ haveLast \in BOOLEAN
  /\ hot \in {"ready", "clearHead", "clearTail", "encoder", "flag", "spawn"}
  /\ cap \in {"top", "call", "push", "store"}
  /\ capRec \in {None} \cup Sessions /\ capHead \in Slots
  /\ feed \in {"idle", "store", "lock", "write"}
  /\ feedTail \in Slots /\ feedFrame \in {None} \cup Sessions
  /\ fin \in [Sessions -> {"none", "drain", "lock", "wait", "remux", "done"}]
  /\ took \in [Sessions -> {None} \cup Sessions]
  /\ lost \in [Sessions -> 0 .. MaxLost]

(***************************************************************************)
(* The encoder mutex is held exactly by a feed thread that is writing or   *)
(* by one finish thread that waits for ffmpeg, and while it is held        *)
(* encoder_ is not replaced: it is still the encoder being used.           *)
(***************************************************************************)
EncoderPinned ==
  /\ mutex = "feed" <=> feed = "write"
  /\ mutex = "finish" <=> \E s \in Sessions : fin[s] = "wait"
  /\ \A s, t \in Sessions : fin[s] = "wait" /\ fin[t] = "wait" => s = t
  /\ feed = "write" => encoder # None
  /\ \A s \in Sessions : fin[s] = "wait" => encoder = took[s]

\* No ffmpeg is left reading a pipe nobody will close
NoOrphanFfmpeg == \A s \in Sessions : proc[s] = "running" => encoder = s

\* No ffmpeg is waited for, and no video remuxed, by two finish threads
FinishedOnce ==
  \A s, t \in Sessions : s # t /\ took[s] # None => took[s] # took[t]

(***************************************************************************)
(* However the F9s fall, the encoder is not replaced under a thread that   *)
(* uses it, none is left running without an owner, and none is finished    *)
(* twice.                                                                  *)
(***************************************************************************)
EncoderOwned == EncoderPinned /\ NoOrphanFfmpeg /\ FinishedOnce

(***************************************************************************)
(* The sessions keep the promise of encoder_, whatever F9 does: a start is *)
(* counted when it reaches the encoder.                                    *)
(***************************************************************************)
Use == INSTANCE EncoderUse WITH
         user <- mutex,
         started <- IF Clearing \/ hot = "encoder" THEN session - 1 ELSE session
ImplementsEncoderUse == Use!Spec

(***************************************************************************)
(* An encoder is finished by the stop of its own session: the Encoder      *)
(* "lives for the duration of one recording session", whatever the F9s.    *)
(***************************************************************************)
FinishesOwnEncoder == \A s \in Sessions : took[s] \in {None, s}

(***************************************************************************)
(* While the program says it records, encoder_ is this session's encoder:  *)
(* neither a failed start nor the end of an earlier session takes it away. *)
(***************************************************************************)
RecordingHasEncoder == isRecording => encoder = session

(***************************************************************************)
(* Stopping loses at most two of the frames accepted for a session: the    *)
(* one the feed thread holds when the ring runs empty, and the one of a    *)
(* capture iteration that sampled isRecording_ before the stop.  Till the  *)
(* ring runs empty none is lost; then at most two are still to reach the   *)
(* encoder or lost, wherever they are.                                     *)
(***************************************************************************)
InSlots(s) == Cardinality({i \in Slots : slots[i] = s})
Unwritten(s) ==
  lost[s] + InSlots(s) + (IF feedFrame = s THEN 1 ELSE 0)
    + (IF capRec = s /\ cap # "store" THEN 1 ELSE 0)
LosesAtMostTwo ==
  \A s \in Sessions : IF fin[s] \in {"none", "drain"} THEN lost[s] = 0 ELSE Unwritten(s) <= 2

(***************************************************************************)
(* Once the user records no more, every stopped session is finished: the   *)
(* ring drains although isRecording_ is off, and nobody keeps the mutex.   *)
(***************************************************************************)
StoppedIsFinished ==
  <>[]~isRecording => \A s \in Sessions : (fin[s] = "drain") ~> (fin[s] = "done")
=============================================================================
