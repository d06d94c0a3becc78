----------------------- MODULE RecorderSession_proofs -----------------------
(***************************************************************************)
(* What keeps encoder_ sound without one owner: for any number of sessions *)
(* and any F9s, the mutex and the one pass of each finish thread.  For a   *)
(* user who waits, what a stop loses: LossInv counts each session's frames *)
(* that are lost, in a slot, with the feed thread or in an iteration.      *)
(***************************************************************************)
EXTENDS RecorderSession, FiniteSetTheorems, TLAPS

\* A session's finish thread is made once, and not before the stop
Unspawned ==
  /\ hot # "ready" => ~isRecording
  /\ hot # "ready" \/ isRecording => session \in Sessions /\ fin[session] = "none"
  /\ \A s \in Sessions : s > session => fin[s] = "none"

\* An encoder that was finished is not encoder_ any more, and never will be
Fresh ==
  /\ encoder <= session
  /\ \A s \in Sessions : took[s] <= session
  /\ Clearing \/ hot = "encoder" => encoder < session /\ \A s \in Sessions : took[s] < session
  /\ \A s \in Sessions : fin[s] \in {"none", "drain", "lock"} => took[s] = None
  /\ \A s \in Sessions : took[s] # None /\ fin[s] # "wait" => took[s] # encoder

SessionInv == TypeOK /\ EncoderOwned /\ Unspawned /\ Fresh

\* With a user who waits, nothing is being finished while a session goes on
PatientInv ==
  Patient =>
    /\ hot # "ready" \/ isRecording => AllFinished
    /\ hot = "flag" \/ isRecording => encoder = session

LEMMA Numbers == Sessions \subseteq Nat \ {0} /\ None \notin Sessions /\ None = 0
BY BoundsAssumption DEF BoundsAssumption, Sessions, None

LEMMA SessionNumbers ==
  ASSUME TypeOK
  PROVE session \in Nat /\ encoder \in Nat /\ \A s \in Sessions : took[s] \in Nat
<1>1. session \in Nat
  BY BoundsAssumption DEF BoundsAssumption, TypeOK
<1>2. encoder \in Nat
  BY Numbers DEF TypeOK
<1>3. took \in [Sessions -> {None} \cup Sessions] /\ {None} \cup Sessions \subseteq Nat
  BY Numbers DEF TypeOK
<1> QED  BY <1>1, <1>2, <1>3

LEMMA SlotNumbers ==
  /\ 0 \in Slots /\ Slots \subseteq Nat
  /\ \A i \in Slots : Succ(i) \in Slots /\ Succ(i) = IF i + 1 = Capacity THEN 0 ELSE i + 1
BY BoundsAssumption DEF BoundsAssumption, Slots, Succ

LEMMA LoseType == ASSUME TypeOK, NEW f PROVE Lose(f) \in [Sessions -> 0 .. MaxLost]
<1>1. ASSUME NEW n \in 0 .. MaxLost PROVE (IF n < MaxLost THEN n + 1 ELSE n) \in 0 .. MaxLost
  BY <1>1, BoundsAssumption DEF BoundsAssumption
<1> QED  BY <1>1 DEF TypeOK, Lose

THEOREM SessionInit == Init => SessionInv /\ PatientInv
<1>1. SUFFICES ASSUME Init PROVE SessionInv /\ PatientInv
  OBVIOUS
<1>2. TypeOK
  <2>1. session \in 0 .. MaxSessions /\ lost \in [Sessions -> 0 .. MaxLost]
    BY <1>1, BoundsAssumption DEF Init, BoundsAssumption
  <2>2. 0 \in Slots
    BY SlotNumbers
  <2> QED  BY <1>1, <2>1, <2>2 DEF Init, TypeOK
<1>3. EncoderOwned
  BY <1>1 DEF Init, EncoderOwned, EncoderPinned, NoOrphanFfmpeg, FinishedOnce
<1>4. Unspawned /\ Fresh /\ PatientInv
  BY <1>1, Numbers DEF Init, Unspawned, Fresh, Clearing, PatientInv
<1> QED  BY <1>2, <1>3, <1>4 DEF SessionInv
-----------------------------------------------------------------------------
(* Type correctness, thread by thread *)

LEMMA HotkeyType == ASSUME SessionInv, Hotkey PROVE TypeOK'
<1> USE Numbers, BoundsAssumption
    DEF hotVars, capVars, feedVars, encVars, finVars, ring, Clearing, BoundsAssumption, SessionInv
<1>1. CASE StartClear \/ StartCleared
  <2>1. session' \in 0 .. MaxSessions
    BY <1>1 DEF StartClear, StartCleared, TypeOK
  <2>2. head' \in Slots /\ tail' \in Slots
    BY <1>1, SlotNumbers DEF StartClear, StartCleared, TypeOK
  <2> QED  BY <1>1, <2>1, <2>2 DEF StartClear, StartCleared, TypeOK
<1>2. CASE StartEncoder
  <2>1. encoder' \in Sessions
    BY <1>2 DEF StartEncoder, Unspawned
  <2>2. proc' \in [Sessions -> {"none", "running", "eof", "ok", "failed"}]
    BY <1>2 DEF StartEncoder, CloseStdin, TypeOK
  <2> QED  BY <1>2, <2>1, <2>2 DEF StartEncoder, TypeOK
<1>3. CASE StartEncoderFails
  <2>1. proc' \in [Sessions -> {"none", "running", "eof", "ok", "failed"}]
    BY <1>3 DEF StartEncoderFails, CloseStdin, TypeOK
  <2> QED  BY <1>3, <2>1 DEF StartEncoderFails, TypeOK
<1>4. CASE StartFlag \/ StopFlag
  BY <1>4 DEF StartFlag, StopFlag, TypeOK
<1>5. CASE StopSpawnFinish
  <2>1. fin' \in [Sessions -> {"none", "drain", "lock", "wait", "remux", "done"}]
    BY <1>5 DEF StopSpawnFinish, TypeOK
  <2>2. hot' = "ready" /\ UNCHANGED << session, isRecording, capVars, feedVars, encVars, took,
                                      ring, mutex, lost >>
    BY <1>5 DEF StopSpawnFinish
  <2> QED  BY <2>1, <2>2 DEF TypeOK
<1> QED  BY <1>1, <1>2, <1>3, <1>4, <1>5 DEF Hotkey, Start, Stop

LEMMA CaptureType == ASSUME SessionInv, Capture PROVE TypeOK'
<1> USE DEF SessionInv
<1>1. UNCHANGED << hotVars, feedVars, encVars, finVars, mutex, tail >>
  BY DEF Capture, CapSample, CapDeliverIdle, CapDeliver, CapBackfill, CapNothing,
         CapPushRefused, CapWriteSlot, CapStoreHead, ring
<1>2. /\ cap' \in {"top", "call", "push", "store"} /\ capRec' \in {None} \cup Sessions
      /\ sized' \in BOOLEAN /\ haveLast' \in BOOLEAN
  BY DEF Capture, CapSample, CapDeliverIdle, CapDeliver, CapBackfill, CapNothing,
         CapPushRefused, CapWriteSlot, CapStoreHead, IterationEnds, TypeOK, Unspawned
<1>3. head' \in Slots /\ capHead' \in Slots /\ slots' \in [Slots -> {None} \cup Sessions]
  BY SlotNumbers
  DEF Capture, CapSample, CapDeliverIdle, CapDeliver, CapBackfill, CapNothing, CapPushRefused,
      CapWriteSlot, CapStoreHead, TypeOK, ring
<1>4. lost' \in [Sessions -> 0 .. MaxLost]
  <2>1. lost' = lost \/ lost' = Lose(slots[head])
    BY DEF Capture, CapSample, CapDeliverIdle, CapDeliver, CapBackfill, CapNothing,
           CapPushRefused, CapWriteSlot, CapStoreHead
  <2> QED  BY <2>1, LoseType DEF TypeOK
<1> QED
  BY <1>1, <1>2, <1>3, <1>4 DEF TypeOK, hotVars, feedVars, encVars, finVars

LEMMA FeedType == ASSUME SessionInv, Feed PROVE TypeOK'
<1> USE Numbers DEF hotVars, capVars, feedVars, encVars, finVars, ring, Clearing, SessionInv
<1>1. CASE FeedTake \/ FeedStoreTail
  BY <1>1, SlotNumbers DEF FeedTake, FeedStoreTail, TypeOK
<1>2. CASE FeedNoEncoder
  <2>1. lost' \in [Sessions -> 0 .. MaxLost]
    BY <1>2, LoseType DEF FeedNoEncoder
  <2> QED  BY <1>2, <2>1 DEF FeedNoEncoder, TypeOK
<1>3. CASE FeedLock \/ FeedWrite
  BY <1>3 DEF FeedLock, FeedWrite, TypeOK
<1> QED  BY <1>1, <1>2, <1>3 DEF Feed

LEMMA OthersType ==
  ASSUME SessionInv, NEW s \in Sessions, FfmpegDies(s) \/ FfmpegExits(s) \/ FinishThread(s)
  PROVE TypeOK'
<1> USE Numbers DEF hotVars, capVars, feedVars, encVars, finVars, ring, Clearing, SessionInv
<1>1. CASE FfmpegDies(s) \/ FfmpegExits(s)
  BY <1>1 DEF FfmpegDies, FfmpegExits, TypeOK
<1>2. CASE FinishCloseStdin(s)
  <2>1. proc' \in [Sessions -> {"none", "running", "eof", "ok", "failed"}]
    BY <1>2 DEF FinishCloseStdin, CloseStdin, TypeOK
  <2>2. /\ mutex' = "finish" /\ took' = [took EXCEPT ![s] = encoder]
        /\ fin' = [fin EXCEPT ![s] = "wait"]
        /\ UNCHANGED << hotVars, capVars, feedVars, encoder, ring, lost >>
    BY <1>2 DEF FinishCloseStdin, FinishTo
  <2> QED  BY <2>1, <2>2 DEF TypeOK
<1>3. CASE FinishDrained(s) \/ FinishNoEncoder(s) \/ FinishRemux(s)
  BY <1>3 DEF FinishDrained, FinishNoEncoder, FinishRemux, FinishTo, TypeOK
<1>4. CASE FinishEncoded(s)
  BY <1>4 DEF FinishEncoded, FinishTo, TypeOK
<1> QED  BY <1>1, <1>2, <1>3, <1>4 DEF FinishThread
-----------------------------------------------------------------------------
(* The encoder *)

LEMMA HotkeyOwns == ASSUME SessionInv, Hotkey PROVE EncoderOwned' /\ Unspawned' /\ Fresh'
<1> USE Numbers DEF hotVars, feedVars, encVars, finVars, ring, Clearing, SessionInv
<1>0. session \in Nat /\ encoder \in Nat /\ \A s \in Sessions : took[s] \in Nat
  BY SessionNumbers
<1>1. CASE StartClear
  <2>1. session' = session + 1 /\ session' \in Sessions
    BY <1>0, <1>1, BoundsAssumption DEF StartClear, Sessions, BoundsAssumption
  <2>2. UNCHANGED << isRecording, encoder, proc, fin, took, mutex, feed >> /\ ~isRecording
        /\ hot' # "ready"
    BY <1>1 DEF StartClear
  <2>3. EncoderOwned'
    BY <2>2 DEF EncoderOwned, EncoderPinned, NoOrphanFfmpeg, FinishedOnce
  <2>4. Unspawned'
    BY <1>0, <2>1, <2>2 DEF Unspawned
  <2>5. Fresh'
    BY <1>0, <2>1, <2>2 DEF Fresh
  <2> QED  BY <2>3, <2>4, <2>5
<1>5. CASE StartCleared
  <2>1. UNCHANGED << session, isRecording, encoder, proc, fin, took, mutex, feed >>
        /\ Clearing /\ hot' = "encoder"
    BY <1>5 DEF StartCleared, Clearing
  <2>2. Unspawned' /\ Fresh'
    BY <2>1 DEF Unspawned, Fresh, Clearing
  <2> QED  BY <2>1, <2>2 DEF EncoderOwned, EncoderPinned, NoOrphanFfmpeg, FinishedOnce
<1>2. CASE StartEncoder \/ StartEncoderFails
  <2>1. /\ UNCHANGED << session, isRecording, fin, took, mutex, feed >>
        /\ hot = "encoder" /\ mutex = "free" /\ hot' \in {"flag", "ready"} /\ ~isRecording
        /\ encoder' \in {session, None}
    BY <1>2 DEF StartEncoder, StartEncoderFails, MutexFree, Unspawned
  <2>2. (\A s \in Sessions : fin[s] # "wait") /\ feed # "write"
    BY <2>1 DEF EncoderOwned, EncoderPinned
  <2>3. EncoderPinned' /\ FinishedOnce'
    BY <2>1, <2>2 DEF EncoderOwned, EncoderPinned, FinishedOnce
  <2>4. NoOrphanFfmpeg'
    <3>1. SUFFICES ASSUME NEW s \in Sessions, proc'[s] = "running" PROVE encoder' = s
      BY DEF NoOrphanFfmpeg
    <3>2. CloseStdin(proc, encoder)[s] # "running"
      BY DEF CloseStdin, EncoderOwned, NoOrphanFfmpeg
    <3> QED  BY <1>2, <3>1, <3>2 DEF StartEncoder, StartEncoderFails, CloseStdin
  <2>5. Unspawned'
    BY <2>1 DEF Unspawned
  <2>6. Fresh'
    BY <1>0, <2>1, <2>2 DEF Fresh
  <2> QED  BY <2>3, <2>4, <2>5, <2>6 DEF EncoderOwned
<1>3. CASE StartFlag \/ StopFlag
  <2>1. /\ UNCHANGED << session, encoder, proc, fin, took, mutex, feed >>
        /\ \/ hot' = "ready" /\ hot = "flag"
           \/ hot' = "spawn" /\ isRecording' = FALSE /\ isRecording
    BY <1>3 DEF StartFlag, StopFlag
  <2> QED  BY <2>1 DEF EncoderOwned, EncoderPinned, NoOrphanFfmpeg, FinishedOnce, Unspawned, Fresh
<1>4. CASE StopSpawnFinish
  <2>1. /\ UNCHANGED << session, isRecording, encoder, proc, took, mutex, feed >>
        /\ hot = "spawn" /\ hot' = "ready" /\ ~isRecording
        /\ session \in Sessions /\ fin[session] = "none"
        /\ fin' = [fin EXCEPT ![session] = "drain"]
    BY <1>4 DEF StopSpawnFinish, Unspawned
  <2>2. /\ fin'[session] = "drain"
        /\ \A s \in Sessions : s # session => fin'[s] = fin[s]
    BY <2>1 DEF TypeOK
  <2>3. EncoderOwned'
    BY <2>1, <2>2 DEF EncoderOwned, EncoderPinned, NoOrphanFfmpeg, FinishedOnce
  <2>4. Unspawned'
    BY <1>0, <2>1, <2>2 DEF Unspawned
  <2>5. Fresh'
    BY <1>0, <2>1, <2>2 DEF Fresh
  <2> QED  BY <2>3, <2>4, <2>5
<1> QED  BY <1>1, <1>2, <1>3, <1>4, <1>5 DEF Hotkey, Start, Stop

LEMMA LoopsOwn == ASSUME SessionInv, Capture \/ Feed PROVE EncoderOwned' /\ Unspawned' /\ Fresh'
<1> USE Numbers DEF hotVars, capVars, feedVars, encVars, finVars, ring, Clearing, SessionInv
<1>1. UNCHANGED << hotVars, encVars, finVars >>
  BY DEF Capture, CapSample, CapDeliverIdle, CapDeliver, CapBackfill, CapNothing,
         CapPushRefused, CapWriteSlot, CapStoreHead, Feed, FeedTake, FeedStoreTail,
         FeedNoEncoder, FeedLock, FeedWrite
<1>2. \/ mutex' = mutex /\ (feed' = feed \/ (feed # "write" /\ feed' # "write"))
      \/ mutex = "free" /\ encoder # None /\ mutex' = "feed" /\ feed' = "write"
      \/ feed = "write" /\ mutex' = "free" /\ feed' = "idle"
  <2>1. CASE Capture
    BY <2>1 DEF Capture, CapSample, CapDeliverIdle, CapDeliver, CapBackfill, CapNothing,
         CapPushRefused, CapWriteSlot, CapStoreHead
  <2>2. CASE Feed
    BY <2>2 DEF Feed, FeedTake, FeedStoreTail, FeedNoEncoder, FeedLock, FeedWrite, MutexFree
  <2> QED  BY <2>1, <2>2
<1>3. EncoderPinned'
  BY <1>1, <1>2 DEF EncoderOwned, EncoderPinned
<1> QED  BY <1>1, <1>3 DEF EncoderOwned, NoOrphanFfmpeg, FinishedOnce, Unspawned, Fresh

LEMMA FfmpegOwns ==
  ASSUME SessionInv, NEW s \in Sessions, FfmpegDies(s) \/ FfmpegExits(s)
  PROVE EncoderOwned' /\ Unspawned' /\ Fresh'
<1>1. UNCHANGED << hotVars, encoder, finVars, mutex, feed >>
  BY DEF FfmpegDies, FfmpegExits, feedVars
<1>2. \A t \in Sessions : proc'[t] = "running" => proc[t] = "running"
  BY DEF FfmpegDies, FfmpegExits, SessionInv, TypeOK
<1> QED
  BY <1>1, <1>2 DEF SessionInv, EncoderOwned, EncoderPinned, NoOrphanFfmpeg, FinishedOnce,
                    Unspawned, Fresh, Clearing, hotVars, finVars

LEMMA FinishOwns ==
  ASSUME SessionInv, NEW s \in Sessions, FinishThread(s)
  PROVE EncoderOwned' /\ Unspawned' /\ Fresh'
<1> USE Numbers DEF hotVars, feedVars, encVars, finVars, ring, Clearing, SessionInv
<1>0. session \in Nat /\ encoder \in Nat /\ \A r \in Sessions : took[r] \in Nat
  BY SessionNumbers
<1>1. /\ UNCHANGED << session, isRecording, hot, feed >>
      /\ fin[s] \in {"drain", "lock", "wait", "remux"}
      /\ fin'[s] \in {"lock", "wait", "remux", "done"}
      /\ \A r \in Sessions : r # s => fin'[r] = fin[r]
  BY DEF FinishThread, FinishDrained, FinishCloseStdin, FinishNoEncoder, FinishEncoded,
         FinishRemux, FinishTo, TypeOK
<1>2. Unspawned'
  BY <1>1 DEF Unspawned
<1>3. CASE FinishDrained(s) \/ FinishNoEncoder(s) \/ FinishRemux(s)
  <2>1. /\ UNCHANGED << encoder, proc, took, mutex >>
        /\ \/ fin[s] = "drain" /\ fin'[s] = "lock"
           \/ fin[s] \in {"lock", "remux"} /\ fin'[s] = "done"
    BY <1>3 DEF FinishDrained, FinishNoEncoder, FinishRemux, FinishTo, TypeOK
  <2>2. EncoderOwned'
    BY <1>1, <2>1 DEF EncoderOwned, EncoderPinned, NoOrphanFfmpeg, FinishedOnce
  <2>3. Fresh'
    BY <1>1, <2>1 DEF Fresh
  <2> QED  BY <1>2, <2>2, <2>3
<1>4. CASE FinishCloseStdin(s)
  <2>1. /\ fin[s] = "lock" /\ mutex = "free" /\ encoder # None /\ mutex' = "finish"
        /\ encoder' = encoder /\ fin'[s] = "wait" /\ took'[s] = encoder
        /\ \A r \in Sessions : r # s => took'[r] = took[r]
    BY <1>4 DEF FinishCloseStdin, FinishTo, MutexFree, TypeOK
  <2>2. (\A r \in Sessions : fin[r] # "wait") /\ feed # "write"
    BY <2>1 DEF EncoderOwned, EncoderPinned
  <2>3. EncoderPinned'
    BY <1>1, <2>1, <2>2 DEF EncoderPinned
  <2>4. \A r \in Sessions : took[r] # None => took[r] # encoder
    BY <2>2 DEF Fresh
  <2>5. FinishedOnce'
    <3>1. SUFFICES ASSUME NEW r \in Sessions, NEW t \in Sessions, r # t, took'[r] # None
                   PROVE took'[r] # took'[t]
      BY DEF FinishedOnce
    <3>2. CASE r = s
      BY <2>1, <2>4, <3>1, <3>2
    <3>3. CASE t = s
      BY <2>1, <2>4, <3>1, <3>3
    <3>4. CASE r # s /\ t # s
      BY <2>1, <3>1, <3>4 DEF EncoderOwned, FinishedOnce
    <3> QED  BY <3>2, <3>3, <3>4
  <2>6. NoOrphanFfmpeg'
    BY <1>4, <2>1 DEF FinishCloseStdin, CloseStdin, EncoderOwned, NoOrphanFfmpeg
  <2>7. Fresh'
    <3>1. hot = "encoder" => encoder < session
      BY DEF Fresh
    <3> QED  BY <1>0, <1>1, <2>1, <2>2, <3>1 DEF Fresh
  <2> QED  BY <1>2, <2>3, <2>5, <2>6, <2>7 DEF EncoderOwned
<1>5. CASE FinishEncoded(s)
  <2>1. /\ fin[s] = "wait" /\ mutex' = "free" /\ encoder' = None
        /\ UNCHANGED << proc, took >> /\ fin'[s] # "wait" /\ fin'[s] \notin {"drain", "lock"}
        /\ proc[took[s]] \in {"ok", "failed"}
    BY <1>5 DEF FinishEncoded, FinishTo, TypeOK
  <2>2. mutex = "finish" /\ encoder = took[s] /\ \A r \in Sessions : fin[r] = "wait" => r = s
    BY <2>1 DEF EncoderOwned, EncoderPinned
  <2>3. feed # "write"
    BY <2>2 DEF EncoderOwned, EncoderPinned
  <2>4. EncoderPinned'
    BY <1>1, <2>1, <2>2, <2>3 DEF EncoderPinned
  <2>5. NoOrphanFfmpeg' /\ FinishedOnce'
    BY <2>1, <2>2 DEF EncoderOwned, NoOrphanFfmpeg, FinishedOnce
  <2>6. Fresh'
    BY <1>0, <1>1, <2>1 DEF Fresh
  <2> QED  BY <1>2, <2>4, <2>5, <2>6 DEF EncoderOwned
<1> QED  BY <1>3, <1>4, <1>5 DEF FinishThread
-----------------------------------------------------------------------------
THEOREM SessionNext == SessionInv /\ [Next]_vars => SessionInv'
<1>1. SUFFICES ASSUME SessionInv, [Next]_vars PROVE SessionInv'
  OBVIOUS
<1>2. CASE UNCHANGED vars
  BY <1>1, <1>2
  DEF vars, hotVars, capVars, feedVars, encVars, finVars, SessionInv, TypeOK, EncoderOwned,
      EncoderPinned, NoOrphanFfmpeg, FinishedOnce, Unspawned, Fresh, Clearing, ring
<1>3. CASE Hotkey
  BY <1>1, <1>3, HotkeyType, HotkeyOwns DEF SessionInv
<1>4. CASE Capture
  BY <1>1, <1>4, CaptureType, LoopsOwn DEF SessionInv
<1>5. CASE Feed
  BY <1>1, <1>5, FeedType, LoopsOwn DEF SessionInv
<1>6. CASE \E s \in Sessions : FfmpegDies(s) \/ FfmpegExits(s) \/ FinishThread(s)
  BY <1>1, <1>6, OthersType, FfmpegOwns, FinishOwns DEF SessionInv
<1> QED  BY <1>1, <1>2, <1>3, <1>4, <1>5, <1>6 DEF Next

(***************************************************************************)
(* In every reachable state the encoder is pinned while it is used, has    *)
(* one owner and is finished once, for any number of sessions.             *)
(***************************************************************************)
THEOREM SessionInvariant == Spec => []SessionInv
<1>1. Init => SessionInv
  BY SessionInit
<1> QED  BY <1>1, SessionNext, PTL DEF Spec

\* Every variable of the session model keeps its type, for all bounds
THEOREM SessionTypeOK == Spec => []TypeOK
<1>1. SessionInv => TypeOK
  BY DEF SessionInv
<1> QED  BY <1>1, SessionInvariant, PTL

(***************************************************************************)
(* encoderMutex_ does what Recorder.h:114 has it for: no thread has the    *)
(* encoder taken away, and no ffmpeg is orphaned or finished twice.        *)
(***************************************************************************)
THEOREM AlwaysOwned == Spec => []EncoderOwned
<1>1. SessionInv => EncoderOwned
  BY DEF SessionInv
<1> QED  BY <1>1, SessionInvariant, PTL
-----------------------------------------------------------------------------
(* A patient user *)

LEMMA PatientNext == SessionInv /\ PatientInv /\ [Next]_vars => PatientInv'
<1>1. SUFFICES ASSUME SessionInv, PatientInv, [Next]_vars, Patient PROVE PatientInv'
  BY DEF PatientInv
<1> DEFINE Busy == hot # "ready" \/ isRecording
<1>2. CASE Hotkey
  <2>1. CASE StartClear \/ StartCleared
    <3>1. AllFinished /\ ~isRecording /\ UNCHANGED << isRecording, fin >>
      BY <1>1, <2>1 DEF StartClear, StartCleared, PatientInv, SessionInv, Unspawned, finVars
    <3>2. hot' # "flag"
      BY <2>1 DEF StartClear, StartCleared
    <3> QED  BY <3>1, <3>2 DEF PatientInv, AllFinished
  <2>2. CASE StartEncoder \/ StartEncoderFails
    BY <1>1, <2>2 DEF StartEncoder, StartEncoderFails, PatientInv, AllFinished, finVars,
                      SessionInv, Unspawned
  <2>3. CASE StartFlag \/ StopFlag
    BY <1>1, <2>3 DEF StartFlag, StopFlag, PatientInv, AllFinished, finVars, encVars
  <2>4. CASE StopSpawnFinish
    BY <1>1, <2>4 DEF StopSpawnFinish, PatientInv, SessionInv, Unspawned
  <2> QED  BY <1>2, <2>1, <2>2, <2>3, <2>4 DEF Hotkey, Start, Stop
<1>3. CASE Capture \/ Feed \/ \E s \in Sessions : FfmpegDies(s) \/ FfmpegExits(s)
  <2>1. UNCHANGED << hotVars, encoder, fin >>
    BY <1>3 DEF Capture, CapSample, CapDeliverIdle, CapDeliver, CapBackfill, CapNothing,
         CapPushRefused, CapWriteSlot, CapStoreHead, Feed, FeedTake, FeedStoreTail,
         FeedNoEncoder, FeedLock, FeedWrite,
                FfmpegDies, FfmpegExits, encVars, finVars
  <2> QED  BY <1>1, <2>1 DEF PatientInv, AllFinished, hotVars
<1>4. CASE \E s \in Sessions : FinishThread(s)
  <2>1. PICK s \in Sessions : FinishThread(s)
    BY <1>4
  <2>2. ~AllFinished /\ UNCHANGED hotVars
    BY <2>1 DEF FinishThread, FinishDrained, FinishCloseStdin, FinishNoEncoder, FinishEncoded,
                FinishRemux, AllFinished
  <2> QED  BY <1>1, <2>2 DEF PatientInv, hotVars
<1>5. CASE UNCHANGED vars
  BY <1>1, <1>5 DEF vars, hotVars, encVars, finVars, PatientInv, AllFinished
<1> QED  BY <1>1, <1>2, <1>3, <1>4, <1>5 DEF Next

(***************************************************************************)
(* A user who waits until the last video is finished never records without *)
(* this session's encoder, whatever fails (StartRecording returns early    *)
(* when ffmpeg cannot be started).                                         *)
(***************************************************************************)
THEOREM PatientHasEncoder == ASSUME Patient PROVE Spec => []RecordingHasEncoder
<1>1. Init => SessionInv /\ PatientInv
  BY SessionInit
<1>2. (SessionInv /\ PatientInv) /\ [Next]_vars => (SessionInv /\ PatientInv)'
  BY SessionNext, PatientNext
<1>3. PatientInv => RecordingHasEncoder
  BY DEF PatientInv, RecordingHasEncoder
<1> QED  BY <1>1, <1>2, <1>3, PTL DEF Spec
-----------------------------------------------------------------------------
(* What stopping loses *)

\* Storing a frame in a slot counts the new one, and the old one no more
Holding(f, s) == Cardinality({j \in Slots : f[j] = s})

AgreeBut(f, g, i) == \A j \in Slots \ {i} : g[j] = f[j]
Exchanged(f, g, i, s) ==
  /\ Holding(f, s) \in Nat /\ Holding(g, s) \in Nat
  /\ Holding(g, s) + (IF f[i] = s THEN 1 ELSE 0) = Holding(f, s) + (IF g[i] = s THEN 1 ELSE 0)

LEMMA CountStore ==
  ASSUME NEW f, NEW g, NEW i \in Slots, AgreeBut(f, g, i), NEW s
  PROVE  Exchanged(f, g, i, s)
<1> DEFINE A == {j \in Slots : f[j] = s}
           B == {j \in Slots : g[j] = s}
           C == {j \in Slots \ {i} : f[j] = s}
<1>1. IsFiniteSet(Slots)
  BY BoundsAssumption, FS_Interval DEF BoundsAssumption, Slots
<1>2. IsFiniteSet(C) /\ Cardinality(C) \in Nat
  <2>1. C \subseteq Slots
    OBVIOUS
  <2> QED  BY <1>1, <2>1, FS_Subset, FS_CardinalityType
<1>3. i \notin C
  OBVIOUS
<1>4. Cardinality(C \cup {i}) = Cardinality(C) + 1
  BY <1>2, <1>3, FS_AddElement
<1>5. A = IF f[i] = s THEN C \cup {i} ELSE C
  OBVIOUS
<1>6. B = IF g[i] = s THEN C \cup {i} ELSE C
  BY DEF AgreeBut
<1>7. Holding(f, s) = Cardinality(A) /\ Holding(g, s) = Cardinality(B)
  BY DEF Holding
<1> HIDE DEF A, B, C
<1> QED  BY <1>2, <1>4, <1>5, <1>6, <1>7 DEF Exchanged

LEMMA SlotsCount ==
  \A i \in Slots, x \in {None} \cup Sessions, s \in Sessions :
    slots \in [Slots -> {None} \cup Sessions] /\ slots' = [slots EXCEPT ![i] = x]
      => /\ InSlots(s)' \in Nat
         /\ InSlots(s)' + (IF slots[i] = s THEN 1 ELSE 0)
              = InSlots(s) + (IF x = s THEN 1 ELSE 0)
<1>1. SUFFICES ASSUME NEW i \in Slots, NEW x \in {None} \cup Sessions, NEW s \in Sessions,
                      slots \in [Slots -> {None} \cup Sessions],
                      slots' = [slots EXCEPT ![i] = x]
               PROVE  /\ InSlots(s)' \in Nat
                      /\ InSlots(s)' + (IF slots[i] = s THEN 1 ELSE 0)
                           = InSlots(s) + (IF x = s THEN 1 ELSE 0)
  OBVIOUS
<1>2. InSlots(s) = Holding(slots, s) /\ InSlots(s)' = Holding(slots', s)
  BY DEF InSlots, Holding
<1>3. /\ Holding(slots', s) \in Nat
      /\ Holding(slots', s) + (IF slots[i] = s THEN 1 ELSE 0)
           = Holding(slots, s) + (IF x = s THEN 1 ELSE 0)
  <2>1. slots'[i] = x /\ AgreeBut(slots, slots', i)
    BY <1>1 DEF AgreeBut
  <2>2. Exchanged(slots, slots', i, s)
    BY <2>1, CountStore, Zenon
  <2> QED  BY <2>1, <2>2 DEF Exchanged
<1> QED  BY <1>2, <1>3

LEMMA InSlotsIsNat == ASSUME NEW s \in Sessions PROVE InSlots(s) \in Nat
<1>1. IsFiniteSet(Slots)
  BY BoundsAssumption, FS_Interval DEF BoundsAssumption, Slots
<1>2. IsFiniteSet({i \in Slots : slots[i] = s})
  BY <1>1, FS_Subset
<1> QED  BY <1>2, FS_CardinalityType DEF InSlots

\* The slots from the tail up to the head are the ring's
Between(t, h, i) == IF t <= h THEN t <= i /\ i < h ELSE t <= i \/ i < h

LEMMA NothingBetween == ASSUME NEW t \in Slots, NEW i \in Slots PROVE ~Between(t, t, i)
BY SlotNumbers DEF Between

\* A push adds the slot at the head, and a pop leaves only the one at the tail
LEMMA HeadMoves ==
  ASSUME NEW t \in Slots, NEW h \in Slots, NEW i \in Slots,
         Succ(h) # t, Between(t, h, i) \/ i = h
  PROVE  Between(t, Succ(h), i)
<1>1. Succ(h) = IF h + 1 = Capacity THEN 0 ELSE h + 1
  BY SlotNumbers
<1> QED  BY <1>1, BoundsAssumption DEF BoundsAssumption, Slots, Between

LEMMA TailMoves ==
  ASSUME NEW t \in Slots, NEW h \in Slots, NEW i \in Slots,
         t # h, i # t, Between(t, h, i)
  PROVE  Between(Succ(t), h, i)
<1>1. Succ(t) = IF t + 1 = Capacity THEN 0 ELSE t + 1
  BY SlotNumbers
<1> QED  BY <1>1, BoundsAssumption DEF BoundsAssumption, Slots, Between

LEMMA SuccInjective ==
  ASSUME NEW i \in Slots, NEW j \in Slots, Succ(i) = Succ(j) PROVE i = j
<1>1. i \in Nat /\ j \in Nat /\ i < Capacity /\ j < Capacity
  BY BoundsAssumption DEF BoundsAssumption, Slots
<1>2. (IF i + 1 = Capacity THEN 0 ELSE i + 1) = (IF j + 1 = Capacity THEN 0 ELSE j + 1)
  BY SlotNumbers
<1> QED  BY <1>1, <1>2, BoundsAssumption DEF BoundsAssumption

\* A push or a pop under way whose cursors no Clear has moved
CalmInv ==
  /\ cap = "store" => capHead = head /\ Succ(head) # tail /\ ~Clearing
  /\ feed = "store" => feedTail = tail /\ head # tail /\ slots[tail] = None /\ ~Clearing

LEMMA CalmNext == ASSUME CalmClear, TypeOK, CalmInv, [Next]_vars PROVE CalmInv'
<1> USE DEF hotVars, capVars, feedVars, ring
<1>0. /\ head \in Slots /\ tail \in Slots /\ slots \in [Slots -> {None} \cup Sessions]
      /\ Succ(head) # head
  <2>1. head \in Slots /\ tail \in Slots /\ slots \in [Slots -> {None} \cup Sessions]
    BY DEF TypeOK
  <2> QED  BY <2>1, SlotNumbers, BoundsAssumption DEF BoundsAssumption, Slots
<1>1. CASE StartClear
  BY <1>1 DEF StartClear, CalmInv
<1>2. CASE StartCleared
  <2>1. /\ Clearing /\ UNCHANGED << cap, feed >>
    BY <1>2 DEF StartCleared, Clearing
  <2> QED  BY <2>1 DEF CalmInv
<1>3. CASE CapWriteSlot
  BY <1>0, <1>3 DEF CapWriteSlot, CalmInv, RoomInRing, Clearing
<1>4. CASE CapStoreHead
  BY <1>0, <1>4 DEF CapStoreHead, IterationEnds, CalmInv, Clearing
<1>5. CASE FeedTake
  BY <1>0, <1>5 DEF FeedTake, CalmInv, Clearing
<1>6. CASE FeedStoreTail
  <2>1. cap = "store" => Succ(tail) # Succ(head)
    BY <1>0, <1>6, SuccInjective DEF FeedStoreTail, CalmInv
  <2> QED  BY <1>0, <1>6, <2>1 DEF FeedStoreTail, CalmInv, Clearing
<1>7. CASE \/ StartEncoder \/ StartEncoderFails \/ StartFlag \/ Stop
           \/ CapSample \/ CapDeliverIdle \/ CapDeliver \/ CapBackfill \/ CapNothing
           \/ CapPushRefused \/ FeedNoEncoder \/ FeedLock \/ FeedWrite
           \/ UNCHANGED vars
           \/ \E s \in Sessions : FfmpegDies(s) \/ FfmpegExits(s) \/ FinishThread(s)
  <2>1. /\ UNCHANGED << head, tail, slots >>
        /\ cap' = "store" => cap = "store" /\ capHead' = capHead
        /\ feed' = "store" => feed = "store" /\ feedTail' = feedTail
        /\ Clearing' => Clearing
    BY <1>7
    DEF vars, StartEncoder, StartEncoderFails, StartFlag, Stop, StopFlag, StopSpawnFinish,
        CapSample, CapDeliverIdle, CapDeliver, CapBackfill, CapNothing, CapPushRefused,
        IterationEnds, FeedNoEncoder, FeedLock, FeedWrite, FfmpegDies, FfmpegExits,
        FinishThread, FinishDrained, FinishCloseStdin, FinishNoEncoder, FinishEncoded,
        FinishRemux, Clearing
  <2> QED  BY <2>1 DEF CalmInv
<1> QED
  BY <1>1, <1>2, <1>3, <1>4, <1>5, <1>6, <1>7 DEF Next, Hotkey, Start, Capture, Feed

\* A frame is of a session that was stopped, or of the one that goes on
Belongs(f) ==
  \/ f = None \/ fin[f] # "none"
  \/ f = session /\ (isRecording \/ hot = "spawn")

\* With a user who waits, a session keeps its encoder until the finish thread
\* is through with it, and loses nothing before: its frames are between the
\* cursors.  When the ring has run empty, what is left is with the feed thread
\* and in the capture iteration
Drained(s) == fin[s] \notin {"none", "drain"}

LossInv ==
  /\ hot = "spawn" => encoder = session
  /\ \A s \in Sessions : fin[s] \in {"drain", "lock", "wait"} => encoder = s
  /\ Belongs(feedFrame) /\ Belongs(capRec) /\ \A i \in Slots : Belongs(slots[i])
  /\ \A s \in Sessions, i \in Slots :
       ~Drained(s) /\ slots[i] = s => Between(tail, head, i) \/ (cap = "store" /\ i = head)
  /\ \A s \in Sessions : ~Drained(s) => lost[s] = 0
  /\ \A s \in Sessions : Drained(s) => Unwritten(s) <= 2

LEMMA LoseOne ==
  ASSUME TypeOK, NEW f, NEW s \in Sessions
  PROVE  /\ lost[s] \in Nat /\ Lose(f)[s] \in Nat
         /\ Lose(f)[s] <= lost[s] + (IF f = s THEN 1 ELSE 0)
         /\ f # s => Lose(f)[s] = lost[s]
<1>1. lost[s] \in Nat /\ lost[s] \in 0 .. MaxLost
  BY BoundsAssumption DEF BoundsAssumption, TypeOK
<1> QED  BY <1>1 DEF Lose

\* What the loops leave alone
LEMMA LoopsKeep ==
  ASSUME Capture \/ Feed
  PROVE  UNCHANGED << session, isRecording, hot, encoder, fin >>
BY DEF Capture, CapSample, CapDeliverIdle, CapDeliver, CapBackfill, CapNothing, CapPushRefused,
       CapWriteSlot, CapStoreHead, Feed, FeedTake, FeedStoreTail, FeedNoEncoder, FeedLock,
       FeedWrite, hotVars, encVars, finVars

\* Frames stay with the sessions they belong to
LEMMA LoopsBelong ==
  ASSUME TypeOK, LossInv, Capture \/ Feed
  PROVE  Belongs(feedFrame)' /\ Belongs(capRec)' /\ \A i \in Slots : Belongs(slots[i])'
<1>1. UNCHANGED << session, isRecording, hot, encoder, fin >>
  BY LoopsKeep
<1>2. \/ feedFrame' = feedFrame \/ feedFrame' = None \/ (tail \in Slots /\ feedFrame' = slots[tail])
  BY DEF Capture, CapSample, CapDeliverIdle, CapDeliver, CapBackfill, CapNothing,
     CapPushRefused, CapWriteSlot, CapStoreHead, Feed, FeedTake, FeedStoreTail, FeedNoEncoder,
     FeedLock, FeedWrite, feedVars, TypeOK
<1>3. capRec' = capRec \/ capRec' = None \/ (isRecording /\ capRec' = session)
  BY DEF Capture, CapSample, CapDeliverIdle, CapDeliver, CapBackfill, CapNothing,
     CapPushRefused, CapWriteSlot, CapStoreHead, IterationEnds, Feed, FeedTake, FeedStoreTail,
     FeedNoEncoder, FeedLock, FeedWrite, capVars
<1>4. \A i \in Slots : slots'[i] = slots[i] \/ slots'[i] = None \/ slots'[i] = capRec
  BY DEF Capture, CapSample, CapDeliverIdle, CapDeliver, CapBackfill, CapNothing,
     CapPushRefused, CapWriteSlot, CapStoreHead, Feed, FeedTake, FeedStoreTail, FeedNoEncoder,
     FeedLock, FeedWrite, ring, TypeOK
<1>5. Belongs(feedFrame)'
  BY <1>1, <1>2 DEF Belongs, LossInv
<1>6. Belongs(capRec)'
  BY <1>1, <1>3 DEF Belongs, LossInv
<1>7. ASSUME NEW i \in Slots PROVE Belongs(slots[i])'
  BY <1>1, <1>4 DEF Belongs, LossInv
<1> QED  BY <1>5, <1>6, <1>7

LEMMA LossCapture ==
  ASSUME CalmClear, SessionInv, CalmInv, LossInv, Capture
  PROVE  LossInv'
<1> USE DEF SessionInv
<1>1. /\ UNCHANGED << session, isRecording, hot, encoder, fin >>
      /\ UNCHANGED << feedFrame, tail >>
  BY LoopsKeep DEF Capture, CapSample, CapDeliverIdle, CapDeliver, CapBackfill, CapNothing,
     CapPushRefused, CapWriteSlot, CapStoreHead, feedVars, ring
<1>2. /\ head \in Slots /\ tail \in Slots /\ slots \in [Slots -> {None} \cup Sessions]
      /\ capRec \in {None} \cup Sessions
  BY DEF TypeOK
<1>3. \A s \in Sessions : (Drained(s)' <=> Drained(s)) /\ lost[s] \in Nat /\ InSlots(s) \in Nat
  BY <1>1, LoseOne, InSlotsIsNat DEF Drained
<1>4. Belongs(feedFrame)' /\ Belongs(capRec)' /\ \A i \in Slots : Belongs(slots[i])'
  BY LoopsBelong
<1>5. CASE CapWriteSlot
  <2>1. /\ cap = "push" /\ slots' = [slots EXCEPT ![head] = capRec] /\ lost' = Lose(slots[head])
        /\ head' = head /\ cap' = "store" /\ capRec' = capRec
    BY <1>5 DEF CapWriteSlot
  <2>2. ASSUME NEW s \in Sessions, NEW i \in Slots, ~Drained(s)', slots'[i] = s
        PROVE  Between(tail', head', i) \/ (cap' = "store" /\ i = head')
    <3>1. CASE i = head
      BY <2>1, <3>1
    <3>2. CASE i # head
      BY <1>1, <1>2, <1>3, <2>1, <2>2, <3>2 DEF LossInv
    <3> QED  BY <3>1, <3>2
  <2>3. ASSUME NEW s \in Sessions, ~Drained(s)' PROVE lost'[s] = 0
    <3>1. ~Between(tail, head, head)
      BY <1>2, SlotNumbers DEF Between
    <3>2. slots[head] # s
      BY <1>2, <1>3, <2>1, <2>3, <3>1 DEF LossInv
    <3> QED  BY <1>3, <2>1, <2>3, <3>2, LoseOne DEF LossInv
  <2>4. ASSUME NEW s \in Sessions, Drained(s)' PROVE Unwritten(s)' <= 2
    <3>1. Unwritten(s) <= 2
      BY <1>3, <2>4 DEF LossInv
    <3>2. /\ InSlots(s)' \in Nat
          /\ InSlots(s)' + (IF slots[head] = s THEN 1 ELSE 0)
               = InSlots(s) + (IF capRec = s THEN 1 ELSE 0)
      BY <1>2, <2>1, <2>4, SlotsCount
    <3>3. lost'[s] \in Nat /\ lost'[s] <= lost[s] + (IF slots[head] = s THEN 1 ELSE 0)
      BY <2>1, LoseOne
    <3> QED  BY <1>1, <1>3, <2>1, <3>1, <3>2, <3>3 DEF Unwritten
  <2> QED  BY <1>1, <1>4, <2>2, <2>3, <2>4 DEF LossInv
<1>6. CASE CapStoreHead
  <2>1. /\ cap = "store" /\ UNCHANGED << slots, lost >> /\ cap' = "top" /\ capRec' = None
        /\ head' = Succ(head) /\ Succ(head) # tail
    BY <1>6 DEF CapStoreHead, IterationEnds, CalmInv
  <2>2. ASSUME NEW s \in Sessions, NEW i \in Slots, ~Drained(s)', slots'[i] = s
        PROVE  Between(tail', head', i)
    <3>1. Between(tail, head, i) \/ i = head
      BY <1>3, <2>1, <2>2 DEF LossInv
    <3> QED  BY <1>1, <1>2, <2>1, <3>1, HeadMoves
  <2>3. ASSUME NEW s \in Sessions, ~Drained(s)' PROVE lost'[s] = 0
    BY <1>3, <2>1, <2>3 DEF LossInv
  <2>4. ASSUME NEW s \in Sessions, Drained(s)' PROVE Unwritten(s)' <= 2
    <3>1. Unwritten(s) <= 2
      BY <1>3, <2>4 DEF LossInv
    <3>2. InSlots(s)' = InSlots(s) /\ None # s
      BY <2>1, Numbers DEF InSlots
    <3> QED  BY <1>1, <1>3, <2>1, <3>1, <3>2 DEF Unwritten
  <2> QED  BY <1>1, <1>4, <2>2, <2>3, <2>4 DEF LossInv
<1>7. CASE \/ CapSample \/ CapDeliverIdle \/ CapDeliver \/ CapBackfill \/ CapNothing
           \/ CapPushRefused
  <2>1. /\ UNCHANGED << head, slots, lost >> /\ cap # "store" /\ cap' # "store"
        /\ capRec' \in {None, capRec} \/ (isRecording /\ capRec' = session)
    BY <1>7 DEF CapSample, CapDeliverIdle, CapDeliver, CapBackfill, CapNothing, CapPushRefused,
       IterationEnds, ring
  <2>2. ASSUME NEW s \in Sessions, NEW i \in Slots, ~Drained(s)', slots'[i] = s
        PROVE  Between(tail', head', i)
    BY <1>1, <1>3, <2>1, <2>2 DEF LossInv
  <2>3. ASSUME NEW s \in Sessions, ~Drained(s)' PROVE lost'[s] = 0
    BY <1>3, <2>1, <2>3 DEF LossInv
  <2>4. ASSUME NEW s \in Sessions, Drained(s)' PROVE Unwritten(s)' <= 2
    <3>1. Unwritten(s) <= 2 /\ fin[s] # "none"
      BY <1>1, <1>3, <2>4 DEF LossInv, Drained
    <3>2. InSlots(s)' = InSlots(s) /\ None # s
      BY <2>1, Numbers DEF InSlots
    <3>3. isRecording => session # s
      BY <3>1 DEF Unspawned
    <3> QED  BY <1>1, <1>3, <2>1, <3>1, <3>2, <3>3 DEF Unwritten
  <2> QED  BY <1>1, <1>4, <2>1, <2>2, <2>3, <2>4 DEF LossInv
<1> QED  BY <1>5, <1>6, <1>7 DEF Capture

LEMMA LossFeed ==
  ASSUME Patient, CalmClear, SessionInv, PatientInv, CalmInv, LossInv, Feed
  PROVE  LossInv'
<1> USE DEF SessionInv
<1>1. /\ UNCHANGED << session, isRecording, hot, encoder, fin >>
      /\ UNCHANGED << cap, capRec, head >>
  BY LoopsKeep DEF Feed, FeedTake, FeedStoreTail, FeedNoEncoder, FeedLock, FeedWrite, capVars,
     ring
<1>2. /\ head \in Slots /\ tail \in Slots /\ slots \in [Slots -> {None} \cup Sessions]
      /\ feedFrame \in {None} \cup Sessions
  BY DEF TypeOK
<1>3. \A s \in Sessions : (Drained(s)' <=> Drained(s)) /\ lost[s] \in Nat /\ InSlots(s) \in Nat
                          /\ None # s
  BY <1>1, LoseOne, InSlotsIsNat, Numbers DEF Drained
<1>4. Belongs(feedFrame)' /\ Belongs(capRec)' /\ \A i \in Slots : Belongs(slots[i])'
  BY LoopsBelong
<1>5. CASE FeedTake
  <2>1. /\ feedFrame' = slots[tail] /\ slots' = [slots EXCEPT ![tail] = None]
        /\ UNCHANGED << tail, lost >>
    BY <1>5 DEF FeedTake
  <2>2. ASSUME NEW s \in Sessions, NEW i \in Slots, ~Drained(s)', slots'[i] = s
        PROVE  Between(tail', head', i) \/ (cap' = "store" /\ i = head')
    <3>1. slots[i] = s
      BY <1>2, <1>3, <2>1, <2>2
    <3> QED  BY <1>1, <1>3, <2>1, <2>2, <3>1 DEF LossInv
  <2>3. ASSUME NEW s \in Sessions, ~Drained(s)' PROVE lost'[s] = 0
    BY <1>3, <2>1, <2>3 DEF LossInv
  <2>4. ASSUME NEW s \in Sessions, Drained(s)' PROVE Unwritten(s)' <= 2
    <3>1. Unwritten(s) <= 2
      BY <1>3, <2>4 DEF LossInv
    <3>2. InSlots(s)' \in Nat /\ InSlots(s)' + (IF slots[tail] = s THEN 1 ELSE 0) = InSlots(s)
      <4>1. None \in {None} \cup Sessions
        OBVIOUS
      <4>2. InSlots(s)' \in Nat /\ InSlots(s)' + (IF slots[tail] = s THEN 1 ELSE 0)
              = InSlots(s) + (IF None = s THEN 1 ELSE 0)
        BY <1>2, <2>1, <2>4, <4>1, SlotsCount
      <4> QED  BY <1>3, <2>4, <4>2
    <3> QED  BY <1>1, <1>3, <2>1, <3>1, <3>2 DEF Unwritten
  <2> QED  BY <1>1, <1>4, <2>2, <2>3, <2>4 DEF LossInv
<1>6. CASE FeedStoreTail
  <2>1. /\ UNCHANGED << slots, lost, feedFrame >> /\ tail' = Succ(tail) /\ head # tail
        /\ slots[tail] = None
    BY <1>6 DEF FeedStoreTail, CalmInv
  <2>2. ASSUME NEW s \in Sessions, NEW i \in Slots, ~Drained(s)', slots'[i] = s
        PROVE  Between(tail', head', i) \/ (cap' = "store" /\ i = head')
    <3>1. i # tail /\ (Between(tail, head, i) \/ (cap = "store" /\ i = head))
      BY <1>3, <2>1, <2>2 DEF LossInv
    <3> QED  BY <1>1, <1>2, <2>1, <3>1, TailMoves
  <2>3. ASSUME NEW s \in Sessions, ~Drained(s)' PROVE lost'[s] = 0
    BY <1>3, <2>1, <2>3 DEF LossInv
  <2>4. ASSUME NEW s \in Sessions, Drained(s)' PROVE Unwritten(s)' <= 2
    BY <1>1, <1>3, <2>1, <2>4 DEF LossInv, Unwritten, InSlots
  <2> QED  BY <1>1, <1>4, <2>2, <2>3, <2>4 DEF LossInv
<1>7. CASE FeedNoEncoder
  <2>1. encoder = None /\ UNCHANGED << slots, tail >> /\ feedFrame' = None
        /\ lost' = Lose(feedFrame)
    BY <1>7 DEF FeedNoEncoder, ring
  <2>2. ASSUME NEW s \in Sessions, NEW i \in Slots, ~Drained(s)', slots'[i] = s
        PROVE  Between(tail', head', i) \/ (cap' = "store" /\ i = head')
    BY <1>1, <1>3, <2>1, <2>2 DEF LossInv
  <2>3. ASSUME NEW s \in Sessions, ~Drained(s)' PROVE lost'[s] = 0
    <3>1. feedFrame # s
      BY <1>1, <1>3, <2>1, <2>3 DEF Belongs, LossInv, PatientInv, Drained
    <3> QED  BY <1>3, <2>1, <2>3, <3>1, LoseOne DEF LossInv
  <2>4. ASSUME NEW s \in Sessions, Drained(s)' PROVE Unwritten(s)' <= 2
    <3>1. Unwritten(s) <= 2 /\ InSlots(s)' = InSlots(s)
      BY <1>3, <2>1, <2>4 DEF LossInv, InSlots
    <3>2. lost'[s] \in Nat /\ lost'[s] <= lost[s] + (IF feedFrame = s THEN 1 ELSE 0)
      BY <2>1, LoseOne
    <3> QED  BY <1>1, <1>3, <2>1, <3>1, <3>2 DEF Unwritten
  <2> QED  BY <1>1, <1>4, <2>2, <2>3, <2>4 DEF LossInv
<1>8. CASE FeedLock \/ FeedWrite
  <2>1. UNCHANGED << slots, tail, lost >> /\ feedFrame' \in {None, feedFrame}
    BY <1>8 DEF FeedLock, FeedWrite, ring
  <2>2. ASSUME NEW s \in Sessions, NEW i \in Slots, ~Drained(s)', slots'[i] = s
        PROVE  Between(tail', head', i) \/ (cap' = "store" /\ i = head')
    BY <1>1, <1>3, <2>1, <2>2 DEF LossInv
  <2>3. ASSUME NEW s \in Sessions, ~Drained(s)' PROVE lost'[s] = 0
    BY <1>3, <2>1, <2>3 DEF LossInv
  <2>4. ASSUME NEW s \in Sessions, Drained(s)' PROVE Unwritten(s)' <= 2
    <3>1. Unwritten(s) <= 2 /\ InSlots(s)' = InSlots(s)
      BY <1>3, <2>1, <2>4 DEF LossInv, InSlots
    <3> QED  BY <1>1, <1>3, <2>1, <3>1 DEF Unwritten
  <2> QED  BY <1>1, <1>4, <2>2, <2>3, <2>4 DEF LossInv
<1> QED  BY <1>5, <1>6, <1>7, <1>8 DEF Feed

\* Who belongs where, when no frame moves
LEMMA BelongsKept ==
  ASSUME SessionInv, LossInv, UNCHANGED << slots, feedFrame, capRec >>,
         \A f \in Sessions : Belongs(f) => Belongs(f)'
  PROVE  Belongs(feedFrame)' /\ Belongs(capRec)' /\ \A i \in Slots : Belongs(slots[i])'
<1>1. feedFrame \in {None} \cup Sessions /\ capRec \in {None} \cup Sessions
      /\ slots \in [Slots -> {None} \cup Sessions]
  BY DEF SessionInv, TypeOK
<1>2. Belongs(feedFrame)' /\ Belongs(capRec)'
  BY <1>1 DEF LossInv, Belongs
<1>3. ASSUME NEW i \in Slots PROVE Belongs(slots[i])'
  <2>1. PICK f \in {None} \cup Sessions : f = slots[i]
    BY <1>1
  <2>2. Belongs(f)
    BY <2>1 DEF LossInv
  <2>3. Belongs(f)'
    BY <2>2 DEF Belongs
  <2> QED  BY <2>1, <2>3 DEF Belongs
<1> QED  BY <1>2, <1>3

\* The ring has run empty: only a frame not yet published is in a slot
LEMMA DrainedSlots ==
  ASSUME SessionInv, LossInv, head = tail, NEW s \in Sessions, ~Drained(s)
  PROVE  InSlots(s) <= IF cap = "store" THEN 1 ELSE 0
<1> DEFINE A == {i \in Slots : slots[i] = s}
<1>1. head \in Slots
  BY DEF SessionInv, TypeOK
<1>2. ASSUME NEW i \in A PROVE cap = "store" /\ i = head
  BY <1>1, <1>2, NothingBetween DEF LossInv
<1>3. CASE cap = "store"
  <2>1. A \subseteq {head}
    BY <1>2
  <2>2. IsFiniteSet({head}) /\ Cardinality({head}) = 1
    BY FS_Singleton
  <2>3. Cardinality(A) <= 1
    BY <2>1, <2>2, FS_Subset
  <2> QED  BY <1>3, <2>3 DEF InSlots
<1>4. CASE cap # "store"
  <2>1. A = {}
    BY <1>2, <1>4
  <2>2. Cardinality(A) = 0
    BY <2>1, FS_EmptySet
  <2> QED  BY <1>4, <2>2 DEF InSlots
<1> QED  BY <1>3, <1>4

\* The inventory is about the frames, and where each session stands
LEMMA LossKept ==
  ASSUME SessionInv, LossInv, UNCHANGED << head, tail, slots, cap, lost, feedFrame, capRec >>,
         hot' = "spawn" => encoder' = session',
         \A s \in Sessions : fin'[s] \in {"drain", "lock", "wait"} => encoder' = s,
         \A f \in Sessions : Belongs(f) => Belongs(f)',
         \A s \in Sessions : ~Drained(s)' => ~Drained(s),
         \A s \in Sessions : Drained(s)' => Drained(s) \/ head = tail
  PROVE  LossInv'
<1>1. Belongs(feedFrame)' /\ Belongs(capRec)' /\ \A i \in Slots : Belongs(slots[i])'
  BY BelongsKept
<1>2. ASSUME NEW s \in Sessions, NEW i \in Slots, ~Drained(s)', slots'[i] = s
      PROVE  Between(tail', head', i) \/ (cap' = "store" /\ i = head')
  BY <1>2 DEF LossInv
<1>3. ASSUME NEW s \in Sessions, ~Drained(s)' PROVE lost'[s] = 0
  BY <1>3 DEF LossInv
<1>4. ASSUME NEW s \in Sessions, Drained(s)' PROVE Unwritten(s)' <= 2
  <2>1. Unwritten(s)' = Unwritten(s) /\ InSlots(s) \in Nat
    BY InSlotsIsNat DEF Unwritten, InSlots
  <2>2. CASE Drained(s)
    BY <2>1, <2>2 DEF LossInv
  <2>3. CASE ~Drained(s)
    <3>1. lost[s] = 0 /\ InSlots(s) <= IF cap = "store" THEN 1 ELSE 0
      BY <1>4, <2>3, DrainedSlots DEF LossInv
    <3> QED  BY <2>1, <3>1 DEF Unwritten
  <2> QED  BY <2>2, <2>3
<1> QED  BY <1>1, <1>2, <1>3, <1>4 DEF LossInv

\* With all sessions finished a Clear passes over no frame that has a reader
LEMMA LossClear ==
  ASSUME SessionInv, LossInv, AllFinished, ~isRecording, hot # "spawn", StartClear \/ StartCleared
  PROVE  LossInv'
<1>1. /\ UNCHANGED << isRecording, encoder, fin, slots, lost, feedFrame, cap, capRec >>
      /\ hot' \notin {"spawn", "ready"}
  BY DEF StartClear, StartCleared, capVars, feedVars, encVars, finVars
<1>2. \A s \in Sessions : fin[s] \in {"none", "done"}
  BY DEF AllFinished
<1>3. \A f \in Sessions : Belongs(f) => Drained(f)
  BY <1>2, Numbers DEF Belongs, Drained
<1>4. \A f \in Sessions : Belongs(f) => Belongs(f)'
  BY <1>1, <1>2, Numbers DEF Belongs
<1>5. Belongs(feedFrame)' /\ Belongs(capRec)' /\ \A i \in Slots : Belongs(slots[i])'
  BY <1>1, <1>4, BelongsKept
<1>6. ASSUME NEW s \in Sessions, NEW i \in Slots, ~Drained(s)', slots'[i] = s PROVE FALSE
  <2>1. ~Drained(s) /\ slots[i] = s
    BY <1>1, <1>6 DEF Drained
  <2>2. Belongs(s)
    BY <2>1 DEF LossInv
  <2> QED  BY <1>3, <2>1, <2>2
<1>7. ASSUME NEW s \in Sessions, ~Drained(s)' PROVE lost'[s] = 0
  BY <1>1, <1>7 DEF LossInv, Drained
<1>8. ASSUME NEW s \in Sessions, Drained(s)' PROVE Unwritten(s)' <= 2
  BY <1>1, <1>8 DEF LossInv, Drained, Unwritten, InSlots
<1>9. \A s \in Sessions : fin'[s] \in {"drain", "lock", "wait"} => encoder' = s
  BY <1>1, <1>2
<1> QED  BY <1>1, <1>5, <1>6, <1>7, <1>8, <1>9 DEF LossInv

LEMMA LossHotkey ==
  ASSUME Patient, SessionInv, PatientInv, LossInv, Hotkey
  PROVE  LossInv'
<1> USE DEF capVars, feedVars, encVars, finVars, ring
<1>1. CASE StartClear \/ StartCleared
  <2>1. AllFinished /\ ~isRecording /\ hot # "spawn"
    BY <1>1 DEF StartClear, StartCleared, PatientInv, SessionInv, Unspawned
  <2> QED  BY <1>1, <2>1, LossClear
<1>2. CASE StartEncoder \/ StartEncoderFails
  <2>1. /\ UNCHANGED << session, isRecording, fin, head, tail, slots, cap, lost, feedFrame,
                        capRec >>
        /\ hot = "encoder" /\ hot' # "spawn"
    BY <1>2 DEF StartEncoder, StartEncoderFails
  <2>2. \A s \in Sessions : fin[s] \in {"none", "done"}
    BY <2>1 DEF PatientInv, AllFinished
  <2>3. \A f \in Sessions : Belongs(f) => Belongs(f)'
    BY <2>1 DEF Belongs
  <2>4. \A s \in Sessions : Drained(s)' <=> Drained(s)
    BY <2>1 DEF Drained
  <2> QED  BY <2>1, <2>2, <2>3, <2>4, LossKept
<1>3. CASE StartFlag \/ StopFlag
  <2>1. /\ UNCHANGED << session, encoder, fin, head, tail, slots, cap, lost, feedFrame, capRec >>
        /\ \/ hot = "flag" /\ hot' = "ready"
           \/ isRecording /\ hot' = "spawn" /\ hot = "ready"
    BY <1>3 DEF StartFlag, StopFlag
  <2>2. hot' = "spawn" => encoder' = session'
    BY <2>1 DEF PatientInv
  <2>3. \A f \in Sessions : Belongs(f) => Belongs(f)'
    BY <1>3, <2>1 DEF Belongs, StartFlag, StopFlag
  <2>4. \A s \in Sessions : fin'[s] \in {"drain", "lock", "wait"} => encoder' = s
    BY <2>1 DEF LossInv
  <2>5. \A s \in Sessions : Drained(s)' <=> Drained(s)
    BY <2>1 DEF Drained
  <2> QED  BY <2>1, <2>2, <2>3, <2>4, <2>5, LossKept
<1>4. CASE StopSpawnFinish
  <2>1. /\ UNCHANGED << session, isRecording, encoder, head, tail, slots, cap, lost, feedFrame,
                        capRec >>
        /\ hot = "spawn" /\ hot' = "ready"
        /\ session \in Sessions /\ fin[session] = "none" /\ encoder = session
        /\ fin' = [fin EXCEPT ![session] = "drain"]
    BY <1>4 DEF StopSpawnFinish, SessionInv, Unspawned, LossInv
  <2>2. /\ fin'[session] = "drain"
        /\ \A s \in Sessions : s # session => fin'[s] = fin[s]
    BY <2>1 DEF SessionInv, TypeOK
  <2>3. \A f \in Sessions : Belongs(f) => Belongs(f)'
    BY <2>1, <2>2 DEF Belongs
  <2>4. \A s \in Sessions : fin'[s] \in {"drain", "lock", "wait"} => encoder' = s
    BY <2>1, <2>2 DEF LossInv
  <2>5. \A s \in Sessions : Drained(s)' <=> Drained(s)
    BY <2>1, <2>2 DEF Drained
  <2> QED  BY <2>1, <2>3, <2>4, <2>5, LossKept
<1> QED  BY <1>1, <1>2, <1>3, <1>4 DEF Hotkey, Start, Stop

LEMMA LossOthers ==
  ASSUME SessionInv, LossInv, NEW s \in Sessions,
         FfmpegDies(s) \/ FfmpegExits(s) \/ FinishThread(s)
  PROVE  LossInv'
<1>1. UNCHANGED << session, isRecording, hot, head, tail, slots, cap, lost, feedFrame, capRec >>
  BY DEF FfmpegDies, FfmpegExits, FinishThread, FinishDrained, FinishCloseStdin,
         FinishNoEncoder, FinishEncoded, FinishRemux, hotVars, capVars, feedVars, ring
<1>2. CASE FfmpegDies(s) \/ FfmpegExits(s)
  <2>1. UNCHANGED << encoder, fin >>
    BY <1>2 DEF FfmpegDies, FfmpegExits, finVars
  <2>2. \A f \in Sessions : Belongs(f) => Belongs(f)'
    BY <1>1, <2>1 DEF Belongs
  <2>3. \A r \in Sessions : Drained(r)' <=> Drained(r)
    BY <2>1 DEF Drained
  <2>4. /\ hot' = "spawn" => encoder' = session'
        /\ \A r \in Sessions : fin'[r] \in {"drain", "lock", "wait"} => encoder' = r
    BY <1>1, <2>1 DEF LossInv
  <2> QED  BY <1>1, <2>2, <2>3, <2>4, LossKept
<1>3. CASE FinishThread(s)
  <2>1. /\ fin[s] \notin {"none", "done"} /\ fin'[s] \notin {"none", "drain"}
        /\ \A r \in Sessions : r # s => fin'[r] = fin[r]
        /\ fin[s] = "drain" => head = tail
        /\ fin'[s] \in {"lock", "wait"} => encoder' = encoder /\ fin[s] \in {"drain", "lock"}
        /\ encoder' # encoder => encoder' = None /\ fin[s] = "wait"
    BY <1>3 DEF FinishThread, FinishDrained, FinishCloseStdin, FinishNoEncoder, FinishEncoded,
                FinishRemux, FinishTo, RingDrained, encVars, SessionInv, TypeOK
  <2>2. encoder' # encoder => encoder = s
    BY <2>1 DEF LossInv
  <2>3. hot' = "spawn" => encoder' = session'
    <3>1. hot = "spawn" => encoder = session /\ fin[session] = "none" /\ session \in Sessions
      BY DEF LossInv, SessionInv, Unspawned
    <3> QED  BY <1>1, <2>1, <2>2, <3>1
  <2>4. ASSUME NEW r \in Sessions, fin'[r] \in {"drain", "lock", "wait"} PROVE encoder' = r
    <3>1. CASE r = s
      BY <2>1, <2>4, <3>1 DEF LossInv
    <3>2. CASE r # s
      BY <2>1, <2>2, <2>4, <3>2 DEF LossInv
    <3> QED  BY <3>1, <3>2
  <2>5. \A f \in Sessions : Belongs(f) => Belongs(f)'
    BY <1>1, <2>1 DEF Belongs
  <2>6. /\ \A r \in Sessions : ~Drained(r)' => ~Drained(r)
        /\ \A r \in Sessions : Drained(r)' => Drained(r) \/ head = tail
    BY <2>1 DEF Drained
  <2> QED  BY <1>1, <2>3, <2>4, <2>5, <2>6, LossKept
<1> QED  BY <1>2, <1>3

LEMMA LossNext ==
  ASSUME Patient, CalmClear, SessionInv, PatientInv, CalmInv, LossInv, [Next]_vars
  PROVE  LossInv'
<1>1. CASE UNCHANGED vars
  <2>1. UNCHANGED << session, isRecording, hot, head, tail, slots, cap, lost, feedFrame, capRec,
                     encoder, fin >>
    BY <1>1 DEF vars, hotVars, capVars, feedVars, encVars, finVars, ring
  <2>2. \A f \in Sessions : Belongs(f) => Belongs(f)'
    BY <2>1 DEF Belongs
  <2>3. \A s \in Sessions : Drained(s)' <=> Drained(s)
    BY <2>1 DEF Drained
  <2>4. /\ hot' = "spawn" => encoder' = session'
        /\ \A s \in Sessions : fin'[s] \in {"drain", "lock", "wait"} => encoder' = s
    BY <2>1 DEF LossInv
  <2> QED  BY <2>1, <2>2, <2>3, <2>4, LossKept
<1> QED
  BY <1>1, LossHotkey, LossCapture, LossFeed, LossOthers DEF Next

(***************************************************************************)
(* Stopping loses at most two accepted frames of a session when the user   *)
(* waits for one video before he starts the next and no Clear meets a push *)
(* or a pop: the frame the feed thread holds when the ring has run empty,  *)
(* and the one of a capture iteration that sampled isRecording_ before the *)
(* stop.  Till then none is lost.                                          *)
(***************************************************************************)
THEOREM PatientLosesLittle == ASSUME Patient, CalmClear PROVE Spec => []LosesAtMostTwo
<1>1. Init => SessionInv /\ PatientInv /\ CalmInv /\ LossInv
  <2>1. SUFFICES ASSUME Init PROVE CalmInv /\ LossInv
    BY SessionInit
  <2>2. CalmInv
    BY <2>1 DEF Init, CalmInv
  <2>3. \A s \in Sessions : ~Drained(s) /\ lost[s] = 0 /\ None # s
    BY <2>1, Numbers DEF Init, Drained
  <2> QED  BY <2>1, <2>2, <2>3 DEF Init, LossInv, Belongs
<1>2. (SessionInv /\ PatientInv /\ CalmInv /\ LossInv) /\ [Next]_vars
        => (SessionInv /\ PatientInv /\ CalmInv /\ LossInv)'
  <2>1. SessionInv => TypeOK
    BY DEF SessionInv
  <2> QED  BY <2>1, SessionNext, PatientNext, CalmNext, LossNext
<1>3. LossInv => LosesAtMostTwo
  BY DEF LossInv, Drained, LosesAtMostTwo
<1> QED  BY <1>1, <1>2, <1>3, PTL DEF Spec
-----------------------------------------------------------------------------
(* The sessions keep the promise of encoder_ *)

LEMMA SameNames == Use!Sessions = Sessions /\ Use!None = None
BY DEF Use!Sessions, Sessions, Use!None, None

LEMMA UseStdin == Use!StdinClosed = CloseStdin(proc, encoder)
BY SameNames DEF Use!StdinClosed, CloseStdin

LEMMA HotkeyUses ==
  ASSUME SessionInv, Hotkey
  PROVE  Use!Renew \/ Use!RenewFails \/ UNCHANGED Use!vars
<1> USE DEF Clearing
<1>1. session \in Nat /\ (hot # "ready" => session \in Sessions /\ session <= MaxSessions)
  BY SessionNumbers, BoundsAssumption DEF SessionInv, Unspawned, TypeOK, BoundsAssumption
<1>2. CASE StartClear \/ StartCleared
  BY <1>1, <1>2 DEF StartClear, StartCleared, Clearing, encVars, Use!vars
<1>3. CASE StartEncoder
  <2>1. PICK how \in {"running", "failed"} :
          proc' = [CloseStdin(proc, encoder) EXCEPT ![session] = how]
    BY <1>3 DEF StartEncoder
  <2>2. /\ mutex = "free" /\ mutex' = mutex /\ hot = "encoder" /\ hot' = "flag"
        /\ session' = session /\ encoder' = session /\ session - 1 < MaxSessions
        /\ (session - 1) + 1 = session
    BY <1>1, <1>3, BoundsAssumption DEF StartEncoder, MutexFree, BoundsAssumption
  <2> QED  BY <2>1, <2>2, UseStdin DEF Use!Renew
<1>4. CASE StartEncoderFails
  <2>1. /\ mutex = "free" /\ mutex' = mutex /\ hot = "encoder" /\ hot' = "ready"
        /\ session' = session /\ encoder' = None /\ session - 1 < MaxSessions
        /\ (session - 1) + 1 = session /\ proc' = CloseStdin(proc, encoder)
    BY <1>1, <1>4, BoundsAssumption DEF StartEncoderFails, MutexFree, BoundsAssumption
  <2> QED  BY <2>1, UseStdin, SameNames DEF Use!RenewFails
<1>5. CASE StartFlag \/ StopFlag \/ StopSpawnFinish
  BY <1>5 DEF StartFlag, StopFlag, StopSpawnFinish, encVars, Use!vars
<1> QED  BY <1>2, <1>3, <1>4, <1>5 DEF Hotkey, Start, Stop

LEMMA LoopsUse ==
  ASSUME SessionInv, Capture \/ Feed
  PROVE  Use!BeginWrite \/ Use!EndWrite \/ UNCHANGED Use!vars
<1> USE DEF Clearing
<1>1. UNCHANGED << hot, session, encoder, proc >>
  BY DEF Capture, CapSample, CapDeliverIdle, CapDeliver, CapBackfill, CapNothing,
         CapPushRefused, CapWriteSlot, CapStoreHead, Feed, FeedTake, FeedStoreTail,
         FeedNoEncoder, FeedLock, FeedWrite, hotVars, encVars
<1>2. CASE FeedLock
  BY <1>1, <1>2, SameNames DEF FeedLock, MutexFree, Use!BeginWrite
<1>3. CASE FeedWrite
  BY <1>1, <1>3 DEF FeedWrite, Use!EndWrite, SessionInv, EncoderOwned, EncoderPinned
<1>4. CASE Capture \/ FeedTake \/ FeedStoreTail \/ FeedNoEncoder
  BY <1>1, <1>4 DEF Capture, CapSample, CapDeliverIdle, CapDeliver, CapBackfill, CapNothing,
         CapPushRefused, CapWriteSlot, CapStoreHead, FeedTake, FeedStoreTail, FeedNoEncoder,
         Use!vars
<1> QED  BY <1>2, <1>3, <1>4 DEF Feed

LEMMA OthersUse ==
  ASSUME SessionInv, NEW s \in Sessions, FfmpegDies(s) \/ FfmpegExits(s) \/ FinishThread(s)
  PROVE  Use!FfmpegEnds(s) \/ Use!BeginFinish \/ Use!EndFinish \/ UNCHANGED Use!vars
<1> USE DEF Clearing
<1>1. UNCHANGED << hot, session >>
  BY DEF FfmpegDies, FfmpegExits, FinishThread, FinishDrained, FinishCloseStdin,
         FinishNoEncoder, FinishEncoded, FinishRemux, hotVars
<1>2. CASE FfmpegDies(s) \/ FfmpegExits(s)
  BY <1>1, <1>2 DEF FfmpegDies, FfmpegExits, Use!FfmpegEnds
<1>3. CASE FinishCloseStdin(s)
  BY <1>1, <1>3, UseStdin, SameNames DEF FinishCloseStdin, MutexFree, Use!BeginFinish
<1>4. CASE FinishEncoded(s)
  <2>1. mutex = "finish" /\ took[s] = encoder
    BY <1>4 DEF FinishEncoded, SessionInv, EncoderOwned, EncoderPinned
  <2> QED  BY <1>1, <1>4, <2>1, SameNames DEF FinishEncoded, Use!EndFinish
<1>5. CASE FinishDrained(s) \/ FinishNoEncoder(s) \/ FinishRemux(s)
  BY <1>1, <1>5 DEF FinishDrained, FinishNoEncoder, FinishRemux, encVars, Use!vars
<1> QED  BY <1>2, <1>3, <1>4, <1>5 DEF FinishThread

(***************************************************************************)
(* The threads of Recorder.cpp keep the promise of encoder_ and its mutex  *)
(* (Recorder.h:102-117): no start, feed or finish, in whatever order, does *)
(* a step on the encoder that EncoderUse has not.  EncoderPipe implements  *)
(* the same promise from below.                                            *)
(***************************************************************************)
THEOREM SessionImplementsUse == Spec => ImplementsEncoderUse
<1>1. Init => Use!Init
  BY SameNames DEF Init, Use!Init, Clearing
<1>2. SessionInv /\ [Next]_vars => [Use!Next]_(Use!vars)
  <2>1. SUFFICES ASSUME SessionInv, [Next]_vars PROVE Use!Next \/ UNCHANGED Use!vars
    OBVIOUS
  <2>2. CASE UNCHANGED vars
    BY <2>2 DEF vars, hotVars, encVars, Use!vars, Clearing
  <2>3. CASE Hotkey
    BY <2>1, <2>3, HotkeyUses DEF Use!Next
  <2>4. CASE Capture \/ Feed
    BY <2>1, <2>4, LoopsUse DEF Use!Next
  <2>5. ASSUME NEW s \in Sessions, FfmpegDies(s) \/ FfmpegExits(s) \/ FinishThread(s)
        PROVE Use!Next \/ UNCHANGED Use!vars
    BY <2>1, <2>5, OthersUse, SameNames DEF Use!Next
  <2> QED  BY <2>1, <2>2, <2>3, <2>4, <2>5 DEF Next
<1>3. Spec => Use!Init /\ [][Use!Next]_(Use!vars)
  BY <1>1, <1>2, SessionInvariant, PTL DEF Spec
<1> QED  BY <1>3 DEF ImplementsEncoderUse, Use!Spec
=============================================================================
