----------------------------- MODULE AudioTrack -----------------------------
(***************************************************************************)
(* AudioCapture: the system-sound track of a recording and, when asked     *)
(* for, the microphone.  Start makes a thread and waits for its set-up at  *)
(* most a second; Stop clears running_ and joins it.  The thread sets up   *)
(* WASAPI, opens the WAV file, writes what arrives, and closes the file    *)
(* and patches its header when told to stop.                               *)
(*                                                                         *)
(* Each track has one AudioCapture, of one recording.  A buffer is one     *)
(* unit of data, sound and silence alike, and the format is left out.      *)
(* OutputFiles makes the recorder that calls this, and has the clock tick. *)
(***************************************************************************)
EXTENDS Integers

CONSTANTS MicEnabled,  \* --mic
          MaxTime,     \* bound: the clock
          MaxBytes,    \* bound: the count of a track's buffers stops here
          SizeMod      \* a size in a WAV header is kept modulo this (2^32)

ASSUME AudioAssumption ==
  /\ MicEnabled \in BOOLEAN /\ MaxTime \in Nat \ {0}
  /\ MaxBytes \in Nat \ {0} /\ SizeMod \in Nat \ {0}

Tracks == IF MicEnabled THEN {"system", "mic"} ELSE {"system"}
Unset == 0   \* a time_point nobody has assigned, earlier than any reading

VARIABLES
  now,        \* steady_clock
  call,       \* call[t]: what the recorder has done with the AudioCapture
  running,    \* running[t]: running_
  init,       \* init[t]: initDone_ and initSucceeded_
  thread,     \* thread[t]: where the capture thread is
  haveFirst,  \* haveFirst[t]: haveFirstBuffer_
  firstTime,  \* firstTime[t]: firstBufferTime_
  bytes,      \* bytes[t]: bytesWritten
  wav,        \* wav[t]: the file
  header      \* header[t]: the size in its header

threadVars == << haveFirst, firstTime, bytes, header >>
audioVars == << call, running, init, thread, wav, threadVars >>

AudioInit ==
  /\ call = [t \in Tracks |-> "none"] /\ running = [t \in Tracks |-> FALSE]
  /\ init = [t \in Tracks |-> "pending"] /\ thread = [t \in Tracks |-> "none"]
  /\ haveFirst = [t \in Tracks |-> FALSE] /\ firstTime = [t \in Tracks |-> Unset]
  /\ bytes = [t \in Tracks |-> 0]
  /\ wav = [t \in Tracks |-> "none"] /\ header = [t \in Tracks |-> 0]

CallIs(t, c) == call' = [call EXCEPT ![t] = c]
ThreadTo(t, l) == thread' = [thread EXCEPT ![t] = l]
Runs(t, b) == running' = [running EXCEPT ![t] = b]
-----------------------------------------------------------------------------
(* Start, Stop: the recorder's side *)

StartThread(t) ==
  /\ call[t] = "none"
  /\ CallIs(t, "starting") /\ Runs(t, TRUE) /\ ThreadTo(t, "init")
  /\ UNCHANGED << init, wav, threadVars >>

Started(t) ==
  /\ call[t] = "starting" /\ init[t] = "ok"
  /\ CallIs(t, "started")
  /\ UNCHANGED << running, init, thread, wav, threadVars >>

\* The set-up has failed, or the second is over
StartGivesUp(t) ==
  /\ call[t] = "starting" /\ init[t] # "ok"
  /\ CallIs(t, "givingUp") /\ Runs(t, FALSE)
  /\ UNCHANGED << init, thread, wav, threadVars >>

StartRefused(t) ==
  /\ call[t] = "givingUp" /\ thread[t] = "ended"
  /\ CallIs(t, "refused")
  /\ UNCHANGED << running, init, thread, wav, threadVars >>

StopRunning(t) ==
  /\ call[t] = "started"
  /\ CallIs(t, "stopping") /\ Runs(t, FALSE)
  /\ UNCHANGED << init, thread, wav, threadVars >>

DetachStopped(t) ==
  /\ call[t] = "stopping"
  /\ CallIs(t, "stopped")
  /\ UNCHANGED << running, init, thread, wav, threadVars >>

JoinStopped(t) ==
  /\ call[t] = "stopping" /\ thread[t] = "ended"
  /\ CallIs(t, "stopped")
  /\ UNCHANGED << running, init, thread, wav, threadVars >>
-----------------------------------------------------------------------------
(* CaptureThreadMain: the thread's side *)

InitWasapi(t) ==
  /\ thread[t] = "init" /\ ThreadTo(t, "open")
  /\ UNCHANGED << call, running, init, wav, threadVars >>

\* InitWasapi fails, or the file does not open
InitFails(t) ==
  /\ thread[t] \in {"init", "open"} /\ ThreadTo(t, "ended")
  /\ init' = [init EXCEPT ![t] = "failed"] /\ Runs(t, FALSE)
  /\ UNCHANGED << call, wav, threadVars >>

\* The file is there, with a header that says 0
OpenWav(t) ==
  /\ thread[t] = "open" /\ ThreadTo(t, "loop")
  /\ init' = [init EXCEPT ![t] = "ok"] /\ wav' = [wav EXCEPT ![t] = "open"]
  /\ UNCHANGED << call, running, threadVars >>

NeverAsksRunning(t) ==
  /\ thread[t] = "loop"
  /\ ThreadTo(t, "packets")
  /\ UNCHANGED << call, running, init, wav, threadVars >>

\* The device may also fail, which ends the loop although running_ is set
LoopAsksRunning(t) ==
  /\ thread[t] = "loop"
  /\ \/ running[t] /\ ThreadTo(t, "packets")
     \/ ThreadTo(t, "close")
  /\ UNCHANGED << call, running, init, wav, threadVars >>

\* A buffer with frames; the first one wins the compare-exchange.  The loop
\* over the packets goes on for as long as there are any: it does not ask
\* running_, and the bound does not end it.
WriteBuffer(t) ==
  /\ thread[t] = "packets"
  /\ bytes' = [bytes EXCEPT ![t] = IF @ < MaxBytes THEN @ + 1 ELSE @]
  /\ haveFirst' = [haveFirst EXCEPT ![t] = TRUE]
  /\ ThreadTo(t, IF haveFirst[t] THEN "packets" ELSE "stamp")
  /\ UNCHANGED << call, running, init, firstTime, wav, header >>

StampFirstBuffer(t) ==
  /\ thread[t] = "stamp" /\ ThreadTo(t, "packets")
  /\ firstTime' = [firstTime EXCEPT ![t] = now]
  /\ UNCHANGED << call, running, init, haveFirst, bytes, wav, header >>

NoMorePackets(t) ==
  /\ thread[t] = "packets" /\ ThreadTo(t, "loop")
  /\ UNCHANGED << call, running, init, wav, threadVars >>

\* The file is opened again for it, which may fail
PatchWavHeader(t) ==
  \/ header' = [header EXCEPT ![t] = bytes[t] % SizeMod]
  \/ UNCHANGED header

CloseWav(t) ==
  /\ thread[t] = "close" /\ ThreadTo(t, "ended")
  /\ wav' = [wav EXCEPT ![t] = "closed"]
  /\ IF bytes[t] > 0 THEN PatchWavHeader(t) ELSE UNCHANGED header
  /\ UNCHANGED << call, running, init, haveFirst, firstTime, bytes >>

CaptureThread(t) ==
  \/ InitWasapi(t) \/ InitFails(t) \/ OpenWav(t) \/ LoopAsksRunning(t)
  \/ WriteBuffer(t) \/ StampFirstBuffer(t) \/ NoMorePackets(t) \/ CloseWav(t)
-----------------------------------------------------------------------------
AudioTypeOK ==
  /\ now \in 1 .. MaxTime
  /\ call \in [Tracks -> {"none", "starting", "started", "givingUp", "refused",
                          "stopping", "stopped"}]
  /\ running \in [Tracks -> BOOLEAN] /\ init \in [Tracks -> {"pending", "ok", "failed"}]
  /\ thread \in [Tracks -> {"none", "init", "open", "loop", "packets", "stamp", "close",
                            "ended"}]
  /\ haveFirst \in [Tracks -> BOOLEAN] /\ firstTime \in [Tracks -> 0 .. MaxTime]
  /\ bytes \in [Tracks -> 0 .. MaxBytes]
  /\ wav \in [Tracks -> {"none", "open", "closed"}]
  /\ header \in [Tracks -> 0 .. SizeMod - 1]
=============================================================================
