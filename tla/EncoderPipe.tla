---------------------------- MODULE EncoderPipe ----------------------------
(***************************************************************************)
(* The pipe to ffmpeg and who holds its two ends: StartStreamingEncode,    *)
(* WriteFrame and FinishStreamingEncode of src/Encoder.cpp as the hotkey,  *)
(* feed and finish threads of src/Recorder.cpp call them, and the ffmpeg   *)
(* processes.  A child process inherits every handle of the recorder that  *)
(* is inheritable at that moment, whatever it was made for: the remux that *)
(* a finish thread starts, without the encoder mutex, may come between two *)
(* steps of a start.  End of file and a broken pipe depend on all holders. *)
(*                                                                         *)
(* Sessions, encoders and pipes are numbered by F9 starts.  A frame is     *)
(* FrameChunks pieces, and WriteFile returns when all of them are in.  The *)
(* ring, sound and the log files are left out; that a stop waits for the   *)
(* ring to drain is RecorderSession's matter.                              *)
(***************************************************************************)
EXTENDS Naturals

CONSTANTS MaxSessions,   \* bound: F9 starts
          MaxFrames,     \* bound: frames the feed thread has to write
          FrameChunks,   \* pieces of a frame
          PipeHolds      \* pieces the pipe buffers (kPipeBufferBytes)

ASSUME PipeAssumption ==
  /\ MaxSessions \in Nat /\ MaxFrames \in Nat
  /\ FrameChunks \in Nat \ {0} /\ PipeHolds \in Nat \ {0}

Sessions == 1 .. MaxSessions
None == 0
Recorder == << "recorder", None >>
Encode(s) == << "encode", s >>
Remux(s) == << "remux", s >>
Remuxes == {"remux"} \X Sessions
Children == ({"encode"} \X Sessions) \cup Remuxes

VARIABLES
  session,      \* number of F9 starts so far
  recording,    \* isRecording_
  hot,          \* where the hotkey thread is in StartStreamingEncode
  encoder,      \* encoder_: None or the session that made it
  mutex,        \* encoderMutex_: "free", "start", "feed" or "finish"
  readers,      \* readers[s]: processes with a handle to the read end of pipe s
  writers,      \* writers[s]: ... to its write end
  inheritable,  \* sessions whose stdinWriteHandle_ has HANDLE_FLAG_INHERIT
  buffered,     \* buffered[s]: pieces in pipe s
  proc,         \* proc[p]: the child process p
  feed,         \* the feed thread is in WriteFrame
  left,         \* pieces of its frame that are not in the pipe yet
  frames,       \* frames written so far (bounded by MaxFrames)
  fin           \* fin[s]: where the finish thread of session s is

pipes == << readers, writers, inheritable, buffered >>
hotVars == << session, recording, hot >>
feedVars == << feed, left, frames >>
vars == << hotVars, feedVars, pipes, encoder, mutex, proc, fin >>

Init ==
  /\ session = 0 /\ recording = FALSE /\ hot = "ready"
  /\ encoder = None /\ mutex = "free"
  /\ readers = [s \in Sessions |-> {}] /\ writers = [s \in Sessions |-> {}]
  /\ inheritable = {} /\ buffered = [s \in Sessions |-> 0]
  /\ proc = [p \in Children |-> "none"]
  /\ feed = "idle" /\ left = 0 /\ frames = 0
  /\ fin = [s \in Sessions |-> "none"]

\* lock_guard on encoderMutex_
MutexIgnored == TRUE
MutexFree == mutex = "free"

\* The handles of holders h without those of process p
Without(h, p) == [s \in Sessions |-> h[s] \ {p}]
\* ... and without p's handle to the end of pipe e
Closed(h, p, e) == [s \in Sessions |-> IF s = e THEN h[s] \ {p} ELSE h[s]]

\* CreateProcessW with bInheritHandles: the child gets every inheritable handle
Spawn(p) ==
  /\ proc' = [proc EXCEPT ![p] = "running"]
  /\ readers' = [s \in Sessions |-> IF Recorder \in readers[s] THEN readers[s] \cup {p}
                                    ELSE readers[s]]
  /\ writers' = [s \in Sessions |-> IF Recorder \in writers[s] /\ s \in inheritable
                                    THEN writers[s] \cup {p} ELSE writers[s]]
  /\ UNCHANGED << inheritable, buffered >>

\* A process ends, and the system closes its handles
Ends(p, how) ==
  /\ proc' = [proc EXCEPT ![p] = how]
  /\ readers' = Without(readers, p) /\ writers' = Without(writers, p)
  /\ UNCHANGED << inheritable, buffered >>
-----------------------------------------------------------------------------
(* StartRecording and StartStreamingEncode, on the hotkey thread *)

\* make_unique destroys an encoder that is still there, and with it its write
\* end; CreatePipe makes both ends inheritable
StartCreatePipe ==
  /\ hot = "ready" /\ ~recording /\ session < MaxSessions /\ MutexFree
  /\ session' = session + 1 /\ encoder' = session + 1 /\ mutex' = "start"
  /\ readers' = [readers EXCEPT ![session + 1] = {Recorder}]
  /\ writers' = [Closed(writers, Recorder, encoder) EXCEPT ![session + 1] = {Recorder}]
  /\ inheritable' = inheritable \cup {session + 1}
  /\ hot' = "inherit"
  /\ UNCHANGED << recording, buffered, feedVars, proc, fin >>

StartPipeFails ==
  /\ hot = "ready" /\ ~recording /\ session < MaxSessions /\ MutexFree
  /\ session' = session + 1 /\ encoder' = None
  /\ writers' = Closed(writers, Recorder, encoder)
  /\ UNCHANGED << recording, hot, readers, inheritable, buffered, feedVars, mutex, proc, fin >>

StartLeavesInheritable ==
  /\ hot = "inherit" /\ hot' = "spawn"
  /\ UNCHANGED << session, recording, pipes, feedVars, encoder, mutex, proc, fin >>

StartNotInheritable ==
  /\ hot = "inherit"
  /\ inheritable' = inheritable \ {session}
  /\ hot' = "spawn"
  /\ UNCHANGED << session, recording, readers, writers, buffered, feedVars, encoder,
                  mutex, proc, fin >>

StartSpawn ==
  /\ hot = "spawn"
  /\ Spawn(Encode(session))
  /\ hot' = "close"
  /\ UNCHANGED << session, recording, feedVars, encoder, mutex, fin >>

StartSpawnFailsLeaking ==
  /\ hot = "spawn"
  /\ readers' = Closed(readers, Recorder, session)
  /\ encoder' = None /\ mutex' = "free" /\ hot' = "ready"
  /\ UNCHANGED << session, recording, writers, inheritable, buffered, feedVars, proc, fin >>

\* CreateProcessW fails: both ends are closed and the encoder is reset
StartSpawnFails ==
  /\ hot = "spawn"
  /\ readers' = Closed(readers, Recorder, session)
  /\ writers' = Closed(writers, Recorder, session)
  /\ encoder' = None /\ mutex' = "free" /\ hot' = "ready"
  /\ UNCHANGED << session, recording, inheritable, buffered, feedVars, proc, fin >>

StartKeepsReadEnd ==
  /\ hot = "close"
  /\ mutex' = "free" /\ recording' = TRUE /\ hot' = "ready"
  /\ UNCHANGED << session, pipes, feedVars, encoder, proc, fin >>

\* CloseHandle(stdinReadHandle); StartRecording unlocks and goes on to record
StartCloseReadEnd ==
  /\ hot = "close"
  /\ readers' = Closed(readers, Recorder, session)
  /\ mutex' = "free" /\ recording' = TRUE /\ hot' = "ready"
  /\ UNCHANGED << session, writers, inheritable, buffered, feedVars, encoder, proc, fin >>

Stop ==
  /\ hot = "ready" /\ recording
  /\ recording' = FALSE
  /\ fin' = [fin EXCEPT ![session] = "lock"]
  /\ UNCHANGED << session, hot, feedVars, pipes, encoder, mutex, proc >>
-----------------------------------------------------------------------------
(* WriteFrame, on the feed thread *)

WriteBegin ==
  /\ feed = "idle" /\ frames < MaxFrames /\ MutexFree /\ encoder # None
  /\ mutex' = "feed"
  /\ feed' = "write" /\ left' = FrameChunks /\ frames' = frames + 1
  /\ UNCHANGED << hotVars, pipes, encoder, proc, fin >>

WriteEnds == feed' = "idle" /\ mutex' = "free"

\* The loop of WriteFrame ends when nothing remains
LastChunk == left = 1

\* WriteFile waits for room while anybody could read
WriteChunk ==
  /\ feed = "write" /\ readers[encoder] # {} /\ buffered[encoder] < PipeHolds
  /\ buffered' = [buffered EXCEPT ![encoder] = @ + 1]
  /\ left' = left - 1
  /\ IF LastChunk THEN WriteEnds ELSE UNCHANGED << feed, mutex >>
  /\ UNCHANGED << hotVars, frames, readers, writers, inheritable, encoder, proc, fin >>

\* ... and fails when nobody can
WriteBroken ==
  /\ feed = "write" /\ readers[encoder] = {}
  /\ left' = 0 /\ WriteEnds
  /\ UNCHANGED << hotVars, frames, pipes, encoder, proc, fin >>
-----------------------------------------------------------------------------
(* ffmpeg, which reads its standard input to the end *)

FfmpegReads(s) ==
  /\ proc[Encode(s)] = "running" /\ buffered[s] > 0
  /\ buffered' = [buffered EXCEPT ![s] = @ - 1]
  /\ UNCHANGED << hotVars, feedVars, readers, writers, inheritable, encoder, mutex, proc, fin >>

FfmpegSeesEof(s) ==
  /\ proc[Encode(s)] = "running" /\ buffered[s] = 0 /\ writers[s] = {}
  /\ \E how \in {"ok", "failed"} : Ends(Encode(s), how)
  /\ UNCHANGED << hotVars, feedVars, encoder, mutex, fin >>

FfmpegDies(s) ==
  /\ proc[Encode(s)] = "running"
  /\ Ends(Encode(s), "failed")
  /\ UNCHANGED << hotVars, feedVars, encoder, mutex, fin >>

\* A remux reads files only, and comes to an end by itself
RemuxEnds(s) ==
  /\ proc[Remux(s)] = "running"
  /\ \E how \in {"ok", "failed"} : Ends(Remux(s), how)
  /\ UNCHANGED << hotVars, feedVars, encoder, mutex, fin >>
-----------------------------------------------------------------------------
(* FinishStreamingEncode and RemuxWithAudio, on the finish thread of s *)

FinishClose(s) ==
  /\ fin[s] = "lock" /\ MutexFree /\ encoder # None
  /\ writers' = Closed(writers, Recorder, encoder)
  /\ mutex' = "finish" /\ fin' = [fin EXCEPT ![s] = "wait"]
  /\ UNCHANGED << hotVars, feedVars, readers, inheritable, buffered, encoder, proc >>

FinishNoEncoder(s) ==
  /\ fin[s] = "lock" /\ MutexFree /\ encoder = None
  /\ fin' = [fin EXCEPT ![s] = "done"]
  /\ UNCHANGED << hotVars, feedVars, pipes, encoder, mutex, proc >>

\* ffmpeg has exited; with success, and with sound, a remux follows
FinishWaited(s) ==
  /\ fin[s] = "wait" /\ proc[Encode(encoder)] \in {"ok", "failed"}
  /\ \/ fin' = [fin EXCEPT ![s] = "done"]
     \/ proc[Encode(encoder)] = "ok" /\ fin' = [fin EXCEPT ![s] = "remux"]
  /\ encoder' = None /\ mutex' = "free"
  /\ UNCHANGED << hotVars, feedVars, pipes, proc >>

RemuxSpawn(s) ==
  /\ fin[s] = "remux"
  /\ Spawn(Remux(s))
  /\ fin' = [fin EXCEPT ![s] = "remuxWait"]
  /\ UNCHANGED << hotVars, feedVars, encoder, mutex >>

RemuxOver(s) ==
  /\ \/ fin[s] = "remux"      \* CreateProcessW failed
     \/ fin[s] = "remuxWait" /\ proc[Remux(s)] \in {"ok", "failed"}
  /\ fin' = [fin EXCEPT ![s] = "done"]
  /\ UNCHANGED << hotVars, feedVars, pipes, encoder, mutex, proc >>
-----------------------------------------------------------------------------
InStart ==
  \/ StartNotInheritable \/ StartSpawn \/ StartSpawnFails \/ StartCloseReadEnd

WriteFrame == WriteBegin \/ WriteChunk \/ WriteBroken

Ffmpeg(s) == FfmpegReads(s) \/ FfmpegSeesEof(s)

Finish(s) ==
  \/ FinishClose(s) \/ FinishNoEncoder(s) \/ FinishWaited(s) \/ RemuxSpawn(s) \/ RemuxOver(s)

Next ==
  \/ StartCreatePipe \/ StartPipeFails \/ InStart \/ Stop \/ WriteFrame
  \/ \E s \in Sessions : Ffmpeg(s) \/ FfmpegDies(s) \/ RemuxEnds(s) \/ Finish(s)

\* Fairness: threads inside a call go on; ffmpeg reads, and exits at end of
\* file; a remux ends.  Nobody need press F9 and no ffmpeg need die.
Spec ==
  /\ Init /\ [][Next]_vars
  /\ WF_vars(InStart) /\ WF_vars(WriteFrame)
  /\ \A s \in Sessions : WF_vars(Ffmpeg(s)) /\ WF_vars(RemuxEnds(s)) /\ WF_vars(Finish(s))
-----------------------------------------------------------------------------
TypeOK ==
  /\ session \in 0 .. MaxSessions /\ recording \in BOOLEAN
  /\ hot \in {"ready", "inherit", "spawn", "close"}
  /\ encoder \in 0 .. session /\ mutex \in {"free", "start", "feed", "finish"}
  /\ readers \in [Sessions -> SUBSET (Children \cup {Recorder})]
  /\ writers \in [Sessions -> SUBSET (Children \cup {Recorder})]
  /\ inheritable \subseteq Sessions /\ buffered \in [Sessions -> 0 .. PipeHolds]
  /\ proc \in [Children -> {"none", "running", "ok", "failed"}]
  /\ feed \in {"idle", "write"} /\ left \in 0 .. FrameChunks /\ frames \in 0 .. MaxFrames
  /\ fin \in [Sessions -> {"none", "lock", "wait", "remux", "remuxWait", "done"}]

(***************************************************************************)
(* "Our own write end must NOT be inherited by the child": no ffmpeg that  *)
(* encodes holds a write end of its own or another session's pipe, or the  *)
(* read end of another's.  Only a remux that was started in the middle of  *)
(* a start can hold a stray handle, and it ends by itself.                 *)
(***************************************************************************)
PipeIsPrivate ==
  \A s \in Sessions :
    /\ writers[s] \subseteq {Recorder} \cup Remuxes
    /\ readers[s] \subseteq {Recorder, Encode(s)} \cup Remuxes

(***************************************************************************)
(* The recorder itself keeps no end of a pipe longer than it needs it: the *)
(* read end while it starts ffmpeg, the write end while that encoder is    *)
(* encoder_, also when a step of the start has failed.                     *)
(***************************************************************************)
NoHandleLeft ==
  \A s \in Sessions :
    /\ Recorder \in writers[s] => encoder = s
    /\ Recorder \in readers[s] => s = session /\ hot # "ready"

(***************************************************************************)
(* Every handle of a pipe has the owner the code means it to have, whatever*)
(* is spawned while a start is under way and whichever step fails.         *)
(***************************************************************************)
HandlesOwned == PipeIsPrivate /\ NoHandleLeft

(***************************************************************************)
(* ffmpeg's input ends between two frames, never within one: neither a     *)
(* finish nor a new start closes the pipe the feed thread is writing to.   *)
(***************************************************************************)
ClosedBetweenFrames ==
  [][\A s \in Sessions :
       Recorder \in writers[s] \ writers'[s] => ~(feed = "write" /\ encoder = s)]_vars

(***************************************************************************)
(* Whoever waits with the encoder mutex held waits only for children that  *)
(* run: the feed thread has no reader to wait for but they, the finish     *)
(* thread no writer, the recorder itself is neither, and a process that    *)
(* has ended holds nothing.  This is what makes the two waits end.         *)
(***************************************************************************)
WaitsForRunningChild ==
  /\ feed = "write" => \A p \in readers[encoder] : p \in Children /\ proc[p] = "running"
  /\ \A s \in Sessions : fin[s] = "wait" =>
       \A p \in writers[encoder] : p \in Remuxes /\ proc[p] = "running"

(***************************************************************************)
(* Handles and processes keep the promise of encoder_: an encoder is made  *)
(* when its ffmpeg is spawned, and that ffmpeg's end of file is the moment *)
(* the recorder gives up the last write end it has.                        *)
(***************************************************************************)
BeingMade == hot \in {"inherit", "spawn"}
EncoderUsed == IF BeingMade THEN None ELSE encoder
MutexUser == IF mutex = "start" THEN "free" ELSE mutex
FfmpegState ==
  [s \in Sessions |-> IF proc[Encode(s)] = "running" /\ Recorder \notin writers[s] THEN "eof"
                      ELSE proc[Encode(s)]]
StartsMade == IF BeingMade THEN session - 1 ELSE session
Use == INSTANCE EncoderUse WITH encoder <- EncoderUsed, user <- MutexUser,
                                proc <- FfmpegState, started <- StartsMade
ImplementsEncoderUse == Use!Spec

(***************************************************************************)
(* An ffmpeg that dies does not take the feed thread with it, which holds  *)
(* the encoder mutex while it waits for room in the pipe.                  *)
(***************************************************************************)
WriteReturns == (feed = "write") ~> (feed = "idle")

(***************************************************************************)
(* ffmpeg gets its end of file, and so the wait without a time limit in    *)
(* FinishStreamingEncode ends, whatever was spawned meanwhile.             *)
(***************************************************************************)
StopIsFinished == \A s \in Sessions : (fin[s] = "lock") ~> (fin[s] = "done")
=============================================================================
