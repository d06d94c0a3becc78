----------------------------- MODULE EncoderUse -----------------------------
(***************************************************************************)
(* What encoder_ and encoderMutex_ of include/Recorder.h promise to the    *)
(* hotkey, feed and finish threads: an encoder is made and thrown away     *)
(* only while nobody uses it, one thread at a time writes to it or         *)
(* finishes it, and a finish returns with ffmpeg gone and no encoder left. *)
(* RecorderSession implements this with the ring, the flags and the        *)
(* threads of a session, EncoderPipe with handles and processes.           *)
(*                                                                         *)
(* An encoder is named by the F9 start that made it; making one is the     *)
(* lock_guard block of StartRecording, where the old one goes first.       *)
(***************************************************************************)
EXTENDS Naturals

CONSTANT MaxSessions   \* bound: F9 starts

Sessions == 1 .. MaxSessions
None == 0

VARIABLES
  encoder,   \* encoder_: None or the start that made it
  user,      \* who holds encoderMutex_: "free", "feed" or "finish"
  proc,      \* proc[s]: its ffmpeg, "eof" once its stdin is closed
  started    \* starts that have reached the encoder

vars == << encoder, user, proc, started >>

Init ==
  /\ encoder = None /\ user = "free" /\ started = 0
  /\ proc = [s \in Sessions |-> "none"]

StdinClosed == [s \in Sessions |-> IF s = encoder /\ proc[s] = "running" THEN "eof" ELSE proc[s]]

\* make_unique destroys the encoder that is still there
Drop ==
  /\ user = "free" /\ encoder' = None /\ proc' = StdinClosed
  /\ UNCHANGED << user, started >>

Renew ==
  /\ user = "free" /\ started < MaxSessions
  /\ started' = started + 1 /\ encoder' = started + 1
  /\ \E how \in {"running", "failed"} : proc' = [StdinClosed EXCEPT ![started + 1] = how]
  /\ UNCHANGED user

RenewFails ==
  /\ user = "free" /\ started < MaxSessions
  /\ started' = started + 1 /\ encoder' = None /\ proc' = StdinClosed
  /\ UNCHANGED user

BeginWrite ==
  /\ user = "free" /\ encoder # None /\ user' = "feed"
  /\ UNCHANGED << encoder, proc, started >>

EndWrite == user = "feed" /\ user' = "free" /\ UNCHANGED << encoder, proc, started >>

BeginFinish ==
  /\ user = "free" /\ encoder # None /\ user' = "finish"
  /\ proc' = StdinClosed
  /\ UNCHANGED << encoder, started >>

EndFinish ==
  /\ user = "finish" /\ proc[encoder] \in {"ok", "failed"}
  /\ user' = "free" /\ encoder' = None
  /\ UNCHANGED << proc, started >>

\* ffmpeg dies, or exits at its end of file
FfmpegEnds(s) ==
  /\ \/ proc[s] = "running" /\ proc' = [proc EXCEPT ![s] = "failed"]
     \/ proc[s] = "eof" /\ \E how \in {"ok", "failed"} : proc' = [proc EXCEPT ![s] = how]
  /\ UNCHANGED << encoder, user, started >>

Next ==
  \/ Drop \/ Renew \/ RenewFails
  \/ BeginWrite \/ EndWrite \/ BeginFinish \/ EndFinish
  \/ \E s \in Sessions : FfmpegEnds(s)

Spec == Init /\ [][Next]_vars
=============================================================================
