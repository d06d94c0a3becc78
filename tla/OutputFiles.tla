---------------------------- MODULE OutputFiles ----------------------------
(***************************************************************************)
(* What a recording leaves on the disk: StartRecording, the first frame,   *)
(* StopRecordingAndEncode and its finish thread of one session, with the   *)
(* audio tracks of AudioTrack, the ffmpeg that encodes and the one that    *)
(* remuxes.  The recorder may be killed at any step (Ctrl+C is the only    *)
(* way out of it); the ffmpeg processes then go on by themselves.          *)
(*                                                                         *)
(* Frames, the ring and the encoder mutex are those of RecorderSession and *)
(* EncoderPipe: here the encoder has at some time taken all of them, and   *)
(* none is left over from another session.  The session is one of several: *)
(* videoFirstFrameTime_ is not reset, so before it is assigned it holds an *)
(* older time, which is Unset as well, and neither is haveLastFrame_, so   *)
(* the first frame of the video may be a repeat of an older one.  Whether  *)
(* there is a frame to repeat, and whether the backend is one of those     *)
(* that repeat it, is left open.                                           *)
(***************************************************************************)
EXTENDS AudioTrack, FiniteSetsExt

VARIABLES
  alive,       \* the recorder's process
  hot,         \* where the hotkey thread is
  isRecording, \* isRecording_
  cap,         \* where the capture thread is
  haveFrame,   \* haveFirstFrameTime_
  frameTime,   \* videoFirstFrameTime_
  begins,      \* what the video begins with: "none", "real" or "repeat"
  shown,       \* when the first frame of the video was put into it
  has,         \* has[t]: haveSysAudio, haveMic
  anchor,      \* anchor[t]: sysAudioFirstBufferTime, micFirstBufferTime
  hasVideo,    \* haveVideoFirstFrame
  videoAnchor, \* videoFirstFrameTime, the local copy
  fin,         \* where the finish thread is
  tracks,      \* the tracks it gave to the remux
  offsets,     \* what it computed: offsets.video, offsets.track[t]
  encode,      \* the ffmpeg that encodes
  remux,       \* the ffmpeg that remuxes
  video,       \* the file gameplay_*.mp4
  remuxed      \* the file gameplay_*_remux.mp4

videoVars == << begins, shown >>
capVars == << cap, haveFrame, frameTime, videoVars >>
stopVars == << has, anchor, hasVideo, videoAnchor >>
planVars == << tracks, offsets >>
files == << video, remuxed >>
recVars == << alive, now, hot, isRecording, capVars, stopVars, fin, planVars, encode, remux,
              files >>
vars == << recVars, audioVars >>

Init ==
  /\ AudioInit /\ now = 1 /\ alive = TRUE
  /\ hot = "ready" /\ isRecording = FALSE
  /\ cap = "top" /\ haveFrame = FALSE /\ frameTime = Unset
  /\ begins = "none" /\ shown = Unset
  /\ has = [t \in Tracks |-> FALSE] /\ anchor = [t \in Tracks |-> Unset]
  /\ hasVideo = FALSE /\ videoAnchor = Unset
  /\ fin = "none" /\ tracks = {}
  /\ offsets = [video |-> 0, track |-> [t \in Tracks |-> 0]]
  /\ encode = "none" /\ remux = "none" /\ video = "none" /\ remuxed = "none"

\* Time passes; nobody reads the clock of a dead process
Tick ==
  /\ alive /\ now < MaxTime /\ now' = now + 1
  /\ UNCHANGED << alive, hot, isRecording, capVars, stopVars, fin, planVars, encode, remux,
                  files, audioVars >>

\* The end of the process ends its threads and closes the encoder's stdin
Killed ==
  /\ alive /\ alive' = FALSE /\ cap' = "top"
  /\ encode' = IF encode = "running" THEN "eof" ELSE encode
  /\ UNCHANGED << now, hot, isRecording, haveFrame, frameTime, videoVars, stopVars, fin,
                  planVars, remux, files, audioVars >>
-----------------------------------------------------------------------------
(* StartRecording *)

StartEncoder ==
  /\ alive /\ hot = "ready"
  /\ encode' = "running" /\ video' = "partial" /\ hot' = "audio"
  /\ UNCHANGED << alive, now, isRecording, capVars, stopVars, fin, planVars, remux, remuxed,
                  audioVars >>

\* The system track comes first
Past(c) == c \in {"started", "refused"}
MyTurn(t) == t = "mic" => Past(call["system"])

StartTrack(t) ==
  /\ alive /\ hot = "audio" /\ MyTurn(t)
  /\ StartThread(t) \/ Started(t) \/ StartGivesUp(t) \/ StartRefused(t)
  /\ UNCHANGED recVars

StartFlag ==
  /\ alive /\ hot = "audio" /\ \A t \in Tracks : Past(call[t])
  /\ isRecording' = TRUE /\ hot' = "recording"
  /\ UNCHANGED << alive, now, capVars, stopVars, fin, planVars, encode, remux, files,
                  audioVars >>
-----------------------------------------------------------------------------
(* CaptureLoop, as far as the first frames of the session go *)

CapSample ==
  /\ alive /\ cap = "top" /\ isRecording
  /\ cap' = "call"
  /\ UNCHANGED << alive, now, hot, isRecording, haveFrame, frameTime, videoVars, stopVars, fin,
                  planVars, encode, remux, files, audioVars >>

\* An iteration that changes nothing here: no frame and none to repeat, the
\* ring is full, or the video has its first frame and the session its time
CapNothing ==
  /\ alive /\ cap = "call"
  /\ cap' = "top"
  /\ UNCHANGED << alive, now, hot, isRecording, haveFrame, frameTime, videoVars, stopVars, fin,
                  planVars, encode, remux, files, audioVars >>

\* No frame comes to a backend that is polled: the cached one, whichever
\* session it is from, goes into the video, and its time is not taken
CapBackfill ==
  /\ alive /\ cap = "call" /\ begins = "none"
  /\ begins' = "repeat" /\ shown' = now /\ cap' = "top"
  /\ UNCHANGED << alive, now, hot, isRecording, haveFrame, frameTime, stopVars, fin,
                  planVars, encode, remux, files, audioVars >>

\* The first real frame is in the ring and wins the compare-exchange
CapFirstFrame ==
  /\ alive /\ cap = "call" /\ ~haveFrame
  /\ haveFrame' = TRUE /\ cap' = "stamp"
  /\ begins' = IF begins = "none" THEN "real" ELSE begins
  /\ UNCHANGED << alive, now, hot, isRecording, frameTime, shown, stopVars, fin, planVars,
                  encode, remux, files, audioVars >>

\* ... and its time, which is taken for that of the push, is assigned
CapStamp ==
  /\ alive /\ cap = "stamp"
  /\ frameTime' = now /\ cap' = "top"
  /\ shown' = IF begins = "real" THEN now ELSE shown
  /\ UNCHANGED << alive, now, hot, isRecording, haveFrame, begins, stopVars, fin,
                  planVars, encode, remux, files, audioVars >>

AudioThread(t) == alive /\ CaptureThread(t) /\ UNCHANGED recVars
-----------------------------------------------------------------------------
(* StopRecordingAndEncode *)

StopFlag ==
  /\ alive /\ hot = "recording"
  /\ isRecording' = FALSE /\ hot' = "stopAudio"
  /\ UNCHANGED << alive, now, capVars, stopVars, fin, planVars, encode, remux, files,
                  audioVars >>

Settled(c) == c \in {"stopped", "refused"}

\* HasFirstBuffer, FirstBufferTime, and Stop, for the tracks that started
StopTrack(t) ==
  /\ alive /\ hot = "stopAudio"
  /\ t = "mic" => Settled(call["system"])
  /\ StopRunning(t)
  /\ has' = [has EXCEPT ![t] = haveFirst[t]]
  /\ anchor' = [anchor EXCEPT ![t] = IF haveFirst[t] THEN firstTime[t] ELSE @]
  /\ UNCHANGED << alive, now, hot, isRecording, capVars, hasVideo, videoAnchor, fin, planVars,
                  encode, remux, files >>

StopJoins(t) ==
  /\ alive /\ hot = "stopAudio"
  /\ JoinStopped(t)
  /\ UNCHANGED recVars

StopSpawnFinish ==
  /\ alive /\ hot = "stopAudio" /\ \A t \in Tracks : Settled(call[t])
  /\ hasVideo' = haveFrame /\ videoAnchor' = frameTime
  /\ hot' = "done" /\ fin' = "drain"
  /\ UNCHANGED << alive, now, isRecording, capVars, has, anchor, planVars, encode, remux,
                  files, audioVars >>
-----------------------------------------------------------------------------
(* ffmpeg *)

EncodeExits ==
  /\ encode \in {"running", "eof"}
  /\ \/ encode' = "failed" /\ UNCHANGED video
     \/ encode = "eof" /\ encode' = "ok" /\ video' = "plain"
  /\ UNCHANGED << alive, now, hot, isRecording, capVars, stopVars, fin, planVars, remux,
                  remuxed, audioVars >>

\* Its input is there to read: only the finish thread removes it, afterwards
RemuxExits ==
  /\ remux = "running"
  /\ \/ remux' = "failed" /\ UNCHANGED remuxed
     \/ remux' = "ok" /\ remuxed' = "muxed"
  /\ UNCHANGED << alive, now, hot, isRecording, capVars, stopVars, fin, planVars, encode,
                  video, audioVars >>
-----------------------------------------------------------------------------
(* The finish thread *)

Finish(from, to) == alive /\ fin = from /\ fin' = to
FinishKeeps == << alive, now, hot, isRecording, capVars, stopVars, audioVars >>

FinishWithoutClose ==
  /\ Finish("drain", "wait")
  /\ UNCHANGED << FinishKeeps, planVars, encode, remux, files >>

FinishCloseStdin ==
  /\ Finish("drain", "wait")
  /\ encode' = IF encode = "running" THEN "eof" ELSE encode
  /\ UNCHANGED << FinishKeeps, planVars, remux, files >>

FinishNoRemux ==
  /\ Finish("wait", "done")
  /\ encode \in {"ok", "failed"} /\ (encode = "failed" \/ \A t \in Tracks : ~has[t])
  /\ UNCHANGED << FinishKeeps, planVars, encode, remux, files >>

Raw(t) == anchor[t] - videoAnchor
Heard == {t \in Tracks : has[t]}
Aligned == IF hasVideo THEN Heard ELSE {}
MinOfTracks == IF Aligned = {} THEN 0 ELSE Min({Raw(t) : t \in Aligned})
MinRaw == Min({0} \cup {Raw(t) : t \in Aligned})

FinishOffsets ==
  /\ Finish("wait", "spawn") /\ encode = "ok" /\ Heard # {}
  /\ tracks' = Aligned
  /\ offsets' = [video |-> -MinRaw,
                 track |-> [t \in Tracks |-> IF t \in Aligned THEN Raw(t) - MinRaw ELSE 0]]
  /\ UNCHANGED << FinishKeeps, encode, remux, files >>

FinishSpawnRemux ==
  /\ Finish("spawn", "remux")
  /\ remux' = "running" /\ remuxed' = "partial"
  /\ UNCHANGED << FinishKeeps, planVars, encode, video >>

FinishSpawnFails ==
  /\ Finish("spawn", "done")
  /\ UNCHANGED << FinishKeeps, planVars, encode, remux, files >>

RemuxEnded == remux \in {"ok", "failed"}
RemuxOk == remux = "ok"

FinishRemuxed ==
  /\ Finish("remux", "deleteVideo") /\ RemuxOk
  /\ UNCHANGED << FinishKeeps, planVars, encode, remux, files >>

FinishRemuxFailed ==
  /\ Finish("remux", "done") /\ remux = "failed"
  /\ UNCHANGED << FinishKeeps, planVars, encode, remux, files >>

\* A file may be in use, and then stays; nobody looks
FinishDeleteVideo ==
  /\ Finish("deleteVideo", "deleteWavs")
  /\ video' \in {video, "none"}
  /\ UNCHANGED << FinishKeeps, planVars, encode, remux, remuxed >>

AlsoSilent(t) == TRUE
Deletable(t) == has[t]

FinishDeleteWavs ==
  /\ Finish("deleteWavs", "move")
  /\ \E D \in SUBSET {t \in Tracks : Deletable(t)} :
       wav' = [t \in Tracks |-> IF t \in D THEN "none" ELSE wav[t]]
  /\ UNCHANGED << alive, now, hot, isRecording, capVars, stopVars, planVars, encode, remux,
                  files, call, running, init, thread, threadVars >>

FinishMove ==
  /\ Finish("move", "done")
  /\ \/ video' = remuxed /\ remuxed' = "none"
     \/ UNCHANGED files
  /\ UNCHANGED << FinishKeeps, planVars, encode, remux >>
-----------------------------------------------------------------------------
Start == StartEncoder \/ (\E t \in Tracks : StartTrack(t)) \/ StartFlag
Stop == StopFlag \/ (\E t \in Tracks : StopTrack(t) \/ StopJoins(t)) \/ StopSpawnFinish
Capture ==
  \/ CapSample \/ CapNothing \/ CapBackfill \/ CapFirstFrame \/ CapStamp
FinishThread ==
  \/ FinishCloseStdin \/ FinishNoRemux \/ FinishOffsets \/ FinishSpawnRemux
  \/ FinishSpawnFails \/ FinishRemuxed \/ FinishRemuxFailed \/ FinishDeleteVideo
  \/ FinishDeleteWavs \/ FinishMove

Next ==
  \/ Tick \/ Killed \/ Start \/ Stop \/ Capture
  \/ \E t \in Tracks : AudioThread(t)
  \/ EncodeExits \/ RemuxExits \/ FinishThread

\* Fairness: the threads run, WASAPI's set-up returns, a device delivers no
\* faster than the thread writes, so that it does not write buffers for ever,
\* and ffmpeg exits after the end of its input; nobody need press F9
HotkeyGoesOn == hot \in {"audio", "stopAudio"} /\ (Start \/ Stop)
AudioGoesOn(t) == AudioThread(t) /\ thread'[t] # thread[t]
Fairness ==
  /\ WF_vars(HotkeyGoesOn) /\ \A t \in Tracks : WF_vars(AudioGoesOn(t))
  /\ WF_vars(FinishThread) /\ WF_vars(encode = "eof" /\ EncodeExits) /\ WF_vars(RemuxExits)

Spec == Init /\ [][Next]_vars /\ Fairness
-----------------------------------------------------------------------------
TypeOK ==
  /\ AudioTypeOK
  /\ alive \in BOOLEAN /\ isRecording \in BOOLEAN
  /\ hot \in {"ready", "audio", "recording", "stopAudio", "done"}
  /\ cap \in {"top", "call", "stamp"} /\ haveFrame \in BOOLEAN /\ frameTime \in 0 .. MaxTime
  /\ begins \in {"none", "real", "repeat"} /\ shown \in 0 .. MaxTime
  /\ has \in [Tracks -> BOOLEAN] /\ anchor \in [Tracks -> 0 .. MaxTime]
  /\ hasVideo \in BOOLEAN /\ videoAnchor \in 0 .. MaxTime
  /\ fin \in {"none", "drain", "wait", "spawn", "remux", "deleteVideo", "deleteWavs",
              "move", "done"}
  /\ tracks \in SUBSET Tracks
  /\ offsets \in [video : 0 .. MaxTime, track : [Tracks -> 0 .. 2 * MaxTime]]
  /\ encode \in {"none", "running", "eof", "ok", "failed"}
  /\ remux \in {"none", "running", "ok", "failed"}
  /\ video \in {"none", "partial", "plain", "muxed"}
  /\ remuxed \in {"none", "partial", "muxed"}

(***************************************************************************)
(* Once ffmpeg has finished the video, a complete file has its picture,    *)
(* whatever fails and whenever the recorder is killed.                     *)
(***************************************************************************)
PictureSurvives == encode = "ok" => video \in {"plain", "muxed"} \/ remuxed = "muxed"

(***************************************************************************)
(* Sound that was written is on the disk: in its WAV file or in a complete *)
(* video.  The code breaks this when a track has data and the video no     *)
(* first-frame time: the remux then leaves the track out, and the file is  *)
(* deleted as if it were in.  A track the remux was given counts as in the *)
(* video although the end of one with SizeMod buffers or more is not: its  *)
(* header cuts it.                                                         *)
(***************************************************************************)
InVideo(t) == t \in tracks /\ (video = "muxed" \/ remuxed = "muxed")
SoundSurvives ==
  \A t \in Tracks :
    bytes[t] > 0 => wav[t] # "none" \/ InVideo(t) \/ (has[t] /\ ~hasVideo)

(***************************************************************************)
(* Every WAV file the remux reads is finished: its thread has closed it,   *)
(* there is something in it, and its header says how much, or nothing when *)
(* it could not be opened again.  From SizeMod on the header is wrong.     *)
(***************************************************************************)
WavReadyForRemux ==
  remux = "running" =>
    \A t \in tracks :
      /\ thread[t] = "ended" /\ wav[t] = "closed" /\ bytes[t] > 0
      /\ bytes[t] < SizeMod => header[t] \in {0, bytes[t]}

\* -itsoffset is only given when it is positive
Shift(x) == IF x > 0 THEN x ELSE 0

(***************************************************************************)
(* In the video each track is as far from the first picture as it was in   *)
(* the recording, and one of them begins at 0.  The code breaks this when  *)
(* a time is read before it is assigned, and when the video begins with a  *)
(* repeated frame, whose time is not taken: the sound is then too early,   *)
(* but never too late.                                                     *)
(***************************************************************************)
InSync ==
  fin \in {"spawn", "remux"} =>
    /\ \A t \in tracks :
         LET inVideo == Shift(offsets.track[t]) - Shift(offsets.video)
             recorded == firstTime[t] - shown
         IN anchor[t] # Unset /\ videoAnchor # Unset =>
              /\ inVideo <= recorded
              /\ begins = "real" => inVideo = recorded
    /\ Shift(offsets.video) = 0 \/ \E t \in tracks : Shift(offsets.track[t]) = 0

\* StartRecording comes back, although a set-up may fail or take too long
StartReturns == (hot = "audio") ~> (hot # "audio" \/ ~alive)

\* A stop ends: with the threads joined and the files in place
StopEnds == (hot = "stopAudio") ~> (fin = "done" \/ ~alive)
=============================================================================
