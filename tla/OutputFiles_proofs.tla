------------------------- MODULE OutputFiles_proofs -------------------------
(***************************************************************************)
(* What a recording leaves on the disk, for any clock and any number of    *)
(* buffers, with and without a microphone, wherever the recorder is killed *)
(* and whichever ffmpeg, deletion or move fails.                           *)
(***************************************************************************)
EXTENDS OutputFiles, TLAPS

\* Stages of the finish thread: before the remux, and with the video in place
BeforeRemux == {"none", "drain", "wait", "spawn"}
VideoInPlace == BeforeRemux \cup {"remux", "deleteVideo"}
Deleting == {"deleteVideo", "deleteWavs", "move"}
Remuxing == {"spawn", "remux"} \cup Deleting
Stages == BeforeRemux \cup {"remux", "done"} \cup Deleting
-----------------------------------------------------------------------------
(* The video *)

FilesInv ==
  /\ fin \in Stages
  /\ encode = "none" <=> hot = "ready"
  /\ fin # "none" <=> hot = "done"
  /\ fin \in Remuxing => encode = "ok"
  /\ fin = "done" => encode \in {"ok", "failed"}
  /\ fin \in BeforeRemux => remux = "none"
  /\ remux = "running" => fin = "remux"
  /\ fin \in Deleting => remux = "ok"
  /\ fin \in VideoInPlace /\ encode = "ok" => video = "plain"
  /\ remux = "ok" /\ fin # "done" => remuxed = "muxed"
  /\ PictureSurvives

LEMMA FilesInit == Init => FilesInv
BY DEF Init, FilesInv, PictureSurvives, Stages, BeforeRemux, Remuxing, Deleting, VideoInPlace

\* Steps of the recording and of its audio tracks do not touch the files
LEMMA FilesRecording ==
  ASSUME FilesInv, Tick \/ Start \/ Stop \/ Capture \/ \E t \in Tracks : AudioThread(t)
  PROVE FilesInv'
<1> USE DEF FilesInv, PictureSurvives, Stages, BeforeRemux, Remuxing, Deleting, VideoInPlace
<1>1. CASE StartEncoder
  BY <1>1 DEF StartEncoder
<1>2. CASE StopSpawnFinish
  BY <1>2 DEF StopSpawnFinish, files
<1>3. CASE StartFlag \/ StopFlag
  BY <1>3 DEF StartFlag, StopFlag, files
<1>4. CASE UNCHANGED << hot, fin, encode, remux, files >>
  BY <1>4 DEF files
<1> QED
  BY <1>1, <1>2, <1>3, <1>4
     DEF Tick, Start, StartTrack, Stop, StopTrack, StopJoins, Capture, CapSample, CapNothing,
         CapBackfill, CapFirstFrame, CapStamp, AudioThread, recVars

\* The end of the recorder, and of an ffmpeg
LEMMA FilesProcesses ==
  ASSUME FilesInv, Killed \/ EncodeExits \/ RemuxExits
  PROVE FilesInv'
<1> USE DEF FilesInv, PictureSurvives, Stages, BeforeRemux, Remuxing, Deleting, VideoInPlace
<1>1. CASE Killed
  BY <1>1 DEF Killed, files
<1>2. CASE EncodeExits
  BY <1>2 DEF EncodeExits
<1>3. CASE RemuxExits
  BY <1>3 DEF RemuxExits
<1> QED  BY <1>1, <1>2, <1>3

\* Every stage of the finish thread finds what the one before has left
LEMMA FilesFinish ==
  ASSUME FilesInv, FinishThread
  PROVE FilesInv'
<1> USE DEF FilesInv, PictureSurvives, Stages, BeforeRemux, Remuxing, Deleting, VideoInPlace,
            Finish, FinishKeeps, files
<1>1. CASE FinishCloseStdin
  BY <1>1 DEF FinishCloseStdin
<1>2. CASE FinishNoRemux
  BY <1>2 DEF FinishNoRemux
<1>3. CASE FinishOffsets
  BY <1>3 DEF FinishOffsets
<1>4. CASE FinishSpawnRemux \/ FinishSpawnFails
  BY <1>4 DEF FinishSpawnRemux, FinishSpawnFails
<1>5. CASE FinishRemuxed \/ FinishRemuxFailed
  BY <1>5 DEF FinishRemuxed, FinishRemuxFailed, RemuxOk
<1>6. CASE FinishDeleteVideo
  BY <1>6 DEF FinishDeleteVideo
<1>7. CASE FinishDeleteWavs
  BY <1>7 DEF FinishDeleteWavs
<1>8. CASE FinishMove
  BY <1>8 DEF FinishMove
<1> QED
  BY <1>1, <1>2, <1>3, <1>4, <1>5, <1>6, <1>7, <1>8 DEF FinishThread

LEMMA FilesNext == FilesInv /\ [Next]_vars => FilesInv'
<1>1. SUFFICES ASSUME FilesInv, [Next]_vars PROVE FilesInv'
  OBVIOUS
<1>2. CASE UNCHANGED vars
  BY <1>1, <1>2 DEF FilesInv, PictureSurvives, vars, recVars, files
<1>3. CASE Next
  BY <1>1, <1>3, FilesRecording, FilesProcesses, FilesFinish DEF Next
<1> QED  BY <1>1, <1>2, <1>3

LEMMA FilesInvariant == Spec => []FilesInv
BY FilesInit, FilesNext, PTL DEF Spec

(***************************************************************************)
(* The picture of a recording that ffmpeg finished is never lost: the      *)
(* finish thread deletes a file only when another one is complete.         *)
(***************************************************************************)
THEOREM PictureAlwaysSurvives == Spec => []PictureSurvives
<1>1. FilesInv => PictureSurvives
  BY DEF FilesInv
<1> QED  BY <1>1, FilesInvariant, PTL
-----------------------------------------------------------------------------
(* The sound *)

SoundTypes ==
  /\ call \in [Tracks -> {"none", "starting", "started", "givingUp", "refused", "stopping",
                          "stopped"}]
  /\ thread \in [Tracks -> {"none", "init", "open", "loop", "packets", "stamp", "close",
                            "ended"}]
  /\ wav \in [Tracks -> {"none", "open", "closed"}]
  /\ bytes \in [Tracks -> Nat] /\ header \in [Tracks -> Int]
  /\ haveFirst \in [Tracks -> BOOLEAN] /\ has \in [Tracks -> BOOLEAN]

\* What the thread of a track has made of its file
FileOfThread(t) ==
  /\ thread[t] \in {"none", "init", "open"} => bytes[t] = 0 /\ wav[t] = "none"
  /\ thread[t] \in {"loop", "packets", "stamp", "close"} => wav[t] = "open"
  /\ thread[t] # "ended" => header[t] = 0
  /\ thread[t] = "ended" => header[t] \in {0, bytes[t] % SizeMod}
  /\ thread[t] = "ended" /\ bytes[t] > 0 /\ fin \notin {"move", "done"} => wav[t] = "closed"
  /\ haveFirst[t] <=> bytes[t] > 0

\* The recorder's view of it: a track is joined before the files are looked at
TrackJoined(t) ==
  /\ call[t] = "none" => thread[t] = "none"
  /\ Settled(call[t]) => thread[t] = "ended"
  /\ fin # "none" => Settled(call[t])
  /\ has[t] => haveFirst[t]

SoundInv ==
  /\ SoundTypes
  /\ \A t \in Tracks : FileOfThread(t) /\ TrackJoined(t)
  /\ fin \in Remuxing => tracks = Aligned
  /\ SoundSurvives

LEMMA SoundInit == Init => SoundInv
<1>1. SUFFICES ASSUME Init PROVE SoundInv
  OBVIOUS
<1>2. SoundTypes
  BY <1>1 DEF Init, AudioInit, SoundTypes
<1>3. \A t \in Tracks : FileOfThread(t) /\ TrackJoined(t)
  BY <1>1 DEF Init, AudioInit, FileOfThread, TrackJoined, Settled
<1> QED
  BY <1>1, <1>2, <1>3
     DEF Init, AudioInit, SoundInv, SoundSurvives, Remuxing, Deleting

\* A step on one track, before the finish thread is there
LEMMA TrackStep ==
  ASSUME SoundInv, NEW t \in Tracks, fin = "none", fin' = "none",
         SoundTypes',
         FileOfThread(t)', TrackJoined(t)',
         \A u \in Tracks \ {t} :
           /\ call'[u] = call[u] /\ thread'[u] = thread[u] /\ wav'[u] = wav[u]
           /\ bytes'[u] = bytes[u] /\ header'[u] = header[u]
           /\ haveFirst'[u] = haveFirst[u] /\ has'[u] = has[u]
  PROVE SoundInv'
<1>1. \A u \in Tracks : FileOfThread(u)' /\ TrackJoined(u)'
  BY DEF SoundInv, FileOfThread, TrackJoined
<1>2. \A u \in Tracks : bytes'[u] > 0 => wav'[u] # "none"
  BY <1>1 DEF FileOfThread, SoundTypes
<1> QED  BY <1>1, <1>2 DEF SoundInv, SoundSurvives, Remuxing, Deleting

LEMMA SoundStart ==
  ASSUME FilesInv, SoundInv, NEW t \in Tracks, StartTrack(t)
  PROVE SoundInv'
<1>1. fin = "none" /\ fin' = "none"
  BY DEF StartTrack, FilesInv, recVars
<1>2. UNCHANGED << wav, bytes, header, haveFirst, has >>
  BY DEF StartTrack, StartThread, Started, StartGivesUp, StartRefused, threadVars, recVars,
     stopVars
<1>3. SoundTypes'
  BY <1>2 DEF SoundInv, SoundTypes, StartTrack, StartThread, Started, StartGivesUp,
              StartRefused, CallIs, ThreadTo
<1>4. FileOfThread(t)' /\ TrackJoined(t)'
  BY <1>1, <1>2 DEF SoundInv, SoundTypes, FileOfThread, TrackJoined, Settled, StartTrack,
                    StartThread, Started, StartGivesUp, StartRefused, CallIs, ThreadTo
<1>5. \A u \in Tracks \ {t} : call'[u] = call[u] /\ thread'[u] = thread[u]
  BY DEF SoundInv, SoundTypes, StartTrack, StartThread, Started, StartGivesUp, StartRefused,
     CallIs, ThreadTo
<1> QED  BY <1>1, <1>2, <1>3, <1>4, <1>5, TrackStep

LEMMA SoundStop ==
  ASSUME FilesInv, SoundInv, NEW t \in Tracks, StopTrack(t) \/ StopJoins(t)
  PROVE SoundInv'
<1>1. fin = "none" /\ fin' = "none"
  BY DEF StopTrack, StopJoins, FilesInv, recVars
<1>2. UNCHANGED << thread, wav, bytes, header, haveFirst >>
  BY DEF StopTrack, StopJoins, StopRunning, JoinStopped, threadVars
<1>3. SoundTypes'
  BY <1>2 DEF SoundInv, SoundTypes, StopTrack, StopJoins, StopRunning, JoinStopped, CallIs,
              recVars, stopVars
<1>4. FileOfThread(t)' /\ TrackJoined(t)'
  BY <1>1, <1>2 DEF SoundInv, SoundTypes, FileOfThread, TrackJoined, Settled, StopTrack,
                    StopJoins, StopRunning, JoinStopped, CallIs, recVars, stopVars
<1>5. \A u \in Tracks \ {t} : call'[u] = call[u] /\ has'[u] = has[u]
  BY DEF SoundInv, SoundTypes, StopTrack, StopJoins, StopRunning, JoinStopped, CallIs, recVars,
     stopVars
<1> QED  BY <1>1, <1>2, <1>3, <1>4, <1>5, TrackStep

\* A thread that was joined takes no step any more
LEMMA SoundThread ==
  ASSUME FilesInv, SoundInv, AudioAssumption, NEW t \in Tracks, AudioThread(t)
  PROVE SoundInv'
<1> USE DEF CaptureThread, InitWasapi, InitFails, OpenWav, LoopAsksRunning, WriteBuffer,
            StampFirstBuffer, NoMorePackets, CloseWav, PatchWavHeader, ThreadTo, threadVars
<1>1. thread[t] # "ended" /\ UNCHANGED << recVars, call >>
  BY DEF AudioThread
<1>2. fin = "none" /\ fin' = "none" /\ UNCHANGED has
  BY <1>1 DEF SoundInv, TrackJoined, recVars, stopVars
<1>3. SoundTypes'
  <2>1. call' \in [Tracks -> {"none", "starting", "started", "givingUp", "refused", "stopping",
                             "stopped"}] /\ has' \in [Tracks -> BOOLEAN]
    BY <1>1, <1>2 DEF SoundInv, SoundTypes
  <2>2. /\ thread' \in [Tracks -> {"none", "init", "open", "loop", "packets", "stamp", "close",
                                   "ended"}]
        /\ wav' \in [Tracks -> {"none", "open", "closed"}]
    BY DEF AudioThread, SoundInv, SoundTypes
  <2>3. CASE WriteBuffer(t)
    <3>1. /\ bytes' \in [Tracks -> Nat]
          /\ haveFirst' = [haveFirst EXCEPT ![t] = TRUE] /\ header' = header
      BY <2>3 DEF SoundInv, SoundTypes
    <3> QED  BY <2>1, <2>2, <3>1 DEF SoundInv, SoundTypes
  <2>4. CASE CloseWav(t)
    <3>1. bytes[t] % SizeMod \in Int
      BY AudioAssumption DEF SoundInv, SoundTypes, AudioAssumption
    <3>2. header' \in [Tracks -> Int] /\ bytes' = bytes /\ haveFirst' = haveFirst
      BY <2>4, <3>1 DEF SoundInv, SoundTypes
    <3> QED  BY <2>1, <2>2, <3>2 DEF SoundInv, SoundTypes
  <2>5. CASE UNCHANGED << bytes, header, haveFirst >>
    BY <2>1, <2>2, <2>5 DEF SoundInv, SoundTypes
  <2> QED  BY <2>3, <2>4, <2>5 DEF AudioThread
<1>4. FileOfThread(t)'
  <2> USE DEF SoundInv, SoundTypes, FileOfThread
  <2>1. CASE WriteBuffer(t)
    <3>1. /\ haveFirst'[t] = TRUE /\ header'[t] = header[t]
          /\ wav'[t] = wav[t] /\ thread'[t] \in {"packets", "stamp"} /\ bytes[t] \in Nat
      BY <2>1
    <3>2. bytes'[t] \in Nat /\ bytes'[t] > 0
      BY <2>1 DEF AudioAssumption
    <3> QED  BY <2>1, <3>1, <3>2
  <2>2. CASE CloseWav(t)
    <3>1. /\ thread[t] = "close" /\ thread'[t] = "ended" /\ wav'[t] = "closed"
          /\ bytes' = bytes /\ haveFirst' = haveFirst
      BY <2>2
    <3>2. header'[t] \in {header[t], bytes[t] % SizeMod}
      BY <2>2
    <3> QED  BY <3>1, <3>2
  <2>3. CASE InitWasapi(t) \/ InitFails(t) \/ OpenWav(t)
    <3>1. thread[t] \in {"init", "open"}
      BY <2>3
    <3>4. bytes[t] = 0 /\ header[t] = 0 /\ FileOfThread(t)
      BY <3>1
    <3>2. UNCHANGED << bytes, header, haveFirst >>
      BY <2>3
    <3>3. \/ thread'[t] = "open" /\ wav[t] = "none" /\ wav' = wav
          \/ thread'[t] = "ended" /\ wav' = wav
          \/ thread'[t] = "loop" /\ wav'[t] = "open"
      BY <2>3
    <3> QED  BY <3>1, <3>2, <3>3, <3>4
  <2>4. CASE LoopAsksRunning(t) \/ StampFirstBuffer(t) \/ NoMorePackets(t)
    BY <2>4
  <2> QED  BY <2>1, <2>2, <2>3, <2>4 DEF AudioThread
<1>5. TrackJoined(t)'
  BY <1>1, <1>2 DEF AudioThread, SoundInv, SoundTypes, TrackJoined, Settled
<1>6. \A u \in Tracks \ {t} :
        /\ call'[u] = call[u] /\ thread'[u] = thread[u] /\ wav'[u] = wav[u]
        /\ bytes'[u] = bytes[u] /\ header'[u] = header[u]
        /\ haveFirst'[u] = haveFirst[u] /\ has'[u] = has[u]
  BY <1>1, <1>2 DEF AudioThread, SoundInv, SoundTypes
<1> QED  BY <1>2, <1>3, <1>4, <1>5, <1>6, TrackStep

\* Steps that leave the tracks alone, and what the remux was told of them
LEMMA SoundKept ==
  ASSUME FilesInv, SoundInv, fin' \in Stages,
         UNCHANGED << audioVars, has, hasVideo, tracks >>,
         \/ fin' = fin
         \/ /\ fin \notin {"none", "move", "done"} /\ fin' # "none"
            /\ fin' \in Remuxing => fin \in Remuxing,
         fin' \in {"move", "done"} =>
           \A t \in Tracks : InVideo(t) => InVideo(t)'
  PROVE SoundInv'
<1>1. SoundTypes'
  BY DEF SoundInv, SoundTypes, audioVars, threadVars
<1>2. \A t \in Tracks : FileOfThread(t)'
  BY DEF SoundInv, FileOfThread, audioVars, threadVars, FilesInv, Stages
<1>3. \A t \in Tracks : TrackJoined(t)'
  BY DEF SoundInv, TrackJoined, audioVars, threadVars
<1>4. fin' \in Remuxing => tracks' = Aligned'
  BY DEF SoundInv, Aligned, Heard
<1>5. SoundSurvives'
  <2>1. CASE fin' \in {"move", "done"}
    BY <2>1 DEF SoundInv, SoundSurvives, audioVars, threadVars
  <2>2. CASE fin' \notin {"move", "done"}
    BY <1>1, <1>2, <2>2 DEF SoundTypes, FileOfThread, SoundSurvives
  <2> QED  BY <2>1, <2>2
<1> QED  BY <1>1, <1>2, <1>3, <1>4, <1>5 DEF SoundInv

LEMMA SoundElsewhere ==
  ASSUME FilesInv, SoundInv, FilesInv',
         Tick \/ Killed \/ StartEncoder \/ StartFlag \/ StopFlag \/ Capture \/ EncodeExits
           \/ RemuxExits
  PROVE SoundInv'
<1>1. UNCHANGED << audioVars, has, hasVideo, tracks, fin >>
  BY DEF Tick, Killed, StartEncoder, StartFlag, StopFlag, Capture, CapSample, CapNothing,
     CapBackfill, CapFirstFrame, CapStamp, EncodeExits, RemuxExits, stopVars, planVars
<1>2. fin \in {"move", "done"} => UNCHANGED files
  BY DEF FilesInv, Tick, Killed, StartEncoder, StartFlag, StopFlag, Capture, CapSample,
     CapNothing, CapBackfill, CapFirstFrame, CapStamp, EncodeExits, RemuxExits, files,
     Remuxing, Deleting
<1>3. fin' \in Stages
  BY DEF FilesInv
<1> QED  BY <1>1, <1>2, <1>3, SoundKept DEF InVideo, files

LEMMA SoundSpawnFinish ==
  ASSUME FilesInv, SoundInv, StopSpawnFinish
  PROVE SoundInv'
<1>1. fin = "none" /\ fin' = "drain" /\ UNCHANGED << audioVars, has >>
  BY DEF StopSpawnFinish, FilesInv
<1>2. SoundTypes' /\ \A t \in Tracks : FileOfThread(t)' /\ TrackJoined(t)'
  BY <1>1 DEF SoundInv, SoundTypes, FileOfThread, TrackJoined, StopSpawnFinish, audioVars,
              threadVars
<1>3. SoundSurvives'
  BY <1>1, <1>2 DEF SoundTypes, FileOfThread, SoundSurvives
<1> QED  BY <1>1, <1>2, <1>3 DEF SoundInv, Remuxing, Deleting

\* Only tracks the remux was given are deleted, unless there is no first frame
LEMMA SoundFinish ==
  ASSUME FilesInv, SoundInv, FilesInv', FinishThread
  PROVE SoundInv'
<1> USE DEF Finish, FinishKeeps, stopVars, planVars, files
<1>1. fin' \in Stages
  BY DEF FilesInv
<1>2. CASE FinishOffsets
  <2>1. fin = "wait" /\ fin' = "spawn" /\ UNCHANGED << audioVars, has, hasVideo >>
    BY <1>2 DEF FinishOffsets
  <2>2. SoundTypes' /\ \A t \in Tracks : FileOfThread(t)' /\ TrackJoined(t)'
    BY <2>1 DEF SoundInv, SoundTypes, FileOfThread, TrackJoined, audioVars, threadVars
  <2>3. tracks' = Aligned'
    BY <1>2, <2>1 DEF FinishOffsets, Aligned, Heard
  <2>4. SoundSurvives'
    BY <2>1, <2>2 DEF SoundTypes, FileOfThread, SoundSurvives
  <2> QED  BY <2>2, <2>3, <2>4 DEF SoundInv
<1>3. CASE FinishDeleteWavs
  <2>1. /\ fin = "deleteWavs" /\ fin' = "move" /\ remuxed' = "muxed"
        /\ UNCHANGED << call, thread, threadVars, has, hasVideo, tracks >>
    BY <1>3 DEF FinishDeleteWavs, FilesInv, Deleting
  <2>2. \A t \in Tracks : wav'[t] = wav[t] \/ (wav'[t] = "none" /\ has[t])
    BY <1>3 DEF FinishDeleteWavs, Deletable
  <2>3. wav' \in [Tracks -> {"none", "open", "closed"}]
    BY <1>3 DEF FinishDeleteWavs, SoundInv, SoundTypes
  <2>4. SoundTypes'
    BY <2>1, <2>3 DEF SoundInv, SoundTypes, threadVars
  <2>5. \A t \in Tracks : FileOfThread(t)' /\ TrackJoined(t)'
    <3>1. TAKE t \in Tracks
    <3>2. thread[t] = "ended" /\ FileOfThread(t) /\ TrackJoined(t)
      BY <2>1 DEF SoundInv, TrackJoined
    <3>3. /\ thread'[t] = thread[t] /\ call'[t] = call[t] /\ bytes'[t] = bytes[t]
          /\ header'[t] = header[t] /\ haveFirst'[t] = haveFirst[t] /\ has'[t] = has[t]
      BY <2>1 DEF threadVars
    <3> QED  BY <2>1, <3>2, <3>3 DEF FileOfThread, TrackJoined
  <2>6. tracks' = Aligned' /\ tracks = Aligned
    BY <2>1 DEF SoundInv, Aligned, Heard, Remuxing, Deleting
  <2>7. \A t \in Tracks : bytes[t] > 0 => wav[t] # "none"
    BY <2>1 DEF SoundInv, SoundTypes, FileOfThread, TrackJoined
  <2>8. SoundSurvives'
    BY <2>1, <2>2, <2>6, <2>7 DEF SoundSurvives, InVideo, Aligned, Heard, threadVars
  <2> QED  BY <2>4, <2>5, <2>6, <2>8 DEF SoundInv
<1>4. CASE FinishMove
  <2>1. /\ fin = "move" /\ fin' = "done" /\ remuxed = "muxed"
        /\ video' = "muxed" \/ remuxed' = "muxed"
        /\ UNCHANGED << audioVars, has, hasVideo, tracks >>
    BY <1>4 DEF FinishMove, FilesInv, Deleting
  <2>2. SoundTypes' /\ \A t \in Tracks : FileOfThread(t)' /\ TrackJoined(t)'
    BY <2>1 DEF SoundInv, SoundTypes, FileOfThread, TrackJoined, audioVars, threadVars
  <2>3. SoundSurvives'
    BY <2>1 DEF SoundInv, SoundSurvives, InVideo, audioVars, threadVars
  <2> QED  BY <2>1, <2>2, <2>3 DEF SoundInv, Remuxing, Deleting
<1>5. CASE ~(FinishOffsets \/ FinishDeleteWavs \/ FinishMove)
  <2>1. /\ UNCHANGED << audioVars, has, hasVideo, tracks >>
        /\ fin \notin {"none", "move", "done"} /\ fin' \notin {"none", "move"}
        /\ fin' \in Remuxing => fin \in Remuxing
        /\ fin' = "done" => UNCHANGED files
    BY <1>5 DEF FinishThread, FinishCloseStdin, FinishNoRemux, FinishSpawnRemux,
                FinishSpawnFails, FinishRemuxed, FinishRemuxFailed, FinishDeleteVideo,
                Remuxing, Deleting
  <2> QED  BY <1>1, <2>1, SoundKept DEF InVideo
<1> QED  BY <1>2, <1>3, <1>4, <1>5

LEMMA SoundNext == FilesInv /\ FilesInv' /\ SoundInv /\ [Next]_vars => SoundInv'
<1>1. SUFFICES ASSUME FilesInv, FilesInv', SoundInv, [Next]_vars PROVE SoundInv'
  OBVIOUS
<1>2. CASE UNCHANGED vars
  <2>1. UNCHANGED << audioVars, has, hasVideo, tracks, fin, files >>
    BY <1>2 DEF vars, recVars, stopVars, planVars
  <2> QED  BY <1>1, <2>1, SoundKept DEF InVideo, files, FilesInv
<1>3. CASE Next
  BY <1>1, <1>3, AudioAssumption, SoundStart, SoundStop, SoundThread, SoundElsewhere,
     SoundSpawnFinish, SoundFinish DEF Next, Start, Stop
<1> QED  BY <1>1, <1>2, <1>3

LEMMA SoundInvariant == Spec => [](FilesInv /\ SoundInv)
<1>1. Init => FilesInv /\ SoundInv
  BY FilesInit, SoundInit
<1>2. FilesInv /\ SoundInv /\ [Next]_vars => FilesInv' /\ SoundInv'
  BY FilesNext, SoundNext
<1> QED  BY <1>1, <1>2, PTL DEF Spec

(***************************************************************************)
(* Sound that was written is not lost, but for a track that is left out of *)
(* the video because there is no first-frame time.                         *)
(***************************************************************************)
THEOREM SoundAlwaysSurvives == Spec => []SoundSurvives
<1>1. SoundInv => SoundSurvives
  BY DEF SoundInv
<1> QED  BY <1>1, SoundInvariant, PTL

(***************************************************************************)
(* The remux never reads a WAV file that its thread has not finished, and  *)
(* below the limit of a header's count none with a wrong one.              *)
(***************************************************************************)
THEOREM WavAlwaysReady == Spec => []WavReadyForRemux
<1>1. FilesInv /\ SoundInv => WavReadyForRemux
  <2>1. SUFFICES ASSUME FilesInv, SoundInv, remux = "running", NEW t \in tracks
                 PROVE /\ thread[t] = "ended" /\ wav[t] = "closed" /\ bytes[t] > 0
                       /\ bytes[t] < SizeMod => header[t] \in {0, bytes[t]}
    BY DEF WavReadyForRemux
  <2>2. fin = "remux" /\ tracks = Aligned
    BY <2>1 DEF FilesInv, SoundInv, Remuxing
  <2>3. t \in Tracks /\ has[t] /\ thread[t] = "ended"
    BY <2>1, <2>2 DEF SoundInv, Aligned, Heard, TrackJoined
  <2>4. FileOfThread(t) /\ TrackJoined(t)
    BY <2>1, <2>3 DEF SoundInv
  <2>5. bytes[t] \in Nat /\ bytes[t] > 0
    BY <2>1, <2>3, <2>4 DEF SoundInv, SoundTypes, FileOfThread, TrackJoined
  <2>6. bytes[t] < SizeMod => bytes[t] % SizeMod = bytes[t]
    BY <2>5, AudioAssumption DEF AudioAssumption
  <2> QED  BY <2>2, <2>3, <2>4, <2>5, <2>6 DEF FileOfThread
<1> QED  BY <1>1, SoundInvariant, PTL

-----------------------------------------------------------------------------
(* The picture and the sound together *)

\* The offsets keep the distances, and are not negative
OffsetsRight ==
  /\ offsets.video \in Nat
  /\ \A t \in Aligned : offsets.track[t] \in Nat /\ offsets.track[t] - offsets.video = Raw(t)
  /\ offsets.video = 0 \/ \E t \in Aligned : offsets.track[t] = 0

\* The video begins with the first real frame or with an earlier one
VideoBegins ==
  /\ begins \in {"none", "real", "repeat"} /\ shown <= now
  /\ begins = "none" => ~haveFrame /\ shown = Unset
  /\ begins = "real" => shown = frameTime
  /\ begins = "repeat" /\ frameTime # Unset => shown <= frameTime

\* A time is assigned once, after its flag; a copy of it stays true
TimesInv ==
  /\ now \in Nat /\ frameTime \in Nat /\ shown \in Nat /\ videoAnchor \in Nat
  /\ firstTime \in [Tracks -> Nat] /\ anchor \in [Tracks -> Nat]
  /\ \A t \in Tracks :
       /\ thread[t] = "stamp" => haveFirst[t]
       /\ thread[t] = "stamp" \/ ~haveFirst[t] => firstTime[t] = Unset
       /\ anchor[t] # Unset => anchor[t] = firstTime[t]
  /\ cap = "stamp" => haveFrame
  /\ cap = "stamp" \/ ~haveFrame => frameTime = Unset
  /\ videoAnchor # Unset => videoAnchor = frameTime
  /\ VideoBegins

LEMMA TimesInit == Init => TimesInv
BY DEF Init, AudioInit, TimesInv, VideoBegins, Unset

LEMMA TimesAudio ==
  ASSUME SoundInv, TimesInv, NEW t \in Tracks, AudioThread(t)
  PROVE TimesInv'
<1>1. UNCHANGED << now, cap, haveFrame, frameTime, begins, shown, videoAnchor, anchor >>
  BY DEF AudioThread, recVars, capVars, videoVars, stopVars
<1>5. /\ now' \in Nat /\ frameTime' \in Nat /\ shown' \in Nat /\ videoAnchor' \in Nat
      /\ anchor' \in [Tracks -> Nat]
      /\ cap' = "stamp" => haveFrame'
      /\ cap' = "stamp" \/ ~haveFrame' => frameTime' = Unset
      /\ videoAnchor' # Unset => videoAnchor' = frameTime'
      /\ VideoBegins'
  BY <1>1 DEF TimesInv, VideoBegins
<1>2. CASE WriteBuffer(t)
  <2>1. /\ haveFirst' = [haveFirst EXCEPT ![t] = TRUE] /\ firstTime' = firstTime
        /\ thread' = [thread EXCEPT ![t] = IF haveFirst[t] THEN "packets" ELSE "stamp"]
    BY <1>2 DEF WriteBuffer, ThreadTo
  <2>2. \A u \in Tracks : /\ thread'[u] = "stamp" => haveFirst'[u]
                          /\ thread'[u] = "stamp" \/ ~haveFirst'[u] => firstTime'[u] = Unset
    BY <2>1 DEF SoundInv, SoundTypes, TimesInv
  <2>3. \A u \in Tracks : anchor'[u] # Unset => anchor'[u] = firstTime'[u]
    BY <1>1, <2>1 DEF TimesInv
  <2>4. firstTime' \in [Tracks -> Nat]
    BY <2>1 DEF TimesInv
  <2> QED  BY <1>5, <2>2, <2>3, <2>4 DEF TimesInv
<1>3. CASE StampFirstBuffer(t)
  <2>1. /\ thread[t] = "stamp" /\ haveFirst' = haveFirst
        /\ thread' = [thread EXCEPT ![t] = "packets"]
        /\ firstTime' = [firstTime EXCEPT ![t] = now]
    BY <1>3 DEF StampFirstBuffer, ThreadTo
  <2>2. haveFirst[t] /\ anchor[t] = Unset
    BY <2>1 DEF TimesInv
  <2>3. firstTime' \in [Tracks -> Nat]
    BY <2>1 DEF TimesInv
  <2>4. \A u \in Tracks : /\ thread'[u] = "stamp" => haveFirst'[u]
                          /\ thread'[u] = "stamp" \/ ~haveFirst'[u] => firstTime'[u] = Unset
    BY <2>1, <2>2 DEF SoundInv, SoundTypes, TimesInv
  <2>5. \A u \in Tracks : anchor'[u] # Unset => anchor'[u] = firstTime'[u]
    BY <1>1, <2>1, <2>2 DEF TimesInv
  <2> QED  BY <1>5, <2>3, <2>4, <2>5 DEF TimesInv
<1>4. CASE ~(WriteBuffer(t) \/ StampFirstBuffer(t))
  <2>1. /\ haveFirst' = haveFirst /\ firstTime' = firstTime
        /\ \A u \in Tracks : thread'[u] = "stamp" => thread[u] = "stamp"
    BY <1>4 DEF AudioThread, CaptureThread, InitWasapi, InitFails, OpenWav, LoopAsksRunning,
                NoMorePackets, CloseWav, ThreadTo, threadVars, SoundInv, SoundTypes
  <2> QED  BY <1>1, <1>5, <2>1 DEF TimesInv
<1> QED  BY <1>2, <1>3, <1>4

LEMMA TimesRecorder ==
  ASSUME SoundInv, TimesInv,
         \/ Tick \/ Killed \/ Start \/ Stop \/ Capture \/ EncodeExits \/ RemuxExits
         \/ FinishThread
  PROVE TimesInv'
<1>1. CASE Tick
  BY <1>1 DEF Tick, TimesInv, VideoBegins, capVars, videoVars, stopVars, audioVars, threadVars
<1>2. ASSUME NEW t \in Tracks, StopTrack(t) PROVE TimesInv'
  <2>1. /\ anchor' \in [Tracks -> Nat]
        /\ \A u \in Tracks : anchor'[u] = anchor[u] \/ anchor'[u] = firstTime[u]
    BY <1>2 DEF StopTrack, TimesInv
  <2>2. UNCHANGED << now, capVars, videoAnchor, thread, haveFirst, firstTime >>
    BY <1>2 DEF StopTrack, StopRunning, threadVars
  <2> QED  BY <2>1, <2>2 DEF TimesInv, VideoBegins, capVars, videoVars
<1>3. CASE StopSpawnFinish
  BY <1>3 DEF StopSpawnFinish, TimesInv, VideoBegins, capVars, videoVars, audioVars, threadVars
<1>4. CASE Capture
  <2> USE <1>4 DEF Capture, TimesInv, VideoBegins, stopVars, audioVars, threadVars
  <2>1. CASE CapSample \/ CapNothing
    BY <2>1 DEF CapSample, CapNothing, videoVars
  <2>2. CASE CapBackfill
    BY <2>2 DEF CapBackfill
  <2>3. CASE CapFirstFrame
    BY <2>3 DEF CapFirstFrame
  <2>4. CASE CapStamp
    BY <2>4 DEF CapStamp
  <2> QED  BY <2>1, <2>2, <2>3, <2>4
<1>5. ASSUME NEW t \in Tracks, StartTrack(t) \/ StopJoins(t) PROVE TimesInv'
  <2>1. /\ UNCHANGED << recVars, threadVars >>
        /\ \A u \in Tracks : thread'[u] = "stamp" => thread[u] = "stamp"
    BY <1>5 DEF StartTrack, StopJoins, StartThread, Started, StartGivesUp, StartRefused,
                JoinStopped, ThreadTo, SoundInv, SoundTypes
  <2> QED
    BY <2>1 DEF TimesInv, VideoBegins, recVars, capVars, videoVars, stopVars, threadVars
<1>6. CASE UNCHANGED << now, capVars, anchor, videoAnchor, thread, threadVars >>
  BY <1>6 DEF TimesInv, VideoBegins, capVars, videoVars, threadVars
<1>7. CASE Killed
  BY <1>7 DEF Killed, TimesInv, VideoBegins, videoVars, stopVars, audioVars, threadVars
<1> QED
  BY <1>1, <1>2, <1>3, <1>4, <1>5, <1>6, <1>7
     DEF Start, StartEncoder, StartFlag, Stop, StopFlag, EncodeExits, RemuxExits, FinishThread,
         FinishCloseStdin, FinishNoRemux, FinishOffsets, FinishSpawnRemux, FinishSpawnFails,
         FinishRemuxed, FinishRemuxFailed, FinishDeleteVideo, FinishDeleteWavs, FinishMove,
         FinishKeeps, stopVars, audioVars

LEMMA TimesNext == SoundInv /\ TimesInv /\ [Next]_vars => TimesInv'
<1>1. SUFFICES ASSUME SoundInv, TimesInv, [Next]_vars PROVE TimesInv'
  OBVIOUS
<1>2. CASE UNCHANGED vars
  BY <1>1, <1>2 DEF TimesInv, VideoBegins, vars, recVars, capVars, videoVars, stopVars,
                    audioVars, threadVars
<1>3. CASE Next
  BY <1>1, <1>3, TimesAudio, TimesRecorder DEF Next
<1> QED  BY <1>1, <1>2, <1>3

\* What the loop over the tracks finds, beginning with 0
LEMMA Earliest ==
  ASSUME TimesInv
  PROVE /\ MinRaw \in Int /\ MinRaw <= 0
        /\ \A t \in Aligned : MinRaw <= Raw(t)
        /\ MinRaw = 0 \/ \E t \in Aligned : MinRaw = Raw(t)
<1> DEFINE S == {0} \cup {Raw(t) : t \in Aligned}
<1>1. Aligned \subseteq {"system", "mic"} /\ Aligned \subseteq Tracks
  BY DEF Aligned, Heard, Tracks
<1>2. \A t \in Tracks : Raw(t) \in Int
  BY DEF TimesInv, Raw
<1>3. PICK a \in Int, b \in Int : S = {0, a, b}
  <2> DEFINE at(t) == IF t \in Aligned THEN Raw(t) ELSE 0
  <2>1. at("system") \in Int /\ at("mic") \in Int
    BY <1>1, <1>2
  <2>2. S = {0, at("system"), at("mic")}
    BY <1>1
  <2> QED  BY <2>1, <2>2
<1>4. \E m \in S : \A y \in S : m <= y
  <2>1. \E m \in {0, a, b} : m <= 0 /\ m <= a /\ m <= b
    OBVIOUS
  <2> QED  BY <1>3, <2>1
<1>5. MinRaw \in S /\ \A y \in S : MinRaw <= y
  BY <1>4 DEF MinRaw, Min
<1> QED  BY <1>1, <1>2, <1>5

OffsetsInv == fin \in Remuxing => OffsetsRight

LEMMA OffsetsNext ==
  FilesInv /\ TimesInv /\ SoundInv /\ OffsetsInv /\ [Next]_vars => OffsetsInv'
<1>1. SUFFICES ASSUME FilesInv, TimesInv, SoundInv, OffsetsInv, [Next]_vars, fin' \in Remuxing
               PROVE OffsetsRight'
  BY DEF OffsetsInv
<1>2. CASE FinishOffsets
  <2>1. /\ UNCHANGED << anchor, videoAnchor, has, hasVideo >>
        /\ offsets' = [video |-> -MinRaw,
                       track |-> [t \in Tracks |-> IF t \in Aligned THEN Raw(t) - MinRaw
                                                  ELSE 0]]
    BY <1>2 DEF FinishOffsets, FinishKeeps, stopVars
  <2>2. Aligned' = Aligned /\ \A t \in Tracks : Raw(t)' = Raw(t)
    BY <2>1 DEF Aligned, Heard, Raw
  <2>3. Aligned \subseteq Tracks /\ \A t \in Tracks : Raw(t) \in Int
    BY <1>1 DEF Aligned, Heard, TimesInv, Raw
  <2>4. /\ offsets'.video = -MinRaw
        /\ \A t \in Aligned : offsets'.track[t] = Raw(t) - MinRaw
    BY <2>1, <2>3
  <2>5. /\ MinRaw \in Int /\ MinRaw <= 0
        /\ \A t \in Aligned : MinRaw <= Raw(t)
        /\ MinRaw = 0 \/ \E t \in Aligned : MinRaw = Raw(t)
    BY <1>1, Earliest
  <2>6. /\ offsets'.video \in Nat
        /\ \A t \in Aligned :
             offsets'.track[t] \in Nat /\ offsets'.track[t] - offsets'.video = Raw(t)
    BY <2>3, <2>4, <2>5
  <2>7. offsets'.video = 0 \/ \E t \in Aligned : offsets'.track[t] = 0
    BY <2>3, <2>4, <2>5
  <2> QED  BY <2>2, <2>3, <2>6, <2>7 DEF OffsetsRight
<1>3. CASE fin \in Remuxing /\ UNCHANGED << anchor, videoAnchor, has, hasVideo, offsets >>
  BY <1>1, <1>3 DEF OffsetsInv, OffsetsRight, Aligned, Heard, Raw
<1>4. fin \in Remuxing \/ FinishOffsets
  BY <1>1 DEF Next, Remuxing, Deleting, Tick, Killed, Start, StartEncoder, StartTrack,
              StartFlag, Stop, StopFlag, StopTrack, StopJoins, StopSpawnFinish, Capture,
              CapSample, CapNothing, CapBackfill, CapFirstFrame, CapStamp, AudioThread,
              EncodeExits, RemuxExits, FinishThread, FinishCloseStdin, FinishNoRemux,
              FinishSpawnRemux, FinishSpawnFails, FinishRemuxed, FinishRemuxFailed,
              FinishDeleteVideo, FinishDeleteWavs, FinishMove, Finish, vars, recVars
<1>5. fin \in Remuxing /\ ~FinishOffsets =>
        UNCHANGED << anchor, videoAnchor, has, hasVideo, offsets >>
  <2>1. fin \in Remuxing => hot = "done"
    BY <1>1 DEF FilesInv, Remuxing, Deleting
  <2> QED
    BY <1>1, <2>1 DEF Next, Tick, Killed, Start, StartEncoder, StartTrack, StartFlag, Stop,
                      StopFlag, StopTrack, StopJoins, StopSpawnFinish, Capture, CapSample,
                      CapNothing, CapBackfill, CapFirstFrame, CapStamp, AudioThread,
                      EncodeExits, RemuxExits, FinishThread, FinishCloseStdin, FinishNoRemux,
                      FinishSpawnRemux, FinishSpawnFails, FinishRemuxed, FinishRemuxFailed,
                      FinishDeleteVideo, FinishDeleteWavs, FinishMove, FinishKeeps, vars,
                      recVars, stopVars, planVars
<1> QED  BY <1>2, <1>3, <1>4, <1>5

LEMMA SyncInvariant == Spec => [](FilesInv /\ SoundInv /\ TimesInv /\ OffsetsInv)
<1>1. Init => FilesInv /\ SoundInv /\ TimesInv /\ OffsetsInv
  BY FilesInit, SoundInit, TimesInit DEF Init, OffsetsInv, Remuxing, Deleting
<1>2. FilesInv /\ SoundInv /\ TimesInv /\ OffsetsInv /\ [Next]_vars
        => FilesInv' /\ SoundInv' /\ TimesInv' /\ OffsetsInv'
  BY FilesNext, SoundNext, TimesNext, OffsetsNext
<1> QED  BY <1>1, <1>2, PTL DEF Spec

(***************************************************************************)
(* Sound and picture are as far apart in the video as they were in the     *)
(* recording, whichever came first, when the video begins with a frame of  *)
(* its own session and both times were read after they had been assigned;  *)
(* with a repeated frame at the beginning the sound is early, never late.  *)
(* No more is put before the video than is needed.                         *)
(***************************************************************************)
THEOREM AlwaysInSync == Spec => []InSync
<1>1. FilesInv /\ SoundInv /\ TimesInv /\ OffsetsInv => InSync
  <2> DEFINE inVideo(t) == Shift(offsets.track[t]) - Shift(offsets.video)
  <2>1. SUFFICES ASSUME FilesInv, SoundInv, TimesInv, OffsetsInv, fin \in {"spawn", "remux"}
                 PROVE InSync
    BY DEF InSync
  <2>2. tracks = Aligned /\ Aligned \subseteq Tracks /\ OffsetsRight
    BY <2>1 DEF SoundInv, OffsetsInv, Remuxing, Aligned, Heard
  <2>3. \A x \in Nat : Shift(x) = x
    BY DEF Shift
  <2>4. \A t \in tracks : inVideo(t) = Raw(t)
    BY <2>2, <2>3 DEF OffsetsRight
  <2>5. ASSUME NEW t \in tracks, anchor[t] # Unset, videoAnchor # Unset
        PROVE /\ inVideo(t) <= firstTime[t] - shown
              /\ begins = "real" => inVideo(t) = firstTime[t] - shown
    <3>1. Raw(t) = firstTime[t] - frameTime /\ frameTime # Unset
      BY <2>1, <2>2, <2>5 DEF TimesInv, Raw
    <3>2. firstTime[t] \in Nat /\ frameTime \in Nat /\ shown \in Nat
      BY <2>1, <2>2 DEF TimesInv
    <3>3. shown <= frameTime /\ (begins = "real" => shown = frameTime)
      BY <2>1, <3>1, <3>2 DEF TimesInv, VideoBegins, Unset
    <3> HIDE DEF inVideo
    <3> QED  BY <2>4, <3>1, <3>2, <3>3
  <2>6. Shift(offsets.video) = 0 \/ \E t \in tracks : Shift(offsets.track[t]) = 0
    BY <2>2, <2>3 DEF OffsetsRight
  <2> QED  BY <2>5, <2>6 DEF InSync
<1> QED  BY <1>1, SyncInvariant, PTL
-----------------------------------------------------------------------------
(* Types *)

\* The parts of TypeOK, which actions change one at a time
StateTypes ==
  /\ alive \in BOOLEAN /\ isRecording \in BOOLEAN
  /\ hot \in {"ready", "audio", "recording", "stopAudio", "done"}
  /\ fin \in Stages
  /\ encode \in {"none", "running", "eof", "ok", "failed"}
  /\ remux \in {"none", "running", "ok", "failed"}
  /\ video \in {"none", "partial", "plain", "muxed"}
  /\ remuxed \in {"none", "partial", "muxed"}
CapTypes ==
  /\ cap \in {"top", "call", "stamp"} /\ haveFrame \in BOOLEAN /\ frameTime \in 0 .. MaxTime
  /\ begins \in {"none", "real", "repeat"} /\ shown \in 0 .. MaxTime
StopTypes ==
  /\ has \in [Tracks -> BOOLEAN] /\ anchor \in [Tracks -> 0 .. MaxTime]
  /\ hasVideo \in BOOLEAN /\ videoAnchor \in 0 .. MaxTime
PlanTypes ==
  /\ tracks \in SUBSET Tracks
  /\ offsets \in [video : 0 .. MaxTime, track : [Tracks -> 0 .. 2 * MaxTime]]

LEMMA TypeParts ==
  /\ TypeOK <=> AudioTypeOK /\ StateTypes /\ CapTypes /\ StopTypes /\ PlanTypes
  /\ TypeOK' <=> AudioTypeOK' /\ StateTypes' /\ CapTypes' /\ StopTypes' /\ PlanTypes'
<1>1. Stages = {"none", "drain", "wait", "spawn", "remux", "deleteVideo", "deleteWavs", "move",
                "done"}
  BY DEF Stages, BeforeRemux, Deleting
<1> QED  BY <1>1 DEF TypeOK, StateTypes, CapTypes, StopTypes, PlanTypes

\* A part whose variables stay is kept
LEMMA PartsKept ==
  /\ AudioTypeOK /\ UNCHANGED << now, audioVars >> => AudioTypeOK'
  /\ CapTypes /\ UNCHANGED capVars => CapTypes'
  /\ StopTypes /\ UNCHANGED stopVars => StopTypes'
  /\ PlanTypes /\ UNCHANGED planVars => PlanTypes'
BY DEF AudioTypeOK, CapTypes, StopTypes, PlanTypes, audioVars, threadVars, capVars, videoVars,
   stopVars, planVars

\* A step of the recorder's threads but for the audio, or of an ffmpeg
LEMMA TypesRecorder ==
  ASSUME TypeOK, AudioAssumption,
         Tick \/ Killed \/ StartEncoder \/ StartFlag \/ StopFlag \/ StopSpawnFinish \/ Capture
           \/ EncodeExits \/ RemuxExits
  PROVE TypeOK'
<1> USE TypeParts
<1>1. AudioTypeOK'
  <2>1. CASE Tick
    <3>1. now' \in 1 .. MaxTime
      BY <2>1 DEF Tick, AudioTypeOK, AudioAssumption
    <3> QED  BY <2>1, <3>1 DEF Tick, AudioTypeOK, audioVars, threadVars
  <2>2. CASE ~Tick
    BY <2>2, PartsKept DEF Killed, StartEncoder, StartFlag, StopFlag, StopSpawnFinish, Capture,
       CapSample, CapNothing, CapBackfill, CapFirstFrame, CapStamp, EncodeExits, RemuxExits
  <2> QED  BY <2>1, <2>2
<1>2. StateTypes'
  <2> USE DEF StateTypes, files
  <2>1. CASE Tick \/ Capture
    BY <2>1 DEF Tick, Capture, CapSample, CapNothing, CapBackfill, CapFirstFrame, CapStamp
  <2>2. CASE StartEncoder \/ StartFlag \/ StopFlag
    BY <2>2 DEF StartEncoder, StartFlag, StopFlag
  <2>3. CASE StopSpawnFinish
    BY <2>3 DEF StopSpawnFinish, Stages, BeforeRemux
  <2>4. CASE EncodeExits \/ RemuxExits
    BY <2>4 DEF EncodeExits, RemuxExits
  <2>5. CASE Killed
    <3>1. alive' = FALSE /\ encode' \in {encode, "eof"}
          /\ UNCHANGED << isRecording, hot, fin, remux, video, remuxed >>
      BY <2>5 DEF Killed
    <3> QED  BY <3>1
  <2> QED  BY <2>1, <2>2, <2>3, <2>4, <2>5
<1>3. CapTypes'
  <2>1. CASE Capture
    <3>1. now \in 0 .. MaxTime
      BY DEF AudioTypeOK, AudioAssumption
    <3> QED
      BY <2>1, <3>1 DEF CapTypes, Capture, CapSample, CapNothing, CapBackfill, CapFirstFrame,
                        CapStamp, videoVars
  <2>2. CASE Killed
    BY <2>2 DEF Killed, CapTypes, videoVars
  <2>3. CASE ~Capture /\ ~Killed
    BY <2>3, PartsKept DEF Tick, StartEncoder, StartFlag, StopFlag, StopSpawnFinish,
       EncodeExits, RemuxExits
  <2> QED  BY <2>1, <2>2, <2>3
<1>4. StopTypes'
  <2>1. CASE StopSpawnFinish
    BY <2>1 DEF StopSpawnFinish, StopTypes, CapTypes
  <2>2. CASE ~StopSpawnFinish
    BY <2>2, PartsKept DEF Tick, Killed, StartEncoder, StartFlag, StopFlag, Capture, CapSample,
       CapNothing, CapBackfill, CapFirstFrame, CapStamp, EncodeExits, RemuxExits
  <2> QED  BY <2>1, <2>2
<1>5. PlanTypes'
  BY PartsKept DEF Tick, Killed, StartEncoder, StartFlag, StopFlag, StopSpawnFinish, Capture,
                   CapSample, CapNothing, CapBackfill, CapFirstFrame, CapStamp, EncodeExits,
                   RemuxExits
<1> QED  BY <1>1, <1>2, <1>3, <1>4, <1>5

\* A step of the recorder on a track
LEMMA TypesTrack ==
  ASSUME TypeOK, NEW t \in Tracks, StartTrack(t) \/ StopTrack(t) \/ StopJoins(t)
  PROVE TypeOK'
<1>1. AudioTypeOK'
  BY DEF TypeOK, AudioTypeOK, StartTrack, StopTrack, StopJoins, StartThread, Started,
     StartGivesUp, StartRefused, StopRunning, JoinStopped, CallIs, Runs, ThreadTo, recVars,
     threadVars
<1>2. has' \in [Tracks -> BOOLEAN] /\ anchor' \in [Tracks -> 0 .. MaxTime]
  BY DEF TypeOK, AudioTypeOK, StartTrack, StopTrack, StopJoins, recVars, stopVars
<1> QED
  BY <1>1, <1>2 DEF TypeOK, StartTrack, StopTrack, StopJoins, recVars, capVars, videoVars,
                    stopVars, planVars, files

LEMMA TypesAudio ==
  ASSUME TypeOK, AudioAssumption, NEW t \in Tracks, AudioThread(t)
  PROVE TypeOK'
<1> USE DEF AudioThread, CaptureThread, InitWasapi, InitFails, OpenWav, LoopAsksRunning,
            WriteBuffer, StampFirstBuffer, NoMorePackets, CloseWav
<1>1. UNCHANGED recVars /\ call' = call
  OBVIOUS
<1>2. /\ running' \in [Tracks -> BOOLEAN] /\ init' \in [Tracks -> {"pending", "ok", "failed"}]
      /\ wav' \in [Tracks -> {"none", "open", "closed"}]
  BY DEF TypeOK, AudioTypeOK, Runs
<1>3. thread' \in [Tracks -> {"none", "init", "open", "loop", "packets", "stamp", "close",
                              "ended"}]
  <2>1. \E l \in {"open", "loop", "packets", "stamp", "close", "ended"} :
          thread' = [thread EXCEPT ![t] = l]
    BY DEF ThreadTo
  <2> QED  BY <2>1 DEF TypeOK, AudioTypeOK
<1>4. haveFirst' \in [Tracks -> BOOLEAN]
  BY DEF TypeOK, AudioTypeOK, threadVars
<1>5. bytes' \in [Tracks -> 0 .. MaxBytes]
  <2>1. bytes \in [Tracks -> 0 .. MaxBytes]
    BY DEF TypeOK, AudioTypeOK
  <2>2. (IF bytes[t] < MaxBytes THEN bytes[t] + 1 ELSE bytes[t]) \in 0 .. MaxBytes
    BY <2>1 DEF AudioAssumption
  <2>3. \/ bytes' = bytes
        \/ bytes' = [bytes EXCEPT ![t] = IF @ < MaxBytes THEN @ + 1 ELSE @]
    BY DEF threadVars
  <2> QED  BY <2>1, <2>2, <2>3
<1>6. firstTime' \in [Tracks -> 0 .. MaxTime]
  <2>1. now \in 0 .. MaxTime
    BY DEF TypeOK, AudioTypeOK, AudioAssumption
  <2> QED  BY <2>1 DEF TypeOK, AudioTypeOK, threadVars
<1>7. header' \in [Tracks -> 0 .. SizeMod - 1]
  <2>1. bytes[t] % SizeMod \in 0 .. SizeMod - 1
    BY DEF TypeOK, AudioTypeOK, AudioAssumption
  <2>2. header' = header \/ header' = [header EXCEPT ![t] = bytes[t] % SizeMod]
    BY DEF PatchWavHeader, threadVars
  <2> QED  BY <2>1, <2>2 DEF TypeOK, AudioTypeOK
<1>8. AudioTypeOK'
  BY <1>1, <1>2, <1>3, <1>4, <1>5, <1>6, <1>7 DEF TypeOK, AudioTypeOK, recVars
<1> QED
  BY <1>1, <1>8 DEF TypeOK, recVars, capVars, videoVars, stopVars, planVars, files

\* The offsets of a track need twice the room of a time
LEMMA TypesOffsets ==
  ASSUME TypeOK, TimesInv, AudioAssumption, FinishOffsets
  PROVE offsets' \in [video : 0 .. MaxTime, track : [Tracks -> 0 .. 2 * MaxTime]]
<1>1. \A t \in Tracks : Raw(t) \in Int /\ -MaxTime <= Raw(t) /\ Raw(t) <= MaxTime
  BY DEF TypeOK, Raw, AudioAssumption
<1>2. Aligned \subseteq Tracks
  BY DEF Aligned, Heard
<1>3. /\ MinRaw \in Int /\ MinRaw <= 0 /\ \A t \in Aligned : MinRaw <= Raw(t)
      /\ MinRaw = 0 \/ \E t \in Aligned : MinRaw = Raw(t)
  BY Earliest
<1>4. -MinRaw \in 0 .. MaxTime
  BY <1>1, <1>2, <1>3 DEF AudioAssumption
<1>5. \A t \in Tracks : (IF t \in Aligned THEN Raw(t) - MinRaw ELSE 0) \in 0 .. 2 * MaxTime
  BY <1>1, <1>3, <1>4 DEF AudioAssumption
<1> QED  BY <1>4, <1>5 DEF FinishOffsets

LEMMA TypesFinish ==
  ASSUME TypeOK, TimesInv, AudioAssumption, FinishThread
  PROVE TypeOK'
<1> USE DEF Finish, FinishKeeps, capVars, videoVars, stopVars, planVars, files, audioVars,
            threadVars
<1>1. CASE FinishDeleteWavs
  <2>1. wav' \in [Tracks -> {"none", "open", "closed"}]
    BY <1>1 DEF FinishDeleteWavs, TypeOK, AudioTypeOK
  <2>2. AudioTypeOK'
    BY <1>1, <2>1 DEF FinishDeleteWavs, TypeOK, AudioTypeOK
  <2> QED  BY <1>1, <2>2 DEF FinishDeleteWavs, TypeOK
<1>2. CASE ~FinishDeleteWavs
  <2>1. AudioTypeOK' /\ UNCHANGED << alive, hot, isRecording, capVars, stopVars >>
    BY <1>2 DEF FinishThread, FinishCloseStdin, FinishNoRemux, FinishOffsets, FinishSpawnRemux,
                FinishSpawnFails, FinishRemuxed, FinishRemuxFailed, FinishDeleteVideo,
                FinishMove, TypeOK, AudioTypeOK
  <2>2. CASE FinishOffsets
    <3>1. tracks' \in SUBSET Tracks
      BY <2>2 DEF FinishOffsets, Aligned, Heard
    <3>2. offsets' \in [video : 0 .. MaxTime, track : [Tracks -> 0 .. 2 * MaxTime]]
      BY <2>2, TypesOffsets
    <3> QED  BY <2>1, <2>2, <3>1, <3>2 DEF FinishOffsets, TypeOK
  <2>3. CASE ~FinishOffsets
    BY <1>2, <2>1, <2>3 DEF FinishThread, FinishCloseStdin, FinishNoRemux, FinishSpawnRemux,
       FinishSpawnFails, FinishRemuxed, FinishRemuxFailed, FinishDeleteVideo, FinishMove,
       TypeOK
  <2> QED  BY <2>2, <2>3
<1> QED  BY <1>1, <1>2

\* Types, for any clock and any amount of sound
THEOREM OutputTypeOK == Spec => []TypeOK
<1>1. Init => TypeOK
  <2>1. 1 \in 1 .. MaxTime /\ 0 \in 0 .. MaxTime /\ 0 \in 0 .. 2 * MaxTime
        /\ 0 \in 0 .. MaxBytes /\ 0 \in 0 .. SizeMod - 1
    BY AudioAssumption DEF AudioAssumption
  <2>2. Init => AudioTypeOK
    BY <2>1 DEF Init, AudioInit, AudioTypeOK, Unset
  <2>3. Init => StateTypes /\ CapTypes /\ StopTypes
    BY <2>1 DEF Init, StateTypes, CapTypes, StopTypes, Stages, BeforeRemux, Deleting, Unset
  <2>4. Init => PlanTypes
    BY <2>1 DEF Init, PlanTypes
  <2> QED  BY <2>2, <2>3, <2>4, TypeParts
<1>2. TypeOK /\ TimesInv /\ [Next]_vars => TypeOK'
  <2>1. TypeOK /\ UNCHANGED vars => TypeOK'
    BY DEF TypeOK, AudioTypeOK, vars, recVars, capVars, videoVars, stopVars, planVars, files,
       audioVars, threadVars
  <2> QED
    BY <2>1, AudioAssumption, TypesRecorder, TypesTrack, TypesAudio, TypesFinish
       DEF Next, Start, Stop
<1> QED  BY <1>1, <1>2, SyncInvariant, PTL DEF Spec
=============================================================================
