------------------------- MODULE EncoderPipe_proofs -------------------------
(***************************************************************************)
(* Who holds the ends of ffmpeg's pipes, for any number of sessions and    *)
(* frames and a pipe of any size, and that the handles and processes keep  *)
(* the promise of encoder_ (EncoderUse).                                   *)
(***************************************************************************)
EXTENDS EncoderPipe, TLAPS

\* The encoder mutex is held by whoever is inside, and a start is inside it
MutexHeld ==
  /\ hot # "ready" => mutex = "start" /\ encoder = session /\ session \in Sessions
  /\ feed = "write" => mutex = "feed" /\ encoder # None /\ left \in 1 .. FrameChunks
  /\ \A s \in Sessions : fin[s] = "wait" => mutex = "finish" /\ encoder # None
  /\ \A s, t \in Sessions : fin[s] = "wait" /\ fin[t] = "wait" => s = t

\* A finish that waits has closed the write end of the encoder it will reset
WaitingHasClosed ==
  \A s, e \in Sessions : fin[s] = "wait" /\ encoder = e => Recorder \notin writers[e]

\* What a child could inherit of a write end: only in the first step of a start
InheritableOnlyAtFirst ==
  \A s \in Sessions :
    s \in inheritable /\ Recorder \in writers[s] => s = session /\ hot = "inherit"

PipeInv ==
  /\ TypeOK /\ MutexHeld /\ WaitingHasClosed /\ InheritableOnlyAtFirst
  /\ NoHandleLeft /\ PipeIsPrivate

\* Facts the leaves share: processes differ, and sessions are numbers
LEMMA Processes ==
  /\ \A s \in Sessions : Recorder # Encode(s) /\ Recorder # Remux(s)
  /\ \A s \in Sessions : Encode(s) \in Children /\ Remux(s) \in Children
  /\ \A s \in Sessions : Remux(s) \in Remuxes
  /\ Recorder \notin Children
BY DEF Recorder, Encode, Remux, Children, Remuxes

LEMMA Numbers ==
  /\ Sessions \subseteq Nat /\ None \notin Sessions
  /\ \A e \in 0 .. MaxSessions : e = None \/ e \in Sessions
BY PipeAssumption DEF Sessions, None

THEOREM PipeInit == Init => PipeInv
<1>1. SUFFICES ASSUME Init PROVE PipeInv
  OBVIOUS
<1>2. TypeOK
  <2>1. /\ readers \in [Sessions -> SUBSET (Children \cup {Recorder})]
        /\ writers \in [Sessions -> SUBSET (Children \cup {Recorder})]
        /\ proc \in [Children -> {"none", "running", "ok", "failed"}]
        /\ fin \in [Sessions -> {"none", "lock", "wait", "remux", "remuxWait", "done"}]
    BY <1>1 DEF Init
  <2>2. buffered \in [Sessions -> 0 .. PipeHolds]
    BY <1>1, PipeAssumption DEF Init
  <2>3. /\ session \in 0 .. MaxSessions /\ encoder \in 0 .. session /\ frames \in 0 .. MaxFrames
        /\ left \in 0 .. FrameChunks
    BY <1>1, PipeAssumption DEF Init, None
  <2>4. recording \in BOOLEAN /\ inheritable \subseteq Sessions
    BY <1>1 DEF Init
  <2> QED  BY <1>1, <2>1, <2>2, <2>3, <2>4 DEF Init, TypeOK
<1> QED
  BY <1>1, <1>2, Numbers DEF Init, PipeInv, MutexHeld, WaitingHasClosed,
     InheritableOnlyAtFirst, NoHandleLeft, PipeIsPrivate
-----------------------------------------------------------------------------
(* The steps of StartStreamingEncode *)

LEMMA CreatePipeStep ==
  ASSUME PipeInv, StartCreatePipe \/ StartPipeFails
  PROVE PipeInv'
<1> USE DEF PipeInv, MutexFree, Closed
<1>1. session + 1 \in Sessions /\ session' = session + 1 /\ session \in Nat /\ hot = "ready"
      /\ mutex = "free"
  BY PipeAssumption DEF StartCreatePipe, StartPipeFails, TypeOK, Sessions
<1>2. feed = "idle" /\ \A s \in Sessions : fin[s] # "wait" /\ Recorder \notin readers[s]
  BY <1>1 DEF MutexHeld, TypeOK, NoHandleLeft
<1>3. \A s \in Sessions : s \in inheritable => Recorder \notin writers[s]
  BY <1>1 DEF InheritableOnlyAtFirst
<1>4. CASE StartCreatePipe
  <2>1. TypeOK'
    BY <1>1, <1>4, PipeAssumption DEF TypeOK, StartCreatePipe, feedVars
  <2>2. \A s \in Sessions :
          /\ writers'[s] = IF s = session + 1 THEN {Recorder}
                           ELSE IF s = encoder THEN writers[s] \ {Recorder} ELSE writers[s]
          /\ readers'[s] = IF s = session + 1 THEN {Recorder} ELSE readers[s]
    BY <1>1, <1>4 DEF TypeOK, StartCreatePipe
  <2>3. \A s \in Sessions : Recorder \in writers'[s] => s = session + 1
    BY <2>2, <1>1, Numbers DEF NoHandleLeft
  <2>4. MutexHeld' /\ WaitingHasClosed' /\ InheritableOnlyAtFirst'
    BY <1>1, <1>2, <1>3, <1>4, <2>2, <2>3
       DEF MutexHeld, WaitingHasClosed, InheritableOnlyAtFirst, StartCreatePipe, feedVars
  <2>5. NoHandleLeft'
    BY <1>1, <1>2, <1>4, <2>2, <2>3 DEF NoHandleLeft, StartCreatePipe
  <2>6. PipeIsPrivate'
    BY <2>2 DEF PipeIsPrivate
  <2> QED  BY <2>1, <2>4, <2>5, <2>6
<1>5. CASE StartPipeFails
  <2>1. TypeOK'
    BY <1>1, <1>5, PipeAssumption DEF TypeOK, StartPipeFails, feedVars, None
  <2>2. \A s \in Sessions :
          writers'[s] = IF s = encoder THEN writers[s] \ {Recorder} ELSE writers[s]
    BY <1>5 DEF TypeOK, StartPipeFails
  <2>3. \A s \in Sessions : Recorder \notin writers'[s]
    BY <2>2 DEF NoHandleLeft
  <2>4. MutexHeld' /\ WaitingHasClosed' /\ InheritableOnlyAtFirst' /\ NoHandleLeft'
    BY <1>1, <1>2, <1>5, <2>3
       DEF MutexHeld, WaitingHasClosed, InheritableOnlyAtFirst, NoHandleLeft, StartPipeFails,
           feedVars
  <2>5. PipeIsPrivate'
    BY <1>5, <2>2 DEF PipeIsPrivate, StartPipeFails
  <2> QED  BY <2>1, <2>4, <2>5
<1> QED  BY <1>4, <1>5

\* A new process holds no write end that was kept from it, and no read end
\* but the one of a start under way
LEMMA Spawns ==
  ASSUME TypeOK, NEW p \in Children, Spawn(p)
  PROVE /\ proc' \in [Children -> {"none", "running", "ok", "failed"}]
        /\ readers' \in [Sessions -> SUBSET (Children \cup {Recorder})]
        /\ writers' \in [Sessions -> SUBSET (Children \cup {Recorder})]
        /\ \A s \in Sessions :
             /\ readers'[s] = IF Recorder \in readers[s] THEN readers[s] \cup {p} ELSE readers[s]
             /\ writers'[s] = IF Recorder \in writers[s] /\ s \in inheritable
                             THEN writers[s] \cup {p} ELSE writers[s]
             /\ Recorder \in writers'[s] <=> Recorder \in writers[s]
             /\ Recorder \in readers'[s] <=> Recorder \in readers[s]
<1>1. p # Recorder
  BY Processes
<1>2. proc' \in [Children -> {"none", "running", "ok", "failed"}]
  BY DEF TypeOK, Spawn
<1>3. \A s \in Sessions :
        /\ readers'[s] = IF Recorder \in readers[s] THEN readers[s] \cup {p} ELSE readers[s]
        /\ writers'[s] = IF Recorder \in writers[s] /\ s \in inheritable
                        THEN writers[s] \cup {p} ELSE writers[s]
  BY DEF TypeOK, Spawn
<1>4. /\ readers' \in [Sessions -> SUBSET (Children \cup {Recorder})]
      /\ writers' \in [Sessions -> SUBSET (Children \cup {Recorder})]
  BY DEF TypeOK, Spawn
<1> QED  BY <1>1, <1>2, <1>3, <1>4

\* A process that ends holds nothing any more, and the others what they held
LEMMA Endings ==
  ASSUME TypeOK, NEW p \in Children, NEW how \in {"ok", "failed"}, Ends(p, how)
  PROVE /\ proc' \in [Children -> {"none", "running", "ok", "failed"}]
        /\ readers' \in [Sessions -> SUBSET (Children \cup {Recorder})]
        /\ writers' \in [Sessions -> SUBSET (Children \cup {Recorder})]
        /\ \A s \in Sessions :
             /\ readers'[s] = readers[s] \ {p} /\ writers'[s] = writers[s] \ {p}
             /\ Recorder \in writers'[s] <=> Recorder \in writers[s]
             /\ Recorder \in readers'[s] <=> Recorder \in readers[s]
<1>1. p # Recorder
  BY Processes
<1>2. proc' \in [Children -> {"none", "running", "ok", "failed"}]
  BY DEF TypeOK, Ends
<1>3. \A s \in Sessions : readers'[s] = readers[s] \ {p} /\ writers'[s] = writers[s] \ {p}
  BY DEF TypeOK, Ends, Without
<1>4. /\ readers' \in [Sessions -> SUBSET (Children \cup {Recorder})]
      /\ writers' \in [Sessions -> SUBSET (Children \cup {Recorder})]
  BY DEF TypeOK, Ends, Without
<1> QED  BY <1>1, <1>2, <1>3, <1>4

LEMMA InStartStep ==
  ASSUME PipeInv, InStart
  PROVE PipeInv'
<1> USE DEF PipeInv, Closed
<1>1. hot # "ready" /\ mutex = "start" /\ encoder = session /\ session \in Sessions
  BY DEF InStart, StartNotInheritable, StartSpawn, StartSpawnFails, StartCloseReadEnd,
         MutexHeld
<1>2. feed = "idle" /\ \A s \in Sessions : fin[s] # "wait"
  BY <1>1 DEF MutexHeld, TypeOK
<1>3. CASE StartNotInheritable
  <2>1. TypeOK'
    BY <1>3 DEF TypeOK, StartNotInheritable, feedVars
  <2>2. MutexHeld' /\ WaitingHasClosed' /\ InheritableOnlyAtFirst'
    BY <1>1, <1>2, <1>3
       DEF MutexHeld, WaitingHasClosed, InheritableOnlyAtFirst, StartNotInheritable, feedVars
  <2>3. NoHandleLeft' /\ PipeIsPrivate'
    BY <1>1, <1>3 DEF NoHandleLeft, PipeIsPrivate, StartNotInheritable
  <2> QED  BY <2>1, <2>2, <2>3
<1>4. CASE StartSpawn
  <2>1. Encode(session) \in Children /\ Spawn(Encode(session))
    BY <1>1, <1>4, Processes DEF StartSpawn
  <2>2. TypeOK'
    BY <1>4, <2>1, Spawns DEF TypeOK, StartSpawn, Spawn, feedVars
  <2>3. MutexHeld' /\ WaitingHasClosed'
    BY <1>1, <1>2, <1>4 DEF MutexHeld, WaitingHasClosed, StartSpawn, feedVars
  <2>4. \A s \in Sessions : s \in inheritable => Recorder \notin writers[s]
    BY <1>4 DEF InheritableOnlyAtFirst, StartSpawn
  <2>5. InheritableOnlyAtFirst' /\ NoHandleLeft'
    BY <1>4, <2>1, <2>4, Spawns, <1>1
       DEF InheritableOnlyAtFirst, NoHandleLeft, StartSpawn, Spawn
  <2>6. \A s \in Sessions :
          writers'[s] = writers[s] /\ readers'[s] \subseteq readers[s] \cup {Encode(s)}
    BY <2>1, <2>4, Spawns DEF NoHandleLeft
  <2>7. PipeIsPrivate'
    BY <2>6 DEF PipeIsPrivate
  <2> QED  BY <2>2, <2>3, <2>5, <2>7
<1>5. CASE StartSpawnFails
  <2>1. TypeOK'
    BY <1>1, <1>5 DEF TypeOK, StartSpawnFails, feedVars, None
  <2>2. \A s \in Sessions :
          /\ writers'[s] = IF s = session THEN writers[s] \ {Recorder} ELSE writers[s]
          /\ readers'[s] = IF s = session THEN readers[s] \ {Recorder} ELSE readers[s]
    BY <1>5 DEF StartSpawnFails
  <2>3. \A s \in Sessions : Recorder \notin writers'[s] /\ Recorder \notin readers'[s]
    BY <1>1, <2>2 DEF NoHandleLeft
  <2>4. MutexHeld' /\ WaitingHasClosed' /\ InheritableOnlyAtFirst' /\ NoHandleLeft'
    BY <1>2, <1>5, <2>3
       DEF MutexHeld, WaitingHasClosed, InheritableOnlyAtFirst, NoHandleLeft, StartSpawnFails,
           feedVars
  <2>5. PipeIsPrivate'
    BY <2>2 DEF PipeIsPrivate
  <2> QED  BY <2>1, <2>4, <2>5
<1>6. CASE StartCloseReadEnd
  <2>1. TypeOK'
    BY <1>6 DEF TypeOK, StartCloseReadEnd, feedVars
  <2>2. \A s \in Sessions :
          readers'[s] = IF s = session THEN readers[s] \ {Recorder} ELSE readers[s]
    BY <1>6 DEF StartCloseReadEnd
  <2>3. \A s \in Sessions : Recorder \notin readers'[s]
    BY <2>2 DEF NoHandleLeft
  <2>4. MutexHeld' /\ WaitingHasClosed' /\ InheritableOnlyAtFirst' /\ NoHandleLeft'
    BY <1>1, <1>2, <1>6, <2>3
       DEF MutexHeld, WaitingHasClosed, InheritableOnlyAtFirst, NoHandleLeft,
           StartCloseReadEnd, feedVars
  <2>5. PipeIsPrivate'
    BY <1>6, <2>2 DEF PipeIsPrivate, StartCloseReadEnd
  <2> QED  BY <2>1, <2>4, <2>5
<1> QED  BY <1>3, <1>4, <1>5, <1>6 DEF InStart

LEMMA StopStep ==
  ASSUME PipeInv, Stop
  PROVE PipeInv'
<1>1. TypeOK'
  BY DEF PipeInv, TypeOK, Stop, feedVars, pipes
<1>2. \A s \in Sessions : fin'[s] = "wait" => fin[s] = "wait"
  BY DEF PipeInv, TypeOK, Stop
<1>3. MutexHeld' /\ WaitingHasClosed'
  BY <1>2 DEF PipeInv, MutexHeld, WaitingHasClosed, Stop, feedVars, pipes
<1>4. InheritableOnlyAtFirst' /\ NoHandleLeft' /\ PipeIsPrivate'
  BY DEF PipeInv, InheritableOnlyAtFirst, NoHandleLeft, PipeIsPrivate, Stop, pipes
<1> QED  BY <1>1, <1>3, <1>4 DEF PipeInv
-----------------------------------------------------------------------------
(* The feed thread, ffmpeg and the finish threads *)

LEMMA WriteStep ==
  ASSUME PipeInv, WriteFrame
  PROVE PipeInv'
<1> USE DEF WriteFrame, WriteBegin, WriteChunk, WriteBroken, WriteEnds, hotVars, pipes
<1>1. UNCHANGED << hotVars, readers, writers, inheritable, encoder, proc, fin >>
  OBVIOUS
<1>2. WaitingHasClosed' /\ InheritableOnlyAtFirst' /\ NoHandleLeft' /\ PipeIsPrivate'
  BY <1>1 DEF PipeInv, WaitingHasClosed, InheritableOnlyAtFirst, NoHandleLeft, PipeIsPrivate
<1>3. TypeOK' /\ MutexHeld'
  <2>1. CASE WriteBegin
    BY <1>1, <2>1, PipeAssumption DEF PipeInv, TypeOK, MutexHeld, MutexFree
  <2>2. CASE WriteChunk
    <3>1. encoder \in Sessions /\ mutex = "feed" /\ left \in 1 .. FrameChunks
      <4>1. encoder \in 0 .. MaxSessions
        BY PipeAssumption DEF PipeInv, TypeOK
      <4> QED  BY <2>2, <4>1, Numbers DEF PipeInv, MutexHeld
    <3>2. /\ buffered' \in [Sessions -> 0 .. PipeHolds] /\ left' = left - 1
          /\ left' \in 0 .. FrameChunks
      BY <2>2, <3>1, PipeAssumption DEF PipeInv, TypeOK
    <3>3. /\ feed' = (IF left = 1 THEN "idle" ELSE feed)
          /\ mutex' = (IF left = 1 THEN "free" ELSE mutex)
      BY <2>2 DEF LastChunk
    <3>4. TypeOK'
      BY <1>1, <2>2, <3>2, <3>3 DEF PipeInv, TypeOK
    <3>5. \A s \in Sessions : fin[s] # "wait"
      BY <3>1 DEF PipeInv, MutexHeld
    <3> QED
      BY <1>1, <3>1, <3>2, <3>3, <3>4, <3>5, PipeAssumption DEF PipeInv, MutexHeld
  <2>3. CASE WriteBroken
    BY <1>1, <2>3, PipeAssumption DEF PipeInv, TypeOK, MutexHeld
  <2> QED  BY <2>1, <2>2, <2>3
<1> QED  BY <1>2, <1>3 DEF PipeInv

\* A process ends, of itself or at the end of its input, or takes its input
LEMMA ProcessStep ==
  ASSUME PipeInv, NEW s \in Sessions, Ffmpeg(s) \/ FfmpegDies(s) \/ RemuxEnds(s)
  PROVE PipeInv'
<1>1. CASE FfmpegReads(s)
  <2>1. buffered' \in [Sessions -> 0 .. PipeHolds]
    BY <1>1, PipeAssumption DEF FfmpegReads, PipeInv, TypeOK
  <2> QED
    BY <1>1, <2>1 DEF FfmpegReads, PipeInv, TypeOK, MutexHeld, WaitingHasClosed,
       InheritableOnlyAtFirst, NoHandleLeft, PipeIsPrivate, hotVars, feedVars
<1>2. CASE FfmpegSeesEof(s) \/ FfmpegDies(s) \/ RemuxEnds(s)
  <2>1. PICK p \in Children, how \in {"ok", "failed"} :
          Ends(p, how) /\ UNCHANGED << hotVars, feedVars, encoder, mutex, fin >>
    BY <1>2, Processes DEF FfmpegSeesEof, FfmpegDies, RemuxEnds
  <2>2. UNCHANGED << inheritable, buffered >>
    BY <2>1 DEF Ends
  <2>3. TypeOK'
    BY <2>1, <2>2, Endings DEF PipeInv, TypeOK, hotVars, feedVars
  <2>4. MutexHeld'
    BY <2>1 DEF PipeInv, MutexHeld, hotVars, feedVars
  <2>5. \A r \in Sessions :
          /\ readers'[r] \subseteq readers[r] /\ writers'[r] \subseteq writers[r]
          /\ Recorder \in writers'[r] <=> Recorder \in writers[r]
          /\ Recorder \in readers'[r] <=> Recorder \in readers[r]
    BY <2>1, Endings DEF PipeInv
  <2>6. WaitingHasClosed' /\ InheritableOnlyAtFirst' /\ NoHandleLeft'
    BY <2>1, <2>2, <2>5
       DEF PipeInv, WaitingHasClosed, InheritableOnlyAtFirst, NoHandleLeft, hotVars
  <2>7. PipeIsPrivate'
    BY <2>5 DEF PipeInv, PipeIsPrivate
  <2> QED  BY <2>3, <2>4, <2>6, <2>7 DEF PipeInv
<1> QED  BY <1>1, <1>2 DEF Ffmpeg

LEMMA FinishStep ==
  ASSUME PipeInv, NEW s \in Sessions, Finish(s)
  PROVE PipeInv'
<1>1. CASE FinishClose(s)
  <2>1. /\ encoder \in Sessions /\ mutex = "free" /\ hot = "ready" /\ feed = "idle"
        /\ \A r \in Sessions : fin[r] # "wait"
    <3>1. encoder \in 0 .. MaxSessions
      BY PipeAssumption DEF PipeInv, TypeOK
    <3> QED  BY <1>1, <3>1, Numbers DEF FinishClose, MutexFree, PipeInv, TypeOK, MutexHeld
  <2>2. TypeOK'
    BY <1>1 DEF PipeInv, TypeOK, FinishClose, Closed, hotVars, feedVars
  <2>3. \A r \in Sessions : /\ writers'[r] = IF r = encoder THEN writers[r] \ {Recorder}
                                             ELSE writers[r]
                            /\ fin'[r] = IF r = s THEN "wait" ELSE fin[r]
    BY <1>1 DEF PipeInv, TypeOK, FinishClose, Closed
  <2>4. \A r \in Sessions : Recorder \notin writers'[r]
    BY <2>3 DEF PipeInv, NoHandleLeft
  <2>5. MutexHeld' /\ WaitingHasClosed' /\ InheritableOnlyAtFirst' /\ NoHandleLeft'
    BY <1>1, <2>1, <2>3, <2>4
       DEF PipeInv, MutexHeld, WaitingHasClosed, InheritableOnlyAtFirst, NoHandleLeft,
           FinishClose, hotVars, feedVars
  <2>6. PipeIsPrivate'
    BY <1>1, <2>3 DEF PipeInv, PipeIsPrivate, FinishClose
  <2> QED  BY <2>2, <2>5, <2>6 DEF PipeInv
<1>2. CASE FinishNoEncoder(s) \/ RemuxOver(s)
  <2>1. /\ fin' = [fin EXCEPT ![s] = "done"]
        /\ UNCHANGED << hotVars, feedVars, pipes, encoder, mutex, proc >>
    BY <1>2 DEF FinishNoEncoder, RemuxOver
  <2>2. TypeOK'
    BY <2>1 DEF PipeInv, TypeOK, hotVars, feedVars, pipes
  <2>3. \A r \in Sessions : fin'[r] = "wait" => fin[r] = "wait"
    BY <2>1 DEF PipeInv, TypeOK
  <2>4. MutexHeld' /\ WaitingHasClosed'
    BY <2>1, <2>3 DEF PipeInv, MutexHeld, WaitingHasClosed, hotVars, feedVars, pipes
  <2>5. InheritableOnlyAtFirst' /\ NoHandleLeft' /\ PipeIsPrivate'
    BY <2>1 DEF PipeInv, InheritableOnlyAtFirst, NoHandleLeft, PipeIsPrivate, hotVars, pipes
  <2> QED  BY <2>2, <2>4, <2>5 DEF PipeInv
<1>3. CASE FinishWaited(s)
  <2>1. hot = "ready" /\ feed = "idle" /\ \A r \in Sessions : fin[r] = "wait" => r = s
    BY <1>3 DEF FinishWaited, PipeInv, TypeOK, MutexHeld
  <2>2. TypeOK'
    BY <1>3 DEF PipeInv, TypeOK, FinishWaited, hotVars, feedVars, pipes, None
  <2>3. \A r \in Sessions : fin'[r] # "wait"
    BY <1>3, <2>1 DEF PipeInv, TypeOK, FinishWaited
  <2>4. \A r \in Sessions : Recorder \notin writers[r]
    BY <1>3 DEF PipeInv, WaitingHasClosed, NoHandleLeft, FinishWaited
  <2>5. MutexHeld' /\ WaitingHasClosed' /\ InheritableOnlyAtFirst' /\ NoHandleLeft'
    BY <1>3, <2>1, <2>3, <2>4
       DEF PipeInv, MutexHeld, WaitingHasClosed, InheritableOnlyAtFirst, NoHandleLeft,
           FinishWaited, hotVars, feedVars, pipes
  <2>6. PipeIsPrivate'
    BY <1>3 DEF PipeInv, PipeIsPrivate, FinishWaited, pipes
  <2> QED  BY <2>2, <2>5, <2>6 DEF PipeInv
<1>4. CASE RemuxSpawn(s)
  <2>1. Remux(s) \in Children /\ Remux(s) \in Remuxes /\ Spawn(Remux(s))
        /\ UNCHANGED << hotVars, feedVars, encoder, mutex, inheritable, buffered >>
    BY <1>4, Processes DEF RemuxSpawn, Spawn
  <2>2. \A r \in Sessions : fin'[r] = "wait" => fin[r] = "wait"
    BY <1>4 DEF PipeInv, TypeOK, RemuxSpawn
  <2>3. fin' \in [Sessions -> {"none", "lock", "wait", "remux", "remuxWait", "done"}]
    BY <1>4 DEF PipeInv, TypeOK, RemuxSpawn
  <2>4. TypeOK'
    BY <2>1, <2>3, Spawns DEF PipeInv, TypeOK, hotVars, feedVars
  <2>5. MutexHeld'
    BY <2>1, <2>2 DEF PipeInv, MutexHeld, hotVars, feedVars
  <2>6. \A r \in Sessions :
          /\ readers'[r] \subseteq readers[r] \cup {Remux(s)}
          /\ writers'[r] \subseteq writers[r] \cup {Remux(s)}
          /\ Recorder \in writers'[r] <=> Recorder \in writers[r]
          /\ Recorder \in readers'[r] <=> Recorder \in readers[r]
    BY <2>1, Spawns DEF PipeInv
  <2>7. WaitingHasClosed' /\ InheritableOnlyAtFirst' /\ NoHandleLeft'
    BY <2>1, <2>2, <2>6
       DEF PipeInv, WaitingHasClosed, InheritableOnlyAtFirst, NoHandleLeft, hotVars
  <2>8. PipeIsPrivate'
    BY <2>1, <2>6 DEF PipeInv, PipeIsPrivate
  <2> QED  BY <2>4, <2>5, <2>7, <2>8 DEF PipeInv
<1> QED  BY <1>1, <1>2, <1>3, <1>4 DEF Finish

THEOREM PipeNext == PipeInv /\ [Next]_vars => PipeInv'
<1>1. SUFFICES ASSUME PipeInv, [Next]_vars PROVE PipeInv'
  OBVIOUS
<1>2. CASE UNCHANGED vars
  BY <1>1, <1>2 DEF PipeInv, TypeOK, MutexHeld, WaitingHasClosed, InheritableOnlyAtFirst,
     NoHandleLeft, PipeIsPrivate, vars, hotVars, feedVars, pipes
<1>3. CASE Next
  BY <1>1, <1>3, CreatePipeStep, InStartStep, StopStep, WriteStep, ProcessStep, FinishStep
     DEF Next
<1> QED  BY <1>1, <1>2, <1>3

\* The invariant that the others follow from
THEOREM PipeInvariant == Spec => []PipeInv
BY PipeInit, PipeNext, PTL DEF Spec
-----------------------------------------------------------------------------
(***************************************************************************)
(* No encoding ffmpeg ever holds a handle of another session's pipe, nor a *)
(* write end of its own, for any number of sessions and remuxes            *)
(* (SetHandleInformation before CreateProcessW).                           *)
(***************************************************************************)
THEOREM AlwaysPrivate == Spec => []PipeIsPrivate
<1>1. PipeInv => PipeIsPrivate
  BY DEF PipeInv
<1> QED  BY <1>1, PipeInvariant, PTL

(***************************************************************************)
(* The recorder keeps no end of a pipe beyond the encoder it belongs to,   *)
(* whichever step of a start failed.                                       *)
(***************************************************************************)
THEOREM NeverHandleLeft == Spec => []NoHandleLeft
<1>1. PipeInv => NoHandleLeft
  BY DEF PipeInv
<1> QED  BY <1>1, PipeInvariant, PTL

\* Every handle of a pipe has its owner: the two results in one
THEOREM AlwaysOwned == Spec => []HandlesOwned
<1>1. PipeIsPrivate /\ NoHandleLeft => HandlesOwned
  BY DEF HandlesOwned
<1> QED  BY <1>1, AlwaysPrivate, NeverHandleLeft, PTL

\* The variables of the pipe model keep their types, for all bounds
THEOREM PipeTypeOK == Spec => []TypeOK
<1>1. PipeInv => TypeOK
  BY DEF PipeInv
<1> QED  BY <1>1, PipeInvariant, PTL

\* Whoever closes a write end has the mutex, so the feed thread is not writing
LEMMA ClosesBetween ==
  ASSUME PipeInv, [Next]_vars, NEW s \in Sessions, Recorder \in writers[s] \ writers'[s]
  PROVE ~(feed = "write" /\ encoder = s)
<1>1. CASE StartCreatePipe \/ StartPipeFails \/ \E r \in Sessions : FinishClose(r)
  BY <1>1 DEF StartCreatePipe, StartPipeFails, FinishClose, MutexFree, PipeInv, MutexHeld
<1>2. CASE InStart
  BY <1>2 DEF InStart, StartNotInheritable, StartSpawn, StartSpawnFails, StartCloseReadEnd,
              PipeInv, MutexHeld
<1>3. ASSUME NEW r \in Sessions, Ffmpeg(r) \/ FfmpegDies(r) \/ RemuxEnds(r) PROVE FALSE
  <2>1. CASE FfmpegReads(r)
    BY <2>1 DEF FfmpegReads
  <2>2. CASE FfmpegSeesEof(r) \/ FfmpegDies(r) \/ RemuxEnds(r)
    <3>1. PICK p \in Children, how \in {"ok", "failed"} : Ends(p, how)
      BY <2>2, Processes DEF FfmpegSeesEof, FfmpegDies, RemuxEnds
    <3> QED  BY <3>1, Endings DEF PipeInv
  <2> QED  BY <1>3, <2>1, <2>2 DEF Ffmpeg
<1>4. ASSUME NEW r \in Sessions, Finish(r), ~FinishClose(r) PROVE FALSE
  <2>1. CASE RemuxSpawn(r)
    BY <2>1, Processes, Spawns DEF RemuxSpawn, PipeInv
  <2>2. CASE UNCHANGED pipes
    BY <2>2 DEF pipes
  <2> QED  BY <1>4, <2>1, <2>2 DEF Finish, FinishNoEncoder, FinishWaited, RemuxOver
<1>5. CASE Stop \/ WriteFrame \/ UNCHANGED vars
  BY <1>5 DEF Stop, WriteFrame, WriteBegin, WriteChunk, WriteBroken, vars, pipes
<1> QED  BY <1>1, <1>2, <1>3, <1>4, <1>5 DEF Next

(***************************************************************************)
(* ffmpeg's input ends between two frames: no step closes the write end of *)
(* a pipe while WriteFrame is in the middle of a frame.                    *)
(***************************************************************************)
THEOREM AlwaysBetweenFrames == Spec => ClosedBetweenFrames
<1>1. PipeInv /\ [Next]_vars =>
        [\A s \in Sessions :
           Recorder \in writers[s] \ writers'[s] => ~(feed = "write" /\ encoder = s)]_vars
  BY ClosesBetween
<1> QED  BY <1>1, PipeInvariant, PTL DEF Spec, ClosedBetweenFrames
-----------------------------------------------------------------------------
(* Processes and their handles *)

\* No ffmpeg of a start that has not spawned it; until then its write end
\* is the recorder's
Unspawned ==
  /\ \A s \in Sessions : s > session => proc[Encode(s)] = "none"
  /\ BeingMade => proc[Encode(session)] = "none" /\ Recorder \in writers[session]

\* A child that holds an end of a pipe runs
HoldersRun ==
  \A s \in Sessions, p \in Children : p \in readers[s] \cup writers[s] => proc[p] = "running"

HandleInv == PipeInv /\ Unspawned /\ HoldersRun

\* Encodes and remuxes, and the encodes of different sessions, are different
LEMMA ProcessesDiffer ==
  /\ \A s, t \in Sessions : Encode(s) # Remux(t)
  /\ \A s, t \in Sessions : Encode(s) = Encode(t) => s = t
BY DEF Encode, Remux

\* A step that spawns and ends nothing, and gives no child a handle
LEMMA NoNewHolders ==
  ASSUME HoldersRun, proc' = proc,
         \A s \in Sessions, p \in Children :
           p \in readers'[s] \cup writers'[s] => p \in readers[s] \cup writers[s]
  PROVE  HoldersRun'
BY DEF HoldersRun

LEMMA SpawnedRuns ==
  ASSUME TypeOK, HoldersRun, NEW p \in Children, Spawn(p)
  PROVE  HoldersRun'
<1>1. \A q \in Children : proc'[q] = IF q = p THEN "running" ELSE proc[q]
  BY DEF TypeOK, Spawn
<1>2. \A s \in Sessions : readers'[s] \subseteq readers[s] \cup {p}
                        /\ writers'[s] \subseteq writers[s] \cup {p}
  BY Spawns
<1> QED  BY <1>1, <1>2 DEF HoldersRun

LEMMA EndedHoldsNothing ==
  ASSUME TypeOK, HoldersRun, NEW p \in Children, NEW how \in {"ok", "failed"}, Ends(p, how)
  PROVE  HoldersRun'
<1>1. \A q \in Children : proc'[q] = IF q = p THEN how ELSE proc[q]
  BY DEF TypeOK, Ends
<1>2. \A s \in Sessions : readers'[s] = readers[s] \ {p} /\ writers'[s] = writers[s] \ {p}
  BY Endings
<1> QED  BY <1>1, <1>2 DEF HoldersRun

LEMMA HandleInit == Init => HandleInv
<1>1. SUFFICES ASSUME Init PROVE Unspawned /\ HoldersRun
  BY PipeInit DEF HandleInv
<1> QED  BY <1>1, Processes DEF Init, Unspawned, HoldersRun, BeingMade

LEMMA NextNumber == ASSUME NEW n \in Nat PROVE n + 1 > n /\ \A s \in Nat : s > n + 1 => s > n
  OBVIOUS

\* The steps of a start, but for the spawn
LEMMA StartKeepsHandles ==
  ASSUME HandleInv, StartCreatePipe \/ StartPipeFails \/ StartNotInheritable
                    \/ StartSpawnFails \/ StartCloseReadEnd
  PROVE  Unspawned' /\ HoldersRun'
<1> USE DEF HandleInv, PipeInv, Closed
<1>1. proc' = proc /\ session \in Nat /\ Sessions \subseteq Nat
  BY Numbers, PipeAssumption DEF TypeOK, StartCreatePipe, StartPipeFails, StartNotInheritable,
     StartSpawnFails, StartCloseReadEnd
<1>2. CASE StartCreatePipe
  <2>1. session + 1 \in Sessions /\ session' = session + 1
    BY <1>1, <1>2, PipeAssumption DEF StartCreatePipe, Sessions
  <2>2. \A s \in Sessions :
          /\ writers'[s] = IF s = session + 1 THEN {Recorder}
                           ELSE IF s = encoder THEN writers[s] \ {Recorder} ELSE writers[s]
          /\ readers'[s] = IF s = session + 1 THEN {Recorder} ELSE readers[s]
    BY <1>2, <2>1 DEF TypeOK, StartCreatePipe
  <2>3. HoldersRun'
    BY <1>1, <2>2, Processes, NoNewHolders
  <2>4. \A s \in Sessions : s > session => proc[Encode(s)] = "none"
    BY DEF Unspawned
  <2>5. session + 1 > session /\ \A s \in Sessions : s > session + 1 => s > session
    <3> HIDE DEF HandleInv, PipeInv
    <3> QED  BY <1>1, NextNumber
  <2>6. proc[Encode(session + 1)] = "none"
    BY <2>1, <2>4, <2>5
  <2>7. Recorder \in writers'[session + 1]
    BY <2>1, <2>2
  <2>8. \A s \in Sessions : s > session + 1 => proc[Encode(s)] = "none"
    BY <2>4, <2>5
  <2>9. Unspawned'
    BY <1>1, <2>1, <2>6, <2>7, <2>8 DEF Unspawned
  <2> QED  BY <2>3, <2>9
<1>3. CASE StartPipeFails
  <2>1. session + 1 \in Sessions /\ session' = session + 1 /\ ~BeingMade'
    BY <1>1, <1>3, PipeAssumption DEF StartPipeFails, Sessions, BeingMade
  <2>2. Unspawned'
    BY <1>1, <2>1 DEF Unspawned
  <2>3. HoldersRun'
    BY <1>1, <1>3, NoNewHolders DEF StartPipeFails, TypeOK
  <2> QED  BY <2>2, <2>3
<1>4. CASE StartNotInheritable
  BY <1>1, <1>4, NoNewHolders DEF StartNotInheritable, Unspawned, BeingMade
<1>5. CASE StartSpawnFails \/ StartCloseReadEnd
  <2>1. session' = session /\ ~BeingMade'
    BY <1>5 DEF StartSpawnFails, StartCloseReadEnd, BeingMade
  <2>2. Unspawned'
    BY <1>1, <2>1 DEF Unspawned
  <2>3. HoldersRun'
    BY <1>1, <1>5, NoNewHolders DEF StartSpawnFails, StartCloseReadEnd, TypeOK
  <2> QED  BY <2>2, <2>3
<1> QED  BY <1>2, <1>3, <1>4, <1>5

\* A step that spawns no ffmpeg and closes no write end of the recorder
LEMMA StaysUnspawned ==
  ASSUME Unspawned, session' = session, BeingMade' => BeingMade /\ session \in Sessions,
         \A t \in Sessions : /\ proc[Encode(t)] = "none" => proc'[Encode(t)] = "none"
                             /\ Recorder \in writers[t] => Recorder \in writers'[t]
  PROVE  Unspawned'
<1>1. \A s \in Sessions : s > session => proc'[Encode(s)] = "none"
  BY DEF Unspawned
<1>2. BeingMade' => proc'[Encode(session)] = "none" /\ Recorder \in writers'[session]
  BY DEF Unspawned
<1> QED  BY <1>1, <1>2 DEF Unspawned

\* A process is spawned, by a start or by a finish thread
LEMMA SpawnKeepsHandles ==
  ASSUME HandleInv, StartSpawn \/ \E s \in Sessions : RemuxSpawn(s)
  PROVE  Unspawned' /\ HoldersRun'
<1> USE DEF HandleInv, PipeInv
<1>1. session \in Nat /\ Sessions \subseteq Nat /\ session' = session
  BY Numbers, PipeAssumption DEF TypeOK, StartSpawn, RemuxSpawn, hotVars
<1>2. CASE StartSpawn
  <2>1. session \in Sessions /\ Spawn(Encode(session)) /\ ~BeingMade'
    BY <1>2 DEF StartSpawn, MutexHeld, BeingMade
  <2>2. HoldersRun'
    BY <2>1, Processes, SpawnedRuns
  <2>3. \A s \in Sessions : s > session => proc'[Encode(s)] = proc[Encode(s)]
    BY <1>1, <2>1, Processes, ProcessesDiffer DEF Spawn, TypeOK
  <2>4. Unspawned'
    BY <1>1, <2>1, <2>3 DEF Unspawned
  <2> QED  BY <2>2, <2>4
<1>3. ASSUME NEW s \in Sessions, RemuxSpawn(s) PROVE Unspawned' /\ HoldersRun'
  <2>1. Spawn(Remux(s)) /\ (BeingMade' <=> BeingMade)
    BY <1>3 DEF RemuxSpawn, BeingMade, hotVars
  <2>2. HoldersRun'
    BY <2>1, Processes, SpawnedRuns
  <2>3. \A t \in Sessions : /\ proc'[Encode(t)] = proc[Encode(t)]
                            /\ Recorder \in writers'[t] <=> Recorder \in writers[t]
    BY <2>1, Processes, ProcessesDiffer, Spawns DEF Spawn, TypeOK
  <2>4. BeingMade => session \in Sessions
    BY DEF BeingMade, MutexHeld
  <2>5. Unspawned'
    BY <1>1, <2>1, <2>3, <2>4, StaysUnspawned
  <2> QED  BY <2>2, <2>5
<1> QED  BY <1>2, <1>3

\* A process ends
LEMMA EndKeepsHandles ==
  ASSUME HandleInv, NEW s \in Sessions, FfmpegSeesEof(s) \/ FfmpegDies(s) \/ RemuxEnds(s)
  PROVE  Unspawned' /\ HoldersRun'
<1> USE DEF HandleInv, PipeInv
<1>1. PICK p \in Children, how \in {"ok", "failed"} :
        Ends(p, how) /\ proc[p] = "running" /\ UNCHANGED hotVars
  BY Processes DEF FfmpegSeesEof, FfmpegDies, RemuxEnds
<1>2. HoldersRun'
  BY <1>1, EndedHoldsNothing
<1>3. \A t \in Sessions : /\ proc[Encode(t)] = "none" => proc'[Encode(t)] = "none"
                          /\ Recorder \in writers'[t] <=> Recorder \in writers[t]
  BY <1>1, Processes, Endings DEF Ends, TypeOK
<1>4. BeingMade => session \in Sessions
  BY DEF BeingMade, MutexHeld
<1>5. Unspawned'
  BY <1>1, <1>3, <1>4, StaysUnspawned DEF BeingMade, hotVars
<1> QED  BY <1>2, <1>5

\* Steps that leave start and processes alone, and at most close a handle
LEMMA OthersKeepHandles ==
  ASSUME HandleInv, UNCHANGED << hotVars, proc, readers >>,
         \/ UNCHANGED writers
         \/ \E s \in Sessions : FinishClose(s)
  PROVE  Unspawned' /\ HoldersRun'
<1> USE DEF HandleInv, PipeInv, hotVars
<1>1. CASE UNCHANGED writers
  BY <1>1, NoNewHolders DEF Unspawned, BeingMade
<1>2. CASE \E s \in Sessions : FinishClose(s)
  <2>1. ~BeingMade' /\ \A t \in Sessions : writers'[t] \subseteq writers[t]
    BY <1>2 DEF FinishClose, Closed, MutexFree, MutexHeld, TypeOK, BeingMade
  <2> QED  BY <2>1, NoNewHolders DEF Unspawned
<1> QED  BY <1>1, <1>2

LEMMA HandleNext == HandleInv /\ [Next]_vars => HandleInv'
<1>1. SUFFICES ASSUME HandleInv, [Next]_vars PROVE Unspawned' /\ HoldersRun'
  BY PipeNext DEF HandleInv
<1>2. CASE StartCreatePipe \/ StartPipeFails \/ InStart
  BY <1>1, <1>2, StartKeepsHandles, SpawnKeepsHandles DEF InStart
<1>3. CASE Stop
  BY <1>1, <1>3, NoNewHolders DEF Stop, pipes, HandleInv, Unspawned, BeingMade
<1>4. CASE WriteFrame \/ UNCHANGED vars
  BY <1>1, <1>4, OthersKeepHandles
     DEF WriteFrame, WriteBegin, WriteChunk, WriteBroken, vars, pipes
<1>5. ASSUME NEW s \in Sessions, Ffmpeg(s) \/ FfmpegDies(s) \/ RemuxEnds(s)
      PROVE Unspawned' /\ HoldersRun'
  BY <1>1, <1>5, EndKeepsHandles, OthersKeepHandles DEF Ffmpeg, FfmpegReads
<1>6. ASSUME NEW s \in Sessions, Finish(s) PROVE Unspawned' /\ HoldersRun'
  <2>1. CASE RemuxSpawn(s)
    BY <1>1, <2>1, SpawnKeepsHandles
  <2>2. CASE FinishClose(s)
    BY <1>1, <2>2, OthersKeepHandles DEF FinishClose
  <2>3. CASE FinishNoEncoder(s) \/ FinishWaited(s) \/ RemuxOver(s)
    BY <1>1, <2>3, OthersKeepHandles DEF FinishNoEncoder, FinishWaited, RemuxOver, pipes
  <2> QED  BY <1>6, <2>1, <2>2, <2>3 DEF Finish
<1> QED  BY <1>1, <1>2, <1>3, <1>4, <1>5, <1>6 DEF Next

\* The invariant the refinement rests on
THEOREM HandleInvariant == Spec => []HandleInv
BY HandleInit, HandleNext, PTL DEF Spec

(***************************************************************************)
(* Nobody waits with encoderMutex_ held for a process that has ended, or   *)
(* for a handle the recorder itself has: WriteFile returns and the end of  *)
(* file comes as soon as the children that are named get on or end.        *)
(***************************************************************************)
THEOREM AlwaysWaitsForChild == Spec => []WaitsForRunningChild
<1>1. ASSUME HandleInv PROVE WaitsForRunningChild
  <2> USE <1>1 DEF HandleInv, PipeInv
  <2>1. encoder = None \/ encoder \in Sessions
    BY Numbers, PipeAssumption DEF TypeOK
  <2>2. ASSUME feed = "write", NEW p \in readers[encoder]
        PROVE p \in Children /\ proc[p] = "running"
    <3>1. encoder \in Sessions /\ hot = "ready"
      BY <2>1, <2>2 DEF MutexHeld
    <3>2. p # Recorder
      BY <2>2, <3>1 DEF NoHandleLeft
    <3>3. p \in Children
      BY <2>2, <3>1, <3>2 DEF TypeOK
    <3> QED  BY <2>2, <3>1, <3>3 DEF HoldersRun
  <2>3. ASSUME NEW s \in Sessions, fin[s] = "wait", NEW p \in writers[encoder]
        PROVE p \in Remuxes /\ proc[p] = "running"
    <3>1. encoder \in Sessions
      BY <2>1, <2>3 DEF MutexHeld
    <3>2. p \in Remuxes
      BY <2>3, <3>1 DEF WaitingHasClosed, PipeIsPrivate
    <3> QED  BY <2>3, <3>1, <3>2 DEF HoldersRun, Children
  <2> QED  BY <2>2, <2>3 DEF WaitsForRunningChild
<1> QED  BY <1>1, HandleInvariant, PTL
-----------------------------------------------------------------------------
(* The pipe keeps the promise of encoder_ *)

LEMMA SameNames == Use!Sessions = Sessions /\ Use!None = None
BY DEF Use!Sessions, Sessions, Use!None, None

\* What the promise sees of an ffmpeg, before and after a step
LEMMA FfmpegStates ==
  /\ FfmpegState = [s \in Sessions |-> FfmpegState[s]]
  /\ FfmpegState' = [s \in Sessions |-> FfmpegState'[s]]
  /\ \A s \in Sessions :
       /\ FfmpegState[s] = IF proc[Encode(s)] = "running" /\ Recorder \notin writers[s]
                           THEN "eof" ELSE proc[Encode(s)]
       /\ FfmpegState'[s] = IF proc'[Encode(s)] = "running" /\ Recorder \notin writers'[s]
                            THEN "eof" ELSE proc'[Encode(s)]
BY DEF FfmpegState

\* A step sees to it that ffmpeg's state is a given one
LEMMA FfmpegStateIs ==
  ASSUME NEW f, f = [s \in Sessions |-> f[s]], \A s \in Sessions : FfmpegState'[s] = f[s]
  PROVE  FfmpegState' = f
<1>1. FfmpegState' = [s \in Sessions |-> FfmpegState'[s]]
  BY FfmpegStates
<1> QED  BY <1>1

\* A step that leaves the ffmpegs, their write ends and the encoder alone
LEMMA Stutters ==
  ASSUME UNCHANGED << session, encoder >>, MutexUser' = MutexUser, BeingMade' <=> BeingMade,
         \A s \in Sessions :
           /\ proc'[Encode(s)] = proc[Encode(s)]
           /\ proc[Encode(s)] = "running" => (Recorder \in writers'[s] <=> Recorder \in writers[s])
  PROVE  UNCHANGED Use!vars
<1>1. EncoderUsed' = EncoderUsed /\ StartsMade' = StartsMade
  BY DEF EncoderUsed, StartsMade
<1>2. \A s \in Sessions : FfmpegState'[s] = FfmpegState[s]
  BY FfmpegStates
<1>3. FfmpegState' = FfmpegState
  BY <1>2, FfmpegStates
<1> QED  BY <1>1, <1>3 DEF Use!vars

\* The old encoder goes when a start creates its pipe
LEMMA CreatePipeDrops ==
  ASSUME HandleInv, StartCreatePipe
  PROVE  Use!Drop
<1> USE DEF HandleInv, PipeInv
<1>1. /\ session \in Nat /\ session' = session + 1 /\ hot = "ready" /\ hot' = "inherit"
      /\ mutex = "free" /\ mutex' = "start" /\ encoder <= session /\ proc' = proc
  BY PipeAssumption DEF TypeOK, StartCreatePipe, MutexFree
<1>2. /\ EncoderUsed = encoder /\ EncoderUsed' = None /\ MutexUser = "free"
      /\ MutexUser' = "free" /\ StartsMade' = StartsMade
  BY <1>1 DEF EncoderUsed, MutexUser, StartsMade, BeingMade
<1>3. \A s \in Sessions :
        writers'[s] = IF s = session + 1 THEN {Recorder}
                      ELSE IF s = encoder THEN writers[s] \ {Recorder} ELSE writers[s]
  BY <1>1 DEF StartCreatePipe, Closed, TypeOK
<1>4. \A s \in Sessions : s = session + 1 => proc[Encode(s)] = "none" /\ s # encoder
  BY <1>1 DEF Unspawned
<1>5. \A s \in Sessions : FfmpegState'[s] = Use!StdinClosed[s]
  <2> TAKE s \in Sessions
  <2>1. Use!StdinClosed[s] = IF s = encoder /\ FfmpegState[s] = "running" THEN "eof"
                             ELSE FfmpegState[s]
    BY <1>2, SameNames DEF Use!StdinClosed
  <2>2. CASE s = session + 1
    BY <1>1, <1>4, <2>1, <2>2, FfmpegStates
  <2>3. CASE s # session + 1
    BY <1>1, <1>3, <2>1, <2>3, FfmpegStates
  <2> QED  BY <2>2, <2>3
<1>6. FfmpegState' = Use!StdinClosed
  BY <1>5, FfmpegStateIs, SameNames DEF Use!StdinClosed
<1> QED  BY <1>2, <1>6, SameNames DEF Use!Drop

\* ... or when there is no pipe to be had
LEMMA PipeFailsRenews ==
  ASSUME HandleInv, StartPipeFails
  PROVE  Use!RenewFails
<1> USE DEF HandleInv, PipeInv
<1>1. /\ session \in Nat /\ session < MaxSessions /\ session' = session + 1 /\ hot = "ready"
      /\ hot' = "ready" /\ mutex = "free" /\ mutex' = "free" /\ proc' = proc
      /\ encoder' = None
  BY PipeAssumption DEF TypeOK, StartPipeFails, MutexFree
<1>2. /\ EncoderUsed = encoder /\ EncoderUsed' = None /\ MutexUser = "free"
      /\ MutexUser' = "free" /\ StartsMade' = StartsMade + 1 /\ StartsMade = session
  BY <1>1 DEF EncoderUsed, MutexUser, StartsMade, BeingMade
<1>3. \A s \in Sessions :
        writers'[s] = IF s = encoder THEN writers[s] \ {Recorder} ELSE writers[s]
  BY <1>1 DEF StartPipeFails, Closed
<1>4. \A s \in Sessions : FfmpegState'[s] = Use!StdinClosed[s]
  <2> TAKE s \in Sessions
  <2>1. Use!StdinClosed[s] = IF s = encoder /\ FfmpegState[s] = "running" THEN "eof"
                             ELSE FfmpegState[s]
    BY <1>2, SameNames DEF Use!StdinClosed
  <2> QED  BY <1>1, <1>3, <2>1, FfmpegStates
<1>5. FfmpegState' = Use!StdinClosed
  BY <1>4, FfmpegStateIs, SameNames DEF Use!StdinClosed
<1> QED  BY <1>1, <1>2, <1>5, SameNames DEF Use!RenewFails

\* A spawned ffmpeg is a new encoder, since its write end is the recorder's
LEMMA SpawnRenews ==
  ASSUME HandleInv, StartSpawn
  PROVE  Use!Renew
<1> USE DEF HandleInv, PipeInv
<1>1. /\ session \in Sessions /\ session \in Nat /\ session <= MaxSessions
      /\ session' = session /\ hot = "spawn" /\ hot' = "close" /\ mutex = "start"
      /\ encoder = session /\ UNCHANGED << mutex, encoder >> /\ Spawn(Encode(session))
      /\ Recorder \in writers[session]
  BY PipeAssumption, Numbers DEF TypeOK, StartSpawn, MutexHeld, Unspawned, BeingMade
<1>2. /\ EncoderUsed = None /\ EncoderUsed' = session /\ MutexUser = "free"
      /\ MutexUser' = "free" /\ StartsMade = session - 1 /\ StartsMade' = session
  BY <1>1 DEF EncoderUsed, MutexUser, StartsMade, BeingMade
<1>3. \A s \in Sessions :
        /\ proc'[Encode(s)] = IF s = session THEN "running" ELSE proc[Encode(s)]
        /\ Recorder \in writers'[s] <=> Recorder \in writers[s]
  BY <1>1, Processes, ProcessesDiffer, Spawns DEF Spawn, TypeOK
<1>4. Use!StdinClosed = FfmpegState
  <2>1. \A s \in Sessions : s # EncoderUsed
    BY <1>2, Numbers
  <2> QED  BY <2>1, FfmpegStates, SameNames DEF Use!StdinClosed
<1>5. \A s \in Sessions : FfmpegState'[s] = IF s = session THEN "running" ELSE FfmpegState[s]
  BY <1>1, <1>3, FfmpegStates
<1>6. FfmpegState' = [FfmpegState EXCEPT ![session] = "running"]
  BY <1>5, FfmpegStates
<1>7. StartsMade < MaxSessions /\ StartsMade + 1 = session
  BY <1>1, <1>2, PipeAssumption
<1> QED  BY <1>2, <1>4, <1>6, <1>7 DEF Use!Renew

LEMMA SpawnFailsRenews ==
  ASSUME HandleInv, StartSpawnFails
  PROVE  Use!RenewFails
<1> USE DEF HandleInv, PipeInv
<1>1. /\ session \in Sessions /\ session \in Nat /\ session <= MaxSessions
      /\ session' = session /\ hot = "spawn" /\ hot' = "ready" /\ mutex = "start"
      /\ mutex' = "free" /\ encoder' = None /\ proc' = proc
      /\ proc[Encode(session)] = "none"
  BY PipeAssumption, Numbers DEF TypeOK, StartSpawnFails, MutexHeld, Unspawned, BeingMade
<1>2. /\ EncoderUsed = None /\ EncoderUsed' = None /\ MutexUser = "free"
      /\ MutexUser' = "free" /\ StartsMade = session - 1 /\ StartsMade' = session
  BY <1>1 DEF EncoderUsed, MutexUser, StartsMade, BeingMade
<1>3. \A s \in Sessions : s # session => writers'[s] = writers[s]
  BY DEF StartSpawnFails, Closed
<1>4. Use!StdinClosed = FfmpegState
  <2>1. \A s \in Sessions : s # EncoderUsed
    BY <1>2, Numbers
  <2> QED  BY <2>1, FfmpegStates, SameNames DEF Use!StdinClosed
<1>5. \A s \in Sessions : FfmpegState'[s] = FfmpegState[s]
  BY <1>1, <1>3, FfmpegStates
<1>6. FfmpegState' = FfmpegState
  BY <1>5, FfmpegStates
<1>7. StartsMade < MaxSessions /\ StartsMade + 1 = session
  BY <1>1, <1>2, PipeAssumption
<1> QED  BY <1>2, <1>4, <1>6, <1>7, SameNames DEF Use!RenewFails

\* A start that only closes or marks handles is no step of the encoder's life
LEMMA StartStutters ==
  ASSUME HandleInv, StartNotInheritable \/ StartCloseReadEnd
  PROVE  UNCHANGED Use!vars
<1>1. /\ UNCHANGED << session, encoder, proc, writers >>
      /\ BeingMade' <=> BeingMade
      /\ mutex = "start" /\ mutex' \in {"start", "free"}
  BY DEF HandleInv, PipeInv, MutexHeld, StartNotInheritable, StartCloseReadEnd, BeingMade
<1> QED  BY <1>1, Stutters DEF MutexUser

\* The feed thread: a frame is one use of the encoder, however many pieces
LEMMA WriteUses ==
  ASSUME HandleInv, WriteFrame
  PROVE  Use!BeginWrite \/ Use!EndWrite \/ UNCHANGED Use!vars
<1> USE DEF HandleInv, PipeInv, WriteFrame, WriteBegin, WriteChunk, WriteBroken, WriteEnds, hotVars
<1>1. UNCHANGED << session, hot, encoder, writers, proc >> /\ hot = "ready"
  BY DEF pipes, MutexFree, MutexHeld
<1>2. EncoderUsed = encoder /\ UNCHANGED << EncoderUsed, StartsMade, FfmpegState >>
  BY <1>1, FfmpegStates DEF EncoderUsed, StartsMade, BeingMade
<1>3. CASE WriteBegin
  BY <1>2, <1>3, SameNames DEF Use!BeginWrite, MutexUser, MutexFree
<1>4. CASE WriteChunk \/ WriteBroken
  <2>1. MutexUser = "feed" /\ (MutexUser' = "free" \/ MutexUser' = MutexUser)
    BY <1>4 DEF MutexHeld, MutexUser
  <2> QED  BY <1>2, <2>1 DEF Use!EndWrite, Use!vars
<1> QED  BY <1>3, <1>4

\* ffmpeg dies while the recorder has its write end, or ends at end of file
LEMMA ProcessEnds ==
  ASSUME HandleInv, NEW s \in Sessions, Ffmpeg(s) \/ FfmpegDies(s) \/ RemuxEnds(s)
  PROVE  Use!FfmpegEnds(s) \/ UNCHANGED Use!vars
<1> USE DEF HandleInv, PipeInv
<1>1. UNCHANGED << hotVars, encoder, mutex >>
  BY DEF Ffmpeg, FfmpegReads, FfmpegSeesEof, FfmpegDies, RemuxEnds
<1>2. /\ UNCHANGED << session, encoder, EncoderUsed, MutexUser, StartsMade >>
      /\ BeingMade' <=> BeingMade
  BY <1>1 DEF EncoderUsed, MutexUser, StartsMade, BeingMade, hotVars
<1>3. CASE FfmpegReads(s)
  BY <1>2, <1>3, Stutters DEF FfmpegReads
<1>4. CASE RemuxEnds(s)
  <2>1. PICK how \in {"ok", "failed"} : Ends(Remux(s), how)
    BY <1>4 DEF RemuxEnds
  <2>2. \A r \in Sessions : /\ proc'[Encode(r)] = proc[Encode(r)]
                            /\ Recorder \in writers'[r] <=> Recorder \in writers[r]
    BY <2>1, Processes, ProcessesDiffer, Endings DEF Ends, TypeOK
  <2> QED  BY <1>2, <2>2, Stutters
<1>5. CASE FfmpegSeesEof(s) \/ FfmpegDies(s)
  <2>1. PICK how \in {"ok", "failed"} :
          /\ Ends(Encode(s), how) /\ proc[Encode(s)] = "running"
          /\ Recorder \in writers[s] => how = "failed"
    BY <1>5 DEF FfmpegSeesEof, FfmpegDies
  <2>2. \A r \in Sessions : /\ proc'[Encode(r)] = IF r = s THEN how ELSE proc[Encode(r)]
                            /\ Recorder \in writers'[r] <=> Recorder \in writers[r]
    BY <2>1, Processes, ProcessesDiffer, Endings DEF Ends, TypeOK
  <2>3. \A r \in Sessions : FfmpegState'[r] = IF r = s THEN how ELSE FfmpegState[r]
    BY <2>2, FfmpegStates
  <2>4. FfmpegState' = [FfmpegState EXCEPT ![s] = how]
    BY <2>3, FfmpegStates
  <2>5. FfmpegState[s] = "eof" \/ (FfmpegState[s] = "running" /\ how = "failed")
    BY <2>1, FfmpegStates
  <2> QED  BY <1>2, <2>4, <2>5 DEF Use!FfmpegEnds
<1> QED  BY <1>3, <1>4, <1>5 DEF Ffmpeg

\* The finish threads: one use from closing the pipe to resetting the encoder
LEMMA FinishUses ==
  ASSUME HandleInv, NEW s \in Sessions, Finish(s)
  PROVE  Use!BeginFinish \/ Use!EndFinish \/ UNCHANGED Use!vars
<1> USE DEF HandleInv, PipeInv
<1>1. UNCHANGED << session, hot >> /\ (BeingMade' <=> BeingMade) /\ StartsMade' = StartsMade
  BY DEF Finish, FinishClose, FinishNoEncoder, FinishWaited, RemuxSpawn, RemuxOver, hotVars,
         BeingMade, StartsMade
<1>2. CASE FinishClose(s)
  <2>1. /\ mutex = "free" /\ mutex' = "finish" /\ encoder' = encoder /\ encoder # None
        /\ proc' = proc /\ hot = "ready"
    BY <1>2 DEF FinishClose, MutexFree, MutexHeld
  <2>2. /\ EncoderUsed = encoder /\ EncoderUsed' = encoder
        /\ MutexUser = "free" /\ MutexUser' = "finish"
    BY <1>1, <2>1 DEF EncoderUsed, MutexUser, BeingMade
  <2>3. \A r \in Sessions :
          writers'[r] = IF r = encoder THEN writers[r] \ {Recorder} ELSE writers[r]
    BY <1>2 DEF FinishClose, Closed
  <2>4. \A r \in Sessions : FfmpegState'[r] = Use!StdinClosed[r]
    <3> TAKE r \in Sessions
    <3>1. Use!StdinClosed[r] = IF r = encoder /\ FfmpegState[r] = "running" THEN "eof"
                               ELSE FfmpegState[r]
      BY <2>2, SameNames DEF Use!StdinClosed
    <3> QED  BY <2>1, <2>3, <3>1, FfmpegStates
  <2>5. FfmpegState' = Use!StdinClosed
    BY <2>4, FfmpegStateIs, SameNames DEF Use!StdinClosed
  <2> QED  BY <1>1, <2>1, <2>2, <2>5, SameNames DEF Use!BeginFinish
<1>3. CASE FinishWaited(s)
  <2>1. /\ mutex = "finish" /\ mutex' = "free" /\ encoder' = None /\ hot = "ready"
        /\ UNCHANGED << writers, proc >> /\ proc[Encode(encoder)] \in {"ok", "failed"}
        /\ encoder \in Sessions
    <3>1. encoder \in 0 .. MaxSessions
      BY PipeAssumption DEF TypeOK
    <3> QED  BY <1>3, <3>1, Numbers DEF FinishWaited, MutexHeld, pipes
  <2>2. /\ EncoderUsed = encoder /\ EncoderUsed' = None
        /\ MutexUser = "finish" /\ MutexUser' = "free"
    BY <1>1, <2>1 DEF EncoderUsed, MutexUser, BeingMade
  <2>3. FfmpegState' = FfmpegState /\ FfmpegState[encoder] \in {"ok", "failed"}
    BY <2>1, FfmpegStates
  <2> QED  BY <1>1, <2>2, <2>3, SameNames DEF Use!EndFinish
<1>4. CASE RemuxSpawn(s)
  <2>1. Spawn(Remux(s)) /\ UNCHANGED << encoder, mutex >>
    BY <1>4 DEF RemuxSpawn
  <2>2. \A r \in Sessions : /\ proc'[Encode(r)] = proc[Encode(r)]
                            /\ Recorder \in writers'[r] <=> Recorder \in writers[r]
    BY <2>1, Processes, ProcessesDiffer, Spawns DEF Spawn, TypeOK
  <2> QED  BY <1>1, <2>1, <2>2, Stutters DEF MutexUser
<1>5. CASE FinishNoEncoder(s) \/ RemuxOver(s)
  BY <1>1, <1>5, Stutters DEF FinishNoEncoder, RemuxOver, pipes, MutexUser
<1> QED  BY <1>2, <1>3, <1>4, <1>5 DEF Finish

LEMMA UseInit == Init => Use!Init
<1>1. SUFFICES ASSUME Init PROVE Use!Init
  OBVIOUS
<1>2. EncoderUsed = None /\ MutexUser = "free" /\ StartsMade = 0
  BY <1>1 DEF Init, EncoderUsed, MutexUser, StartsMade, BeingMade
<1>3. FfmpegState = [s \in Sessions |-> "none"]
  BY <1>1, Processes DEF Init, FfmpegState
<1> QED  BY <1>2, <1>3, SameNames DEF Use!Init

LEMMA UseNext == HandleInv /\ [Next]_vars => [Use!Next]_(Use!vars)
<1>1. SUFFICES ASSUME HandleInv, [Next]_vars PROVE Use!Next \/ UNCHANGED Use!vars
  OBVIOUS
<1>2. CASE StartCreatePipe \/ StartPipeFails \/ InStart
  BY <1>1, <1>2, CreatePipeDrops, PipeFailsRenews, SpawnRenews, SpawnFailsRenews, StartStutters
     DEF InStart, Use!Next
<1>3. CASE Stop \/ UNCHANGED vars
  <2>1. UNCHANGED << session, hot, encoder, mutex, proc, writers >>
    BY <1>3 DEF Stop, vars, hotVars, pipes
  <2> QED  BY <2>1, Stutters DEF MutexUser, BeingMade
<1>4. CASE WriteFrame
  BY <1>1, <1>4, WriteUses DEF Use!Next
<1>5. ASSUME NEW s \in Sessions, Ffmpeg(s) \/ FfmpegDies(s) \/ RemuxEnds(s)
      PROVE Use!Next \/ UNCHANGED Use!vars
  BY <1>1, <1>5, ProcessEnds, SameNames DEF Use!Next
<1>6. ASSUME NEW s \in Sessions, Finish(s) PROVE Use!Next \/ UNCHANGED Use!vars
  BY <1>1, <1>6, FinishUses DEF Use!Next
<1> QED  BY <1>1, <1>2, <1>3, <1>4, <1>5, <1>6 DEF Next

(***************************************************************************)
(* Whatever is spawned, dies or fails to start, the handles and processes  *)
(* implement what the threads of Recorder.cpp take encoder_ to be          *)
(* (Recorder.h:102-117), for any number of sessions and frames and a pipe  *)
(* of any size.                                                            *)
(***************************************************************************)
THEOREM PipeImplementsUse == Spec => ImplementsEncoderUse
<1>1. Spec => Use!Init /\ [][Use!Next]_(Use!vars)
  BY UseInit, UseNext, HandleInvariant, PTL DEF Spec
<1> QED  BY <1>1 DEF ImplementsEncoderUse, Use!Spec
=============================================================================
