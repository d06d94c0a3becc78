----------------------- MODULE DesktopCapture_proofs -----------------------
(***************************************************************************)
(* Why desktop duplication needs no lock: for any number of pictures,      *)
(* recordings and screenshots, the one frame it gives out at a time keeps  *)
(* the capture loop and the screenshot out of each other's buffers.        *)
(***************************************************************************)
EXTENDS DesktopCapture, TLAPS

Holding == {"copy", "map", "read", "callback", "release"}

\* What the thread that holds the frame has put into the buffers
BuffersFollow ==
  backend = "dxgi" =>
    \A t \in Threads :
      /\ pc[t] \in Holding => held \in Pictures
      /\ pc[t] \in {"map", "read"} => staging = held
      /\ pc[t] = "callback" => scratch = held

\* The pictures of the recording, the cache and the frame, in order
PicturesFollow ==
  backend = "dxgi" =>
    /\ lastFrame \in Pictures \cup {NoFrame} /\ lastFrame <= screen
    /\ recorded \in {NotYet, lastFrame} /\ shot \in Pictures \cup {NoFrame}
    /\ pc["capture"] \in Holding => lastFrame <= held
    /\ held <= screen

\* A buffer is never delivered before there was a picture in it
HasPixels ==
  \A t \in Threads :
    /\ pc[t] \in {"map", "read"} => staging # NoFrame
    /\ pc[t] = "callback" => scratch # NoFrame

DesktopInv == TypeOK /\ FrameIsReleased /\ BuffersFollow /\ PicturesFollow /\ HasPixels

Places == {"idle", "call", "copy", "map", "read", "callback", "release"}

LEMMA Numbers ==
  /\ Pictures \subseteq Nat \ {0} /\ Torn \notin Pictures /\ Torn \in Nat
  /\ Torn # NoFrame /\ Torn # NotYet /\ NoFrame # NotYet /\ NotYet \in Int /\ NoFrame \in Int
  /\ NoFrame \notin Pictures /\ NotYet \notin Pictures
BY DesktopAssumption DEF DesktopAssumption, Pictures, Torn, NoFrame, NotYet

THEOREM DesktopInit == Init => DesktopInv
<1>1. SUFFICES ASSUME Init PROVE DesktopInv
  OBVIOUS
<1>2. screen \in Pictures
  BY <1>1, DesktopAssumption DEF Init, DesktopAssumption, Pictures
<1>3. TypeOK
  <2>1. starts \in 0 .. MaxStarts /\ shots \in 0 .. MaxShots
    BY <1>1, DesktopAssumption DEF Init, DesktopAssumption
  <2>2. pc \in [Threads -> {"idle", "call", "copy", "map", "read", "callback", "release"}]
    BY <1>1 DEF Init
  <2>3. /\ pending \in BOOLEAN /\ lost \in BOOLEAN /\ recording \in BOOLEAN
        /\ sampled \in BOOLEAN /\ sized \in BOOLEAN /\ missed \in BOOLEAN
    BY <1>1 DEF Init
  <2> QED  BY <1>1, <1>2, <2>1, <2>2, <2>3 DEF Init, TypeOK
<1>4. FrameIsReleased /\ BuffersFollow /\ HasPixels
  BY <1>1 DEF Init, HasPixels, FrameIsReleased, BuffersFollow, Holding, Threads, Nobody
<1>5. PicturesFollow
  BY <1>1, Numbers DEF Init, PicturesFollow, Holding, Threads, NoFrame, NotYet
<1> QED  BY <1>3, <1>4, <1>5 DEF DesktopInv
-----------------------------------------------------------------------------
(* What others do while a thread is in CaptureFrame *)

LEMMA OutsideStep ==
  ASSUME DesktopInv,
         ScreenChanges \/ PointerMoves \/ LoseAccess \/ PressF9 \/ PressF10 \/ LoopTop
  PROVE DesktopInv'
<1> USE Numbers, DesktopAssumption
    DEF ScreenChanges, PointerMoves, LoseAccess, PressF9, PressF10, LoopTop, duplication,
        buffers, desktop, session, results, To, DesktopAssumption
<1>1. UNCHANGED << backend, duplication, buffers, lastFrame, shot, sized >>
  OBVIOUS
<1>2. screen' \in Pictures /\ screen <= screen'
  BY DEF DesktopInv, TypeOK, Pictures
<1>3. /\ pc' \in [Threads -> {"idle", "call", "copy", "map", "read", "callback", "release"}]
      /\ \A t \in Threads : \/ pc'[t] = pc[t]
                            \/ pc[t] = "idle" /\ pc'[t] = "call"
  BY DEF DesktopInv, TypeOK, Threads
<1>4. recorded' = recorded \/ recorded' = NotYet
  OBVIOUS
<1>5. /\ pending' \in BOOLEAN /\ lost' \in BOOLEAN /\ recording' \in BOOLEAN
      /\ sampled' \in BOOLEAN /\ missed' \in BOOLEAN
  BY DEF DesktopInv, TypeOK
<1>6. starts' \in 0 .. MaxStarts /\ shots' \in 0 .. MaxShots
  BY DEF DesktopInv, TypeOK
<1>7. TypeOK'
  BY <1>1, <1>2, <1>3, <1>4, <1>5, <1>6 DEF DesktopInv, TypeOK
<1>8. FrameIsReleased' /\ BuffersFollow' /\ HasPixels'
  BY <1>1, <1>3 DEF DesktopInv, HasPixels, FrameIsReleased, BuffersFollow, Holding
<1>9. PicturesFollow'
  <2>1. pc'["capture"] \in Holding => pc["capture"] \in Holding
    BY <1>3 DEF Holding, Threads
  <2>2. lastFrame \in Int /\ held \in Int /\ screen \in Int /\ screen' \in Int
    BY <1>2 DEF DesktopInv, TypeOK, NoFrame, Pictures, Torn
  <2> QED  BY <1>1, <1>2, <1>4, <2>1, <2>2 DEF DesktopInv, PicturesFollow
<1> QED  BY <1>7, <1>8, <1>9 DEF DesktopInv
-----------------------------------------------------------------------------
(* CaptureFrame *)

LEMMA OneHolder ==
  ASSUME FrameIsReleased, backend = "dxgi", NEW t \in Threads, NEW u \in Threads,
         pc[t] \in Holding, pc[u] \in Holding
  PROVE t = u
BY DEF FrameIsReleased, Holding

LEMMA Moves ==
  ASSUME TypeOK, NEW t \in Threads, NEW l \in Places, To(t, l)
  PROVE /\ pc' \in [Threads -> Places] /\ pc'[t] = l
        /\ \A u \in Threads : u # t => pc'[u] = pc[u]
BY DEF TypeOK, To, Places

\* A step that neither takes nor gives back a frame, nor changes a buffer
LEMMA ReturnStep ==
  ASSUME DesktopInv, NEW t \in Threads, ReturnsFalse(t), pc[t] \in {"call", "map"},
         backend = "dxgi" => pc[t] = "call",
         UNCHANGED << pending, duplication, buffers >>, missed' \in BOOLEAN
  PROVE DesktopInv'
<1> USE Numbers DEF ReturnsFalse, duplication, buffers, desktop, session
<1>1. /\ pc' \in [Threads -> Places] /\ pc'[t] = "idle"
      /\ \A u \in Threads : u # t => pc'[u] = pc[u]
  BY Moves DEF DesktopInv, Places
<1>2. recorded' = recorded \/ (lastFrame # NoFrame /\ recorded' = lastFrame)
  BY DEF CanBackfill
<1>3. recorded' \in Pictures \cup {NotYet, Torn}
  BY <1>2 DEF DesktopInv, TypeOK
<1>4. TypeOK'
  BY <1>1, <1>3 DEF DesktopInv, TypeOK, Places
<1>5. FrameIsReleased'
  BY <1>1 DEF DesktopInv, FrameIsReleased, Holding
<1>6. BuffersFollow' /\ HasPixels'
  BY <1>1 DEF DesktopInv, BuffersFollow, HasPixels, Holding
<1>7. PicturesFollow'
  <2>1. pc'["capture"] \in Holding => pc["capture"] \in Holding
    BY <1>1 DEF Holding, Threads
  <2> QED  BY <1>2, <2>1 DEF DesktopInv, PicturesFollow
<1> QED  BY <1>4, <1>5, <1>6, <1>7 DEF DesktopInv

LEMMA AcquireStep ==
  ASSUME DesktopInv, NEW t \in Threads, Acquire(t)
  PROVE DesktopInv'
<1> USE Numbers DEF Acquire, buffers, desktop, session, results
<1>0. PICK l \in {"copy", "release"} : To(t, l)
  OBVIOUS
<1>1. /\ pc' \in [Threads -> Places] /\ pc'[t] = l
      /\ \A u \in Threads : u # t => pc'[u] = pc[u]
  BY <1>0, Moves DEF DesktopInv, Places
<1>2. \A u \in Threads : pc[u] \notin Holding
  BY DEF DesktopInv, FrameIsReleased, Holding, Threads, Nobody
<1>3. TypeOK'
  <2>1. missed' \in BOOLEAN /\ pending' \in BOOLEAN
    BY DEF DesktopInv, TypeOK
  <2>2. holder' \in Threads /\ held' \in Pictures
    BY DEF DesktopInv, TypeOK
  <2> QED  BY <1>1, <2>1, <2>2 DEF DesktopInv, TypeOK, Places
<1>4. FrameIsReleased'
  BY <1>1, <1>2 DEF FrameIsReleased, Holding
<1>5. BuffersFollow' /\ HasPixels'
  BY <1>1, <1>2 DEF DesktopInv, TypeOK, BuffersFollow, HasPixels, Holding
<1>6. PicturesFollow'
  <2>1. screen \in Int /\ held' = screen
    BY DEF DesktopInv, TypeOK, Pictures
  <2> QED  BY <2>1 DEF DesktopInv, PicturesFollow
<1> QED  BY <1>3, <1>4, <1>5, <1>6 DEF DesktopInv

\* CopyToStaging, ReadBegin, ReadEnd and the ways to the release
LEMMA BufferStep ==
  ASSUME DesktopInv, NEW t \in Threads,
         CopyToStaging(t) \/ ReadbackFails(t) \/ Blit(t) \/ ReadBegin(t) \/ ReadEnd(t)
  PROVE DesktopInv'
<1> USE Numbers DEF CopyToStaging, ReadbackFails, Blit, ReadBegin, ReadEnd, duplication, buffers,
                    desktop, session, results
<1>0. PICK l \in Places : To(t, l)
  BY DEF Places
<1>1. /\ pc' \in [Threads -> Places] /\ pc'[t] = l
      /\ \A u \in Threads : u # t => pc'[u] = pc[u]
  BY <1>0, Moves DEF DesktopInv
<1>2. UNCHANGED << backend, screen, lost, holder, held, session, sampled, results >>
  OBVIOUS
<1>3. \/ pc[t] \in Holding /\ (backend = "dxgi" => pc'[t] \in Holding \ {"copy"})
      \/ backend = "gdi"
  BY <1>1, <1>0 DEF Holding, To, DesktopInv, TypeOK
<1>4. TypeOK'
  <2>1. staging' \in Pictures \cup {NoFrame} /\ scratch' \in Pictures \cup {NoFrame, Torn}
    BY DEF DesktopInv, TypeOK
  <2>2. pending' \in BOOLEAN /\ missed' \in BOOLEAN
    BY DEF DesktopInv, TypeOK
  <2> QED  BY <1>1, <1>2, <2>1, <2>2 DEF DesktopInv, TypeOK, Places
<1>5. FrameIsReleased'
  BY <1>1, <1>2, <1>3 DEF DesktopInv, TypeOK, FrameIsReleased, Holding
<1>6. backend = "dxgi" => \A u \in Threads : u # t => pc'[u] \notin Holding
  BY <1>1, <1>3, OneHolder DEF DesktopInv, TypeOK
<1>7. BuffersFollow'
  <2>1. SUFFICES ASSUME backend = "dxgi" PROVE BuffersFollow'
    BY <1>2 DEF BuffersFollow
  <2>2. held \in Pictures
    BY <1>3, <2>1 DEF DesktopInv, BuffersFollow
  <2>3. pc'[t] \in {"map", "read"} => staging' = held
    BY <1>0, <1>1, <2>1 DEF DesktopInv, TypeOK, BuffersFollow, To
  <2>4. pc'[t] = "callback" => scratch' = held
    BY <1>0, <1>1, <2>1 DEF DesktopInv, TypeOK, BuffersFollow, To
  <2> QED  BY <1>2, <1>6, <2>2, <2>3, <2>4 DEF BuffersFollow, Holding
<1>8. HasPixels'
  <2>1. staging # NoFrame => staging' # NoFrame
    BY DEF DesktopInv, TypeOK, BuffersFollow, Holding
  <2>2. scratch # NoFrame => scratch' # NoFrame
    BY DEF DesktopInv, HasPixels
  <2>3. pc'[t] \in {"map", "read"} => staging' # NoFrame
    BY <1>0, <1>1 DEF DesktopInv, TypeOK, BuffersFollow, HasPixels, Holding, To
  <2>4. pc'[t] = "callback" => scratch' # NoFrame
    BY <1>0, <1>1 DEF DesktopInv, TypeOK, HasPixels, To
  <2> QED  BY <1>1, <2>1, <2>2, <2>3, <2>4 DEF DesktopInv, HasPixels
<1>9. PicturesFollow'
  <2>1. backend = "dxgi" /\ pc'["capture"] \in Holding => pc["capture"] \in Holding
    BY <1>1, <1>3 DEF DesktopInv, TypeOK, Threads
  <2> QED  BY <1>2, <2>1 DEF DesktopInv, PicturesFollow, results
<1> QED  BY <1>4, <1>5, <1>7, <1>8, <1>9 DEF DesktopInv

LEMMA ReleaseStep ==
  ASSUME DesktopInv, NEW t \in Threads, ReleaseFrame(t)
  PROVE DesktopInv'
<1> USE Numbers DEF ReleaseFrame, buffers, desktop, session, results
<1>1. /\ pc' \in [Threads -> Places] /\ pc'[t] = "idle"
      /\ \A u \in Threads : u # t => pc'[u] = pc[u]
  BY Moves DEF DesktopInv, Places
<1>2. TypeOK'
  BY <1>1 DEF DesktopInv, TypeOK, Places
<1>3. FrameIsReleased'
  <2>1. backend = "dxgi" => \A u \in Threads : u # t => pc[u] \notin Holding
    BY OneHolder DEF DesktopInv, Holding
  <2>2. holder' = Nobody /\ backend' = backend /\ Nobody \notin Threads
    BY DEF Nobody, Threads
  <2> QED  BY <1>1, <2>1, <2>2 DEF FrameIsReleased, Holding
<1>4. BuffersFollow' /\ HasPixels'
  BY <1>1 DEF DesktopInv, BuffersFollow, HasPixels, Holding
<1>5. PicturesFollow'
  BY <1>1 DEF DesktopInv, PicturesFollow, Holding, Threads
<1> QED  BY <1>2, <1>3, <1>4, <1>5 DEF DesktopInv

LEMMA CaptureStep ==
  ASSUME DesktopInv, NEW t \in Threads, CaptureFrame(t)
  PROVE DesktopInv'
<1>1. CASE NoNewFrame(t)
  BY <1>1, ReturnStep DEF NoNewFrame, DesktopInv, TypeOK
<1>2. CASE DIBitsFail(t)
  BY <1>2, ReturnStep DEF DIBitsFail, DesktopInv, TypeOK
<1> QED  BY <1>1, <1>2, AcquireStep, BufferStep, ReleaseStep DEF CaptureFrame
-----------------------------------------------------------------------------
(* The callbacks *)

LEMMA AfterStep ==
  ASSUME DesktopInv, NEW t \in Threads, pc[t] = "callback", AfterCallback(t),
         UNCHANGED << desktop, pending, duplication, buffers, session, sampled >>
  PROVE /\ pc' \in [Threads -> Places]
        /\ FrameIsReleased' /\ BuffersFollow' /\ HasPixels'
        /\ \A u \in Threads : pc'[u] \in Holding => pc[u] \in Holding
<1>0. PICK l \in {"idle", "release"} : To(t, l) /\ (l = "release" <=> backend = "dxgi")
  BY DEF AfterCallback
<1>1. /\ pc' \in [Threads -> Places] /\ pc'[t] = l
      /\ \A u \in Threads : u # t => pc'[u] = pc[u]
  BY <1>0, Moves DEF DesktopInv, Places
<1> QED
  BY <1>0, <1>1 DEF DesktopInv, FrameIsReleased, BuffersFollow, HasPixels, Holding, desktop,
                    duplication, buffers

LEMMA DeliverStep ==
  ASSUME DesktopInv, Deliver
  PROVE /\ DesktopInv'
        /\ backend = "dxgi" => recorded' = recorded \/ lastFrame <= recorded'
<1> USE Numbers DEF Deliver
<1>1. /\ pc' \in [Threads -> Places]
      /\ FrameIsReleased' /\ BuffersFollow' /\ HasPixels'
      /\ \A u \in Threads : pc'[u] \in Holding => pc[u] \in Holding
  BY AfterStep DEF Threads
<1>2. scratch \in Pictures \cup {Torn}
  BY DEF DesktopInv, TypeOK, HasPixels, Threads
<1>3. \/ lastFrame' = scratch /\ recorded' = scratch
      \/ lastFrame' = lastFrame /\ recorded' = recorded
  OBVIOUS
<1>4. sized' \in BOOLEAN
  OBVIOUS
<1>5. TypeOK'
  BY <1>1, <1>2, <1>3, <1>4 DEF DesktopInv, TypeOK, Places, desktop, duplication, buffers, session
<1>6. backend = "dxgi" => scratch = held /\ held \in Pictures /\ lastFrame <= held
  BY DEF DesktopInv, BuffersFollow, PicturesFollow, Threads, Holding
<1>7. PicturesFollow'
  <2>1. UNCHANGED << backend, screen, held, shot >>
    BY DEF desktop, duplication
  <2>2. held \in Int
    BY DEF DesktopInv, TypeOK
  <2>3. backend = "dxgi" => lastFrame' \in Pictures \cup {NoFrame} /\ lastFrame' <= held
    BY <1>3, <1>6, <2>2 DEF DesktopInv, PicturesFollow, Threads, Holding
  <2>4. backend = "dxgi" => held <= screen
    BY DEF DesktopInv, PicturesFollow
  <2>5. screen \in Int /\ (lastFrame' \in Pictures \cup {NoFrame} => lastFrame' \in Int)
    BY DEF DesktopInv, TypeOK
  <2>6. backend = "dxgi" => lastFrame' <= screen
    BY <2>2, <2>3, <2>4, <2>5
  <2>7. backend = "dxgi" => recorded' \in {NotYet, lastFrame'} /\ shot \in Pictures \cup {NoFrame}
    BY <1>3 DEF DesktopInv, PicturesFollow
  <2> QED  BY <2>1, <2>3, <2>4, <2>6, <2>7 DEF PicturesFollow
<1> QED  BY <1>1, <1>3, <1>5, <1>6, <1>7 DEF DesktopInv

LEMMA ScreenshotStep ==
  ASSUME DesktopInv, SaveScreenshot
  PROVE DesktopInv'
<1> USE Numbers DEF SaveScreenshot
<1>1. /\ pc' \in [Threads -> Places]
      /\ FrameIsReleased' /\ BuffersFollow' /\ HasPixels'
      /\ \A u \in Threads : pc'[u] \in Holding => pc[u] \in Holding
  BY AfterStep DEF Threads
<1>2. shot' \in Pictures \cup {NoFrame, Torn}
  BY DEF DesktopInv, TypeOK
<1>3. TypeOK'
  BY <1>1, <1>2 DEF DesktopInv, TypeOK, Places, desktop, duplication, buffers, session
<1>4. backend = "dxgi" => shot' \in Pictures
  BY DEF DesktopInv, BuffersFollow, Threads, Holding
<1>5. PicturesFollow'
  BY <1>1, <1>4 DEF DesktopInv, PicturesFollow, Threads, desktop, duplication
<1> QED  BY <1>1, <1>3, <1>5 DEF DesktopInv
-----------------------------------------------------------------------------
THEOREM DesktopNext == DesktopInv /\ [Next]_vars => DesktopInv'
<1>1. SUFFICES ASSUME DesktopInv, [Next]_vars PROVE DesktopInv'
  OBVIOUS
<1>2. CASE UNCHANGED vars
  BY <1>1, <1>2 DEF vars, desktop, duplication, buffers, session, results, DesktopInv, TypeOK,
                    FrameIsReleased, BuffersFollow, PicturesFollow, HasPixels
<1>3. CASE Next
  BY <1>1, <1>3, OutsideStep, CaptureStep, DeliverStep, ScreenshotStep
  DEF Next, CaptureLoop, TakeScreenshot, Threads
<1> QED  BY <1>1, <1>2, <1>3

THEOREM DesktopInvariant == Spec => []DesktopInv
BY DesktopInit, DesktopNext, PTL DEF Spec

\* The variables of the capture model keep their types, for all bounds
THEOREM DesktopTypeOK == Spec => []TypeOK
<1>1. DesktopInv => TypeOK
  BY DEF DesktopInv
<1> QED  BY <1>1, DesktopInvariant, PTL

(***************************************************************************)
(* CaptureFrame gives back what AcquireNextFrame gave out on every path,   *)
(* for any number of calls of both threads.                                *)
(***************************************************************************)
THEOREM AlwaysReleased == Spec => []FrameIsReleased
<1>1. DesktopInv => FrameIsReleased
  BY DEF DesktopInv
<1> QED  BY <1>1, DesktopInvariant, PTL

(***************************************************************************)
(* With desktop duplication no recorded picture and no screenshot is torn, *)
(* without any lock around the buffers the two threads share.              *)
(***************************************************************************)
THEOREM AlwaysWhole == Spec => []WholePictures
<1>1. DesktopInv => WholePictures
  BY Numbers DEF DesktopInv, PicturesFollow, WholePictures
<1> QED  BY <1>1, DesktopInvariant, PTL

LEMMA OrderStep ==
  ASSUME DesktopInv, [Next]_vars, backend = "dxgi", recorded # NotYet, recorded' # NotYet
  PROVE recorded' >= recorded
<1> USE Numbers
<1>1. recorded = lastFrame /\ recorded \in Int
  <2>1. recorded = lastFrame /\ lastFrame \in Pictures \cup {NoFrame}
    BY DEF DesktopInv, PicturesFollow
  <2>2. Pictures \cup {NoFrame} \subseteq Int
    BY DEF Pictures, NoFrame
  <2> QED  BY <2>1, <2>2
<1>2. CASE recorded' = recorded
  BY <1>1, <1>2
<1>3. CASE Deliver
  <2>1. recorded' = recorded \/ lastFrame <= recorded'
    BY <1>3, DeliverStep
  <2>2. recorded' \in Int
    BY <1>1, <1>3 DEF Deliver, DesktopInv, TypeOK
  <2> QED  BY <1>1, <2>1, <2>2
<1>4. ASSUME NEW t \in Threads, CaptureFrame(t) PROVE recorded' = recorded
  BY <1>1, <1>4 DEF CaptureFrame, NoNewFrame, Acquire, CopyToStaging, ReadbackFails, Blit,
                    DIBitsFail, ReadBegin, ReadEnd, ReleaseFrame, ReturnsFalse, results
<1>5. CASE ScreenChanges \/ PointerMoves \/ LoseAccess \/ PressF9 \/ PressF10 \/ LoopTop
           \/ SaveScreenshot \/ UNCHANGED vars
  <2>1. recorded' = recorded
    BY <1>5 DEF ScreenChanges, PointerMoves, LoseAccess, PressF9, PressF10, LoopTop,
                SaveScreenshot, vars, results
  <2> QED  BY <1>2, <2>1
<1> QED
  BY <1>2, <1>3, <1>4, <1>5 DEF Next, CaptureLoop, TakeScreenshot, Threads

(***************************************************************************)
(* A recording made with desktop duplication never goes back in time, also *)
(* where the cached frame is repeated and screenshots come between.        *)
(***************************************************************************)
THEOREM AlwaysInOrder == Spec => PicturesInOrder
<1>1. DesktopInv /\ [Next]_vars =>
        [backend = "dxgi" /\ recorded # NotYet /\ recorded' # NotYet
           => recorded' >= recorded]_vars
  BY OrderStep
<1> QED  BY <1>1, DesktopInvariant, PTL DEF Spec, PicturesInOrder
=============================================================================
