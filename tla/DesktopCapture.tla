--------------------------- MODULE DesktopCapture ---------------------------
(***************************************************************************)
(* Recording the desktop: CaptureDXGI and CaptureGDI, one of which         *)
(* Recorder::Initialize chooses, called by the capture loop and, for a     *)
(* screenshot, by the hotkey thread, without a lock.  Both threads use the *)
(* same staging texture (the bitmap of GDI) and the same scratch buffer.   *)
(*                                                                         *)
(* Pictures are numbered as the desktop changes.  DXGI gives out one frame *)
(* at a time: AcquireNextFrame fails until ReleaseFrame was called, when   *)
(* nothing has changed for a while, and for good once access is lost.  A   *)
(* pointer that moves makes a new frame with the old picture.  Pushing     *)
(* stands for TryPush with room in the ring, and the backend's own set-up  *)
(* for its result.                                                         *)
(***************************************************************************)
EXTENDS Integers

CONSTANTS MaxPictures,  \* bound: pictures the desktop shows
          MaxStarts,    \* bound: F9 starts
          MaxShots      \* bound: F10s

ASSUME DesktopAssumption ==
  MaxPictures \in Nat \ {0} /\ MaxStarts \in Nat /\ MaxShots \in Nat

Pictures == 1 .. MaxPictures
Torn == MaxPictures + 1   \* a buffer while it is being written
NotYet == 0               \* nothing recorded in this session
NoFrame == -1             \* no pixels
Nobody == "nobody"
Threads == {"capture", "hotkey"}

VARIABLES
  backend,    \* capture_: "dxgi" or "gdi"
  screen,     \* the picture on the desktop
  pending,    \* the duplication has an update that was not acquired yet
  lost,       \* DXGI_ERROR_ACCESS_LOST has happened
  holder,     \* the thread that holds a frame of the duplication, or Nobody
  held,       \* the picture in the frame given out last
  staging,    \* the picture in stagingTexture_ or bitmap_
  scratch,    \* the picture in scratchBuffer_
  pc,         \* pc[t]: where thread t is in CaptureFrame
  recording,  \* isRecording_
  sampled,    \* recordingThisFrame
  sized,      \* frameWidth_ # 0
  lastFrame,  \* lastFrameData_, NoFrame before haveLastFrame_
  recorded,   \* the picture pushed last in this session
  shot,       \* the picture of the last screenshot
  missed,     \* an acquired picture did not get into the recording
  starts, shots

buffers == << staging, scratch >>
desktop == << backend, screen, lost >>
session == << recording, starts, shots >>
results == << sized, lastFrame, recorded, shot >>
duplication == << holder, held >>
vars == << desktop, pending, duplication, buffers, pc, session, sampled, results, missed >>

\* Recorder::Initialize: DXGI, or GDI when that fails
Init ==
  /\ backend \in {"dxgi", "gdi"}
  /\ screen = 1 /\ pending = TRUE /\ lost = FALSE
  /\ holder = Nobody /\ held = NoFrame
  /\ staging = NoFrame /\ scratch = NoFrame
  /\ pc = [t \in Threads |-> "idle"]
  /\ recording = FALSE /\ sampled = FALSE /\ sized = FALSE
  /\ lastFrame = NoFrame /\ recorded = NotYet /\ shot = NoFrame
  /\ missed = FALSE /\ starts = 0 /\ shots = 0

To(t, l) == pc' = [pc EXCEPT ![t] = l]

\* A poll of an idle recorder asks for no pixels, a screenshot always does
NeedsPixels(t) == t = "capture" => sampled \/ ~sized
-----------------------------------------------------------------------------
(* The desktop, and the hotkeys *)

ScreenChanges ==
  /\ screen < MaxPictures
  /\ screen' = screen + 1 /\ pending' = TRUE
  /\ UNCHANGED << backend, lost, duplication, buffers, pc, session, sampled, results, missed >>

PointerMoves ==
  /\ ~pending /\ pending' = TRUE
  /\ UNCHANGED << desktop, duplication, buffers, pc, session, sampled, results, missed >>

LoseAccess ==
  /\ backend = "dxgi" /\ ~lost
  /\ lost' = TRUE
  /\ UNCHANGED << backend, screen, pending, duplication, buffers, pc, session, sampled, results,
                  missed >>

PressF9 ==
  /\ pc["hotkey"] = "idle"
  /\ IF recording THEN UNCHANGED << starts, recorded, missed >>
     ELSE starts < MaxStarts /\ starts' = starts + 1 /\ recorded' = NotYet /\ missed' = FALSE
  /\ recording' = ~recording
  /\ UNCHANGED << desktop, pending, duplication, buffers, pc, shots, sampled, sized, lastFrame,
                  shot >>

PressF10 ==
  /\ pc["hotkey"] = "idle" /\ shots < MaxShots
  /\ shots' = shots + 1
  /\ To("hotkey", "call")
  /\ UNCHANGED << desktop, pending, duplication, buffers, recording, starts, sampled, results,
                  missed >>

LoopTop ==
  /\ pc["capture"] = "idle"
  /\ sampled' = recording
  /\ To("capture", "call")
  /\ UNCHANGED << desktop, pending, duplication, buffers, session, results, missed >>
-----------------------------------------------------------------------------
(* CaptureFrame, of either backend, on thread t *)

CanBackfillAnything == sampled
CanBackfill == sampled /\ lastFrame # NoFrame

\* It returns false: a screenshot is not taken, the capture loop repeats the
\* last frame it has
ReturnsFalse(t) ==
  /\ To(t, "idle")
  /\ recorded' = IF t = "capture" /\ CanBackfill THEN lastFrame ELSE recorded
  /\ UNCHANGED << desktop, session, sampled, sized, lastFrame, shot >>

\* DXGI: timeout, a frame that is still out, or access lost; GDI: BitBlt fails
NoNewFrame(t) ==
  /\ pc[t] = "call"
  /\ backend = "dxgi" => ~pending \/ holder # Nobody \/ lost
  /\ ReturnsFalse(t)
  /\ UNCHANGED << pending, duplication, buffers, missed >>

\* AcquireNextFrame.  An update that was polled without its pixels, or went
\* to a screenshot, is missed by the recording.
Acquire(t) ==
  /\ backend = "dxgi" /\ pc[t] = "call" /\ pending /\ holder = Nobody /\ ~lost
  /\ holder' = t /\ held' = screen /\ pending' = FALSE
  /\ missed' = (missed \/ t = "hotkey" \/ ~sampled)
  /\ To(t, IF NeedsPixels(t) THEN "copy" ELSE "release")
  /\ UNCHANGED << desktop, buffers, session, sampled, results >>

\* CopyResource: of the frame that was acquired, the desktop may have gone on
CopyToStaging(t) ==
  /\ backend = "dxgi" /\ pc[t] = "copy"
  /\ staging' = held
  /\ To(t, "map")
  /\ UNCHANGED << desktop, pending, duplication, scratch, session, sampled, results, missed >>

ReadbackReturns(t) ==
  /\ backend = "dxgi" /\ pc[t] \in {"copy", "map"}
  /\ missed' = TRUE
  /\ To(t, "idle")
  /\ UNCHANGED << desktop, pending, duplication, buffers, session, sampled, results >>

\* The texture cannot be had or mapped: the frame counts as captured
ReadbackFails(t) ==
  /\ backend = "dxgi" /\ pc[t] \in {"copy", "map"}
  /\ missed' = TRUE
  /\ To(t, "release")
  /\ UNCHANGED << desktop, pending, duplication, buffers, session, sampled, results >>

\* BitBlt; without pixels that is all
Blit(t) ==
  /\ backend = "gdi" /\ pc[t] = "call"
  /\ staging' = screen /\ pending' = FALSE
  /\ To(t, IF NeedsPixels(t) THEN "map" ELSE "idle")
  /\ UNCHANGED << desktop, duplication, scratch, session, sampled, results, missed >>

\* GetDIBits fails, and with it the call
DIBitsFail(t) ==
  /\ backend = "gdi" /\ pc[t] = "map"
  /\ missed' = TRUE
  /\ ReturnsFalse(t)
  /\ UNCHANGED << pending, duplication, buffers >>

\* The copy to scratchBuffer_ begins, and ends
ReadBegin(t) ==
  /\ pc[t] = "map"
  /\ scratch' = Torn
  /\ To(t, "read")
  /\ UNCHANGED << desktop, pending, duplication, staging, session, sampled, results, missed >>

ReadEndReleasing(t) ==
  /\ pc[t] = "read"
  /\ scratch' = staging
  /\ holder' = IF holder = t THEN Nobody ELSE holder
  /\ To(t, "callback")
  /\ UNCHANGED << desktop, pending, held, staging, session, sampled, results, missed >>

ReadEnd(t) ==
  /\ pc[t] = "read"
  /\ scratch' = staging
  /\ To(t, "callback")
  /\ UNCHANGED << desktop, pending, duplication, staging, session, sampled, results, missed >>

AfterCallback(t) == To(t, IF backend = "dxgi" THEN "release" ELSE "idle")

\* onFrame of the capture loop
Deliver ==
  /\ pc["capture"] = "callback"
  /\ sized' = TRUE
  /\ IF sampled THEN lastFrame' = scratch /\ recorded' = scratch
     ELSE UNCHANGED << lastFrame, recorded >>
  /\ AfterCallback("capture")
  /\ UNCHANGED << desktop, pending, duplication, buffers, session, sampled, shot, missed >>

\* onFrame of TakeScreenshot, which writes the PNG from the buffer
SaveScreenshot ==
  /\ pc["hotkey"] = "callback"
  /\ shot' = scratch
  /\ AfterCallback("hotkey")
  /\ UNCHANGED << desktop, pending, duplication, buffers, session, sampled, sized, lastFrame,
                  recorded, missed >>

ReleaseFrame(t) ==
  /\ pc[t] = "release"
  /\ holder' = Nobody
  /\ To(t, "idle")
  /\ UNCHANGED << desktop, pending, held, buffers, session, sampled, results, missed >>
-----------------------------------------------------------------------------
CaptureFrame(t) ==
  \/ NoNewFrame(t) \/ Acquire(t) \/ CopyToStaging(t) \/ ReadbackFails(t)
  \/ Blit(t) \/ DIBitsFail(t) \/ ReadBegin(t) \/ ReadEnd(t) \/ ReleaseFrame(t)

CaptureLoop == LoopTop \/ CaptureFrame("capture") \/ Deliver
TakeScreenshot == CaptureFrame("hotkey") \/ SaveScreenshot

Next ==
  \/ ScreenChanges \/ PointerMoves \/ LoseAccess \/ PressF9 \/ PressF10
  \/ CaptureLoop \/ TakeScreenshot

\* Fairness: the capture loop polls for ever, and a screenshot that was begun
\* goes on; nobody need press a key
Spec == Init /\ [][Next]_vars /\ WF_vars(CaptureLoop) /\ WF_vars(TakeScreenshot)
-----------------------------------------------------------------------------
TypeOK ==
  /\ backend \in {"dxgi", "gdi"} /\ screen \in Pictures
  /\ pending \in BOOLEAN /\ lost \in BOOLEAN /\ holder \in Threads \cup {Nobody}
  /\ held \in Pictures \cup {NoFrame}
  /\ staging \in Pictures \cup {NoFrame} /\ scratch \in Pictures \cup {NoFrame, Torn}
  /\ pc \in [Threads -> {"idle", "call", "copy", "map", "read", "callback", "release"}]
  /\ recording \in BOOLEAN /\ sampled \in BOOLEAN /\ sized \in BOOLEAN
  /\ lastFrame \in Pictures \cup {NoFrame, Torn}
  /\ recorded \in Pictures \cup {NotYet, Torn} /\ shot \in Pictures \cup {NoFrame, Torn}
  /\ missed \in BOOLEAN /\ starts \in 0 .. MaxStarts /\ shots \in 0 .. MaxShots

(***************************************************************************)
(* Every frame AcquireNextFrame gave out is given back on every way out of *)
(* CaptureFrame: one that is kept would end the capture for good.          *)
(***************************************************************************)
FrameIsReleased ==
  \A t \in Threads :
    holder = t <=> backend = "dxgi" /\ pc[t] \in {"copy", "map", "read", "callback", "release"}

(***************************************************************************)
(* With DXGI a screenshot during a recording spoils neither: although no   *)
(* lock guards scratchBuffer_, the one frame the duplication gives out at  *)
(* a time does.  (GDI has no such thing: there both threads may write it.) *)
(***************************************************************************)
WholePictures == backend = "dxgi" => recorded # Torn /\ shot # Torn

(***************************************************************************)
(* A recording never goes back in time, whatever was repeated and whatever *)
(* screenshots put into the shared buffers in between.                     *)
(***************************************************************************)
PicturesInOrder ==
  [][backend = "dxgi" /\ recorded # NotYet /\ recorded' # NotYet => recorded' >= recorded]_vars

(***************************************************************************)
(* With DXGI a change of the desktop during a recording gets into it,      *)
(* unless the recording stops, access is lost, or the frame went elsewhere *)
(* (to a screenshot, or to a poll that began before the recording).        *)
(***************************************************************************)
CatchesUp ==
  (backend = "dxgi" /\ recording /\ pending) ~> (recorded = screen \/ ~recording \/ lost \/ missed)
=============================================================================
