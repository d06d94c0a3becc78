# Braps: a verification project

Braps records a game or the desktop on Windows: it grabs frames, queues them in
a lock-free ring, streams them to an ffmpeg process, records sound beside it and
joins the two when the recording stops. With `--inject` it loads a DLL into the
game that copies each presented frame into shared memory. This directory holds
TLA+ models of that program, TLC configurations that check them, and proofs for
the parts where TLAPS can say more than TLC.

Paths below are those of the repository. `PROJECT.json` maps every definition
that models code to its lines, and lists the runs, hazards and theorems.

## The system

| Part | State it keeps | Operations | Meets |
|---|---|---|---|
| Frame ring, `include/RingBuffer.h` | head, tail, slots | TryPush, TryPop, Clear, Empty | capture, feed, hotkey and finish threads |
| Recorder, `src/Recorder.cpp` | isRecording_, encoder_, encoderMutex_, last frame, first-frame time, counters | start, stop, capture loop, feed loop, finish thread, screenshot | everything |
| Encoder, `src/Encoder.cpp` | pipe and process handles | start, write, finish, remux | ffmpeg |
| Audio capture, `src/AudioCapture.cpp` | one thread and one WAV file per track | start, stop, first buffer | recorder |
| Shared channel, `hook/include/SharedFrameChannel.h` | shared section, auto-reset event | create, open, TryPush, TryPop, wait | game and recorder processes |
| Hook capture, `hook/src/CaptureHook.cpp` | scratch buffer, delivery schedule | CaptureFrame | channel, recorder |
| Present hook, `hook/src/D3D11Hook.cpp` | staging ring, vtable patch | install, Present, resize, remove | the game's render thread |
| Injector, `hook/src/Injector.cpp`, helper, `dllmain.cpp` | allocation and thread in the game | inject, through a helper for 32-bit games | game, main |
| DXGI and GDI capture | duplication, bitmap | CaptureFrame | recorder |
| Hotkeys, Overlay, main | a message loop each | start, stop | recorder |

What is hard is concurrency: five kinds of threads share the recorder without
one lock over its state, a second process writes the shared ring, and F9 may
come at any moment. Next come failures half way (a start without ffmpeg, a
remux without tracks, a hook that does not attach), waits that time out while
what they wait for goes on, and state that outlives what it belongs to (cached
frame, throttle schedule, staging ring, event). The hazard list in
`PROJECT.json` names each at its line.

## Modules

**FrameQueue, FrameRingBuffer, FrameRingBuffer_proofs** (`include/RingBuffer.h`).
`FrameRingBuffer` has one action per atomic access of TryPush and TryPop: load
the own cursor, load the other's and claim or refuse, copy, publish. `ppc`/`cpc`
are the program counters, `pHead`/`cTail` the cursors held in locals. `Clear` is
one step when nobody is inside the ring (`ClearQuiescent`) and two stores, which
may fall anywhere in a push or a pop, when the hotkey thread really runs it
(`RacingSpec`). `FrameQueue` is what a user of
the ring expects, a bounded FIFO queue; the refinement mapping reads the queue
off the slots between the cursors and takes a frame as popped when it has left
its slot.

**EncoderUse** (`include/Recorder.h:102-117`). What encoder_ and encoderMutex_
promise to the three threads that share them, with nothing of how: an encoder is
made and thrown away only while nobody uses it, one thread at a time writes to
it or finishes it, and a finish returns with its ffmpeg gone and no encoder left.
Two models implement it, each with a mapping of its own: RecorderSession with
the threads, the flags and the ring, EncoderPipe with handles and processes (its
encoder counts from the moment its ffmpeg is spawned, and ffmpeg is at its end of
file once the recorder has given up its write end).

**RecorderSession, RecorderSession_proofs** (`src/Recorder.cpp`, with the calls
into `Encoder.cpp`). Actors: the hotkey thread (`Start...`, `Stop...`), the
capture thread (`Cap...`), the feed thread (`Feed...`), one finish thread per
stopped session (`Finish...`) and ffmpeg. A step is what a thread does between
two points where another can interfere. The ring is the code's, with its two
cursors and its slots: a push is the test with the write of the slot
(`CapWriteSlot`) and the store of the head (`CapStoreHead`), a pop the test with
the move out of the slot (`FeedTake`) and the store of the tail
(`FeedStoreTail`), and Clear is its two stores in either order (`StartClear`,
`StartCleared`), which may come between them and erase nothing: frames may come
back, or be passed over and overwritten. The two loads of a push or a pop are one
step with its test, which `FrameRingBuffer` does not take for granted; Empty, which
only the finish threads call, is read in one step. Sessions are numbered, a frame
is the number of the session that asked for it; `lost[s]` counts accepted frames
that were dropped or overwritten, `took[s]` is the encoder that the finish thread
of `s` took. `Patient` and `CalmClear` are assumptions on the user and on luck
(below).

**EncoderPipe, EncoderPipe_proofs** (`src/Encoder.cpp`). The start of ffmpeg one
system call at a time, WriteFrame chunk by chunk, finish and remux, on the
threads that call them. `readers[s]` and `writers[s]` are the processes that
hold an end of the pipe of session `s`; `Spawn` gives a child every handle that
is inheritable at that moment, so that a remux of one session can pick up the
pipe of the next. End of file and a broken pipe follow from who holds what.

**AudioTrack, OutputFiles, OutputFiles_proofs** (`src/AudioCapture.cpp`; start,
first frame, stop and finish in `src/Recorder.cpp`; the remux in
`src/Encoder.cpp`). `AudioTrack` is one AudioCapture per track: the handshake of
Start with its one-second limit, the device loop, the first-buffer time, the
file and its header, the join. `OutputFiles` EXTENDS it with the recorder of one
session: it starts the tracks one after the other, takes flags and times at the
stop, computes the offsets and runs the file operations one call at a time. The
recorder may be killed (`Killed`) at any step; ffmpeg goes on. A flag and the
time it announces are two steps, as they are in the code. `shown` is when the
first frame of the video was put into it, `begins` whether that was a frame of
this session or a repeat of the cached one (`CapBackfill`), which the code's own
time does not know of. The loop over a device's packets goes on for as long as
packets come (`WriteBuffer` does not end at its bound, only its count does), and
the header may stay 0 or wrap (`PatchWavHeader`).

**DesktopCapture, DesktopCapture_proofs** (`src/CaptureDXGI.cpp`,
`src/CaptureGDI.cpp`, their callers in `src/Recorder.cpp`). Pictures are
numbered as the desktop changes; `pc[t]` is where the capture loop or a
screenshot is in CaptureFrame, `holder` the thread that has the one frame the
duplication gives out, `staging` and `scratch` the buffers both share. Frame
access is modelled per backend, and the backend is chosen at the start.

**HookPipeline, HookPipeline_proofs** (`D3D11Hook.cpp`, `SharedFrameChannel.h`,
`CaptureHook.cpp`).
The render thread's detour with its two staging textures and a resize, TryPush,
the event, and CaptureFrame's wait and drain loop, with the recorder killed and
restarted at any step. A frame is the number of its Present; what is being
copied is `Torn`, so that overlapping accesses show. A delivery is an event of
its own (`DeliverFrame`), so that the same frame delivered again shows too; how
old a delivered frame is, is not bounded, and the first one of a recording is
older than the recording (a finding). `Contents` reads the queue
off the slots between tail and head, and the ring implements a `FrameQueue`
without its Clear. Whether the throttle accepts
a frame is a choice here.

**DeliveryThrottle, DeliveryThrottle_proofs** (`CaptureHook.cpp:67-97`). The same
decision in discrete time: the fixed schedule, frames offered when the game and
the scheduler please, a game at exactly the target rate as one kind of source.

**HookAttach, HookAttach_proofs** (`Injector.cpp`, `InjectorMain32.cpp`, `dllmain.cpp`, the
installation in `D3D11Hook.cpp`, opening the channel, `main.cpp`). The recorder's
run, InjectDll in the recorder or in the helper, call by call with the path it
allocates in the game and every exit after that, the remote LoadLibraryW thread,
the installation thread step by step and the end of the game. A thread that one
run left behind can meet the next run.

## Runs

| Run | Shows |
|---|---|
| `ring` | FIFO refinement, no slot shared by push and pop, a refusal only when full, every frame taken |
| `ring_clear` (violation) | Clear on a third thread makes a pop take a slot nobody filled |
| `session_patient` | an encoder whenever recording; a stop loses at most two frames, for a user who waits and a Clear that meets no push or pop |
| `session_rapid` | any F9s and any Clear: encoder pinned while used, no orphan ffmpeg, nothing finished twice, `EncoderUse` implemented, every stop finishes once the user records no more |
| `rapid_f9` (violation) | a finish thread finishes the next session's encoder |
| `pipe` | no handle in the wrong process or left behind, pipes closed only between frames, what is waited for is a running child, `EncoderUse` implemented, writes and stops return |
| `output` | picture and sound survive failures and a kill at any step, the remux reads finished WAV files and keeps the tracks in sync with a video that begins with its own first frame, start and stop end |
| `desktop` | every frame released, with DXGI no torn picture and none out of order, a recording catches up with the desktop |
| `hook` | no torn or repeated frame, and none older than the one before; the shared ring is a FIFO queue; no lost wakeup; the ring is drained |
| `hook_screenshot` (violation) | F10 during a recording spoils frames |
| `throttle` | counted from the first frame the rate is not exceeded; at most one frame of a same-rate game rejected |
| `attach` | no use of a half-made channel, no half-made hook, no reset under a recorder, every start ends |

Each violation contradicts a comment of the source, quoted in its finding.
Further disagreements met while modelling are findings without a run: the model
has the step that shows them, and the property that would fail is stated with
the exception (an injection that timed out, a channel opened too early, the
throttle after an idle time, the picture of an earlier session on a static
screen and at the beginning of the next video, an old frame first through the
hook, the WAV files of a video without a first-frame time, a WAV header that is
0 or has wrapped, a write end that a remux inherits, a time read before it is
assigned, a screenshot of a desktop that does not change, the join after the
start's time limit).

### Bounds

*ring*: two frames (order and identity are visible) and four slots, so that
empty, full, wrapped and half-full differ; nothing else is bounded.
*session*: a hazard of this code is always one session meeting the next, so
`session_rapid` has two, with a push-driven backend; `session_patient` has three,
each after the last is finished, with the backfilling backend. Frames are not
bounded: the capture thread pushes for as long as the session records, so that
the ring overflows and wraps, and only the count of lost frames stops, at three,
one more than the property allows (`session_rapid` counts none). Two and three
slots: the smallest ring that can be full and one that can be half full.
*pipe*: three sessions (a remux of the first, the finish of the second and the
start of the third overlap), frames of two chunks and a pipe of one, so that
every frame waits for room and can be cut in the middle.
*output*: both tracks; the count of their buffers stops at two, where a header
that is kept modulo two has wrapped, while buffers go on coming; two values of
the clock, so that of video, system sound and microphone each may begin before,
after or with another, and a repeated frame before all of them. The theorems have
no such bounds.
*desktop*: three pictures, two recordings, two screenshots: old, current and
newer content differ, and a screenshot can come before, in and between
recordings.
*hook*: ring of three slots (full at two), six Presents (the ring wraps and
fills), one resize, one kill of the recorder. The screenshot run has a second
consumer instead.
*throttle*: interval and jitter of three ticks, fourteen ticks of time: four
intervals, with every position inside one; the theorems have no such bound.
*attach*: two runs, so that the second meets what the first left.
`CHECK_DEADLOCK FALSE` stands where a behaviour may end: at the time bound
(`throttle`), when the game is gone and the runs are used up (`attach`), when
the F9s and frames are used up (`pipe`), and when the recorder was killed and
its ffmpeg processes have ended (`output`).

### Fairness

Threads that loop are scheduled: weak fairness of the capture, feed and finish
threads and of CaptureFrame. The hotkey thread is fair only inside a command
(nobody must press F9), the render thread only inside TryPush (a game need not
present), and in `attach` only the recorder and the helper, whose waits time
out; no thread of the game. ffmpeg takes its input or dies (both end WriteFile)
and exits after end of file; an ffmpeg that hangs for ever would keep the mutex
for ever, and the code has no timeout for it. In `pipe` this is spelled out:
ffmpeg reads what is in its pipe and exits only when no process holds the write
end, while a remux reads files and ends by itself; that a write returns although ffmpeg dies is then a
consequence. In `output` WASAPI's set-up returns and the audio threads get on
(`AudioGoesOn`), which includes that a device does not deliver faster than its
thread writes: the loop over the packets never asks running_, and a Stop would
wait for it for ever; nothing is assumed of the kill. In `desktop` the capture
loop polls and a screenshot goes on once begun; neither desktop nor keys are
fair.
`StoppedIsFinished` is about the time when the user records no more:
then finitely many frames are left, the ring runs empty, and weak fairness is
enough for every thread that waits for encoderMutex_ to be served. It says nothing
of a session that is stopped while the next one records for ever: with an encoder
slower than the capture the finish thread's poll of Empty() need never see the
ring empty, and the feed thread may win the mutex again and again.

## Proofs

`FrameRingBuffer_proofs`: `TypeCorrect`, `SlotRaceFree`, `RingImplementsQueue`,
`RefusesFull`, `PopsOnlyPushed` and `RacingTypeCorrect`, for every set of frames
and every capacity of at least two. The slot race is not inductive. The invariant `SpscInv` adds that a
thread's copy of its own cursor is current (only it moves the cursor), that a
producer past its check has seen room and that room cannot go away (the consumer
only makes more), and the mirror image for the consumer; then `pHead = cTail`
while both copy would need head = tail, which contradicts what the consumer saw.
For the refinement `QueueInv` adds that what is queued was pushed: the store of
`head_` that publishes a frame is the queue's Push, the move out of a slot its
Pop, and all other steps are hidden (`PushAppends`, `PopTakesFirst`,
`HiddenSteps`). Arithmetic modulo the capacity is kept in lemmas of its own.
`RacingTypeCorrect` is about the Clear that races with push and pop: it may yield
frames nobody pushed (`ring_clear`), but no index outside the array.

`DeliveryThrottle_proofs`: `RateBounded`, which counts from the first frame and
so allows a burst after idle time, and `SameRatePassesThrough`, for every interval, every jitter up to an interval and all arrival times. The invariant
`ThrottleInv` says that the schedule is `first + delivered * Interval` whatever
came when, that the slot last filled is not in the future, and that a steady
game is at most one frame ahead. A second rejection in a row would need a frame
more than an interval early; that is the step where the fixed schedule of the
code matters, and the one that fails for a schedule measured from the frames.

`HookPipeline_proofs`: `HookTypeOK`, `NeverTorn`, `NeverLosesWakeup`,
`AlwaysAdvances` and `RingImplementsQueue`, for any number of slots, frames,
resizes and restarts. One order carries it: frames are staged, pushed, queued, taken and delivered in the
order they were presented. `HookInv` says at each place that what is there is
newer than all that went on before (`Producer`, `Queue`, `Consumer`), and that a
slot being written is not between tail and head. For the queue only two steps
count: the game's store of the head appends (`PushAppends`: the push saw room,
and a consumer only makes more), the recorder's store of the tail takes the
oldest (`PopTakesFirst`: the tail it stores follows the one it read); all others
leave the queue as it is (`OthersHidden`), a kill of the recorder too. The
theorems assume `OneConsumer`, one thread in CaptureFrame; the run hook_screenshot shows that the
order does not survive a second one.

`HookAttach_proofs`: `AttachedChannelUsable`, `HookComplete` and `RingNotReset`,
for any number of runs. The invariant `AttachInv` says what each stage of the
installation has left in a game that is up, that only the last stage patches
Present, and that what an attached recorder has seen of the channel outlives the
game. It needs the negative part, that no event exists before its stage: the
installation may set the header up only where no recorder can have opened the
event, so an attached ring is never reset.
`AttachTypeOK` and `SuccessAlwaysLoaded` (`LoadInv`) are about InjectDll: the path
is freed on every way out, those after a failed WriteProcessMemory or
CreateRemoteThread included, and true means that the DLL was loaded, that the game
is gone or that the five seconds were over.

`RecorderSession_proofs`: `SessionTypeOK`, `AlwaysOwned`, `SessionImplementsUse`
and, for the patient user, `PatientHasEncoder` and `PatientLosesLittle`, for any
number of sessions, frames and ring slots; all but the last with a Clear that may
fall anywhere.
`EncoderOwned` is nearly inductive. `SessionInv` adds that the session that
goes on, and those that have not started, have no finish thread (`Unspawned`), and
that an encoder which was finished is not `encoder_` any more and the session of
a start under way has given its number to no encoder yet (`Fresh`). The patient
user needs `PatientInv`: while a session goes on no other is being finished, so
nobody takes its encoder away.
`PatientLosesLittle` counts. `CalmInv` says that without a Clear in between a
thread's copy of its cursor is current and that frames lie only between tail and
head (`Between`), so that an empty ring has none. `LossInv`: a session that is not
yet drained has its encoder and has lost nothing; at the moment its finish thread
sees the ring empty, frames of it are left only with the feed thread and in one
capture iteration, and lost, queued and held frames together stay at two from then
on. A step that writes or empties a slot changes the count of the slots by what it
puts in and takes out (`CountStore`). With `CalmClear` FALSE the statement is false
of the code: a tail stored after the Clear brings the old ring back or lets the
head pass over frames of the new session (TLC finds it).
`SessionImplementsUse` maps each step to one of `EncoderUse` or to none: the
mutex of the session is the user of the abstract encoder, and a start is counted
when it reaches encoder_ (`HotkeyUses`, `LoopsUse`, `OthersUse`).

`EncoderPipe_proofs`: `PipeTypeOK`, `AlwaysOwned`, `AlwaysBetweenFrames`,
`AlwaysWaitsForChild` and `PipeImplementsUse`.
`PipeInv` says who has the mutex at each point of a start, a write or a finish,
that the write end is inheritable only before SetHandleInformation, which is why
no encoding ffmpeg ever gets one, and that a finish that waits has closed it. A
pipe is closed by a finish or by the next start, both with the mutex, which the
feed thread holds from the first chunk of a frame to the last.
`HandleInv` adds that whoever holds an end of a pipe is running and that the
ffmpeg of a start not yet that far holds nothing. With it what a write or a finish
waits for is a child that runs (`WaitsForRunningChild`), the safety half of
`WriteReturns` and `StopIsFinished`, and each step is one of `EncoderUse` or
hidden: the wait of a finish ends only with the end of its own ffmpeg.

`DesktopCapture_proofs`: `DesktopTypeOK`, `AlwaysReleased`, `AlwaysWhole` and
`AlwaysInOrder`, for any number of pictures, recordings and screenshots. What
saves the unguarded buffers is that with DXGI all of the readback and the
callback lie between AcquireNextFrame and ReleaseFrame, and one frame is out at
a time: `DesktopInv` ties what staging and scratch hold to the holder's place in
CaptureFrame; what was recorded last is the cached frame, which is not newer
than the frame held, and that not newer than the screen.

`OutputFiles_proofs`: `PictureAlwaysSurvives`, `SoundAlwaysSurvives`,
`WavAlwaysReady` and `AlwaysInSync`, for any clock, any amount of sound and with
or without a microphone. `FilesInv` says what the video, the remuxed file and
the two ffmpeg processes are at each stage of the finish thread; `SoundInv` what
a thread, its file and its flag are before and after the stop; `TimesInv` that
what the stop took is what the threads stamped or was taken too early, and that
the video begins with the first real frame or before it (`VideoBegins`);
`OffsetsInv` that the smallest offset is taken off all of them. A track is then
as far from the picture as it was, or, behind a repeated frame, earlier.
`OutputTypeOK` takes its parts one at a time (`TypeParts`); the bound of the
offsets is the one that is not immediate.

Assumptions are those of the modules' constants, nothing more, and three that a
theorem names where it needs them: `Patient`, that F9 starts nothing before the
last video is finished; `CalmClear`, that no Clear meets a push or a pop under
way, which the code does not see to; `OneConsumer`, that no screenshot is taken
through the hook.

Types are checked by the runs `attach` and `desktop` and proved in every module
with proofs, where the theorem covers what a run would show.

Only model-checked: liveness (`EveryFrameIsTaken`, `StoppedIsFinished`,
`RingIsDrained`, `AttachEnds`, `WriteReturns`, `StopIsFinished`, `CatchesUp`,
`StartReturns`, `StopEnds`), since TLAPS does not do fairness or ENABLED here.

## Not modelled

The message loops of hotkeys and overlay and their stop, which only destructors
call: `main` never returns from its loop, so the program ends by being killed,
and that is modelled (`Killed`, the restarts of HookPipeline, the end of the
recorder in HookAttach). For the same reason `~Recorder` is left out. Output
names, and two starts in the same second; a frame of another size in the middle
of a recording, which the code does not react to; the D3D10 path, which is the
D3D11 one again; a second game with the hook;
a resize whose textures cannot be made, since Direct3D decides what a copy into
the wrong texture does; set-up and shutdown of the capture backends; log files and
statistics. Each that can go wrong has its hazard entry with the reason. With
GDI the shared scratch buffer really is unprotected, and no property claims
otherwise.

Atomics are taken as sequentially consistent: the release stores and acquire
loads of both rings order exactly the accesses that the models keep in order,
with the exception of Clear's relaxed stores, which the racing model splits.
The times that are read without the flag's release are read early in
OutputFiles, which is what the race can produce. The process calls of Windows
are modelled from how the code uses them and marked external.

## Plan

1. A second game in *HookAttach*.
2. Output names and frame sizes, if the code comes to check them.
3. What follows from *EncoderUse* alone, proved once and taken over by both models
   that implement it: no ffmpeg waits for input while the recorder waits for it.
4. The safety half of the waits for the audio threads (*OutputFiles*): a thread
   that is joined was told to end, and what was joined does not change any more.
