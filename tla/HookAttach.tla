----------------------------- MODULE HookAttach -----------------------------
(***************************************************************************)
(* How the recorder gets its hook into a game and attaches to the shared   *)
(* ring: braps::InjectDll, in the recorder or in the 32-bit helper it      *)
(* starts (hook/src/Injector.cpp), the loading of BrapsHook.dll in the     *)
(* game (hook/src/dllmain.cpp), InstallD3D11Hook on a thread of its own    *)
(* there (hook/src/D3D11Hook.cpp), and CaptureHook::Initialize after a     *)
(* fixed pause (src/main.cpp).                                             *)
(*                                                                         *)
(* One game; the recorder is run on it up to MaxRuns times, one run after  *)
(* the other, but a thread that one run left in the game may still go on   *)
(* when the next run starts.  Every call of the system may fail where the  *)
(* code looks at its result.                                               *)
(***************************************************************************)
EXTENDS Naturals

CONSTANT MaxRuns     \* bound: runs of the recorder

ASSUME RunsAssumption == MaxRuns \in Nat

Runs == 1 .. MaxRuns

VARIABLES
  viaHelper,  \* the game is 32-bit, and the recorder is not
  run,        \* runs of the recorder so far
  rpc,        \* where the current run is
  injector,   \* injector[r]: where the InjectDll call of run r is
  path,       \* path[r]: the DLL path it allocated in the game
  loader,     \* loader[r]: the remote LoadLibraryW thread of run r
  timedOut,   \* runs whose InjectDll stopped waiting for that thread
  game,       \* "up", "exited" or "crashed"
  installer,  \* where InstallHookThread is
  channel,    \* the game maps the section
  header,     \* its header is initialised
  event,      \* kNewFrameEventName exists
  attached,   \* hookAttached
  original,   \* g_originalPresent is set
  hooked      \* Present's vtable slot holds HookedPresent

recorder == << viaHelper, run, rpc >>
injection == << injector, path, timedOut >>
install == << installer, channel, header, event, attached, original, hooked >>
vars == << recorder, injection, loader, game, install >>

Init ==
  /\ viaHelper \in BOOLEAN /\ run = 0 /\ rpc = "ended"
  /\ injector = [r \in Runs |-> "none"] /\ path = [r \in Runs |-> "none"]
  /\ loader = [r \in Runs |-> "none"] /\ timedOut = {}
  /\ game = "up" /\ installer = "none"
  /\ channel = FALSE /\ header = FALSE /\ event = FALSE
  /\ attached = FALSE /\ original = FALSE /\ hooked = FALSE
-----------------------------------------------------------------------------
(* The recorder: main and CaptureHook::Initialize *)

RecorderTo(pc) == rpc' = pc /\ UNCHANGED << viaHelper, run >>

RunRecorder ==
  /\ rpc = "ended" /\ run < MaxRuns
  /\ run' = run + 1 /\ rpc' = "inject"
  /\ UNCHANGED << viaHelper, injection, loader, game, install >>

InjectReturned ==
  /\ rpc = "inject" /\ injector[run] \in {"ok", "failed"}
  /\ RecorderTo(IF injector[run] = "ok" THEN "open" ELSE "ended")
  /\ UNCHANGED << injection, loader, game, install >>

\* The helper is not back after ten seconds: its exit code reads as a failure
HelperTimedOut ==
  /\ viaHelper /\ rpc = "inject" /\ injector[run] \notin {"ok", "failed"}
  /\ RecorderTo("ended")
  /\ UNCHANGED << injection, loader, game, install >>

\* OpenAsConsumer, a second after the injection: no section, wrong version
\* or no event, and the recorder gives up
OpenChannel ==
  /\ rpc = "open"
  /\ RecorderTo(IF channel THEN "version" ELSE "ended")
  /\ UNCHANGED << injection, loader, game, install >>

CheckVersion ==
  /\ rpc = "version"
  /\ RecorderTo(IF header THEN "event" ELSE "ended")
  /\ UNCHANGED << injection, loader, game, install >>

OpenAnyEvent ==
  /\ rpc = "event"
  /\ RecorderTo("recording")
  /\ UNCHANGED << injection, loader, game, install >>

OpenEvent ==
  /\ rpc = "event"
  /\ RecorderTo(IF event THEN "recording" ELSE "ended")
  /\ UNCHANGED << injection, loader, game, install >>

UserQuits ==
  /\ rpc = "recording"
  /\ RecorderTo("ended")
  /\ UNCHANGED << injection, loader, game, install >>
-----------------------------------------------------------------------------
(* InjectDll for run r, which goes on in the helper when the run gave up *)

\* No process to open, the wrong bitness, or no memory in the game
InjectFails(r) ==
  /\ r <= run /\ injector[r] = "none"
  /\ injector' = [injector EXCEPT ![r] = "failed"]
  /\ UNCHANGED << recorder, path, timedOut, loader, game, install >>

AllocatePath(r) ==
  /\ r <= run /\ injector[r] = "none" /\ game = "up"
  /\ injector' = [injector EXCEPT ![r] = "allocated"]
  /\ path' = [path EXCEPT ![r] = "live"]
  /\ UNCHANGED << recorder, timedOut, loader, game, install >>

WritePath(r) ==
  /\ injector[r] = "allocated" /\ game = "up"
  /\ injector' = [injector EXCEPT ![r] = "written"]
  /\ UNCHANGED << recorder, path, timedOut, loader, game, install >>

StartLoader(r) ==
  /\ injector[r] = "written" /\ game = "up"
  /\ injector' = [injector EXCEPT ![r] = "wait"]
  /\ loader' = [loader EXCEPT ![r] = "started"]
  /\ UNCHANGED << recorder, path, timedOut, game, install >>

FreePath(r) == path' = [path EXCEPT ![r] = "freed"]

WriteFails(r) ==
  /\ injector[r] = "allocated"
  /\ injector' = [injector EXCEPT ![r] = "failed"]
  /\ FreePath(r)
  /\ UNCHANGED << recorder, timedOut, loader, game, install >>

StartFailsLeaking(r) ==
  /\ injector[r] = "written"
  /\ injector' = [injector EXCEPT ![r] = "failed"]
  /\ UNCHANGED << recorder, path, timedOut, loader, game, install >>

StartFails(r) ==
  /\ injector[r] = "written"
  /\ injector' = [injector EXCEPT ![r] = "failed"]
  /\ FreePath(r)
  /\ UNCHANGED << recorder, timedOut, loader, game, install >>

InjectUnchecked(r) ==
  /\ injector[r] = "wait"
  /\ loader[r] \in {"loaded", "null"} \/ game # "up"
  /\ injector' = [injector EXCEPT ![r] = "ok"]
  /\ FreePath(r)
  /\ UNCHANGED << recorder, timedOut, loader, game, install >>

\* The remote thread has ended; its exit code is the module, or 0.  The
\* thread of a game that ended meanwhile has the exit code of the game.
InjectWaited(r) ==
  /\ injector[r] = "wait"
  /\ \/ loader[r] = "loaded" /\ injector' = [injector EXCEPT ![r] = "ok"]
     \/ loader[r] = "null" /\ injector' = [injector EXCEPT ![r] = "failed"]
     \/ game # "up" /\ \E res \in {"ok", "failed"} : injector' = [injector EXCEPT ![r] = res]
  /\ FreePath(r)
  /\ UNCHANGED << recorder, timedOut, loader, game, install >>

InjectWaitsOn(r) == InjectWaited(r)

\* Five seconds are over: the exit code of a running thread is not 0
InjectTimesOut(r) ==
  /\ injector[r] = "wait" /\ loader[r] \in {"started", "loading"} /\ game = "up"
  /\ injector' = [injector EXCEPT ![r] = "ok"]
  /\ timedOut' = timedOut \cup {r}
  /\ FreePath(r)
  /\ UNCHANGED << recorder, loader, game, install >>
-----------------------------------------------------------------------------
(* In the game: the remote thread, DllMain and the thread it starts *)

\* The game is gone; what the recorder has opened of its channel stays
Kept(pcs, exists) == exists /\ rpc \in pcs

GameEnds(how) ==
  /\ game' = how
  /\ channel' = FALSE /\ hooked' = FALSE
  /\ event' = Kept({"recording"}, event)
  /\ header' = Kept({"version", "event", "recording"}, header)
  /\ attached' = (how = "crashed" /\ Kept({"version", "event", "recording"}, attached))
  /\ UNCHANGED << installer, original >>

\* DLL_PROCESS_DETACH removes the hook
GameExits ==
  /\ game = "up"
  /\ GameEnds("exited")
  /\ UNCHANGED << recorder, injection, loader >>

\* LoadLibraryW reads the path
ReadPath(r) ==
  /\ game = "up" /\ loader[r] = "started" /\ path[r] = "live"
  /\ loader' = [loader EXCEPT ![r] = "loading"]
  /\ UNCHANGED << recorder, injection, game, install >>

\* ... which InjectDll may have freed meanwhile
ReadFreedPath(r) ==
  /\ game = "up" /\ loader[r] = "started" /\ path[r] = "freed"
  /\ GameEnds("crashed")
  /\ UNCHANGED << recorder, injection, loader >>

LoadFails(r) ==
  /\ game = "up" /\ loader[r] = "loading"
  /\ loader' = [loader EXCEPT ![r] = "null"]
  /\ UNCHANGED << recorder, injection, game, install >>

LoadAndInstall(r) ==
  /\ game = "up" /\ loader[r] = "loading"
  /\ loader' = [loader EXCEPT ![r] = "loaded"]
  /\ installer' = "probe"
  /\ UNCHANGED << recorder, injection, game, channel, header, event, attached, original, hooked >>

\* DllMain is called for the first load only
Load(r) ==
  /\ game = "up" /\ loader[r] = "loading"
  /\ loader' = [loader EXCEPT ![r] = "loaded"]
  /\ installer' = IF installer = "none" THEN "probe" ELSE installer
  /\ UNCHANGED << recorder, injection, game, channel, header, event, attached, original, hooked >>

InstallStep(from, to) ==
  /\ game = "up" /\ installer = from /\ installer' = to
  /\ UNCHANGED << recorder, injection, loader, game >>

\* No Present to hook, or no section
InstallFails ==
  /\ InstallStep("probe", "failed")
  /\ UNCHANGED << channel, header, event, attached, original, hooked >>

CreateSection ==
  /\ InstallStep("probe", "section")
  /\ channel' = TRUE
  /\ UNCHANGED << header, event, attached, original, hooked >>

InitHeader ==
  /\ InstallStep("section", "header")
  /\ header' = TRUE
  /\ UNCHANGED << channel, event, attached, original, hooked >>

CreateEvent ==
  /\ InstallStep("header", "event")
  /\ event' = TRUE
  /\ UNCHANGED << channel, header, attached, original, hooked >>

CreateEventFails ==
  /\ InstallStep("header", "failed")
  /\ channel' = FALSE
  /\ UNCHANGED << header, event, attached, original, hooked >>

SetAttached ==
  /\ InstallStep("event", "attached")
  /\ attached' = TRUE
  /\ UNCHANGED << channel, header, event, original, hooked >>

PatchFirst ==
  /\ InstallStep("attached", "patch")
  /\ hooked' = TRUE
  /\ UNCHANGED << channel, header, event, attached, original >>

SaveOriginal ==
  /\ InstallStep("attached", "patch")
  /\ original' = TRUE
  /\ UNCHANGED << channel, header, event, attached, hooked >>

PatchVTable ==
  /\ InstallStep("patch", "done")
  /\ hooked' = TRUE
  /\ UNCHANGED << channel, header, event, attached, original >>

\* VirtualProtect fails: what was set stays
PatchFails ==
  /\ InstallStep("patch", "failed")
  /\ UNCHANGED << channel, header, event, attached, original, hooked >>
-----------------------------------------------------------------------------
Recorder ==
  \/ InjectReturned \/ HelperTimedOut \/ OpenChannel \/ CheckVersion \/ OpenEvent

InjectDll(r) ==
  \/ InjectFails(r) \/ AllocatePath(r) \/ WritePath(r) \/ WriteFails(r)
  \/ StartLoader(r) \/ StartFails(r) \/ InjectWaited(r) \/ InjectTimesOut(r)

Game ==
  \/ \E r \in Runs : ReadPath(r) \/ ReadFreedPath(r) \/ LoadFails(r) \/ Load(r)
  \/ InstallFails \/ CreateSection \/ InitHeader \/ CreateEvent \/ CreateEventFails
  \/ SetAttached \/ SaveOriginal \/ PatchVTable \/ PatchFails

Next ==
  \/ RunRecorder \/ UserQuits \/ GameExits
  \/ Recorder \/ (\E r \in Runs : InjectDll(r)) \/ Game

\* Fairness: the recorder and the helper go on; no thread of the game need
Spec ==
  /\ Init /\ [][Next]_vars
  /\ WF_vars(Recorder) /\ \A r \in Runs : WF_vars(InjectDll(r))
-----------------------------------------------------------------------------
\* Beyond the types: what InjectDll allocated in the game it frees again,
\* whichever way it returns
TypeOK ==
  /\ viaHelper \in BOOLEAN /\ run \in 0 .. MaxRuns
  /\ rpc \in {"ended", "inject", "open", "version", "event", "recording"}
  /\ injector \in [Runs -> {"none", "allocated", "written", "wait", "ok", "failed"}]
  /\ path \in [Runs -> {"none", "live", "freed"}]
  /\ loader \in [Runs -> {"none", "started", "loading", "loaded", "null"}]
  /\ \A r \in Runs : path[r] = "live" <=> injector[r] \in {"allocated", "written", "wait"}
  /\ timedOut \subseteq Runs /\ game \in {"up", "exited", "crashed"}
  /\ installer \in {"none", "probe", "section", "header", "event", "attached", "patch",
                    "done", "failed"}
  /\ channel \in BOOLEAN /\ header \in BOOLEAN /\ event \in BOOLEAN
  /\ attached \in BOOLEAN /\ original \in BOOLEAN /\ hooked \in BOOLEAN

(***************************************************************************)
(* The recorder never consumes from a half-made channel: once attached it  *)
(* has an initialised ring and an event to wait for, whatever step the     *)
(* installation was at when it looked.                                     *)
(***************************************************************************)
AttachedIsUsable == rpc = "recording" => header /\ event

(***************************************************************************)
(* The game's render thread never enters HookedPresent before everything   *)
(* it uses is there: the original to call and the ring to push to.         *)
(***************************************************************************)
HookIsComplete == hooked => original /\ channel /\ header /\ event

(***************************************************************************)
(* "Returns true on successful injection (the DLL's DllMain ran and        *)
(* returned)" (Injector.h:25): in a game that stays up, unless the wait    *)
(* for the remote thread timed out.                                        *)
(***************************************************************************)
SuccessMeansLoaded ==
  \A r \in Runs :
    injector[r] = "ok" /\ game = "up" => loader[r] = "loaded" \/ r \in timedOut

(***************************************************************************)
(* A recorder that is attached never has its ring reset under it: a second *)
(* injection of the same game installs nothing again.                      *)
(***************************************************************************)
AttachedRingIsNotReset == [][InitHeader => rpc # "recording"]_vars

(***************************************************************************)
(* A start with --inject ends: in recording or with an error, even if no   *)
(* thread of the game ever runs.                                           *)
(***************************************************************************)
AttachEnds == (rpc = "inject") ~> (rpc \in {"recording", "ended"})
=============================================================================
