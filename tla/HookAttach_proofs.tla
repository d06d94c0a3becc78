------------------------- MODULE HookAttach_proofs -------------------------
(***************************************************************************)
(* For any number of runs of the recorder: the channel it is attached to   *)
(* is complete and never reset, and so is the hook the game calls.         *)
(* InjectDll returns true only when the DLL is there (or nobody can know). *)
(***************************************************************************)
EXTENDS HookAttach, TLAPS

\* The stages of InstallHookThread from which something is there
ChannelStages == {"section", "header", "event", "attached", "patch", "done"}
HeaderStages == {"header", "event", "attached", "patch", "done"}
EventStages == {"event", "attached", "patch", "done"}
OriginalStages == {"patch", "done"}
\* ... and those at which no event can exist
BeforeEvent == {"none", "probe", "section", "header"}

\* What each stage of the installation has left in a game that is up
StagesComplete ==
  game = "up" =>
    /\ installer \in ChannelStages => channel
    /\ installer \in HeaderStages => header
    /\ installer \in EventStages => event
    /\ installer \in OriginalStages => original
    /\ installer \in BeforeEvent => ~event

\* The vtable is patched by the last stage, and gone with the game
HookedWhenDone == hooked => game = "up" /\ installer = "done"

\* What the recorder has seen of the channel is still there
SeenIsThere ==
  /\ rpc = "event" => header
  /\ rpc = "recording" => header /\ event

AttachInv == StagesComplete /\ HookedWhenDone /\ SeenIsThere

\* An action of the recorder or of InjectDll leaves the game alone
LEMMA RecorderStep ==
  ASSUME AttachInv, RunRecorder \/ UserQuits \/ Recorder
  PROVE AttachInv'
<1>1. UNCHANGED << game, install >>
  BY DEF RunRecorder, UserQuits, Recorder, InjectReturned, HelperTimedOut, OpenChannel,
         CheckVersion, OpenEvent
<1>2. StagesComplete' /\ HookedWhenDone'
  BY <1>1 DEF AttachInv, StagesComplete, HookedWhenDone, install
<1>3. SeenIsThere'
  BY <1>1 DEF AttachInv, SeenIsThere, install, RunRecorder, UserQuits, Recorder,
              InjectReturned, HelperTimedOut, OpenChannel, CheckVersion, OpenEvent,
              RecorderTo
<1> QED  BY <1>2, <1>3 DEF AttachInv

LEMMA InjectStep ==
  ASSUME AttachInv, NEW r \in Runs, InjectDll(r)
  PROVE AttachInv'
<1>1. UNCHANGED << recorder, game, install >>
  BY DEF InjectDll, InjectFails, AllocatePath, WritePath, WriteFails, StartLoader,
         StartFails, InjectWaited, InjectTimesOut
<1> QED
  BY <1>1 DEF AttachInv, StagesComplete, HookedWhenDone, SeenIsThere, recorder, install

\* Whatever way the game ends, what an attached recorder holds stays
LEMMA GameEndStep ==
  ASSUME AttachInv, NEW how \in {"exited", "crashed"}, GameEnds(how), UNCHANGED recorder
  PROVE AttachInv'
BY DEF AttachInv, StagesComplete, HookedWhenDone, SeenIsThere, GameEnds, Kept, recorder

LEMMA LoaderStep ==
  ASSUME AttachInv, NEW r \in Runs, ReadPath(r) \/ LoadFails(r) \/ Load(r)
  PROVE AttachInv'
<1>1. CASE ReadPath(r) \/ LoadFails(r)
  BY <1>1 DEF AttachInv, StagesComplete, HookedWhenDone, SeenIsThere, ReadPath, LoadFails,
              recorder, install
<1>2. CASE Load(r)
  <2>1. /\ installer' = IF installer = "none" THEN "probe" ELSE installer
        /\ UNCHANGED << game, rpc, channel, header, event, original, hooked >>
    BY <1>2 DEF Load, recorder
  <2> QED
    BY <2>1 DEF AttachInv, StagesComplete, HookedWhenDone, SeenIsThere, ChannelStages,
                HeaderStages, EventStages, OriginalStages, BeforeEvent
<1> QED  BY <1>1, <1>2

\* Every stage of the installation adds what the next one counts on.  Only a
\* failing CreateEvent takes something back, and no stage follows it.
LEMMA InstallationStep ==
  ASSUME AttachInv,
         \/ InstallFails \/ CreateSection \/ InitHeader \/ CreateEvent
         \/ CreateEventFails \/ SetAttached \/ SaveOriginal \/ PatchVTable \/ PatchFails
  PROVE AttachInv'
<1>0. game = "up" /\ game' = "up" /\ rpc' = rpc
  BY DEF InstallFails, CreateSection, InitHeader, CreateEvent, CreateEventFails,
         SetAttached, SaveOriginal, PatchVTable, PatchFails, InstallStep, recorder
<1> USE <1>0 DEF AttachInv, StagesComplete, HookedWhenDone, SeenIsThere, ChannelStages,
                 HeaderStages, EventStages, OriginalStages, BeforeEvent, InstallStep
<1>1. CASE InstallFails       BY <1>1 DEF InstallFails
<1>2. CASE CreateSection      BY <1>2 DEF CreateSection
<1>3. CASE InitHeader         BY <1>3 DEF InitHeader
<1>4. CASE CreateEvent        BY <1>4 DEF CreateEvent
<1>5. CASE CreateEventFails   BY <1>5 DEF CreateEventFails
<1>6. CASE SetAttached        BY <1>6 DEF SetAttached
<1>7. CASE SaveOriginal       BY <1>7 DEF SaveOriginal
<1>8. CASE PatchVTable        BY <1>8 DEF PatchVTable
<1>9. CASE PatchFails         BY <1>9 DEF PatchFails
<1> QED  BY <1>1, <1>2, <1>3, <1>4, <1>5, <1>6, <1>7, <1>8, <1>9

LEMMA AttachInvStep == AttachInv /\ [Next]_vars => AttachInv'
<1> SUFFICES ASSUME AttachInv, [Next]_vars PROVE AttachInv'
  OBVIOUS
<1>1. CASE RunRecorder \/ UserQuits \/ Recorder
  BY <1>1, RecorderStep
<1>2. CASE \E r \in Runs : InjectDll(r)
  BY <1>2, InjectStep
<1>3. CASE GameExits
  BY <1>3, GameEndStep DEF GameExits
<1>4. ASSUME NEW r \in Runs, ReadFreedPath(r) PROVE AttachInv'
  BY <1>4, GameEndStep DEF ReadFreedPath
<1>5. ASSUME NEW r \in Runs, ReadPath(r) \/ LoadFails(r) \/ Load(r) PROVE AttachInv'
  BY <1>5, LoaderStep
<1>6. CASE \/ InstallFails \/ CreateSection \/ InitHeader \/ CreateEvent
           \/ CreateEventFails \/ SetAttached \/ SaveOriginal \/ PatchVTable \/ PatchFails
  BY <1>6, InstallationStep
<1>7. CASE UNCHANGED vars
  BY <1>7 DEF vars, recorder, install, AttachInv, StagesComplete, HookedWhenDone,
              SeenIsThere
<1> QED  BY <1>1, <1>2, <1>3, <1>4, <1>5, <1>6, <1>7 DEF Next, Game

(***************************************************************************)
(* The channel and the hook are what each stage of the installation left,  *)
(* whatever the recorder, its helper and the game do meanwhile.            *)
(***************************************************************************)
THEOREM AttachInvariant == Spec => []AttachInv
<1>1. Init => AttachInv
  BY DEF Init, AttachInv, StagesComplete, HookedWhenDone, SeenIsThere, ChannelStages,
         HeaderStages, EventStages, OriginalStages, BeforeEvent
<1> QED  BY <1>1, AttachInvStep, PTL DEF Spec

(***************************************************************************)
(* An attached recorder has an initialised ring and an event to wait for,  *)
(* although CaptureHook::Initialize looked at them one by one while        *)
(* InstallD3D11Hook was making them.                                       *)
(***************************************************************************)
THEOREM AttachedChannelUsable == Spec => []AttachedIsUsable
<1>1. AttachInv => AttachedIsUsable
  BY DEF AttachInv, SeenIsThere, AttachedIsUsable
<1> QED  BY <1>1, AttachInvariant, PTL

(***************************************************************************)
(* Present is patched only when HookedPresent has the original to call and *)
(* a ring and an event to push to.                                         *)
(***************************************************************************)
THEOREM HookComplete == Spec => []HookIsComplete
<1>1. AttachInv => HookIsComplete
  BY DEF AttachInv, StagesComplete, HookedWhenDone, HookIsComplete, ChannelStages,
         HeaderStages, EventStages, OriginalStages
<1> QED  BY <1>1, AttachInvariant, PTL

(***************************************************************************)
(* The header of the ring is initialised only before the event exists that *)
(* a recorder must have opened to be attached: no run of the recorder has  *)
(* its ring reset by the installation that another run brought about.      *)
(***************************************************************************)
THEOREM RingNotReset == Spec => AttachedRingIsNotReset
<1>1. AttachInv /\ [Next]_vars => [InitHeader => rpc # "recording"]_vars
  BY DEF AttachInv, StagesComplete, SeenIsThere, BeforeEvent, InitHeader, InstallStep
<1> QED  BY <1>1, AttachInvariant, PTL DEF Spec, AttachedRingIsNotReset
-----------------------------------------------------------------------------
(* InjectDll *)

LoadInv == TypeOK /\ SuccessMeansLoaded

LEMMA RecorderLoads ==
  ASSUME LoadInv, RunRecorder \/ UserQuits \/ Recorder
  PROVE LoadInv'
<1>1. UNCHANGED << injection, loader, game, install, viaHelper >>
  BY DEF RunRecorder, UserQuits, Recorder, InjectReturned, HelperTimedOut, OpenChannel,
         CheckVersion, OpenEvent, RecorderTo
<1>2. run' \in 0 .. MaxRuns
      /\ rpc' \in {"ended", "inject", "open", "version", "event", "recording"}
  BY RunsAssumption
  DEF LoadInv, TypeOK, RunRecorder, UserQuits, Recorder, InjectReturned, HelperTimedOut,
      OpenChannel, CheckVersion, OpenEvent, RecorderTo
<1> QED  BY <1>1, <1>2 DEF LoadInv, TypeOK, SuccessMeansLoaded, injection, install

\* Only a wait that saw the module, saw the game end or timed out succeeds
LEMMA InjectLoads ==
  ASSUME LoadInv, NEW r \in Runs, InjectDll(r)
  PROVE LoadInv'
<1> USE DEF LoadInv, recorder, install, FreePath
<1>1. CASE InjectFails(r)
  BY <1>1 DEF InjectFails, TypeOK, SuccessMeansLoaded
<1>2. CASE AllocatePath(r) \/ WritePath(r) \/ StartLoader(r)
  BY <1>2 DEF AllocatePath, WritePath, StartLoader, TypeOK, SuccessMeansLoaded
<1>3. CASE InjectWaited(r)
  <2>1. /\ injector[r] = "wait" /\ UNCHANGED << recorder, timedOut, loader, game, install >>
        /\ path' = [path EXCEPT ![r] = "freed"]
        /\ \E res \in {"ok", "failed"} : injector' = [injector EXCEPT ![r] = res]
        /\ injector'[r] = "ok" => loader[r] = "loaded" \/ game # "up"
    BY <1>3 DEF InjectWaited, TypeOK
  <2> QED  BY <2>1 DEF TypeOK, SuccessMeansLoaded
<1>4. CASE InjectTimesOut(r)
  BY <1>4 DEF InjectTimesOut, TypeOK, SuccessMeansLoaded
<1>5. CASE WriteFails(r) \/ StartFails(r)
  BY <1>5 DEF WriteFails, StartFails, TypeOK, SuccessMeansLoaded
<1> QED  BY <1>1, <1>2, <1>3, <1>4, <1>5 DEF InjectDll

LEMMA GameLoads ==
  ASSUME LoadInv, Game \/ GameExits
  PROVE LoadInv'
<1> USE DEF LoadInv, recorder, injection
<1>1. CASE GameExits \/ \E r \in Runs : ReadFreedPath(r)
  <2>1. /\ game' \in {"exited", "crashed"} /\ UNCHANGED << recorder, injection, loader >>
        /\ UNCHANGED << installer, original >>
        /\ channel' \in BOOLEAN /\ header' \in BOOLEAN /\ event' \in BOOLEAN
        /\ attached' \in BOOLEAN /\ hooked' \in BOOLEAN
    BY <1>1 DEF GameExits, ReadFreedPath, GameEnds, Kept, TypeOK
  <2> QED  BY <2>1 DEF TypeOK, SuccessMeansLoaded
<1>2. ASSUME NEW r \in Runs, ReadPath(r) \/ LoadFails(r) \/ Load(r) PROVE LoadInv'
  <2>1. /\ loader[r] # "loaded" /\ UNCHANGED << recorder, injection, game >>
        /\ \E pc \in {"loading", "null", "loaded"} : loader' = [loader EXCEPT ![r] = pc]
    BY <1>2 DEF ReadPath, LoadFails, Load
  <2>2. /\ UNCHANGED << channel, header, event, attached, original, hooked >>
        /\ installer' \in {installer, "probe"}
    BY <1>2 DEF ReadPath, LoadFails, Load, install
  <2> QED  BY <2>1, <2>2 DEF TypeOK, SuccessMeansLoaded
<1>3. CASE \/ InstallFails \/ CreateSection \/ InitHeader \/ CreateEvent
           \/ CreateEventFails \/ SetAttached \/ SaveOriginal \/ PatchVTable \/ PatchFails
  <2>1. UNCHANGED << recorder, injection, loader, game >>
    BY <1>3 DEF InstallFails, CreateSection, InitHeader, CreateEvent, CreateEventFails,
                SetAttached, SaveOriginal, PatchVTable, PatchFails, InstallStep
  <2>2. /\ installer' \in {"section", "header", "event", "attached", "patch", "done", "failed"}
        /\ channel' \in BOOLEAN /\ header' \in BOOLEAN /\ event' \in BOOLEAN
        /\ attached' \in BOOLEAN /\ original' \in BOOLEAN /\ hooked' \in BOOLEAN
    BY <1>3 DEF InstallFails, CreateSection, InitHeader, CreateEvent, CreateEventFails,
                SetAttached, SaveOriginal, PatchVTable, PatchFails, InstallStep, TypeOK
  <2> QED  BY <2>1, <2>2 DEF TypeOK, SuccessMeansLoaded
<1> QED  BY <1>1, <1>2, <1>3 DEF Game

LEMMA LoadInvariant == Spec => []LoadInv
<1>1. Init => LoadInv
  <2>1. Init => 0 \in 0 .. MaxRuns /\ SuccessMeansLoaded
    BY RunsAssumption DEF Init, SuccessMeansLoaded
  <2>2. Init => \A r \in Runs : path[r] = "none" /\ injector[r] = "none"
    BY DEF Init
  <2> QED  BY <2>1, <2>2 DEF Init, LoadInv, TypeOK
<1>2. LoadInv /\ [Next]_vars => LoadInv'
  <2>1. LoadInv /\ UNCHANGED vars => LoadInv'
    BY DEF LoadInv, TypeOK, SuccessMeansLoaded, vars, recorder, injection, install
  <2> QED  BY <2>1, RecorderLoads, InjectLoads, GameLoads DEF Next
<1> QED  BY <1>1, <1>2, PTL DEF Spec

\* Types, and the path in the game is freed on every way out of InjectDll
THEOREM AttachTypeOK == Spec => []TypeOK
<1>1. LoadInv => TypeOK
  BY DEF LoadInv
<1> QED  BY <1>1, LoadInvariant, PTL

(***************************************************************************)
(* InjectDll returns true only when DllMain ran and returned, unless its   *)
(* five seconds were over or the game is gone, for any number of runs.     *)
(***************************************************************************)
THEOREM SuccessAlwaysLoaded == Spec => []SuccessMeansLoaded
<1>1. LoadInv => SuccessMeansLoaded
  BY DEF LoadInv
<1> QED  BY <1>1, LoadInvariant, PTL
=============================================================================
