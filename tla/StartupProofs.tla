----------------------------- MODULE StartupProofs -----------------------------
(***************************************************************************)
(* What a session was promised when it was let in still holds when its     *)
(* container is created, for every machine, command line and project; the  *)
(* startup is a refinement of the process's first steps; and the pre-scan  *)
(* it runs through hands over what it found.                               *)
(***************************************************************************)
EXTENDS Startup, TLAPS

\* The startup begins with nothing promised.
LEMMA InitStart == Init => StartInv
  BY DEF Init, ImageInit, StartInv, Started, NoBox, SandboxHasBwrap, WallsAsPromised,
     WritesAreScanned

\* A step that creates no container keeps the promises of one.
LEMMA NotStarted ==
  ASSUME ~Started'
  PROVE  (SandboxHasBwrap /\ WallsAsPromised /\ WritesAreScanned)'
  BY DEF SandboxHasBwrap, WallsAsPromised, WritesAreScanned

\* Nor is there a container before createContainer.
LEMMA BoxKept ==
  ASSUME StartInv, step # "started", UNCHANGED box
  PROVE  ~Started'
  BY DEF StartInv, Started

\* createContainer's container is as promised.
LEMMA CreateKeeps ==
  ASSUME StartInv, Create
  PROVE  StartInv'
<1>1. CASE Stop("throw") /\ UNCHANGED box
  <2>1. ~Started' /\ step' = "stopped" /\ ended' = "throw" /\ UNCHANGED imageVars
    BY <1>1, BoxKept DEF Create, Stop
  <2> QED BY <2>1, NotStarted DEF StartInv, Create, imageVars
<1>2. ASSUME NEW gvisor \in DetectGvisor,
             NEW profiles \in SecurityOpts,
             gvisor \/ ~RequireGvisor, image # "none",
             box' = [image |-> image, others |-> others, writable |-> "write" \in opts,
                     walls |-> profiles \cup (IF gvisor THEN {"gvisor"} ELSE {})],
             Go("started")
      PROVE  StartInv'
  <2>1. /\ step = "create" /\ step' = "started"
        /\ UNCHANGED <<ended, imageVars, host, opts, seen, client>>
    BY <1>2 DEF Create, Go
  <2>2. Started'
    BY <1>2 DEF Started, NoBox
  <2>3. SandboxHasBwrap'
    BY <1>2, <2>1 DEF SandboxHasBwrap, StartInv, imageVars
  <2>4. WritesAreScanned'
    BY <1>2, <2>1 DEF WritesAreScanned, StartInv, MayServe
  <2>5. WallsAsPromised'
    <3>1. Passes(seen)
      BY <2>1 DEF StartInv
    <3>2. gvisor \in BOOLEAN
      BY <1>2 DEF DetectGvisor
    <3>3. "gvisor" \in box'.walls <=> gvisor
      BY <1>2, <3>2 DEF SecurityOpts
    <3>4. "strict" \in opts => Full(seen)
      BY <3>1 DEF Passes
    <3>5. "require-gvisor" \in opts => gvisor
      BY <1>2 DEF RequireGvisor
    <3>6. "linux" \in host /\ ~gvisor =>
             \/ "insecure" \in opts /\ "strict" \notin opts
             \/ "gvisor" \in seen /\ "require-gvisor" \notin opts
      BY <3>1, <3>4, <3>5 DEF Passes, Full, KernelWall
    <3> QED BY <2>1, <3>3, <3>4, <3>5, <3>6 DEF WallsAsPromised, Full, KernelWall
  <2> QED BY <2>1, <2>2, <2>3, <2>4, <2>5 DEF StartInv, imageVars
<1> QED BY <1>1, <1>2 DEF Create

\* An image that was verified is good.
LEMMA EnsureFacts ==
  ASSUME EnsureHardenedImage
  PROVE  /\ imageAt' = "ready" => image' = "good"
         /\ imageAt \in {"check", "drop", "build", "verify"}
         /\ imageAt' \in {"drop", "build", "verify", "ready", "failed"}
         /\ UNCHANGED host
  BY DEF EnsureHardenedImage, CheckImage, DropImage, BuildImage, VerifyImage, ImageHasBwrap

\* Every step keeps the invariant.
LEMMA StartStep == StartInv /\ [Next]_startVars => StartInv'
<1> SUFFICES ASSUME StartInv, [Next]_startVars PROVE StartInv'
  OBVIOUS
<1>1. CASE Preflight
  <2>1. ~Started'
    BY <1>1, BoxKept DEF Preflight
  <2> QED BY <1>1, <2>1, NotStarted DEF Preflight, Stop, StartInv
<1>2. CASE Image
  <2>1. ~Started'
    BY <1>2, BoxKept DEF Image
  <2>2. CASE EnsureHardenedImage /\ UNCHANGED <<step, ended>>
    BY <1>2, <2>1, <2>2, NotStarted, EnsureFacts DEF Image, StartInv, Passes, MayServe, Full,
       KernelWall
  <2>3. CASE imageAt = "ready" /\ imageAt' = "idle" /\ UNCHANGED <<image, others>>
    BY <1>2, <2>1, <2>3, NotStarted DEF Image, StartInv, Passes, MayServe, Full, KernelWall, Go,
       EnsureHardenedImage, CheckImage, DropImage, BuildImage, VerifyImage
  <2>4. CASE imageAt = "failed" /\ Stop("throw") /\ UNCHANGED imageVars
    BY <1>2, <2>1, <2>4, NotStarted DEF Image, StartInv, Stop, imageVars
  <2> QED BY <1>2, <2>2, <2>3, <2>4 DEF Image
<1>3. CASE Gate
  <2>1. ~Started'
    BY <1>3, BoxKept DEF Gate
  <2> QED BY <1>3, <2>1, NotStarted DEF Gate, Stop, Go, StartInv, Passes, Full, KernelWall,
     imageVars
<1>4. CASE Credentials
  <2>1. ~Started'
    BY <1>4, BoxKept DEF Credentials
  <2>2. step' \in {"sovguard", "stopped"} /\ (ended' = "no" <=> step' # "stopped")
    BY <1>4 DEF Credentials, Resolve, Prompt, PromptFails, Stop, Go, StartInv
  <2> QED BY <1>4, <2>1, <2>2, NotStarted DEF Credentials, StartInv, Passes, Full, KernelWall,
     imageVars
<1>5. CASE SovGuardGate
  <2>1. ~Started'
    BY <1>5, BoxKept DEF SovGuardGate
  <2> QED BY <1>5, <2>1, NotStarted DEF SovGuardGate, Stop, Go, StartInv, Passes, Full,
     KernelWall, MayServe, imageVars
<1>6. CASE Prescan
  <2>1. ~Started'
    BY <1>6, BoxKept DEF Prescan
  <2>2. step' \in {"prescan", "start", "stopped"} /\ (ended' = "no" <=> step' # "stopped")
    BY <1>6 DEF Prescan, Stop, Go, StartInv
  <2>3. imageAt' = "ready" => imageAt = "ready"
    BY <1>6 DEF Prescan
  <2> QED BY <1>6, <2>1, <2>2, <2>3, NotStarted DEF Prescan, StartInv, Passes, Full, KernelWall,
     MayServe
<1>7. CASE Create
  BY <1>7, CreateKeeps
<1>8. CASE Meanwhile
  <2>1. ~Started'
    BY <1>8, BoxKept DEF Meanwhile
  <2> QED BY <1>8, <2>1, NotStarted DEF Meanwhile, OtherSession, StartInv, Passes, Full,
     KernelWall, MayServe
<1>9. CASE UNCHANGED startVars
  BY <1>9 DEF startVars, imageVars, StartInv, Started, Passes, Full, KernelWall, MayServe,
     SandboxHasBwrap, WallsAsPromised, WritesAreScanned
<1> QED BY <1>1, <1>2, <1>3, <1>4, <1>5, <1>6, <1>7, <1>8, <1>9 DEF Next

\* The invariant of the startup.
LEMMA StartInvariant == Spec => []StartInv
  BY InitStart, StartStep, PTL DEF Spec

\* A sandbox has bubblewrap unless another session moved the image's tag.
THEOREM StartupSandboxHasBwrap == Spec => []SandboxHasBwrap
<1>1. StartInv => SandboxHasBwrap
  BY DEF StartInv
<1> QED BY <1>1, StartInvariant, PTL

\* A container has the walls its options ask for, but for a gVisor that was
\* seen by the gate only.
THEOREM StartupWallsAsPromised == Spec => []WallsAsPromised
<1>1. StartInv => WallsAsPromised
  BY DEF StartInv
<1> QED BY <1>1, StartInvariant, PTL

\* No writable container without scans, unless the buyer asked for it.
THEOREM StartupWritesAreScanned == Spec => []WritesAreScanned
<1>1. StartInv => WritesAreScanned
  BY DEF StartInv
<1> QED BY <1>1, StartInvariant, PTL

-----------------------------------------------------------------------------
(* Refinement.                                                             *)

\* An exception is StartupThrows: without a container cleanup exits at once.
LEMMA ThrowMaps ==
  ASSUME StartInv, step \notin {"stopped", "started"}, Stop("throw"), UNCHANGED box
  PROVE  Process!StartupThrows
<1>1. ended = "no" /\ ~Threw /\ Started = FALSE /\ Started' = FALSE /\ Threw'
  BY DEF StartInv, Stop, Threw, Started
<1>2. ProcessStep \in {"gates", "creating"} /\ ProcessStep' = "over"
  BY DEF ProcessStep, Stop
<1>3. ProcessExit = "none" /\ ProcessExit' = "1"
  BY <1>1 DEF ProcessExit, Stop
<1>4. Process!EndBy("1")
  BY <1>1, <1>3 DEF Process!EndBy, Process!EndOver, Process!CloseDown, Process!Disconnected,
     Process!ExitWith
<1> QED BY <1>1, <1>2, <1>3, <1>4 DEF Process!StartupThrows, Process!Alive, Process!Gone

\* process.exit before there is a container is Gates.
LEMMA ExitMaps ==
  ASSUME StartInv, NEW how \in {"exit0", "exit1"}, Stop(how), UNCHANGED box,
         step \notin {"stopped", "started", "start", "create"}
  PROVE  Process!Gates
<1>1. ended = "no" /\ ~Threw /\ Started = FALSE /\ Started' = FALSE /\ ~Threw'
  BY DEF StartInv, Stop, Threw, Started
<1>2. ProcessStep = "gates" /\ ProcessStep' = "over"
  BY DEF ProcessStep, Stop
<1>3. ProcessExit = "none" /\ ProcessExit' \in {"0", "1"}
  BY <1>1 DEF ProcessExit, Stop
<1> QED BY <1>1, <1>2, <1>3 DEF Process!Gates, Process!Goto, Process!Alive, Process!Gone

\* What stays before the container is a stutter.
LEMMA StutterMaps ==
  ASSUME ProcessStep' = ProcessStep, UNCHANGED <<box, ended>>
  PROVE  UNCHANGED Process!vars
  BY DEF Process!vars, Started, Threw, ProcessExit

\* The pre-scan's yes lets the process create its container.
LEMMA YesMaps ==
  ASSUME StartInv, step = "prescan", Go("start"), UNCHANGED box
  PROVE  Process!Gates
<1>1. ended = "no" /\ ended' = "no" /\ ~Threw /\ Started = FALSE /\ Started' = FALSE /\ ~Threw'
  BY DEF StartInv, Go, Threw, Started
<1>2. ProcessStep = "gates" /\ ProcessStep' = "creating"
  BY DEF ProcessStep, Go
<1>3. ProcessExit = "none" /\ ProcessExit' = "none"
  BY <1>1 DEF ProcessExit
<1> QED BY <1>1, <1>2, <1>3 DEF Process!Gates, Process!Goto, Process!Alive, Process!Gone

\* createContainer is Create.
LEMMA CreateMaps ==
  ASSUME StartInv, step = "create", Go("started"), Started'
  PROVE  Process!Create
<1>1. ended = "no" /\ ended' = "no" /\ ~Threw /\ ~Started /\ Started' /\ ~Threw'
  BY DEF StartInv, Go, Threw
<1>2. ProcessStep = "creating" /\ ProcessStep' = "starting"
  BY DEF ProcessStep, Go
<1>3. ProcessExit = "none" /\ ProcessExit' = "none"
  BY <1>1 DEF ProcessExit
<1> QED BY <1>1, <1>2, <1>3 DEF Process!Create, Process!Goto, Process!Alive, Process!Gone

\* Every step of the startup is one of the process, or none.
LEMMA StepMaps == StartInv /\ StartInv' /\ [Next]_startVars => [Process!Next]_Process!vars
<1> SUFFICES ASSUME StartInv, StartInv', [Next]_startVars PROVE [Process!Next]_Process!vars
  OBVIOUS
<1> USE DEF Process!Next
<1>1. CASE Preflight
  <2>1. CASE Stop("exit1")
    BY <1>1, <2>1, ExitMaps DEF Preflight
  <2>2. CASE step' = "image" /\ UNCHANGED ended
    <3>1. ProcessStep' = ProcessStep
      BY <1>1, <2>2 DEF Preflight, ProcessStep
    <3> QED BY <1>1, <2>2, <3>1, StutterMaps DEF Preflight
  <2> QED BY <1>1, <2>1, <2>2 DEF Preflight
<1>2. CASE Image
  <2>1. CASE UNCHANGED <<step, ended>>
    BY <1>2, <2>1, StutterMaps DEF Image, ProcessStep
  <2>2. CASE Go(IF step = "image" THEN "gate" ELSE "create")
    <3>1. ProcessStep' = ProcessStep
      BY <1>2, <2>2 DEF Image, Go, ProcessStep
    <3> QED BY <1>2, <2>2, <3>1, StutterMaps DEF Image, Go
  <2>3. CASE Stop("throw")
    BY <1>2, <2>3, ThrowMaps DEF Image
  <2> QED BY <1>2, <2>1, <2>2, <2>3 DEF Image
<1>3. CASE Gate
  <2>1. CASE Go("credentials")
    <3>1. ProcessStep' = ProcessStep
      BY <1>3, <2>1 DEF Gate, Go, ProcessStep
    <3> QED BY <1>3, <2>1, <3>1, StutterMaps DEF Gate, Go
  <2>2. CASE Stop("exit1")
    BY <1>3, <2>2, ExitMaps DEF Gate
  <2> QED BY <1>3, <2>1, <2>2 DEF Gate
<1>4. CASE Credentials
  <2>1. CASE Go("sovguard")
    <3>1. ProcessStep' = ProcessStep
      BY <1>4, <2>1 DEF Credentials, Go, ProcessStep
    <3> QED BY <1>4, <2>1, <3>1, StutterMaps DEF Credentials, Go
  <2>2. CASE Stop("exit1")
    BY <1>4, <2>2, ExitMaps DEF Credentials
  <2>3. CASE Stop("throw")
    BY <1>4, <2>3, ThrowMaps DEF Credentials
  <2> QED BY <1>4, <2>1, <2>2, <2>3 DEF Credentials, Resolve, Prompt, PromptFails
<1>5. CASE SovGuardGate
  <2>1. CASE Go("prescan")
    <3>1. ProcessStep' = ProcessStep
      BY <1>5, <2>1 DEF SovGuardGate, Go, ProcessStep
    <3> QED BY <1>5, <2>1, <3>1, StutterMaps DEF SovGuardGate, Go
  <2>2. CASE Stop("exit1")
    BY <1>5, <2>2, ExitMaps DEF SovGuardGate
  <2> QED BY <1>5, <2>1, <2>2 DEF SovGuardGate
<1>6. CASE Prescan
  <2>1. CASE UNCHANGED <<step, ended>>
    BY <1>6, <2>1, StutterMaps DEF Prescan, ProcessStep
  <2>2. CASE Go("start")
    BY <1>6, <2>2, YesMaps DEF Prescan
  <2>3. CASE Stop("exit0")
    BY <1>6, <2>3, ExitMaps DEF Prescan
  <2>4. CASE Stop("throw")
    BY <1>6, <2>4, ThrowMaps DEF Prescan
  <2> QED BY <1>6, <2>1, <2>2, <2>3, <2>4 DEF Prescan
<1>7. CASE Create
  <2>1. CASE Stop("throw") /\ UNCHANGED box
    BY <1>7, <2>1, ThrowMaps DEF Create
  <2>2. CASE Go("started")
    <3>1. step' = "started" /\ Started'
      BY <2>2 DEF Go, StartInv
    <3> QED BY <1>7, <2>2, <3>1, CreateMaps DEF Create
  <2> QED BY <1>7, <2>1, <2>2 DEF Create
<1>8. CASE Meanwhile
  BY <1>8, StutterMaps DEF Meanwhile, ProcessStep
<1>9. CASE UNCHANGED startVars
  BY <1>9, StutterMaps DEF startVars, ProcessStep
<1> QED BY <1>1, <1>2, <1>3, <1>4, <1>5, <1>6, <1>7, <1>8, <1>9 DEF Next

\* The startup implements the process: whatever fails before createContainer
\* returns, the process ends through one exit, without container, relay or log.
THEOREM StartupImplementsLifecycle == Spec => ImplementsLifecycle
<1>1. Init => Process!Init
  BY DEF Init, Process!Init, ProcessStep, ProcessExit, Started, Threw
<1> QED BY <1>1, StartInvariant, StepMaps, PTL DEF Spec, ImplementsLifecycle, Process!Spec

-----------------------------------------------------------------------------
(* The pre-scan.                                                            *)

\* Nothing was found before the scan.
LEMMA InitScan == ScanInit => ScanTypeOK /\ ScanInv
  BY DEF ScanInit, ScanTypeOK, ScanInv

\* The walk and the scan exclude what they find.
LEMMA FindKeeps ==
  ASSUME ScanTypeOK, ScanInv, NEW scanning \in BOOLEAN,
         Walk(scanning) \/ \E f \in File : ScanFile(f)
  PROVE  (ScanTypeOK /\ ScanInv)'
<1>1. CASE Walk(scanning)
  <2>1. /\ excluded' = Sensitive /\ flagged' = {} /\ selected' = {} /\ waived' = {}
        /\ UNCHANGED cancelled
    BY <1>1 DEF Walk, ScanInv
  <2>2. scanAt' \in {"scan", "failed"} /\ todo' \subseteq Scannable
    BY <1>1 DEF Walk, Proceed
  <2> QED BY <2>1, <2>2 DEF ScanTypeOK, ScanInv, Found
<1>2. ASSUME NEW f \in File, ScanFile(f)
      PROVE  (ScanTypeOK /\ ScanInv)'
  <2>1. /\ scanAt = "scan" /\ scanAt' = "scan" /\ f \in todo /\ todo' \subseteq todo
        /\ UNCHANGED <<selected, waived, cancelled>> /\ selected = {} /\ waived = {}
        /\ excluded = Sensitive \cup flagged
    BY <1>2 DEF ScanFile, ScanInv, Found
  <2>2. \/ excluded' = excluded \cup {f} /\ flagged' = flagged \cup {f}
        \/ UNCHANGED <<excluded, flagged>>
    BY <1>2 DEF ScanFile
  <2>3. ScanTypeOK'
    BY <2>1, <2>2 DEF ScanTypeOK
  <2>4. excluded' = Found'
    BY <2>1, <2>2 DEF Found
  <2> QED BY <2>1, <2>3, <2>4 DEF ScanInv
<1> QED BY <1>1, <1>2

\* The editor's marks and what is waived complement each other.
LEMMA ToggleKeeps ==
  ASSUME ScanTypeOK, ScanInv, NEW f \in File, Toggle(f)
  PROVE  (ScanTypeOK /\ ScanInv)'
<1>1. /\ scanAt = "edit" /\ UNCHANGED <<scanAt, todo, excluded, flagged, cancelled>> /\ f \in Found
      /\ excluded = Found /\ Found' = Found
      /\ selected = Found \ waived /\ waived \subseteq Found
  BY DEF Toggle, OnList, ScanInv, Found
<1>2. selected' = Flip(Found \ waived, f) /\ waived' = Flip(waived, f)
  BY <1>1 DEF Toggle
<1>3. selected' = Found \ waived' /\ waived' \subseteq Found
  <2>1. /\ Flip(Found \ waived, f) = Found \ Flip(waived, f)
        /\ Flip(waived, f) \subseteq Found
    BY <1>1 DEF Flip
  <2> QED BY <1>2, <2>1
<1>4. ScanTypeOK'
  BY <1>1, <1>3 DEF ScanTypeOK, Found
<1>5. ScanInv'
  BY <1>1, <1>3 DEF ScanInv
<1> QED BY <1>4, <1>5

\* The buyer's other keys.
LEMMA KeysKeep ==
  ASSUME ScanTypeOK, ScanInv,
         ScanDone \/ Ask \/ EditEnter \/ EditEsc \/ EditQuit \/ Confirm
  PROVE  (ScanTypeOK /\ ScanInv)'
<1> USE DEF Proceed, ScanTypeOK, ScanInv
<1>1. CASE ScanDone
  BY <1>1 DEF ScanDone, Found
<1>2. CASE Ask
  BY <1>2 DEF Ask, Found
<1>3. CASE EditEnter
  BY <1>3 DEF EditEnter, Replaced, Found
<1>4. CASE EditEsc
  BY <1>4 DEF EditEsc, Replaced, Found
<1>5. CASE EditQuit
  BY <1>5 DEF EditQuit, Found
<1>6. CASE Confirm
  BY <1>6 DEF Confirm, Found
<1> QED BY <1>1, <1>2, <1>3, <1>4, <1>5, <1>6

\* The startup's variables, those of the scan and what the scan found.
StartTypeInv == TypeOK /\ StartInv /\ ScanInv /\ ScanWaits

\* The first state.
LEMMA InitStartType == Init => StartTypeInv
<1> SUFFICES ASSUME Init PROVE StartTypeInv
  OBVIOUS
<1>1. ScanTypeOK /\ ScanInv /\ ScanWaits
  BY InitScan DEF Init, ScanWaits, ScanInit
<1>2. StartInv
  BY InitStart
<1>3. ImageTypeOK
  <2>1. others \in BOOLEAN
    BY Zenon DEF Init, ImageInit
  <2> QED BY <2>1 DEF Init, ImageInit, ImageTypeOK
<1>4. TypeOK
  BY <1>1, <1>2, <1>3 DEF Init, TypeOK, StartInv
<1> QED BY <1>1, <1>2, <1>4 DEF StartTypeInv

\* The image's variables keep their types.
LEMMA ImageType ==
  ASSUME ImageTypeOK, [Next]_startVars
  PROVE  ImageTypeOK'
<1>1. CASE UNCHANGED others
  <2>1. /\ image' \in {"none", "broken", "good"}
        /\ imageAt' \in {"idle", "check", "drop", "build", "verify", "ready", "failed"}
    BY <1>1 DEF ImageTypeOK, Next, startVars, imageVars, Preflight, Image, Gate, Credentials,
       SovGuardGate, Prescan, Create, Meanwhile, OtherSession, EnsureHardenedImage,
       CheckImage, DropImage, BuildImage, VerifyImage
  <2> QED BY <1>1, <2>1 DEF ImageTypeOK
<1>2. CASE CheckImage \/ VerifyImage
  <2>1. others' \in BOOLEAN
    BY <1>2, Zenon DEF CheckImage, VerifyImage, ImageTypeOK
  <2> QED BY <1>2, <2>1 DEF CheckImage, VerifyImage, ImageTypeOK
<1>3. CASE OtherSession
  <2>1. others' \in BOOLEAN
    BY <1>3, Zenon DEF OtherSession
  <2> QED BY <1>3, <2>1 DEF OtherSession, ImageTypeOK
<1> QED BY <1>1, <1>2, <1>3 DEF Next, startVars, imageVars, Preflight, Image, Gate,
        Credentials, SovGuardGate, Prescan, Create, Meanwhile, EnsureHardenedImage,
        DropImage, BuildImage

\* The scan runs in its own stage.
LEMMA ScanStage ==
  ASSUME StartTypeInv, [Next]_startVars
  PROVE  (ScanTypeOK /\ ScanInv /\ ScanWaits)'
<1> USE DEF StartTypeInv
<1>1. CASE UNCHANGED scanVars /\ ScanWaits'
  BY <1>1 DEF scanVars, TypeOK, ScanTypeOK, ScanInv, Found
<1>2. CASE SovGuardGate /\ Go("prescan") /\ scanAt' = "walk"
  <2>1. UNCHANGED <<todo, excluded, selected, flagged, waived, cancelled>> /\ scanAt = "idle"
    BY <1>2 DEF SovGuardGate, ScanWaits
  <2> QED BY <1>2, <2>1 DEF Go, ScanWaits, TypeOK, ScanTypeOK, ScanInv, Found
<1>3. CASE Prescan /\ Scan(client # "none") /\ UNCHANGED step
  <2>1. step' = "prescan" /\ ScanTypeOK /\ (client # "none") \in BOOLEAN
    BY <1>3 DEF Prescan, TypeOK
  <2>2. (ScanTypeOK /\ ScanInv)'
    BY <1>3, <2>1, FindKeeps, ToggleKeeps, KeysKeep DEF Scan
  <2> QED BY <2>1, <2>2 DEF ScanWaits
<1>4. UNCHANGED scanVars /\ (UNCHANGED step \/ scanAt = "idle") => ScanWaits'
  BY DEF ScanWaits, scanVars
<1>5. UNCHANGED scanVars /\ step' \in {"start", "create", "started", "stopped", "prescan"}
        => ScanWaits'
  BY DEF ScanWaits
<1>6. CASE Preflight \/ Gate \/ Credentials \/ Meanwhile \/ Create \/ UNCHANGED startVars
  BY <1>1, <1>4, <1>5, <1>6 DEF Preflight, Gate, Credentials, Meanwhile, Create, startVars,
     ScanWaits, Go, Stop
<1>7. CASE Image
  BY <1>1, <1>4, <1>5, <1>7 DEF Image, ScanWaits, Go, Stop
<1>8. CASE SovGuardGate
  BY <1>1, <1>2, <1>5, <1>8 DEF SovGuardGate, Stop, scanVars
<1>9. CASE Prescan
  BY <1>1, <1>3, <1>5, <1>9 DEF Prescan, Stop, Go
<1> QED BY <1>6, <1>7, <1>8, <1>9 DEF Next

\* Every step keeps the types.
LEMMA StartTypeStep == StartTypeInv /\ [Next]_startVars => StartTypeInv'
<1> SUFFICES ASSUME StartTypeInv, [Next]_startVars PROVE StartTypeInv'
  OBVIOUS
<1>1. StartInv' /\ ImageTypeOK' /\ (ScanTypeOK /\ ScanInv /\ ScanWaits)'
  BY StartStep, ImageType, ScanStage DEF StartTypeInv, TypeOK
<1>2. saved' \subseteq {"key", "enc", "bad-enc"}
  BY DEF StartTypeInv, TypeOK, Next, startVars, Preflight, Image, Gate, Credentials, Resolve,
     Prompt, PromptFails, SovGuardGate, Prescan, Create, Meanwhile
<1>3. /\ step' \in {"preflight", "image", "gate", "credentials", "sovguard", "prescan",
                    "start", "create", "started", "stopped"}
      /\ ended' \in {"no", "exit0", "exit1", "throw"}
  BY DEF StartTypeInv, TypeOK, Next, startVars, Preflight, Image, Gate, Credentials, Resolve,
     Prompt, PromptFails, SovGuardGate, Prescan, Create, Meanwhile, Go, Stop
<1>4. seen' \subseteq {"gvisor", "apparmor", "seccomp"}
  BY DEF StartTypeInv, TypeOK, Next, startVars, Preflight, Image, Gate, Credentials,
     SovGuardGate, Prescan, Create, Meanwhile
<1>5. client' \in {"none", "plain", "encrypted"}
  BY DEF StartTypeInv, TypeOK, Next, startVars, Preflight, Image, Gate, Credentials, Resolve,
     Prompt, PromptFails, ClientFor, SovGuardGate, Prescan, Create, Meanwhile
<1> QED BY <1>1, <1>2, <1>3, <1>4, <1>5 DEF StartTypeInv, TypeOK, StartInv

\* The invariant with the scan.
LEMMA StartTypeInvariant == Spec => []StartTypeInv
  BY InitStartType, StartTypeStep, PTL DEF Spec

\* The startup's variables keep their types.
THEOREM StartupTypeOK == Spec => []TypeOK
<1>1. StartTypeInv => TypeOK
  BY DEF StartTypeInv
<1> QED BY <1>1, StartTypeInvariant, PTL

\* Unless the buyer cancels the editor, what the session excludes is everything the
\* walk and the scan found but for what he unmarked, for any project and any keys
\* (pre-scan.ts, preScan and interactiveExclusions).
THEOREM StartupExclusionsHonest == Spec => []ExclusionsHonest
<1>1. StartTypeInv => ExclusionsHonest
  BY DEF StartTypeInv, ScanInv, ExclusionsHonest
<1> QED BY <1>1, StartTypeInvariant, PTL
================================================================================
