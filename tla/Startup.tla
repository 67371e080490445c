-------------------------------- MODULE Startup --------------------------------
(***************************************************************************)
(* The startup of a session up to its container (src/cli.ts, run, lines    *)
(* 341-562; src/config.ts; src/docker.ts): preflight, image, kernel-wall   *)
(* gate, credentials, pre-scan, the image again, and createContainer.      *)
(*                                                                         *)
(* What is asked of the machine early may be answered differently later:   *)
(* the gate and createContainer both detect gVisor, both ensureHardened-   *)
(* Image calls look at a tag that other sessions may move.  Lifecycle has  *)
(* the rest of the process; this module refines its first steps.           *)
(***************************************************************************)
EXTENDS HardenedImage, PreScan

CONSTANTS
  Hosts,    \* the machines considered: sets of "linux", "runsc", "apparmor",
            \* "seccomp", "root", "initialized"
  Options   \* the command lines and environments: sets of "write", "strict",
            \* "insecure", "require-gvisor", "no-sovguard", "sovguard-key",
            \* "auto-setup"

VARIABLES
  opts,    \* the options of this run
  saved,   \* the lines of ~/.j41/config: "key", "enc", "bad-enc"
  step,    \* where run is
  seen,    \* the isolation layers the gate saw
  client,  \* the SovGuard client: "none", "plain" or "encrypted"
  box,     \* the container, as it was created
  ended    \* how the startup ended: "no", "exit0", "exit1" or "throw"

startVars == <<host, imageVars, scanVars, opts, saved, step, seen, client, box, ended>>

NoBox == [image |-> "none"]

Init ==
  /\ host \in Hosts /\ opts \in Options
  /\ ImageInit /\ ScanInit
  /\ saved \in SUBSET {"key", "enc"}
  /\ step = "preflight" /\ seen = {} /\ client = "none"
  /\ box = NoBox /\ ended = "no"

\* Mutant: a failed check is recorded, and the startup goes on.
StopGoesOn(how) == ended' = how /\ UNCHANGED step

\* process.exit, and an exception that reaches the catch of run.
Stop(how) == step' = "stopped" /\ ended' = how
Go(s)     == step' = s /\ UNCHANGED ended

-----------------------------------------------------------------------------
(* Checks and gates.                                                       *)

\* assertNotRoot
NotRoot == "root" \notin host

\* The first-run setup was done, or is opted into; then its result is ignored.
SetUp == "initialized" \in host \/ "auto-setup" \in opts

\* The quick check of secure-setup passes or cannot be made, or it fails.
Preflight ==
  /\ step = "preflight"
  /\ \/ /\ NotRoot /\ SetUp
        /\ step' = "image" /\ imageAt' = "check" /\ UNCHANGED ended
     \/ Stop("exit1") /\ UNCHANGED imageAt
  /\ UNCHANGED <<host, image, others, scanVars, opts, saved, seen, client, box>>

\* ensureHardenedImage, here and in docker.start.
Image ==
  /\ step \in {"image", "start"}
  /\ \/ EnsureHardenedImage /\ UNCHANGED <<step, ended>>
     \/ /\ imageAt = "ready" /\ imageAt' = "idle"
        /\ Go(IF step = "image" THEN "gate" ELSE "create")
        /\ UNCHANGED <<image, others>>
     \/ imageAt = "failed" /\ Stop("throw") /\ UNCHANGED imageVars
  /\ UNCHANGED <<host, scanVars, opts, saved, seen, client, box>>

\* Off Linux Docker's own VM is the kernel wall.
KernelWall(layers) == "gvisor" \in layers \/ "linux" \notin host

Full(layers) == KernelWall(layers) /\ {"apparmor", "seccomp"} \subseteq layers

\* Mutant: --insecure wins over --strict.
PassesInsecure(layers) ==
  "insecure" \in opts \/ IF "strict" \in opts THEN Full(layers) ELSE KernelWall(layers)

\* --strict wins over --insecure.
Passes(layers) ==
  /\ "strict" \in opts => Full(layers)
  /\ "insecure" \in opts \/ KernelWall(layers)

\* detectIsolationLayers; a profile list that cannot be read has no profile.
Gate ==
  /\ step = "gate"
  /\ \E gvisor \in DetectGvisor, apparmor \in SUBSET (host \cap {"apparmor"}) :
       LET layers == apparmor \cup (host \cap {"seccomp"})
                              \cup (IF gvisor THEN {"gvisor"} ELSE {})
       IN  /\ seen' = layers
           /\ IF Passes(layers) THEN Go("credentials") ELSE Stop("exit1")
  /\ UNCHANGED <<host, imageVars, scanVars, opts, saved, client, box>>

-----------------------------------------------------------------------------
(* Credentials.                                                            *)

\* The SovGuardClient made with some keys; one of the wrong length is ignored.
ClientFor(keys) == IF "enc" \in keys THEN "encrypted" ELSE "plain"

\* resolveCredentials: flag, environment or file; the encryption key of the
\* file and of the environment are not part of what it returns.
Resolve ==
  /\ "sovguard-key" \in opts \/ "key" \in saved
  /\ client' = ClientFor({"key"}) /\ Go("sovguard") /\ UNCHANGED saved

\* readSecret is left by Ctrl+C; the file cannot be written.
PromptFails == (Stop("exit1") \/ Stop("throw")) /\ UNCHANGED <<client, saved>>

\* The first-run prompt: nothing, a key, or a key with an encryption key (of
\* the right length or not); the answers become the file.
Prompt ==
  \/ client' = "none" /\ Go("sovguard") /\ UNCHANGED saved
  \/ \E keys \in {{"key"}, {"key", "bad-enc"}, {"key", "enc"}} :
       saved' = keys /\ client' = ClientFor(keys) /\ Go("sovguard")
  \/ PromptFails

Credentials ==
  /\ step = "credentials"
  /\ \/ Resolve
     \/ /\ "sovguard-key" \notin opts /\ "key" \notin saved
        /\ IF "no-sovguard" \in opts
             THEN Go("sovguard") /\ UNCHANGED <<client, saved>>
             ELSE Prompt
  /\ UNCHANGED <<host, imageVars, scanVars, opts, seen, box>>

\* Mutant: a session without a client goes on, as it does when it is read-only.
MayServeUnscanned == TRUE

\* Without a client: only unscanned on request, or read-only.
MayServe == client # "none" \/ "no-sovguard" \in opts \/ "write" \notin opts

\* The SovGuard gate; with a client the queued reports are flushed first
\* (ReportQueue).
SovGuardGate ==
  /\ step = "sovguard"
  /\ IF MayServe THEN Go("prescan") /\ scanAt' = "walk"
                 ELSE Stop("exit1") /\ UNCHANGED scanAt
  /\ UNCHANGED <<host, imageVars, todo, excluded, selected, flagged, waived, cancelled,
                 opts, saved, seen, client, box>>

-----------------------------------------------------------------------------
\* preScan, and what becomes of its answer.
Prescan ==
  /\ step = "prescan"
  /\ \/ Scan(client # "none") /\ UNCHANGED <<step, ended, imageAt>>
     \/ /\ UNCHANGED scanVars
        /\ \/ scanAt = "yes" /\ Go("start") /\ imageAt' = "check"
           \/ scanAt = "no" /\ Stop("exit0") /\ UNCHANGED imageAt
           \/ scanAt = "failed" /\ Stop("throw") /\ UNCHANGED imageAt
  /\ UNCHANGED <<host, image, others, opts, saved, seen, client, box>>

\* Mutant: the runtime is only required when the gate did not see it.
RequiredUnlessSeen == "require-gvisor" \in opts /\ "gvisor" \notin seen

RequireGvisor == "require-gvisor" \in opts

\* buildJailboxSecurityOpt: an invalid or unreadable profile is left out.
SecurityOpts == SUBSET (host \cap {"apparmor", "seccomp"})

\* createContainer: the walls are looked for again, and a missing gVisor only
\* counts when it is required.
Create ==
  /\ step = "create"
  /\ \E gvisor \in DetectGvisor, profiles \in SecurityOpts :
       \/ /\ gvisor \/ ~RequireGvisor
          /\ image # "none"
          /\ box' = [image |-> image, others |-> others, writable |-> "write" \in opts,
                     walls |-> profiles \cup (IF gvisor THEN {"gvisor"} ELSE {})]
          /\ Go("started")
       \/ Stop("throw") /\ UNCHANGED box
  /\ UNCHANGED <<host, imageVars, scanVars, opts, saved, seen, client>>

\* Other sessions live at the same time.
Meanwhile ==
  /\ step \in {"image", "gate", "start", "create"} /\ OtherSession
  /\ UNCHANGED <<scanVars, opts, saved, step, seen, client, box, ended>>

Next ==
  \/ Preflight \/ Image \/ Gate \/ Credentials \/ SovGuardGate \/ Prescan \/ Create
  \/ Meanwhile

Spec == Init /\ [][Next]_startVars

-----------------------------------------------------------------------------
Started == box # NoBox

TypeOK ==
  /\ ImageTypeOK /\ ScanTypeOK
  /\ saved \subseteq {"key", "enc", "bad-enc"}
  /\ step \in {"preflight", "image", "gate", "credentials", "sovguard", "prescan", "start",
               "create", "started", "stopped"}
  /\ seen \subseteq {"gvisor", "apparmor", "seccomp"}
  /\ client \in {"none", "plain", "encrypted"}
  /\ ended \in {"no", "exit0", "exit1", "throw"}
  /\ Started <=> step = "started"

\* No timeout, broken build or stale image puts a session into an image without
\* bubblewrap; only another session that moves the tag between the second
\* verification and createContainer can (docker.ts, ensureHardenedImage).
SandboxHasBwrap == Started /\ ~box.others => box.image = "good"

\* On Linux a container lacks the kernel wall only if --insecure was given, and
\* no --strict, or if gVisor was detected at the gate, was not when the container
\* was created, and was not required (docker.ts detects it twice).  With --strict
\* the gate saw every layer.
WallsAsPromised ==
  Started =>
    /\ "linux" \in host /\ "gvisor" \notin box.walls =>
         \/ "insecure" \in opts /\ "strict" \notin opts
         \/ "gvisor" \in seen /\ "require-gvisor" \notin opts
    /\ "require-gvisor" \in opts => "gvisor" \in box.walls
    /\ "strict" \in opts => Full(seen)

\* The container gets a writable project only in a session that scans its writes
\* or whose buyer opted out of scanning (cli.ts, the SovGuard gate).
WritesAreScanned ==
  Started /\ box.writable => client # "none" \/ "no-sovguard" \in opts

\* Why they hold: what the gates let pass stays true until the container is
\* created, and only another session moves an image that was verified.
StartInv ==
  /\ Started <=> step = "started"
  /\ step \in {"credentials", "sovguard", "prescan", "start", "create"} => Passes(seen)
  /\ step \in {"prescan", "start", "create"} => MayServe
  /\ imageAt = "ready" \/ step = "create" => others \/ image = "good"
  /\ (ended = "no") <=> (step # "stopped")
  /\ SandboxHasBwrap /\ WallsAsPromised /\ WritesAreScanned

\* The scan waits for the gates, so that its exclusions are those of this run.
ScanWaits ==
  step \in {"preflight", "image", "gate", "credentials", "sovguard"} => scanAt = "idle"

-----------------------------------------------------------------------------
(* The startup implements the first steps of Lifecycle: what it does before *)
(* the container, it does without a container, and it leaves by exit or by  *)
(* the one catch, which cleans up.                                          *)

Threw == ended = "throw"

ProcessStep ==
  CASE step = "stopped" -> "over"
    [] step = "started" -> "starting"
    [] step \in {"start", "create"} -> "creating"
    [] OTHER -> "gates"

ProcessExit ==
  CASE ended = "no" -> "none"
    [] ended = "exit0" -> "0"
    [] OTHER -> "1"

Process == INSTANCE Lifecycle WITH
  Docker    <- {},
  step      <- ProcessStep,
  container <- IF Started THEN "created" ELSE "none",
  handle    <- Started,
  stopping  <- IF Threw THEN "over" ELSE "no",
  code      <- "0",
  relay     <- IF Threw THEN "closed" ELSE "none",
  log       <- IF Threw THEN "local" ELSE "open",
  signals   <- 0,
  refused   <- {},
  causes    <- IF Threw THEN {"error"} ELSE {},
  leaving   <- "no",
  exit      <- ProcessExit

\* Every behaviour of the startup is one of the process: no check, prompt or
\* failure before createContainer leaves a container, a relay or an open log.
ImplementsLifecycle == Process!Spec
================================================================================
