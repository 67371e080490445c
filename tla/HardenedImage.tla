----------------------------- MODULE HardenedImage -----------------------------
(***************************************************************************)
(* The sandbox image (src/docker.ts, ensureHardenedImage): built when it   *)
(* is missing or broken, and verified to hold bubblewrap before use.  The  *)
(* image's tag is shared by all sessions of the machine, each of which may *)
(* drop it or build it again at any time.                                  *)
(*                                                                         *)
(* Every question to Docker has a timeout, and a timeout reads as "no".    *)
(***************************************************************************)
VARIABLES
  host,     \* what the machine is and has: "linux", "runsc", "apparmor", ...
  image,    \* what the tag names: "none", "broken" (no bubblewrap) or "good"
  imageAt,  \* where ensureHardenedImage is
  others    \* another session touched the tag since this one verified it

imageVars == <<image, imageAt, others>>

ImageInit ==
  /\ image \in {"none", "broken", "good"}
  /\ imageAt = "idle"
  /\ others = FALSE

\* detectGvisorRuntime, with Docker's timeouts.
DetectGvisor == IF "runsc" \in host THEN BOOLEAN ELSE {FALSE}

\* The image is there and works; or not, or Docker was too slow to tell.
CheckImage ==
  /\ imageAt = "check"
  /\ \/ image = "good" /\ imageAt' = "ready" /\ others' = FALSE
     \/ imageAt' = "drop" /\ UNCHANGED others
  /\ UNCHANGED <<host, image>>

\* docker rmi -f, if Docker says it is there; failures are ignored.
DropImage ==
  /\ imageAt = "drop" /\ imageAt' = "build"
  /\ image' \in {image, "none"}
  /\ UNCHANGED <<host, others>>

\* With gVisor the image is committed under runc.  `docker build` under gVisor,
\* when it was not detected, may drop the binary.
BuildImage ==
  /\ imageAt = "build"
  /\ \/ /\ \E gvisor \in DetectGvisor :
             image' \in IF "runsc" \in host /\ ~gvisor THEN {"good", "broken"} ELSE {"good"}
        /\ imageAt' = "verify"
     \/ imageAt' = "failed" /\ UNCHANGED image
  /\ UNCHANGED <<host, others>>

\* Mutant: the gate is content with an image of that name.
ImageExists == image # "none"

\* docker run /usr/bin/bwrap --version
ImageHasBwrap == image = "good"

\* The hard gate; Docker may also be too slow.
VerifyImage ==
  /\ imageAt = "verify"
  /\ \/ ImageHasBwrap /\ imageAt' = "ready" /\ others' = FALSE
     \/ imageAt' = "failed" /\ UNCHANGED others
  /\ UNCHANGED <<host, image>>

\* Another session is in its own ensureHardenedImage.
OtherSession ==
  /\ image' \in {"none", "broken", "good"} \ {image}
  /\ others' = TRUE
  /\ UNCHANGED <<host, imageAt>>

EnsureHardenedImage == CheckImage \/ DropImage \/ BuildImage \/ VerifyImage

ImageTypeOK ==
  /\ image \in {"none", "broken", "good"}
  /\ imageAt \in {"idle", "check", "drop", "build", "verify", "ready", "failed"}
  /\ others \in BOOLEAN
================================================================================
