------------------------------- MODULE Lifecycle -------------------------------
(***************************************************************************)
(* The process of a session (src/cli.ts, run; src/docker.ts, start, stop   *)
(* and onContainerExit; src/relay-client.ts): the startup, which creates   *)
(* and starts the container and connects the relay, and the many callers   *)
(* of cleanup, which race with the startup, with each other, with what     *)
(* Docker does and with the loss of the relay's transport.                 *)
(*                                                                         *)
(* cleanup runs its synchronous half at once and then awaits docker.stop.  *)
(* Only the first caller does so: every later one returns immediately and  *)
(* exits the process with its own code.                                    *)
(***************************************************************************)
EXTENDS Naturals

CONSTANT Docker  \* the Docker requests that may fail: any of "stop", "remove", "rm"

ASSUME LifecycleAssumption == Docker \subseteq {"stop", "remove", "rm"}

VARIABLES
  step,       \* where the startup is
  container,  \* the session's container, as Docker has it
  handle,     \* docker.container is not null
  stopping,   \* where the first caller's docker.stop is; "no" before cleanup
  code,       \* the exit code the first caller of cleanup will use
  relay,      \* "none", "up", "down" (reconnecting) or "lost"; after cleanup
              \* "closed", "cut" (it was not up), or "late" (opened after it)
  log,        \* the audit log: "open", "sent" to the relay or "local"
  signals,    \* signalCount, up to 2
  refused,    \* the requests Docker failed
  causes,     \* why the session ends
  leaving,    \* the code it will exit with once `docker rm -f` returns, or "no"
  exit        \* the process's exit code, "none" until it exits

vars == <<step, container, handle, stopping, code, relay, log, signals, refused,
          causes, leaving, exit>>

Init ==
  /\ step = "gates"
  /\ container = "none" /\ handle = FALSE
  /\ stopping = "no" /\ code = "0"
  /\ relay = "none" /\ log = "open"
  /\ signals = 0
  /\ refused = {} /\ causes = {}
  /\ leaving = "no" /\ exit = "none"

Gone == exit # "none"

\* The event loop runs.  A synchronous `docker rm -f` (execSync without a
\* timeout) blocks it until Docker answers.
Alive == ~Gone /\ leaving = "no"

-----------------------------------------------------------------------------
(* Ending the process.                                                     *)

\* Mutant: the process exits without looking at the container.
ExitBare(n) == exit' = n /\ UNCHANGED leaving

\* process.exit: the 'exit' listener removes a container that has a handle.
ExitWith(n) ==
  \/ handle /\ leaving' = n /\ UNCHANGED exit
  \/ ~handle /\ exit' = n /\ UNCHANGED leaving

\* `docker rm -f` returns: it may have failed, silently.
RmReturns ==
  /\ ~Gone /\ leaving # "no"
  /\ \/ container' = (IF container = "none" THEN "none" ELSE "removed") /\ UNCHANGED refused
     \/ "rm" \in Docker /\ refused' = refused \cup {"rm"} /\ UNCHANGED container
  /\ exit' = leaving
  /\ UNCHANGED <<step, handle, stopping, code, relay, log, signals, causes, leaving>>

\* Mutant: cleanup disconnects the relay before it sends the log.
CloseDownLate(transport) ==
  /\ log' = "local"
  /\ relay' = "closed"

\* What cleanup makes of a relay that is or is not connected.
Disconnected(transport) == IF transport \in {"down", "lost"} THEN "cut" ELSE "closed"

\* The synchronous half of cleanup: send the log, disconnect.  What is emitted
\* while the transport is down is buffered, and dropped by the disconnect.
CloseDown(transport) ==
  /\ log' = IF transport = "up" THEN "sent" ELSE "local"
  /\ relay' = Disconnected(transport)

\* cleanup().then(() => process.exit(n)), by any caller.  Without a container
\* docker.stop returns at once; after the first caller cleanup does.
EndOver(transport, n) ==
  /\ \/ /\ stopping # "no"
        /\ ExitWith(n)
        /\ UNCHANGED <<stopping, code, relay, log>>
     \/ /\ stopping = "no" /\ ~handle
        /\ CloseDown(transport) /\ ExitWith(n)
        /\ stopping' = "over" /\ UNCHANGED code
     \/ /\ stopping = "no" /\ handle
        /\ CloseDown(transport)
        /\ stopping' = "inspect" /\ code' = n
        /\ UNCHANGED <<leaving, exit>>
  /\ UNCHANGED <<container, handle, refused>>

EndBy(n) == EndOver(relay, n)

\* docker.stop asks whether the container runs ...
Inspect ==
  /\ Alive /\ stopping = "inspect"
  /\ stopping' = IF container = "running" THEN "stop" ELSE "remove"
  /\ UNCHANGED <<step, container, handle, code, relay, log, signals, refused, causes,
                 leaving, exit>>

\* ... stops it (Docker first, its response after) ...
DockerStops ==
  /\ stopping = "stop" /\ container = "running"
  /\ container' = "exited"
  /\ UNCHANGED <<step, handle, stopping, code, relay, log, signals, refused, causes, leaving, exit>>

StopReturns ==
  /\ Alive /\ stopping = "stop"
  /\ \/ container # "running" /\ UNCHANGED refused
     \/ "stop" \in Docker /\ refused' = refused \cup {"stop"}
  /\ stopping' = "remove"
  /\ UNCHANGED <<step, container, handle, code, relay, log, signals, causes, leaving, exit>>

\* ... removes it, forgets it, and lets the first caller exit.
RemoveReturns ==
  /\ Alive /\ stopping = "remove"
  /\ \/ container' = "removed" /\ UNCHANGED refused
     \/ "remove" \in Docker /\ refused' = refused \cup {"remove"} /\ UNCHANGED container
  /\ handle' = FALSE
  /\ stopping' = "over"
  /\ exit' = code
  /\ UNCHANGED <<step, code, relay, log, signals, causes, leaving>>

-----------------------------------------------------------------------------
(* The startup.                                                            *)

Goto(s) == step' = s /\ UNCHANGED <<signals, causes>>

\* The catch of run: cleanup and exit(1).
StartupThrows ==
  /\ Alive /\ step \notin {"serving", "over"}
  /\ step' = "over" /\ causes' = causes \cup {"error"} /\ UNCHANGED signals
  /\ EndBy("1")

\* The checks, the image, the credentials and the pre-scan: they go on, or
\* exit by themselves, before there is anything to clean up.
Gates ==
  /\ Alive /\ step = "gates"
  /\ \/ Goto("creating") /\ UNCHANGED exit
     \/ Goto("over") /\ exit' \in {"0", "1"}
  /\ UNCHANGED <<container, handle, stopping, code, relay, log, refused, leaving>>

\* createContainer returns.
Create ==
  /\ Alive /\ step = "creating"
  /\ Goto("starting")
  /\ container' = "created" /\ handle' = TRUE
  /\ UNCHANGED <<stopping, code, relay, log, refused, leaving, exit>>

\* Docker creates the container of a process that exited meanwhile.
CreateLate ==
  /\ Gone /\ step = "creating"
  /\ Goto("over")
  /\ container' = "created"
  /\ UNCHANGED <<handle, stopping, code, relay, log, refused, leaving, exit>>

\* attach and start succeed; onContainerExit is installed.
Start ==
  /\ Alive /\ step = "starting"
  /\ handle /\ container = "created"
  /\ container' = "running"
  /\ Goto("initializing")
  /\ UNCHANGED <<handle, stopping, code, relay, log, refused, leaving, exit>>

\* The MCP server answers 'initialize'.
Initialize ==
  /\ Alive /\ step = "initializing"
  /\ Goto("connecting")
  /\ UNCHANGED <<container, handle, stopping, code, relay, log, refused, leaving, exit>>

\* The relay connects, also when cleanup has begun.
Connect ==
  /\ Alive /\ step = "connecting"
  /\ Goto("serving")
  /\ relay' = IF stopping = "no" THEN "up" ELSE "late"
  /\ UNCHANGED <<container, handle, stopping, code, log, refused, leaving, exit>>

-----------------------------------------------------------------------------
(* The callers of cleanup, besides the startup's catch.                    *)

Because(cause) == causes' = causes \cup {cause}

\* The relay says the session is over (0), or reports an error (1).
SessionEnded ==
  /\ Alive /\ step = "serving" /\ relay \in {"up", "late"}
  /\ Because("session_ended") /\ EndBy("0")
  /\ UNCHANGED <<step, signals>>

RelayFails ==
  /\ Alive /\ step = "serving" /\ relay \in {"up", "late"}
  /\ Because("error") /\ EndBy("1")
  /\ UNCHANGED <<step, signals>>

\* The server disconnects the client, which does not reconnect.
ServerKicks ==
  /\ Alive /\ step = "serving" /\ relay \in {"up", "late"}
  /\ Because("error") /\ EndOver("lost", "1")
  /\ UNCHANGED <<step, signals>>

\* The transport fails; the library tries to connect again, five times.
TransportDrops ==
  /\ Alive /\ step = "serving" /\ relay = "up" /\ relay' = "down"
  /\ UNCHANGED <<step, container, handle, stopping, code, log, signals, refused, causes,
                 leaving, exit>>

Reconnects ==
  /\ Alive /\ relay = "down" /\ relay' = "up"
  /\ UNCHANGED <<step, container, handle, stopping, code, log, signals, refused, causes,
                 leaving, exit>>

\* It gives up.  Whether 'reconnect_failed' reaches the socket's listener is up
\* to the library's version; when it does not, nobody notices.
GivesUp ==
  /\ Alive /\ relay = "down"
  /\ \/ Because("error") /\ EndBy("1")
     \/ /\ relay' = "lost"
        /\ UNCHANGED <<container, handle, stopping, code, log, refused, causes, leaving, exit>>
  /\ UNCHANGED <<step, signals>>

\* Mutant: only a connected session is timed.
TimedWhileUp == stopping = "no" /\ relay = "up"

\* dispose stops the timer; one that is set after cleanup stays.
Timed == stopping = "no" \/ relay = "late"

\* The duration is over (limiter.startAutoKill).
Expire ==
  /\ Alive /\ step = "serving" /\ Timed
  /\ Because("expired") /\ EndBy("0")
  /\ UNCHANGED <<step, signals>>

\* uncaughtException, or the container's stdout overflows its buffer.
Fault ==
  /\ Alive
  /\ Because("error") /\ EndBy("1")
  /\ UNCHANGED <<step, signals>>

\* The container exits by itself.
ContainerDies ==
  /\ container = "running" /\ container' = "exited"
  /\ Because("error")
  /\ UNCHANGED <<step, handle, stopping, code, relay, log, signals, refused, leaving, exit>>

\* onContainerExit's callback: whoever stopped the container.
ContainerExitSeen ==
  /\ Alive /\ step \in {"initializing", "connecting", "serving"}
  /\ container \in {"exited", "removed"}
  /\ EndBy("1")
  /\ UNCHANGED <<step, signals, causes>>

\* Mutant: a forced exit does not wait for `docker rm -f`, and goes on.
ForceExitWaits ==
  UNCHANGED <<container, handle, refused, stopping, code, relay, log, leaving, exit>>

\* A forced exit: `docker rm -f` and exit, without waiting for cleanup (which is
\* at docker.stop, so there is a container).
ForceExit ==
  /\ leaving' = "1"
  /\ UNCHANGED <<container, handle, refused, stopping, code, relay, log, exit>>

\* SIGINT, SIGTERM or SIGHUP: the first cleans up, the second forces.
Signal ==
  /\ Alive /\ signals' = signals + 1
  /\ Because("signal")
  /\ \/ signals = 0 /\ EndBy("0")
     \/ signals > 0 /\ ForceExit
  /\ UNCHANGED step

\* Mutant: the timeout is only armed while Docker has not been asked to stop.
TimeoutGuardEarly == signals = 1 /\ stopping = "inspect"

\* A signal's cleanup is still waiting for Docker.
TimeoutGuard == signals = 1

\* 10 seconds after the first signal.
CleanupTimeout ==
  /\ Alive /\ TimeoutGuard
  /\ ForceExit
  /\ UNCHANGED <<step, signals, causes>>

Next ==
  \/ Gates \/ Create \/ CreateLate \/ Start \/ Initialize \/ Connect \/ StartupThrows
  \/ Inspect \/ DockerStops \/ StopReturns \/ RemoveReturns
  \/ SessionEnded \/ RelayFails \/ ServerKicks \/ TransportDrops \/ Reconnects \/ GivesUp
  \/ Expire \/ Fault \/ ContainerDies \/ ContainerExitSeen
  \/ Signal \/ CleanupTimeout \/ RmReturns

Spec == Init /\ [][Next]_vars

\* Timers fire.  Docker, the relay and the startup owe nothing.
FairSpec == Spec /\ WF_vars(CleanupTimeout) /\ WF_vars(Expire)

-----------------------------------------------------------------------------
TypeOK ==
  /\ step \in {"gates", "creating", "starting", "initializing", "connecting",
               "serving", "over"}
  /\ container \in {"none", "created", "running", "exited", "removed"}
  /\ handle \in BOOLEAN
  /\ stopping \in {"no", "inspect", "stop", "remove", "over"}
  /\ code \in {"0", "1"}
  /\ relay \in {"none", "up", "down", "lost", "closed", "cut", "late"}
  /\ log \in {"open", "sent", "local"}
  /\ signals \in 0..2
  /\ refused \subseteq Docker
  /\ causes \subseteq {"session_ended", "error", "signal", "expired"}
  /\ leaving \in {"no", "0", "1"}
  /\ exit \in {"none", "0", "1"}

\* However the callers of cleanup race, the process leaves no container behind
\* that it has ever held, running or not, unless Docker failed to remove it
\* (docker.stop, the 'exit' listener and the forced exits share that duty).
NothingLeft ==
  Gone /\ container \in {"created", "running", "exited"} =>
    \/ refused \cap {"remove", "rm"} # {}
    \/ container = "created" /\ ~handle

\* However a session that served ends, also by force, its audit log was sent
\* before the relay was disconnected, unless the relay was not connected then
\* (cleanup runs before every exit).
LogSent ==
  ~Alive => /\ relay \notin {"up", "down", "lost"}
            /\ step = "serving" /\ relay = "closed" => log = "sent"

\* `docker rm -f` returns.
RmAnswers == WF_vars(RmReturns)

\* A first signal ends the process even when Docker never answers docker.stop,
\* whatever else ends or fails meanwhile, provided `docker rm -f` returns: it runs
\* synchronously, before the forced exits and in the 'exit' listener.
SignalEnds == RmAnswers => (signals > 0 ~> Gone)

\* Docker answers what docker.stop asks of it, and `docker rm -f`.
DockerAnswers ==
  /\ WF_vars(Inspect) /\ WF_vars(DockerStops)
  /\ WF_vars(StopReturns) /\ WF_vars(RemoveReturns)
  /\ RmAnswers

\* A session ends when its time is over, also when the relay was lost without a
\* word, provided Docker answers (session-limiter.ts, startAutoKill): the timer
\* is the only one of the callers of cleanup that must come.
SessionEnds == DockerAnswers => (step = "serving" ~> Gone)

\* Why: a live process has no container without a handle, none before it asked
\* for one, and stops only a container it holds (LifecycleProofs).
HandleInv ==
  /\ code \in {"0", "1"}
  /\ Alive /\ stopping \in {"inspect", "stop", "remove"} => handle
  /\ Alive /\ ~handle => container = "none"
  /\ step \in {"gates", "creating"} => ~handle /\ container = "none"
  /\ NothingLeft

\* A process that lives has had at most one signal.
TypeInv == TypeOK /\ (Alive => signals <= 1)

\* Why LogSent holds: until cleanup begins the relay is as the transport left
\* it, and the process cannot be forced to exit; from then on it is closed, but
\* for a connection the startup opened late.
RelayInv ==
  /\ stopping = "no" => relay \in {"none", "up", "down", "lost"} /\ signals = 0
  /\ stopping # "no" => relay \in {"closed", "cut", "late"}
  /\ relay \in {"up", "down", "lost"} => Alive
  /\ step \notin {"serving", "over"} => relay \notin {"up", "down", "lost"}
  /\ step = "serving" => relay # "none"
  /\ step = "serving" /\ relay = "closed" => log = "sent"

\* docs/backend-requests/relay-session-ended-request.md: when the platform ends
\* the session the CLI "exits cleanly with code 0".
ExitsCleanly == Gone /\ causes = {"session_ended"} => exit = "0"
================================================================================
