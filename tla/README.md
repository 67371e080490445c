# Verification of j41-jailbox

j41-jailbox lets a remote agent work in a buyer's project directory: a CLI process
(`src/src/cli.ts`) connects to a platform relay, receives the agent's MCP calls, checks
them, asks the buyer or a scanning service (SovGuard) about writes, has a Docker container
carry them out, answers the agent, and keeps a signed audit log. This directory models
that process in TLA+, checks it with TLC and proves what matters most with TLAPS.

The code is a single Node process, but hardly sequential: every call of the agent runs a
handler that is suspended at awaits (the buyer's prompts, the scan, the container's reply)
while other handlers, timers, signals and events run, and all share one readline, one set
of counters, one container and one `cleanup`. Other sessions of the same user share the
image and the report file. That is where the models look.

## Inventory

| Component | State | Operations | Interaction | What makes it correct |
|---|---|---|---|---|
| Supervisor (`supervisor.ts`) | input state, two resolvers, the promise chain of write prompts | `promptWriteApproval`, `promptSovguardApproval`, `promptSovguardFailure`, the `line` handler, `close` | awaited by mcp:call handlers, driven by stdin | no approval lost, answers fit and reach the prompt on screen, every prompt settles |
| MCP call pipeline (`cli.ts`, section 6) | per-call position; transferred bytes; last flagged write | the `mcp:call` handler, `callMcpServer`, the stdout reader, `handleReportCommand` | relay events in, results out; limiter, supervisor, SovGuard, container | nothing unvetted lands; the agent and the log are told what happened; every call is answered |
| Session limiter (`session-limiter.ts`) | read and write counts, start time, timer | `canRead/Write`, `recordRead/Write`, auto-kill | read before and written after the handler's awaits | limits hold, or are exceeded by a known amount |
| SovGuard client (`sovguard.ts`) | failure count, disabled flag, token bucket, report file | `scanContent`, `disable`, `queueReport`, `flushReports` | HTTP; a file shared by sessions | fail-secure; reports neither lost nor sent twice |
| Startup gates (`cli.ts`, sections 1-5) | options, isolation layers, SovGuard client | root, setup and quick checks, image, isolation gate, credentials, SovGuard gate, pre-scan, container | asks Docker, the config file and the buyer, one after the other | what a gate let pass still holds when the container is created; no way out leaves anything behind |
| Docker manager (`docker.ts`) | container handle and name; the image's tag | `ensureHardenedImage`, `start`, `onContainerExit`, `stop` | Docker daemon; called by startup, cleanup, signals | no container outlives the process |
| MCP server (`mcp-server.ts`) | the project's files | `list_directory`, `read_file`, `write_file` | one request per line on stdin, one reply on stdout | answers every request, stays in its root |
| Relay client (`relay-client.ts`) | socket, keepalive timer, callbacks | `connect`, `send...`, `disconnect`, events | the platform | calls and ends reach the session |
| Audit log (`audit-log.ts`) | entries, key pair | `record`, `verifyChain`, `exportLog` | written by handlers, exported by cleanup | complete, truthful, chained |
| Process lifecycle (`cli.ts`) | startup position, `cleanedUp`, `signalCount` | startup, `cleanup`, signal handlers, exit | calls everything else | ends, with the right code, leaving nothing behind |
| Pre-scan, exclusions (`pre-scan.ts`, `sensitive-paths.ts`) | the exclusion list, the editor's marks | `preScan`, `walkDir`, the prompts and the editor, `isExcluded` | before the session, with SovGuard and the buyer | what was found stays excluded unless the buyer said otherwise |
| Config (`config.ts`) | the credentials file | read, write, merge | before the session | what is saved is what is read |
| CLI program, doctor, feed, types | none | parsing, printing | - | - |

Hard behaviours: overlapping calls (interleaving at awaits), lines typed ahead, timeouts
that race with late replies, a scan service that fails, `cleanup` entered from a dozen
places while the startup or other handlers go on, Docker requests that fail or hang, and
the process's end between an operation and its record. `PROJECT.json` lists each hazard at
its line, with the properties that cover it or the reason why none does.

## Modules

| Module | Role |
|---|---|
| `Approvals` | abstract: a first-come-first-served approval service |
| `Supervisor` | `supervisor.ts`; refines `Approvals` |
| `CallService` | abstract: calls that are done at most once and settled at most once, truthfully |
| `Session` | the mcp:call handler with limiter, SovGuard outcomes, container, log and cleanup; EXTENDS `Supervisor` and uses its actions; refines `CallService` |
| `Lifecycle` | the process: startup, relay transport, cleanup and its callers, container, signals, exit codes |
| `HardenedImage` | `ensureHardenedImage` and the image's tag, which other sessions may move |
| `PreScan` | `preScan`: walk, scan, prompts, exclusion editor |
| `Startup` | the gates from the first check to `createContainer`; EXTENDS `HardenedImage` and `PreScan`, refines `Lifecycle` |
| `ReportQueue` | the file of queued reports: append, purge, flush, by several sessions, with crashes |
| `RateLimiter` | the token bucket before every scan |
| `StdoutReader` | the reader that cuts the container's stdout into replies |
| `SessionProofs`, `CallProofs`, `LimitProofs` | theorems about `Session`: types and prompts; vetting, truth, reports and the refinement; counters and limits |
| `SovGuardProofs`, `PartsProofs` | theorems about `ReportQueue` and `RateLimiter`; about `StdoutReader` and the parts together |
| other `...Proofs` | theorems about `Supervisor`, `Lifecycle`, `Startup` |
| `MCSupervisor`, `MCSession`, `MCLifecycle`, `MCStartup`, `MCParts` | instances for TLC; `MCParts` holds the last three components, one at a time |

Definitions whose comment begins with "Mutant" belong to no specification: each is a
plausible bug that a property must detect (`PROJECT.json`, `mutants`).

### Supervisor

A prompt is a promise. `awaiting[c]` says what the handler of call `c` is suspended on and
`answer[c]` what its promise was settled with before the handler resumed; the step between
the two exists in Node because several lines of one stdin chunk are dispatched before any
continuation runs. `approvalQueue` are the links of the promise chain that have not run,
`showing` the one that holds the chain, `pendingResolve` and `pendingSovguardResolve` the
two resolver fields as the call they settle. The line handler is split by state:
`LineAbort`, `AnswerWrite`, `AnswerSovguard`; synonyms (`yes`, `no`, `disable`) are dropped
and lines that reach no resolver leave the module's state alone. `PromptThrows` is the
diff computation failing, which rejects the chain for good. `CanShow` waits until every
settled promise has been consumed: the released handler's continuation is queued before
the chain's next link.

`ImplementsApprovals` maps the promise chain to the abstract line of requests: approvals
settle in the order they were asked and each once, whatever SovGuard prompts and aborts
come in between.

### Session

`pc[c]` is the await the handler of `c` is suspended at; between two awaits a handler is
one step, as in Node. `Arrive` is everything up to the first await: permission, scope and
exclusions (one flag, `forbidden`), the transfer, read and write limits, the sensitive-path
entry, then the write prompt, the scan, or the container. `AfterApproval` and
`AfterSovguard` resume from the buyer's decisions (oversized, unreachable, failing and
flagged writes are four positions because their rejections differ: a rejected failure
prompt ends the session). `ScanReturns` is `scanContent`'s outcome; its good status comes
in a step of its own, because it resets the failure count that all scans share before the
body is read. A failed scan is two steps as well, `ScanFails`, which raises that count,
and `AfterFailure`, which tests it when the handler resumes: other scans come in between,
and the test sees their count. `ContainerExecutes` answers requests in order; a write may fail after it
changed the file (`partial`). `McpReply` and `McpTimeout` race; a late reply finds no
pending request. `EndSession` stands for every caller of `cleanup` outside the handler;
`Lifecycle` tells them apart. A throw out of a handler or a prompt is an unhandled
rejection, which Node raises as an uncaught exception, whose listener calls `cleanup`
(`ScanUnauthorized`, `PromptThrows` in `PromptNext`).

Abstractions: a request is its tool and three flags; a reply is success or not; one unit is
transferred per read or write; `failures` counts up to the threshold; the audit entry of an
operation is `sensitive`, `done` or `blocked`. `typed` and `verdict` are history: what the
buyer answered for a call, at which prompt, and what SovGuard last said of it.

`NoUnvettedWrite` counts as the buyer's permission what he answers at a prompt that offers
to allow the write: an oversized, unreachable or flagged one. The prompt of a failing
SovGuard offers no such thing, "[R]etry / [D]isable scanning / [A]bort session", and there
the property has an exception that it names: `retry` comes out as `approve`, and the
handler goes on to the container. That this is not what the prompt says is
`RetryScansAgain`, which `session_retry` shows violated.

`ImplementsCallService` forgets the handlers: of a call there is left what the container
did of it (`executed`), how it was settled (`Fate`, read off the log and, where nothing was
logged, off the refusal) and what the agent was told (`results`). Whatever prompts, scans,
timeouts, late replies and ends of the session come, a call is done at most once and
settled at most once, a success is only declared of what was done, and nothing is done of
what was refused. A call declared failed may have been done, or be done later: that is what
a timeout of `callMcpServer` leaves open, and the abstract service says so.
`OperationsLogged` is what is left of the log's completeness: rejected and scan-blocked
writes are answered without an entry, but no call is that the container does, did or will
do something for. `OnlyFlaggedReported` is about `lastFlaggedWrite`, one slot that any
flagged write fills and any report empties, next to the prompt of each flagged write.
`CountsMatchLog` relates the session's counters to its log: they count the operations that
the log calls done. `OvershootBounded` says by how much calls in flight together may exceed
each limit.

### Lifecycle

The startup is a sequence of positions, `cleanup` a synchronous half (`CloseDown`) and
`docker.stop` in steps that interleave with Docker's own. `EndBy(n)` is
`cleanup().then(() => process.exit(n))`: only the first caller waits, later ones exit at
once. A process that holds a container leaves in two steps. Before the forced exits and in
the `exit` listener (`cli.ts:302`, `314`, `337`) it runs a synchronous `docker rm -f`
without a timeout: from then on (`leaving`) the event loop is blocked, and only when Docker
answers (`RmReturns`) does the process exit. Docker may refuse any request of the constant
`Docker`. `relay` is the transport: it may drop, come back, or be
given up by the library (`TransportDrops`, `Reconnects`, `GivesUp`), and the server may
disconnect the client for good (`ServerKicks`). `reconnect_failed` is listened for on the
socket, where the library's manager may not emit it, so `GivesUp` may pass unnoticed. A
connection the startup opens after `cleanup` has begun is `late`: nobody closes it before
the exit, and its timer (`Timed`) is not disposed of. A container created after the process
died (`CreateLate`) is the one leftover `NothingLeft` admits: nobody holds a handle to it.

### Startup, HardenedImage, PreScan

`Startup` is `run` up to the container. `host` is what the machine has, `opts` the command
line and environment, `saved` the config file's lines. Docker's answers are those its
timeouts allow: what is there may not be seen (`DetectGvisor`, `CheckImage`), what is not
there never is. `Gate` and `Create` detect gVisor separately, as the code does, and the
image is ensured twice; between the second verification and `createContainer`, and at any
other time, another session may move the tag (`Meanwhile`; `others` remembers it).
`Credentials` is `resolveCredentials`, or the first-run prompt and what it saves.
`Stop(how)` is every way out: `process.exit`, or the throw that reaches `run`'s catch.

`ImplementsLifecycle` maps the startup to the first steps of `Lifecycle`: its gates are
`Gates`, `createContainer` is `Create`, and its throws are `StartupThrows`. It is what
allows `Lifecycle` to keep one step for all gates.

`PreScan` scans the files in any order, may lose any answer, and stops scanning at a 401.
The editor toggles the item under its cursor; ENTER resolves with a new array of the
marked items, ESC and `q` with the array of exclusions itself. `Replaced` is what `preScan`
does with the result: it empties that array in place and pushes the result back, so that
after ESC nothing is left. `ExclusionsHonest` therefore speaks of buyers who did not cancel
the editor (`cancelled`), and `CancelKeeps` of those who did.
A file is a model value in one of three classes; how a name gets into a class is string
matching and left out.

### ReportQueue, RateLimiter, StdoutReader

`ReportQueue` splits every rewrite of the file into the read, the truncation and the write,
because other processes append in between and a crash may cut the write short. So may an
error of `writeFileSync`, which the code swallows (`RewriteFails`): when the file cannot be
opened it stays as it was, when the write fails part of it is there, and the session goes
on. `quiet` are
the reports queued while no session was flushing and no rewrite was cut short, for which
`QuietReportSurvives` promises delivery or a place in the file. Others can be lost: a report appended while a second
session flushes is overwritten by the first's rewrite. `settled` are the reports the server
confirmed to a session that flushed alone and came to empty the file;
`ConfirmedNotResent` says that nobody has them to send again. Others are sent twice: a
second session that flushes has read the same lines, and after a crash or a rewrite that
could not open the file they are still there. Two sessions at once are legal, each has a container of its own. (The comment on `flushReports` says that it purges last; the code
purges first, which is what the model does.)

`RateLimiter` counts a token in the milliseconds it takes to refill, so that the code's
fractions are integers. `AcquireLater` computes the wait from the debt; `Wake` takes the
token without looking. `since` is the start of an arbitrary window, fixed from the outset,
in which `granted` counts. The advertised 10 scans a second with a burst of 20 can be
exceeded by one for every other caller, and by no more (`RateBounded`).

`StdoutReader` has characters of one and two bytes, chunks of any length, and a cap in
decoded characters. Bytes, replies and lines are known by their places in the stream:
decoding keeps places (a two-byte character is `e` and a `void` that counts for nothing),
`got` holds each line with the place of its newline, and `torn` the places where a chunk
ended inside a character. `LastNewline` is `split('\n')` as the reader uses it: it cuts
lines and leaves the rest. `LinesIntact` says exactly which replies come out wrong: those that a
chunk's end cuts inside a character. `NoEarlyOverflow` says how close to the cap a reply
must come to end the session.

## Runs

| Run | Instance | Result |
|---|---|---|
| `supervisor` | 3 calls, both SovGuard prompts, all three waiting at once | safety, the refinement, and every prompt that no other covers settles |
| `supervisor_overlap` | 2 calls, SovGuard prompts | **violated**: an overlapping SovGuard prompt strands a call |
| `session_supervised` | 2 calls of 4 kinds of requests, supervised, SovGuard, limits and threshold of 1 | vetting, truthful answers, a truthful log that no operation escapes, reports of flagged writes only; the handlers implement `CallService` |
| `session_standard` | 3 reads and writes, 2 in flight, standard, SovGuard, limits of 1, threshold 2 | fail-secure gate, counters that match the log, bounded overshoot of every limit, every call answered |
| `session_retry` | 1 write, supervised, SovGuard, threshold 1 | **violated**: a retried write is carried out unscanned |
| `session_limit` | 2 writes in flight, limit 1 | **violated**: two writes counted |
| `session_export` | 1 write | **violated**: a write that landed during cleanup is not in the exported log |
| `lifecycle` | one process, every Docker request may fail | nothing left, log sent, signals end the process if `docker rm -f` returns, a session ends when its time is over |
| `lifecycle_exit` | Docker does all it is asked | **violated**: exit code 1 after `session_ended` |
| `startup` | 11 machines, 24 command lines, 4 files, Docker timeouts, other sessions | bubblewrap, walls, scanning and, unless the editor was cancelled, exclusions are as the gates promised; the startup implements `Lifecycle` |
| `startup_cancel` | 2 files, the editor | **violated**: cancelling the editor empties the list of exclusions |
| `parts` | 2 sessions and 2 reports; 3 callers, 2 tokens, 3 ms each, 10 ms; 3 replies of up to 5 bytes in chunks of 2 | no quiet report lost, no confirmed one sent again, rate and debt bounded, lines intact |

The violated properties state what a document, comment or prompt of the repository says;
`PROJECT.json`, `findings`, quotes the lines.

**Bounds.** A hazard here needs two handlers at most (a prompt over a prompt, a count
between a check and a count), so two calls exercise each; three in the supervisor make a
queue of two behind a shown prompt, and three in the standard session let a call arrive
after the limit was hit. Two sessions suffice for every overlap of purge, flush, append and
crash, three callers for two that sleep while a third runs the bucket down, 10 ms for three
refills of a token. Chunks of two bytes cut at, inside and after a character, and a cap of
four is below and above the replies. Limits of 1 make "at the limit" and "over it"
reachable: with two calls in flight the read and write counts do exceed it by one. The transfer bound is reached with three calls;
exceeding it would take a fourth, and there the theorem is what says that none can. Reads of
`session_standard` are too large to be scanned, reads of `session_supervised` are not. The
failure threshold is 3 in the code. In `session_standard` it is 2, so that a failed scan
finds the count below it, at it, or moved by the scans around it. In `session_supervised`
it is 1: there a single failure lets the buyer disable scanning while the other write awaits
its approval, whose gate then lets it pass unscanned, and the prompt for a count below the
threshold comes when another scan has reset the count between a failure and its test.
Nothing else depends on its value. `Overlap` bounds the calls in flight: the agent is free to send
more, and the theorems hold for every value. `session_supervised` uses symmetry in the
calls, which no action distinguishes; no liveness is checked there. Deadlock is not
checked: a session that ended, or whose prompts nobody answers, has nothing to do.

**Fairness.** `SFairSpec`: the prompt on screen gets an answer, a settled promise resumes
its handler, the chain's next link runs, and again and again no continuation is pending.
The first is an attentive buyer, without whom nothing settles; the others are Node's event
loop, which drains its microtasks before the next line is dispatched. The strong fairness of
`ShowNext` says that a link that is ready again and again runs, as it does when the drain
reaches it. `LonePromptsSettle` assumes that no prompt is raised over another one, which is
what `supervisor_overlap` shows to be needed. `Session` assumes only that a handler not
waiting for the buyer goes on: a scan and `callMcpServer` have timers of 5 and 30 seconds,
and the event loop serves them; nothing is assumed of the buyer, the agent, the container or
Docker. `Lifecycle` assumes that the timer of the first signal and the session's auto-kill
fire. Nothing is assumed of Docker but in two premises. `SignalEnds` assumes that
`docker rm -f` returns (`RmAnswers`), not that `docker.stop` does: against the latter a
signal has its timer, "Timeout cleanup to prevent hanging on Docker" (`cli.ts:307`), but the
timer's own `docker rm -f` is synchronous and has no timeout, so a Docker that answers
nothing at all still hangs the process. `SessionEnds` assumes that Docker answers
`docker.stop` too: the code gives only signals a timer, so an expired session whose Docker
hangs goes on waiting.

## Proofs

For every value of the constants:

- **`SupervisorProofs`.** `SInv` (types, `NoApprovalLost`, `AnswerFitsPrompt`,
  `AnswersLastPrompt`) is inductive as a conjunction and not part by part: that an answer
  fits needs that the resolver's call awaits that kind, which needs that the resolver is
  the prompt shown, which needs that nothing queued is shown. Theorems: each part is
  invariant, and every step implements a step of `Approvals` or a stutter.
- **`SessionProofs`.** `SessionTypeOK`; `FlowInv`: a call awaits the buyer only where its
  handler is at a prompt, only supervised sessions have prompts and only those with
  SovGuard scan, and no more than `Overlap` calls are in flight. It shows that the session
  calls the supervisor only as its specification allows (`SessionDrivesSupervisor`: a call
  waits for one prompt at a time), so `SInv` holds in every session.
- **`CallProofs`.** Four inductive invariants. `WireInv` orders the life of a request: on
  the wire at most once and only before it was executed, executed only after its handler
  sent it, answered only after it was executed and by what was done. Without it a late
  reply could be that of nothing. `TellInv` says that a handler that has not ended has told
  nobody anything, and that one that ended without an outcome in the log never sent its
  request; `TruthInv` joins it to what answers and entries say of the container. Hence
  `AgentToldTruth`, `LogTruthful` and `OperationsLogged`; and since a step of one handler leaves the fate of
  every other call alone, each step is one of `CallService` or a stutter
  (`SessionImplementsCallService`). `VetInv` says of each position of a handler what it has
  behind it (the permission; the buyer's yes; a scan or a decision) and that only a buyer
  at a failure prompt disables scanning. It is inductive only with `WireInv` (what is
  executed was sent by its own handler) and `FlowInv`. Hence `NoUnvettedWrite`. `ReportInv`
  gives the slot and the prompt of a flagged write one report each to spend, and says that
  a write is flagged only after its scan, so that it comes to neither twice. Hence
  `OnlyFlaggedReported`.
- **`LimitProofs`.** `CountsMatchLog` is inductive given `TellInv`: only a reply both counts
  and logs, and a handler logs once. `OvershootBounded` is not, because it does not say what
  may still be counted: `QuotaInv` bounds, for each limit, the calls logged as done together
  with those in flight, which grow only by a call that was let in below the limit.
- **`LifecycleProofs`.** `HandleInv` (a process whose event loop runs has no container
  without a handle, and stops only what it holds) gives `NothingLeft`. `TypeInv` needs that a living process
  has had at most one signal, for the second forces its exit. `RelayInv` (until cleanup the
  relay is as the transport left it; from then on it is closed, or was opened late) gives
  `LogSent`.
- **`StartupProofs`.** `StartInv` carries what each gate let pass to `createContainer`:
  `SandboxHasBwrap`, `WallsAsPromised` and `WritesAreScanned` are the last step of it. With
  it, every step of the startup is a step of `Lifecycle` or a stutter
  (`StartupImplementsLifecycle`), so the theorems of `LifecycleProofs` cover the startup
  with its gates. `ScanInv` and `ScanWaits` carry the pre-scan through it (what the editor
  shows unmarked, the buyer waived, as long as he did not cancel; nothing moves before its
  stage): hence
  `StartupExclusionsHonest` and `StartupTypeOK`.
- **`SovGuardProofs`.** Of the report queue, `QueueInv` says at each place of the one session that flushes
  where a quiet report is: in the file, or among the lines that session will send or write
  back. Hence `QueueLosesNoQuietReport`. `SettledInv` says that nobody holds a settled report
  and that it is in the file only while the one session that sent it is still sending; for
  that a session must hold no lines but where it needs them (`Holding`). Hence
  `QueueResendsNothing`.
  Of the rate limiter, the debt bound is not inductive: a sleeper takes its token
  unchecked. `LimiterInv` adds that at every time to come the bucket, refilled until then,
  can pay all but `Others` of the sleepers due by then; each sleeper computes its wait so
  that this holds. `Paid` accounts for what a window's scans took. Hence `LimiterDebt` and
  `LimiterRate`.
- **`PartsProofs`.** `LinesIntact` only speaks of replies that have arrived, and not of
  what the buffer holds of the next one. `ReaderInv` adds that the stream is its replies,
  one after the other (`StreamInv`), that a place is torn exactly where a chunk ended on
  the first byte of a character (`TornInv`), and that the buffer is, place by place, the
  decoded end of what was read, from a line's start and without a newline (`BufferInv`);
  then a newline in the buffer is the end of one reply, the last newline before it the
  start of the same, and the lines handed on are the replies that arrived as their places
  are decoded (`GotInv`). A two-byte character that a chunk completes is recognised because
  the byte before the chunk is torn. After an overflow only types and decoding are claimed,
  for the session is being ended. `NoEarlyOverflow` follows from `BufferInv`: a buffer
  without a newline is part of one reply. Hence `ReaderLinesIntact` and
  `ReaderNoEarlyOverflow`. In `MCParts` each part runs as it would alone (`PartsRun`), so
  all of this, and of `SovGuardProofs`, holds there; with `PartsTypeOK`.

Assumptions are `SupervisorAssumption`, `SessionAssumption` (finitely many calls; in
supervised mode with SovGuard both of its prompts may come), `LifecycleAssumption`,
`PreScanAssumption` (sensitive and scannable files are disjoint), `LimiterAssumption`
(finitely many callers, at least one; a positive cost and burst) and `ReaderAssumption`
(a reply is not empty, has no newline inside, and is well-formed text: `mcp-server.ts`
writes the output of `JSON.stringify`).

Every safety property of a passing run is proved, and so are the refinements. Only
model-checked:

- all liveness (`LonePromptsSettle`, `EveryCallAnswered`, `SignalEnds`, `SessionEnds`): it
  rests on fairness and ENABLED, which the prover cannot treat. The refinements are proved
  for the safety part of each specification, which is all that `Approvals`, `CallService`
  and the image of `Startup` in `Lifecycle` state;
- the violated properties, which are counterexamples of small instances.

## Where the code surprises

Besides the violated runs, the models contain behaviour that a reader of the documents may
not expect:

- A report queued while two sessions are up may be lost (`ReportQueue`, above).
- `r` at the prompt of a failing SovGuard disables scanning and `retry` allows the write: no
  answer there scans again.
- A process whose Docker hangs cannot be ended by SIGINT, SIGTERM or SIGHUP, however many
  (`RmReturns`).
- `resolveCredentials` never returns a saved encryption key, so only the session that
  prompted for it encrypts what it scans, while `doctor.ts:102` says of such a config file
  "configured (E2E encryption enabled)" (`Credentials`).
- `--no-sovguard` is ignored when credentials resolve (`Credentials`).
- `--strict` wins over `--insecure` and refuses every machine that is not Linux with
  AppArmor, as off Linux no profile is found. The seccomp layer is judged by the profile's
  existence, while an invalid profile is left out of the container (`SecurityOpts`), also
  under `--strict`: `WallsAsPromised` promises what the gate saw, no more. gVisor may be
  seen by the gate and missed by `createContainer`, which then uses runc unless
  `--require-gvisor` was given.
- The first-run setup can be opted into by the environment only; a comment names a flag.
- At the pre-scan prompt a blank key confirms, and `e` without exclusions aborts (`Ask`).
- Writes that the buyer rejects and writes that SovGuard blocks leave no audit entry, while
  `src/README.md` has every blocked operation in the log (`OperationsLogged`, above).
- `abort` with a prompt pending rejects the prompt and leaves the session up.
- A standard session keeps blocking writes after repeated SovGuard failures, where
  `src/README.md` says that it aborts.

## Not modelled

- Matching of names (`shouldExclude`, `isExcluded`, `sensitive-paths.ts`), path resolution
  and file contents: functions of strings and of a file system the models do not have; a
  call's permission, scope and exclusion are one flag.
- Encryption of scan bodies, the log's hash chain and signatures: functions without state,
  or of an append-only list, that a model would only restate.
- The container's host configuration: a constant record.
- Keepalive, pause, resume and accept: messages on which only the platform acts.
- Clocks that go back, and timers that fire early, in `RateLimiter`.
- In `ReportQueue`, a line torn inside and an append that fails. A write cut short may leave
  half a line without a newline; the next purge drops it, and with it the report appended
  behind it, which shares its line.
- The subcommands that set, show and clear the configuration, option parsing, `doctor`,
  the feed and all output.

`PROJECT.json`, `components`, says which part of each component is covered.

## Plan

1. An abstract report queue (delivered at least once, at most once in quiet times) that
   `ReportQueue` implements, in place of its two history variables.
2. The subcommands that edit the configuration, with two of them at once on one file.
3. Connecting `Session` to `Lifecycle` by refinement: `EndSession` is there any caller of
   `cleanup`, as `Startup` is connected already.
