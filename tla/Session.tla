-------------------------------- MODULE Session --------------------------------
(***************************************************************************)
(* A session after startup (src/cli.ts, sections 5 to 7): the mcp:call     *)
(* handler, one run per call of the agent, interleaved at its awaits (the  *)
(* buyer's prompts, the SovGuard scan, the reply of the MCP server), the   *)
(* counters and clients those runs share, the container that executes      *)
(* calls in order, and the cleanup that ends everything.                   *)
(*                                                                         *)
(* Between two awaits a handler is one step.  The buyer's prompts are      *)
(* those of Supervisor, whose variables this module shares.                *)
(***************************************************************************)
EXTENDS Supervisor

CONSTANTS
  Mode,             \* "supervised" or "standard"
  SovGuardOn,       \* a SovGuard key is configured (sovguardClient # null)
  Requests,         \* the requests the agent may make
  MaxReads, MaxWrites, MaxTransfer,  \* SessionLimiter and MAX_SESSION_TRANSFER
  FailureThreshold  \* consecutive SovGuard failures that change the prompt

ASSUME SessionAssumption ==
  /\ IsFiniteSet(Calls)
  /\ Mode \in {"supervised", "standard"}
  /\ SovGuardOn \in BOOLEAN
  /\ Requests \subseteq [tool : {"read", "write", "list"}, forbidden : BOOLEAN,
                         sensitive : BOOLEAN, big : BOOLEAN]
  /\ MaxReads \in Nat /\ MaxWrites \in Nat /\ MaxTransfer \in Nat
  /\ FailureThreshold \in Nat \ {0}
  /\ Mode = "supervised" /\ SovGuardOn => SovKinds = {"sovguard", "failure"}

VARIABLES
  req,          \* the request each call carries: its tool, whether the write
                \* permission, the scope or an exclusion forbids it, whether it
                \* writes a sensitive path, whether its content is over 100KB
  pc,           \* where each handler is suspended
  results,      \* what the handler told the agent: at most one entry per call
  audit,        \* the session's audit entries of each call
  exported,     \* the audit log as cleanup exported it
  verdict,      \* what the SovGuard API last said of the call's content
  typed,        \* the decisions the buyer gave for the call, each with its prompt
  failures,     \* consecutiveFailures, up to FailureThreshold
  disabled,     \* SovGuard scanning was disabled for the session
  readScans,    \* where each call's fire-and-forget read scan is, or "off"
  lastFlagged,  \* lastFlaggedWrite
  reported,     \* how often each call was queued as a false positive
  reads, writes, transferred, \* the session's counters
  expired,      \* the session's duration is over
  inbox,        \* requests on the container's stdin
  replies,      \* replies on its stdout, with their outcome
  executed,     \* what the container did for each call
  alive,        \* the container runs
  phase         \* "up", "stopping" (cleanup began) or "exited"

limits == <<reads, writes, transferred>>
scans  == <<verdict, failures, disabled, readScans, lastFlagged, reported>>
box    == <<inbox, replies, executed, alive>>
calls  == <<pc, results, audit>>
vars == <<svars, req, calls, exported, typed, scans, limits, expired, box, phase>>

Init ==
  /\ SInit
  /\ req \in [Calls -> Requests]
  /\ pc = [c \in Calls |-> "unsent"]
  /\ results = [c \in Calls |-> <<>>]
  /\ audit = [c \in Calls |-> <<>>]
  /\ exported = audit
  /\ verdict = [c \in Calls |-> "none"]
  /\ typed = [c \in Calls |-> {}]
  /\ failures = 0 /\ disabled = FALSE
  /\ readScans = [c \in Calls |-> "off"]
  /\ lastFlagged = None
  /\ reported = [c \in Calls |-> 0]
  /\ reads = 0 /\ writes = 0 /\ transferred = 0
  /\ expired = FALSE
  /\ inbox = <<>> /\ replies = <<>>
  /\ executed = [c \in Calls |-> "no"]
  /\ alive = TRUE
  /\ phase = "up"

-----------------------------------------------------------------------------
(* How a handler's run ends or is suspended.                               *)

IsWrite(c) == req[c].tool = "write"
IsRead(c)  == req[c].tool \in {"read", "list"}
Supervised == Mode = "supervised"
Running    == phase # "exited"
InFlight   == {c \in Calls : pc[c] \notin {"unsent", "done"}}

\* sendResult reaches the agent as long as the relay is connected.
Told(c, r) == IF phase = "up" THEN [results EXCEPT ![c] = Append(@, r)] ELSE results

\* The handler answers r and ends.
Answer(c, r) ==
  /\ pc' = [pc EXCEPT ![c] = "done"]
  /\ results' = Told(c, r)

\* A rejection answers without an audit entry.
Refuse(c) == Answer(c, "refused") /\ UNCHANGED inbox

Suspend(c, at) ==
  /\ pc' = [pc EXCEPT ![c] = at]
  /\ UNCHANGED <<results, inbox>>

\* callMcpServer: the request goes to the container, the handler waits.
Send(c) ==
  /\ pc' = [pc EXCEPT ![c] = "mcp"]
  /\ inbox' = Append(inbox, c)
  /\ UNCHANGED results

Logged(c, op) == [audit EXCEPT ![c] = Append(@, op)]

-----------------------------------------------------------------------------
(* A call of the agent: the checks before the first await.                 *)

\* Mutant: the write limit lets one more write in.
CanWriteLoose == writes <= MaxWrites /\ ~expired

CanRead  == reads < MaxReads /\ ~expired
CanWrite == writes < MaxWrites /\ ~expired

Blocked(c) ==
  \/ req[c].forbidden
  \/ transferred > MaxTransfer
  \/ IsRead(c) /\ ~CanRead
  \/ IsWrite(c) /\ ~CanWrite

\* SovGuard gates this write.
Scanned(c) == IsWrite(c) /\ SovGuardOn /\ ~disabled

\* The handler enters the SovGuard gate; without a buyer to ask, content too
\* large to scan is refused.
Gate(c) ==
  \/ Scanned(c) /\ req[c].big /\ Refuse(c)
  \/ Scanned(c) /\ ~req[c].big /\ Suspend(c, "scan")
  \/ ~Scanned(c) /\ Send(c)

ArriveBlocked(c) ==
  /\ Blocked(c)
  /\ Answer(c, "refused")
  /\ audit' = Logged(c, "blocked")
  /\ UNCHANGED <<svars, inbox>>

ArriveAllowed(c) ==
  /\ ~Blocked(c)
  /\ audit' = IF IsWrite(c) /\ req[c].sensitive THEN Logged(c, "sensitive") ELSE audit
  /\ \/ /\ Supervised /\ IsWrite(c)
        /\ PromptWriteApproval(c) /\ Suspend(c, "approval")
     \/ /\ ~(Supervised /\ IsWrite(c))
        /\ Gate(c) /\ UNCHANGED svars

\* The agent sends its call; it keeps at most Overlap calls in flight.
Arrive(c) ==
  /\ phase = "up" /\ pc[c] = "unsent" /\ Cardinality(InFlight) < Overlap
  /\ \/ ArriveBlocked(c)
     \/ ArriveAllowed(c)
  /\ UNCHANGED <<req, exported, typed, scans, limits, expired, replies, executed,
                 alive, phase>>

-----------------------------------------------------------------------------
(* The buyer's decisions.                                                  *)

Goes(c) == UNCHANGED closed /\ Continue(c)

Heard(c) == typed' = [typed EXCEPT ![c] = @ \cup {<<pc[c], answer[c]>>}]

\* Mutant: a rejected write falls through to the gate.
RejectFallsThrough(c) == answer[c] = "false" /\ Goes(c) /\ Send(c)

RejectWrite(c) == answer[c] = "false" /\ Goes(c) /\ Refuse(c)

ApproveWrite(c) ==
  /\ answer[c] = "true"
  /\ \/ /\ Scanned(c) /\ req[c].big
        /\ ContinueToSovguard(c, "sovguard") /\ Suspend(c, "oversize")
     \/ /\ ~(Scanned(c) /\ req[c].big)
        /\ Goes(c) /\ Gate(c)

\* promptWriteApproval returns.
AfterApproval(c) ==
  /\ Running
  /\ pc[c] = "approval"
  /\ \/ RejectWrite(c)
     \/ ApproveWrite(c)
  /\ Heard(c)
  /\ UNCHANGED <<req, audit, exported, scans, limits, expired, replies, executed,
                 alive, phase>>

SovPrompts == {"oversize", "unreachable", "failing", "flagged"}

\* cleanup: export the log, close readline, disconnect; only the first time.
Cleanup ==
  IF phase = "up" THEN phase' = "stopping" /\ exported' = audit /\ closed' = TRUE
                  ELSE UNCHANGED <<phase, exported, closed>>

\* cleanup, with nothing else to do for the supervisor.
CleanupNow == Cleanup /\ (Close \/ UNCHANGED svars)

\* promptSovguardApproval returns 'reject'.
RejectScan(c) ==
  /\ pc[c] # "failing" /\ answer[c] = "reject"
  /\ Goes(c) /\ Refuse(c)
  /\ UNCHANGED <<disabled, lastFlagged, reported, phase, exported>>

\* promptSovguardFailure returns 'reject': the handler ends the session.
AbortSession(c) ==
  /\ pc[c] = "failing" /\ answer[c] = "reject"
  /\ Cleanup /\ Continue(c) /\ Suspend(c, "ended")
  /\ UNCHANGED <<disabled, lastFlagged, reported>>

\* The write goes on unscanned.  'approve' at a failure prompt is the line 'retry'
\* (or 'y'): nothing is scanned again.  'report' there disables scanning; at a
\* flagged write it queues a false positive report.
AllowScan(c) ==
  /\ answer[c] \in {"approve", "report"}
  /\ Goes(c) /\ Send(c)
  /\ LET report(at) == pc[c] = at /\ answer[c] = "report"
     IN /\ disabled' = (disabled \/ report("failing"))
        /\ lastFlagged' = IF report("flagged") THEN None ELSE lastFlagged
        /\ reported' = IF report("flagged") THEN [reported EXCEPT ![c] = @ + 1]
                                            ELSE reported
  /\ UNCHANGED <<phase, exported>>

\* A SovGuard prompt returns.
AfterSovguard(c) ==
  /\ Running
  /\ pc[c] \in SovPrompts
  /\ \/ RejectScan(c)
     \/ AbortSession(c)
     \/ AllowScan(c)
  /\ Heard(c)
  /\ UNCHANGED <<req, audit, verdict, failures, readScans, limits, expired, replies,
                 executed, alive>>

\* A line at a prompt, or an 'abort' (whose command only reaches the relay).
BuyerLine(i) ==
  /\ Running
  /\ Line(i)
  /\ UNCHANGED <<req, calls, exported, typed, scans, limits, expired, box, phase>>

\* Mutant: a reported write stays the last flagged one.
ReportCommandKeeps ==
  /\ Running /\ ~closed /\ state \in {"IDLE", "APPROVAL_PENDING"}
  /\ SovGuardOn /\ lastFlagged # None
  /\ reported' = [reported EXCEPT ![lastFlagged] = @ + 1]
  /\ UNCHANGED <<svars, req, calls, exported, typed, verdict, failures, disabled,
                 readScans, lastFlagged, limits, expired, box, phase>>

\* The line 'report' as a command: in IDLE, or forwarded from a write prompt.
ReportCommand ==
  /\ Running /\ ~closed /\ state \in {"IDLE", "APPROVAL_PENDING"}
  /\ SovGuardOn /\ lastFlagged # None
  /\ reported' = [reported EXCEPT ![lastFlagged] = @ + 1]
  /\ lastFlagged' = None
  /\ UNCHANGED <<svars, req, calls, exported, typed, verdict, failures, disabled,
                 readScans, limits, expired, box, phase>>

\* The next write prompt is shown; or it throws, which ends the session
\* (uncaughtException).
PromptNext ==
  /\ Running
  /\ \/ ShowNext /\ UNCHANGED <<phase, exported>>
     \/ PromptThrows /\ Cleanup
  /\ UNCHANGED <<req, calls, typed, scans, limits, expired, box>>

-----------------------------------------------------------------------------
(* SovGuard's answers.                                                     *)

\* scanContent fails: a timeout, a bad status or an unusable body.
Failed == failures' = IF failures < FailureThreshold THEN failures + 1 ELSE failures

\* A good status comes: the count of failures, which all scans share, is reset
\* before the body is read.
StatusComes(c) ==
  /\ Running
  /\ failures' = 0
  /\ \/ /\ pc[c] = "scan" /\ pc' = [pc EXCEPT ![c] = "body"]
        /\ UNCHANGED readScans
     \/ /\ readScans[c] = "scan" /\ readScans' = [readScans EXCEPT ![c] = "body"]
        /\ UNCHANGED pc
  /\ UNCHANGED <<svars, req, results, audit, exported, typed, verdict, disabled,
                 lastFlagged, reported, limits, expired, box, phase>>

\* Whom to ask about a write SovGuard did not clear: the buyer, if there is one.
AskOrRefuse(c, at, kind) ==
  \/ Supervised /\ PromptSovguard(c, kind) /\ Suspend(c, at)
  \/ ~Supervised /\ Refuse(c) /\ UNCHANGED svars

ScanSafe(c) ==
  /\ pc[c] = "body"
  /\ verdict' = [verdict EXCEPT ![c] = "safe"]
  /\ Send(c) /\ UNCHANGED <<svars, failures, lastFlagged, phase, exported>>

ScanFlagged(c) ==
  /\ pc[c] = "body"
  /\ verdict' = [verdict EXCEPT ![c] = "flagged"]
  /\ lastFlagged' = c
  /\ AskOrRefuse(c, "flagged", "sovguard")
  /\ UNCHANGED <<failures, phase, exported>>

ScanFails(c) ==
  /\ pc[c] \in {"scan", "body"}
  /\ Failed
  /\ Suspend(c, "failed")
  /\ UNCHANGED <<svars, verdict, lastFlagged, phase, exported>>

\* Mutant: in standard mode an unreachable SovGuard is not fail-secure.
FailsOpen(c) ==
  /\ pc[c] = "failed"
  /\ Send(c)
  /\ UNCHANGED <<svars, failures, verdict, lastFlagged, phase, exported>>

\* The handler of a failed scan resumes and tests the count, which other scans may
\* have changed meanwhile.
AfterFailure(c) ==
  /\ pc[c] = "failed"
  /\ \/ failures >= FailureThreshold /\ AskOrRefuse(c, "failing", "failure")
     \/ failures < FailureThreshold /\ AskOrRefuse(c, "unreachable", "sovguard")
  /\ UNCHANGED <<failures, verdict, lastFlagged, phase, exported>>

\* A 401 throws out of the handler: the session ends (uncaughtException), the
\* call is never answered.
ScanUnauthorized(c) ==
  /\ pc[c] = "scan"
  /\ Suspend(c, "ended") /\ CleanupNow
  /\ UNCHANGED <<failures, verdict, lastFlagged>>

ScanSteps == {"scan", "body", "failed"}

\* The scan of a write returns.
ScanReturns(c) ==
  /\ Running
  /\ pc[c] \in ScanSteps
  /\ \/ ScanSafe(c)
     \/ ScanFlagged(c)
     \/ ScanFails(c)
     \/ AfterFailure(c)
     \/ ScanUnauthorized(c)
  /\ UNCHANGED <<req, audit, typed, disabled, readScans, reported, limits, expired,
                 replies, executed, alive>>

\* The scan of something read returns: only the failure count changes.
ReadScanReturns(c) ==
  /\ Running
  /\ readScans[c] # "off"
  /\ readScans' = [readScans EXCEPT ![c] = "off"]
  /\ Failed \/ UNCHANGED failures
  /\ UNCHANGED <<svars, req, calls, exported, typed, verdict, disabled, lastFlagged,
                 reported, limits, expired, box, phase>>

-----------------------------------------------------------------------------
(* The container and its replies.                                          *)

\* What it writes to stdout: which request it answers, and whether it worked.
Reply == [call : Calls, ok : BOOLEAN]

\* The MCP server handles requests one by one.  A write may fail after the file
\* was opened: an error is reported and the file has changed.
Outcomes(c) == IF IsWrite(c) THEN {"ok", "error", "partial"} ELSE {"ok", "error"}

ContainerExecutes ==
  /\ Running
  /\ alive /\ inbox # <<>>
  /\ \E o \in Outcomes(Head(inbox)) :
       /\ executed' = [executed EXCEPT ![Head(inbox)] = o]
       /\ replies' = Append(replies, [call |-> Head(inbox), ok |-> o = "ok"])
  /\ inbox' = Tail(inbox)
  /\ UNCHANGED <<svars, req, calls, exported, typed, scans, limits, expired, alive, phase>>

\* It crashes, or docker.stop gets to it.
ContainerStops ==
  /\ Running
  /\ alive /\ alive' = FALSE
  /\ UNCHANGED <<svars, req, calls, exported, typed, scans, limits, expired, inbox,
                 replies, executed, phase>>

\* Mutant: a failed operation gives its credit back.
CountRefunds(n, add) == IF add THEN n + 1 ELSE n - 1

\* Mutant: a failed operation counts as well.
CountAll(n, add) == n + 1

Count(n, add) == IF add THEN n + 1 ELSE n

\* Mutant: a reply is used although its request has timed out.
PendingRequestKept(c) == pc[c] \in {"mcp", "done"}

\* pendingMcpRequests has the call.
PendingRequest(c) == pc[c] = "mcp"

\* Mutant: the log says done of an operation the container refused.
ReplyLogsDone(c, ok) ==
  /\ Answer(c, IF ok THEN "ok" ELSE "failed")
  /\ audit' = Logged(c, "done")

\* The handler answers the agent and records the operation's outcome.
ReplyLogs(c, ok) ==
  /\ Answer(c, IF ok THEN "ok" ELSE "failed")
  /\ audit' = Logged(c, IF ok THEN "done" ELSE "blocked")

\* A reply whose request is pending: answer, count, record, and scan what a
\* read returned.
UseReply(c, ok) ==
  /\ ReplyLogs(c, ok)
  /\ transferred' = Count(transferred, ok /\ req[c].tool # "list")
  /\ reads' = Count(reads, ok /\ IsRead(c))
  /\ writes' = Count(writes, ok /\ IsWrite(c))
  /\ readScans' = IF ok /\ req[c].tool = "read" /\ SovGuardOn /\ ~disabled /\ ~req[c].big
                  THEN [readScans EXCEPT ![c] = "scan"] ELSE readScans

\* The reader of the container's stdout takes the next reply; one whose request
\* has timed out is dropped.
McpReply ==
  /\ Running
  /\ replies # <<>>
  /\ replies' = Tail(replies)
  /\ LET c == Head(replies).call
     IN \/ PendingRequest(c) /\ UseReply(c, Head(replies).ok)
        \/ ~PendingRequest(c) /\ UNCHANGED <<calls, limits, readScans>>
  /\ UNCHANGED <<svars, req, exported, typed, verdict, failures, disabled, lastFlagged,
                 reported, expired, inbox, executed, alive, phase>>

\* Mutant: the timeout only runs while the container does.
McpTimeoutIfAlive(c) ==
  /\ Running
  /\ alive /\ pc[c] = "mcp"
  /\ Answer(c, "failed")
  /\ audit' = Logged(c, "blocked")
  /\ UNCHANGED <<svars, req, exported, typed, scans, limits, expired, box, phase>>

\* Mutant: the timeout answers, as a rejection does, without an audit entry.
McpTimeoutUnlogged(c) ==
  /\ Running
  /\ pc[c] = "mcp"
  /\ Answer(c, "failed")
  /\ UNCHANGED <<svars, req, audit, exported, typed, scans, limits, expired, box, phase>>

\* 30 seconds without a reply: blockOperation('MCP server timeout').
McpTimeout(c) ==
  /\ Running
  /\ pc[c] = "mcp"
  /\ Answer(c, "failed")
  /\ audit' = Logged(c, "blocked")
  /\ UNCHANGED <<svars, req, exported, typed, scans, limits, expired, box, phase>>

-----------------------------------------------------------------------------
(* The end of the session.                                                 *)

Expire ==
  /\ Running
  /\ ~expired /\ expired' = TRUE
  /\ UNCHANGED <<svars, req, calls, exported, typed, scans, limits, box, phase>>

\* Any of the many callers of cleanup outside the mcp:call handler: signals,
\* the duration timer, the relay's events, the container's exit, a fatal error.
EndSession ==
  /\ phase = "up" /\ CleanupNow
  /\ UNCHANGED <<req, calls, typed, scans, limits, expired, box>>

StdinEnds ==
  /\ Running
  /\ Close
  /\ UNCHANGED <<req, calls, exported, typed, scans, limits, expired, box, phase>>

\* process.exit: docker.stop returned, or did not.
Exit ==
  /\ phase = "stopping" /\ phase' = "exited"
  /\ alive' = FALSE
  /\ UNCHANGED <<svars, req, calls, exported, typed, scans, limits, expired, inbox,
                 replies, executed>>

\* One handler of the call c takes a step.
Handler(c) == AfterApproval(c) \/ AfterSovguard(c) \/ ScanReturns(c) \/ McpTimeout(c)

Next ==
  \/ \E c \in Calls : Arrive(c) \/ Handler(c) \/ StatusComes(c) \/ ReadScanReturns(c)
  \/ PromptNext
  \/ ReportCommand
  \/ \E i \in Lines : BuyerLine(i)
  \/ ContainerExecutes
  \/ ContainerStops
  \/ McpReply
  \/ Expire
  \/ StdinEnds
  \/ EndSession
  \/ Exit

Spec == Init /\ [][Next]_vars

\* Every timer and every settled promise is served: a scan ends within its
\* timeout, a request within 30 seconds, a handler resumes.  Nothing is assumed
\* of the buyer, the agent or the container.
FairSpec == Spec /\ \A c \in Calls : WF_vars(Handler(c))

-----------------------------------------------------------------------------
Steps ==
  {"unsent", "approval", "scan", "body", "failed", "mcp", "done", "ended"} \cup SovPrompts

TypeOK ==
  /\ req \in [Calls -> Requests]
  /\ pc \in [Calls -> Steps]
  /\ results \in [Calls -> Seq({"ok", "refused", "failed"})]
  /\ audit \in [Calls -> Seq({"sensitive", "done", "blocked"})]
  /\ exported \in [Calls -> Seq({"sensitive", "done", "blocked"})]
  /\ verdict \in [Calls -> {"none", "safe", "flagged"}]
  /\ typed \in [Calls -> SUBSET (({"approval"} \cup SovPrompts) \X Decisions)]
  /\ failures \in 0..FailureThreshold
  /\ disabled \in BOOLEAN
  /\ readScans \in [Calls -> {"off", "scan", "body"}]
  /\ lastFlagged \in Calls \cup {None}
  /\ reported \in [Calls -> Nat]
  /\ reads \in Nat /\ writes \in Nat /\ transferred \in Nat
  /\ expired \in BOOLEAN
  /\ inbox \in Seq(Calls)
  /\ replies \in Seq(Reply)
  /\ executed \in [Calls -> {"no", "ok", "error", "partial"}]
  /\ alive \in BOOLEAN
  /\ phase \in {"up", "stopping", "exited"}

Has(log, op) == \E k \in DOMAIN log : log[k] = op

\* The request of c is on the container's stdin.
OnWire(c) == \E k \in DOMAIN inbox : inbox[k] = c

\* Nothing was done of the call, nor will be.
Untouched(c) == executed[c] = "no" /\ ~OnWire(c)

\* The buyer let the write through at a prompt that offers it.
LetThrough(c) ==
  typed[c] \cap ({"oversize", "unreachable", "flagged"} \X {"approve", "report"}) # {}

\* He asked to retry at the prompt of a failing SovGuard.
Retried(c) == <<"failing", "approve">> \in typed[c]

\* What a write must have behind it before it leaves for the container.
Vetted(c) ==
  /\ ~req[c].forbidden
  /\ Supervised => <<"approval", "true">> \in typed[c]
  /\ SovGuardOn => \/ verdict[c] = "safe"
                   \/ LetThrough(c) \/ Retried(c)
                   \/ Supervised /\ disabled

\* The buyer's project only changes as the buyer was promised: in supervised
\* mode by writes he approved, and with SovGuard on by writes that scanned safe,
\* that he let through a SovGuard prompt, or that came after he disabled scanning,
\* which no standard session can.  The one exception is a retry at the prompt of a
\* failing SovGuard, which lets the write through unscanned (RetryScansAgain).
NoUnvettedWrite ==
  \A c \in Calls : IsWrite(c) /\ executed[c] \in {"ok", "partial"} => Vetted(c)

\* The agent is told the truth, once: success only for what the container did,
\* and a refusal only for what it never will do (the request is not sent), even
\* when prompts are rejected late or a request times out before its reply.
AgentToldTruth ==
  \A c \in Calls :
    /\ Len(results[c]) <= 1
    /\ Has(results[c], "ok") => executed[c] = "ok"
    /\ Has(results[c], "refused") => Untouched(c)

\* The log has at most one outcome per call, and 'done' only for operations the
\* container carried out.
LogTruthful ==
  \A c \in Calls :
    /\ Cardinality({k \in DOMAIN audit[c] : audit[c][k] \in {"done", "blocked"}}) <= 1
    /\ Has(audit[c], "done") => executed[c] = "ok"

\* Nothing the container does, or will do, for a call that has ended is missing
\* from the log, whether its handler had the reply, gave up on it or was refused:
\* a call is only answered without an outcome in the log when its request never
\* leaves (a rejection at a prompt, a write SovGuard blocks).
OperationsLogged ==
  \A c \in Calls :
    pc[c] = "done" => Has(audit[c], "done") \/ Has(audit[c], "blocked") \/ Untouched(c)

\* What is reported to SovGuard as a false positive is a write it did flag; and
\* although the buyer can report at the write's own prompt and by the command, whose
\* slot other writes fill and empty, no write is reported more than twice.
OnlyFlaggedReported ==
  \A c \in Calls : reported[c] <= 2 /\ (reported[c] > 0 => verdict[c] = "flagged")

ReadCalls  == {c \in Calls : IsRead(c)}
WriteCalls == {c \in Calls : IsWrite(c)}
DataCalls  == {c \in Calls : req[c].tool # "list"}
LoggedDone == {c \in Calls : Has(audit[c], "done")}

\* The counters and the log tell one story: what counts against the limits is
\* what the log calls done, each operation once, whatever fails, times out or is
\* answered late (an error is logged, but neither counted nor transferred).
CountsMatchLog ==
  /\ reads = Cardinality(LoggedDone \cap ReadCalls)
  /\ writes = Cardinality(LoggedDone \cap WriteCalls)
  /\ transferred = Cardinality(LoggedDone \cap DataCalls)

\* What exceeds a limit is only what was in flight when it was reached: the checks
\* are before the awaits and the counts after.  (The transfer limit lets in what
\* finds it just reached.)
OvershootBounded ==
  /\ reads <= MaxReads + Overlap - 1
  /\ writes <= MaxWrites + Overlap - 1
  /\ transferred <= MaxTransfer + Overlap

AtPrompt(c) == pc[c] \in {"approval"} \cup SovPrompts

\* Why the supervisor never holds more prompts than calls are in flight: a call
\* awaits the buyer only where its handler is suspended at a prompt.
FlowInv ==
  /\ awaiting \in [Calls -> {"nothing", "write"} \cup SovKinds]
  /\ \A c \in Calls : awaiting[c] # "nothing" => AtPrompt(c)
  /\ \A c \in Calls : AtPrompt(c) => Supervised
  /\ \A c \in Calls : pc[c] \in ScanSteps => SovGuardOn
  /\ Cardinality(InFlight) <= Overlap

\* Why the overshoot is bounded: what is in flight was let in below the limit, and
\* may yet be counted.
Spent == LoggedDone \cup InFlight

QuotaInv ==
  /\ Cardinality(Spent \cap ReadCalls) <= MaxReads + Overlap - 1
  /\ Cardinality(Spent \cap WriteCalls) <= MaxWrites + Overlap - 1
  /\ Cardinality(Spent \cap DataCalls) <= MaxTransfer + Overlap

\* Why nothing unvetted lands: a handler on its way to the container has behind
\* it what its checks so far ask for, and a write that is sent has all of it.
\* Only a buyer at a failure prompt disables scanning.
Guarded(c) ==
  /\ pc[c] \in {"approval"} \cup ScanSteps \cup SovPrompts =>
       IsWrite(c) /\ ~req[c].forbidden
  /\ Supervised /\ pc[c] \in ScanSteps \cup SovPrompts =>
       <<"approval", "true">> \in typed[c]
  /\ IsWrite(c) /\ (pc[c] = "mcp" \/ ~Untouched(c)) => Vetted(c)

VetInv == (disabled => Supervised) /\ \A c \in Calls : Guarded(c)

\* A request is sent, executed and answered at most once, in this order, and a
\* reply says what the container did.
WireInv ==
  /\ \A k, l \in DOMAIN inbox : inbox[k] = inbox[l] => k = l
  /\ \A c \in Calls :
       /\ OnWire(c) => executed[c] = "no"
       /\ OnWire(c) \/ executed[c] # "no" => pc[c] \in {"mcp", "done"}
  /\ \A k \in DOMAIN replies :
       /\ executed[replies[k].call] # "no"
       /\ replies[k].ok = (executed[replies[k].call] = "ok")

\* Why the agent and the log are told the truth: a handler that has not ended
\* has told nobody anything, and one that ended without an outcome in the log
\* never sent its request.
TellInv ==
  \A c \in Calls :
    /\ pc[c] # "done" =>
         /\ results[c] = <<>>
         /\ \A k \in DOMAIN audit[c] : audit[c][k] = "sensitive"
    /\ \A k, l \in DOMAIN audit[c] :
         {audit[c][k], audit[c][l]} \subseteq {"done", "blocked"} => k = l
    /\ pc[c] = "done" => Has(audit[c], "done") \/ Has(audit[c], "blocked") \/ Untouched(c)

\* Why only flagged writes are reported: the slot and the prompt are each good for
\* one report of the write they are about, which has been scanned by then.
ReportInv ==
  \A c \in Calls :
    /\ reported[c] > 0 \/ lastFlagged = c \/ pc[c] = "flagged" => verdict[c] = "flagged"
    /\ verdict[c] = "flagged" => pc[c] \in {"flagged", "mcp", "done"}
    /\ reported[c] <= 2
    /\ lastFlagged = c \/ pc[c] = "flagged" => reported[c] <= 1
    /\ lastFlagged = c /\ pc[c] = "flagged" => reported[c] = 0

\* How a call was settled: a call that ended with its audit entry was answered
\* by what the entry says, one that ended without was refused at a prompt.
Fate(c) ==
  IF pc[c] # "done" THEN "open"
  ELSE IF Has(audit[c], "done") THEN "ok"
  ELSE IF Has(audit[c], "blocked") /\ ~Has(results[c], "refused") THEN "failed"
  ELSE "refused"

CallService == INSTANCE CallService WITH
  done <- executed, fate <- [c \in Calls |-> Fate(c)], told <- results

\* Refinement: the handlers, whatever prompts, scans, timeouts, late replies and
\* ends of the session they run into, implement the service of single calls.
ImplementsCallService == CallService!Spec

\* Every call that arrives in a standard session is answered, whatever the
\* container and SovGuard do, unless the session ends first.
EveryCallAnswered ==
  \A c \in Calls : c \in InFlight ~> (pc[c] = "done" \/ phase # "up")

\* The prompt of a failing SovGuard (supervisor.ts): "[R]etry / [D]isable scanning /
\* [A]bort session".  What the buyer has retried lands only if a scan finds it safe.
RetryScansAgain ==
  \A c \in Calls : Retried(c) /\ executed[c] \in {"ok", "partial"} => verdict[c] = "safe"

\* README, Session Limits: no operation beyond the limit.
WritesWithinLimit == writes <= MaxWrites

\* README, Tamper-Evident Audit Log: every successful operation is in the log
\* that is exported.
LandedIsExported ==
  phase = "exited" =>
    \A c \in Calls : IsWrite(c) /\ executed[c] = "ok" => Has(exported[c], "done")
================================================================================
