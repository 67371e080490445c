------------------------------ MODULE Supervisor ------------------------------
(***************************************************************************)
(* The Supervisor of supervised mode (src/supervisor.ts): one readline     *)
(* interface that serves both the buyer's commands and two kinds of        *)
(* prompts, write approvals (queued) and SovGuard prompts (not queued).    *)
(*                                                                         *)
(* A prompt is a promise: its caller (one per MCP call) is suspended until *)
(* the buyer's line settles it.  A line settles a promise in one step and  *)
(* the suspended caller goes on in a later one, because several lines of   *)
(* one stdin chunk are dispatched before any continuation runs.            *)
(***************************************************************************)
EXTENDS Naturals, Sequences, FiniteSets

CONSTANTS
  Calls,     \* the MCP calls that may need the buyer
  SovKinds,  \* the SovGuard prompts the session can raise
  Overlap,   \* how many calls may be waiting for the buyer at once
  None       \* "no promise": a null resolver

ASSUME SupervisorAssumption ==
  /\ None \notin Calls
  /\ SovKinds \subseteq {"sovguard", "failure"}
  /\ Overlap \in Nat \ {0}

VARIABLES
  state,                   \* InputState of types.ts
  pendingResolve,          \* the call whose write approval the next y/n settles
  pendingSovguardResolve,  \* the call whose SovGuard prompt the next line settles
  approvalQueue,           \* links of _approvalQueue whose prompt is not shown yet
  showing,                 \* the call whose shown write prompt holds the queue
  awaiting,                \* what each call is suspended on
  answer,                  \* the value its promise was settled with, not yet consumed
  screen,                  \* the call whose prompt was printed last
  closed,                  \* readline is closed: no line arrives any more
  poisoned                 \* a prompt threw: _approvalQueue is rejected for ever

svars == <<state, pendingResolve, pendingSovguardResolve, approvalQueue,
           showing, awaiting, answer, screen, closed, poisoned>>

Decisions == {"true", "false", "approve", "reject", "report"}
Lines     == {"y", "n", "a", "r", "d", "retry", "report", "abort"}

\* The calls now suspended on the buyer.
Waiting == {c \in Calls : awaiting[c] # "nothing"}

SInit ==
  /\ state = "IDLE"
  /\ pendingResolve = None
  /\ pendingSovguardResolve = None
  /\ approvalQueue = <<>>
  /\ showing = None
  /\ awaiting = [c \in Calls |-> "nothing"]
  /\ answer = [c \in Calls |-> "none"]
  /\ screen = None
  /\ closed = FALSE
  /\ poisoned = FALSE

-----------------------------------------------------------------------------
(* Prompts raised by the mcp:call handler.                                 *)

\* promptWriteApproval: append a link to the promise chain.
PromptWriteApproval(c) ==
  /\ awaiting[c] = "nothing" /\ answer[c] = "none"
  /\ awaiting' = [awaiting EXCEPT ![c] = "write"]
  /\ approvalQueue' = Append(approvalQueue, c)
  /\ UNCHANGED <<state, pendingResolve, pendingSovguardResolve, showing, answer,
                 screen, closed, poisoned>>

\* Mutant: prompts are not serialized, the next link does not wait for the one shown.
CanShowAtOnce ==
  /\ approvalQueue # <<>> /\ ~poisoned
  /\ \A c \in Calls : answer[c] = "none"

\* The chain's next link runs _doPromptWriteApproval once the previous prompt
\* has settled and the call it released has run on to its next await.
CanShow ==
  /\ approvalQueue # <<>> /\ showing = None /\ ~poisoned
  /\ \A c \in Calls : answer[c] = "none"

ShowNext ==
  /\ CanShow
  /\ showing' = Head(approvalQueue)
  /\ approvalQueue' = Tail(approvalQueue)
  /\ state' = "APPROVAL_PENDING"
  /\ pendingResolve' = Head(approvalQueue)
  /\ screen' = Head(approvalQueue)
  /\ UNCHANGED <<pendingSovguardResolve, awaiting, answer, closed, poisoned>>

\* _doPromptWriteApproval throws (the project directory is gone, the diff
\* fails): its link and every later one is rejected and never calls a resolver.
\* The unhandled rejection may make the owner close the supervisor at once.
PromptThrows ==
  /\ CanShow
  /\ poisoned' = TRUE
  /\ closed' \in {closed, TRUE}
  /\ UNCHANGED <<state, pendingResolve, pendingSovguardResolve, approvalQueue,
                 showing, awaiting, answer, screen>>

\* promptSovguardApproval and promptSovguardFailure: no queue, the state and
\* the resolver are overwritten.
ShowSovguard(c, kind) ==
  /\ awaiting' = [awaiting EXCEPT ![c] = kind]
  /\ state' = "SOVGUARD_PENDING"
  /\ pendingSovguardResolve' = c
  /\ screen' = c
  /\ UNCHANGED <<pendingResolve, approvalQueue, showing, closed, poisoned>>

PromptSovguard(c, kind) ==
  /\ awaiting[c] = "nothing" /\ answer[c] = "none"
  /\ ShowSovguard(c, kind)
  /\ UNCHANGED answer

\* The suspended handler takes the value its promise was settled with, and may
\* close the supervisor at once (cleanup) ...
Continue(c) ==
  /\ answer[c] # "none"
  /\ answer' = [answer EXCEPT ![c] = "none"]
  /\ awaiting' = [awaiting EXCEPT ![c] = "nothing"]
  /\ closed' \in {closed, TRUE}
  /\ UNCHANGED <<state, pendingResolve, pendingSovguardResolve, approvalQueue,
                 showing, screen, poisoned>>

\* ... or, after an approved write, raise a SovGuard prompt in the same run.
ContinueToSovguard(c, kind) ==
  /\ answer[c] = "true"
  /\ answer' = [answer EXCEPT ![c] = "none"]
  /\ ShowSovguard(c, kind)

-----------------------------------------------------------------------------
(* The 'line' handler: which resolver an input settles, and with what.     *)

\* Mutant: the promise is resolved with the raw line.
WriteDecisionRaw(i) == i

\* What a y/n answer means to a write prompt.
WriteDecision(i) ==
  CASE i = "y" -> "true"
    [] i = "n" -> "false"

\* What a line means to a SovGuard prompt.  Both kinds of prompt share it.
SovDecision(i) ==
  CASE i \in {"y", "retry"} -> "approve"
    [] i \in {"n", "a"} -> "reject"
    [] i \in {"r", "report", "d"} -> "report"

\* Mutants of AbortAnswer: one decision for both kinds; the write prompt's
\* resolver is dropped without being called.
AbortAnswerSame(c) ==
  IF c \in {pendingSovguardResolve, pendingResolve} THEN "reject" ELSE answer[c]
AbortAnswerDropsWrite(c) ==
  IF c = pendingSovguardResolve THEN "reject" ELSE answer[c]

\* What 'abort' settles the promise of c with.
AbortAnswer(c) ==
  CASE c = pendingSovguardResolve -> "reject"
    [] c = pendingResolve -> "false"
    [] OTHER -> answer[c]

HadPending == pendingResolve # None \/ pendingSovguardResolve # None

\* Mutant: 'abort' settles the promises but leaves the state as it was.
AbortStateUnreset == state

AbortState == IF HadPending THEN "IDLE" ELSE state

\* 'abort' settles every pending prompt, whatever the state; with none pending
\* it is a session command and changes nothing here.
LineAbort ==
  /\ answer' = [c \in Calls |-> AbortAnswer(c)]
  /\ pendingSovguardResolve' = None
  /\ pendingResolve' = None
  /\ showing' = IF pendingResolve # None THEN None ELSE showing
  /\ state' = AbortState
  /\ UNCHANGED <<approvalQueue, awaiting, screen, closed, poisoned>>

\* y or n at a write prompt.  Settling the promise frees the queue's next link.
AnswerWrite(i) ==
  /\ i \in {"y", "n"}
  /\ state = "APPROVAL_PENDING" /\ pendingResolve # None
  /\ answer' = [answer EXCEPT ![pendingResolve] = WriteDecision(i)]
  /\ pendingResolve' = None
  /\ showing' = None
  /\ state' = "IDLE"
  /\ UNCHANGED <<pendingSovguardResolve, approvalQueue, awaiting, screen, closed,
                 poisoned>>

\* A decision at a SovGuard prompt.
AnswerSovguard(i) ==
  /\ i \in {"y", "n", "a", "r", "d", "retry", "report"}
  /\ state = "SOVGUARD_PENDING" /\ pendingSovguardResolve # None
  /\ answer' = [answer EXCEPT ![pendingSovguardResolve] = SovDecision(i)]
  /\ pendingSovguardResolve' = None
  /\ state' = "IDLE"
  /\ UNCHANGED <<pendingResolve, showing, approvalQueue, awaiting, screen, closed,
                 poisoned>>

\* Lines not listed here leave the supervisor as it is: unknown ones, and those
\* it hands to the command handlers of cli.ts (see Session).
Line(i) ==
  /\ ~closed
  /\ \/ i = "abort" /\ LineAbort
     \/ AnswerWrite(i)
     \/ AnswerSovguard(i)

\* close(), or the end of stdin: no line event follows.
Close ==
  /\ ~closed
  /\ closed' = TRUE
  /\ UNCHANGED <<state, pendingResolve, pendingSovguardResolve, showing,
                 approvalQueue, awaiting, answer, screen, poisoned>>

-----------------------------------------------------------------------------
\* A handler reaches a prompt; Overlap bounds how many calls wait at once.
Ask(c) ==
  /\ Cardinality(Waiting) < Overlap
  /\ \/ PromptWriteApproval(c)
     \/ \E kind \in SovKinds : PromptSovguard(c, kind)

GoOn(c) ==
  \/ Continue(c)
  \/ "sovguard" \in SovKinds /\ ContinueToSovguard(c, "sovguard")

SNext ==
  \/ \E c \in Calls : Ask(c) \/ GoOn(c)
  \/ ShowNext
  \/ PromptThrows
  \/ \E i \in Lines : Line(i)
  \/ Close

SSpec == SInit /\ [][SNext]_svars

\* The prompt on screen gets an answer from an attentive buyer and a settled
\* promise resumes its caller.  Before the next line or message arrives the event
\* loop resumes every caller whose promise was settled, again and again, and then
\* the promise chain's next link: answers to other prompts cannot hold it up.
AnswerShown == ~closed /\ \E i \in {"y", "n"} : AnswerWrite(i) \/ AnswerSovguard(i)

SFairSpec ==
  /\ SSpec
  /\ WF_svars(AnswerShown)
  /\ SF_svars(ShowNext)
  /\ []<>(\A c \in Calls : answer[c] = "none")
  /\ \A c \in Calls : WF_svars(GoOn(c))

-----------------------------------------------------------------------------
STypeOK ==
  /\ state \in {"IDLE", "APPROVAL_PENDING", "SOVGUARD_PENDING"}
  /\ pendingResolve \in Calls \cup {None}
  /\ pendingSovguardResolve \in Calls \cup {None}
  /\ approvalQueue \in Seq(Calls)
  /\ showing \in Calls \cup {None}
  /\ awaiting \in [Calls -> {"nothing", "write"} \cup SovKinds]
  /\ answer \in [Calls -> Decisions \cup {"none"}]
  /\ screen \in Calls \cup {None}
  /\ closed \in BOOLEAN
  /\ poisoned \in BOOLEAN

Unsettled(c) == awaiting[c] # "nothing" /\ answer[c] = "none"

Queued(c) == \E k \in 1..Len(approvalQueue) : approvalQueue[k] = c

\* A suspended write is in the promise chain or is the prompt on hold, never
\* both and never twice, and only suspended writes are there: no interleaving
\* of write prompts, SovGuard prompts and 'abort' drops, duplicates or
\* resurrects an approval (supervisor.ts, promptWriteApproval and the line
\* handler's early settlements).
NoApprovalLost ==
  /\ \A c \in Calls :
       (Queued(c) \/ showing = c) <=> (awaiting[c] = "write" /\ answer[c] = "none")
  /\ \A k, l \in 1..Len(approvalQueue) :
       approvalQueue[k] = approvalQueue[l] => k = l
  /\ ~Queued(showing)

\* The buyer's answer reaches the kind of prompt it was asked by: a SovGuard
\* line never approves a write prompt nor the reverse, although both share the
\* readline, the state and 'abort'.
AnswerFitsPrompt ==
  \A c \in Calls :
    /\ answer[c] \in {"true", "false"} => awaiting[c] = "write"
    /\ answer[c] \in {"approve", "reject", "report"} => awaiting[c] \in SovKinds

\* The answer goes to the prompt the buyer saw last: a state that expects one
\* has a resolver, of the call printed last, and of a call still suspended.
AnswersLastPrompt ==
  /\ state = "APPROVAL_PENDING" => pendingResolve # None /\ pendingResolve = screen
  /\ state = "SOVGUARD_PENDING" =>
       pendingSovguardResolve # None /\ pendingSovguardResolve = screen
  /\ pendingResolve = showing
  /\ pendingSovguardResolve # None =>
       /\ awaiting[pendingSovguardResolve] \in SovKinds
       /\ answer[pendingSovguardResolve] = "none"

\* The conjunction is inductive (SupervisorProofs).
SInv == STypeOK /\ NoApprovalLost /\ AnswerFitsPrompt /\ AnswersLastPrompt

-----------------------------------------------------------------------------
\* What promptWriteApproval promises its callers, whatever SovGuard prompts
\* come in between: approvals settle one by one, in the order they were asked.
ShownThenQueued ==
  IF showing = None THEN approvalQueue ELSE <<showing>> \o approvalQueue

WriteAnswers ==
  [c \in Calls |-> IF answer[c] \in {"true", "false"} THEN answer[c] ELSE "none"]

Approvals == INSTANCE Approvals WITH waiting <- ShownThenQueued, decided <- WriteAnswers

\* Refinement: the readline, the promise chain and the overlapping SovGuard
\* prompts implement the first-come-first-served approval service.
ImplementsApprovals == Approvals!Spec

\* Every prompt settles unless stdin closed or a prompt threw: whatever other
\* prompts were raised meanwhile, the call is not left suspended for ever
\* ("Serialize approval prompts to prevent race conditions").
EveryPromptSettles ==
  \A c \in Calls : Unsettled(c) ~> (~Unsettled(c) \/ closed \/ poisoned)

\* The prompts the buyer is asked to answer at this moment.
OnScreen == {c \in Calls : Unsettled(c) /\ (c = showing \/ awaiting[c] \in SovKinds)}

\* As long as no prompt is raised over another one, every prompt settles: each
\* write approval waits in the promise chain for the ones before it and for
\* what 'abort' made of them, and none is forgotten.
LonePromptsSettle == [](Cardinality(OnScreen) <= 1) => EveryPromptSettles
===============================================================================
