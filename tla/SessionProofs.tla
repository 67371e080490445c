----------------------------- MODULE SessionProofs -----------------------------
(***************************************************************************)
(* The session keeps its types and drives the supervisor only through the  *)
(* supervisor's operations, so that SupervisorProofs applies to it, for    *)
(* any set of calls, limits, requests and mode.                            *)
(***************************************************************************)
EXTENDS Session, SupervisorProofs, SequenceTheorems, FiniteSetTheorems, TLAPS

\* A session starts with no call sent.
LEMMA InitType == Init => TypeOK
<1> SUFFICES ASSUME Init PROVE TypeOK
  OBVIOUS
<1> USE SessionAssumption DEF Init
<1>1. /\ pc \in [Calls -> Steps]
      /\ results \in [Calls -> Seq({"ok", "refused", "failed"})]
      /\ audit \in [Calls -> Seq({"sensitive", "done", "blocked"})]
      /\ exported \in [Calls -> Seq({"sensitive", "done", "blocked"})]
  BY DEF Steps
<1>2. /\ verdict \in [Calls -> {"none", "safe", "flagged"}]
      /\ typed \in [Calls -> SUBSET (({"approval"} \cup SovPrompts) \X Decisions)]
      /\ failures \in 0..FailureThreshold
      /\ readScans \in [Calls -> {"off", "scan", "body"}]
      /\ lastFlagged \in Calls \cup {None}
      /\ reported \in [Calls -> Nat]
  OBVIOUS
<1>3. disabled \in BOOLEAN /\ expired \in BOOLEAN /\ alive \in BOOLEAN
  BY Zenon
<1>4. /\ reads \in Nat /\ writes \in Nat /\ transferred \in Nat
      /\ inbox \in Seq(Calls)
      /\ replies \in Seq(Reply)
      /\ executed \in [Calls -> {"no", "ok", "error", "partial"}]
      /\ phase \in {"up", "stopping", "exited"}
  OBVIOUS
<1> QED BY <1>1, <1>2, <1>3, <1>4 DEF TypeOK

\* Ending a handler, or suspending it, keeps the types of its bookkeeping.
LEMMA AnswerType ==
  ASSUME TypeOK, NEW c \in Calls, NEW r \in {"ok", "refused", "failed"}, Answer(c, r)
  PROVE  /\ pc' \in [Calls -> Steps]
         /\ results' \in [Calls -> Seq({"ok", "refused", "failed"})]
  BY DEF TypeOK, Answer, Told, Steps

\* A suspended handler.
LEMMA SuspendType ==
  ASSUME TypeOK, NEW c \in Calls, NEW at \in Steps, Suspend(c, at)
  PROVE  /\ pc' \in [Calls -> Steps]
         /\ results' \in [Calls -> Seq({"ok", "refused", "failed"})]
         /\ inbox' \in Seq(Calls)
  BY DEF TypeOK, Suspend

\* A handler that sends its request.
LEMMA SendType ==
  ASSUME TypeOK, NEW c \in Calls, Send(c)
  PROVE  /\ pc' \in [Calls -> Steps]
         /\ results' \in [Calls -> Seq({"ok", "refused", "failed"})]
         /\ inbox' \in Seq(Calls)
  BY DEF TypeOK, Send, Steps

\* A refused call.
LEMMA RefuseType ==
  ASSUME TypeOK, NEW c \in Calls, Refuse(c)
  PROVE  /\ pc' \in [Calls -> Steps]
         /\ results' \in [Calls -> Seq({"ok", "refused", "failed"})]
         /\ inbox' \in Seq(Calls)
  BY AnswerType DEF TypeOK, Refuse

\* The gate ends in one of the three.
LEMMA GateType ==
  ASSUME TypeOK, NEW c \in Calls, Gate(c)
  PROVE  /\ pc' \in [Calls -> Steps]
         /\ results' \in [Calls -> Seq({"ok", "refused", "failed"})]
         /\ inbox' \in Seq(Calls)
  BY RefuseType, SuspendType, SendType DEF Gate, Steps

\* The log with one more entry.
LEMMA LoggedType ==
  ASSUME TypeOK, NEW c \in Calls, NEW op \in {"sensitive", "done", "blocked"}
  PROVE  Logged(c, op) \in [Calls -> Seq({"sensitive", "done", "blocked"})]
  BY DEF TypeOK, Logged

\* A call arrives.
LEMMA ArriveType ==
  ASSUME TypeOK, NEW c \in Calls, Arrive(c)
  PROVE  TypeOK'
<1>1. CASE ArriveBlocked(c)
  <2>1. /\ pc' \in [Calls -> Steps]
        /\ results' \in [Calls -> Seq({"ok", "refused", "failed"})]
        /\ audit' \in [Calls -> Seq({"sensitive", "done", "blocked"})]
        /\ inbox' = inbox
    BY <1>1, AnswerType, LoggedType DEF ArriveBlocked
  <2> QED BY <2>1 DEF Arrive, TypeOK, scans, limits
<1>2. CASE ArriveAllowed(c)
  <2>1. /\ pc' \in [Calls -> Steps]
        /\ results' \in [Calls -> Seq({"ok", "refused", "failed"})]
        /\ inbox' \in Seq(Calls)
    BY <1>2, SuspendType, GateType DEF ArriveAllowed, Steps
  <2>2. audit' \in [Calls -> Seq({"sensitive", "done", "blocked"})]
    BY <1>2, LoggedType DEF ArriveAllowed, TypeOK
  <2> QED BY <2>1, <2>2 DEF Arrive, TypeOK, scans, limits
<1> QED BY <1>1, <1>2 DEF Arrive

\* A write prompt returns.
LEMMA AfterApprovalType ==
  ASSUME TypeOK, NEW c \in Calls, AfterApproval(c)
  PROVE  TypeOK'
<1>1. /\ pc' \in [Calls -> Steps]
      /\ results' \in [Calls -> Seq({"ok", "refused", "failed"})]
      /\ inbox' \in Seq(Calls)
  BY RefuseType, GateType, SuspendType
     DEF AfterApproval, RejectWrite, ApproveWrite, Steps, SovPrompts
<1>2. pc[c] = "approval" /\ answer[c] \in Decisions
  BY DEF AfterApproval, RejectWrite, ApproveWrite, Decisions
<1>3. typed' \in [Calls -> SUBSET (({"approval"} \cup SovPrompts) \X Decisions)]
  BY <1>2 DEF AfterApproval, Heard, TypeOK
<1> QED BY <1>1, <1>3 DEF AfterApproval, TypeOK, scans, limits

\* A SovGuard prompt returns.
LEMMA AfterSovguardType ==
  ASSUME TypeOK, NEW c \in Calls, AfterSovguard(c)
  PROVE  TypeOK'
<1>1. /\ pc' \in [Calls -> Steps]
      /\ results' \in [Calls -> Seq({"ok", "refused", "failed"})]
      /\ inbox' \in Seq(Calls)
  BY RefuseType, SendType, SuspendType
     DEF AfterSovguard, RejectScan, AbortSession, AllowScan, Steps
<1>2. pc[c] \in SovPrompts /\ answer[c] \in Decisions
  BY DEF AfterSovguard, RejectScan, AbortSession, AllowScan, Decisions
<1>3. typed' \in [Calls -> SUBSET (({"approval"} \cup SovPrompts) \X Decisions)]
  BY <1>2 DEF AfterSovguard, Heard, TypeOK
<1>4. /\ exported' \in [Calls -> Seq({"sensitive", "done", "blocked"})]
      /\ phase' \in {"up", "stopping", "exited"}
  BY DEF AfterSovguard, RejectScan, AbortSession, AllowScan, Cleanup, TypeOK
<1>5. disabled' \in BOOLEAN
  <2>1. disabled \in BOOLEAN
    BY DEF TypeOK
  <2>2. CASE AllowScan(c)
    <3>1. disabled' = (disabled \/ (pc[c] = "failing" /\ answer[c] = "report"))
      BY <2>2, Zenon DEF AllowScan
    <3> QED BY <3>1, Zenon
  <2>3. CASE RejectScan(c) \/ AbortSession(c)
    BY <2>1, <2>3, Zenon DEF RejectScan, AbortSession
  <2> QED BY <2>2, <2>3 DEF AfterSovguard
<1>6. lastFlagged' \in Calls \cup {None} /\ reported' \in [Calls -> Nat]
  <2>1. /\ lastFlagged' = lastFlagged \/ lastFlagged' = None
        /\ reported' = reported \/ reported' = [reported EXCEPT ![c] = @ + 1]
    BY Zenon DEF AfterSovguard, RejectScan, AbortSession, AllowScan
  <2> QED BY <2>1 DEF TypeOK
<1>7. UNCHANGED <<req, audit, verdict, failures, readScans, reads, writes, transferred,
                  expired, replies, executed, alive>>
  BY DEF AfterSovguard, limits
<1> QED BY <1>1, <1>3, <1>4, <1>5, <1>6, <1>7 DEF TypeOK

\* A scan returns.
LEMMA ScanReturnsType ==
  ASSUME TypeOK, NEW c \in Calls, ScanReturns(c)
  PROVE  TypeOK'
<1> USE SessionAssumption
<1>1. /\ pc' \in [Calls -> Steps]
      /\ results' \in [Calls -> Seq({"ok", "refused", "failed"})]
      /\ inbox' \in Seq(Calls)
  BY RefuseType, SendType, SuspendType
     DEF ScanReturns, ScanSteps, ScanSafe, ScanFlagged, ScanFails, AfterFailure,
     ScanUnauthorized, AskOrRefuse,
         Steps, SovPrompts
<1>2. failures' \in 0..FailureThreshold
  BY DEF ScanReturns, ScanSteps, ScanSafe, ScanFlagged, ScanFails, AfterFailure,
     ScanUnauthorized, Failed, TypeOK
<1>3. /\ verdict' \in [Calls -> {"none", "safe", "flagged"}]
      /\ lastFlagged' \in Calls \cup {None}
  BY DEF ScanReturns, ScanSafe, ScanFlagged, ScanFails, AfterFailure, ScanUnauthorized,
     TypeOK
<1>4. /\ exported' \in [Calls -> Seq({"sensitive", "done", "blocked"})]
      /\ phase' \in {"up", "stopping", "exited"}
  BY DEF ScanReturns, ScanSafe, ScanFlagged, ScanFails, AfterFailure, ScanUnauthorized,
     CleanupNow,
         Cleanup, TypeOK
<1> QED BY <1>1, <1>2, <1>3, <1>4 DEF ScanReturns, ScanSteps, TypeOK, limits

\* A scan's status comes.
LEMMA StatusComesType ==
  ASSUME TypeOK, NEW c \in Calls, StatusComes(c)
  PROVE  TypeOK'
<1>1. failures' \in 0..FailureThreshold
  BY SessionAssumption DEF StatusComes
<1>2. "body" \in Steps
  BY DEF Steps
<1>3. pc' \in [Calls -> Steps] /\ readScans' \in [Calls -> {"off", "scan", "body"}]
  BY <1>2 DEF StatusComes, TypeOK
<1> QED BY <1>1, <1>3 DEF StatusComes, TypeOK, limits, box

\* The scan of something read returns.
LEMMA ReadScanReturnsType ==
  ASSUME TypeOK, NEW c \in Calls, ReadScanReturns(c)
  PROVE  TypeOK'
<1>1. failures' \in 0..FailureThreshold
  BY SessionAssumption DEF ReadScanReturns, Failed, TypeOK
<1> QED BY <1>1 DEF ReadScanReturns, TypeOK, calls, limits, box

\* The container and its replies.
LEMMA ContainerExecutesType ==
  ASSUME TypeOK, ContainerExecutes
  PROVE  TypeOK'
<1>1. PICK o \in Outcomes(Head(inbox)) :
        /\ executed' = [executed EXCEPT ![Head(inbox)] = o]
        /\ replies' = Append(replies, [call |-> Head(inbox), ok |-> o = "ok"])
  BY DEF ContainerExecutes
<1>2. Head(inbox) \in Calls /\ inbox' \in Seq(Calls)
  BY DEF ContainerExecutes, TypeOK
<1>3. o \in {"ok", "error", "partial"}
  BY DEF Outcomes
<1>4. executed' \in [Calls -> {"no", "ok", "error", "partial"}]
  BY <1>1, <1>2, <1>3 DEF TypeOK
<1>5. (o = "ok") \in BOOLEAN
  BY Zenon
<1>6. [call |-> Head(inbox), ok |-> o = "ok"] \in Reply
  BY <1>2, <1>5, Zenon DEF Reply
<1>7. replies' \in Seq(Reply)
  BY <1>1, <1>6, AppendProperties DEF TypeOK
<1> QED BY <1>2, <1>4, <1>7 DEF ContainerExecutes, TypeOK, calls, scans, limits

\* A counter stays or goes up by one.
LEMMA CountFacts == \A n, add : Count(n, add) \in {n, n + 1}
  BY Zenon DEF Count

\* A reply is read.
LEMMA McpReplyType ==
  ASSUME TypeOK, McpReply
  PROVE  TypeOK'
<1> DEFINE r == Head(replies)
<1>1. r \in Reply /\ replies' \in Seq(Reply)
  BY HeadTailProperties DEF McpReply, TypeOK
<1>2. r.call \in Calls
  BY <1>1 DEF Reply
<1>3. CASE UseReply(r.call, r.ok)
  <2>1. /\ pc' \in [Calls -> Steps]
        /\ results' \in [Calls -> Seq({"ok", "refused", "failed"})]
        /\ audit' \in [Calls -> Seq({"sensitive", "done", "blocked"})]
    BY <1>2, <1>3, AnswerType, LoggedType DEF UseReply, ReplyLogs
  <2>2. /\ reads' \in Nat /\ writes' \in Nat /\ transferred' \in Nat
        /\ readScans' \in [Calls -> {"off", "scan", "body"}]
    <3>1. /\ reads' \in {reads, reads + 1} /\ writes' \in {writes, writes + 1}
          /\ transferred' \in {transferred, transferred + 1}
          /\ readScans' \in {readScans, [readScans EXCEPT ![r.call] = "scan"]}
      BY <1>3, CountFacts, Zenon DEF UseReply
    <3>2. readScans' \in [Calls -> {"off", "scan", "body"}]
      BY <1>2, <3>1 DEF TypeOK
    <3>3. reads' \in Nat /\ writes' \in Nat /\ transferred' \in Nat
      BY <3>1 DEF TypeOK
    <3> QED BY <3>2, <3>3
  <2>3. UNCHANGED <<req, exported, typed, verdict, failures, disabled, lastFlagged,
                    reported, expired, inbox, executed, alive, phase>>
    BY DEF McpReply
  <2> QED BY <1>1, <2>1, <2>2, <2>3 DEF TypeOK
<1>4. CASE UNCHANGED <<calls, limits, readScans>>
  BY <1>1, <1>4 DEF McpReply, TypeOK, calls, limits
<1> QED BY <1>3, <1>4 DEF McpReply

\* A request times out.
LEMMA McpTimeoutType ==
  ASSUME TypeOK, NEW c \in Calls, McpTimeout(c)
  PROVE  TypeOK'
<1>1. /\ pc' \in [Calls -> Steps]
      /\ results' \in [Calls -> Seq({"ok", "refused", "failed"})]
      /\ audit' \in [Calls -> Seq({"sensitive", "done", "blocked"})]
  BY AnswerType, LoggedType DEF McpTimeout
<1> QED BY <1>1 DEF McpTimeout, TypeOK, scans, limits, box

\* The steps that touch little.
LEMMA OtherType ==
  ASSUME TypeOK,
         \/ PromptNext \/ ReportCommand \/ ContainerStops \/ Expire \/ StdinEnds
         \/ EndSession \/ Exit \/ \E i \in Lines : BuyerLine(i)
         \/ UNCHANGED vars
  PROVE  TypeOK'
<1>1. CASE StdinEnds \/ \E i \in Lines : BuyerLine(i)
  BY <1>1 DEF StdinEnds, BuyerLine, TypeOK, calls, scans, limits, box
<1>8. CASE PromptNext
  <2>1. /\ exported' \in [Calls -> Seq({"sensitive", "done", "blocked"})]
        /\ phase' \in {"up", "stopping", "exited"}
    BY <1>8 DEF PromptNext, Cleanup, TypeOK
  <2> QED BY <1>8, <2>1 DEF PromptNext, TypeOK, calls, scans, limits, box
<1>2. CASE ReportCommand
  BY <1>2 DEF ReportCommand, TypeOK, calls, limits, box
<1>3. CASE ContainerStops
  <2>1. alive' \in BOOLEAN
    BY <1>3, Zenon DEF ContainerStops
  <2> QED BY <1>3, <2>1 DEF ContainerStops, TypeOK, calls, scans, limits
<1>4. CASE Expire
  <2>1. expired' \in BOOLEAN
    BY <1>4, Zenon DEF Expire
  <2> QED BY <1>4, <2>1 DEF Expire, TypeOK, calls, scans, limits, box
<1>5. CASE EndSession
  BY <1>5 DEF EndSession, CleanupNow, Cleanup, TypeOK, calls, scans, limits, box
<1>6. CASE Exit
  <2>1. alive' \in BOOLEAN
    BY <1>6, Zenon DEF Exit
  <2> QED BY <1>6, <2>1 DEF Exit, TypeOK, calls, scans, limits
<1>7. CASE UNCHANGED vars
  BY <1>7 DEF vars, TypeOK, calls, scans, limits, box
<1> QED BY <1>1, <1>2, <1>3, <1>4, <1>5, <1>6, <1>7, <1>8

\* Every step keeps the types.
LEMMA TypeStep == TypeOK /\ [Next]_vars => TypeOK'
<1> SUFFICES ASSUME TypeOK, [Next]_vars PROVE TypeOK'
  OBVIOUS
<1>1. ASSUME NEW c \in Calls, Arrive(c) \/ Handler(c) \/ StatusComes(c) \/ ReadScanReturns(c)
      PROVE  TypeOK'
  BY <1>1, ArriveType, AfterApprovalType, AfterSovguardType, ScanReturnsType,
     McpTimeoutType, StatusComesType, ReadScanReturnsType DEF Handler
<1>2. CASE ContainerExecutes \/ McpReply
  BY <1>2, ContainerExecutesType, McpReplyType
<1>3. CASE \/ PromptNext \/ ReportCommand \/ ContainerStops \/ Expire \/ StdinEnds
           \/ EndSession \/ Exit \/ \E i \in Lines : BuyerLine(i)
           \/ UNCHANGED vars
  BY <1>3, OtherType
<1> QED BY <1>1, <1>2, <1>3 DEF Next

\* The session's variables keep their types.
THEOREM SessionTypeOK == Spec => []TypeOK
<1> QED BY InitType, TypeStep, PTL DEF Spec

-----------------------------------------------------------------------------
(* FlowInv: calls in flight and prompts on hold.                           *)

\* The set of calls in flight is finite.
LEMMA FiniteFlight == IsFiniteSet(InFlight) /\ Cardinality(InFlight) \in Nat
<1>1. IsFiniteSet(InFlight)
  BY SessionAssumption, FS_Subset DEF InFlight
<1> QED BY <1>1, FS_CardinalityType

\* The same in the next state.
LEMMA FiniteFlightNext == IsFiniteSet(InFlight') /\ Cardinality(InFlight') \in Nat
<1>1. IsFiniteSet(InFlight')
  BY SessionAssumption, FS_Subset DEF InFlight
<1> QED BY <1>1, FS_CardinalityType

\* A step that lets no call in keeps the bound.
LEMMA QuietFlow ==
  ASSUME FlowInv, InFlight' \subseteq InFlight
  PROVE  Cardinality(InFlight') <= Overlap
<1>1. Cardinality(InFlight') <= Cardinality(InFlight)
  BY FiniteFlight, FS_Subset
<1> QED BY <1>1, FiniteFlight, FiniteFlightNext, SupervisorAssumption DEF FlowInv, ScanSteps

\* How the primitive ends of a handler move its call.
LEMMA Moves ==
  ASSUME TypeOK, NEW c \in Calls
  PROVE  /\ Refuse(c) => pc' = [pc EXCEPT ![c] = "done"]
         /\ Send(c) => pc' = [pc EXCEPT ![c] = "mcp"]
         /\ \A at : Suspend(c, at) => pc' = [pc EXCEPT ![c] = at]
         /\ \A r : Answer(c, r) => pc' = [pc EXCEPT ![c] = "done"]
         /\ Gate(c) => \E at \in {"done", "mcp", "scan"} :
              pc' = [pc EXCEPT ![c] = at] /\ (at = "scan" => SovGuardOn)
  BY DEF Refuse, Answer, Send, Suspend, Gate, Scanned

\* A handler of a call in flight that goes on keeps FlowInv, provided its call
\* is held at a prompt or waits for nobody.
LEMMA HandlerFlow ==
  ASSUME TypeOK, FlowInv, NEW c \in InFlight, NEW at \in Steps \ {"unsent"},
         pc' = [pc EXCEPT ![c] = at], at \in ScanSteps => SovGuardOn,
         awaiting' \in [Calls -> {"nothing", "write"} \cup SovKinds],
         \A d \in Calls : d # c => awaiting'[d] = awaiting[d],
         awaiting'[c] # "nothing" => at \in {"approval"} \cup SovPrompts,
         at \in {"approval"} \cup SovPrompts => Supervised
  PROVE  FlowInv'
<1>1. InFlight' \subseteq InFlight
  BY DEF InFlight, TypeOK
<1>2. \A d \in Calls : pc'[d] = IF d = c THEN at ELSE pc[d]
  BY DEF InFlight, TypeOK
<1>3. \A d \in Calls : awaiting'[d] # "nothing" => AtPrompt(d)'
  BY <1>2 DEF FlowInv, ScanSteps, AtPrompt
<1>4. /\ \A d \in Calls : pc'[d] \in ScanSteps => SovGuardOn
      /\ \A d \in Calls : AtPrompt(d)' => Supervised
  BY <1>2 DEF FlowInv, ScanSteps, AtPrompt
<1> QED BY <1>1, <1>3, <1>4, QuietFlow DEF FlowInv, ScanSteps

\* At the start no call is in flight.
LEMMA InitFlow == Init => FlowInv
<1> SUFFICES ASSUME Init PROVE FlowInv
  OBVIOUS
<1>1. InFlight = {}
  BY DEF Init, InFlight
<1>2. Cardinality(InFlight) = 0
  BY <1>1, FS_EmptySet
<1>3. /\ awaiting \in [Calls -> {"nothing", "write"} \cup SovKinds]
      /\ \A c \in Calls : awaiting[c] = "nothing"
      /\ \A c \in Calls : pc[c] \notin ScanSteps /\ ~AtPrompt(c)
  BY DEF Init, SInit, AtPrompt, ScanSteps, SovPrompts
<1> QED BY <1>2, <1>3, SupervisorAssumption DEF FlowInv, ScanSteps

\* An arriving call is one more in flight.
LEMMA ArriveFlow ==
  ASSUME TypeOK, FlowInv, NEW c \in Calls, Arrive(c)
  PROVE  FlowInv'
<1>1. /\ c \notin InFlight /\ pc[c] = "unsent"
      /\ Cardinality(InFlight) < Overlap
      /\ awaiting[c] = "nothing"
  BY DEF Arrive, InFlight, FlowInv, ScanSteps, AtPrompt, SovPrompts
<1>2. CASE ArriveBlocked(c)
  <2>1. pc' = [pc EXCEPT ![c] = "done"] /\ UNCHANGED awaiting
    BY <1>2, Moves DEF ArriveBlocked, svars
  <2>2. InFlight' \subseteq InFlight
    BY <2>1 DEF InFlight, TypeOK
  <2>3. /\ \A d \in Calls : awaiting'[d] # "nothing" => AtPrompt(d)'
        /\ \A d \in Calls : pc'[d] \in ScanSteps => SovGuardOn
        /\ \A d \in Calls : AtPrompt(d)' => Supervised
    BY <1>1, <2>1 DEF FlowInv, ScanSteps, AtPrompt, TypeOK, SovPrompts
  <2> QED BY <1>1, <2>1, <2>2, <2>3, QuietFlow DEF FlowInv, ScanSteps
<1>3. CASE ArriveAllowed(c)
  <2>1. PICK at \in {"approval", "done", "mcp", "scan"} :
          /\ pc' = [pc EXCEPT ![c] = at]
          /\ at = "scan" => SovGuardOn
          /\ at = "approval" => Supervised
    BY <1>3, Moves DEF ArriveAllowed
  <2>2. /\ awaiting' \in [Calls -> {"nothing", "write"} \cup SovKinds]
        /\ \A d \in Calls : d # c => awaiting'[d] = awaiting[d]
        /\ awaiting'[c] # "nothing" => pc'[c] = "approval"
    <3>1. awaiting \in [Calls -> {"nothing", "write"} \cup SovKinds]
      BY DEF FlowInv, ScanSteps
    <3>2. CASE PromptWriteApproval(c) /\ Suspend(c, "approval")
      <4>1. awaiting' = [awaiting EXCEPT ![c] = "write"]
        BY <3>2 DEF PromptWriteApproval
      <4>2. pc'[c] = "approval"
        BY <3>2, Moves DEF TypeOK
      <4> QED BY <3>1, <4>1, <4>2
    <3>3. CASE UNCHANGED svars
      BY <1>1, <3>1, <3>3 DEF svars
    <3> QED BY <1>3, <3>2, <3>3 DEF ArriveAllowed
  <2>3. /\ \A d \in Calls : awaiting'[d] # "nothing" => AtPrompt(d)'
        /\ \A d \in Calls : pc'[d] \in ScanSteps => SovGuardOn
        /\ \A d \in Calls : AtPrompt(d)' => Supervised
    BY <2>1, <2>2 DEF FlowInv, ScanSteps, AtPrompt, TypeOK, SovPrompts
  <2>4. InFlight' \subseteq InFlight \cup {c}
    BY <2>1 DEF InFlight, TypeOK
  <2>5. /\ IsFiniteSet(InFlight \cup {c})
        /\ Cardinality(InFlight \cup {c}) = Cardinality(InFlight) + 1
    BY <1>1, FiniteFlight, FS_AddElement
  <2>6. Cardinality(InFlight') <= Overlap
    <3>1. Cardinality(InFlight') <= Cardinality(InFlight \cup {c})
      BY <2>4, <2>5, FS_Subset
    <3> QED BY <1>1, <2>5, <3>1, FiniteFlight, FiniteFlightNext, SupervisorAssumption
  <2> QED BY <2>2, <2>3, <2>6 DEF FlowInv, ScanSteps
<1> QED BY <1>2, <1>3 DEF Arrive

\* An approved or rejected write goes on.
LEMMA AfterApprovalFlow ==
  ASSUME TypeOK, FlowInv, NEW c \in Calls, AfterApproval(c)
  PROVE  FlowInv'
<1>1. c \in InFlight /\ Supervised
  BY DEF AfterApproval, InFlight, FlowInv, ScanSteps, AtPrompt
<1>2. CASE Goes(c) /\ (Refuse(c) \/ Gate(c))
  <2>1. PICK at \in {"done", "mcp", "scan"} :
          pc' = [pc EXCEPT ![c] = at] /\ (at = "scan" => SovGuardOn)
    BY <1>2, Moves
  <2>2. awaiting' = [awaiting EXCEPT ![c] = "nothing"]
    BY <1>2 DEF Goes, Continue
  <2> QED BY <1>1, <2>1, <2>2, HandlerFlow DEF FlowInv, ScanSteps, Steps, SovPrompts
<1>3. CASE Scanned(c) /\ ContinueToSovguard(c, "sovguard") /\ Suspend(c, "oversize")
  <2>1. "sovguard" \in SovKinds
    BY <1>1, <1>3, SessionAssumption DEF Scanned, Supervised
  <2>2. awaiting' = [awaiting EXCEPT ![c] = "sovguard"]
    BY <1>3 DEF ContinueToSovguard, ShowSovguard
  <2>3. pc' = [pc EXCEPT ![c] = "oversize"]
    BY <1>3, Moves
  <2> QED BY <1>1, <2>1, <2>2, <2>3, HandlerFlow DEF FlowInv, ScanSteps, Steps, SovPrompts
<1> QED BY <1>2, <1>3 DEF AfterApproval, RejectWrite, ApproveWrite

\* A write held at a SovGuard prompt goes on.
LEMMA AfterSovguardFlow ==
  ASSUME TypeOK, FlowInv, NEW c \in Calls, AfterSovguard(c)
  PROVE  FlowInv'
<1>1. c \in InFlight
  BY DEF AfterSovguard, InFlight, SovPrompts
<1>2. PICK at \in {"done", "mcp", "ended"} : pc' = [pc EXCEPT ![c] = at]
  BY Moves DEF AfterSovguard, RejectScan, AbortSession, AllowScan
<1>3. awaiting' = [awaiting EXCEPT ![c] = "nothing"]
  BY DEF AfterSovguard, RejectScan, AbortSession, AllowScan, Goes, Continue
<1> QED BY <1>1, <1>2, <1>3, HandlerFlow DEF FlowInv, ScanSteps, Steps, SovPrompts

\* A scan sends its write on, refuses it, or holds it at a prompt.
LEMMA ScanReturnsFlow ==
  ASSUME TypeOK, FlowInv, NEW c \in Calls, ScanReturns(c)
  PROVE  FlowInv'
<1>1. c \in InFlight /\ SovGuardOn /\ awaiting[c] = "nothing"
  BY DEF ScanReturns, ScanSteps, InFlight, FlowInv, AtPrompt, SovPrompts
<1>2. CASE /\ UNCHANGED awaiting
           /\ Send(c) \/ Refuse(c) \/ Suspend(c, "ended") \/ Suspend(c, "failed")
  <2>1. PICK at \in {"done", "mcp", "ended", "failed"} : pc' = [pc EXCEPT ![c] = at]
    BY <1>2, Moves
  <2> QED BY <1>1, <1>2, <2>1, HandlerFlow DEF FlowInv, ScanSteps, Steps, SovPrompts
<1>3. ASSUME NEW at \in {"unreachable", "failing", "flagged"},
             NEW kind \in {"sovguard", "failure"},
             Supervised, PromptSovguard(c, kind), Suspend(c, at)
      PROVE  FlowInv'
  <2>1. kind \in SovKinds
    BY <1>1, <1>3, SessionAssumption DEF Supervised
  <2>2. awaiting' = [awaiting EXCEPT ![c] = kind]
    BY <1>3 DEF PromptSovguard, ShowSovguard
  <2>3. pc' = [pc EXCEPT ![c] = at]
    BY <1>3, Moves
  <2> QED BY <1>1, <1>3, <2>1, <2>2, <2>3, HandlerFlow DEF FlowInv, ScanSteps, Steps, SovPrompts
<1> QED BY <1>2, <1>3 DEF ScanReturns, ScanSteps, ScanSafe, ScanFlagged, ScanFails,
        AfterFailure, ScanUnauthorized, AskOrRefuse, CleanupNow, Close, svars

\* A scan's status comes: its write is still scanned.
LEMMA StatusComesFlow ==
  ASSUME TypeOK, FlowInv, NEW c \in Calls, StatusComes(c)
  PROVE  FlowInv'
<1>1. UNCHANGED awaiting
  BY DEF StatusComes, svars
<1>2. CASE pc[c] = "scan" /\ pc' = [pc EXCEPT ![c] = "body"]
  <2>1. c \in InFlight /\ awaiting[c] = "nothing" /\ SovGuardOn
    BY <1>2 DEF InFlight, FlowInv, ScanSteps, AtPrompt, SovPrompts
  <2> QED BY <1>1, <1>2, <2>1, HandlerFlow DEF FlowInv, ScanSteps, Steps, SovPrompts
<1>3. CASE UNCHANGED pc
  BY <1>1, <1>3 DEF FlowInv, ScanSteps, InFlight, AtPrompt
<1> QED BY <1>2, <1>3 DEF StatusComes

\* The call of a reply that is used, or of a timeout, leaves the flight.
LEMMA ReplyFlow ==
  ASSUME TypeOK, FlowInv, McpReply \/ \E c \in Calls : McpTimeout(c)
  PROVE  FlowInv'
<1> DEFINE r == Head(replies)
<1>1. CASE McpReply /\ PendingRequest(r.call) /\ UseReply(r.call, r.ok)
  <2>1. PICK c \in Calls : c = r.call
    <3>1. r \in Reply
      BY <1>1, HeadTailProperties DEF McpReply, TypeOK
    <3> QED BY <3>1 DEF Reply
  <2>2. /\ c \in InFlight /\ awaiting[c] = "nothing"
        /\ pc' = [pc EXCEPT ![c] = "done"]
        /\ UNCHANGED awaiting
    BY <1>1, <2>1, Moves DEF McpReply, PendingRequest, UseReply, ReplyLogs, InFlight,
       FlowInv, ScanSteps, AtPrompt, SovPrompts, svars
  <2> QED BY <2>2, HandlerFlow DEF FlowInv, ScanSteps, Steps, SovPrompts
<1>2. CASE McpReply /\ UNCHANGED <<calls, limits, readScans>>
  <2>1. UNCHANGED <<pc, awaiting>>
    BY <1>2 DEF McpReply, calls, svars
  <2> QED BY <2>1 DEF FlowInv, ScanSteps, InFlight, AtPrompt
<1>3. ASSUME NEW c \in Calls, McpTimeout(c) PROVE FlowInv'
  <2>1. /\ c \in InFlight /\ awaiting[c] = "nothing"
        /\ pc' = [pc EXCEPT ![c] = "done"]
        /\ UNCHANGED awaiting
    BY <1>3, Moves DEF McpTimeout, InFlight, FlowInv, ScanSteps, AtPrompt, SovPrompts, svars
  <2> QED BY <2>1, HandlerFlow DEF FlowInv, ScanSteps, Steps, SovPrompts
<1> QED BY <1>1, <1>2, <1>3 DEF McpReply

\* No other step moves a handler or changes who awaits the buyer.
LEMMA OtherFlow ==
  ASSUME FlowInv,
         \/ PromptNext \/ ReportCommand \/ ContainerExecutes \/ ContainerStops
         \/ Expire \/ StdinEnds \/ EndSession \/ Exit
         \/ \E i \in Lines : BuyerLine(i)
         \/ \E c \in Calls : ReadScanReturns(c)
         \/ UNCHANGED vars
  PROVE  FlowInv'
<1>1. UNCHANGED pc
  BY DEF PromptNext, ReportCommand, ContainerExecutes, ContainerStops, Expire, StdinEnds,
     EndSession, Exit, BuyerLine, ReadScanReturns, calls, vars
<1>2. UNCHANGED awaiting
  BY DEF PromptNext, ReportCommand, ContainerExecutes, ContainerStops, Expire, StdinEnds,
     EndSession, CleanupNow, Exit, BuyerLine, ReadScanReturns, vars, svars, ShowNext,
     PromptThrows, Line, LineAbort, AnswerWrite, AnswerSovguard, Close
<1> QED BY <1>1, <1>2 DEF FlowInv, ScanSteps, InFlight, AtPrompt

\* Every step keeps FlowInv.
LEMMA FlowStep == TypeOK /\ FlowInv /\ [Next]_vars => FlowInv'
  BY ArriveFlow, AfterApprovalFlow, AfterSovguardFlow, ScanReturnsFlow, StatusComesFlow,
     ReplyFlow, OtherFlow
     DEF Next, Handler

\* The flow invariant: a call awaits the buyer only where its handler is suspended
\* at a prompt, and no more than Overlap calls are in flight.
THEOREM SessionFlow == Spec => []FlowInv
<1> QED BY InitFlow, FlowStep, SessionTypeOK, PTL DEF Spec

-----------------------------------------------------------------------------
(* The session uses the supervisor only through its operations.            *)

\* A call that reaches a prompt finds less than Overlap calls waiting.
LEMMA RoomToAsk ==
  ASSUME FlowInv, NEW c \in Calls,
         \/ c \in InFlight /\ awaiting[c] = "nothing"
         \/ Cardinality(InFlight) < Overlap
  PROVE  Cardinality(Waiting) < Overlap
<1>1. Waiting \subseteq InFlight
  BY DEF FlowInv, ScanSteps, Waiting, InFlight, AtPrompt, SovPrompts
<1>2. Cardinality(Waiting) <= Cardinality(InFlight) /\ Cardinality(Waiting) \in Nat
  BY <1>1, FiniteFlight, FS_Subset, FS_CardinalityType
<1>3. CASE Cardinality(InFlight) < Overlap
  BY <1>2, <1>3, FiniteFlight, SupervisorAssumption
<1>4. CASE c \in InFlight /\ awaiting[c] = "nothing"
  <2>1. Waiting \subseteq InFlight \ {c}
    BY <1>1, <1>4 DEF Waiting
  <2>2. /\ IsFiniteSet(InFlight \ {c})
        /\ Cardinality(InFlight \ {c}) = Cardinality(InFlight) - 1
    BY <1>4, FiniteFlight, FS_RemoveElement
  <2>3. Cardinality(Waiting) <= Cardinality(InFlight) - 1
    BY <2>1, <2>2, FS_Subset
  <2> QED BY <1>2, <2>3, FiniteFlight, SupervisorAssumption DEF FlowInv, ScanSteps
<1> QED BY <1>3, <1>4

\* An arriving write asks for its approval; any other call asks nothing.
LEMMA ArriveAsks ==
  ASSUME FlowInv, NEW c \in Calls, Arrive(c)
  PROVE  [SNext]_svars
<1>1. CASE PromptWriteApproval(c)
  BY <1>1, RoomToAsk DEF Arrive, SNext, Ask
<1>2. CASE UNCHANGED svars
  BY <1>2
<1> QED BY <1>1, <1>2 DEF Arrive, ArriveBlocked, ArriveAllowed

\* A handler that was answered continues, or asks about an oversized write.
LEMMA AnsweredGoesOn ==
  ASSUME FlowInv, NEW c \in Calls, AfterApproval(c) \/ AfterSovguard(c)
  PROVE  SNext
<1>1. CASE Continue(c)
  BY <1>1 DEF SNext, GoOn
<1>2. CASE pc[c] = "approval" /\ Scanned(c) /\ ContinueToSovguard(c, "sovguard")
  <2>1. "sovguard" \in SovKinds
    BY <1>2, SessionAssumption DEF Scanned, FlowInv, ScanSteps, AtPrompt, Supervised
  <2> QED BY <1>2, <2>1 DEF SNext, GoOn
<1> QED BY <1>1, <1>2 DEF AfterApproval, AfterSovguard, RejectWrite, ApproveWrite,
        RejectScan, AbortSession, AllowScan, Goes

\* A scan that does not clear its write asks, if there is a buyer.
LEMMA ScanAsks ==
  ASSUME FlowInv, NEW c \in Calls, ScanReturns(c)
  PROVE  [SNext]_svars
<1>1. c \in InFlight /\ SovGuardOn
  BY DEF ScanReturns, ScanSteps, InFlight, FlowInv
<1>2. ASSUME NEW kind \in {"sovguard", "failure"}, Supervised, PromptSovguard(c, kind)
      PROVE  SNext
  <2>1. kind \in SovKinds
    BY <1>1, <1>2, SessionAssumption DEF Supervised
  <2>2. Cardinality(Waiting) < Overlap
    BY <1>1, <1>2, RoomToAsk DEF PromptSovguard
  <2> QED BY <1>2, <2>1, <2>2 DEF SNext, Ask
<1>3. CASE UNCHANGED svars
  BY <1>3
<1>4. CASE Close
  BY <1>4 DEF SNext
<1> QED BY <1>2, <1>3, <1>4 DEF ScanReturns, ScanSteps, ScanSafe, ScanFlagged, ScanFails,
        AfterFailure, ScanUnauthorized, AskOrRefuse, CleanupNow

\* Every step of the session is a step of the supervisor or leaves it alone.
LEMMA SupervisorStep == FlowInv /\ [Next]_vars => [SNext]_svars
<1> SUFFICES ASSUME FlowInv, [Next]_vars PROVE [SNext]_svars
  OBVIOUS
<1>1. ASSUME NEW c \in Calls,
             Arrive(c) \/ Handler(c) \/ StatusComes(c) \/ ReadScanReturns(c)
      PROVE  [SNext]_svars
  BY <1>1, ArriveAsks, AnsweredGoesOn, ScanAsks DEF Handler, McpTimeout, StatusComes,
     ReadScanReturns
<1>2. CASE PromptNext \/ StdinEnds \/ EndSession \/ \E i \in Lines : BuyerLine(i)
  BY <1>2 DEF PromptNext, StdinEnds, EndSession, CleanupNow, BuyerLine, SNext
<1>3. CASE \/ ReportCommand \/ ContainerExecutes \/ ContainerStops \/ McpReply
           \/ Expire \/ Exit \/ UNCHANGED vars
  BY <1>3 DEF ReportCommand, ContainerExecutes, ContainerStops, McpReply, Expire, Exit, vars
<1> QED BY <1>1, <1>2, <1>3 DEF Next

\* The session implements the supervisor's specification: mcp:call handlers,
\* interleaved at their awaits, use the prompts as Supervisor's callers do, so
\* the theorems of SupervisorProofs hold in every session.
THEOREM SessionDrivesSupervisor == Spec => SSpec
<1>1. Init => SInit
  BY DEF Init
<1> QED BY <1>1, SupervisorStep, SessionFlow, PTL DEF Spec, SSpec

\* In every session no approval is lost and the buyer's answers reach the prompt
\* they were given at (supervisor.ts as cli.ts uses it).
THEOREM SessionPromptsSound == Spec => []SInv
<1> QED BY SessionDrivesSupervisor, SupervisorInvariant, PTL

================================================================================
