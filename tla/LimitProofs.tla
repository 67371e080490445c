------------------------------ MODULE LimitProofs ------------------------------
(***************************************************************************)
(* The session's limits, for any set of calls, requests, limits and mode:  *)
(* the counters count what the log calls done (CountsMatchLog), and what   *)
(* was let in below a limit bounds what may come to be counted (QuotaInv); *)
(* so a limit is exceeded by less than the number of calls in flight.      *)
(***************************************************************************)
EXTENDS CallProofs

(* The counters and the log.                                                *)

\* Only a reply moves the counters.
LEMMA OnlyRepliesCount ==
  ASSUME [Next]_vars, ~McpReply
  PROVE  UNCHANGED limits
  BY DEF Next, Handler, Arrive, AfterApproval, AfterSovguard, ScanReturns, McpTimeout,
     StatusComes, ReadScanReturns, PromptNext, ReportCommand, BuyerLine, ContainerExecutes,
     ContainerStops, Expire, StdinEnds, EndSession, Exit, limits, vars

\* A handler's own step logs nothing as done.
LEMMA HandlerLogsNoDone ==
  ASSUME TypeOK, TellInv, NEW c \in Calls, HandlerStep(c)
  PROVE  LoggedDone' = LoggedDone
<1>1. pc[c] # "done" /\ (NoOutcome(c) \/ audit' = Logged(c, "blocked"))
  BY DEF HandlerStep
<1>2. ~Has(audit[c], "done")
  BY <1>1 DEF TellInv, Has
<1>3. ~Has(audit'[c], "done") /\ \A d \in Calls \ {c} : audit'[d] = audit[d]
  <2>1. CASE NoOutcome(c)
    BY <1>1, <2>1, LogQuiet DEF Has
  <2>2. CASE audit' = Logged(c, "blocked")
    BY <1>1, <2>2, LogOnce DEF OutcomeIs
  <2> QED BY <1>1, <2>1, <2>2
<1> QED BY <1>2, <1>3 DEF LoggedDone

\* A reply logs its call as done and counts it, or does neither.
LEMMA ReplyLogsAndCounts ==
  ASSUME TypeOK, TellInv, McpReply
  PROVE  \/ LoggedDone' = LoggedDone /\ UNCHANGED limits
         \/ \E c \in InFlight \ LoggedDone :
              /\ LoggedDone' = LoggedDone \cup {c}
              /\ reads' = Count(reads, c \in ReadCalls)
              /\ writes' = Count(writes, c \in WriteCalls)
              /\ transferred' = Count(transferred, c \in DataCalls)
<1> DEFINE r == Head(replies)
<1>1. CASE UNCHANGED <<calls, limits, readScans>>
  BY <1>1 DEF LoggedDone, calls
<1>2. CASE PendingRequest(r.call) /\ UseReply(r.call, r.ok)
  <2>1. PICK c \in Calls : c = r.call
    <3>1. r \in Reply
      BY HeadTailProperties DEF McpReply, TypeOK
    <3> QED BY <3>1 DEF Reply
  <2>2. pc[c] = "mcp" /\ c \in InFlight /\ c \notin LoggedDone
    BY <1>2, <2>1 DEF PendingRequest, InFlight, TellInv, LoggedDone, Has
  <2>3. CASE ~r.ok
    <3>1. audit' = Logged(c, "blocked")
      BY <1>2, <2>1, <2>3, Zenon DEF UseReply, ReplyLogs
    <3>2. LoggedDone' = LoggedDone
      BY <2>2, <3>1, LogOnce DEF LoggedDone, OutcomeIs
    <3>3. UNCHANGED limits
      BY <1>2, <2>3, Zenon DEF UseReply, Count, limits
    <3> QED BY <3>2, <3>3
  <2>4. CASE r.ok
    <3>1. audit' = Logged(c, "done")
      BY <1>2, <2>1, <2>4, Zenon DEF UseReply, ReplyLogs
    <3>2. LoggedDone' = LoggedDone \cup {c}
      BY <2>2, <3>1, LogOnce DEF LoggedDone, OutcomeIs
    <3>3. /\ reads' = Count(reads, r.ok /\ IsRead(c))
          /\ writes' = Count(writes, r.ok /\ IsWrite(c))
          /\ transferred' = Count(transferred, r.ok /\ req[c].tool # "list")
      BY <1>2, <2>1, Zenon DEF UseReply
    <3>4. /\ (r.ok /\ IsRead(c)) = (c \in ReadCalls)
          /\ (r.ok /\ IsWrite(c)) = (c \in WriteCalls)
          /\ (r.ok /\ req[c].tool # "list") = (c \in DataCalls)
      BY <2>4 DEF ReadCalls, WriteCalls, DataCalls
    <3>5. /\ reads' = Count(reads, c \in ReadCalls)
          /\ writes' = Count(writes, c \in WriteCalls)
          /\ transferred' = Count(transferred, c \in DataCalls)
      BY <3>3, <3>4, Zenon
    <3> QED BY <2>2, <3>2, <3>5
  <2> QED BY <2>3, <2>4
<1> QED BY <1>1, <1>2 DEF McpReply

\* The requests, and so the kinds of the calls, never change.
LEMMA SameKinds ==
  ASSUME [Next]_vars
  PROVE  UNCHANGED <<req, ReadCalls, WriteCalls, DataCalls>>
<1>1. UNCHANGED req
  BY DEF Next, Handler, Arrive, AfterApproval, AfterSovguard, ScanReturns, McpTimeout,
     McpReply, StatusComes, ReadScanReturns, PromptNext, ReportCommand, BuyerLine,
     ContainerExecutes, ContainerStops, Expire, StdinEnds, EndSession, Exit, vars
<1> QED BY <1>1 DEF ReadCalls, WriteCalls, DataCalls, IsRead, IsWrite

\* One more call counts once, if it is of the kind that counts.
LEMMA CountOneMore ==
  ASSUME NEW D, IsFiniteSet(D), NEW c, c \notin D, NEW K,
         NEW n, n = Cardinality(D \cap K), NEW m, m = Count(n, c \in K)
  PROVE  m = Cardinality((D \cup {c}) \cap K)
<1>1. IsFiniteSet(D \cap K)
  BY FS_Subset
<1>2. CASE c \in K
  <2>1. (D \cup {c}) \cap K = (D \cap K) \cup {c} /\ c \notin D \cap K
    BY <1>2
  <2>2. Cardinality((D \cup {c}) \cap K) = Cardinality(D \cap K) + 1
    BY <1>1, <2>1, FS_AddElement
  <2>3. m = n + 1
    BY <1>2, Zenon DEF Count
  <2> QED BY <2>2, <2>3
<1>3. CASE c \notin K
  <2>1. (D \cup {c}) \cap K = D \cap K
    BY <1>3
  <2>2. m = n
    BY <1>3, Zenon DEF Count
  <2> QED BY <2>1, <2>2
<1> QED BY <1>2, <1>3

\* A reply counts what it logs.
LEMMA ReplyCounts ==
  ASSUME TypeOK, TellInv, CountsMatchLog, McpReply
  PROVE  CountsMatchLog'
<1>1. /\ UNCHANGED <<ReadCalls, WriteCalls, DataCalls>>
      /\ IsFiniteSet(LoggedDone)
  BY SameKinds, SessionAssumption, FS_Subset DEF Next, LoggedDone
<1>2. CASE LoggedDone' = LoggedDone /\ UNCHANGED limits
  BY <1>1, <1>2 DEF CountsMatchLog, limits
<1>3. ASSUME NEW c \in InFlight \ LoggedDone,
             LoggedDone' = LoggedDone \cup {c},
             reads' = Count(reads, c \in ReadCalls),
             writes' = Count(writes, c \in WriteCalls),
             transferred' = Count(transferred, c \in DataCalls)
      PROVE  CountsMatchLog'
  <2>1. reads' = Cardinality((LoggedDone \cup {c}) \cap ReadCalls)
    BY <1>1, <1>3, CountOneMore DEF CountsMatchLog
  <2>2. writes' = Cardinality((LoggedDone \cup {c}) \cap WriteCalls)
    BY <1>1, <1>3, CountOneMore DEF CountsMatchLog
  <2>3. transferred' = Cardinality((LoggedDone \cup {c}) \cap DataCalls)
    BY <1>1, <1>3, CountOneMore DEF CountsMatchLog
  <2> QED BY <1>1, <1>3, <2>1, <2>2, <2>3 DEF CountsMatchLog
<1> QED BY <1>2, <1>3, ReplyLogsAndCounts

\* At the start nothing is done.
LEMMA InitCounts == Init => CountsMatchLog
<1> SUFFICES ASSUME Init PROVE CountsMatchLog
  OBVIOUS
<1>1. \A K : LoggedDone \cap K = {}
  BY DEF Init, LoggedDone, Has
<1>2. reads = 0 /\ writes = 0 /\ transferred = 0
  BY DEF Init
<1> QED BY <1>1, <1>2, FS_EmptySet DEF CountsMatchLog

\* Every other step neither logs an operation as done nor counts one.
LEMMA OtherCalls ==
  ASSUME TypeOK, TellInv, [Next]_vars, ~McpReply
  PROVE  LoggedDone' = LoggedDone /\ UNCHANGED limits
<1>1. UNCHANGED limits
  BY OnlyRepliesCount
<1>2. CASE UNCHANGED calls
  BY <1>1, <1>2 DEF LoggedDone, calls
<1>3. CASE \E c \in Calls : HandlerStep(c)
  BY <1>1, <1>3, HandlerLogsNoDone
<1>4. ContainerExecutes => UNCHANGED calls
  BY DEF ContainerExecutes
<1> QED BY <1>2, <1>3, <1>4, HandlerSteps, OtherSteps DEF Next

\* Every step keeps CountsMatchLog.
LEMMA CountsStep ==
  TypeOK /\ TellInv /\ CountsMatchLog /\ [Next]_vars => CountsMatchLog'
  BY ReplyCounts, OtherCalls, SameKinds DEF CountsMatchLog, limits

\* What counts against the limits is what the log calls done (cli.ts:
\* limiter.recordRead, recordWrite and sessionTransferBytes beside auditLog.record).
THEOREM SessionCountsMatchLog == Spec => []CountsMatchLog
<1>1. TruthInv => TellInv
  BY DEF TruthInv
<1> QED BY <1>1, InitCounts, CountsStep, SessionTypeOK, SessionTruth, PTL DEF Spec

-----------------------------------------------------------------------------
(* QuotaInv: what was let in below a limit.                                 *)

\* All but an arriving call that is allowed only spends what was let in before.
LEMMA SpentSteps ==
  ASSUME TypeOK, TellInv, [Next]_vars
  PROVE  \/ Spent' \subseteq Spent
         \/ \E c \in Calls : /\ ~Blocked(c)
                            /\ LoggedDone' = LoggedDone
                            /\ InFlight' \subseteq InFlight \cup {c}
<1>1. CASE McpReply
  <2>1. InFlight' \subseteq InFlight
    <3>1. UNCHANGED pc \/ \E c \in Calls : pc' = [pc EXCEPT ![c] = "done"]
      BY <1>1, ReplySteps, Moves DEF ReplyStep, ReplyLogs, calls
    <3> QED BY <3>1 DEF InFlight, TypeOK
  <2> QED BY <1>1, <2>1, ReplyLogsAndCounts DEF Spent
<1>2. ASSUME NEW c \in Calls, Arrive(c), ~McpReply
      PROVE  \/ Spent' \subseteq Spent
             \/ /\ ~Blocked(c)
                /\ LoggedDone' = LoggedDone
                /\ InFlight' \subseteq InFlight \cup {c}
  <2>1. LoggedDone' = LoggedDone
    BY <1>2, OtherCalls
  <2>2. CASE ArriveBlocked(c)
    <3>1. pc' = [pc EXCEPT ![c] = "done"]
      BY <2>2, Moves DEF ArriveBlocked
    <3>2. InFlight' \subseteq InFlight
      BY <3>1 DEF InFlight, TypeOK
    <3> QED BY <2>1, <3>2 DEF Spent
  <2>3. CASE ArriveAllowed(c)
    <3>1. \E at : pc' = [pc EXCEPT ![c] = at]
      BY <2>3, Moves DEF ArriveAllowed
    <3>2. InFlight' \subseteq InFlight \cup {c}
      BY <3>1 DEF InFlight, TypeOK
    <3> QED BY <2>1, <2>3, <3>2 DEF ArriveAllowed
  <2> QED BY <1>2, <2>2, <2>3 DEF Arrive
<1>3. ASSUME NEW c \in Calls, Handler(c) \/ StatusComes(c), ~McpReply
      PROVE  Spent' \subseteq Spent
  <2>1. pc' = pc \/ pc[c] # "unsent"
    <3>1. CASE AfterApproval(c)
      BY <3>1 DEF AfterApproval
    <3>2. CASE AfterSovguard(c)
      BY <3>2 DEF AfterSovguard, SovPrompts
    <3>3. CASE ScanReturns(c)
      BY <3>3 DEF ScanReturns, ScanSteps
    <3>4. CASE McpTimeout(c)
      BY <3>4 DEF McpTimeout
    <3>5. CASE StatusComes(c)
      BY <3>5 DEF StatusComes
    <3> QED BY <1>3, <3>1, <3>2, <3>3, <3>4, <3>5 DEF Handler
  <2>2. pc' = pc \/ (pc[c] # "done" /\ \E at : pc' = [pc EXCEPT ![c] = at])
    BY <1>3, HandlerSteps, Moves DEF HandlerStep, calls
  <2>3. InFlight' \subseteq InFlight
    BY <2>1, <2>2 DEF InFlight, TypeOK
  <2> QED BY <1>3, <2>3, OtherCalls DEF Spent
<1>4. ASSUME UNCHANGED calls, ~McpReply
      PROVE  Spent' \subseteq Spent
  BY <1>4, OtherCalls DEF Spent, InFlight, calls
<1>5. ContainerExecutes => UNCHANGED calls
  BY DEF ContainerExecutes
<1> QED BY <1>1, <1>2, <1>3, <1>4, <1>5, OtherSteps DEF Next

\* A limit on the calls of a kind: whoever is let in finds it not exceeded, and
\* no more than Overlap calls are in flight at a time.
LEMMA QuotaStep ==
  ASSUME TypeOK, TellInv, FlowInv', [Next]_vars, NEW K, NEW bound \in Nat,
         Cardinality(Spent \cap K) <= bound,
         \A c \in Calls \cap K :
           ~Blocked(c) => Cardinality(LoggedDone \cap K) + Overlap <= bound
  PROVE  Cardinality(Spent' \cap K) <= bound
<1>1. /\ IsFiniteSet(Spent \cap K) /\ IsFiniteSet(Spent' \cap K)
      /\ IsFiniteSet(LoggedDone \cap K) /\ IsFiniteSet(InFlight')
  BY SessionAssumption, FS_Subset DEF Spent, LoggedDone, InFlight
<1>2. /\ Cardinality(Spent \cap K) \in Nat /\ Cardinality(Spent' \cap K) \in Nat
      /\ Cardinality(LoggedDone \cap K) \in Nat /\ Cardinality(InFlight') \in Nat
  BY <1>1, FS_CardinalityType
<1>3. ASSUME Spent' \cap K \subseteq Spent \cap K
      PROVE  Cardinality(Spent' \cap K) <= bound
  <2>1. Cardinality(Spent' \cap K) <= Cardinality(Spent \cap K)
    BY <1>1, <1>3, FS_Subset
  <2> QED BY <1>2, <2>1
<1>4. ASSUME NEW c \in Calls, ~Blocked(c), LoggedDone' = LoggedDone,
             InFlight' \subseteq InFlight \cup {c}
      PROVE  Cardinality(Spent' \cap K) <= bound
  <2>1. CASE c \notin K
    <3>1. Spent' \cap K \subseteq Spent \cap K
      BY <1>4, <2>1 DEF Spent
    <3> QED BY <1>3, <3>1
  <2>2. CASE c \in K
    <3>1. Cardinality(LoggedDone \cap K) + Overlap <= bound
      BY <1>4, <2>2
    <3>2. Spent' \cap K \subseteq (LoggedDone \cap K) \cup InFlight'
      BY <1>4 DEF Spent
    <3>3. /\ IsFiniteSet((LoggedDone \cap K) \cup InFlight')
          /\ Cardinality((LoggedDone \cap K) \cup InFlight')
               <= Cardinality(LoggedDone \cap K) + Cardinality(InFlight')
      <4>1. /\ IsFiniteSet((LoggedDone \cap K) \cup InFlight')
            /\ IsFiniteSet((LoggedDone \cap K) \cap InFlight')
            /\ Cardinality((LoggedDone \cap K) \cup InFlight')
                 = Cardinality(LoggedDone \cap K) + Cardinality(InFlight')
                   - Cardinality((LoggedDone \cap K) \cap InFlight')
        BY <1>1, FS_Union, FS_Intersection
      <4>2. Cardinality((LoggedDone \cap K) \cap InFlight') \in Nat
        BY <4>1, FS_CardinalityType
      <4> QED BY <1>2, <4>1, <4>2
    <3>4. Cardinality(Spent' \cap K) <= Cardinality((LoggedDone \cap K) \cup InFlight')
      BY <3>2, <3>3, FS_Subset
    <3>5. Cardinality((LoggedDone \cap K) \cup InFlight') \in Nat
      BY <3>3, FS_CardinalityType
    <3>6. Cardinality(InFlight') <= Overlap
      BY DEF FlowInv
    <3> QED BY <1>2, <3>1, <3>3, <3>4, <3>5, <3>6, SupervisorAssumption
  <2> QED BY <2>1, <2>2
<1>5. Spent' \subseteq Spent => Spent' \cap K \subseteq Spent \cap K
  OBVIOUS
<1> QED BY <1>3, <1>4, <1>5, SpentSteps

\* At the start nothing was spent.
LEMMA InitQuota == Init => QuotaInv
<1> SUFFICES ASSUME Init PROVE QuotaInv
  OBVIOUS
<1>1. \A K : Spent \cap K = {}
  BY DEF Init, Spent, LoggedDone, InFlight, Has
<1>2. Overlap \in Nat \ {0} /\ MaxReads \in Nat /\ MaxWrites \in Nat /\ MaxTransfer \in Nat
  BY SessionAssumption, SupervisorAssumption
<1> QED BY <1>1, <1>2, FS_EmptySet DEF QuotaInv

\* Every step keeps QuotaInv.
LEMMA QuotaInvStep ==
  TypeOK /\ TellInv /\ CountsMatchLog /\ FlowInv' /\ QuotaInv /\ [Next]_vars => QuotaInv'
<1> SUFFICES ASSUME TypeOK, TellInv, CountsMatchLog, FlowInv', QuotaInv, [Next]_vars
             PROVE  QuotaInv'
  OBVIOUS
<1>1. Overlap \in Nat \ {0} /\ MaxReads \in Nat /\ MaxWrites \in Nat /\ MaxTransfer \in Nat
  BY SessionAssumption, SupervisorAssumption
<1>2. reads \in Nat /\ writes \in Nat /\ transferred \in Nat
  BY DEF TypeOK
<1>3. UNCHANGED <<ReadCalls, WriteCalls, DataCalls>>
  BY SameKinds
<1>4. Cardinality(Spent' \cap ReadCalls) <= MaxReads + Overlap - 1
  <2>1. \A c \in Calls \cap ReadCalls :
          ~Blocked(c) => Cardinality(LoggedDone \cap ReadCalls) + Overlap <= MaxReads + Overlap - 1
    <3>1. \A c \in Calls \cap ReadCalls : ~Blocked(c) => reads + Overlap <= MaxReads + Overlap - 1
      BY <1>1, <1>2 DEF Blocked, CanRead, ReadCalls
    <3> QED BY <3>1 DEF CountsMatchLog
  <2>2. Cardinality(Spent \cap ReadCalls) <= MaxReads + Overlap - 1 /\ MaxReads + Overlap - 1 \in Nat
    BY <1>1 DEF QuotaInv
  <2> QED BY <2>1, <2>2, QuotaStep
<1>5. Cardinality(Spent' \cap WriteCalls) <= MaxWrites + Overlap - 1
  <2>1. \A c \in Calls \cap WriteCalls :
          ~Blocked(c) => Cardinality(LoggedDone \cap WriteCalls) + Overlap <= MaxWrites + Overlap - 1
    <3>1. \A c \in Calls \cap WriteCalls : ~Blocked(c) => writes + Overlap <= MaxWrites + Overlap - 1
      BY <1>1, <1>2 DEF Blocked, CanWrite, WriteCalls
    <3> QED BY <3>1 DEF CountsMatchLog
  <2>2. Cardinality(Spent \cap WriteCalls) <= MaxWrites + Overlap - 1 /\ MaxWrites + Overlap - 1 \in Nat
    BY <1>1 DEF QuotaInv
  <2> QED BY <2>1, <2>2, QuotaStep
<1>6. Cardinality(Spent' \cap DataCalls) <= MaxTransfer + Overlap
  <2>1. \A c \in Calls \cap DataCalls :
          ~Blocked(c) => Cardinality(LoggedDone \cap DataCalls) + Overlap <= MaxTransfer + Overlap
    <3>1. \A c \in Calls \cap DataCalls : ~Blocked(c) => transferred + Overlap <= MaxTransfer + Overlap
      BY <1>1, <1>2 DEF Blocked
    <3> QED BY <3>1 DEF CountsMatchLog
  <2>2. Cardinality(Spent \cap DataCalls) <= MaxTransfer + Overlap /\ MaxTransfer + Overlap \in Nat
    BY <1>1 DEF QuotaInv
  <2> QED BY <2>1, <2>2, QuotaStep
<1> QED BY <1>3, <1>4, <1>5, <1>6 DEF QuotaInv

\* The quotas of reads, writes and transfers.
THEOREM SessionQuota == Spec => [](CountsMatchLog /\ QuotaInv)
<1>1. TruthInv => TellInv
  BY DEF TruthInv
<1> QED BY <1>1, InitQuota, QuotaInvStep, SessionCountsMatchLog, SessionTypeOK,
          SessionTruth, SessionFlow, PTL DEF Spec

\* Each limit is exceeded by less than the number of calls in flight, and the
\* transfer limit by no more than what they transfer (cli.ts: the limits are
\* checked before the awaits, and counted after the container's reply).
THEOREM SessionOvershoot == Spec => []OvershootBounded
<1>1. CountsMatchLog /\ QuotaInv => OvershootBounded
  <2> SUFFICES ASSUME CountsMatchLog, QuotaInv PROVE OvershootBounded
    OBVIOUS
  <2>1. \A K : /\ Cardinality(LoggedDone \cap K) <= Cardinality(Spent \cap K)
               /\ Cardinality(LoggedDone \cap K) \in Nat
               /\ Cardinality(Spent \cap K) \in Nat
    <3> SUFFICES ASSUME NEW K
                 PROVE  /\ Cardinality(LoggedDone \cap K) <= Cardinality(Spent \cap K)
                        /\ Cardinality(LoggedDone \cap K) \in Nat
                        /\ Cardinality(Spent \cap K) \in Nat
      OBVIOUS
    <3>1. IsFiniteSet(Spent \cap K) /\ LoggedDone \cap K \subseteq Spent \cap K
      BY SessionAssumption, FS_Subset DEF Spent, LoggedDone, InFlight
    <3> QED BY <3>1, FS_Subset, FS_CardinalityType
  <2>2. Overlap \in Nat \ {0} /\ MaxReads \in Nat /\ MaxWrites \in Nat /\ MaxTransfer \in Nat
    BY SessionAssumption, SupervisorAssumption
  <2>3. reads <= MaxReads + Overlap - 1
    <3>1. /\ reads <= Cardinality(Spent \cap ReadCalls)
          /\ reads \in Nat /\ Cardinality(Spent \cap ReadCalls) \in Nat
      BY <2>1 DEF CountsMatchLog
    <3>2. Cardinality(Spent \cap ReadCalls) <= MaxReads + Overlap - 1
      BY DEF QuotaInv
    <3> QED BY <2>2, <3>1, <3>2
  <2>4. writes <= MaxWrites + Overlap - 1
    <3>1. /\ writes <= Cardinality(Spent \cap WriteCalls)
          /\ writes \in Nat /\ Cardinality(Spent \cap WriteCalls) \in Nat
      BY <2>1 DEF CountsMatchLog
    <3>2. Cardinality(Spent \cap WriteCalls) <= MaxWrites + Overlap - 1
      BY DEF QuotaInv
    <3> QED BY <2>2, <3>1, <3>2
  <2>5. transferred <= MaxTransfer + Overlap
    <3>1. /\ transferred <= Cardinality(Spent \cap DataCalls)
          /\ transferred \in Nat /\ Cardinality(Spent \cap DataCalls) \in Nat
      BY <2>1 DEF CountsMatchLog
    <3>2. Cardinality(Spent \cap DataCalls) <= MaxTransfer + Overlap
      BY DEF QuotaInv
    <3> QED BY <2>2, <3>1, <3>2
  <2> QED BY <2>3, <2>4, <2>5 DEF OvershootBounded
<1> QED BY <1>1, SessionQuota, PTL
================================================================================
