------------------------------- MODULE CallProofs -------------------------------
(***************************************************************************)
(* What a session owes each single call, for any set of calls, requests,   *)
(* limits and mode: a request is sent, executed and answered at most once  *)
(* (WireInv), a write leaves for the container only with what it needs     *)
(* behind it (VetInv), the agent and the log are told what happened        *)
(* (TellInv), and only flagged writes are reported (ReportInv); so the     *)
(* session implements CallService.                                         *)
(***************************************************************************)
EXTENDS SessionProofs

Words   == {"ok", "refused", "failed"}
Entries == {"sensitive", "done", "blocked"}

-----------------------------------------------------------------------------
(* Logs: sequences that grow at the end.                                    *)

\* One more element at the end of a sequence.
LEMMA GrowFacts ==
  ASSUME NEW S, NEW q \in Seq(S), NEW e \in S
  PROVE  /\ Append(q, e) \in Seq(S)
         /\ DOMAIN q = 1..Len(q) /\ Len(q) \in Nat
         /\ DOMAIN Append(q, e) = 1..Len(q) + 1
         /\ \A k \in DOMAIN q : k \in DOMAIN Append(q, e) /\ Append(q, e)[k] = q[k]
         /\ Append(q, e)[Len(q) + 1] = e
         /\ \A k \in DOMAIN Append(q, e) : k \in DOMAIN q \/ k = Len(q) + 1
         /\ Len(q) + 1 \notin DOMAIN q /\ Len(q) + 1 \in DOMAIN Append(q, e)
  OBVIOUS

\* One element less at the front.
LEMMA ShrinkFacts ==
  ASSUME NEW S, NEW q \in Seq(S), q # <<>>
  PROVE  /\ Tail(q) \in Seq(S) /\ Head(q) = q[1] /\ q[1] \in S /\ 1 \in DOMAIN q
         /\ \A k \in DOMAIN Tail(q) :
              k \in Nat /\ k + 1 \in DOMAIN q /\ k + 1 # 1 /\ Tail(q)[k] = q[k + 1]
  OBVIOUS

\* What a sequence has once it grew by e.
LEMMA GrowHas ==
  ASSUME NEW S, NEW q \in Seq(S), NEW e \in S, NEW x
  PROVE  Has(Append(q, e), x) <=> Has(q, x) \/ x = e
  BY GrowFacts DEF Has

-----------------------------------------------------------------------------
(* What a step of a handler does to its call, in one of five ways: it is    *)
(* suspended, sends its request, refuses its call after the checks or at    *)
(* them, or gives up on its pending request.                                *)

\* No outcome is logged.
NoOutcome(c) == audit' = audit \/ audit' = Logged(c, "sensitive")

HandlerStep(c) ==
  /\ pc[c] # "done" /\ UNCHANGED <<req, executed, replies>>
  /\ \/ /\ pc[c] # "mcp" /\ NoOutcome(c)
        /\ \/ \E at \in Steps \ {"unsent", "mcp", "done"} : Suspend(c, at)
           \/ Send(c)
           \/ Refuse(c)
     \/ /\ pc[c] # "mcp" /\ UNCHANGED inbox
        /\ Answer(c, "refused") /\ results' = [results EXCEPT ![c] = Append(@, "refused")]
        /\ audit' = Logged(c, "blocked")
     \/ /\ pc[c] = "mcp" /\ UNCHANGED inbox
        /\ Answer(c, "failed") /\ audit' = Logged(c, "blocked")

\* A reply ends the handler that waits for it, and no other.
ReplyStep(c) ==
  /\ replies # <<>> /\ c = Head(replies).call /\ replies' = Tail(replies)
  /\ UNCHANGED <<req, inbox, executed>>
  /\ \/ pc[c] = "mcp" /\ ReplyLogs(c, Head(replies).ok)
     \/ pc[c] # "mcp" /\ UNCHANGED calls

\* The gate suspends, sends or refuses.
LEMMA GateStep ==
  ASSUME NEW c \in Calls, Gate(c)
  PROVE  Suspend(c, "scan") \/ Send(c) \/ Refuse(c)
  BY DEF Gate

\* Every step of a handler is one of the five, or concerns a scan of something read.
LEMMA HandlerSteps ==
  ASSUME NEW c \in Calls, Arrive(c) \/ Handler(c) \/ StatusComes(c)
  PROVE  HandlerStep(c) \/ UNCHANGED <<req, calls, inbox, executed, replies>>
<1> USE DEF NoOutcome, Steps, SovPrompts
<1>1. CASE Arrive(c)
  <2>1. CASE ArriveBlocked(c)
    BY <1>1, <2>1 DEF Arrive, ArriveBlocked, HandlerStep, Answer, Told
  <2>2. CASE ArriveAllowed(c)
    <3>1. Suspend(c, "approval") \/ Suspend(c, "scan") \/ Send(c) \/ Refuse(c)
      BY <2>2, GateStep DEF ArriveAllowed
    <3> QED BY <1>1, <2>2, <3>1 DEF Arrive, ArriveAllowed, HandlerStep
  <2> QED BY <1>1, <2>1, <2>2 DEF Arrive
<1>2. CASE AfterApproval(c)
  <2>1. Suspend(c, "oversize") \/ Suspend(c, "scan") \/ Send(c) \/ Refuse(c)
    BY <1>2, GateStep DEF AfterApproval, RejectWrite, ApproveWrite
  <2> QED BY <1>2, <2>1 DEF AfterApproval, HandlerStep
<1>3. CASE AfterSovguard(c)
  <2>1. Suspend(c, "ended") \/ Send(c) \/ Refuse(c)
    BY <1>3 DEF AfterSovguard, RejectScan, AbortSession, AllowScan
  <2> QED BY <1>3, <2>1 DEF AfterSovguard, HandlerStep
<1>4. CASE ScanReturns(c)
  <2>1. \/ Suspend(c, "ended") \/ Send(c) \/ Refuse(c)
        \/ \E at \in {"failed", "unreachable", "failing", "flagged"} : Suspend(c, at)
    BY <1>4 DEF ScanReturns, ScanSafe, ScanFlagged, ScanFails, AfterFailure, ScanUnauthorized,
       AskOrRefuse
  <2> QED BY <1>4, <2>1 DEF ScanReturns, ScanSteps, HandlerStep
<1>5. CASE McpTimeout(c)
  BY <1>5 DEF McpTimeout, HandlerStep, box
<1>6. CASE StatusComes(c)
  <2>1. CASE pc[c] = "scan" /\ pc' = [pc EXCEPT ![c] = "body"]
    BY <1>6, <2>1 DEF StatusComes, HandlerStep, Suspend, box
  <2>2. CASE UNCHANGED pc
    BY <1>6, <2>2 DEF StatusComes, calls, box
  <2> QED BY <1>6, <2>1, <2>2 DEF StatusComes
<1> QED BY <1>1, <1>2, <1>3, <1>4, <1>5, <1>6 DEF Handler

\* The reader's step.
LEMMA ReplySteps ==
  ASSUME TypeOK, McpReply
  PROVE  \E c \in Calls : ReplyStep(c)
<1>1. Head(replies) \in Reply
  BY HeadTailProperties DEF McpReply, TypeOK
<1>3. Head(replies).call \in Calls
  BY <1>1 DEF Reply
<1>2. \/ UseReply(Head(replies).call, Head(replies).ok) /\ pc[Head(replies).call] = "mcp"
      \/ UNCHANGED calls /\ pc[Head(replies).call] # "mcp"
  BY DEF McpReply, PendingRequest, calls
<1> QED BY <1>2, <1>3 DEF McpReply, ReplyStep, UseReply

\* Every other step but the container's leaves all this alone.
LEMMA OtherSteps ==
  ASSUME \/ PromptNext \/ ReportCommand \/ ContainerStops \/ Expire \/ StdinEnds
         \/ EndSession \/ Exit \/ \E i \in Lines : BuyerLine(i)
         \/ \E c \in Calls : ReadScanReturns(c)
         \/ UNCHANGED vars
  PROVE  UNCHANGED <<req, calls, inbox, executed, replies>>
  BY DEF PromptNext, ReportCommand, ContainerStops, Expire, StdinEnds, EndSession, Exit,
     BuyerLine, ReadScanReturns, box, vars

\* Every step of a session, in these terms.
LEMMA StepKinds ==
  ASSUME TypeOK, [Next]_vars
  PROVE  \/ \E c \in Calls : HandlerStep(c) \/ ReplyStep(c)
         \/ ContainerExecutes
         \/ UNCHANGED <<req, calls, inbox, executed, replies>>
  BY HandlerSteps, ReplySteps, OtherSteps DEF Next

-----------------------------------------------------------------------------
(* WireInv: the container's stdin and stdout.                               *)

\* A request that is sent joins the others on the wire.
LEMMA SendWire ==
  ASSUME TypeOK, NEW c \in Calls, Send(c)
  PROVE  /\ \A d \in Calls : OnWire(d)' <=> OnWire(d) \/ d = c
         /\ (\A k, l \in DOMAIN inbox : inbox[k] = inbox[l] => k = l) /\ ~OnWire(c) =>
              \A k, l \in DOMAIN inbox' : inbox'[k] = inbox'[l] => k = l
<1>1. inbox \in Seq(Calls) /\ inbox' = Append(inbox, c)
  BY DEF TypeOK, Send
<1>2. /\ \A k \in DOMAIN inbox : k \in DOMAIN inbox' /\ inbox'[k] = inbox[k]
      /\ Len(inbox) + 1 \in DOMAIN inbox' /\ inbox'[Len(inbox) + 1] = c
      /\ \A k \in DOMAIN inbox' : k \in DOMAIN inbox \/ k = Len(inbox) + 1
  BY <1>1, GrowFacts
<1>3. \A d \in Calls : OnWire(d)' <=> OnWire(d) \/ d = c
  BY <1>2, Zenon DEF OnWire
<1>4. ASSUME \A k, l \in DOMAIN inbox : inbox[k] = inbox[l] => k = l, ~OnWire(c)
      PROVE  \A k, l \in DOMAIN inbox' : inbox'[k] = inbox'[l] => k = l
  BY <1>2, <1>4, Zenon DEF OnWire
<1> QED BY <1>3, <1>4

\* A request the container takes leaves the wire.
LEMMA TakeWire ==
  ASSUME inbox \in Seq(Calls), inbox # <<>>, inbox' = Tail(inbox),
         \A k, l \in DOMAIN inbox : inbox[k] = inbox[l] => k = l
  PROVE  /\ Head(inbox) \in Calls /\ OnWire(Head(inbox))
         /\ \A d \in Calls : OnWire(d)' => OnWire(d) /\ d # Head(inbox)
         /\ \A k, l \in DOMAIN inbox' : inbox'[k] = inbox'[l] => k = l
<1>1. /\ Head(inbox) = inbox[1] /\ inbox[1] \in Calls /\ 1 \in DOMAIN inbox
      /\ \A k \in DOMAIN inbox' :
           k \in Nat /\ k + 1 \in DOMAIN inbox /\ k + 1 # 1 /\ inbox'[k] = inbox[k + 1]
  BY ShrinkFacts
<1>2. Head(inbox) \in Calls /\ OnWire(Head(inbox))
  BY <1>1 DEF OnWire
<1>3. \A d \in Calls : OnWire(d)' => OnWire(d) /\ d # Head(inbox)
  BY <1>1, Zenon DEF OnWire
<1>4. ASSUME NEW k \in DOMAIN inbox', NEW l \in DOMAIN inbox', inbox'[k] = inbox'[l]
      PROVE  k = l
  BY <1>1, <1>4
<1> QED BY <1>2, <1>3, <1>4

\* At the start nothing was sent.
LEMMA InitWire == Init => WireInv
  BY DEF Init, WireInv, OnWire

\* A handler sends once; the others do not disturb the wire.
LEMMA HandlerWire ==
  ASSUME TypeOK, WireInv, NEW c \in Calls, HandlerStep(c)
  PROVE  WireInv'
<1>1. UNCHANGED <<executed, replies>> /\ pc[c] # "done"
  BY DEF HandlerStep
<1>2. CASE Send(c) /\ pc[c] # "mcp"
  <2>1. pc' = [pc EXCEPT ![c] = "mcp"]
    BY <1>2 DEF Send
  <2>2. ~OnWire(c) /\ executed[c] = "no"
    BY <1>1, <1>2 DEF WireInv
  <2>3. /\ \A d \in Calls : OnWire(d)' <=> OnWire(d) \/ d = c
        /\ \A k, l \in DOMAIN inbox' : inbox'[k] = inbox'[l] => k = l
    BY <1>2, <2>2, SendWire DEF WireInv
  <2>4. ASSUME NEW d \in Calls
        PROVE  /\ OnWire(d)' => executed'[d] = "no"
               /\ OnWire(d)' \/ executed'[d] # "no" => pc'[d] \in {"mcp", "done"}
    BY <1>1, <2>1, <2>2, <2>3 DEF WireInv, TypeOK
  <2>5. \A k \in DOMAIN replies' :
          /\ executed'[replies'[k].call] # "no"
          /\ replies'[k].ok = (executed'[replies'[k].call] = "ok")
    BY <1>1, Zenon DEF WireInv
  <2> QED BY <2>3, <2>4, <2>5 DEF WireInv
<1>3. ASSUME NEW at \in Steps, pc' = [pc EXCEPT ![c] = at], UNCHANGED inbox,
             pc[c] = "mcp" => at = "done"
      PROVE  WireInv'
  <2>1. ASSUME NEW d \in Calls
        PROVE  /\ OnWire(d)' => executed'[d] = "no"
               /\ OnWire(d)' \/ executed'[d] # "no" => pc'[d] \in {"mcp", "done"}
    BY <1>1, <1>3 DEF WireInv, OnWire, TypeOK
  <2>2. /\ \A k, l \in DOMAIN inbox' : inbox'[k] = inbox'[l] => k = l
        /\ \A k \in DOMAIN replies' :
             /\ executed'[replies'[k].call] # "no"
             /\ replies'[k].ok = (executed'[replies'[k].call] = "ok")
    BY <1>1, <1>3, Zenon DEF WireInv
  <2> QED BY <2>1, <2>2 DEF WireInv
<1> QED BY <1>2, <1>3 DEF HandlerStep, Suspend, Refuse, Answer, Steps

\* The container executes the request it takes, for the first time, and its
\* reply says so.
LEMMA ContainerWire ==
  ASSUME TypeOK, WireInv, ContainerExecutes
  PROVE  WireInv'
<1> DEFINE h == Head(inbox)
<1>1. PICK o \in Outcomes(h) :
        /\ executed' = [executed EXCEPT ![h] = o]
        /\ replies' = Append(replies, [call |-> h, ok |-> o = "ok"])
  BY DEF ContainerExecutes
<1>2. o \in {"ok", "error", "partial"} /\ UNCHANGED pc
  BY DEF Outcomes, ContainerExecutes, calls
<1>3. /\ h \in Calls /\ OnWire(h)
      /\ \A d \in Calls : OnWire(d)' => OnWire(d) /\ d # h
      /\ \A k, l \in DOMAIN inbox' : inbox'[k] = inbox'[l] => k = l
  BY TakeWire DEF ContainerExecutes, TypeOK, WireInv
<1>4. executed[h] = "no" /\ \A d \in Calls : executed'[d] = IF d = h THEN o ELSE executed[d]
  BY <1>1, <1>3 DEF WireInv, TypeOK
<1>5. ASSUME NEW d \in Calls
      PROVE  /\ OnWire(d)' => executed'[d] = "no"
             /\ OnWire(d)' \/ executed'[d] # "no" => pc'[d] \in {"mcp", "done"}
  BY <1>2, <1>3, <1>4 DEF WireInv
<1>6. ASSUME NEW k \in DOMAIN replies'
      PROVE  /\ executed'[replies'[k].call] # "no"
             /\ replies'[k].ok = (executed'[replies'[k].call] = "ok")
  <2> DEFINE r == [call |-> h, ok |-> o = "ok"]
  <2>1. replies \in Seq(Reply) /\ (o = "ok") \in BOOLEAN
    BY Zenon DEF TypeOK
  <2>2. r \in Reply
    BY <1>3, <2>1, Zenon DEF Reply
  <2>3. \/ k \in DOMAIN replies /\ replies'[k] = replies[k]
        \/ replies'[k] = r
    BY <1>1, <1>6, <2>1, <2>2, GrowFacts
  <2>4. CASE k \in DOMAIN replies /\ replies'[k] = replies[k]
    <3>1. replies[k] \in Reply
      BY <2>1, <2>4
    <3>2. replies[k].call \in Calls /\ executed[replies[k].call] # "no"
      BY <2>4, <3>1 DEF Reply, WireInv
    <3>3. executed'[replies[k].call] = executed[replies[k].call]
      BY <1>4, <3>2
    <3> QED BY <2>4, <3>2, <3>3, Zenon DEF WireInv
  <2>5. CASE replies'[k] = r
    <3>1. executed'[h] = o
      BY <1>3, <1>4
    <3>2. r.call = h /\ r.ok = (o = "ok")
      OBVIOUS
    <3> QED BY <1>2, <2>5, <3>1, <3>2, Zenon
  <2> QED BY <2>3, <2>4, <2>5
<1> QED BY <1>3, <1>5, <1>6 DEF WireInv

\* A reply that is read leaves the wire.
LEMMA ReplyWire ==
  ASSUME TypeOK, WireInv, NEW c \in Calls, ReplyStep(c)
  PROVE  WireInv'
<1>1. UNCHANGED <<executed, inbox>>
  BY DEF ReplyStep
<1>2. \A k \in DOMAIN replies' : k + 1 \in DOMAIN replies /\ replies'[k] = replies[k + 1]
  BY ShrinkFacts DEF ReplyStep, TypeOK
<1>3. ASSUME NEW k \in DOMAIN replies'
      PROVE  /\ executed'[replies'[k].call] # "no"
             /\ replies'[k].ok = (executed'[replies'[k].call] = "ok")
  <2>1. k + 1 \in DOMAIN replies /\ replies'[k] = replies[k + 1] /\ executed' = executed
    BY <1>1, <1>2, <1>3
  <2> QED BY <2>1, Zenon DEF WireInv
<1>4. pc' = pc \/ pc' = [pc EXCEPT ![c] = "done"]
  BY DEF ReplyStep, ReplyLogs, Answer, calls
<1>5. ASSUME NEW d \in Calls
      PROVE  /\ OnWire(d)' => executed'[d] = "no"
             /\ OnWire(d)' \/ executed'[d] # "no" => pc'[d] \in {"mcp", "done"}
  BY <1>1, <1>4 DEF WireInv, OnWire, TypeOK
<1> QED BY <1>1, <1>3, <1>5 DEF WireInv

\* Every step keeps WireInv.
LEMMA WireStep == TypeOK /\ WireInv /\ [Next]_vars => WireInv'
<1>1. WireInv /\ UNCHANGED <<req, calls, inbox, executed, replies>> => WireInv'
  BY Zenon DEF WireInv, OnWire, calls
<1> QED BY <1>1, StepKinds, HandlerWire, ContainerWire, ReplyWire

\* A request is sent, executed and answered at most once, and its reply says
\* what was done (cli.ts's callMcpServer, mcp-server.ts's line handler).
THEOREM SessionWire == Spec => []WireInv
<1> QED BY InitWire, WireStep, SessionTypeOK, PTL DEF Spec
-----------------------------------------------------------------------------
(* TellInv: what the agent and the log are told of a call.                  *)

\* The call is not settled: nobody was told anything.
Open(c) ==
  /\ pc[c] # "done" /\ results[c] = <<>>
  /\ \A k \in DOMAIN audit[c] : audit[c][k] = "sensitive"

\* Its only outcome in the log is e, if there is one.
OutcomeIs(c, e) ==
  /\ \A x \in {"done", "blocked"} : Has(audit[c], x) <=> x = e
  /\ \A k, l \in DOMAIN audit[c] :
       {audit[c][k], audit[c][l]} \subseteq {"done", "blocked"} => k = l

\* The call is settled, by the word w if the agent heard it, and the entry e.
Closed(c, w, e) == pc[c] = "done" /\ results[c] \in {<<>>, <<w>>} /\ OutcomeIs(c, e)

\* A step settles c, or leaves it open.
CallMove(c) ==
  /\ \A d \in Calls \ {c} : /\ results'[d] = results[d] /\ audit'[d] = audit[d]
                           /\ pc'[d] = pc[d]
  /\ pc[c] # "done"
  /\ \/ Open(c)'
     \/ Closed(c, "refused", "none")' /\ Untouched(c)'
     \/ Closed(c, "refused", "blocked")' /\ Untouched(c)' /\ results'[c] = <<"refused">>
     \/ Closed(c, "failed", "blocked")'
     \/ Closed(c, "ok", "done")' /\ executed[c] = "ok" /\ executed'[c] = "ok"

\* What an open call is told.
LEMMA TellOnce ==
  ASSUME TypeOK, TellInv, NEW c \in Calls, pc[c] # "done", NEW w \in Words,
         results' \in {results, [results EXCEPT ![c] = Append(@, w)]}
  PROVE  /\ results'[c] \in {<<>>, <<w>>}
         /\ results' = results \/ results'[c] = <<w>>
         /\ \A d \in Calls \ {c} : results'[d] = results[d]
<1>1. results[c] = <<>> /\ Append(results[c], w) = <<w>>
  <2>1. results[c] = <<>>
    BY DEF TellInv
  <2>2. Append(<<>>, w) = <<w>>
    <3>1. /\ Append(<<>>, w) \in Seq(Words) /\ <<w>> \in Seq(Words)
          /\ Len(Append(<<>>, w)) = 1 /\ Append(<<>>, w)[1] = w
          /\ Len(<<w>>) = 1 /\ <<w>>[1] = w
      BY EmptySeq, GrowFacts
    <3> QED BY <3>1, SeqEqual
  <2> QED BY <2>1, <2>2
<1>2. results \in [Calls -> Seq(Words)]
  BY DEF TypeOK, Words
<1> QED BY <1>1, <1>2

\* An outcome enters the log of an open call.
LEMMA LogOnce ==
  ASSUME TypeOK, TellInv, NEW c \in Calls, pc[c] # "done", NEW e \in {"done", "blocked"},
         audit' = Logged(c, e)
  PROVE  OutcomeIs(c, e)' /\ \A d \in Calls \ {c} : audit'[d] = audit[d]
<1> DEFINE q == audit[c]
<1>1. /\ q \in Seq(Entries) /\ e \in Entries
      /\ audit'[c] = Append(q, e)
      /\ \A d \in Calls \ {c} : audit'[d] = audit[d]
  BY DEF TypeOK, Logged, Entries
<1>2. \A k \in DOMAIN q : q[k] = "sensitive"
  BY DEF TellInv
<1>3. /\ \A k \in DOMAIN q : k \in DOMAIN audit'[c] /\ audit'[c][k] = q[k]
      /\ \A k \in DOMAIN audit'[c] : k \in DOMAIN q \/ k = Len(q) + 1
      /\ Len(q) + 1 \in DOMAIN audit'[c] /\ audit'[c][Len(q) + 1] = e
  BY <1>1, GrowFacts
<1>4. \A x \in {"done", "blocked"} : Has(audit'[c], x) <=> x = e
  BY <1>2, <1>3 DEF Has
<1>5. \A k, l \in DOMAIN audit'[c] :
        {audit'[c][k], audit'[c][l]} \subseteq {"done", "blocked"} => k = l
  <2>1. \A k \in DOMAIN audit'[c] : audit'[c][k] \in {"done", "blocked"} => k = Len(q) + 1
    BY <1>2, <1>3
  <2> QED BY <2>1
<1> QED BY <1>1, <1>4, <1>5 DEF OutcomeIs

\* The log of an open call without an outcome.
LEMMA LogQuiet ==
  ASSUME TypeOK, TellInv, NEW c \in Calls, pc[c] # "done", NoOutcome(c)
  PROVE  /\ \A k \in DOMAIN audit'[c] : audit'[c][k] = "sensitive"
         /\ OutcomeIs(c, "none")'
         /\ \A d \in Calls \ {c} : audit'[d] = audit[d]
<1> DEFINE q == audit[c]
<1>1. /\ q \in Seq(Entries) /\ "sensitive" \in Entries
      /\ audit'[c] = q \/ audit'[c] = Append(q, "sensitive")
      /\ \A d \in Calls \ {c} : audit'[d] = audit[d]
  BY DEF TypeOK, NoOutcome, Logged, Entries
<1>2. \A k \in DOMAIN q : q[k] = "sensitive"
  BY DEF TellInv
<1>3. \A k \in DOMAIN audit'[c] : audit'[c][k] = "sensitive"
  <2>1. CASE audit'[c] = q
    BY <1>2, <2>1
  <2>2. CASE audit'[c] = Append(q, "sensitive")
    BY <1>1, <1>2, <2>2, GrowFacts
  <2> QED BY <1>1, <2>1, <2>2
<1>4. OutcomeIs(c, "none")'
  BY <1>3 DEF OutcomeIs, Has
<1> QED BY <1>1, <1>3, <1>4

\* A handler's step settles its call or leaves it open.
LEMMA HandlerSettles ==
  ASSUME TypeOK, WireInv, TellInv, NEW c \in Calls, HandlerStep(c)
  PROVE  CallMove(c)
<1> USE DEF HandlerStep
<1>1. /\ pc[c] # "done" /\ results[c] = <<>> /\ pc \in [Calls -> Steps]
      /\ executed' = executed
  BY DEF TellInv, TypeOK
<1>2. pc[c] # "mcp" /\ inbox' = inbox => Untouched(c) /\ Untouched(c)'
  BY <1>1 DEF WireInv, Untouched, OnWire
<1>3. CASE NoOutcome(c) /\ \E at \in Steps \ {"unsent", "done"} :
             pc' = [pc EXCEPT ![c] = at] /\ UNCHANGED results
  BY <1>1, <1>3, LogQuiet DEF CallMove, Open
<1>4. CASE NoOutcome(c) /\ pc[c] # "mcp" /\ Refuse(c)
  <2>1. results' \in {results, [results EXCEPT ![c] = Append(@, "refused")]}
        /\ pc' = [pc EXCEPT ![c] = "done"] /\ inbox' = inbox
    BY <1>4 DEF Refuse, Answer, Told
  <2>2. Closed(c, "refused", "none")'
    BY <1>1, <1>4, <2>1, TellOnce, LogQuiet DEF Closed, Words
  <2> QED BY <1>1, <1>2, <1>4, <2>1, <2>2, TellOnce, LogQuiet DEF CallMove, Words
<1>5. CASE /\ pc[c] # "mcp" /\ UNCHANGED inbox
           /\ Answer(c, "refused") /\ results' = [results EXCEPT ![c] = Append(@, "refused")]
           /\ audit' = Logged(c, "blocked")
  <2>1. pc' = [pc EXCEPT ![c] = "done"]
    BY <1>5 DEF Answer
  <2>2. results'[c] = <<"refused">>
    BY <1>1, <1>5 DEF TypeOK
  <2>3. Closed(c, "refused", "blocked")'
    BY <1>1, <1>5, <2>1, <2>2, LogOnce DEF Closed
  <2> QED BY <1>1, <1>2, <1>5, <2>1, <2>2, <2>3, TellOnce, LogOnce DEF CallMove, Words
<1>6. CASE Answer(c, "failed") /\ audit' = Logged(c, "blocked")
  <2>1. results' \in {results, [results EXCEPT ![c] = Append(@, "failed")]}
        /\ pc' = [pc EXCEPT ![c] = "done"]
    BY <1>6 DEF Answer, Told
  <2>2. Closed(c, "failed", "blocked")'
    BY <1>1, <1>6, <2>1, TellOnce, LogOnce DEF Closed, Words
  <2> QED BY <1>1, <1>6, <2>1, <2>2, TellOnce, LogOnce DEF CallMove, Words
<1>7. Send(c) \/ (\E at \in Steps \ {"unsent", "mcp", "done"} : Suspend(c, at)) =>
        \E at \in Steps \ {"unsent", "done"} : pc' = [pc EXCEPT ![c] = at] /\ UNCHANGED results
  BY DEF Send, Suspend, Steps
<1> QED BY <1>3, <1>4, <1>5, <1>6, <1>7

\* A reply settles the call that waits for it, by what was done.
LEMMA ReplySettles ==
  ASSUME TypeOK, WireInv, TellInv, NEW c \in Calls, ReplyStep(c), pc[c] = "mcp"
  PROVE  CallMove(c)
<1> DEFINE ok == Head(replies).ok
<1>1. ReplyLogs(c, ok) /\ UNCHANGED executed /\ pc \in [Calls -> Steps]
  BY DEF ReplyStep, calls, TypeOK
<1>2. ok = (executed[c] = "ok")
  <2>1. Head(replies) = replies[1] /\ 1 \in DOMAIN replies
    BY ShrinkFacts DEF ReplyStep, TypeOK
  <2> QED BY <2>1, Zenon DEF WireInv, ReplyStep
<1>3. CASE ok
  <2>1. Answer(c, "ok") /\ audit' = Logged(c, "done")
    BY <1>1, <1>3, Zenon DEF ReplyLogs
  <2>2. results' \in {results, [results EXCEPT ![c] = Append(@, "ok")]}
        /\ pc' = [pc EXCEPT ![c] = "done"]
    BY <2>1 DEF Answer, Told
  <2>3. Closed(c, "ok", "done")'
    BY <1>1, <2>1, <2>2, TellOnce, LogOnce DEF Closed, Words
  <2>4. executed[c] = "ok" /\ executed'[c] = "ok"
    BY <1>1, <1>2, <1>3
  <2> QED BY <1>1, <2>1, <2>2, <2>3, <2>4, TellOnce, LogOnce DEF CallMove, Words
<1>4. CASE ~ok
  <2>1. Answer(c, "failed") /\ audit' = Logged(c, "blocked")
    BY <1>1, <1>4, Zenon DEF ReplyLogs
  <2>2. results' \in {results, [results EXCEPT ![c] = Append(@, "failed")]}
        /\ pc' = [pc EXCEPT ![c] = "done"]
    BY <2>1 DEF Answer, Told
  <2>3. Closed(c, "failed", "blocked")'
    BY <1>1, <2>1, <2>2, TellOnce, LogOnce DEF Closed, Words
  <2> QED BY <1>1, <2>1, <2>2, <2>3, TellOnce, LogOnce DEF CallMove, Words
<1> QED BY <1>3, <1>4
\* The container's step: the project changes, nobody is told.
Executes ==
  /\ UNCHANGED calls
  /\ \E c \in Calls :
       /\ OnWire(c) /\ executed[c] = "no"
       /\ \E o \in {"ok", "error", "partial"} : executed' = [executed EXCEPT ![c] = o]
       /\ \A d \in Calls : OnWire(d)' => OnWire(d) /\ d # c

\* Of the wire a handler only changes whether its own call is on it.
OwnWire(c) == UNCHANGED executed /\ \A d \in Calls \ {c} : OnWire(d)' => OnWire(d)

\* Every step settles one call, opens it further, executes one, or none of this.
LEMMA CallSteps ==
  ASSUME TypeOK, WireInv, TellInv, [Next]_vars
  PROVE  \/ \E c \in Calls : CallMove(c) /\ OwnWire(c)
         \/ Executes
         \/ UNCHANGED <<calls, inbox, executed>>
<1>1. ASSUME NEW c \in Calls, HandlerStep(c)
      PROVE  CallMove(c) /\ OwnWire(c)
  <2>1. Send(c) \/ UNCHANGED inbox
    BY <1>1 DEF HandlerStep, Suspend, Refuse
  <2>2. OwnWire(c)
    BY <1>1, <2>1, SendWire DEF HandlerStep, OwnWire, OnWire
  <2> QED BY <1>1, <2>2, HandlerSettles
<1>2. ASSUME NEW c \in Calls, ReplyStep(c)
      PROVE  \/ CallMove(c) /\ OwnWire(c)
             \/ UNCHANGED <<calls, inbox, executed>>
  BY <1>2, ReplySettles DEF ReplyStep, OwnWire, OnWire
<1>3. ASSUME ContainerExecutes PROVE Executes
  <2>1. /\ Head(inbox) \in Calls /\ OnWire(Head(inbox))
        /\ \A d \in Calls : OnWire(d)' => OnWire(d) /\ d # Head(inbox)
    BY <1>3, TakeWire DEF ContainerExecutes, TypeOK, WireInv
  <2>2. executed[Head(inbox)] = "no"
    BY <2>1 DEF WireInv
  <2>3. \E o \in {"ok", "error", "partial"} : executed' = [executed EXCEPT ![Head(inbox)] = o]
    BY <1>3 DEF ContainerExecutes, Outcomes
  <2> QED BY <1>3, <2>1, <2>2, <2>3 DEF ContainerExecutes, Executes
<1> QED BY <1>1, <1>2, <1>3, StepKinds

\* At most one outcome is one position at most.
LEMMA AtMostOne ==
  ASSUME NEW q, \A k, l \in DOMAIN q : {q[k], q[l]} \subseteq {"done", "blocked"} => k = l
  PROVE  Cardinality({k \in DOMAIN q : q[k] \in {"done", "blocked"}}) <= 1
<1> DEFINE P == {k \in DOMAIN q : q[k] \in {"done", "blocked"}}
<1>1. CASE P = {}
  BY <1>1, FS_EmptySet
<1>2. CASE P # {}
  <2>1. PICK k \in P : P = {k}
    BY <1>2
  <2> QED BY <2>1, FS_Singleton
<1> QED BY <1>1, <1>2

\* What is said of a call is true.
TrueOf(c) ==
  /\ Has(results[c], "ok") => executed[c] = "ok"
  /\ Has(results[c], "refused") => Untouched(c)
  /\ Has(audit[c], "done") => executed[c] = "ok"
  /\ Len(results[c]) <= 1

TruthInv == TellInv /\ \A c \in Calls : TrueOf(c)

\* It is what the two properties say.
LEMMA TruthIs == TruthInv => AgentToldTruth /\ LogTruthful
<1> SUFFICES ASSUME TruthInv PROVE AgentToldTruth /\ LogTruthful
  OBVIOUS
<1>1. AgentToldTruth
  BY DEF TruthInv, TrueOf, Untouched, AgentToldTruth
<1>2. ASSUME NEW c \in Calls
      PROVE  Cardinality({k \in DOMAIN audit[c] : audit[c][k] \in {"done", "blocked"}}) <= 1
  BY AtMostOne DEF TruthInv, TellInv
<1> QED BY <1>1, <1>2 DEF TruthInv, TrueOf, LogTruthful

\* At the start nobody was told anything.
LEMMA InitTruth == Init => TruthInv
  BY DEF Init, TruthInv, TellInv, TrueOf, Has

\* Words of an open or settled call.
LEMMA SaidFacts ==
  /\ Len(<<>>) = 0 /\ \A x : ~Has(<<>>, x)
  /\ \A w, x : Len(<<w>>) = 1 /\ (Has(<<w>>, x) <=> x = w)
  BY DEF Has

\* What was said of a call that is settled by w and e.
LEMMA ClosedSays ==
  ASSUME NEW c \in Calls, NEW w, NEW e, Closed(c, w, e)'
  PROVE  /\ Len(results'[c]) <= 1 /\ \A x : Has(results'[c], x) => x = w
         /\ Has(audit'[c], "done") => e = "done"
<1>1. results'[c] = <<>> \/ results'[c] = <<w>>
  BY DEF Closed
<1>2. Len(results'[c]) <= 1
  <2>1. CASE results'[c] = <<>>
    BY <2>1
  <2>2. CASE results'[c] = <<w>>
    BY <2>2
  <2> QED BY <1>1, <2>1, <2>2
<1>3. \A x : Has(results'[c], x) => x = w
  BY <1>1, SaidFacts, Zenon
<1>4. Has(audit'[c], "done") => e = "done"
  BY Zenon DEF Closed, OutcomeIs
<1> QED BY <1>2, <1>3, <1>4

\* A call that is settled is told the truth.
LEMMA MoveTruth ==
  ASSUME TypeOK, TruthInv, NEW c \in Calls, CallMove(c), OwnWire(c)
  PROVE  TruthInv'
<1>1. ASSUME NEW d \in Calls \ {c}
      PROVE  /\ results'[d] = results[d] /\ audit'[d] = audit[d] /\ pc'[d] = pc[d]
             /\ executed'[d] = executed[d]
             /\ Untouched(d) => Untouched(d)'
  BY DEF CallMove, OwnWire, Untouched
<1>2. TrueOf(c)'
  <2>1. CASE Open(c)'
    BY <2>1, SaidFacts DEF Open, TrueOf, Has
  <2>2. CASE Closed(c, "refused", "none")' /\ Untouched(c)'
    <3>1. /\ Len(results'[c]) <= 1 /\ \A x : Has(results'[c], x) => x = "refused"
          /\ ~Has(audit'[c], "done")
      BY <2>2, ClosedSays
    <3> QED BY <2>2, <3>1 DEF TrueOf
  <2>3. CASE Closed(c, "refused", "blocked")' /\ Untouched(c)'
    <3>1. /\ Len(results'[c]) <= 1 /\ \A x : Has(results'[c], x) => x = "refused"
          /\ ~Has(audit'[c], "done")
      BY <2>3, ClosedSays
    <3> QED BY <2>3, <3>1 DEF TrueOf
  <2>4. CASE Closed(c, "failed", "blocked")'
    <3>1. /\ Len(results'[c]) <= 1 /\ \A x : Has(results'[c], x) => x = "failed"
          /\ ~Has(audit'[c], "done")
      BY <2>4, ClosedSays
    <3> QED BY <2>4, <3>1 DEF TrueOf
  <2>5. CASE Closed(c, "ok", "done")' /\ executed'[c] = "ok"
    <3>1. /\ Len(results'[c]) <= 1 /\ \A x : Has(results'[c], x) => x = "ok"
          /\ executed'[c] = "ok"
      BY <2>5, ClosedSays
    <3> QED BY <2>5, <3>1 DEF TrueOf
  <2> QED BY <2>1, <2>2, <2>3, <2>4, <2>5 DEF CallMove
<1>3. /\ pc'[c] # "done" => /\ results'[c] = <<>>
                            /\ \A k \in DOMAIN audit'[c] : audit'[c][k] = "sensitive"
      /\ \A k, l \in DOMAIN audit'[c] :
           {audit'[c][k], audit'[c][l]} \subseteq {"done", "blocked"} => k = l
      /\ pc'[c] = "done" =>
           Has(audit'[c], "done") \/ Has(audit'[c], "blocked") \/ Untouched(c)'
  BY DEF CallMove, Open, Closed, OutcomeIs
<1>4. ASSUME NEW d \in Calls \ {c}
      PROVE  /\ TrueOf(d)'
             /\ pc'[d] # "done" => /\ results'[d] = <<>>
                                   /\ \A k \in DOMAIN audit'[d] : audit'[d][k] = "sensitive"
             /\ \A k, l \in DOMAIN audit'[d] :
                  {audit'[d][k], audit'[d][l]} \subseteq {"done", "blocked"} => k = l
             /\ pc'[d] = "done" =>
                  Has(audit'[d], "done") \/ Has(audit'[d], "blocked") \/ Untouched(d)'
  <2>1. /\ results'[d] = results[d] /\ audit'[d] = audit[d] /\ executed'[d] = executed[d]
        /\ Untouched(d) => Untouched(d)'
    BY <1>1
  <2>2. TrueOf(d)'
    BY <2>1, Zenon DEF TruthInv, TrueOf
  <2> QED BY <1>1, <2>2 DEF TruthInv, TellInv
<1> QED BY <1>2, <1>3, <1>4 DEF TruthInv, TellInv

\* What was said stays true when the container executes a call.
LEMMA ExecuteTruth ==
  ASSUME TypeOK, TruthInv, Executes
  PROVE  TruthInv'
<1>1. PICK c \in Calls :
        /\ OnWire(c) /\ executed[c] = "no"
        /\ \E o \in {"ok", "error", "partial"} : executed' = [executed EXCEPT ![c] = o]
        /\ \A d \in Calls : OnWire(d)' => OnWire(d) /\ d # c
  BY DEF Executes
<1>2. UNCHANGED <<pc, results, audit>>
  BY DEF Executes, calls
<1>3. TrueOf(c)'
  BY <1>1, <1>2 DEF TruthInv, TrueOf, Untouched
<1>4. ASSUME NEW d \in Calls \ {c} PROVE TrueOf(d)'
  <2>1. executed'[d] = executed[d] /\ (Untouched(d) => Untouched(d)')
    BY <1>1 DEF Untouched, TypeOK
  <2> QED BY <1>2, <2>1 DEF TruthInv, TrueOf
<1>5. ASSUME NEW d \in Calls, pc'[d] = "done"
      PROVE  Has(audit'[d], "done") \/ Has(audit'[d], "blocked") \/ Untouched(d)'
  <2>1. d # c => (Untouched(d) => Untouched(d)')
    BY <1>1 DEF Untouched, TypeOK
  <2>2. Has(audit[d], "done") \/ Has(audit[d], "blocked") \/ (d # c /\ Untouched(d))
    BY <1>1, <1>2, <1>5 DEF TruthInv, TellInv, Untouched
  <2> QED BY <1>2, <2>1, <2>2
<1> QED BY <1>2, <1>3, <1>4, <1>5 DEF TruthInv, TellInv

\* Every step keeps TruthInv.
LEMMA TruthStep == TypeOK /\ WireInv /\ TruthInv /\ [Next]_vars => TruthInv'
<1>1. TruthInv /\ UNCHANGED <<calls, inbox, executed>> => TruthInv'
  BY DEF TruthInv, TellInv, TrueOf, Untouched, OnWire, calls
<1> QED BY <1>1, CallSteps, MoveTruth, ExecuteTruth DEF TruthInv

\* Whatever is said of a call is true of it.
THEOREM SessionTruth == Spec => []TruthInv
<1> QED BY InitTruth, TruthStep, SessionTypeOK, SessionWire, PTL DEF Spec

\* The agent is told the truth of each call, once: a success only of what was
\* done, a refusal only of what was not and will not be (cli.ts, sendResult).
THEOREM SessionAgentToldTruth == Spec => []AgentToldTruth
<1> QED BY TruthIs, SessionTruth, PTL

\* The audit log has at most one outcome per call and says done only of what the
\* container did (cli.ts, auditLog.record).
THEOREM SessionLogTruthful == Spec => []LogTruthful
<1> QED BY TruthIs, SessionTruth, PTL

\* No operation escapes the log: an ended call without an outcome in it was never
\* sent and never will be (cli.ts, the timeouts and rejections of mcp:call).
THEOREM SessionOperationsLogged == Spec => []OperationsLogged
<1>1. TruthInv => OperationsLogged
  BY DEF TruthInv, TellInv, OperationsLogged
<1> QED BY <1>1, SessionTruth, PTL

-----------------------------------------------------------------------------
(* Refinement: the session implements the service of single calls.          *)

FateNow == [c \in Calls |-> Fate(c)]

\* At the start no call is done, settled or told.
LEMMA InitService == Init => CallService!Init
<1> SUFFICES ASSUME Init PROVE CallService!Init
  OBVIOUS
<1>1. \A c \in Calls : Fate(c) = "open"
  BY DEF Init, Fate
<1> QED BY <1>1 DEF Init, CallService!Init

\* The fate of a call whose bookkeeping stays.
LEMMA SameFate ==
  ASSUME NEW d \in Calls,
         pc'[d] = pc[d], results'[d] = results[d], audit'[d] = audit[d]
  PROVE  Fate(d)' = Fate(d)
  BY Zenon DEF Fate

\* The fate of a call that is settled by w and e.
LEMMA ClosedFate ==
  ASSUME NEW c \in Calls
  PROVE  /\ Closed(c, "ok", "done")' => Fate(c)' = "ok"
         /\ Closed(c, "failed", "blocked")' => Fate(c)' = "failed"
         /\ Closed(c, "refused", "none")' => Fate(c)' = "refused"
         /\ Closed(c, "refused", "blocked")' /\ results'[c] = <<"refused">>
              => Fate(c)' = "refused"
<1>1. ASSUME Closed(c, "ok", "done")' PROVE Fate(c)' = "ok"
  BY <1>1 DEF Closed, OutcomeIs, Fate
<1>2. ASSUME Closed(c, "failed", "blocked")' PROVE Fate(c)' = "failed"
  <2>1. ~Has(results'[c], "refused")
    <3>1. \A x : Has(results'[c], x) => x = "failed"
      BY <1>2, ClosedSays
    <3> QED BY <3>1
  <2> QED BY <1>2, <2>1 DEF Closed, OutcomeIs, Fate
<1>3. ASSUME Closed(c, "refused", "none")' PROVE Fate(c)' = "refused"
  BY <1>3 DEF Closed, OutcomeIs, Fate
<1>4. ASSUME Closed(c, "refused", "blocked")', results'[c] = <<"refused">>
      PROVE  Fate(c)' = "refused"
  <2>1. Has(results'[c], "refused")
    BY <1>4, SaidFacts
  <2> QED BY <1>4, <2>1 DEF Closed, OutcomeIs, Fate
<1> QED BY <1>1, <1>2, <1>3, <1>4

\* The step that settles a call is the service's Settle; one that leaves it open
\* changes nothing the service has.
LEMMA MoveServes ==
  ASSUME TypeOK, TypeOK', TruthInv, NEW c \in Calls, CallMove(c), OwnWire(c)
  PROVE  [CallService!Next]_(CallService!cvars)
<1>1. \A d \in Calls \ {c} : Fate(d)' = Fate(d) /\ results'[d] = results[d]
  BY SameFate DEF CallMove
<1>2. Fate(c) = "open" /\ results[c] = <<>> /\ executed' = executed
  BY DEF Fate, CallMove, OwnWire, TruthInv, TellInv
<1>3. CASE Open(c)'
  <2>1. Fate(c)' = "open" /\ results'[c] = <<>>
    BY <1>3 DEF Fate, Open
  <2>2. FateNow' = FateNow
    BY <1>1, <1>2, <2>1 DEF FateNow
  <2>3. results' = results
    BY <1>1, <1>2, <2>1 DEF TypeOK
  <2> QED BY <1>2, <2>2, <2>3 DEF FateNow, CallService!cvars
<1>4. ASSUME NEW f \in Words, NEW e, Closed(c, f, e)', Fate(c)' = f,
             f = "ok" => executed[c] = "ok", f = "refused" => executed[c] = "no"
      PROVE  CallService!Next
  <2>1. FateNow' = [FateNow EXCEPT ![c] = f]
    BY <1>1, <1>4 DEF FateNow
  <2>2. results' \in {results, [results EXCEPT ![c] = <<f>>]}
    <3>1. results'[c] = <<>> \/ results'[c] = <<f>>
      BY <1>4 DEF Closed
    <3>2. CASE results'[c] = <<>>
      <4>1. results' = results
        BY <1>1, <1>2, <3>2 DEF TypeOK
      <4> QED BY <4>1
    <3>3. CASE results'[c] = <<f>>
      <4>1. results' = [results EXCEPT ![c] = <<f>>]
        BY <1>1, <3>3 DEF TypeOK
      <4> QED BY <4>1
    <3> QED BY <3>1, <3>2, <3>3
  <2>3. CallService!Settle(c, f)
    BY <1>2, <1>4, <2>1, <2>2 DEF CallService!Settle, FateNow
  <2> QED BY <1>4, <2>3 DEF CallService!Next, Words
<1>5. CASE Closed(c, "ok", "done")' /\ executed[c] = "ok"
  BY <1>4, <1>5, ClosedFate DEF Words
<1>6. CASE Closed(c, "failed", "blocked")'
  BY <1>4, <1>6, ClosedFate DEF Words
<1>7. CASE Closed(c, "refused", "none")' /\ Untouched(c)'
  BY <1>2, <1>4, <1>7, ClosedFate DEF Words, Untouched
<1>8. CASE Closed(c, "refused", "blocked")' /\ results'[c] = <<"refused">> /\ Untouched(c)'
  BY <1>2, <1>4, <1>8, ClosedFate DEF Words, Untouched
<1> QED BY <1>3, <1>5, <1>6, <1>7, <1>8 DEF CallMove

\* What the container executes was not refused or done before.
LEMMA ExecuteServes ==
  ASSUME TypeOK, WireInv, TruthInv, Executes
  PROVE  CallService!Next
<1>1. PICK c \in Calls :
        /\ OnWire(c) /\ executed[c] = "no"
        /\ \E o \in {"ok", "error", "partial"} : executed' = [executed EXCEPT ![c] = o]
  BY DEF Executes
<1>2. UNCHANGED <<pc, results, audit>>
  BY DEF Executes, calls
<1>3. FateNow' = FateNow
  <2>1. \A d \in Calls : Fate(d)' = Fate(d)
    BY <1>2, SameFate
  <2> QED BY <2>1 DEF FateNow
<1>4. Fate(c) \in {"open", "failed"}
  <2>1. ~Has(audit[c], "done") /\ ~Has(results[c], "refused")
    BY <1>1 DEF TruthInv, TrueOf, Untouched
  <2>2. pc[c] = "done" => Has(audit[c], "blocked")
    BY <1>1, <2>1 DEF TruthInv, TellInv, Untouched
  <2> QED BY <2>1, <2>2 DEF Fate
<1>5. CallService!Do(c)
  BY <1>1, <1>2, <1>3, <1>4 DEF CallService!Do, FateNow
<1> QED BY <1>5 DEF CallService!Next

\* Every step is a step of the service or leaves it alone.
LEMMA ServiceStep ==
  TypeOK /\ WireInv /\ TruthInv /\ [Next]_vars => [CallService!Next]_(CallService!cvars)
<1>1. ASSUME UNCHANGED <<calls, inbox, executed>>
      PROVE  UNCHANGED CallService!cvars
  <2>1. \A d \in Calls : Fate(d)' = Fate(d)
    BY <1>1, SameFate DEF calls
  <2>2. FateNow' = FateNow
    BY <2>1 DEF FateNow
  <2> QED BY <1>1, <2>2 DEF FateNow, calls, CallService!cvars
<1> QED BY <1>1, CallSteps, MoveServes, ExecuteServes, TypeStep DEF TruthInv

\* The session implements the service of single calls: whatever the prompts, the
\* scans, the timeouts and the ends of the session do to a handler, each call is
\* done at most once, settled at most once, and settled as it was done.
THEOREM SessionImplementsCallService == Spec => ImplementsCallService
<1> QED BY InitService, ServiceStep, SessionTypeOK, SessionWire, SessionTruth, PTL
        DEF Spec, ImplementsCallService, CallService!Spec

-----------------------------------------------------------------------------
(* VetInv: what a write has behind it.                                      *)

\* A step of c's handler leaves the other calls as guarded as they were.
LEMMA VetOthers ==
  ASSUME VetInv, NEW c \in Calls, OwnWire(c), UNCHANGED req,
         \A d \in Calls \ {c} :
           pc'[d] = pc[d] /\ typed'[d] = typed[d] /\ verdict'[d] = verdict[d],
         disabled => disabled', disabled' => Supervised, Guarded(c)'
  PROVE  VetInv'
<1>1. ASSUME NEW d \in Calls \ {c}
      PROVE  Guarded(d)'
  <2>1. Guarded(d) /\ executed' = executed
    BY DEF VetInv, OwnWire
  <2>2. /\ pc'[d] = pc[d] /\ typed'[d] = typed[d] /\ verdict'[d] = verdict[d]
        /\ req' = req /\ (OnWire(d)' => OnWire(d))
    BY DEF OwnWire
  <2>3. Vetted(d) => Vetted(d)'
    BY <2>2 DEF Vetted, LetThrough, Retried
  <2> QED BY <2>1, <2>2, <2>3 DEF Guarded, ScanSteps, Untouched, IsWrite
<1> QED BY <1>1 DEF VetInv

\* A call that ends before its request is sent needs nothing.
LEMMA EndsGuarded ==
  ASSUME TypeOK, WireInv, NEW c \in Calls, pc[c] \notin {"mcp", "done"},
         NEW at \in {"done", "ended"}, pc' = [pc EXCEPT ![c] = at],
         UNCHANGED <<inbox, executed>>
  PROVE  Guarded(c)' /\ OwnWire(c)
<1>1. pc'[c] = at
  BY DEF TypeOK
<1>2. Untouched(c)'
  BY DEF WireInv, Untouched, OnWire
<1>3. OwnWire(c)
  BY DEF OwnWire, OnWire
<1> QED BY <1>1, <1>2, <1>3 DEF Guarded, ScanSteps, SovPrompts

\* A write that is suspended needs what its place asks for.
LEMMA SuspendGuarded ==
  ASSUME TypeOK, WireInv, NEW c \in Calls, pc[c] \notin {"mcp", "done"},
         NEW at \in {"approval"} \cup ScanSteps \cup SovPrompts, Suspend(c, at),
         IsWrite(c), ~req[c].forbidden, UNCHANGED <<req, executed>>,
         Supervised /\ at # "approval" => <<"approval", "true">> \in typed'[c]
  PROVE  Guarded(c)' /\ OwnWire(c)
<1>1. pc'[c] = at /\ inbox' = inbox
  BY DEF TypeOK, Suspend
<1>2. Untouched(c)'
  BY <1>1 DEF WireInv, Untouched, OnWire
<1>3. OwnWire(c)
  BY <1>1 DEF OwnWire, OnWire
<1> QED BY <1>1, <1>2, <1>3 DEF Guarded, ScanSteps, SovPrompts, IsWrite

\* A write that is sent needs all of it.
LEMMA SendGuarded ==
  ASSUME TypeOK, NEW c \in Calls, Send(c), IsWrite(c) => Vetted(c)',
         UNCHANGED <<req, executed>>
  PROVE  Guarded(c)' /\ OwnWire(c)
<1>1. pc'[c] = "mcp"
  BY DEF TypeOK, Send
<1>2. OwnWire(c)
  BY SendWire DEF OwnWire
<1> QED BY <1>1, <1>2 DEF Guarded, ScanSteps, SovPrompts, IsWrite

\* The gate: a write goes unscanned if nothing is to be scanned.
LEMMA GateGuarded ==
  ASSUME TypeOK, WireInv, NEW c \in Calls, pc[c] \notin {"mcp", "done"}, Gate(c),
         ~req[c].forbidden, UNCHANGED <<req, executed, disabled, verdict>>,
         disabled => Supervised,
         Supervised /\ IsWrite(c) => <<"approval", "true">> \in typed'[c]
  PROVE  Guarded(c)' /\ OwnWire(c)
<1>1. CASE Refuse(c)
  BY <1>1, EndsGuarded DEF Refuse, Answer
<1>2. CASE Scanned(c) /\ Suspend(c, "scan")
  BY <1>2, SuspendGuarded DEF Scanned, ScanSteps
<1>3. CASE ~Scanned(c) /\ Send(c)
  <2>1. IsWrite(c) => Vetted(c)'
    BY <1>3 DEF Scanned, Vetted, IsWrite
  <2> QED BY <1>3, <2>1, SendGuarded
<1> QED BY <1>1, <1>2, <1>3 DEF Gate

\* At the start nothing is on its way.
LEMMA InitVet == Init => VetInv
  BY DEF Init, VetInv, Guarded, ScanSteps, Untouched, OnWire, SovPrompts

\* A call arrives.
LEMMA ArriveVet ==
  ASSUME TypeOK, WireInv, VetInv, NEW c \in Calls, Arrive(c)
  PROVE  VetInv'
<1>1. /\ pc[c] = "unsent" /\ pc \in [Calls -> Steps]
      /\ UNCHANGED <<req, typed, verdict, disabled, executed>>
      /\ disabled => Supervised
  BY DEF Arrive, TypeOK, VetInv, scans
<1>2. Guarded(c)' /\ OwnWire(c)
  <2>1. CASE ArriveBlocked(c)
    BY <1>1, <2>1, EndsGuarded DEF ArriveBlocked, Answer
  <2>2. CASE ArriveAllowed(c) /\ IsWrite(c) /\ Suspend(c, "approval")
    BY <1>1, <2>2, SuspendGuarded DEF ArriveAllowed, Blocked
  <2>3. CASE ArriveAllowed(c) /\ ~(Supervised /\ IsWrite(c)) /\ Gate(c)
    BY <1>1, <2>3, GateGuarded DEF ArriveAllowed, Blocked
  <2> QED BY <2>1, <2>2, <2>3 DEF Arrive, ArriveAllowed
<1>3. \A d \in Calls \ {c} : pc'[d] = pc[d]
  <2>1. \E at : pc' = [pc EXCEPT ![c] = at]
    BY GateStep DEF Arrive, ArriveBlocked, ArriveAllowed, Answer, Refuse, Suspend, Send
  <2> QED BY <1>1, <2>1
<1> QED BY <1>1, <1>2, <1>3, VetOthers

\* A write prompt returns: only 'true' lets the write on.
LEMMA AfterApprovalVet ==
  ASSUME TypeOK, WireInv, FlowInv, VetInv, NEW c \in Calls, AfterApproval(c)
  PROVE  VetInv'
<1>1. /\ pc[c] = "approval" /\ pc \in [Calls -> Steps]
      /\ UNCHANGED <<req, verdict, disabled, executed>>
      /\ disabled => Supervised
      /\ IsWrite(c) /\ ~req[c].forbidden
  BY DEF AfterApproval, TypeOK, VetInv, Guarded, ScanSteps, scans
<1>2. /\ typed' = [typed EXCEPT ![c] = @ \cup {<<pc[c], answer[c]>>}]
      /\ <<"approval", answer[c]>> \in typed'[c]
  BY DEF AfterApproval, Heard, TypeOK
<1>3. Guarded(c)' /\ OwnWire(c)
  <2>1. CASE Refuse(c)
    BY <1>1, <2>1, EndsGuarded DEF Refuse, Answer
  <2>2. CASE answer[c] = "true" /\ Suspend(c, "oversize")
    BY <1>1, <1>2, <2>2, SuspendGuarded DEF SovPrompts
  <2>3. CASE answer[c] = "true" /\ Gate(c)
    BY <1>1, <1>2, <2>3, GateGuarded
  <2> QED BY <2>1, <2>2, <2>3 DEF AfterApproval, RejectWrite, ApproveWrite
<1>4. \A d \in Calls \ {c} : pc'[d] = pc[d]
  <2>1. \E at : pc' = [pc EXCEPT ![c] = at]
    BY GateStep DEF AfterApproval, RejectWrite, ApproveWrite, Answer, Refuse, Suspend, Send
  <2> QED BY <1>1, <2>1
<1>5. \A d \in Calls \ {c} : typed'[d] = typed[d]
  BY <1>2 DEF TypeOK
<1> QED BY <1>1, <1>3, <1>4, <1>5, VetOthers

\* A SovGuard prompt returns: the write goes on with the buyer's decision behind
\* it; only a failure prompt, in supervised mode, disables scanning.
LEMMA AfterSovguardVet ==
  ASSUME TypeOK, WireInv, FlowInv, VetInv, NEW c \in Calls, AfterSovguard(c)
  PROVE  VetInv'
<1>1. /\ pc[c] \in SovPrompts /\ pc \in [Calls -> Steps]
      /\ UNCHANGED <<req, verdict, executed>>
      /\ Supervised
      /\ IsWrite(c) /\ ~req[c].forbidden /\ <<"approval", "true">> \in typed[c]
  BY DEF AfterSovguard, TypeOK, VetInv, Guarded, ScanSteps, FlowInv, AtPrompt
<1>2. typed' = [typed EXCEPT ![c] = @ \cup {<<pc[c], answer[c]>>}]
  BY DEF AfterSovguard, Heard
<1>3. <<pc[c], answer[c]>> \in typed'[c] /\ typed[c] \subseteq typed'[c]
  BY <1>2 DEF TypeOK
<1>4. Guarded(c)' /\ OwnWire(c)
  <2>1. CASE Refuse(c)
    BY <1>1, <2>1, EndsGuarded DEF Refuse, Answer, SovPrompts
  <2>2. CASE Suspend(c, "ended")
    BY <1>1, <2>2, EndsGuarded DEF Suspend, SovPrompts
  <2>3. CASE answer[c] \in {"approve", "report"} /\ Send(c)
    <3>1. Vetted(c)'
      <4>1. CASE pc[c] = "failing" /\ answer[c] = "approve"
        BY <1>1, <1>3, <4>1 DEF Vetted, Retried
      <4>2. CASE pc[c] = "failing" /\ answer[c] = "report"
        <5>1. AllowScan(c)
          BY <4>2 DEF AfterSovguard, RejectScan, AbortSession
        <5>2. disabled'
          BY <4>2, <5>1, Zenon DEF AllowScan
        <5> QED BY <1>1, <1>3, <5>2 DEF Vetted
      <4>3. CASE pc[c] \in {"oversize", "unreachable", "flagged"}
        <5>1. <<pc[c], answer[c]>> \in
                {"oversize", "unreachable", "flagged"} \X {"approve", "report"}
          BY <2>3, <4>3
        <5> QED BY <1>1, <1>3, <5>1 DEF Vetted, LetThrough
      <4> QED BY <1>1, <2>3, <4>1, <4>2, <4>3 DEF SovPrompts
    <3> QED BY <1>1, <2>3, <3>1, SendGuarded
  <2> QED BY <2>1, <2>2, <2>3 DEF AfterSovguard, RejectScan, AbortSession, AllowScan
<1>5. \A d \in Calls \ {c} : pc'[d] = pc[d]
  <2>1. \E at : pc' = [pc EXCEPT ![c] = at]
    BY DEF AfterSovguard, RejectScan, AbortSession, AllowScan, Answer, Refuse, Suspend, Send
  <2> QED BY <1>1, <2>1
<1>6. \A d \in Calls \ {c} : typed'[d] = typed[d]
  BY <1>2 DEF TypeOK
<1>7. disabled => disabled'
  BY Zenon DEF AfterSovguard, RejectScan, AbortSession, AllowScan
<1> QED BY <1>1, <1>4, <1>5, <1>6, <1>7, VetOthers

\* A scan returns: its write goes on only if it is safe.
LEMMA ScanReturnsVet ==
  ASSUME TypeOK, WireInv, VetInv, NEW c \in Calls, ScanReturns(c)
  PROVE  VetInv'
<1>1. /\ pc[c] \in ScanSteps /\ pc \in [Calls -> Steps]
      /\ UNCHANGED <<req, typed, disabled, executed>>
      /\ disabled => Supervised
      /\ IsWrite(c) /\ ~req[c].forbidden
      /\ Supervised => <<"approval", "true">> \in typed[c]
  BY DEF ScanReturns, ScanSteps, TypeOK, VetInv, Guarded
<1>2. Guarded(c)' /\ OwnWire(c)
  <2>1. CASE Refuse(c)
    BY <1>1, <2>1, EndsGuarded DEF Refuse, Answer, ScanSteps
  <2>2. CASE Suspend(c, "ended")
    BY <1>1, <2>2, EndsGuarded DEF Suspend, ScanSteps
  <2>3. ASSUME NEW at \in {"failed", "unreachable", "failing", "flagged"}, Suspend(c, at)
        PROVE  Guarded(c)' /\ OwnWire(c)
    BY <1>1, <2>3, SuspendGuarded DEF ScanSteps, SovPrompts
  <2>4. CASE ScanSafe(c)
    <3>1. Send(c) /\ verdict'[c] = "safe"
      BY <2>4 DEF ScanSafe, TypeOK
    <3>2. Vetted(c)'
      BY <1>1, <3>1 DEF Vetted
    <3> QED BY <1>1, <3>1, <3>2, SendGuarded
  <2> QED BY <2>1, <2>2, <2>3, <2>4
          DEF ScanReturns, ScanFlagged, ScanFails, AfterFailure, ScanUnauthorized, AskOrRefuse
<1>3. \A d \in Calls \ {c} : pc'[d] = pc[d]
  <2>1. \E at : pc' = [pc EXCEPT ![c] = at]
    BY DEF ScanReturns, ScanSafe, ScanFlagged, ScanFails, AfterFailure, ScanUnauthorized,
       AskOrRefuse, Answer, Refuse, Suspend, Send
  <2> QED BY <1>1, <2>1
<1>4. \A d \in Calls \ {c} : verdict'[d] = verdict[d]
  BY DEF ScanReturns, ScanSafe, ScanFlagged, ScanFails, AfterFailure, ScanUnauthorized,
     TypeOK
<1> QED BY <1>1, <1>2, <1>3, <1>4, VetOthers

\* A scan's status comes, or a request times out: the write keeps what it has.
LEMMA WaitingVet ==
  ASSUME TypeOK, WireInv, VetInv, NEW c \in Calls, StatusComes(c) \/ McpTimeout(c)
  PROVE  VetInv'
<1>1. /\ UNCHANGED <<req, typed, verdict, disabled, inbox, executed>>
      /\ pc \in [Calls -> Steps] /\ (disabled => Supervised) /\ Guarded(c)
  BY DEF StatusComes, McpTimeout, scans, box, TypeOK, VetInv
<1>2. OwnWire(c)
  BY <1>1 DEF OwnWire, OnWire
<1>3. \/ UNCHANGED pc
      \/ pc[c] = "scan" /\ pc' = [pc EXCEPT ![c] = "body"]
      \/ pc[c] = "mcp" /\ pc' = [pc EXCEPT ![c] = "done"]
  BY DEF StatusComes, McpTimeout, Answer
<1>4. Guarded(c)'
  <2>1. Vetted(c) => Vetted(c)'
    BY <1>1 DEF Vetted, LetThrough, Retried
  <2>2. Untouched(c) => Untouched(c)'
    BY <1>1 DEF Untouched, OnWire
  <2> QED BY <1>1, <1>3, <2>1, <2>2 DEF Guarded, ScanSteps, SovPrompts, IsWrite
<1> QED BY <1>1, <1>2, <1>3, <1>4, VetOthers

\* A request that is executed or answered was vetted when it was sent.
LEMMA ServedVet ==
  ASSUME TypeOK, WireInv, VetInv, ContainerExecutes \/ McpReply
  PROVE  VetInv'
<1>1. UNCHANGED <<req, typed, verdict, disabled>> /\ (disabled => Supervised)
  BY DEF ContainerExecutes, McpReply, scans, VetInv
<1>2. ASSUME NEW d \in Calls
      PROVE  /\ pc'[d] = pc[d] \/ (pc[d] = "mcp" /\ pc'[d] = "done")
             /\ pc[d] = "mcp" \/ ~Untouched(d) \/ Untouched(d)'
  <2>1. CASE ContainerExecutes
    <3>1. /\ OnWire(Head(inbox))
          /\ OnWire(d)' => OnWire(d)
      BY <2>1, TakeWire DEF ContainerExecutes, TypeOK, WireInv
    <3>2. d # Head(inbox) => executed'[d] = executed[d]
      BY <2>1 DEF ContainerExecutes, TypeOK
    <3> QED BY <2>1, <3>1, <3>2 DEF ContainerExecutes, calls, Untouched
  <2>2. CASE McpReply
    <3>1. PICK c \in Calls : ReplyStep(c)
      BY <2>2, ReplySteps
    <3>2. UNCHANGED pc \/ (pc[c] = "mcp" /\ pc' = [pc EXCEPT ![c] = "done"])
      BY <3>1 DEF ReplyStep, ReplyLogs, Answer, calls
    <3>3. Untouched(d) => Untouched(d)'
      BY <3>1 DEF ReplyStep, Untouched, OnWire
    <3> QED BY <3>2, <3>3 DEF TypeOK
  <2> QED BY <2>1, <2>2
<1>3. ASSUME NEW d \in Calls PROVE Guarded(d)'
  <2>1. Guarded(d) /\ (Vetted(d) => Vetted(d)')
    BY <1>1 DEF VetInv, Vetted, LetThrough, Retried
  <2> QED BY <1>1, <1>2, <2>1 DEF Guarded, ScanSteps, SovPrompts, IsWrite
<1> QED BY <1>1, <1>3 DEF VetInv

\* The other steps disturb nothing of this.
LEMMA OtherVet ==
  ASSUME VetInv,
         \/ PromptNext \/ ReportCommand \/ ContainerStops \/ Expire \/ StdinEnds
         \/ EndSession \/ Exit \/ \E i \in Lines : BuyerLine(i)
         \/ \E c \in Calls : ReadScanReturns(c)
         \/ UNCHANGED vars
  PROVE  VetInv'
<1>1. UNCHANGED <<req, pc, inbox, executed>>
  BY OtherSteps DEF calls
<1>2. UNCHANGED <<typed, verdict, disabled>>
  BY DEF PromptNext, ReportCommand, ContainerStops, Expire, StdinEnds, EndSession, Exit,
     BuyerLine, ReadScanReturns, scans, vars
<1> QED BY <1>1, <1>2 DEF VetInv, Guarded, Vetted, LetThrough, Retried, Untouched,
        OnWire, IsWrite

\* Every step keeps VetInv.
LEMMA VetStep == TypeOK /\ WireInv /\ FlowInv /\ VetInv /\ [Next]_vars => VetInv'
  BY ArriveVet, AfterApprovalVet, AfterSovguardVet, ScanReturnsVet, WaitingVet, ServedVet,
     OtherVet DEF Next, Handler

\* No write lands that the buyer was not promised: in supervised mode only what he
\* approved, with SovGuard on only what scanned safe, what he let through or retried
\* at a prompt, or what came after he disabled scanning (cli.ts, the mcp:call handler).
THEOREM SessionNoUnvettedWrite == Spec => []NoUnvettedWrite
<1>1. VetInv => NoUnvettedWrite
  BY DEF VetInv, Guarded, ScanSteps, Untouched, NoUnvettedWrite
<1> QED BY <1>1, InitVet, VetStep, SessionTypeOK, SessionWire, SessionFlow, PTL DEF Spec

-----------------------------------------------------------------------------
(* ReportInv: what is reported as a false positive.                         *)

\* A call whose scan flagged it stays past its scan, and no other call comes to
\* a prompt about a flagged write.
PastScan(d) ==
  pc'[d] # pc[d] =>
    /\ pc'[d] # "flagged"
    /\ pc[d] \in {"flagged", "mcp", "done"} => pc'[d] \in {"mcp", "done"}

LEMMA QuietReports ==
  ASSUME ReportInv, UNCHANGED <<verdict, lastFlagged, reported>>,
         \A d \in Calls : PastScan(d)
  PROVE  ReportInv'
  BY DEF ReportInv, PastScan

\* One call moves.
LEMMA OneMoves ==
  ASSUME TypeOK, NEW c \in Calls, NEW at, pc' = [pc EXCEPT ![c] = at],
         at # "flagged", pc[c] \in {"flagged", "mcp", "done"} => at \in {"mcp", "done"}
  PROVE  \A d \in Calls : PastScan(d)
  BY DEF TypeOK, PastScan

LEMMA InitReport == Init => ReportInv
  BY SupervisorAssumption DEF Init, ReportInv

\* Before the scan, or without one.
LEMMA ArriveReport ==
  ASSUME TypeOK, ReportInv, NEW c \in Calls, Arrive(c) \/ AfterApproval(c)
  PROVE  ReportInv'
<1>1. /\ UNCHANGED <<verdict, lastFlagged, reported>>
      /\ pc[c] \in {"unsent", "approval"}
  BY DEF Arrive, AfterApproval, scans
<1>2. \E at \in {"approval", "scan", "oversize", "mcp", "done"} : pc' = [pc EXCEPT ![c] = at]
  BY GateStep DEF Arrive, ArriveBlocked, ArriveAllowed, AfterApproval, RejectWrite,
     ApproveWrite, Answer, Refuse, Suspend, Send
<1>3. \A d \in Calls : PastScan(d)
  BY <1>1, <1>2, OneMoves
<1> QED BY <1>1, <1>3, QuietReports

\* After it.
LEMMA WaitingReport ==
  ASSUME TypeOK, ReportInv, McpReply \/ \E c \in Calls : StatusComes(c) \/ McpTimeout(c)
  PROVE  ReportInv'
<1>1. UNCHANGED <<verdict, lastFlagged, reported>>
  BY DEF StatusComes, McpTimeout, McpReply, scans
<1>2. \/ UNCHANGED pc
      \/ \E d \in Calls : \/ pc[d] = "scan" /\ pc' = [pc EXCEPT ![d] = "body"]
                          \/ pc[d] = "mcp" /\ pc' = [pc EXCEPT ![d] = "done"]
  <2>1. ASSUME NEW c \in Calls, StatusComes(c) \/ McpTimeout(c)
        PROVE  \/ UNCHANGED pc
               \/ pc[c] = "scan" /\ pc' = [pc EXCEPT ![c] = "body"]
               \/ pc[c] = "mcp" /\ pc' = [pc EXCEPT ![c] = "done"]
    BY <2>1 DEF StatusComes, McpTimeout, Answer
  <2>2. CASE McpReply
    <3>1. PICK d \in Calls : ReplyStep(d)
      BY <2>2, ReplySteps
    <3> QED BY <3>1 DEF ReplyStep, ReplyLogs, Answer, calls
  <2> QED BY <2>1, <2>2
<1>3. \A d \in Calls : PastScan(d)
  BY <1>2, OneMoves DEF PastScan
<1> QED BY <1>1, <1>3, QuietReports

\* The scan's end: a flagged write has not been reported yet.
LEMMA ScanReport ==
  ASSUME TypeOK, ReportInv, NEW c \in Calls, ScanReturns(c)
  PROVE  ReportInv'
<1>1. /\ pc[c] \in ScanSteps /\ verdict[c] # "flagged" /\ UNCHANGED reported
      /\ reported[c] \in Nat /\ pc \in [Calls -> Steps]
      /\ verdict \in [Calls -> {"none", "safe", "flagged"}]
  BY DEF ScanReturns, ScanSteps, ReportInv, TypeOK
<1>2. reported[c] = 0 /\ lastFlagged # c
  BY <1>1 DEF ReportInv
<1>3. CASE ScanSafe(c)
  <2>1. pc' = [pc EXCEPT ![c] = "mcp"] /\ UNCHANGED lastFlagged
    BY <1>3 DEF ScanSafe, Send
  <2>2. verdict' = [verdict EXCEPT ![c] = "safe"]
    BY <1>3 DEF ScanSafe
  <2> QED BY <1>1, <1>2, <2>1, <2>2 DEF ReportInv
<1>4. CASE ScanFlagged(c)
  <2>1. /\ verdict' = [verdict EXCEPT ![c] = "flagged"] /\ lastFlagged' = c
        /\ \E at \in {"flagged", "done"} : pc' = [pc EXCEPT ![c] = at]
    BY <1>4 DEF ScanFlagged, AskOrRefuse, Suspend, Refuse, Answer
  <2>2. /\ pc'[c] \in {"flagged", "done"} /\ verdict'[c] = "flagged"
        /\ \A d \in Calls \ {c} : pc'[d] = pc[d] /\ verdict'[d] = verdict[d]
    BY <1>1, <2>1
  <2> QED BY <1>1, <1>2, <2>1, <2>2 DEF ReportInv
<1>5. CASE ScanFails(c) \/ AfterFailure(c) \/ ScanUnauthorized(c)
  <2>1. /\ UNCHANGED <<verdict, lastFlagged>>
        /\ \E at \in {"failed", "failing", "unreachable", "ended", "done"} :
             pc' = [pc EXCEPT ![c] = at]
    BY <1>5 DEF ScanFails, AfterFailure, ScanUnauthorized, AskOrRefuse, Suspend, Refuse, Answer
  <2>2. \A d \in Calls : PastScan(d)
    BY <1>1, <2>1, OneMoves DEF ScanSteps
  <2> QED BY <1>1, <2>1, <2>2, QuietReports
<1> QED BY <1>3, <1>4, <1>5 DEF ScanReturns

\* The buyer's word at the prompt: the report takes the prompt's place, and empties
\* the slot, whichever write is in it.
LEMMA PromptReport ==
  ASSUME TypeOK, ReportInv, NEW c \in Calls, AfterSovguard(c)
  PROVE  ReportInv'
<1>1. pc[c] \in SovPrompts /\ UNCHANGED verdict /\ pc \in [Calls -> Steps]
      /\ reported \in [Calls -> Nat]
  BY DEF AfterSovguard, TypeOK
<1>2. CASE RejectScan(c) \/ AbortSession(c)
  <2>1. /\ UNCHANGED <<lastFlagged, reported>>
        /\ \/ pc' = [pc EXCEPT ![c] = "done"]
           \/ pc[c] = "failing" /\ pc' = [pc EXCEPT ![c] = "ended"]
    BY <1>2 DEF RejectScan, AbortSession, Suspend, Refuse, Answer
  <2>2. \A d \in Calls : PastScan(d)
    BY <1>1, <2>1, OneMoves
  <2> QED BY <1>1, <2>1, <2>2, QuietReports
<1>3. CASE AllowScan(c)
  <2>1. pc' = [pc EXCEPT ![c] = "mcp"]
    BY <1>3 DEF AllowScan, Send
  <2>2. \A d \in Calls : PastScan(d)
    BY <1>1, <2>1, OneMoves
  <2>3. CASE pc[c] = "flagged" /\ answer[c] = "report"
    <3>1. lastFlagged' = None /\ reported' = [reported EXCEPT ![c] = @ + 1]
      BY <1>3, <2>3 DEF AllowScan
    <3>2. /\ pc'[c] = "mcp" /\ reported'[c] = reported[c] + 1 /\ reported[c] <= 1
          /\ verdict[c] = "flagged" /\ reported[c] \in Nat
          /\ \A d \in Calls \ {c} : pc'[d] = pc[d] /\ reported'[d] = reported[d]
      BY <1>1, <2>1, <2>3, <3>1 DEF ReportInv
    <3> QED BY <1>1, <3>1, <3>2, SupervisorAssumption DEF ReportInv
  <2>4. CASE ~(pc[c] = "flagged" /\ answer[c] = "report")
    <3>1. UNCHANGED <<lastFlagged, reported>>
      BY <1>3, <2>4 DEF AllowScan
    <3> QED BY <1>1, <2>2, <3>1, QuietReports
  <2> QED BY <2>3, <2>4
<1> QED BY <1>2, <1>3 DEF AfterSovguard

\* The command takes the slot's.
LEMMA CommandReport ==
  ASSUME TypeOK, ReportInv, ReportCommand
  PROVE  ReportInv'
<1> DEFINE c == lastFlagged
<1>1. /\ c \in Calls /\ UNCHANGED <<pc, verdict>> /\ lastFlagged' = None
      /\ reported' = [reported EXCEPT ![c] = @ + 1] /\ reported \in [Calls -> Nat]
  BY DEF ReportCommand, TypeOK, calls
<1>2. /\ reported'[c] = reported[c] + 1 /\ reported[c] \in Nat
      /\ \A d \in Calls \ {c} : reported'[d] = reported[d]
  BY <1>1
<1>3. /\ verdict[c] = "flagged" /\ reported[c] <= 1
      /\ pc[c] = "flagged" => reported[c] = 0
  BY <1>1 DEF ReportInv
<1> HIDE DEF c
<1> QED BY <1>1, <1>2, <1>3, SupervisorAssumption DEF ReportInv

\* The other steps disturb nothing of this.
LEMMA OtherReport ==
  ASSUME ReportInv,
         \/ PromptNext \/ ContainerStops \/ Expire \/ StdinEnds
         \/ EndSession \/ Exit \/ \E i \in Lines : BuyerLine(i)
         \/ \E c \in Calls : ReadScanReturns(c)
         \/ ContainerExecutes \/ UNCHANGED vars
  PROVE  ReportInv'
<1>1. UNCHANGED <<pc, verdict, lastFlagged, reported>>
  BY DEF PromptNext, ContainerStops, Expire, StdinEnds, EndSession, Exit, BuyerLine,
     ReadScanReturns, ContainerExecutes, calls, scans, vars
<1> QED BY <1>1, QuietReports DEF PastScan

LEMMA ReportStep == TypeOK /\ ReportInv /\ [Next]_vars => ReportInv'
  BY ArriveReport, WaitingReport, ScanReport, PromptReport, CommandReport, OtherReport
  DEF Next, Handler

\* SovGuard is told of a false positive only about writes it flagged, and of each
\* at most twice, however prompts, the command and other flagged writes interleave
\* (cli.ts, lastFlaggedWrite).
THEOREM SessionOnlyFlaggedReported == Spec => []OnlyFlaggedReported
<1>1. ReportInv => OnlyFlaggedReported
  BY DEF ReportInv, OnlyFlaggedReported
<1> QED BY <1>1, InitReport, ReportStep, SessionTypeOK, PTL DEF Spec
================================================================================
