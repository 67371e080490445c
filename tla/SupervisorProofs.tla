--------------------------- MODULE SupervisorProofs ---------------------------
(***************************************************************************)
(* SInv is an inductive invariant of the supervisor, and the supervisor    *)
(* implements the first-come-first-served approval service, for any set of *)
(* calls, any SovGuard prompts and any overlap.                            *)
(***************************************************************************)
EXTENDS Supervisor, SequenceTheorems, TLAPS

\* The supervisor starts with no prompt at all.
LEMMA InitInv == SInit => SInv
<1> SUFFICES ASSUME SInit PROVE SInv
  OBVIOUS
<1> USE SupervisorAssumption DEF SInit
<1>1. STypeOK
  <2>1. closed \in BOOLEAN /\ poisoned \in BOOLEAN
    BY Zenon
  <2>2. awaiting \in [Calls -> {"nothing", "write"} \cup SovKinds]
    OBVIOUS
  <2>3. answer \in [Calls -> Decisions \cup {"none"}]
    OBVIOUS
  <2>4. approvalQueue \in Seq(Calls)
    OBVIOUS
  <2> QED BY <2>1, <2>2, <2>3, <2>4 DEF STypeOK
<1>2. \A c \in Calls \cup {None} : ~Queued(c)
  BY DEF Queued
<1>3. NoApprovalLost
  BY <1>2 DEF NoApprovalLost
<1>4. AnswerFitsPrompt /\ AnswersLastPrompt
  BY DEF AnswerFitsPrompt, AnswersLastPrompt
<1> QED BY <1>1, <1>3, <1>4 DEF SInv

\* Appending to the queue adds the appended call and keeps the positions.
LEMMA AppendFacts ==
  ASSUME NEW q \in Seq(Calls), NEW c \in Calls
  PROVE  /\ Append(q, c) \in Seq(Calls)
         /\ Len(Append(q, c)) = Len(q) + 1
         /\ \A k \in 1..Len(q) : Append(q, c)[k] = q[k]
         /\ Append(q, c)[Len(q) + 1] = c
  OBVIOUS

\* Removing the head of the queue shifts the others by one.
LEMMA TailFacts ==
  ASSUME NEW q \in Seq(Calls), q # <<>>
  PROVE  /\ Head(q) = q[1] /\ Head(q) \in Calls
         /\ Tail(q) \in Seq(Calls)
         /\ Len(q) >= 1 /\ Len(Tail(q)) = Len(q) - 1
         /\ \A k \in 1..Len(Tail(q)) : Tail(q)[k] = q[k + 1]
  OBVIOUS

\* A write prompt's arrival keeps the invariant.
LEMMA PromptWriteStep ==
  ASSUME SInv, NEW c \in Calls, PromptWriteApproval(c)
  PROVE  SInv'
<1> USE SupervisorAssumption DEF SInv, PromptWriteApproval
<1>1. /\ approvalQueue \in Seq(Calls) /\ Len(approvalQueue) \in Nat
      /\ approvalQueue' = Append(approvalQueue, c)
      /\ awaiting[c] = "nothing" /\ answer[c] = "none"
  BY DEF STypeOK
<1>2. STypeOK'
  BY AppendFacts DEF STypeOK
<1>3. ~Queued(c) /\ showing # c
  BY DEF NoApprovalLost
<1>4. \A d \in Calls \cup {None} : Queued(d)' <=> (Queued(d) \/ d = c)
  <2> SUFFICES ASSUME NEW d \in Calls \cup {None} PROVE Queued(d)' <=> (Queued(d) \/ d = c)
    OBVIOUS
  <2>1. Queued(d)' => Queued(d) \/ d = c
    BY <1>1, AppendFacts DEF Queued
  <2>2. Queued(d) => Queued(d)'
    BY <1>1, AppendFacts DEF Queued
  <2>3. d = c => Queued(d)'
    BY <1>1, AppendFacts DEF Queued
  <2> QED BY <2>1, <2>2, <2>3
<1>5. NoApprovalLost'
  <2>1. \A d \in Calls :
          (Queued(d) \/ showing = d)' <=> (awaiting'[d] = "write" /\ answer'[d] = "none")
    BY <1>1, <1>3, <1>4 DEF NoApprovalLost, STypeOK
  <2>2. \A k, l \in 1..Len(approvalQueue') :
          approvalQueue'[k] = approvalQueue'[l] => k = l
    BY <1>1, <1>3, AppendFacts DEF NoApprovalLost, Queued
  <2>3. ~Queued(showing)'
    BY <1>3, <1>4 DEF NoApprovalLost, STypeOK, Queued
  <2> QED BY <2>1, <2>2, <2>3 DEF NoApprovalLost
<1>6. AnswerFitsPrompt' /\ AnswersLastPrompt'
  BY <1>1 DEF AnswerFitsPrompt, AnswersLastPrompt, STypeOK
<1> QED BY <1>2, <1>5, <1>6

\* Showing the head of the queue keeps the invariant.
LEMMA ShowNextStep ==
  ASSUME SInv, ShowNext
  PROVE  SInv'
<1> USE SupervisorAssumption DEF SInv, ShowNext, CanShow
<1>0. PICK h \in Calls : h = Head(approvalQueue)
  BY TailFacts DEF STypeOK
<1>1. /\ approvalQueue \in Seq(Calls) /\ approvalQueue # <<>> /\ showing = None
      /\ approvalQueue' = Tail(approvalQueue) /\ showing' = h /\ pendingResolve' = h
  BY <1>0 DEF STypeOK
<1>2. /\ h = approvalQueue[1] /\ h \in Calls
      /\ Len(approvalQueue) \in Nat
      /\ Len(approvalQueue) >= 1 /\ Len(approvalQueue') = Len(approvalQueue) - 1
      /\ \A k \in 1..Len(approvalQueue') : approvalQueue'[k] = approvalQueue[k + 1]
  BY <1>0, <1>1, TailFacts
<1>3. STypeOK'
  BY <1>1, <1>2, TailFacts DEF STypeOK
<1>4. Queued(h)
  BY <1>2 DEF Queued
<1>5. \A d \in Calls \cup {None} : Queued(d)' <=> (Queued(d) /\ d # h)
  <2> SUFFICES ASSUME NEW d \in Calls \cup {None} PROVE Queued(d)' <=> (Queued(d) /\ d # h)
    OBVIOUS
  <2>1. Queued(d)' => Queued(d) /\ d # h
    BY <1>2 DEF NoApprovalLost, Queued
  <2>2. Queued(d) /\ d # h => Queued(d)'
    <3> SUFFICES ASSUME Queued(d), d # h PROVE Queued(d)'
      OBVIOUS
    <3>1. PICK k \in 1..Len(approvalQueue) : approvalQueue[k] = d
      BY DEF Queued
    <3>2. k - 1 \in 1..Len(approvalQueue')
      BY <1>2, <3>1
    <3>3. approvalQueue'[k - 1] = d
      BY <1>2, <3>1, <3>2
    <3> QED BY <3>2, <3>3 DEF Queued
  <2> QED BY <2>1, <2>2
<1>6. NoApprovalLost'
  <2>1. \A d \in Calls :
          (Queued(d) \/ showing = d)' <=> (awaiting'[d] = "write" /\ answer'[d] = "none")
    BY <1>1, <1>2, <1>4, <1>5 DEF NoApprovalLost
  <2>2. \A k, l \in 1..Len(approvalQueue') :
          approvalQueue'[k] = approvalQueue'[l] => k = l
    BY <1>2 DEF NoApprovalLost
  <2>3. ~Queued(showing)'
    <3>1. \A k \in 1..Len(approvalQueue') : approvalQueue'[k] # h
      BY <1>2, <1>5 DEF Queued
    <3> QED BY <1>1, <3>1 DEF Queued
  <2> QED BY <2>1, <2>2, <2>3 DEF NoApprovalLost
<1>7. AnswerFitsPrompt' /\ AnswersLastPrompt'
  BY <1>1, <1>2 DEF AnswerFitsPrompt, AnswersLastPrompt
<1> QED BY <1>3, <1>6, <1>7

\* A step that leaves the queue alone, and settles or resumes single calls,
\* keeps the queue facts.
LEMMA QueueUnchanged ==
  ASSUME UNCHANGED approvalQueue
  PROVE  \A d : Queued(d)' <=> Queued(d)
  BY DEF Queued

\* A prompt that throws changes nothing but the queue's fate.
LEMMA PromptThrowsStep ==
  ASSUME SInv, PromptThrows
  PROVE  SInv'
<1> USE DEF SInv, PromptThrows
<1>1. poisoned' \in BOOLEAN
  BY Zenon
<1>2. STypeOK'
  BY <1>1 DEF STypeOK
<1>3. NoApprovalLost'
  BY QueueUnchanged DEF NoApprovalLost
<1>4. AnswerFitsPrompt' /\ AnswersLastPrompt'
  BY DEF AnswerFitsPrompt, AnswersLastPrompt
<1> QED BY <1>2, <1>3, <1>4

\* Closing readline only stops the lines.
LEMMA CloseStep ==
  ASSUME SInv, Close
  PROVE  SInv'
<1> USE DEF SInv, Close
<1>1. closed' \in BOOLEAN
  BY Zenon
<1>2. STypeOK'
  BY <1>1 DEF STypeOK
<1>3. NoApprovalLost'
  BY QueueUnchanged DEF NoApprovalLost
<1>4. AnswerFitsPrompt' /\ AnswersLastPrompt'
  BY DEF AnswerFitsPrompt, AnswersLastPrompt
<1> QED BY <1>2, <1>3, <1>4

\* A SovGuard prompt overwrites the state and the SovGuard resolver only.
LEMMA PromptSovguardStep ==
  ASSUME SInv, NEW c \in Calls, NEW kind \in SovKinds, PromptSovguard(c, kind)
  PROVE  SInv'
<1> USE SupervisorAssumption DEF SInv, PromptSovguard, ShowSovguard
<1>1. STypeOK'
  BY DEF STypeOK
<1>2. kind # "write" /\ kind # "nothing"
  OBVIOUS
<1>3. NoApprovalLost'
  BY <1>2, QueueUnchanged DEF NoApprovalLost, STypeOK
<1>4. AnswerFitsPrompt' /\ AnswersLastPrompt'
  BY <1>2 DEF AnswerFitsPrompt, AnswersLastPrompt, STypeOK
<1> QED BY <1>1, <1>3, <1>4

\* A caller that goes on leaves no trace in the queue or the resolvers.
LEMMA ContinueStep ==
  ASSUME SInv, NEW c \in Calls, Continue(c)
  PROVE  SInv'
<1> USE SupervisorAssumption DEF SInv, Continue
<1>1. closed' \in BOOLEAN
  BY Zenon DEF STypeOK
<1>2. STypeOK'
  BY <1>1 DEF STypeOK
<1>3. NoApprovalLost'
  BY QueueUnchanged DEF NoApprovalLost, STypeOK
<1>4. AnswerFitsPrompt'
  BY DEF AnswerFitsPrompt, STypeOK
<1>5. AnswersLastPrompt'
  BY DEF AnswersLastPrompt, STypeOK
<1> QED BY <1>2, <1>3, <1>4, <1>5

\* Going on from an approved write to a SovGuard prompt.
LEMMA ContinueToSovguardStep ==
  ASSUME SInv, NEW c \in Calls, NEW kind \in SovKinds, ContinueToSovguard(c, kind)
  PROVE  SInv'
<1> USE SupervisorAssumption DEF SInv, ContinueToSovguard, ShowSovguard
<1>1. STypeOK'
  BY DEF STypeOK
<1>2. kind # "write" /\ kind # "nothing"
  OBVIOUS
<1>3. NoApprovalLost'
  BY <1>2, QueueUnchanged DEF NoApprovalLost, STypeOK
<1>4. AnswerFitsPrompt' /\ AnswersLastPrompt'
  BY <1>2 DEF AnswerFitsPrompt, AnswersLastPrompt, STypeOK
<1> QED BY <1>1, <1>3, <1>4

\* 'abort' settles the prompt on hold and the SovGuard prompt, each with a
\* decision of its own kind.
LEMMA LineAbortStep ==
  ASSUME SInv, LineAbort
  PROVE  SInv'
<1> USE SupervisorAssumption DEF SInv, LineAbort
<1>1. answer' \in [Calls -> Decisions \cup {"none"}]
  BY DEF AbortAnswer, STypeOK, Decisions
<1>2. STypeOK'
  <2>1. /\ state' \in {"IDLE", "APPROVAL_PENDING", "SOVGUARD_PENDING"}
    BY DEF STypeOK, AbortState
  <2>2. /\ pendingResolve' \in Calls \cup {None}
        /\ pendingSovguardResolve' \in Calls \cup {None}
        /\ showing' \in Calls \cup {None}
    BY DEF STypeOK
  <2> QED BY <1>1, <2>1, <2>2 DEF STypeOK
<1>3. \A c \in Calls :
        /\ c = pendingSovguardResolve =>
             answer'[c] = "reject" /\ awaiting[c] \in SovKinds
        /\ c # pendingSovguardResolve /\ c = pendingResolve =>
             answer'[c] = "false" /\ awaiting[c] = "write"
        /\ c # pendingSovguardResolve /\ c # pendingResolve => answer'[c] = answer[c]
  BY DEF AbortAnswer, AnswersLastPrompt, NoApprovalLost
<1>4. NoApprovalLost'
  <2>1. showing' = None /\ showing = pendingResolve
    BY DEF AnswersLastPrompt
  <2>2. ~Queued(None)
    BY DEF Queued, STypeOK
  <2>3. \A c \in Calls :
          (Queued(c) \/ showing = c)' <=> (awaiting'[c] = "write" /\ answer'[c] = "none")
    BY <1>3, <2>1, QueueUnchanged DEF NoApprovalLost
  <2>4. ~Queued(showing)'
    BY <2>1, <2>2 DEF Queued
  <2> QED BY <2>3, <2>4 DEF NoApprovalLost
<1>5. AnswerFitsPrompt'
  BY <1>3 DEF AnswerFitsPrompt
<1>6. AnswersLastPrompt'
  BY DEF AnswersLastPrompt, AbortState, HadPending, STypeOK
<1> QED BY <1>2, <1>4, <1>5, <1>6

\* y and n settle the write prompt on hold.
LEMMA AnswerWriteStep ==
  ASSUME SInv, NEW i, AnswerWrite(i)
  PROVE  SInv'
<1> USE SupervisorAssumption DEF SInv, AnswerWrite
<1>1. /\ WriteDecision(i) \in {"true", "false"}
      /\ pendingResolve \in Calls /\ showing = pendingResolve
      /\ awaiting[pendingResolve] = "write" /\ answer[pendingResolve] = "none"
  BY DEF WriteDecision, STypeOK, AnswersLastPrompt, NoApprovalLost
<1>2. STypeOK'
  BY <1>1 DEF STypeOK, Decisions
<1>3. NoApprovalLost'
  BY <1>1, QueueUnchanged DEF NoApprovalLost, STypeOK, Queued
<1>4. AnswerFitsPrompt'
  BY <1>1 DEF AnswerFitsPrompt, STypeOK
<1>5. AnswersLastPrompt'
  BY <1>1 DEF AnswersLastPrompt, STypeOK
<1> QED BY <1>2, <1>3, <1>4, <1>5

\* A decision settles the SovGuard prompt shown last.
LEMMA AnswerSovguardStep ==
  ASSUME SInv, NEW i, AnswerSovguard(i)
  PROVE  SInv'
<1> USE SupervisorAssumption DEF SInv, AnswerSovguard
<1>1. /\ SovDecision(i) \in {"approve", "reject", "report"}
      /\ pendingSovguardResolve \in Calls
      /\ awaiting[pendingSovguardResolve] \in SovKinds
      /\ answer[pendingSovguardResolve] = "none"
  BY DEF SovDecision, STypeOK, AnswersLastPrompt
<1>2. STypeOK'
  BY <1>1 DEF STypeOK, Decisions
<1>3. NoApprovalLost'
  BY <1>1, QueueUnchanged DEF NoApprovalLost, STypeOK
<1>4. AnswerFitsPrompt'
  BY <1>1 DEF AnswerFitsPrompt, STypeOK
<1>5. AnswersLastPrompt'
  BY <1>1 DEF AnswersLastPrompt, STypeOK
<1> QED BY <1>2, <1>3, <1>4, <1>5

\* Nothing happens to the supervisor.
LEMMA StutterStep ==
  ASSUME SInv, UNCHANGED svars
  PROVE  SInv'
<1> USE DEF SInv, svars
<1>1. STypeOK'
  BY DEF STypeOK
<1>2. NoApprovalLost'
  BY QueueUnchanged DEF NoApprovalLost
<1>3. AnswerFitsPrompt' /\ AnswersLastPrompt'
  BY DEF AnswerFitsPrompt, AnswersLastPrompt
<1> QED BY <1>1, <1>2, <1>3

\* SInv is an invariant: the state, the two resolvers, the promise chain and
\* the suspended calls of supervisor.ts stay consistent, whatever overlaps.
THEOREM SupervisorInvariant == SSpec => []SInv
<1>1. SInit => SInv
  BY InitInv
<1>2. SInv /\ [SNext]_svars => SInv'
  <2> SUFFICES ASSUME SInv, [SNext]_svars PROVE SInv'
    OBVIOUS
  <2>1. ASSUME NEW c \in Calls, Ask(c) PROVE SInv'
    BY <2>1, PromptWriteStep, PromptSovguardStep DEF Ask
  <2>2. ASSUME NEW c \in Calls, GoOn(c) PROVE SInv'
    BY <2>2, ContinueStep, ContinueToSovguardStep DEF GoOn
  <2>3. CASE ShowNext
    BY <2>3, ShowNextStep
  <2>4. CASE PromptThrows
    BY <2>4, PromptThrowsStep
  <2>5. ASSUME NEW i \in Lines, Line(i) PROVE SInv'
    BY <2>5, LineAbortStep, AnswerWriteStep, AnswerSovguardStep DEF Line
  <2>6. CASE Close
    BY <2>6, CloseStep
  <2>7. CASE UNCHANGED svars
    BY <2>7, StutterStep
  <2> QED BY <2>1, <2>2, <2>3, <2>4, <2>5, <2>6, <2>7 DEF SNext
<1> QED BY <1>1, <1>2, PTL DEF SSpec

\* The supervisor's variables keep their types.
THEOREM SupervisorTypeOK == SSpec => []STypeOK
<1>1. SInv => STypeOK
  BY DEF SInv
<1> QED BY <1>1, SupervisorInvariant, PTL

\* No approval is lost, duplicated or resurrected (NoApprovalLost).
THEOREM SupervisorLosesNoApproval == SSpec => []NoApprovalLost
<1>1. SInv => NoApprovalLost
  BY DEF SInv
<1> QED BY <1>1, SupervisorInvariant, PTL

\* An answer goes to the prompt the buyer saw last (AnswersLastPrompt).
THEOREM SupervisorAnswersLast == SSpec => []AnswersLastPrompt
<1>1. SInv => AnswersLastPrompt
  BY DEF SInv
<1> QED BY <1>1, SupervisorInvariant, PTL

\* An answer is of the kind its prompt asks for (AnswerFitsPrompt).
THEOREM SupervisorAnswerFits == SSpec => []AnswerFitsPrompt
<1>1. SInv => AnswerFitsPrompt
  BY DEF SInv
<1> QED BY <1>1, SupervisorInvariant, PTL

-----------------------------------------------------------------------------
(* Refinement: the line of the approval service is the prompt on hold       *)
(* followed by the links of the promise chain.                              *)

\* A sequence with one element put in front.
LEMMA ConsFacts ==
  ASSUME NEW s \in Calls, NEW q \in Seq(Calls)
  PROVE  /\ <<s>> \o q \in Seq(Calls) /\ <<s>> \o q # <<>>
         /\ Head(<<s>> \o q) = s /\ Tail(<<s>> \o q) = q
         /\ Len(<<s>> \o q) = Len(q) + 1
         /\ (<<s>> \o q)[1] = s
         /\ \A k \in 1..Len(q) : (<<s>> \o q)[k + 1] = q[k]
  <1>1. /\ <<s>> \in Seq(Calls) /\ Len(<<s>>) = 1 /\ <<s>>[1] = s /\ Len(q) \in Nat
    OBVIOUS
  <1>2. /\ <<s>> \o q \in Seq(Calls) /\ Len(<<s>> \o q) = Len(q) + 1
        /\ (<<s>> \o q)[1] = s
        /\ \A k \in 1..Len(q) : (<<s>> \o q)[k + 1] = q[k]
    BY <1>1, ConcatProperties
  <1>3. <<s>> \o q # <<>>
    BY <1>1, <1>2
  <1>4. /\ Head(<<s>> \o q) = s /\ Tail(<<s>> \o q) \in Seq(Calls)
        /\ Len(Tail(<<s>> \o q)) = Len(q)
        /\ \A k \in 1..Len(q) : Tail(<<s>> \o q)[k] = q[k]
    BY <1>1, <1>2, <1>3, TailFacts
  <1>5. Tail(<<s>> \o q) = q
    BY <1>4, SeqEqual
  <1> QED BY <1>2, <1>3, <1>4, <1>5

\* Putting the head back in front of the tail gives the queue.
LEMMA ConsHeadTail ==
  ASSUME NEW q \in Seq(Calls), q # <<>>
  PROVE  <<Head(q)>> \o Tail(q) = q
  <1>1. /\ Head(q) = q[1] /\ Head(q) \in Calls /\ Tail(q) \in Seq(Calls)
        /\ Len(q) \in Nat /\ Len(q) >= 1 /\ Len(Tail(q)) = Len(q) - 1
        /\ \A k \in 1..Len(Tail(q)) : Tail(q)[k] = q[k + 1]
    BY TailFacts
  <1>2. /\ <<Head(q)>> \o Tail(q) \in Seq(Calls)
        /\ Len(<<Head(q)>> \o Tail(q)) = Len(q)
        /\ (<<Head(q)>> \o Tail(q))[1] = q[1]
        /\ \A k \in 1..Len(Tail(q)) : (<<Head(q)>> \o Tail(q))[k + 1] = q[k + 1]
    BY <1>1, ConsFacts
  <1>3. \A k \in 1..Len(q) : (<<Head(q)>> \o Tail(q))[k] = q[k]
    <2> SUFFICES ASSUME NEW k \in 1..Len(q) PROVE (<<Head(q)>> \o Tail(q))[k] = q[k]
      OBVIOUS
    <2>1. CASE k = 1
      BY <1>2, <2>1
    <2>2. CASE k # 1
      <3>1. k - 1 \in 1..Len(Tail(q)) /\ k = (k - 1) + 1
        BY <1>1, <2>2
      <3> QED BY <1>2, <3>1
    <2> QED BY <2>1, <2>2
  <1> QED BY <1>2, <1>3, SeqEqual

\* Every request of the service's line is a suspended write.
LEMMA ShownThenQueuedFacts ==
  ASSUME SInv
  PROVE  /\ ShownThenQueued \in Seq(Calls)
         /\ \A k \in 1..Len(ShownThenQueued) :
              awaiting[ShownThenQueued[k]] = "write" /\ answer[ShownThenQueued[k]] = "none"
<1>1. /\ approvalQueue \in Seq(Calls) /\ Len(approvalQueue) \in Nat
      /\ showing \in Calls \cup {None}
  BY DEF SInv, STypeOK
<1>2. \A k \in 1..Len(approvalQueue) :
        awaiting[approvalQueue[k]] = "write" /\ answer[approvalQueue[k]] = "none"
  BY <1>1 DEF SInv, NoApprovalLost, Queued
<1>3. CASE showing = None
  BY <1>1, <1>2, <1>3 DEF ShownThenQueued
<1>4. CASE showing # None
  <2>1. /\ showing \in Calls /\ awaiting[showing] = "write" /\ answer[showing] = "none"
    BY <1>1, <1>4 DEF SInv, NoApprovalLost
  <2>2. ShownThenQueued = <<showing>> \o approvalQueue
    BY <1>4 DEF ShownThenQueued
  <2>3. ShownThenQueued \in Seq(Calls) /\ Len(ShownThenQueued) = Len(approvalQueue) + 1
    BY <1>1, <2>1, <2>2, ConsFacts
  <2>4. ASSUME NEW k \in 1..Len(ShownThenQueued)
        PROVE  awaiting[ShownThenQueued[k]] = "write" /\ answer[ShownThenQueued[k]] = "none"
    <3>1. CASE k = 1
      BY <1>1, <2>1, <2>2, <3>1, ConsFacts
    <3>2. CASE k # 1
      <4>1. k - 1 \in 1..Len(approvalQueue) /\ k = (k - 1) + 1
        BY <1>1, <2>3, <3>2
      <4>2. ShownThenQueued[k] = approvalQueue[k - 1]
        BY <1>1, <2>1, <2>2, <4>1, ConsFacts
      <4> QED BY <1>2, <4>1, <4>2
    <3> QED BY <3>1, <3>2
  <2> QED BY <2>3, <2>4
<1> QED BY <1>3, <1>4

\* Settling the prompt on hold with d, whichever line did it, decides the
\* first request of the line.
LEMMA SettleIsDecide ==
  ASSUME SInv, NEW d \in {"true", "false"}, pendingResolve # None,
         showing' = None, UNCHANGED approvalQueue,
         WriteAnswers' = [WriteAnswers EXCEPT ![pendingResolve] = d]
  PROVE  Approvals!Decide
<1>1. /\ showing \in Calls /\ showing = pendingResolve
      /\ approvalQueue \in Seq(Calls)
  BY DEF SInv, STypeOK, AnswersLastPrompt
<1>2. ShownThenQueued = <<showing>> \o approvalQueue
  BY SupervisorAssumption, <1>1 DEF ShownThenQueued
<1>3. /\ ShownThenQueued # <<>> /\ Head(ShownThenQueued) = showing
      /\ Tail(ShownThenQueued) = approvalQueue
  BY <1>1, <1>2, ConsFacts
<1>4. ShownThenQueued' = approvalQueue
  BY DEF ShownThenQueued
<1> QED BY <1>1, <1>3, <1>4 DEF Approvals!Decide

\* Each step of the supervisor is a step of the approval service or a stutter.
LEMMA RefinementStep ==
  ASSUME SInv, [SNext]_svars
  PROVE  [Approvals!Next]_(Approvals!avars)
<1> USE SupervisorAssumption
<1>0. /\ approvalQueue \in Seq(Calls) /\ showing \in Calls \cup {None}
      /\ pendingResolve = showing
      /\ answer \in [Calls -> Decisions \cup {"none"}]
      /\ awaiting \in [Calls -> {"nothing", "write"} \cup SovKinds]
  BY DEF SInv, STypeOK, AnswersLastPrompt
<1> DEFINE Stutter == UNCHANGED <<ShownThenQueued, WriteAnswers>>
<1>1. ASSUME NEW c \in Calls, PromptWriteApproval(c) PROVE Approvals!Request(c)
  <2>1. \A k \in 1..Len(ShownThenQueued) : ShownThenQueued[k] # c
    BY <1>1, ShownThenQueuedFacts DEF PromptWriteApproval
  <2>2. WriteAnswers[c] = "none" /\ WriteAnswers' = WriteAnswers
    BY <1>1 DEF PromptWriteApproval, WriteAnswers
  <2>3. ShownThenQueued' = Append(ShownThenQueued, c)
    <3>1. CASE showing = None
      BY <1>1, <3>1 DEF PromptWriteApproval, ShownThenQueued
    <3>2. CASE showing # None
      <4>1. /\ Append(approvalQueue, c) = approvalQueue \o <<c>>
            /\ Append(approvalQueue, c) \in Seq(Calls)
            /\ <<showing>> \o approvalQueue \in Seq(Calls)
            /\ <<showing>> \in Seq(Calls) /\ <<c>> \in Seq(Calls)
        BY <1>0, <3>2, AppendIsConcat, ConsFacts
      <4>2. Append(<<showing>> \o approvalQueue, c)
              = (<<showing>> \o approvalQueue) \o <<c>>
        BY <4>1, AppendIsConcat
      <4>3. (<<showing>> \o approvalQueue) \o <<c>>
              = <<showing>> \o (approvalQueue \o <<c>>)
        BY <1>0, <4>1, ConcatAssociative
      <4>4. /\ ShownThenQueued = <<showing>> \o approvalQueue
            /\ ShownThenQueued' = <<showing>> \o Append(approvalQueue, c)
        BY <1>1, <3>2 DEF PromptWriteApproval, ShownThenQueued
      <4> QED BY <4>1, <4>2, <4>3, <4>4
    <3> QED BY <3>1, <3>2
  <2> QED BY <2>1, <2>2, <2>3 DEF Approvals!Request
<1>2. ASSUME NEW c \in Calls, NEW kind \in SovKinds, PromptSovguard(c, kind)
      PROVE  Stutter
  BY <1>2 DEF PromptSovguard, ShowSovguard, ShownThenQueued, WriteAnswers
<1>3. ASSUME NEW c \in Calls, Continue(c) PROVE Approvals!Read(c) \/ Stutter
  <2>1. ShownThenQueued' = ShownThenQueued
    BY <1>3 DEF Continue, ShownThenQueued
  <2>2. WriteAnswers' = [WriteAnswers EXCEPT ![c] = "none"]
    BY <1>0, <1>3 DEF Continue, WriteAnswers
  <2>3. CASE WriteAnswers[c] = "none"
    BY <2>1, <2>2, <2>3 DEF WriteAnswers
  <2>4. CASE WriteAnswers[c] # "none"
    BY <2>1, <2>2, <2>4 DEF Approvals!Read
  <2> QED BY <2>3, <2>4
<1>4. ASSUME ShowNext PROVE Stutter
  <2>1. WriteAnswers' = WriteAnswers
    BY <1>4 DEF ShowNext, WriteAnswers
  <2>2. /\ approvalQueue # <<>> /\ showing = None
        /\ Head(approvalQueue) \in Calls
    BY <1>0, <1>4, TailFacts DEF ShowNext, CanShow
  <2>3. /\ ShownThenQueued = approvalQueue
        /\ ShownThenQueued' = <<Head(approvalQueue)>> \o Tail(approvalQueue)
    BY <1>4, <2>2 DEF ShowNext, ShownThenQueued
  <2> QED BY <1>0, <2>1, <2>2, <2>3, ConsHeadTail
<1>5. ASSUME PromptThrows \/ Close PROVE Stutter
  BY <1>5 DEF PromptThrows, Close, ShownThenQueued, WriteAnswers
<1>6. ASSUME LineAbort PROVE Approvals!Decide \/ Stutter
  <2>1. \A c \in Calls : c = pendingSovguardResolve =>
          awaiting[c] \in SovKinds /\ answer[c] = "none"
    BY DEF SInv, AnswersLastPrompt
  <2>2. \A c \in Calls : c = pendingResolve => awaiting[c] = "write"
    BY <1>0 DEF SInv, NoApprovalLost
  <2>3. \A c \in Calls :
          WriteAnswers'[c] = IF c = pendingResolve THEN "false" ELSE WriteAnswers[c]
    BY <1>6, <2>1, <2>2 DEF LineAbort, AbortAnswer, WriteAnswers
  <2>4. CASE pendingResolve # None
    <3>1. WriteAnswers' = [WriteAnswers EXCEPT ![pendingResolve] = "false"]
      BY <2>3 DEF WriteAnswers
    <3> QED BY <1>6, <2>4, <3>1, SettleIsDecide DEF LineAbort
  <2>5. CASE pendingResolve = None
    <3>1. WriteAnswers' = WriteAnswers
      BY <2>3, <2>5 DEF WriteAnswers
    <3> QED BY <1>6, <2>5, <3>1 DEF LineAbort, ShownThenQueued
  <2> QED BY <2>4, <2>5
<1>7. ASSUME NEW i, AnswerWrite(i) PROVE Approvals!Decide
  <2>1. WriteDecision(i) \in {"true", "false"}
    BY <1>7 DEF AnswerWrite, WriteDecision
  <2>2. WriteAnswers' = [WriteAnswers EXCEPT ![pendingResolve] = WriteDecision(i)]
    BY <1>0, <1>7, <2>1 DEF AnswerWrite, WriteAnswers
  <2> QED BY <1>7, <2>1, <2>2, SettleIsDecide DEF AnswerWrite
<1>8. ASSUME NEW i, AnswerSovguard(i) PROVE Stutter
  <2>1. SovDecision(i) \in {"approve", "reject", "report"}
    BY <1>8 DEF AnswerSovguard, SovDecision
  <2>2. pendingSovguardResolve \in Calls => answer[pendingSovguardResolve] = "none"
    BY DEF SInv, AnswersLastPrompt
  <2>3. WriteAnswers' = WriteAnswers
    BY <1>0, <1>8, <2>1, <2>2 DEF AnswerSovguard, WriteAnswers
  <2> QED BY <1>8, <2>3 DEF AnswerSovguard, ShownThenQueued
<1>9. ASSUME NEW c \in Calls, NEW kind \in SovKinds, ContinueToSovguard(c, kind)
      PROVE  Approvals!Read(c)
  <2>1. ShownThenQueued' = ShownThenQueued
    BY <1>9 DEF ContinueToSovguard, ShowSovguard, ShownThenQueued
  <2>2. WriteAnswers' = [WriteAnswers EXCEPT ![c] = "none"] /\ WriteAnswers[c] = "true"
    BY <1>0, <1>9 DEF ContinueToSovguard, WriteAnswers
  <2> QED BY <2>1, <2>2 DEF Approvals!Read
<1>10. ASSUME UNCHANGED svars PROVE Stutter
  BY <1>10 DEF svars, ShownThenQueued, WriteAnswers
<1> QED BY <1>1, <1>2, <1>3, <1>4, <1>5, <1>6, <1>7, <1>8, <1>9, <1>10
        DEF SNext, Ask, GoOn, Line, Approvals!Next, Approvals!avars

\* The supervisor implements the approval service: whatever SovGuard prompts
\* and 'abort' lines come in between, write approvals are decided one by one in
\* the order promptWriteApproval was called.
THEOREM SupervisorImplementsApprovals == SSpec => ImplementsApprovals
<1>1. SInit => Approvals!Init
  BY DEF SInit, Approvals!Init, ShownThenQueued, WriteAnswers
<1>2. SInv /\ [SNext]_svars => [Approvals!Next]_(Approvals!avars)
  BY RefinementStep
<1> QED BY <1>1, <1>2, SupervisorInvariant, PTL
        DEF SSpec, ImplementsApprovals, Approvals!Spec

===============================================================================
