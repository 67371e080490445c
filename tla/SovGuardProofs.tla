---------------------------- MODULE SovGuardProofs -----------------------------
(***************************************************************************)
(* The queue of the reports and the rate limiter of the scans              *)
(* (src/sovguard.ts).                                                      *)
(*                                                                         *)
(* Reports survive, and confirmed ones are not sent again, for any number  *)
(* of sessions and reports.  What concurrent scans may exceed the rate     *)
(* limit by, for any number of callers, any rate and any burst.            *)
(***************************************************************************)
EXTENDS ReportQueue, RateLimiter, FiniteSetTheorems, TLAPS

-----------------------------------------------------------------------------
(* The report queue.                                                         *)

\* The report queue keeps its types (sovguard.ts, flushReports).
LEMMA QueueTyping == QueueTypeOK /\ [QueueNext]_queueVars => QueueTypeOK'
<1> SUFFICES ASSUME QueueTypeOK, [QueueNext]_queueVars PROVE QueueTypeOK'
  OBVIOUS
<1> USE DEF QueueTypeOK, Places, Goto
<1>1. ASSUME NEW s \in Session, StartFlush(s) PROVE QueueTypeOK'
  BY <1>1 DEF StartFlush
<1>2. ASSUME NEW s \in Session, Purge(s) PROVE QueueTypeOK'
  BY <1>2 DEF Purge, Truncate, Write
<1>3. ASSUME NEW s \in Session, ReadLines(s) PROVE QueueTypeOK'
  BY <1>3 DEF ReadLines
<1>4. ASSUME NEW s \in Session, Rewrite(s) PROVE QueueTypeOK'
  BY <1>4 DEF Rewrite, Truncate, Write
<1>5. ASSUME NEW s \in Session, Die(s) \/ RewriteFails(s) PROVE QueueTypeOK'
  BY <1>5 DEF Die, RewriteFails, CutShort
<1>6. ASSUME NEW s \in Session, NEW r \in Report, Send(s, r) PROVE QueueTypeOK'
  BY <1>6 DEF Send, KeepForRetry
<1>7. ASSUME NEW s \in Session, NEW r \in Report, QueueReport(s, r) PROVE QueueTypeOK'
  BY <1>7 DEF QueueReport
<1>8. ASSUME NEW r \in Report, Age(r) PROVE QueueTypeOK'
  BY <1>8 DEF Age
<1>9. CASE UNCHANGED queueVars
  BY <1>9 DEF queueVars
<1> QED
  BY <1>1, <1>2, <1>3, <1>4, <1>5, <1>6, <1>7, <1>8, <1>9 DEF QueueNext

\* While a report is quiet one session flushes at a time.
OneFlusher == quiet # {} => \A s, t \in Session : Flushing(s) /\ Flushing(t) => s = t

\* A second flusher, or a report queued beside a flusher, is never quiet.
LEMMA QueueOneFlusher ==
  QueueTypeOK /\ OneFlusher /\ [QueueNext]_queueVars => OneFlusher'
<1> SUFFICES ASSUME QueueTypeOK, OneFlusher, [QueueNext]_queueVars PROVE OneFlusher'
  OBVIOUS
<1> USE DEF QueueTypeOK, Places, Goto, OneFlusher, Flushing
<1>1. ASSUME NEW s \in Session, StartFlush(s) PROVE OneFlusher'
  BY <1>1 DEF StartFlush
<1>2. ASSUME NEW s \in Session, Purge(s) PROVE OneFlusher'
  BY <1>2 DEF Purge, Truncate, Write
<1>3. ASSUME NEW s \in Session, ReadLines(s) PROVE OneFlusher'
  BY <1>3 DEF ReadLines
<1>4. ASSUME NEW s \in Session, Rewrite(s) PROVE OneFlusher'
  BY <1>4 DEF Rewrite, Truncate, Write
<1>5. ASSUME NEW s \in Session, Die(s) \/ RewriteFails(s) PROVE OneFlusher'
  BY <1>5 DEF Die, RewriteFails, CutShort
<1>6. ASSUME NEW s \in Session, NEW r \in Report, Send(s, r) PROVE OneFlusher'
  BY <1>6 DEF Send
<1>7. ASSUME NEW s \in Session, NEW r \in Report, QueueReport(s, r) PROVE OneFlusher'
  BY <1>7 DEF QueueReport
<1>8. ASSUME NEW r \in Report, Age(r) PROVE OneFlusher'
  BY <1>8 DEF Age
<1>9. CASE UNCHANGED queueVars
  BY <1>9 DEF queueVars
<1> QED
  BY <1>1, <1>2, <1>3, <1>4, <1>5, <1>6, <1>7, <1>8, <1>9 DEF QueueNext

\* A report that is quiet, neither taken nor old, is where it should be.
Safe(r) == r \in quiet \ (accepted \cup old) => Survives(r)

\* Every step of the one flusher keeps it there (purgeOldReports,
\* flushReports), and a new report gets there (queueReport).
LEMMA QueueSurvival ==
  ASSUME QueueTypeOK, OneFlusher, [QueueNext]_queueVars, NEW q \in Report, Safe(q)
  PROVE  Safe(q)'
<1> USE DEF QueueTypeOK, Places, Goto, OneFlusher, Flushing, Rewriting, Safe, Survives
<1>1. ASSUME NEW s \in Session, StartFlush(s) PROVE Safe(q)'
  BY <1>1 DEF StartFlush
<1>2. ASSUME NEW s \in Session, Purge(s) PROVE Safe(q)'
  BY <1>2 DEF Purge, Truncate, Write
<1>3. ASSUME NEW s \in Session, ReadLines(s) PROVE Safe(q)'
  BY <1>3 DEF ReadLines
<1>4. ASSUME NEW s \in Session, Rewrite(s) PROVE Safe(q)'
  BY <1>4 DEF Rewrite, Truncate, Write
<1>5. ASSUME NEW s \in Session, Die(s) \/ RewriteFails(s) PROVE Safe(q)'
  BY <1>5 DEF Die, RewriteFails, CutShort
<1>6. ASSUME NEW s \in Session, NEW r \in Report, Send(s, r) PROVE Safe(q)'
  BY <1>6 DEF Send, KeepForRetry
<1>7. ASSUME NEW s \in Session, NEW r \in Report, QueueReport(s, r) PROVE Safe(q)'
  BY <1>7 DEF QueueReport
<1>8. ASSUME NEW r \in Report, Age(r) PROVE Safe(q)'
  BY <1>8 DEF Age
<1>9. CASE UNCHANGED queueVars
  BY <1>9 DEF queueVars
<1> QED
  BY <1>1, <1>2, <1>3, <1>4, <1>5, <1>6, <1>7, <1>8, <1>9 DEF QueueNext

\* The queue's variables keep their types and the one flusher's lines are
\* where the code needs them, in every state.
THEOREM QueueInvariant == QueueSpec => []QueueInv
<1>1. QueueInit => QueueInv
  BY DEF QueueInit, QueueInv, QueueTypeOK, Places
<1>2. QueueInv /\ [QueueNext]_queueVars => QueueInv'
  <2> SUFFICES ASSUME QueueInv, [QueueNext]_queueVars PROVE QueueInv'
    OBVIOUS
  <2>1. QueueTypeOK /\ OneFlusher
    BY DEF QueueInv, OneFlusher
  <2>2. QueueTypeOK' /\ OneFlusher'
    BY <2>1, QueueTyping, QueueOneFlusher
  <2>3. ASSUME NEW q \in Report PROVE Safe(q)'
    <3>1. Safe(q)
      BY DEF QueueInv, Safe
    <3> QED
      BY <2>1, <3>1, QueueSurvival
  <2>4. quiet' \subseteq Report
    BY <2>2 DEF QueueTypeOK
  <2> QED
    BY <2>2, <2>3, <2>4 DEF QueueInv, OneFlusher, Safe
<1> QED
  BY <1>1, <1>2, PTL DEF QueueSpec

\* No report queued while nobody flushed is lost, for any number of sessions:
\* the loss needs two flushes at once or a rewrite that is cut short.
THEOREM QueueLosesNoQuietReport == QueueSpec => []QuietReportSurvives
<1>1. QueueInv => QuietReportSurvives
  BY DEF QueueInv, QueueTypeOK, QuietReportSurvives, Survives, Rewriting
<1> QED
  BY <1>1, QueueInvariant, PTL

-----------------------------------------------------------------------------
(* Reports that are settled.                                                *)

\* The lines a session holds leave it as it goes on, or dies.
LEMMA QueueHolding == QueueTypeOK /\ Holding /\ [QueueNext]_queueVars => Holding'
<1> SUFFICES ASSUME QueueTypeOK, Holding, [QueueNext]_queueVars PROVE Holding'
  OBVIOUS
<1> USE DEF QueueTypeOK, Places, Goto, Holding
<1>1. ASSUME NEW s \in Session, StartFlush(s) PROVE Holding'
  BY <1>1 DEF StartFlush
<1>2. ASSUME NEW s \in Session, Purge(s) PROVE Holding'
  BY <1>2 DEF Purge, Truncate, Write
<1>3. ASSUME NEW s \in Session, ReadLines(s) PROVE Holding'
  BY <1>3 DEF ReadLines
<1>4. ASSUME NEW s \in Session, Rewrite(s) PROVE Holding'
  BY <1>4 DEF Rewrite, Truncate, Write
<1>5. ASSUME NEW s \in Session, Die(s) \/ RewriteFails(s) PROVE Holding'
  BY <1>5 DEF Die, RewriteFails, CutShort
<1>6. ASSUME NEW s \in Session, NEW r \in Report, Send(s, r) PROVE Holding'
  BY <1>6 DEF Send, KeepForRetry
<1>7. ASSUME NEW s \in Session, NEW r \in Report, QueueReport(s, r) PROVE Holding'
  BY <1>7 DEF QueueReport
<1>8. ASSUME NEW r \in Report, Age(r) PROVE Holding'
  BY <1>8 DEF Age
<1>9. CASE UNCHANGED queueVars
  BY <1>9 DEF queueVars
<1> QED
  BY <1>1, <1>2, <1>3, <1>4, <1>5, <1>6, <1>7, <1>8, <1>9 DEF QueueNext

\* A settled report is nobody's to send, and off the file once it is rewritten.
Off(r) == r \in settled => Gone(r)

\* No step brings it back (purgeOldReports, flushReports).
LEMMA QueueSettled ==
  ASSUME QueueTypeOK, Holding, [QueueNext]_queueVars, NEW q \in Report, Off(q)
  PROVE  Off(q)'
<1> USE DEF QueueTypeOK, Places, Goto, Holding, Flushing, Rewriting, Off, Gone
<1>1. ASSUME NEW s \in Session, StartFlush(s) PROVE Off(q)'
  BY <1>1 DEF StartFlush
<1>2. ASSUME NEW s \in Session, Purge(s) PROVE Off(q)'
  BY <1>2 DEF Purge, Truncate, Write
<1>3. ASSUME NEW s \in Session, ReadLines(s) PROVE Off(q)'
  BY <1>3 DEF ReadLines
<1>4. ASSUME NEW s \in Session, Rewrite(s) PROVE Off(q)'
  BY <1>4 DEF Rewrite, Truncate, Write
<1>5. ASSUME NEW s \in Session, Die(s) \/ RewriteFails(s) PROVE Off(q)'
  BY <1>5 DEF Die, RewriteFails, CutShort
<1>6. ASSUME NEW s \in Session, NEW r \in Report, Send(s, r) PROVE Off(q)'
  BY <1>6 DEF Send, KeepForRetry
<1>7. ASSUME NEW s \in Session, NEW r \in Report, QueueReport(s, r) PROVE Off(q)'
  BY <1>7 DEF QueueReport
<1>8. ASSUME NEW r \in Report, Age(r) PROVE Off(q)'
  BY <1>8 DEF Age
<1>9. CASE UNCHANGED queueVars
  BY <1>9 DEF queueVars
<1> QED
  BY <1>1, <1>2, <1>3, <1>4, <1>5, <1>6, <1>7, <1>8, <1>9 DEF QueueNext

\* What a session confirms is gone, in every state.
THEOREM QueueSettles == QueueSpec => []SettledInv
<1>1. QueueInit => SettledInv
  BY DEF QueueInit, SettledInv, Holding, QueueTypeOK, Places
<1>2. SettledInv /\ [QueueNext]_queueVars => SettledInv'
  <2> SUFFICES ASSUME SettledInv, [QueueNext]_queueVars PROVE SettledInv'
    OBVIOUS
  <2>1. QueueTypeOK' /\ Holding'
    BY QueueTyping, QueueHolding DEF SettledInv
  <2>2. ASSUME NEW q \in Report PROVE Off(q)'
    BY QueueSettled DEF SettledInv, Off
  <2>3. settled' \subseteq Report
    BY <2>1 DEF QueueTypeOK
  <2> QED
    BY <2>1, <2>2, <2>3 DEF SettledInv, Off
<1> QED
  BY <1>1, <1>2, PTL DEF QueueSpec

\* A report the server confirmed is not sent again, for any number of sessions:
\* that needs two flushes at once, or a death or an unwritable file between the
\* answer and the rewrite.
THEOREM QueueResendsNothing == QueueSpec => []ConfirmedNotResent
<1>1. SettledInv => ConfirmedNotResent
  BY DEF SettledInv, Gone, ConfirmedNotResent
<1> QED
  BY <1>1, QueueSettles, PTL

-----------------------------------------------------------------------------
(* The rate limiter.                                                         *)

\* Multiples of Cost.
LEMMA CostMonotonic ==
  ASSUME NEW a \in Int, NEW b \in Int, a <= b PROVE Cost * a <= Cost * b
  BY LimiterAssumption

LEMMA CostStep ==
  ASSUME NEW a \in Int
  PROVE  Cost * a \in Int /\ Cost * (a + 1) = Cost * a + Cost /\ Cost * (a - 1) = Cost * a - Cost
  BY LimiterAssumption

\* The bucket holds a token at least.
LEMMA BucketSize == Cost * Burst \in Nat /\ Cost * Burst >= Cost
<1>1. Cost * 1 <= Cost * Burst /\ Cost * 1 = Cost
  BY CostMonotonic, LimiterAssumption
<1>2. Cost * Burst \in Nat
  BY LimiterAssumption
<1> QED
  BY <1>1, <1>2, LimiterAssumption

LEMMA OthersType == Others \in Nat /\ Cardinality(Caller) = Others + 1
<1>1. Cardinality(Caller) \in Nat /\ Cardinality(Caller) # 0
  BY LimiterAssumption, FS_CardinalityType, FS_EmptySet
<1> QED
  BY <1>1 DEF Others

\* The sleepers due by some time: how many they can be.
LEMMA DueByBound ==
  ASSUME NEW W \in SUBSET Caller
  PROVE  /\ IsFiniteSet(W) /\ Cardinality(W) \in Nat
         /\ Cardinality(W) - Others <= 1
         /\ \A c \in Caller \ W : Cardinality(W) - Others <= 0
<1>1. IsFiniteSet(W) /\ Cardinality(W) \in Nat /\ Cardinality(W) <= Cardinality(Caller)
  BY LimiterAssumption, FS_Subset, FS_CardinalityType
<1>2. ASSUME NEW c \in Caller \ W PROVE Cardinality(W) <= Cardinality(Caller) - 1
  <2>1. /\ W \subseteq Caller \ {c} /\ IsFiniteSet(Caller \ {c})
        /\ Cardinality(Caller \ {c}) = Cardinality(Caller) - 1
    BY LimiterAssumption, FS_RemoveElement
  <2> QED
    BY <2>1, FS_Subset
<1> QED
  BY <1>1, <1>2, OthersType

\* Refilling first and looking later is the same as looking later.
LEMMA CreditFacts ==
  ASSUME LimiterTypeOK, NEW t \in Nat, t >= now
  PROVE  /\ CreditAt(t) \in Int /\ Refill \in Int
         /\ Refill <= Cost * Burst /\ Refill <= credit + (now - lastRefill)
         /\ CreditAt(t) = AtMost(Cost * Burst, Refill + (t - now))
  BY BucketSize, LimiterAssumption DEF LimiterTypeOK, CreditAt, Refill, AtMost

\* The conjunct of LimiterInv about the times to come.
Solvent(t) == CreditAt(t) >= Cost * (Cardinality(DueBy(t)) - Others)

\* The limiter's variables keep their types.
LEMMA LimiterTyping == LimiterTypeOK /\ [LimiterNext]_limiterVars => LimiterTypeOK'
<1> SUFFICES ASSUME LimiterTypeOK, [LimiterNext]_limiterVars PROVE LimiterTypeOK'
  OBVIOUS
<1> USE DEF LimiterTypeOK
<1>0. now \in Nat /\ Refill \in Int /\ Refill <= Cost * Burst
  BY CreditFacts, LimiterAssumption
<1>1. CASE Tick
  BY <1>1, LimiterAssumption DEF Tick
<1>2. ASSUME NEW c \in Caller, AcquireNow(c) PROVE LimiterTypeOK'
  BY <1>0, <1>2, BucketSize, LimiterAssumption DEF AcquireNow, Grant
<1>3. ASSUME NEW c \in Caller, AcquireLater(c) PROVE LimiterTypeOK'
  <2>1. now + WaitMs \in Nat
    BY <1>0, <1>3, LimiterAssumption DEF AcquireLater, WaitMs
  <2> QED
    BY <1>0, <1>3, <2>1, LimiterAssumption DEF AcquireLater
<1>4. ASSUME NEW c \in Caller, Wake(c) PROVE LimiterTypeOK'
  BY <1>0, <1>4, BucketSize, LimiterAssumption DEF Wake, Grant
<1>5. CASE UNCHANGED limiterVars
  BY <1>5 DEF limiterVars
<1> QED
  BY <1>1, <1>2, <1>3, <1>4, <1>5 DEF LimiterNext

\* A scan that goes through at once leaves a bucket that owes nothing, and its
\* caller is not one of the sleepers.
LEMMA AcquireNowSolvent ==
  ASSUME LimiterTypeOK, NEW c \in Caller, AcquireNow(c), NEW t \in Nat, t >= now
  PROVE  Solvent(t)'
<1>1. DueBy(t)' = DueBy(t) /\ DueBy(t) \in SUBSET Caller /\ c \in Caller \ DueBy(t)
  BY DEF AcquireNow, DueBy, LimiterTypeOK
<1>2. Cardinality(DueBy(t)) \in Nat /\ Cardinality(DueBy(t)) - Others <= 0
  BY <1>1, DueByBound
<1>3. Cost * (Cardinality(DueBy(t)) - Others) <= Cost * 0 /\ Cost * 0 = 0
  BY <1>2, OthersType, CostMonotonic, LimiterAssumption
<1>4. CreditAt(t)' >= 0
  BY BucketSize, LimiterAssumption, CreditFacts
     DEF AcquireNow, CreditAt, AtMost, LimiterTypeOK
<1> QED
  BY <1>1, <1>3, <1>4, BucketSize, LimiterAssumption, CostStep, <1>2, OthersType
     DEF Solvent, AcquireNow, CreditAt, AtMost, LimiterTypeOK

\* A caller that goes to sleep is due when the bucket can pay for it.
LEMMA AcquireLaterSolvent ==
  ASSUME LimiterTypeOK, NEW c \in Caller, AcquireLater(c), NEW t \in Nat, t >= now,
         Solvent(t)
  PROVE  Solvent(t)'
<1>0. due'[c] \in Int /\ \A w \in Caller \ {c} : due'[w] = due[w] /\ due[w] \in Nat
  <2>1. LimiterTypeOK'
    BY LimiterTyping DEF LimiterNext
  <2> QED
    BY <2>1 DEF LimiterTypeOK, AcquireLater
<1>1. CreditAt(t)' = CreditAt(t) /\ CreditAt(t) \in Int
  BY CreditFacts, BucketSize, LimiterAssumption
     DEF AcquireLater, CreditAt, AtMost, LimiterTypeOK
<1>2. CASE due'[c] > t
  <2>1. DueBy(t)' = DueBy(t)
    BY <1>0, <1>2 DEF AcquireLater, DueBy, LimiterTypeOK
  <2>2. Others' = Others
    BY DEF Others
  <2> QED
    BY <1>1, <2>1, <2>2 DEF Solvent
<1>3. CASE due'[c] <= t
  <2>1. Refill + (t - now) >= Cost
    BY <1>3, CreditFacts, LimiterAssumption DEF AcquireLater, WaitMs, LimiterTypeOK
  <2>2. CreditAt(t) >= Cost
    BY <2>1, CreditFacts, BucketSize, LimiterAssumption DEF AtMost, LimiterTypeOK
  <2>3. DueBy(t)' \in SUBSET Caller
    BY DEF AcquireLater, DueBy, LimiterTypeOK
  <2>4. Cardinality(DueBy(t)') \in Nat /\ Cardinality(DueBy(t)') - Others <= 1
    BY <2>3, DueByBound
  <2>5. Cost * (Cardinality(DueBy(t)') - Others) <= Cost * 1 /\ Cost * 1 = Cost
    BY <2>4, OthersType, CostMonotonic, LimiterAssumption
  <2>6. Cost * (Cardinality(DueBy(t)') - Others) \in Int
    BY <2>4, OthersType, CostStep
  <2> QED
    BY <1>1, <2>2, <2>5, <2>6, LimiterAssumption DEF Solvent, Others
<1> QED
  BY <1>0, <1>2, <1>3

\* A sleeper that wakes takes a token and is one sleeper less.
LEMMA WakeSolvent ==
  ASSUME LimiterTypeOK, NEW c \in Caller, Wake(c), NEW t \in Nat, t >= now,
         Solvent(t)
  PROVE  Solvent(t)' /\ Cardinality(DueBy(t)) >= 1
<1>1. DueBy(t)' = DueBy(t) \ {c} /\ c \in DueBy(t) /\ DueBy(t) \in SUBSET Caller
  BY DEF Wake, DueBy, LimiterTypeOK
<1>2. /\ IsFiniteSet(DueBy(t)) /\ Cardinality(DueBy(t)) \in Nat
      /\ Cardinality(DueBy(t)') = Cardinality(DueBy(t)) - 1
      /\ Cardinality(DueBy(t)') \in Nat
  BY <1>1, DueByBound, FS_RemoveElement, FS_CardinalityType
<1>3. CreditAt(t)' >= CreditAt(t) - Cost /\ CreditAt(t)' \in Int
  <2>1. CreditAt(t) = AtMost(Cost * Burst, Refill + (t - now)) /\ Refill \in Int
    BY CreditFacts
  <2>2. CreditAt(t)' = AtMost(Cost * Burst, (Refill - Cost) + (t - now))
    BY DEF Wake, CreditAt, AtMost
  <2>3. now \in Nat
    BY LimiterAssumption DEF LimiterTypeOK
  <2> QED
    BY <2>1, <2>2, <2>3, BucketSize, LimiterAssumption DEF AtMost
<1> DEFINE owed == Cardinality(DueBy(t)) - Others
<1>4. owed \in Int /\ Cardinality(DueBy(t)') - Others = owed - 1
  BY <1>2, OthersType
<1>5. Cost * (owed - 1) = Cost * owed - Cost /\ Cost * owed \in Int
  BY <1>4, CostStep
<1>6. Others' = Others
  BY DEF Others
<1> HIDE DEF owed
<1>7. CreditAt(t) >= Cost * owed /\ CreditAt(t) \in Int
  BY CreditFacts DEF Solvent, owed
<1>8. CreditAt(t)' >= Cost * (owed - 1)
  BY <1>3, <1>5, <1>7, LimiterAssumption
<1> QED
  BY <1>2, <1>4, <1>6, <1>8 DEF Solvent

\* What a window's scans took stays accounted for.
LEMMA PaidStep ==
  ASSUME LimiterTypeOK, Paid, LimiterNext PROVE Paid'
<1> DEFINE size == Cost * Burst
<1> DEFINE took == Cost * granted
<1>1. /\ size \in Nat /\ size >= Cost /\ took \in Int /\ Cost \in Int
      /\ Refill \in Int /\ Refill <= size /\ Refill <= credit + (now - lastRefill)
      /\ now \in Nat /\ lastRefill \in Nat /\ lastRefill <= now /\ since \in Nat
      /\ credit \in Int /\ granted \in Nat
  BY BucketSize, CreditFacts, CostStep, LimiterAssumption DEF LimiterTypeOK
<1>2. Cost * (granted + 1) = took + Cost /\ Cost * 0 = 0
  BY <1>1, CostStep, LimiterAssumption
<1>3. /\ lastRefill < since => granted = 0
      /\ lastRefill >= since => credit + took <= size + (lastRefill - since)
  BY <1>1 DEF Paid
<1>4. granted = 0 => took = 0
  BY <1>2
<1> HIDE DEF size
<1>5. ASSUME NEW c \in Caller, AcquireNow(c) \/ Wake(c) PROVE Paid'
  <2>1. credit' = Refill - Cost /\ lastRefill' = now /\ since' = since /\ Grant
    BY <1>5 DEF AcquireNow, Wake
  <2>2. CASE now < since
    <3>1. granted' = 0
      BY <1>1, <1>3, <2>1, <2>2 DEF Grant
    <3> QED
      BY <2>1, <2>2, <3>1 DEF Paid
  <2>3. CASE ~ now < since
    <3>1. Cost * granted' = took + Cost
      BY <1>1, <1>2, <2>1, <2>3 DEF Grant
    <3> HIDE DEF took
    <3>2. Refill + took <= size + (now - since)
      BY <1>1, <1>3, <1>4, <2>3
    <3> QED
      BY <1>1, <2>1, <2>3, <3>1, <3>2 DEF Paid, size
  <2> QED
    BY <2>2, <2>3
<1>6. ASSUME NEW c \in Caller, AcquireLater(c) PROVE Paid'
  <2>1. /\ credit' = Refill /\ lastRefill' = now /\ since' = since
        /\ granted' = granted /\ Cost * granted' = took
    BY <1>6 DEF AcquireLater
  <2> HIDE DEF took
  <2>2. ~ now < since => Refill + took <= size + (now - since)
    BY <1>1, <1>3, <1>4
  <2>3. now < since => granted = 0
    BY <1>1, <1>3
  <2> QED
    BY <2>1, <2>2, <2>3 DEF Paid, size
<1>7. CASE Tick
  BY <1>3, <1>7 DEF Tick, Paid, size
<1> QED
  BY <1>5, <1>6, <1>7 DEF LimiterNext

\* The bucket's debt stays bounded, what was granted was paid for or is owed,
\* and the sleepers can be paid when they are due, in every state.
THEOREM LimiterInvariant == LimiterSpec => []LimiterInv
<1>1. LimiterInit => LimiterInv
  <2> SUFFICES ASSUME LimiterInit PROVE LimiterInv
    OBVIOUS
  <2>1. LimiterTypeOK
    BY BucketSize, LimiterAssumption DEF LimiterInit, LimiterTypeOK
  <2>2. /\ -(Cost * Others) \in Int /\ -(Cost * Others) <= 0
        /\ Cost * (0 - Others) <= Cost * 0 /\ Cost * 0 = 0 /\ Cost * (0 - Others) \in Int
    BY OthersType, CostMonotonic, LimiterAssumption
  <2>3. ASSUME NEW t \in Nat PROVE Solvent(t)
    <3>1. Cardinality(DueBy(t)) = 0
      BY FS_EmptySet DEF LimiterInit, DueBy
    <3>2. CreditAt(t) >= 0 /\ CreditAt(t) \in Int
      BY BucketSize DEF LimiterInit, CreditAt, AtMost
    <3> QED
      BY <2>2, <3>1, <3>2 DEF Solvent
  <2>4. Paid
    BY BucketSize, LimiterAssumption DEF LimiterInit, Paid
  <2>5. DebtBounded
    BY <2>2, BucketSize DEF LimiterInit, DebtBounded
  <2> QED
    BY <2>1, <2>3, <2>4, <2>5 DEF LimiterInv, Solvent
<1>2. LimiterInv /\ [LimiterNext]_limiterVars => LimiterInv'
  <2> SUFFICES ASSUME LimiterInv, [LimiterNext]_limiterVars PROVE LimiterInv'
    OBVIOUS
  <2>1. /\ LimiterTypeOK /\ LimiterTypeOK' /\ DebtBounded /\ Paid
        /\ \A t \in Nat : t >= now => Solvent(t)
    BY LimiterTyping DEF LimiterInv, Solvent
  <2>2. now \in Nat /\ now' \in Nat /\ Solvent(now) /\ Others' = Others
    BY <2>1, LimiterAssumption DEF LimiterTypeOK, Others
  <2>3. /\ Refill \in Int /\ Refill <= credit + (now - lastRefill)
        /\ Cost * granted \in Int /\ Cost * (granted + 1) = Cost * granted + Cost
        /\ -(Cost * Others) \in Int /\ -(Cost * Others) <= 0 /\ Refill = CreditAt(now)
    BY <2>1, <2>2, CreditFacts, CostStep, OthersType, LimiterAssumption
       DEF LimiterTypeOK, Refill
  <2>4. CASE Tick
    <3>1. Paid' /\ DebtBounded'
      BY <2>1, <2>2, <2>4, PaidStep DEF Tick, DebtBounded, LimiterNext
    <3>2. ASSUME NEW t \in Nat, t >= now' PROVE Solvent(t)'
      <4>1. Solvent(t)
        BY <2>1, <2>2, <2>4, <3>2 DEF Tick
      <4> QED
        BY <2>2, <2>4, <4>1 DEF Tick, Solvent, CreditAt, DueBy
    <3> QED
      BY <2>1, <3>1, <3>2 DEF LimiterInv, Solvent
  <2>5. ASSUME NEW c \in Caller, AcquireNow(c) PROVE LimiterInv'
    <3>1. Paid'
      BY <2>1, <2>5, PaidStep DEF LimiterNext
    <3>2. now' = now /\ \A t \in Nat : t >= now => Solvent(t)'
      BY <2>1, <2>5, AcquireNowSolvent DEF AcquireNow
    <3>3. DebtBounded'
      BY <2>1, <2>2, <2>3, <2>5, LimiterAssumption DEF AcquireNow, DebtBounded
    <3> QED
      BY <2>1, <3>1, <3>2, <3>3 DEF LimiterInv, Solvent
  <2>6. ASSUME NEW c \in Caller, AcquireLater(c) PROVE LimiterInv'
    <3>1. Paid'
      BY <2>1, <2>6, PaidStep DEF LimiterNext
    <3>2. now' = now /\ \A t \in Nat : t >= now => Solvent(t)'
      BY <2>1, <2>6, AcquireLaterSolvent DEF AcquireLater
    <3>3. DebtBounded'
      <4>1. DueBy(now) \in SUBSET Caller
        BY <2>1 DEF DueBy, LimiterTypeOK
      <4>2. Cardinality(DueBy(now)) \in Nat
        BY <4>1, DueByBound
      <4>3. /\ 0 - Others <= Cardinality(DueBy(now)) - Others
            /\ 0 - Others \in Int /\ Cardinality(DueBy(now)) - Others \in Int
        BY <4>2, OthersType
      <4>4. Cost * (0 - Others) <= Cost * (Cardinality(DueBy(now)) - Others)
        BY <4>3, CostMonotonic
      <4>5. Cost * (0 - Others) = -(Cost * Others)
        BY OthersType, LimiterAssumption
      <4>6. Refill >= -(Cost * Others)
        BY <2>2, <2>3, <4>3, <4>4, <4>5, CostStep DEF Solvent
      <4> QED
        BY <2>2, <2>6, <4>6 DEF AcquireLater, DebtBounded
    <3> QED
      BY <2>1, <3>1, <3>2, <3>3 DEF LimiterInv, Solvent
  <2>7. ASSUME NEW c \in Caller, Wake(c) PROVE LimiterInv'
    <3>1. Paid'
      BY <2>1, <2>7, PaidStep DEF LimiterNext
    <3>2. now' = now /\ \A t \in Nat : t >= now => Solvent(t)'
      BY <2>1, <2>7, WakeSolvent DEF Wake
    <3>3. DebtBounded'
      <4>1. DueBy(now) \in SUBSET Caller /\ Cardinality(DueBy(now)) >= 1
        BY <2>1, <2>2, <2>7, WakeSolvent DEF DueBy, LimiterTypeOK
      <4>2. Cardinality(DueBy(now)) \in Nat
        BY <4>1, DueByBound
      <4>3. /\ 1 - Others <= Cardinality(DueBy(now)) - Others
            /\ 1 - Others \in Int /\ Cardinality(DueBy(now)) - Others \in Int
        BY <4>1, <4>2, OthersType
      <4>4. Cost * (1 - Others) <= Cost * (Cardinality(DueBy(now)) - Others)
        BY <4>3, CostMonotonic
      <4>5. Cost * (1 - Others) = Cost - Cost * Others
        BY OthersType, LimiterAssumption
      <4>6. Refill >= Cost - Cost * Others
        BY <2>2, <2>3, <4>3, <4>4, <4>5, CostStep DEF Solvent
      <4>7. credit' = Refill - Cost /\ -(Cost * Others) = 0 - Cost * Others
        BY <2>3, <2>7, OthersType, CostStep DEF Wake
      <4> QED
        BY <2>2, <2>3, <4>6, <4>7, LimiterAssumption, OthersType, CostStep
           DEF DebtBounded
    <3> QED
      BY <2>1, <3>1, <3>2, <3>3 DEF LimiterInv, Solvent
  <2>8. CASE UNCHANGED limiterVars
    <3>1. ASSUME NEW t \in Nat, t >= now' PROVE Solvent(t)'
      BY <2>1, <2>2, <2>8, <3>1 DEF limiterVars, Solvent, CreditAt, DueBy
    <3> QED
      BY <2>1, <2>2, <2>8, <3>1 DEF limiterVars, LimiterInv, Solvent, DebtBounded, Paid
  <2> QED
    BY <2>4, <2>5, <2>6, <2>7, <2>8 DEF LimiterNext
<1> QED
  BY <1>1, <1>2, PTL DEF LimiterSpec

\* The debt of concurrent sleepers is at most one token for each other caller,
\* whatever the rate and the burst.
THEOREM LimiterDebt == LimiterSpec => []DebtBounded
  BY LimiterInvariant, PTL DEF LimiterInv

\* So in every window of time the scans let through exceed rate and burst by no
\* more than that.
THEOREM LimiterRate == LimiterSpec => []RateBounded
<1>1. LimiterInv => RateBounded
  <2> SUFFICES ASSUME LimiterInv PROVE RateBounded
    OBVIOUS
  <2>1. Cost * (Burst + Others) = Cost * Burst + Cost * Others
    BY OthersType, LimiterAssumption
  <2>2. Cost * Others \in Nat /\ Cost * granted \in Int
    BY OthersType, CostStep, LimiterAssumption DEF LimiterInv, LimiterTypeOK
  <2>3. granted = 0 => Cost * granted = 0
    BY LimiterAssumption
  <2> QED
    BY <2>1, <2>2, <2>3, BucketSize, LimiterAssumption
       DEF LimiterInv, LimiterTypeOK, DebtBounded, Paid, RateBounded
<1> QED
  BY <1>1, LimiterInvariant, PTL
================================================================================
