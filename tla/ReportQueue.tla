------------------------------ MODULE ReportQueue ------------------------------
(***************************************************************************)
(* The file of queued false-positive reports (src/sovguard.ts: queueReport,*)
(* purgeOldReports, flushReports), which all sessions of a user share.     *)
(*                                                                         *)
(* A session empties the queue once, when it starts: it purges the old     *)
(* reports, sends the others one by one and rewrites the file with those   *)
(* the server did not take.  Both rewrites read the file first and write   *)
(* it back whole, so the file's content lives in the process meanwhile,    *)
(* while other sessions append to the file, rewrite it, or die.            *)
(*                                                                         *)
(* The file is the set of its lines: a report is queued once, and nothing  *)
(* depends on the order in which they are sent.                            *)
(***************************************************************************)
CONSTANTS
  Session,  \* the processes that share the file
  Report    \* the reports queued by any of them

VARIABLES
  at,        \* where each session is
  file,      \* the reports in REPORT_FILE
  todo,      \* per session: the lines it has read and not sent yet
  keep,      \* per session: the lines it will write back (kept, remaining)
  queued,    \* the reports queued so far
  old,       \* those that are older than REPORT_MAX_AGE_MS
  accepted,  \* those the server has taken
  quiet,     \* those queued while nobody flushed, and treated well since:
             \* no two sessions flushed at once, no rewrite was cut short
  settled    \* those the server confirmed to a session that flushed alone, and
             \* that went on to empty the file

queueVars == <<at, file, todo, keep, queued, old, accepted, quiet, settled>>

QueueInit ==
  /\ at = [s \in Session |-> "off"]
  /\ file = {} /\ queued = {} /\ old = {} /\ accepted = {}
  /\ quiet = {} /\ settled = {}
  /\ todo = [s \in Session |-> {}]
  /\ keep = [s \in Session |-> {}]

Rewriting(s) == at[s] \in {"purging", "rewriting"}
Flushing(s)  == at[s] \notin {"off", "up"}

Goto(s, place) == at' = [at EXCEPT ![s] = place]

-----------------------------------------------------------------------------
(* purgeOldReports                                                         *)

\* A session starts: it reads the file to purge it, or skips the purge
\* because it cannot.
StartFlush(s) ==
  /\ at[s] = "off"
  /\ \/ Goto(s, "purge") /\ keep' = [keep EXCEPT ![s] = file \ old]
     \/ Goto(s, "read") /\ UNCHANGED keep
  /\ IF \E t \in Session : Flushing(t) THEN quiet' = {} /\ settled' = settled \ file
                                       ELSE UNCHANGED <<quiet, settled>>
  /\ UNCHANGED <<file, todo, queued, old, accepted>>

\* writeFileSync opens the file with O_TRUNC ...
Truncate(s, now, next) ==
  /\ at[s] = now /\ Goto(s, next)
  /\ file' = {}
  /\ UNCHANGED <<todo, keep, queued, old, accepted, quiet, settled>>

\* ... and writes from its start, over what others appended meanwhile.
Write(s, now, next) ==
  /\ at[s] = now /\ Goto(s, next)
  /\ \E survivors \in SUBSET file : file' = keep[s] \cup survivors
  /\ keep' = [keep EXCEPT ![s] = {}]
  /\ UNCHANGED <<todo, queued, old, accepted, quiet, settled>>

Purge(s) == Truncate(s, "purge", "purging") \/ Write(s, "purging", "read")

-----------------------------------------------------------------------------
(* flushReports                                                            *)

\* Reads the purged file, or gives up when there is none.
ReadLines(s) ==
  /\ at[s] = "read"
  /\ \/ Goto(s, "send") /\ todo' = [todo EXCEPT ![s] = file]
     \/ Goto(s, "up") /\ UNCHANGED todo
  /\ UNCHANGED <<file, keep, queued, old, accepted, quiet, settled>>

\* Mutant: a report is only kept when the server answers with an error.
KeepIfAnswered(s, r) ==
  \E lost \in BOOLEAN :
    keep' = IF lost THEN keep ELSE [keep EXCEPT ![s] = @ \cup {r}]

KeepForRetry(s, r) == keep' = [keep EXCEPT ![s] = @ \cup {r}]

\* POST /v1/report: taken and confirmed; or not confirmed, taken or not.
Send(s, r) ==
  /\ at[s] = "send" /\ r \in todo[s]
  /\ todo' = [todo EXCEPT ![s] = @ \ {r}]
  /\ \/ /\ accepted' = accepted \cup {r} /\ UNCHANGED keep
        /\ settled' = IF \E t \in Session \ {s} : Flushing(t) THEN settled
                                                            ELSE settled \cup {r}
     \/ /\ accepted' \in {accepted, accepted \cup {r}} /\ KeepForRetry(s, r)
        /\ UNCHANGED settled
  /\ UNCHANGED <<at, file, queued, old, quiet>>

\* Mutant: with nothing to keep the file is not rewritten.
RewriteIfAny(s) ==
  \/ todo[s] = {} /\ keep[s] # {} /\ Truncate(s, "send", "rewriting")
  \/ /\ at[s] = "send" /\ todo[s] = {} /\ keep[s] = {} /\ Goto(s, "up")
     /\ UNCHANGED <<file, todo, keep, queued, old, accepted, quiet, settled>>
  \/ Write(s, "rewriting", "up")

Rewrite(s) ==
  \/ todo[s] = {} /\ Truncate(s, "send", "rewriting")
  \/ Write(s, "rewriting", "up")

-----------------------------------------------------------------------------
\* The buyer reports a flagged write: one line is appended.
QueueReport(s, r) ==
  /\ at[s] = "up" /\ r \notin queued
  /\ queued' = queued \cup {r}
  /\ file' = file \cup {r}
  /\ quiet' = IF \E t \in Session : Flushing(t) THEN quiet ELSE quiet \cup {r}
  /\ UNCHANGED <<at, todo, keep, old, accepted, settled>>

\* A session stops short of completing its rewrite: what it was writing may be cut,
\* what it has not begun to write is as it was.
CutShort(s) ==
  /\ IF Rewriting(s) THEN \E written \in SUBSET keep[s] : file' = file \cup written
                     ELSE UNCHANGED file
  /\ quiet' = IF Rewriting(s) THEN {} ELSE quiet
  /\ settled' = IF at[s] = "send" THEN settled \ file ELSE settled
  /\ keep' = [keep EXCEPT ![s] = {}]

\* The process exits or is killed.
Die(s) ==
  /\ at[s] # "off" /\ Goto(s, "off")
  /\ CutShort(s)
  /\ todo' = [todo EXCEPT ![s] = {}]
  /\ UNCHANGED <<queued, old, accepted>>

\* writeFileSync throws, when it opens the file or while it writes; the error is
\* swallowed and the session goes on.
RewriteFails(s) ==
  /\ \/ at[s] \in {"purge", "purging"} /\ Goto(s, "read")
     \/ at[s] = "send" /\ todo[s] = {} /\ Goto(s, "up")
     \/ at[s] = "rewriting" /\ Goto(s, "up")
  /\ CutShort(s)
  /\ UNCHANGED <<todo, queued, old, accepted>>

\* Thirty days pass.
Age(r) ==
  /\ r \in queued \ old
  /\ old' = old \cup {r}
  /\ UNCHANGED <<at, file, todo, keep, queued, accepted, quiet, settled>>

QueueNext ==
  \/ \E s \in Session :
       \/ StartFlush(s) \/ Purge(s) \/ ReadLines(s) \/ Rewrite(s) \/ RewriteFails(s) \/ Die(s)
       \/ \E r \in Report : Send(s, r) \/ QueueReport(s, r)
  \/ \E r \in Report : Age(r)

QueueSpec == QueueInit /\ [][QueueNext]_queueVars

-----------------------------------------------------------------------------
Places == {"off", "purge", "purging", "read", "send", "rewriting", "up"}

QueueTypeOK ==
  /\ at \in [Session -> Places]
  /\ todo \in [Session -> SUBSET Report]
  /\ keep \in [Session -> SUBSET Report]
  /\ file \subseteq Report /\ accepted \subseteq Report
  /\ quiet \subseteq queued /\ queued \subseteq Report
  /\ settled \subseteq accepted /\ old \subseteq queued

\* A report queued while no session was flushing is never lost, whatever the
\* server answers, whenever a session dies outside a rewrite, and also when the
\* file cannot be opened for one: until the server has it or it is too old, it is in
\* the file, or the session that has just emptied the file holds it
\* (purgeOldReports and flushReports).
QuietReportSurvives ==
  \A r \in quiet \ (accepted \cup old) :
    r \in file \/ \E s \in Session : Rewriting(s) /\ r \in keep[s]

\* A report the server has confirmed is not sent again, unless two sessions flush
\* at once or one does not come to empty the file (flushReports).
ConfirmedNotResent == \A r \in settled, s \in Session : r \notin todo[s]

\* Why: at each place of the one session that flushes.
Survives(r) ==
  /\ \A s \in Session :
       /\ at[s] \in {"purge", "purging", "rewriting"} => r \in keep[s]
       /\ at[s] = "send" => r \in todo[s] \cup keep[s]
  /\ (\A s \in Session : ~Rewriting(s)) => r \in file

QueueInv ==
  /\ QueueTypeOK
  /\ quiet # {} => \A s, t \in Session : Flushing(s) /\ Flushing(t) => s = t
  /\ \A r \in quiet \ (accepted \cup old) : Survives(r)

\* And why: only the session that sent a settled report still finds it in the file.
Gone(r) ==
  /\ \A s \in Session : r \notin todo[s] \cup keep[s]
  /\ r \in file => \E s \in Session : at[s] = "send" /\ \A t \in Session : Flushing(t) => t = s

\* A session holds lines only where it needs them, each once, and lines and
\* answers are of reports that were queued.
Holding ==
  /\ file \cup accepted \subseteq queued
  /\ \A s \in Session :
    /\ todo[s] \cup keep[s] \subseteq queued
    /\ at[s] \notin {"purge", "purging", "send", "rewriting"} => keep[s] = {}
    /\ at[s] # "send" => todo[s] = {}
    /\ todo[s] \cap keep[s] = {}

SettledInv == QueueTypeOK /\ Holding /\ \A r \in settled : Gone(r)
================================================================================
