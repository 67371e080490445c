-------------------------------- MODULE PreScan --------------------------------
(***************************************************************************)
(* The pre-scan (src/pre-scan.ts): walk the project, exclude what must not *)
(* be shown, have SovGuard scan the rest, and let the buyer see, edit and  *)
(* confirm the exclusions the session will enforce.                        *)
(***************************************************************************)
CONSTANTS
  File,       \* what the walk meets
  Sensitive,  \* names of AUTO_EXCLUDE_PATTERNS, links out of the project
  Scannable   \* other files, of a scannable type and size

ASSUME PreScanAssumption ==
  Sensitive \subseteq File /\ Scannable \subseteq File \ Sensitive

VARIABLES
  scanAt,    \* where preScan is
  todo,      \* the files still to scan
  excluded,  \* exclusions
  selected,  \* the editor's marks: still excluded
  flagged,   \* the files SovGuard called unsafe
  waived,    \* what the buyer unmarked in the editor
  cancelled  \* the buyer left the editor by ESC or q

scanVars == <<scanAt, todo, excluded, selected, flagged, waived, cancelled>>

ScanInit ==
  /\ scanAt = "idle"
  /\ todo = {} /\ excluded = {} /\ selected = {} /\ flagged = {}
  /\ waived = {} /\ cancelled = FALSE

Proceed(place) == scanAt' = place

\* walkDir; with SovGuard the scannable files are then statted, which throws
\* when one has vanished.
Walk(scanning) ==
  /\ scanAt = "walk"
  /\ \/ Proceed("scan") \/ (scanning /\ Proceed("failed"))
  /\ excluded' = Sensitive
  /\ todo' = IF scanning THEN Scannable ELSE {}
  /\ UNCHANGED <<selected, flagged, waived, cancelled>>

\* One answer: unsafe; safe, or none (an unreadable file, a failed request);
\* or 401, which ends the scan and keeps what it found.
ScanFile(f) ==
  /\ scanAt = "scan" /\ f \in todo
  /\ \/ todo' = todo \ {f} /\ excluded' = excluded \cup {f} /\ flagged' = flagged \cup {f}
     \/ todo' \in {todo \ {f}, {}} /\ UNCHANGED <<excluded, flagged>>
  /\ UNCHANGED <<scanAt, selected, waived, cancelled>>

\* The directory hash stats every file again.
ScanDone ==
  /\ scanAt = "scan" /\ todo = {}
  /\ Proceed("ask") \/ Proceed("failed")
  /\ UNCHANGED <<todo, excluded, selected, flagged, waived, cancelled>>

\* promptChoice: any other key asks again; E without exclusions aborts.
Ask ==
  /\ scanAt = "ask"
  /\ \/ Proceed("yes") /\ UNCHANGED selected
     \/ Proceed("no") /\ UNCHANGED selected
     \/ excluded # {} /\ Proceed("edit") /\ selected' = excluded
  /\ UNCHANGED <<todo, excluded, flagged, waived, cancelled>>

Flip(S, f) == (S \ {f}) \cup ({f} \ S)

\* Mutant: the cursor may leave the list.
AnyItem(f) == TRUE

\* The cursor stays on the list of exclusions.
OnList(f) == f \in excluded

\* SPACE on the item under the cursor.
Toggle(f) ==
  /\ scanAt = "edit" /\ OnList(f)
  /\ selected' = Flip(selected, f)
  /\ waived' = Flip(waived, f)
  /\ UNCHANGED <<scanAt, todo, excluded, flagged, cancelled>>

\* Mutant: the list is not emptied before the kept entries are pushed.
ReplacedUncleared(kept, same) == excluded \cup kept

\* preScan empties `exclusions` in place and pushes the entries the editor kept;
\* when those are that same array, they have just been emptied with it.
Replaced(kept, same) == IF same THEN {} ELSE kept

\* The editor resolves with the marked entries (ENTER), a new array, or with the
\* array it was given (ESC, q).
EditEnter ==
  /\ scanAt = "edit" /\ Proceed("confirm")
  /\ excluded' = Replaced(selected, FALSE) /\ selected' = {}
  /\ UNCHANGED <<todo, flagged, waived, cancelled>>

EditEsc ==
  /\ scanAt = "edit" /\ Proceed("confirm")
  /\ excluded' = Replaced(excluded, TRUE) /\ selected' = {}
  /\ cancelled' = TRUE
  /\ UNCHANGED <<todo, flagged, waived>>

\* promptConfirm.
Confirm ==
  /\ scanAt = "confirm"
  /\ Proceed("yes") \/ Proceed("no")
  /\ UNCHANGED <<todo, excluded, selected, flagged, waived, cancelled>>

\* Ctrl+C in the editor exits like a refusal.
EditQuit ==
  /\ scanAt = "edit" /\ Proceed("no")
  /\ UNCHANGED <<todo, excluded, selected, flagged, waived, cancelled>>

Scan(scanning) ==
  \/ Walk(scanning) \/ ScanDone \/ Ask \/ EditEnter \/ EditEsc \/ EditQuit \/ Confirm
  \/ \E f \in File : ScanFile(f) \/ Toggle(f)

ScanTypeOK ==
  /\ scanAt \in {"idle", "walk", "scan", "ask", "edit", "confirm", "yes", "no", "failed"}
  /\ todo \subseteq Scannable
  /\ excluded \subseteq Sensitive \cup Scannable /\ selected \subseteq excluded
  /\ flagged \subseteq Scannable /\ waived \subseteq Sensitive \cup Scannable
  /\ cancelled \in BOOLEAN

Found == Sensitive \cup flagged

\* What the session enforces after the buyer's yes is everything the walk and
\* the scan found, also before a 401 cut the scan short, but for what the buyer
\* unmarked in the editor.  This says nothing of a buyer who cancelled the editor:
\* his list is empty (CancelKeeps).
ExclusionsHonest == scanAt = "yes" /\ ~cancelled => excluded = Found \ waived

\* pre-scan.ts, of ESC and q in the editor: "cancel, keep original".
CancelKeeps == scanAt = "yes" /\ cancelled => excluded = Found

\* Why they are: until the editor opens the exclusions are what was found, and in
\* it the marks are what was found but for what is waived, whatever the order of
\* SPACE and ENTER.
ScanInv ==
  /\ scanAt \in {"idle", "walk"} => excluded = {} /\ flagged = {}
  /\ scanAt \in {"idle", "walk", "scan", "ask"} => selected = {} /\ waived = {}
  /\ scanAt \in {"scan", "ask", "edit"} => excluded = Found
  /\ scanAt = "edit" => selected = Found \ waived /\ waived \subseteq Found
  /\ scanAt \in {"confirm", "yes"} /\ ~cancelled => excluded = Found \ waived
================================================================================
