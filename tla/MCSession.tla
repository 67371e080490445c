------------------------------- MODULE MCSession -------------------------------
(* Sessions of two calls over a handful of requests.                         *)
EXTENDS Session, TLC

Request(tool, forbidden, sensitive, big) ==
  [tool |-> tool, forbidden |-> forbidden, sensitive |-> sensitive, big |-> big]

PlainWrite     == Request("write", FALSE, FALSE, FALSE)
SensitiveWrite == Request("write", FALSE, TRUE, FALSE)
BigWrite       == Request("write", FALSE, FALSE, TRUE)
ForbiddenWrite == Request("write", TRUE, FALSE, FALSE)
PlainRead      == Request("read", FALSE, FALSE, FALSE)
BigRead        == Request("read", FALSE, FALSE, TRUE)

\* Each kind of write; reads only matter to SovGuard's failure count here.
WritesAndReads == {SensitiveWrite, BigWrite, ForbiddenWrite, PlainRead}
OnlyWrites     == {PlainWrite}

\* Reads for the limits' sake: a big one is not scanned.
CountedCalls   == {PlainWrite, BigRead}

CallSymmetry == Permutations(Calls)
================================================================================
