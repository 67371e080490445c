------------------------------- MODULE Approvals -------------------------------
(***************************************************************************)
(* What the supervisor promises the handlers that ask for a write          *)
(* approval: requests wait in one line, the buyer decides the first of the *)
(* line, and each request gets exactly one decision.                       *)
(***************************************************************************)
EXTENDS Sequences, Naturals

CONSTANT Calls

VARIABLES
  waiting,  \* the requests not decided yet, first come first
  decided   \* the decision a caller has not read yet

avars == <<waiting, decided>>

Init == waiting = <<>> /\ decided = [c \in Calls |-> "none"]

Request(c) ==
  /\ \A k \in 1..Len(waiting) : waiting[k] # c
  /\ decided[c] = "none"
  /\ waiting' = Append(waiting, c)
  /\ UNCHANGED decided

Decide ==
  /\ waiting # <<>>
  /\ \E d \in {"true", "false"} :
       decided' = [decided EXCEPT ![Head(waiting)] = d]
  /\ waiting' = Tail(waiting)

Read(c) ==
  /\ decided[c] # "none"
  /\ decided' = [decided EXCEPT ![c] = "none"]
  /\ UNCHANGED waiting

Next == Decide \/ \E c \in Calls : Request(c) \/ Read(c)

Spec == Init /\ [][Next]_avars
===============================================================================
