------------------------------ MODULE CallService ------------------------------
(***************************************************************************)
(* What a session promises the agent that calls it: the project is touched *)
(* at most once per call, each call is settled at most once, a success is  *)
(* only declared of what was done, and nothing is done of a call that was  *)
(* refused.  A call declared failed may have been done, or be done later.  *)
(***************************************************************************)
CONSTANT Calls

VARIABLES
  done,  \* what became of each call: "no", "ok", "error" or "partial"
  fate,  \* how it was settled: "open", "ok", "failed" or "refused"
  told   \* what the agent was told of it: one word, or nothing

cvars == <<done, fate, told>>

Init ==
  /\ done = [c \in Calls |-> "no"]
  /\ fate = [c \in Calls |-> "open"]
  /\ told = [c \in Calls |-> <<>>]

Do(c) ==
  /\ done[c] = "no" /\ fate[c] \in {"open", "failed"}
  /\ \E o \in {"ok", "error", "partial"} : done' = [done EXCEPT ![c] = o]
  /\ UNCHANGED <<fate, told>>

\* A session that is ending may settle a call without telling the agent.
Settle(c, f) ==
  /\ fate[c] = "open"
  /\ f = "ok" => done[c] = "ok"
  /\ f = "refused" => done[c] = "no"
  /\ fate' = [fate EXCEPT ![c] = f]
  /\ told' \in {told, [told EXCEPT ![c] = <<f>>]}
  /\ UNCHANGED done

Next == \E c \in Calls : Do(c) \/ \E f \in {"ok", "failed", "refused"} : Settle(c, f)

Spec == Init /\ [][Next]_cvars
================================================================================
