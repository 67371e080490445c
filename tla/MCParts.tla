-------------------------------- MODULE MCParts --------------------------------
(* Three parts of the client process that no session steers: two sessions     *)
(* share the report file, three calls share the token bucket, and the reader  *)
(* takes the container's stdout as it comes.  They do not interact, so a      *)
(* behaviour moves one of them.                                               *)
EXTENDS ReportQueue, RateLimiter, StdoutReader

VARIABLE part

vars == <<part, queueVars, limiterVars, readerVars>>

Init ==
  /\ part \in {"queue", "limiter", "reader"}
  /\ QueueInit /\ LimiterInit /\ ReaderInit

Next ==
  /\ UNCHANGED part
  /\ \/ part = "queue" /\ QueueNext /\ UNCHANGED <<limiterVars, readerVars>>
     \/ part = "limiter" /\ LimiterNext /\ UNCHANGED <<queueVars, readerVars>>
     \/ part = "reader" /\ ReaderNext /\ UNCHANGED <<queueVars, limiterVars>>

Spec == Init /\ [][Next]_vars

TypeOK == QueueTypeOK /\ LimiterTypeOK /\ ReaderTypeOK

\* Replies of two bytes, the longest that are always safe, of three and of five.
SomeText ==
  {<<"lead", "trail">>, <<"a", "a">>, <<"a", "lead", "trail">>,
   <<"lead", "trail", "a", "lead", "trail">>}
================================================================================
