---------------------------- MODULE LifecycleProofs ----------------------------
(***************************************************************************)
(* No way of ending the process leaves a container behind that it held,    *)
(* whichever of Docker's requests may fail; and none ends a session that   *)
(* was served over a live relay without sending its log.                   *)
(***************************************************************************)
EXTENDS Lifecycle, TLAPS

\* The process starts without a container.
LEMMA InitHandle == Init => HandleInv
  BY DEF Init, HandleInv, NothingLeft, Alive, Gone

\* Every caller of cleanup keeps the invariant.
LEMMA EndOverKeeps ==
  ASSUME HandleInv, Alive, NEW transport, NEW n \in {"0", "1"}, EndOver(transport, n),
         step' = step \/ step' = "over"
  PROVE  HandleInv'
<1>1. code' \in {"0", "1"}
  BY DEF EndOver, HandleInv
<1>2. UNCHANGED <<container, handle, refused>>
  BY DEF EndOver
<1>3. CASE ExitWith(n)
  <2>1. CASE handle /\ leaving' = n /\ UNCHANGED exit
    BY <1>1, <1>2, <2>1 DEF HandleInv, NothingLeft, Alive, Gone
  <2>2. CASE ~handle /\ exit' = n /\ UNCHANGED leaving
    <3>1. container' = "none" /\ ~handle' /\ leaving' = "no"
      BY <1>2, <2>2 DEF HandleInv, Alive
    <3>2. ~Alive'
      BY <2>2 DEF Alive, Gone
    <3> QED BY <1>1, <3>1, <3>2 DEF HandleInv, NothingLeft
  <2> QED BY <1>3, <2>1, <2>2 DEF ExitWith
<1>4. CASE handle /\ UNCHANGED <<leaving, exit>>
  BY <1>1, <1>2, <1>4 DEF HandleInv, NothingLeft, Alive, Gone
<1> QED BY <1>3, <1>4 DEF EndOver

\* So does a forced exit, which only starts `docker rm -f` ...
LEMMA ForceExitKeeps ==
  ASSUME HandleInv, ForceExit, ~Gone, UNCHANGED step
  PROVE  HandleInv'
  BY DEF HandleInv, NothingLeft, Alive, Gone, ForceExit

\* ... and its return, which removes the container or was refused.
LEMMA RmReturnsKeeps ==
  ASSUME HandleInv, RmReturns
  PROVE  HandleInv'
<1>1. ~Alive' /\ UNCHANGED <<code, step, handle>>
  BY DEF RmReturns, Alive
<1>2. container = "none" => container' = "none"
  BY DEF RmReturns
<1>3. NothingLeft'
  BY DEF RmReturns, NothingLeft
<1> QED BY <1>1, <1>2, <1>3 DEF HandleInv

\* Every step keeps the invariant.
LEMMA HandleStep == HandleInv /\ [Next]_vars => HandleInv'
<1> SUFFICES ASSUME HandleInv, [Next]_vars PROVE HandleInv'
  OBVIOUS
<1>1. CASE Gates \/ Create \/ CreateLate \/ Start \/ Initialize \/ Connect
  BY <1>1 DEF Gates, Create, CreateLate, Start, Initialize, Connect, Goto, HandleInv,
     NothingLeft, Alive, Gone
<1>2. CASE StartupThrows \/ SessionEnded \/ RelayFails \/ ServerKicks \/ Expire \/ Fault
             \/ ContainerExitSeen
  BY <1>2, EndOverKeeps DEF StartupThrows, SessionEnded, RelayFails, ServerKicks, Expire,
     Fault, ContainerExitSeen, EndBy
<1>3. CASE Signal \/ CleanupTimeout
  BY <1>3, EndOverKeeps, ForceExitKeeps DEF Signal, CleanupTimeout, EndBy, Alive
<1>4. CASE Inspect \/ StopReturns
  BY <1>4 DEF Inspect, StopReturns, HandleInv, NothingLeft, Alive, Gone
<1>5. CASE DockerStops \/ ContainerDies
  BY <1>5 DEF DockerStops, ContainerDies, HandleInv, NothingLeft, Alive, Gone
<1>6. CASE RemoveReturns
  <2>1. exit' # "none" /\ step' \notin {"gates", "creating"}
    BY <1>6 DEF RemoveReturns, HandleInv
  <2> QED BY <1>6, <2>1 DEF RemoveReturns, HandleInv, NothingLeft, Alive, Gone
<1>7. CASE TransportDrops \/ Reconnects
  BY <1>7 DEF TransportDrops, Reconnects, HandleInv, NothingLeft, Alive, Gone
<1>8. CASE GivesUp
  <2>1. CASE EndBy("1")
    BY <1>8, <2>1, EndOverKeeps DEF GivesUp, EndBy
  <2>2. CASE UNCHANGED <<container, handle, stopping, code, log, refused, causes,
                            leaving, exit>>
    BY <1>8, <2>2 DEF GivesUp, HandleInv, NothingLeft, Alive, Gone
  <2> QED BY <1>8, <2>1, <2>2 DEF GivesUp
<1>9. CASE UNCHANGED vars
  BY <1>9 DEF vars, HandleInv, NothingLeft, Alive, Gone
<1>10. CASE RmReturns
  BY <1>10, RmReturnsKeeps
<1> QED BY <1>1, <1>2, <1>3, <1>4, <1>5, <1>6, <1>7, <1>8, <1>9, <1>10 DEF Next

\* Whatever ends the process, in whatever order, no container it held outlives
\* it unless Docker refused to remove it.
THEOREM LifecycleNothingLeft == Spec => []NothingLeft
<1>1. HandleInv => NothingLeft
  BY DEF HandleInv
<1> QED BY <1>1, InitHandle, HandleStep, PTL DEF Spec

-----------------------------------------------------------------------------
(* The relay and the log.                                                  *)

\* A caller of cleanup closes the relay and settles the log, or finds it done.
LEMMA EndOverRelay ==
  ASSUME RelayInv, Alive, NEW transport \in {relay, "lost"}, NEW n, EndOver(transport, n),
         transport # relay => relay \in {"up", "late"},
         signals' \in Nat, step' = step \/ step' = "over"
  PROVE  RelayInv'
<1>1. CASE stopping # "no" /\ UNCHANGED <<stopping, relay, log>>
  BY <1>1 DEF RelayInv
<1>2. CASE CloseDown(transport) /\ stopping = "no" /\ stopping' # "no"
  <2>1. relay' \in {"closed", "cut"}
    BY <1>2 DEF CloseDown, Disconnected
  <2>2. step' = "serving" /\ relay' = "closed" => log' = "sent"
    <3> SUFFICES ASSUME step = "serving", relay' = "closed" PROVE log' = "sent"
      OBVIOUS
    <3>1. relay \in {"up", "down", "lost"}
      BY <1>2 DEF RelayInv
    <3> QED BY <1>2, <3>1 DEF CloseDown, Disconnected
  <2> QED BY <1>2, <2>1, <2>2 DEF RelayInv
<1> QED BY <1>1, <1>2 DEF EndOver

\* A forced exit only happens when cleanup has closed the relay.
LEMMA ForceExitRelay ==
  ASSUME RelayInv, signals > 0, signals \in Nat, ForceExit, UNCHANGED step, signals' \in Nat
  PROVE  RelayInv'
  BY DEF RelayInv, ForceExit

\* Every step keeps the invariant of the relay.
LEMMA RelayStep ==
  TypeInv /\ TypeInv' /\ RelayInv /\ [Next]_vars => RelayInv'
<1> SUFFICES ASSUME TypeInv, TypeInv', RelayInv, [Next]_vars PROVE RelayInv'
  OBVIOUS
<1> signals \in Nat /\ signals' \in Nat
  BY DEF TypeInv, TypeOK
<1>1. CASE Gates \/ Create \/ CreateLate \/ Start \/ Initialize \/ Connect
  BY <1>1 DEF Gates, Create, CreateLate, Start, Initialize, Connect, Goto, RelayInv, Alive, Gone
<1>2. CASE StartupThrows \/ SessionEnded \/ RelayFails \/ Expire \/ Fault
             \/ ContainerExitSeen
  BY <1>2, EndOverRelay DEF StartupThrows, SessionEnded, RelayFails, Expire, Fault,
     ContainerExitSeen, EndBy
<1>3. CASE ServerKicks
  BY <1>3, EndOverRelay DEF ServerKicks
<1>4. CASE GivesUp
  <2>1. CASE EndBy("1")
    BY <1>4, <2>1, EndOverRelay DEF GivesUp, EndBy
  <2>2. CASE relay' = "lost" /\ UNCHANGED <<stopping, log, leaving, exit>>
    BY <1>4, <2>2 DEF GivesUp, RelayInv, Alive, Gone
  <2> QED BY <1>4, <2>1, <2>2 DEF GivesUp
<1>5. CASE TransportDrops \/ Reconnects
  BY <1>5 DEF TransportDrops, Reconnects, RelayInv, Alive, Gone
<1>6. CASE Signal
  <2>1. CASE signals = 0
    BY <1>6, <2>1, EndOverRelay DEF Signal, EndBy
  <2>2. CASE signals > 0
    BY <1>6, <2>2, ForceExitRelay DEF Signal
  <2> QED BY <2>1, <2>2
<1>7. CASE CleanupTimeout
  BY <1>7, ForceExitRelay DEF CleanupTimeout, TimeoutGuard
<1>8. CASE Inspect \/ DockerStops \/ StopReturns \/ RemoveReturns \/ ContainerDies
  BY <1>8 DEF Inspect, DockerStops, StopReturns, RemoveReturns, ContainerDies, RelayInv, Alive, Gone
<1>9. CASE UNCHANGED vars
  BY <1>9 DEF vars, RelayInv, Alive, Gone
<1>10. CASE RmReturns
  BY <1>10 DEF RmReturns, RelayInv, Alive
<1> QED BY <1>1, <1>2, <1>3, <1>4, <1>5, <1>6, <1>7, <1>8, <1>9, <1>10 DEF Next

-----------------------------------------------------------------------------
(* Types: a process that lives has had at most one signal.                 *)

\* What a caller of cleanup leaves is of the right type.
LEMMA EndOverType ==
  ASSUME TypeOK, NEW transport, NEW n \in {"0", "1"}, EndOver(transport, n)
  PROVE  /\ container' \in {"none", "created", "running", "exited", "removed"}
         /\ handle' \in BOOLEAN
         /\ stopping' \in {"no", "inspect", "stop", "remove", "over"}
         /\ code' \in {"0", "1"}
         /\ relay' \in {"none", "up", "down", "lost", "closed", "cut", "late"}
         /\ log' \in {"open", "sent", "local"}
         /\ refused' \subseteq Docker
         /\ leaving' \in {"no", "0", "1"}
         /\ exit' \in {"none", "0", "1"}
<1>1. ExitWith(n) \/ UNCHANGED <<leaving, exit>>
  BY DEF EndOver
<1>2. /\ container' \in {"none", "created", "running", "exited", "removed"}
      /\ handle' \in BOOLEAN /\ refused' \subseteq Docker
      /\ leaving' \in {"no", "0", "1"} /\ exit' \in {"none", "0", "1"}
  BY <1>1 DEF ExitWith, EndOver, TypeOK
<1>3. /\ relay' \in {"none", "up", "down", "lost", "closed", "cut", "late"}
      /\ log' \in {"open", "sent", "local"}
  BY DEF EndOver, CloseDown, Disconnected, TypeOK
<1>4. stopping' \in {"no", "inspect", "stop", "remove", "over"} /\ code' \in {"0", "1"}
  BY DEF EndOver, TypeOK
<1> QED BY <1>2, <1>3, <1>4

\* Every step keeps the types.
LEMMA TypeStep == TypeInv /\ [Next]_vars => TypeInv'
<1> SUFFICES ASSUME TypeInv, [Next]_vars PROVE TypeInv'
  OBVIOUS
<1> USE DEF TypeInv
<1>1. CASE Gates \/ Create \/ CreateLate \/ Start \/ Initialize \/ Connect
  BY <1>1 DEF Gates, Create, CreateLate, Start, Initialize, Connect, Goto, TypeOK, Alive, Gone
<1>2. CASE StartupThrows \/ SessionEnded \/ RelayFails \/ ServerKicks \/ Expire \/ Fault
             \/ ContainerExitSeen
  <2>1. \E transport \in {relay, "lost"}, n \in {"0", "1"} : EndOver(transport, n)
    BY <1>2 DEF StartupThrows, SessionEnded, RelayFails, ServerKicks, Expire, Fault,
       ContainerExitSeen, EndBy
  <2>2. /\ step' \in {step, "over"} /\ UNCHANGED signals
        /\ causes' \subseteq {"session_ended", "error", "signal", "expired"}
        /\ Alive
    BY <1>2 DEF StartupThrows, SessionEnded, RelayFails, ServerKicks, Expire, Fault,
       ContainerExitSeen, Because, TypeOK
  <2> QED BY <2>1, <2>2, EndOverType DEF TypeOK, Alive, Gone
<1>3. CASE GivesUp
  <2>1. CASE EndBy("1")
    BY <1>3, <2>1, EndOverType DEF GivesUp, EndBy, Because, TypeOK, Alive, Gone
  <2>2. CASE /\ relay' = "lost"
             /\ UNCHANGED <<container, handle, stopping, code, log, refused, causes,
                            leaving, exit>>
    BY <1>3, <2>2 DEF GivesUp, TypeOK, Alive, Gone
  <2> QED BY <1>3, <2>1, <2>2 DEF GivesUp
<1>4. CASE Signal
  <2>1. signals' \in 1..2 /\ (signals = 0 => signals' = 1) /\ signals \in 0..1
    BY <1>4 DEF Signal, TypeOK
  <2>2. CASE signals = 0
    BY <1>4, <2>1, <2>2, EndOverType DEF Signal, EndBy, Because, TypeOK, Alive, Gone
  <2>3. CASE signals > 0
    BY <1>4, <2>1, <2>3 DEF Signal, ForceExit, Because, TypeOK, Alive, Gone
  <2> QED BY <2>1, <2>2, <2>3
<1>5. CASE CleanupTimeout
  BY <1>5 DEF CleanupTimeout, ForceExit, TypeOK, Alive, Gone
<1>6. CASE Inspect \/ DockerStops \/ StopReturns \/ RemoveReturns
  BY <1>6 DEF Inspect, DockerStops, StopReturns, RemoveReturns, TypeOK, Alive, Gone
<1>7. CASE TransportDrops \/ Reconnects \/ ContainerDies
  BY <1>7 DEF TransportDrops, Reconnects, ContainerDies, Because, TypeOK, Alive, Gone
<1>8. CASE UNCHANGED vars
  BY <1>8 DEF vars, TypeOK, Alive, Gone
<1>9. CASE RmReturns
  BY <1>9 DEF RmReturns, TypeOK, Alive, Gone
<1> QED BY <1>1, <1>2, <1>3, <1>4, <1>5, <1>6, <1>7, <1>8, <1>9 DEF Next

\* The types and the relay's invariant hold together.
LEMMA RelayInvariant == Spec => [](TypeInv /\ RelayInv)
<1>1. Init => TypeInv /\ RelayInv
  <2> SUFFICES ASSUME Init PROVE TypeInv /\ RelayInv
    OBVIOUS
  <2>1. TypeInv
    <3>1. handle \in BOOLEAN
      BY DEF Init
    <3>2. refused \subseteq Docker
      BY DEF Init
    <3> QED BY <3>1, <3>2 DEF Init, TypeInv, TypeOK, Alive, Gone
  <2>2. RelayInv
    BY DEF Init, RelayInv, Alive, Gone
  <2> QED BY <2>1, <2>2
<1> QED BY <1>1, TypeStep, RelayStep, PTL DEF Spec

\* The variables of the process keep their types, whatever Docker refuses.
THEOREM LifecycleTypeOK == Spec => []TypeOK
<1>1. TypeInv => TypeOK
  BY DEF TypeInv
<1> QED BY <1>1, RelayInvariant, PTL

\* However cleanup is called, a session served over a live relay sends its log
\* before the relay is disconnected, and no relay outlives the process.
THEOREM LifecycleLogSent == Spec => []LogSent
<1>1. RelayInv => LogSent
  BY DEF RelayInv, LogSent
<1> QED BY <1>1, RelayInvariant, PTL
================================================================================
