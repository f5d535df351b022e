-------------------------- MODULE MultiCoinProofs ---------------------------
(***************************************************************************)
(* Proofs about MultiCoin, for every configuration, every order of signals *)
(* and failures and any number of connections: Run waits for its goroutine,*)
(* closes its files, and the exit status is that of Service.               *)
(***************************************************************************)
EXTENDS MultiCoin, TLAPS

\* Where the goroutine is and what it has done there: to Serve, to done, to the
\* WaitGroup and to errC.
GoroutineOK ==
  /\ goroutine = "none" => serve = "none" /\ wg = 0 /\ errC = <<>> /\ ~done
  /\ goroutine = "spawned" => serve = "none" /\ wg = 1 /\ errC = <<>> /\ ~done
  /\ goroutine = "serving" =>
       serve # "none" /\ wg = 1 /\ errC = <<>> /\ (done <=> serve = "returned")
  /\ goroutine = "sent" => serve = "returned" /\ wg = 1 /\ done
  /\ goroutine = "finished" => serve = "returned" /\ wg = 0 /\ done

\* The accept loop ends with a closed listener.
ListenerOK == serve \in {"failed", "returned"} => listener = "closed"

\* Where Run is and what it has started and stopped there.
RunOK ==
  /\ main \in {"ParseFlags", "ParseConfig", "SetLevel", "OpenLogFile", "StartProfile",
               "StartGoroutines", "CreateServer", "GoServe"} => goroutine = "none"
  /\ main \in {"ParseFlags", "ParseConfig", "SetLevel", "OpenLogFile", "StartProfile",
               "StartGoroutines", "CreateServer"} => listener = "none"
  /\ main = "GoServe" => listener = "open"
  /\ main \in {"Select", "CloseListener", "AwaitServe", "Wait"} => goroutine # "none"
  /\ main \in {"AwaitServe", "Wait"} => listener = "closed"
  /\ main = "Wait" => done

\* Why Run goes on from select: while it has not closed the listener, only a
\* failure ends the accept loop.
ReasonOK ==
  /\ main \in {"ParseFlags", "ParseConfig", "SetLevel", "OpenLogFile", "StartProfile",
               "StartGoroutines", "CreateServer", "GoServe", "Select"} => retErr = "nil"
  /\ main \in {"Select", "CloseListener"} /\ listener = "closed" =>
       broken /\ serve \in {"failed", "returned"}
  /\ main \in {"CloseListener", "AwaitServe", "Wait", "Goodbye", "Return", "Exit"} /\ retErr = "nil"
       => quit
  /\ retErr # "nil" => broken

\* The process has a status exactly when it has exited.
StatusOK == status = "running" <=> main # "exited"

FilesOK ==
  /\ main \in {"ParseFlags", "ParseConfig", "SetLevel", "OpenLogFile"} => logFile = "none"
  /\ main \in {"ParseFlags", "ParseConfig", "SetLevel", "OpenLogFile", "StartProfile"} => ~profiling
  /\ main \in {"Exit", "exited"} => ~profiling
  /\ main \in {"Return", "Exit", "exited"} /\ logFile = "open" => retErr = "profile"

IInv ==
  /\ TypeOK
  /\ GoroutineOK
  /\ ListenerOK
  /\ RunOK
  /\ RunWaits
  /\ ReasonOK
  /\ StatusOK
  /\ FilesOK

USE ApiServerAssumption

LEMMA ConfigBooleans ==
  ASSUME config \in Configs
  PROVE  config.help \in BOOLEAN /\ config.logToFile \in BOOLEAN /\
         config.profileCPU \in BOOLEAN /\ config.httpProf \in BOOLEAN
BY DEF Configs

LEMMA InitIInv == Init => IInv
<1> SUFFICES ASSUME Init PROVE IInv
  OBVIOUS
<1> USE DEF Init, ServerInit
<1>1. /\ done \in BOOLEAN /\ catching \in BOOLEAN /\ quit \in BOOLEAN
      /\ profiling \in BOOLEAN /\ broken \in BOOLEAN
  BY Zenon
<1>2. TypeOK
  BY <1>1 DEF TypeOK, ServerTypeOK, Places, RunErrors
<1>3. GoroutineOK /\ ListenerOK /\ RunOK /\ RunWaits
  BY DEF GoroutineOK, ListenerOK, RunOK, RunWaits
<1>4. ReasonOK /\ StatusOK /\ FilesOK
  BY DEF ReasonOK, StatusOK, FilesOK
<1> QED
  BY <1>2, <1>3, <1>4 DEF IInv

LEMMA MainIInv == ASSUME IInv, Main PROVE IInv'
<1> USE DEF IInv, TypeOK, ServerTypeOK, Places, RunErrors, GoroutineOK, ListenerOK,
       RunOK, RunWaits, ReasonOK, StatusOK, FilesOK, serverVars, runVars, fileVars, Goes, Exits, Fails
<1>1. CASE ParseFlags \/ ParseConfig
  <2>1. CASE ParseFlags
    BY <2>1 DEF ParseFlags
  <2>2. CASE ParseConfig
    BY <2>2 DEF ParseConfig
  <2> QED BY <1>1, <2>1, <2>2
<1>2. CASE SetLevel
  BY <1>2 DEF SetLevel
<1>3. CASE OpenLogFile
  BY <1>3 DEF OpenLogFile
<1>4. CASE StartProfile
  <2>1. config.profileCPU \in BOOLEAN
    BY ConfigBooleans
  <2>2. profiling' \in BOOLEAN
    BY <1>4, <2>1, Zenon DEF StartProfile
  <2>3. CASE main' = "Return"
    BY <1>4, <2>2, <2>3 DEF StartProfile
  <2>4. CASE main' = "StartGoroutines"
    BY <1>4, <2>2, <2>4 DEF StartProfile
  <2> QED
    BY <1>4, <2>3, <2>4 DEF StartProfile
<1>5. CASE StartGoroutines
  BY <1>5 DEF StartGoroutines
<1>6. CASE CreateServer
  <2>1. CASE main' = "GoServe"
    BY <1>6, <2>1 DEF CreateServer, Create
  <2>2. CASE main' = "Goodbye"
    BY <1>6, <2>2 DEF CreateServer, Create
  <2> QED
    BY <1>6, <2>1, <2>2 DEF CreateServer
<1>7. CASE GoServe
  BY <1>7 DEF GoServe
<1>8. CASE SelectQuit
  BY <1>8 DEF SelectQuit
<1>9. CASE SelectError
  <2>1. errC = <<"serve">> /\ retErr' = "serve" /\ errC' = <<>>
    <3>1. errC = <<"serve">>
      BY <1>9, Zenon DEF SelectError
    <3>2. retErr' = Head(errC) /\ errC' = Tail(errC)
      BY <1>9 DEF SelectError
    <3> QED
      BY <3>1, <3>2
  <2> QED
    BY <1>9, <2>1 DEF SelectError
<1>10. CASE CloseListener
  BY <1>10 DEF CloseListener, ShutdownListener
<1>11. CASE AwaitServe
  BY <1>11 DEF AwaitServe, ShutdownAwaitsServe
<1>12. CASE Wait
  BY <1>12 DEF Wait
<1>13. CASE Goodbye
  BY <1>13 DEF Goodbye
<1>14. CASE Return
  <2>1. ~profiling' /\ profiling' \in BOOLEAN
    BY <1>14, Zenon DEF Return
  <2> QED
    BY <1>14, <2>1 DEF Return
<1>15. CASE Exit
  BY <1>15 DEF Exit
<1> QED
  BY <1>1, <1>2, <1>3, <1>4, <1>5, <1>6, <1>7, <1>8, <1>9, <1>10, <1>11, <1>12, <1>13, <1>14,
     <1>15 DEF Main

LEMMA ServingIInv == ASSUME IInv, Serving PROVE IInv'
<1> USE DEF IInv, TypeOK, ServerTypeOK, Places, RunErrors, GoroutineOK, ListenerOK, RunOK, RunWaits,
       ReasonOK, StatusOK, FilesOK, serverVars, mainVars, fileVars, signalVars, Alive
<1>1. CASE BeginServe
  BY <1>1 DEF BeginServe, CallServe
<1>2. CASE AcceptOnClosed
  BY <1>2 DEF AcceptOnClosed, AcceptFails
<1>3. CASE EndServe
  BY <1>3 DEF EndServe, ServeReturns
<1>4. CASE SendError
  <2>1. errC' = <<"serve">>
    BY <1>4 DEF SendError
  <2> QED
    BY <1>4, <2>1 DEF SendError
<1>5. CASE Finish
  BY <1>5 DEF Finish
<1> QED
  BY <1>1, <1>2, <1>3, <1>4, <1>5 DEF Serving

LEMMA EnvironmentIInv == ASSUME IInv, Environment PROVE IInv'
<1> USE DEF IInv, TypeOK, ServerTypeOK, Places, RunErrors, GoroutineOK, ListenerOK, RunOK, RunWaits,
       ReasonOK, StatusOK, FilesOK, serverVars, mainVars, fileVars, signalVars, Alive
<1>1. CASE Interrupt
  <2>1. catching' \in BOOLEAN /\ quit' \in BOOLEAN
    BY <1>1, Zenon DEF Interrupt
  <2> QED
    BY <1>1, <2>1 DEF Interrupt
<1>2. CASE AcceptBreaks
  BY <1>2 DEF AcceptBreaks, AcceptFails
<1>3. CASE Client
  BY <1>3 DEF Client, Accept, HandlerReturns
<1>4. CASE ProfilingInterfaceFails
  BY <1>4 DEF ProfilingInterfaceFails
<1> QED
  BY <1>1, <1>2, <1>3, <1>4 DEF Environment

LEMMA NextIInv == IInv /\ [Next]_vars => IInv'
<1> SUFFICES ASSUME IInv, [Next]_vars PROVE IInv'
  OBVIOUS
<1>1. CASE UNCHANGED vars
  BY <1>1 DEF vars, IInv, TypeOK, ServerTypeOK, GoroutineOK, ListenerOK, RunOK, RunWaits, ReasonOK,
     StatusOK, FilesOK, serverVars, runVars, fileVars
<1> QED
  BY <1>1, MainIInv, ServingIInv, EnvironmentIInv DEF Next, Exited

LEMMA SpecIInv == Spec => []IInv
BY InitIInv, NextIInv, PTL DEF Spec

-----------------------------------------------------------------------------
\* The state has its type.
THEOREM MultiCoinTypeCorrect == Spec => []TypeOK
BY SpecIInv, PTL DEF IInv

\* Run does not get past wg.Wait() before the goroutine of Serve has finished
\* and the listener is closed (multicoin.go:124, :128).
THEOREM RunAlwaysWaits == Spec => []RunWaits
BY SpecIInv, PTL DEF IInv

\* A process that has left Run has stopped its CPU profile and closed its log
\* file, unless it gave up because it could not start the profile.
THEOREM FilesAreClosed == Spec => []FilesClosed
<1>1. IInv => FilesClosed
  BY DEF IInv, FilesOK, FilesClosed
<1> QED
  BY <1>1, SpecIInv, PTL

-----------------------------------------------------------------------------
(***************************************************************************)
(* The exit status: every step of the process is one of Service.           *)
(***************************************************************************)
LEMMA InitMaps == ASSUME Init PROVE Promise!Init
BY DEF Init, Promise!Init, Configs

\* A step that changes neither of the four variables of Service is a stutter.
LEMMA Stutter ==
  ASSUME UNCHANGED <<config, quit, broken, status>>
  PROVE  UNCHANGED Promise!vars
BY DEF Promise!vars

\* Run gives up: Break, or nothing when something was broken already.
LEMMA FailsMaps ==
  ASSUME NEW from \in Places, NEW err, NEW to, IInv, Fails(from, err, to), from # "exited",
         UNCHANGED <<config, quit, status>>
  PROVE  Promise!Break
BY DEF Fails, Goes, Promise!Break, IInv, StatusOK

LEMMA MainMaps == ASSUME IInv, Main PROVE [Promise!Next]_Promise!vars
<1> USE DEF serverVars, runVars, fileVars
<1>1. CASE ParseFlags \/ ParseConfig
  BY <1>1 DEF ParseFlags, ParseConfig, Goes, Exits, IInv, StatusOK, Promise!Next, Promise!Stop,
              Promise!Refuse, Promise!vars
<1>2. CASE SetLevel \/ OpenLogFile \/ StartProfile \/ CreateServer
  <2>1. UNCHANGED <<config, quit, status>>
    BY <1>2 DEF SetLevel, OpenLogFile, StartProfile, CreateServer
  <2>2. UNCHANGED broken \/ broken'
    BY <1>2 DEF SetLevel, OpenLogFile, StartProfile, CreateServer, Fails
  <2>3. status = "running"
    BY <1>2 DEF SetLevel, OpenLogFile, StartProfile, CreateServer, Goes, Fails, IInv, StatusOK
  <2> QED
    BY <2>1, <2>2, <2>3 DEF Promise!Next, Promise!Break, Promise!vars
<1>3. CASE StartGoroutines \/ GoServe \/ SelectQuit \/ SelectError \/ CloseListener \/ AwaitServe
           \/ Wait \/ Goodbye \/ Return
  <2>1. UNCHANGED <<config, quit, status, broken>>
    BY <1>3 DEF StartGoroutines, GoServe, SelectQuit, SelectError, CloseListener, AwaitServe, Wait,
       Goodbye, Return
  <2> QED
    BY <2>1, Stutter
<1>4. CASE Exit
  BY <1>4 DEF Exit, Exits, IInv, ReasonOK, StatusOK, Promise!Next, Promise!Stop
<1> QED
  BY <1>1, <1>2, <1>3, <1>4 DEF Main

LEMMA ServingMaps == ASSUME Serving PROVE [Promise!Next]_Promise!vars
<1>1. UNCHANGED <<config, quit, status, broken>>
  BY DEF Serving, BeginServe, AcceptOnClosed, EndServe, SendError, Finish, mainVars, signalVars
<1> QED
  BY <1>1, Stutter

LEMMA EnvironmentMaps == ASSUME IInv, Environment PROVE [Promise!Next]_Promise!vars
<1> USE DEF mainVars, signalVars
<1>1. status = "running"
  BY DEF Environment, Alive, IInv, StatusOK
<1>2. CASE Interrupt
  BY <1>1, <1>2 DEF Interrupt, Promise!Next, Promise!Interrupt
<1>3. CASE AcceptBreaks
  BY <1>1, <1>3 DEF AcceptBreaks, Promise!Next, Promise!Break
<1>4. CASE Client \/ ProfilingInterfaceFails
  <2>1. UNCHANGED <<config, quit, status, broken>>
    BY <1>4 DEF Client, ProfilingInterfaceFails
  <2> QED
    BY <2>1, Stutter
<1> QED
  BY <1>2, <1>3, <1>4 DEF Environment

\* The process implements Service: it exits with 0 only for its usage text or
\* after an interrupt, and with an error only after a failure.
THEOREM ExitStatusIsTrue == Spec => ImplementsService
<1>1. IInv /\ [Next]_vars => [Promise!Next]_Promise!vars
  <2> SUFFICES ASSUME IInv, [Next]_vars PROVE [Promise!Next]_Promise!vars
    OBVIOUS
  <2>1. CASE UNCHANGED vars
    BY <2>1, Stutter DEF vars, runVars
  <2>2. CASE Exited
    BY <2>2, Stutter DEF Exited, vars, runVars
  <2> QED
    BY <2>1, <2>2, MainMaps, ServingMaps, EnvironmentMaps DEF Next
<1>2. Init => Promise!Init
  BY InitMaps
<1> QED
  BY <1>1, <1>2, SpecIInv, PTL DEF Spec, ImplementsService, Promise!Spec
=============================================================================
