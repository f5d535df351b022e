----------------------------- MODULE MultiCoin ------------------------------
(***************************************************************************)
(* The multicoin process (cmd/multicoin, pkg/multicoin): main parses the   *)
(* configuration and calls Run, which sets up logging and profiling,       *)
(* starts the API server in a goroutine, waits for an interrupt or for the *)
(* server to fail, shuts the server down and waits for the goroutine.      *)
(*                                                                         *)
(* Three kinds of process share the channels quit, errC and done, the      *)
(* listener and the WaitGroup: Run, the goroutine that serves, and the     *)
(* handlers.  Signals, failures and clients are the environment.           *)
(***************************************************************************)
EXTENDS ApiServer, Sequences

ErrCap == 10   \* the capacity of errC

VARIABLES
  config,     \* the flags: help, logToFile, profileCPU, httpProf
  main,       \* what main and Run do next
  goroutine,  \* the goroutine of Serve
  wg,         \* the counter of the WaitGroup
  catching,   \* the goroutine of CatchInterrupt waits for the signal
  quit,       \* the channel quit is closed
  errC,       \* the channel of errors
  retErr,     \* Run's result, "nil" or an error
  logFile,    \* "none", "open", "closed"
  profiling,  \* the CPU profile is being written
  httpProf,   \* the profiling interface: "off", "listening", "failed"
  broken,     \* history: something the service needs has failed by itself
  status      \* the exit status, "running" before the exit

runVars == <<goroutine, wg, catching, quit, errC, httpProf>>
fileVars == <<logFile, profiling>>
vars == <<serverVars, config, main, runVars, retErr, fileVars, broken, status>>

Configs == [help : BOOLEAN, logToFile : BOOLEAN, profileCPU : BOOLEAN, httpProf : BOOLEAN]
Places == {"ParseFlags", "ParseConfig", "SetLevel", "OpenLogFile", "StartProfile",
           "StartGoroutines", "CreateServer", "GoServe", "Select", "CloseListener",
           "AwaitServe", "Wait", "Goodbye", "Return", "Exit", "exited"}
RunErrors == {"logLevel", "logFile", "profile", "listen", "serve"}

TypeOK ==
  /\ ServerTypeOK
  /\ config \in Configs
  /\ main \in Places
  /\ goroutine \in {"none", "spawned", "serving", "sent", "finished"}
  /\ wg \in 0 .. 1
  /\ catching \in BOOLEAN
  /\ quit \in BOOLEAN
  /\ errC \in {<<>>, <<"serve">>}
  /\ retErr \in RunErrors \cup {"nil"}
  /\ logFile \in {"none", "open", "closed"}
  /\ profiling \in BOOLEAN
  /\ httpProf \in {"off", "listening", "failed"}
  /\ broken \in BOOLEAN
  /\ status \in {"running", "ok", "failed", "usage", "panicked"}

Init ==
  /\ ServerInit
  /\ config \in Configs
  /\ main = "ParseFlags"
  /\ goroutine = "none"
  /\ wg = 0
  /\ catching = FALSE
  /\ quit = FALSE
  /\ errC = <<>>
  /\ retErr = "nil"
  /\ logFile = "none"
  /\ profiling = FALSE
  /\ httpProf = "off"
  /\ broken = FALSE
  /\ status = "running"

Goes(from, to) == main = from /\ main' = to
Exits(code) == main' = "exited" /\ status' = code

\* Run gives up: "return err", or the jump to earlyShutdown.
Fails(from, err, to) ==
  /\ Goes(from, to)
  /\ retErr' = err
  /\ broken' = TRUE

-----------------------------------------------------------------------------
(***************************************************************************)
(* main and Run.                                                           *)
(***************************************************************************)

\* flag.Parse exits with status 2 when it finds a flag that is none, or a value that
\* does not parse.
ParseFlags ==
  /\ \/ Goes("ParseFlags", "ParseConfig") /\ UNCHANGED <<status, broken>>
     \/ main = "ParseFlags" /\ Exits("usage") /\ broken' = TRUE
  /\ UNCHANGED <<serverVars, config, runVars, retErr, fileVars>>

\* postProcess exits after printing the usage and panics without a data
\* directory.
ParseConfig ==
  /\ main = "ParseConfig"
  /\ \/ config.help /\ Exits("ok") /\ UNCHANGED broken
     \/ ~config.help /\ main' = "SetLevel" /\ UNCHANGED <<status, broken>>
     \/ ~config.help /\ Exits("panicked") /\ broken' = TRUE
  /\ UNCHANGED <<serverVars, config, runVars, retErr, fileVars>>

SetLevel ==
  /\ \/ Goes("SetLevel", "OpenLogFile") /\ UNCHANGED <<retErr, broken>>
     \/ Fails("SetLevel", "logLevel", "Return")
  /\ UNCHANGED <<serverVars, config, runVars, fileVars, status>>

OpenLogFile ==
  /\ \/ /\ Goes("OpenLogFile", "StartProfile")
        /\ logFile' = IF config.logToFile THEN "open" ELSE "none"
        /\ UNCHANGED <<retErr, broken>>
     \/ /\ config.logToFile
        /\ Fails("OpenLogFile", "logFile", "Return")
        /\ UNCHANGED logFile
  /\ UNCHANGED <<serverVars, config, runVars, profiling, status>>

\* On an error the log file stays open: this return is not through "Goodbye".
StartProfile ==
  /\ \/ /\ Goes("StartProfile", "StartGoroutines")
        /\ profiling' = config.profileCPU
        /\ UNCHANGED <<retErr, broken>>
     \/ /\ config.profileCPU
        /\ Fails("StartProfile", "profile", "Return")
        /\ UNCHANGED profiling
  /\ UNCHANGED <<serverVars, config, runVars, logFile, status>>

\* The profiling interface and CatchInterrupt get a goroutine each.
StartGoroutines ==
  /\ Goes("StartGoroutines", "CreateServer")
  /\ httpProf' = IF config.httpProf THEN "listening" ELSE "off"
  /\ catching' = TRUE
  /\ UNCHANGED <<serverVars, config, goroutine, wg, quit, errC, retErr, fileVars, broken, status>>

CreateServerReturns ==
  /\ \/ Goes("CreateServer", "GoServe") /\ Create /\ UNCHANGED <<retErr, broken>>
     \/ Fails("CreateServer", "listen", "Return") /\ UNCHANGED serverVars
  /\ UNCHANGED <<config, runVars, fileVars, status>>

CreateServer ==
  /\ \/ Goes("CreateServer", "GoServe") /\ Create /\ UNCHANGED <<retErr, broken>>
     \/ Fails("CreateServer", "listen", "Goodbye") /\ UNCHANGED serverVars
  /\ UNCHANGED <<config, runVars, fileVars, status>>

GoServe ==
  /\ Goes("GoServe", "Select")
  /\ wg' = wg + 1
  /\ goroutine' = "spawned"
  /\ UNCHANGED <<serverVars, config, catching, quit, errC, httpProf, retErr, fileVars, broken, status>>

\* When both are ready, select takes either.
SelectQuit ==
  /\ quit
  /\ Goes("Select", "CloseListener")
  /\ UNCHANGED <<serverVars, config, runVars, retErr, fileVars, broken, status>>

SelectError ==
  /\ errC # <<>>
  /\ Goes("Select", "CloseListener")
  /\ retErr' = Head(errC)
  /\ errC' = Tail(errC)
  /\ UNCHANGED <<serverVars, config, goroutine, wg, catching, quit, httpProf, fileVars, broken, status>>

CloseListener ==
  /\ Goes("CloseListener", "AwaitServe")
  /\ ShutdownListener
  /\ UNCHANGED <<config, runVars, retErr, fileVars, broken, status>>

AwaitServe ==
  /\ Goes("AwaitServe", "Wait")
  /\ ShutdownAwaitsServe
  /\ UNCHANGED <<config, runVars, retErr, fileVars, broken, status>>

WaitForgotten ==
  /\ Goes("Wait", "Goodbye")
  /\ UNCHANGED <<serverVars, config, runVars, retErr, fileVars, broken, status>>

Wait ==
  /\ Goes("Wait", "Goodbye")
  /\ wg = 0
  /\ UNCHANGED <<serverVars, config, runVars, retErr, fileVars, broken, status>>

GoodbyeReportsErrors ==
  /\ Goes("Goodbye", "Return")
  /\ logFile' = IF logFile = "open" THEN "closed" ELSE logFile
  /\ retErr' = IF errC # <<>> THEN Head(errC) ELSE retErr
  /\ UNCHANGED <<serverVars, config, runVars, profiling, broken, status>>

Goodbye ==
  /\ Goes("Goodbye", "Return")
  /\ logFile' = IF logFile = "open" THEN "closed" ELSE logFile
  /\ UNCHANGED <<serverVars, config, runVars, retErr, profiling, broken, status>>

\* "defer pprof.StopCPUProfile()"
Return ==
  /\ Goes("Return", "Exit")
  /\ profiling' = FALSE
  /\ UNCHANGED <<serverVars, config, runVars, retErr, logFile, broken, status>>

Exit ==
  /\ main = "Exit"
  /\ Exits(IF retErr = "nil" THEN "ok" ELSE "failed")
  /\ UNCHANGED <<serverVars, config, runVars, retErr, fileVars, broken>>

Main ==
  \/ ParseFlags \/ ParseConfig \/ SetLevel \/ OpenLogFile \/ StartProfile
  \/ StartGoroutines \/ CreateServer \/ GoServe \/ SelectQuit \/ SelectError
  \/ CloseListener \/ AwaitServe \/ Wait \/ Goodbye \/ Return \/ Exit

-----------------------------------------------------------------------------
(***************************************************************************)
(* The goroutine of Serve.                                                 *)
(***************************************************************************)

Alive == main # "exited"
mainVars == <<config, main, retErr, fileVars, status>>
signalVars == <<catching, quit>>

BeginServe ==
  /\ goroutine = "spawned"
  /\ goroutine' = "serving"
  /\ CallServe
  /\ UNCHANGED <<mainVars, signalVars, httpProf, wg, errC, broken>>

\* The accept loop ends because the listener is closed.
AcceptOnClosed ==
  /\ listener = "closed"
  /\ AcceptFails
  /\ UNCHANGED <<mainVars, signalVars, httpProf, goroutine, wg, errC, broken>>

EndServe ==
  /\ ServeReturns
  /\ UNCHANGED <<mainVars, signalVars, httpProf, goroutine, wg, errC, broken>>

SendErrorUnbuffered ==
  /\ goroutine = "serving"
  /\ serve = "returned"
  /\ main = "Select"
  /\ goroutine' = "sent"
  /\ errC' = Append(errC, "serve")
  /\ UNCHANGED <<serverVars, mainVars, signalVars, httpProf, wg, broken>>

SendError ==
  /\ goroutine = "serving"
  /\ serve = "returned"
  /\ Len(errC) < ErrCap
  /\ goroutine' = "sent"
  /\ errC' = Append(errC, "serve")
  /\ UNCHANGED <<serverVars, mainVars, signalVars, httpProf, wg, broken>>

FinishTwice ==
  /\ goroutine = "sent"
  /\ goroutine' = "finished"
  /\ wg' = wg - 2
  /\ UNCHANGED <<serverVars, mainVars, signalVars, httpProf, errC, broken>>

\* "defer wg.Done()"
Finish ==
  /\ goroutine = "sent"
  /\ goroutine' = "finished"
  /\ wg' = wg - 1
  /\ UNCHANGED <<serverVars, mainVars, signalVars, httpProf, errC, broken>>

Serving == Alive /\ (BeginServe \/ AcceptOnClosed \/ EndServe \/ SendError \/ Finish)

-----------------------------------------------------------------------------
(***************************************************************************)
(* The environment.                                                        *)
(***************************************************************************)

\* apputil.CatchInterrupt closes quit when the first SIGINT arrives.
Interrupt ==
  /\ catching
  /\ catching' = FALSE
  /\ quit' = TRUE
  /\ UNCHANGED <<serverVars, mainVars, httpProf, goroutine, wg, errC, broken>>

\* The accept loop ends although nobody closed the listener.
AcceptBreaks ==
  /\ listener = "open"
  /\ AcceptFails
  /\ broken' = TRUE
  /\ UNCHANGED <<mainVars, signalVars, httpProf, goroutine, wg, errC>>

Client ==
  /\ Accept \/ HandlerReturns
  /\ UNCHANGED <<mainVars, signalVars, httpProf, goroutine, wg, errC, broken>>

ProfilingInterfaceFails ==
  /\ httpProf = "listening"
  /\ httpProf' = "failed"
  /\ UNCHANGED <<serverVars, mainVars, signalVars, goroutine, wg, errC, broken>>

Environment == Alive /\ (Interrupt \/ AcceptBreaks \/ Client \/ ProfilingInterfaceFails)

Exited == ~Alive /\ UNCHANGED vars

Next == Main \/ Serving \/ Environment \/ Exited

\* The scheduler lets Run and the goroutine of Serve go on while they can.
\* Nothing is assumed of signals, of clients and of handlers.
Fairness == WF_vars(Main) /\ WF_vars(Serving)

Spec == Init /\ [][Next]_vars
FairSpec == Spec /\ Fairness

-----------------------------------------------------------------------------
(***************************************************************************)
(* Properties                                                              *)
(***************************************************************************)

\* Run does not say goodbye before the goroutine it started has finished, which
\* is what Shutdown waits for done and Run for the WaitGroup for
\* (multicoin.go:124, :128): then the server accepts no more, whoever closed the
\* listener and whether Serve was called before Shutdown or after.
RunWaits ==
  main \in {"Goodbye", "Return", "Exit", "exited"} /\ goroutine # "none" =>
    goroutine = "finished" /\ done /\ listener = "closed"

\* Whatever ends Run, the CPU profile is stopped and the log file closed.  One
\* return leaves it open: that of an error in starting the profile
\* (multicoin.go:74, :79), after the log file was opened.
FilesClosed ==
  main \in {"Exit", "exited"} =>
    /\ ~profiling
    /\ logFile = "open" => retErr = "profile"

\* The exit status is that of Service.  In particular the error that the accept
\* loop returns because Run closed its listener is never taken for a failure: it
\* stays in errC, and an interrupted process exits with 0.
Promise == INSTANCE Service WITH help <- config.help, requested <- quit
ImplementsService == Promise!Spec

\* After an interrupt or a failure the process exits, in whatever order they
\* come, without waiting for any handler: neither the send to errC nor the
\* receive from done nor the WaitGroup can block for ever.
Terminates == (quit \/ broken) ~> (status # "running")
=============================================================================
