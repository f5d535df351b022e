----------------------------- MODULE ApiServer ------------------------------
(***************************************************************************)
(* The API server (pkg/api/http.go): a listener, the accept loop of        *)
(* net/http under Serve, and Shutdown, which closes the listener and waits *)
(* for Serve on the channel done.  A handler runs in a goroutine of its    *)
(* own that neither Serve nor Shutdown waits for.                          *)
(*                                                                         *)
(* The actions are the server's steps; MultiCoin has the goroutines that   *)
(* take them.                                                              *)
(***************************************************************************)
EXTENDS Naturals

CONSTANT MaxConns   \* bound: connections being handled at a time

ASSUME ApiServerAssumption == MaxConns \in Nat

VARIABLES
  listener,   \* Server.listener: "none" before Create, "open", "closed"
  done,       \* Server.done is closed
  serve,      \* where Serve is: "none", "accepting", "failed", "returned"
  conns       \* connections whose handler is running

serverVars == <<listener, done, serve, conns>>

ServerTypeOK ==
  /\ listener \in {"none", "open", "closed"}
  /\ done \in BOOLEAN
  /\ serve \in {"none", "accepting", "failed", "returned"}
  /\ conns \in 0 .. MaxConns

ServerInit ==
  /\ listener = "none"
  /\ done = FALSE
  /\ serve = "none"
  /\ conns = 0

-----------------------------------------------------------------------------
\* net.Listen worked.
Create ==
  /\ listener' = "open"
  /\ UNCHANGED <<done, serve, conns>>

CallServe ==
  /\ serve = "none"
  /\ serve' = "accepting"
  /\ UNCHANGED <<listener, done, conns>>

Accept ==
  /\ serve = "accepting"
  /\ listener = "open"
  /\ conns < MaxConns
  /\ conns' = conns + 1
  /\ UNCHANGED <<listener, done, serve>>

HandlerReturns ==
  /\ conns > 0
  /\ conns' = conns - 1
  /\ UNCHANGED <<listener, done, serve>>

\* Accept returns an error that is not temporary: net/http closes the listener
\* on its way out.  It returns that error and never ErrServerClosed, because
\* nobody calls Shutdown or Close of the http.Server.
AcceptFails ==
  /\ serve = "accepting"
  /\ serve' = "failed"
  /\ listener' = "closed"
  /\ UNCHANGED <<done, conns>>

\* "defer close(s.done)"
ServeReturns ==
  /\ serve = "failed"
  /\ serve' = "returned"
  /\ done' = TRUE
  /\ UNCHANGED <<listener, conns>>

\* Shutdown closes a listener that may be closed already, which it only logs,
\* and may be called before Serve is: then Serve finds the listener closed.
ShutdownListener ==
  /\ listener' = "closed"
  /\ UNCHANGED <<done, serve, conns>>

ShutdownAwaitsServe == done /\ UNCHANGED serverVars
=============================================================================
