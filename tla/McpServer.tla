------------------------------ MODULE McpServer ------------------------------
(***************************************************************************)
(* The MCP server's life (internal/mcpserver/server.go).  One mutex guards *)
(* its fields.  Stop keeps it during http.Server.Shutdown, which waits for *)
(* the requests in progress, but not longer than five seconds; the methods *)
(* that only read (Running, Port, Addr) wait as long.  Stop is called by   *)
(* the goroutine that Start leaves behind for the context, and by main.    *)
(***************************************************************************)
EXTENDS Integers

CONSTANT Clients   \* MCP clients: a call or an event stream each, at a time

VARIABLES
  mu,        \* who holds the mutex: none, or the caller of a Stop
  up,        \* s.running
  listener,  \* none, open, closed
  watcher,   \* the context's goroutine: none, waiting, shutdown, done
  busy,      \* clients with a request in progress
  broken     \* Serve has returned an error that is not ErrServerClosed

mcpVars == <<mu, up, listener, watcher, busy, broken>>

McpInit ==
  /\ mu = "none" /\ up = FALSE /\ listener = "none" /\ watcher = "none"
  /\ busy = {} /\ broken = FALSE

\* Start and the beginning of its Serve goroutine; Start's caller is alone with the
\* server, and an error leaves everything as it was.
StartServer ==
  /\ mu = "none" /\ ~up
  /\ up' = TRUE /\ listener' = "open" /\ watcher' = "waiting"
  /\ UNCHANGED <<mu, busy, broken>>

\* Stop without the mutex around Shutdown.
StopUnlocked(c) ==
  /\ mu = "none"
  /\ listener' = IF up THEN "closed" ELSE listener
  /\ UNCHANGED <<mu, up, busy, broken>>

\* Stop up to Shutdown's wait: the listener is closed first.  A server that is not
\* running is left alone.
Stop(c) ==
  /\ mu = "none"
  /\ mu' = IF up THEN c ELSE mu
  /\ listener' = IF up THEN "closed" ELSE listener
  /\ UNCHANGED <<up, busy, broken>>

\* Shutdown without a deadline.
StopReturnsIdle(c) ==
  /\ mu = c /\ busy = {}
  /\ up' = FALSE /\ mu' = "none"
  /\ UNCHANGED <<listener, busy, broken>>

\* Shutdown returns because no request is left, or because the five seconds are over;
\* then the requests go on.
StopReturns(c) ==
  /\ mu = c
  /\ up' = FALSE /\ mu' = "none"
  /\ UNCHANGED <<listener, busy, broken>>

\* The goroutine of Start.
WatcherStops ==
  /\ watcher = "waiting"
  /\ Stop("watcher")
  /\ watcher' = IF up THEN "shutdown" ELSE "done"

WatcherReturns ==
  /\ watcher = "shutdown"
  /\ StopReturns("watcher")
  /\ watcher' = "done"

\* Running and Port, as the status line asks them.
AskRunning == mu = "none" /\ UNCHANGED mcpVars

\* A client's request arrives, and ends.
Call(c) ==
  /\ listener = "open" /\ c \notin busy
  /\ busy' = busy \cup {c}
  /\ UNCHANGED <<mu, up, listener, watcher, broken>>

CallEnds(c) ==
  /\ c \in busy
  /\ busy' = busy \ {c}
  /\ UNCHANGED <<mu, up, listener, watcher, broken>>

\* The accept loop fails: Serve closes the listener and its error is dropped.
ServeFails ==
  /\ listener = "open"
  /\ listener' = "closed" /\ broken' = TRUE
  /\ UNCHANGED <<mu, up, watcher, busy>>

-----------------------------------------------------------------------------

McpTypeOK ==
  /\ mu \in {"none", "main", "watcher"}
  /\ up \in BOOLEAN /\ broken \in BOOLEAN
  /\ listener \in {"none", "open", "closed"}
  /\ watcher \in {"none", "waiting", "shutdown", "done"}
  /\ busy \subseteq Clients

\* What the status line shows is so: whenever Running can be asked, a server that says it
\* is running listens, and one that says it is not does not.  Shutdown closes the listener
\* up to five seconds before running is cleared, and two goroutines may be stopping the
\* server.  Two things are out of it: a listener that failed by itself, after which Serve
\* is over and running stays set (broken), and the moment between Start's return and its
\* Serve goroutine's first step, which StartServer joins: a Shutdown in it does not know the
\* listener, which Serve then closes itself.
StatusTruthful ==
  mu = "none" /\ ~broken => (up <=> listener = "open")
=============================================================================
