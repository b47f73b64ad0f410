------------------------------- MODULE Process -------------------------------
(***************************************************************************)
(* A whole httpmon process with --browse and --mcp: the life of Browse,    *)
(* with the MCP server, the proxy's Serve goroutine and the TUI's drawing  *)
(* next to it.  SIGINT or the end of the TUI cancels the context, on which *)
(* the MCP server and the proxy stop by themselves, while main, after the  *)
(* TUI, stops both again and waits for Serve.                              *)
(***************************************************************************)
EXTENDS Browse, McpServer

VARIABLES
  interrupted,  \* SIGINT has cancelled the context
  screen,       \* the TUI's goroutine: idle, or drawing
  serve,        \* the Serve goroutine: serving, stopping, returned
  stage         \* main, when it is stopping: mcp, shutdown, proxy, await, stopped

prLocal == <<interrupted, screen, serve, stage>>
prVars == <<brVars, mcpVars, prLocal>>

PrInit ==
  /\ BrInit /\ McpInit
  /\ interrupted = FALSE /\ screen = "idle" /\ serve = "serving" /\ stage = "none"

ContextDone == interrupted \/ cancelled

-----------------------------------------------------------------------------
(* main and the signals *)

\* The steps of Browse that the rest of the process has no part in.
BrowseStep ==
  /\ \/ InstallCA \/ Snapshot \/ SetProxy("http", "set https") \/ SetProxy("https", "open")
     \/ OpenURL \/ UndoFatal \/ Arm
     \/ RestoreOne("main") \/ RestoreOne("signal")
     \/ MainReturns \/ Terminate \/ SignalExit \/ Interrupt
  /\ UNCHANGED <<mcpVars, prLocal>>

\* The token and Start.
MainStartsMcp ==
  /\ StartMCP
  /\ IF MCP /\ mpc' = "tui" THEN StartServer ELSE UNCHANGED mcpVars
  /\ UNCHANGED prLocal

\* prog.Run returns between two draws, then cancel().
MainLeavesTUI ==
  /\ screen = "idle" /\ TUIReturns
  /\ stage' = IF MCP THEN "mcp" ELSE "proxy"
  /\ UNCHANGED <<mcpVars, interrupted, screen, serve>>

MainIn(from, to) ==
  /\ Running /\ mpc = "stopping" /\ stage = from /\ stage' = to
  /\ UNCHANGED <<brVars, interrupted, screen, serve>>

\* mcpSrv.Stop
MainStopsMcp ==
  /\ MainIn("mcp", IF up THEN "shutdown" ELSE "proxy")
  /\ Stop("main") /\ UNCHANGED watcher

MainMcpStopped ==
  /\ MainIn("shutdown", "proxy")
  /\ StopReturns("main") /\ UNCHANGED watcher

\* p.Stop: ResumeAll, and Shutdown with its three seconds.
MainStopsProxy == MainIn("proxy", "await") /\ UNCHANGED mcpVars

\* The receive from proxyErr is left out.
MainAwaitsNothing == MainIn("await", "stopped") /\ UNCHANGED mcpVars

\* The receive from proxyErr.
MainAwaitsServe == serve = "returned" /\ MainIn("await", "stopped") /\ UNCHANGED mcpVars

MainStopped == stage = "stopped" /\ Stopped /\ UNCHANGED <<mcpVars, prLocal>>

\* The first SIGINT.
InterruptCancels ==
  /\ Running /\ ~ContextDone
  /\ interrupted' = TRUE
  /\ UNCHANGED <<brVars, mcpVars, screen, serve, stage>>

-----------------------------------------------------------------------------
(* The goroutines *)

\* Serve sees the context and calls Stop, or the proxy's own listener fails.
ServeStops ==
  /\ Running /\ serve = "serving"
  /\ \/ ContextDone /\ serve' = "stopping"
     \/ Failures /\ serve' = "returned"
  /\ UNCHANGED <<brVars, mcpVars, interrupted, screen, stage>>

ServeReturns ==
  /\ Running /\ serve = "stopping"
  /\ serve' = "returned"
  /\ UNCHANGED <<brVars, mcpVars, interrupted, screen, stage>>

McpWatcher ==
  /\ Running
  /\ (ContextDone /\ WatcherStops) \/ WatcherReturns
  /\ UNCHANGED <<brVars, prLocal>>

McpTraffic ==
  /\ Running
  /\ \/ \E c \in Clients : Call(c) \/ CallEnds(c)
     \/ Failures /\ ServeFails
  /\ UNCHANGED <<brVars, prLocal>>

\* View is called after every message, on the goroutine that handles keys and ticks.
Draw ==
  /\ Running /\ mpc = "tui" /\ screen = "idle"
  /\ screen' = "drawing"
  /\ UNCHANGED <<brVars, mcpVars, interrupted, serve, stage>>

\* The list's info line asks the MCP server whether it runs.
Drawn ==
  /\ Running /\ screen = "drawing"
  /\ AskRunning
  /\ screen' = "idle"
  /\ UNCHANGED <<brVars, interrupted, serve, stage>>

-----------------------------------------------------------------------------

MainStep == \/ MainStartsMcp \/ MainStopsMcp \/ MainMcpStopped \/ MainStopsProxy
            \/ MainAwaitsServe \/ MainStopped

PrNext == \/ BrowseStep \/ MainStep \/ MainLeavesTUI \/ InterruptCancels
          \/ ServeStops \/ ServeReturns \/ McpWatcher \/ McpTraffic \/ Draw \/ Drawn

\* Goroutines that can run do, timers fire; nothing is assumed of clients, of the user
\* and of signals.
PrSpec ==
  /\ PrInit /\ [][PrNext]_prVars
  /\ WF_prVars(MainStep) /\ WF_prVars(BrowseStep /\ mpc' # mpc)
  /\ WF_prVars(RestoreOne("main") /\ UNCHANGED <<mcpVars, prLocal>>)
  /\ WF_prVars(RestoreOne("signal") /\ UNCHANGED <<mcpVars, prLocal>>)
  /\ WF_prVars(SignalExit /\ UNCHANGED <<mcpVars, prLocal>>)
  /\ WF_prVars((UndoFatal \/ MainReturns) /\ UNCHANGED <<mcpVars, prLocal>>)
  /\ WF_prVars(ServeStops /\ ContextDone) /\ WF_prVars(ServeReturns)
  /\ WF_prVars(McpWatcher) /\ WF_prVars(Drawn)

-----------------------------------------------------------------------------
(* Properties *)

PrTypeOK ==
  /\ BrTypeOK /\ McpTypeOK
  /\ interrupted \in BOOLEAN /\ screen \in {"idle", "drawing"}
  /\ serve \in {"serving", "stopping", "returned"}
  /\ stage \in {"none", "mcp", "shutdown", "proxy", "await", "stopped"}

\* The TUI never hangs: a draw that waits for the MCP server's mutex gets it, although
\* clients may keep their streams open for as long as they like.
ScreenDraws == screen = "drawing" ~> screen = "idle" \/ ~Running

\* What main does last it does with the servers stopped: when it begins to restore the
\* system's proxy, or gives up because of the TUI's error, nobody listens on the MCP port,
\* nobody holds the MCP server's mutex and Serve has returned, whoever stopped them first.
\* (Requests of MCP clients that outlast Shutdown's five seconds, the goroutine of Start and
\* the signal goroutine go on until the process ends.)
QuietAtTheEnd ==
  mpc = "deferred" \/ (ended = "fatal" /\ mpc = "stopping")
     => listener # "open" /\ ~up /\ mu = "none" /\ serve = "returned"
=============================================================================
