--------------------------- MODULE LifecycleProofs ---------------------------
(***************************************************************************)
(* What a run of the program does to the machine it runs on, and leaves    *)
(* there: the system's proxy setting and the MCP server (Process), and the *)
(* files of the data directory (Config, CA).                               *)
(*                                                                         *)
(* One run: for any set of MCP clients, either platform, with and without  *)
(* the MCP server and with any failures, the user's proxy is restored when *)
(* main returns or the signal goroutine exits, the status line is truthful *)
(* while the listener works, and main stops the servers before it restores *)
(* the proxy.  The argument is an inductive invariant in three parts.      *)
(* Restoring says which protocols each of the two restorers has put back,  *)
(* Server ties the MCP server's fields to who holds its mutex, and         *)
(* Stopping says how far main has come with the server and with Serve.     *)
(*                                                                         *)
(* Any number of runs on one data directory, one after the other or side   *)
(* by side, with crashes between any two system calls or without: there is *)
(* one token and one CA, and saved settings stay saved, as long as no two  *)
(* processes are at once between their start and their TUI, or on their    *)
(* settings screens.  The argument is an inductive invariant that says     *)
(* what the files hold, whatever was interrupted (FileKept, CAKept), and   *)
(* what the one process that is busy with them knows at each point         *)
(* (CfFollows, CaFollows); a process that shows its flows knows nothing.   *)
(***************************************************************************)
EXTENDS Process, CA, TLAPS

\* The protocols that r, once it has begun, is done with.
Passed(r) == {p \in Protocols : left[r] = "done" \/ (left[r] = "https" /\ p = "http")}

Same(p) == Effect(sys[p]) = Effect(before[p])

\* The settings are the user's until the snapshot is taken; only main before its signal
\* goroutine changes them; and what a restorer is done with has its old effect.
Restoring ==
  /\ mpc \in {"start", "snapshot"} => sys = before
  /\ gpc # "none" => mpc \in {"mcp", "tui", "stopping", "deferred"}
  /\ left["main"] # "done" => mpc \in {"undo", "deferred"}
  /\ left["signal"] # "done" => gpc = "restoring"
  /\ mpc \in {"undo", "deferred"} => \A p \in Passed("main") \ failed : Same(p)
  /\ gpc = "restoring" => \A p \in Passed("signal") \ failed : Same(p)
  /\ ended = "returned" => mpc = "deferred" /\ left["main"] = "done"
  /\ ended = "signal" => gpc = "restoring" /\ left["signal"] = "done"
  /\ ended = "fatal" /\ mpc = "undo" => left["main"] = "done"

\* Whoever holds the mutex is in Shutdown, and has closed the listener first.
Server ==
  /\ mu = "watcher" <=> watcher = "shutdown"
  /\ mu # "none" => up /\ listener = "closed"
  /\ mu = "none" /\ ~broken => (up <=> listener = "open")
  /\ broken => listener = "closed"
  /\ ~up => listener # "open"

\* The server is there from Start on, and main stops it, the proxy and Serve in this order.
Stopping ==
  /\ mpc \notin {"tui", "stopping", "deferred"} \/ ~MCP =>
       mu = "none" /\ ~up /\ listener = "none" /\ watcher = "none"
  /\ mpc = "stopping" <=> stage # "none" /\ mpc # "deferred"
  /\ mpc = "deferred" => stage = "stopped"
  /\ mu = "main" <=> stage = "shutdown"
  /\ stage \in {"proxy", "await", "stopped"} => mu = "none" /\ ~up
  /\ stage = "stopped" => serve = "returned"
  /\ ended = "fatal" /\ mpc = "stopping" => stage = "stopped"

PrInv == PrTypeOK /\ Restoring /\ Server /\ Stopping
-----------------------------------------------------------------------------
(* Browse. *)

\* The steps of Browse.
BrStep ==
  \/ InstallCA \/ Snapshot \/ SetProxy("http", "set https") \/ SetProxy("https", "open")
  \/ OpenURL \/ UndoFatal \/ Arm \/ StartMCP \/ TUIReturns \/ Stopped
  \/ \E r \in {"main", "signal"} : RestoreOne(r)
  \/ MainReturns \/ Terminate \/ SignalExit \/ Interrupt

\* What one protocol is restored to has the effect it had before the program started.
LEMMA RestoredIsSame ==
  ASSUME BrTypeOK, NEW p \in Protocols
  PROVE  Restored(p) \in Settings /\ Effect(Restored(p)) = Effect(before[p])
<1>1. before[p] \in UserSettings /\ orig[p] = before[p] /\ sys[p] \in Settings
  BY DEF BrTypeOK
<1>2. before[p] \in Settings
  <2>1. UserSettings \subseteq Settings
    <3>1. /\ [on |-> FALSE, server |-> "none"] \in Settings
          /\ [on |-> TRUE, server |-> "user"] \in Settings
          /\ [on |-> FALSE, server |-> "user"] \in Settings
      BY DEF Settings
    <3> QED
      BY <3>1 DEF UserSettings
  <2> QED
    BY <1>1, <2>1
<1>3. [sys[p] EXCEPT !.on = FALSE] \in Settings /\ [sys[p] EXCEPT !.on = FALSE].on = FALSE
  BY <1>1 DEF Settings
<1> QED
  BY <1>1, <1>2, <1>3 DEF Restored, Effect

\* One protocol is restored, or its restore fails.
LEMMA RestoreOneKeeps ==
  ASSUME BrTypeOK, Restoring, NEW r \in {"main", "signal"}, RestoreOne(r)
  PROVE  BrTypeOK' /\ Restoring'
<1>0. PICK p \in Protocols : p = left[r]
  BY DEF BrTypeOK, RestoreOne
<1>1. AfterProtocol(p) \in Protocols \cup {"done"}
  BY DEF AfterProtocol, Protocols
<1>2. Restored(p) \in Settings /\ Effect(Restored(p)) = Effect(before[p])
  BY <1>1, RestoredIsSame
<1>3. /\ left' = [left EXCEPT ![r] = AfterProtocol(p)]
      /\ UNCHANGED <<before, orig, mpc, gpc, tuiErr, cancelled, ended>> /\ ended = "no"
      /\ \/ sys' = [sys EXCEPT ![p] = Restored(p)] /\ failed' = failed
         \/ sys' = sys /\ failed' = failed \cup {p}
  BY <1>0 DEF RestoreOne, Running
<1>4. BrTypeOK'
  BY <1>1, <1>2, <1>3 DEF BrTypeOK
<1>5. failed \subseteq failed' /\ \A q \in Protocols : Same(q) => Same(q)'
  <2>1. \A q \in Protocols : q # p => sys'[q] = sys[q]
    BY <1>3 DEF BrTypeOK
  <2>2. Same(p) => Same(p)'
    BY <1>1, <1>2, <1>3 DEF BrTypeOK, Same
  <2> QED
    BY <1>3, <2>1, <2>2 DEF Same
<1>6. p \in failed' \/ Same(p)'
  BY <1>1, <1>2, <1>3 DEF BrTypeOK, Same
<1>7. Passed(r)' \subseteq Passed(r) \cup {p}
  BY <1>0, <1>3 DEF Passed, BrTypeOK, AfterProtocol, Protocols
<1>8. \A s \in {"main", "signal"} : s # r => left'[s] = left[s]
  BY <1>3 DEF BrTypeOK
<1>9. \A s \in {"main", "signal"} : s # r => Passed(s)' = Passed(s)
  BY <1>8 DEF Passed
<1>10. \A s \in {"main", "signal"} : Passed(s) \subseteq Protocols
  BY DEF Passed
<1>11. mpc \in {"undo", "deferred"} => \A q \in Passed("main")' \ failed' : Same(q)'
  BY <1>5, <1>6, <1>7, <1>9, <1>10 DEF Restoring
<1>12. gpc = "restoring" => \A q \in Passed("signal")' \ failed' : Same(q)'
  BY <1>5, <1>6, <1>7, <1>9, <1>10 DEF Restoring
<1>13. r = "main" => mpc \in {"undo", "deferred"}
  BY DEF RestoreOne, Restoring
<1>14. r = "signal" => gpc = "restoring"
  BY DEF RestoreOne, Restoring
<1>15. mpc \notin {"start", "snapshot"}
  BY <1>13, <1>14 DEF Restoring
<1> QED
  BY <1>3, <1>4, <1>8, <1>11, <1>12, <1>13, <1>14, <1>15 DEF Restoring

\* Every step of Browse keeps its types and the restorers' part.
LEMMA BrStepKeeps ==
  ASSUME BrTypeOK, Restoring, BrStep
  PROVE  BrTypeOK' /\ Restoring'
<1> USE DEF Running, Fatal, Goto
<1>1. CASE InstallCA
  BY <1>1 DEF InstallCA, BrTypeOK, Restoring, Passed, Same
<1>2. CASE Snapshot
  BY <1>2 DEF Snapshot, BrTypeOK, Restoring, Passed, Same
<1>3. ASSUME NEW q \in Protocols, NEW next \in {"set https", "open"}, SetProxy(q, next)
      PROVE  BrTypeOK' /\ Restoring'
  <2>1. mpc \in {"set http", "set https"} /\ Mine \in Settings
    BY <1>3 DEF SetProxy, Mine, Settings
  <2>2. BrTypeOK'
    BY <1>3, <2>1 DEF SetProxy, BrTypeOK
  <2>3. mpc' \notin {"start", "snapshot", "undo", "deferred"} /\ gpc = "none"
    BY <1>3, <2>1 DEF SetProxy, Restoring, BrTypeOK
  <2> QED
    BY <1>3, <2>1, <2>2, <2>3 DEF SetProxy, Restoring
<1>4. CASE OpenURL
  <2>1. gpc = "none" /\ left["main"] = "done"
    BY <1>4 DEF OpenURL, Restoring, BrTypeOK
  <2>2. BrTypeOK'
    BY <1>4 DEF OpenURL, BrTypeOK, Protocols
  <2>3. mpc' = "undo" => Passed("main")' = {}
    BY <1>4 DEF OpenURL, BrTypeOK, Passed
  <2> QED
    BY <1>4, <2>1, <2>2, <2>3 DEF OpenURL, Restoring, BrTypeOK
<1>5. CASE UndoFatal
  BY <1>5 DEF UndoFatal, BrTypeOK, Restoring, Passed, Same
<1>6. CASE Arm
  BY <1>6 DEF Arm, BrTypeOK, Restoring, Passed, Same
<1>7. CASE StartMCP
  BY <1>7 DEF StartMCP, BrTypeOK, Restoring, Passed, Same
<1>8. CASE TUIReturns
  BY <1>8 DEF TUIReturns, BrTypeOK, Restoring, Passed, Same
<1>9. CASE Stopped
  <2>1. BrTypeOK'
    BY <1>9 DEF Stopped, BrTypeOK, Protocols
  <2>2. mpc' = "deferred" => Passed("main")' = {}
    BY <1>9 DEF Stopped, BrTypeOK, Passed
  <2>3. left'["signal"] = left["signal"]
    BY <1>9 DEF Stopped, BrTypeOK
  <2>4. Passed("signal")' = Passed("signal") /\ \A q : Same(q)' = Same(q)
    BY <1>9, <2>3 DEF Stopped, Passed, Same
  <2> QED
    BY <1>9, <2>1, <2>2, <2>3, <2>4 DEF Stopped, Restoring
<1>10. CASE \E r \in {"main", "signal"} : RestoreOne(r)
  BY <1>10, RestoreOneKeeps
<1>11. CASE MainReturns
  BY <1>11 DEF MainReturns, BrTypeOK, Restoring, Passed, Same
<1>12. CASE Terminate
  <2>1. BrTypeOK'
    BY <1>12 DEF Terminate, BrTypeOK, Protocols
  <2>2. left'["main"] = left["main"]
    BY <1>12 DEF Terminate, BrTypeOK
  <2>3. gpc' = "restoring" => Passed("signal")' = {} \/ (gpc = "restoring" /\ UNCHANGED left)
    BY <1>12 DEF Terminate, BrTypeOK, Passed
  <2>4. Passed("main")' = Passed("main") /\ \A q : Same(q)' = Same(q)
    BY <1>12, <2>2 DEF Terminate, Passed, Same
  <2> QED
    BY <1>12, <2>1, <2>2, <2>3, <2>4 DEF Terminate, Restoring
<1>13. CASE SignalExit
  BY <1>13 DEF SignalExit, BrTypeOK, Restoring, Passed, Same
<1>14. CASE Interrupt
  BY <1>14 DEF Interrupt, BrTypeOK, Restoring, Passed, Same
<1> QED
  BY <1>1, <1>2, <1>3, <1>4, <1>5, <1>6, <1>7, <1>8, <1>9, <1>10, <1>11, <1>12, <1>13, <1>14
  DEF BrStep, Protocols

\* The rest of the process leaves what Browse sees alone.
LEMMA NextIsBrStep ==
  ASSUME PrNext
  PROVE  BrStep \/ UNCHANGED brVars
<1>1. CASE BrowseStep
  BY <1>1 DEF BrowseStep, BrStep
<1>2. CASE MainStep
  BY <1>2 DEF MainStep, MainStartsMcp, MainStopsMcp, MainMcpStopped, MainStopsProxy,
              MainAwaitsServe, MainStopped, MainIn, BrStep
<1>3. CASE MainLeavesTUI
  BY <1>3 DEF MainLeavesTUI, BrStep
<1>4. CASE InterruptCancels \/ ServeStops \/ ServeReturns \/ Draw \/ Drawn
  BY <1>4 DEF InterruptCancels, ServeStops, ServeReturns, Draw, Drawn
<1>5. CASE McpWatcher \/ McpTraffic
  BY <1>5 DEF McpWatcher, McpTraffic
<1> QED
  BY <1>1, <1>2, <1>3, <1>4, <1>5 DEF PrNext

-----------------------------------------------------------------------------
(* The MCP server, Serve and main. *)

\* The parts of the invariant that are not Browse's.
Rest ==
  /\ McpTypeOK
  /\ interrupted \in BOOLEAN /\ screen \in {"idle", "drawing"}
  /\ serve \in {"serving", "stopping", "returned"}
  /\ stage \in {"none", "mcp", "shutdown", "proxy", "await", "stopped"}
  /\ Server /\ Stopping

\* The steps of Browse that leave the server alone.
LEMMA BrowseStepRest ==
  ASSUME BrTypeOK, Rest, BrowseStep
  PROVE  Rest'
<1> USE DEF Running, Fatal, Goto
<1>1. UNCHANGED <<mcpVars, prLocal>>
  BY DEF BrowseStep
<1>2. /\ mpc' = mpc \/ (/\ mpc \notin {"tui", "stopping", "deferred"}
                        /\ mpc' \notin {"tui", "stopping", "deferred"})
      /\ ended' = "fatal" /\ mpc' = "stopping" => ended = "fatal" /\ mpc = "stopping"
  <2>1. CASE InstallCA \/ Snapshot
    BY <2>1 DEF InstallCA, Snapshot
  <2>2. CASE SetProxy("http", "set https") \/ SetProxy("https", "open")
    BY <2>2 DEF SetProxy
  <2>3. CASE OpenURL \/ UndoFatal \/ Arm
    BY <2>3 DEF OpenURL, UndoFatal, Arm
  <2>4. CASE RestoreOne("main") \/ RestoreOne("signal")
    BY <2>4 DEF RestoreOne
  <2>5. CASE MainReturns \/ Terminate \/ SignalExit \/ Interrupt
    BY <2>5 DEF MainReturns, Terminate, SignalExit, Interrupt
  <2> QED
    BY <2>1, <2>2, <2>3, <2>4, <2>5 DEF BrowseStep
<1>3. McpTypeOK' /\ Server'
  BY <1>1 DEF Rest, McpTypeOK, Server, mcpVars
<1>4. Stopping'
  BY <1>1, <1>2 DEF Rest, Stopping, mcpVars, prLocal
<1> QED
  BY <1>1, <1>3, <1>4 DEF Rest, prLocal

\* main.
LEMMA MainRest ==
  ASSUME BrTypeOK, Rest, MainStep \/ MainLeavesTUI
  PROVE  Rest'
<1> USE DEF Running, Fatal, Goto, brVars, mcpVars, prLocal
<1>1. CASE MainStartsMcp
  <2>1. CASE MCP /\ mpc' = "tui"
    BY <1>1, <2>1 DEF MainStartsMcp, StartMCP, StartServer, Rest, McpTypeOK, Server, Stopping
  <2>2. CASE ~(MCP /\ mpc' = "tui")
    BY <1>1, <2>2 DEF MainStartsMcp, StartMCP, Rest, McpTypeOK, Server, Stopping
  <2> QED
    BY <2>1, <2>2
<1>2. CASE MainStopsMcp
  BY <1>2 DEF MainStopsMcp, MainIn, Stop, Rest, McpTypeOK, Server, Stopping
<1>3. CASE MainMcpStopped
  BY <1>3 DEF MainMcpStopped, MainIn, StopReturns, Rest, McpTypeOK, Server, Stopping
<1>4. CASE MainStopsProxy
  BY <1>4 DEF MainStopsProxy, MainIn, Rest, McpTypeOK, Server, Stopping
<1>5. CASE MainAwaitsServe
  BY <1>5 DEF MainAwaitsServe, MainIn, Rest, McpTypeOK, Server, Stopping
<1>6. CASE MainStopped
  BY <1>6 DEF MainStopped, Stopped, Rest, McpTypeOK, Server, Stopping
<1>7. CASE MainLeavesTUI
  BY <1>7 DEF MainLeavesTUI, TUIReturns, Rest, McpTypeOK, Server, Stopping
<1> QED
  BY <1>1, <1>2, <1>3, <1>4, <1>5, <1>6, <1>7 DEF MainStep

\* Signals, the goroutines, the clients and the drawing.
LEMMA GoroutinesRest ==
  ASSUME Rest, \/ InterruptCancels \/ ServeStops \/ ServeReturns \/ McpWatcher
               \/ McpTraffic \/ Draw \/ Drawn
  PROVE  Rest'
<1> USE DEF brVars, mcpVars, prLocal
<1>1. CASE InterruptCancels
  BY <1>1 DEF InterruptCancels, Rest, McpTypeOK, Server, Stopping
<1>2. CASE ServeStops \/ ServeReturns
  BY <1>2 DEF ServeStops, ServeReturns, Rest, McpTypeOK, Server, Stopping
<1>3. CASE McpWatcher
  <2>1. CASE WatcherStops
    BY <1>3, <2>1 DEF McpWatcher, WatcherStops, Stop, Rest, McpTypeOK, Server, Stopping
  <2>2. CASE WatcherReturns
    BY <1>3, <2>2 DEF McpWatcher, WatcherReturns, StopReturns, Rest, McpTypeOK, Server, Stopping
  <2> QED
    BY <1>3, <2>1, <2>2 DEF McpWatcher
<1>4. CASE McpTraffic
  <2>1. ASSUME NEW c \in Clients, Call(c) \/ CallEnds(c) PROVE Rest'
    BY <1>4, <2>1 DEF McpTraffic, Call, CallEnds, Rest, McpTypeOK, Server, Stopping
  <2>2. CASE ServeFails
    BY <1>4, <2>2 DEF McpTraffic, ServeFails, Rest, McpTypeOK, Server, Stopping
  <2> QED
    BY <1>4, <2>1, <2>2 DEF McpTraffic
<1>5. CASE Draw
  BY <1>5 DEF Draw, Rest, McpTypeOK, Server, Stopping
<1>6. CASE Drawn
  BY <1>6 DEF Drawn, AskRunning, Rest, McpTypeOK, Server, Stopping
<1> QED
  BY <1>1, <1>2, <1>3, <1>4, <1>5, <1>6

-----------------------------------------------------------------------------

\* The invariant is inductive.
LEMMA PrNextInv == ASSUME PrInv, [PrNext]_prVars PROVE PrInv'
<1>1. PrInv => BrTypeOK /\ Restoring /\ Rest
  BY DEF PrInv, PrTypeOK, Rest
<1>2. BrTypeOK' /\ Restoring' /\ Rest' => PrInv'
  BY DEF PrInv, PrTypeOK, Rest
<1>3. CASE UNCHANGED prVars
  <2>1. BrTypeOK'
    BY <1>1, <1>3 DEF prVars, brVars, BrTypeOK
  <2>2. Restoring'
    BY <1>1, <1>3 DEF prVars, brVars, Restoring, Passed, Same
  <2>3. Rest'
    BY <1>1, <1>3 DEF prVars, mcpVars, brVars, prLocal, Rest, McpTypeOK, Server, Stopping
  <2> QED
    BY <1>2, <2>1, <2>2, <2>3
<1>4. CASE PrNext
  <2>1. BrTypeOK' /\ Restoring'
    <3>1. CASE BrStep
      BY <1>1, <3>1, BrStepKeeps
    <3>2. CASE UNCHANGED brVars
      <4>1. BrTypeOK'
        BY <1>1, <3>2 DEF brVars, BrTypeOK
      <4>2. Restoring'
        BY <1>1, <3>2 DEF brVars, Restoring, Passed, Same
      <4> QED
        BY <4>1, <4>2
    <3> QED
      BY <1>4, <3>1, <3>2, NextIsBrStep
  <2>2. Rest'
    BY <1>1, <1>4, BrowseStepRest, MainRest, GoroutinesRest DEF PrNext
  <2> QED
    BY <1>2, <2>1, <2>2
<1> QED
  BY <1>3, <1>4

\* The inductive invariant of the process.
THEOREM ProcessInvariant == PrSpec => []PrInv
<1>1. PrInit => PrInv
  <2> SUFFICES ASSUME PrInit PROVE PrInv
    OBVIOUS
  <2>1. \A s \in UserSettings : s \in Settings
    <3>1. /\ [on |-> FALSE, server |-> "none"] \in Settings
          /\ [on |-> TRUE, server |-> "user"] \in Settings
          /\ [on |-> FALSE, server |-> "user"] \in Settings
      BY DEF Settings
    <3> QED
      BY <3>1 DEF UserSettings
  <2>2. BrTypeOK
    BY <2>1 DEF PrInit, BrInit, BrTypeOK
  <2>3. Restoring
    BY DEF PrInit, BrInit, Restoring
  <2>4. McpTypeOK /\ Server /\ Stopping
    BY DEF PrInit, BrInit, McpInit, McpTypeOK, Server, Stopping
  <2> QED
    BY <2>2, <2>3, <2>4 DEF PrInv, PrTypeOK, PrInit
<1>2. PrInv /\ [PrNext]_prVars => PrInv'
  BY PrNextInv
<1> QED
  BY <1>1, <1>2, PTL DEF PrSpec

\* The user's proxy is in use again for every protocol that could be restored when main
\* returns or the signal goroutine exits, with the other in the middle.  (The fatal exit of
\* main on the TUI's error, SIGINT and a kill restore nothing: AlwaysRestored and
\* InterruptRestores.)
THEOREM ProxyRestoredOnExit == PrSpec => []RestoredOnExit
<1>1. ASSUME PrInv PROVE RestoredOnExit
  <2>1. \A r \in {"main", "signal"} : left[r] = "done" => Passed(r) = Protocols
    BY DEF Passed
  <2> QED
    BY <1>1, <2>1 DEF PrInv, Restoring, RestoredOnExit, SameEffect, Same
<1> QED
  BY <1>1, ProcessInvariant, PTL

\* What Running says is so whenever it can be asked, unless the listener has failed by
\* itself.
THEOREM StatusLineTruthful == PrSpec => []StatusTruthful
<1>1. PrInv => StatusTruthful
  BY DEF PrInv, Server, StatusTruthful
<1> QED
  BY <1>1, ProcessInvariant, PTL

\* main restores the system's proxy, or gives up, once the MCP server's listener is closed,
\* its mutex is free and Serve has returned.
THEOREM NothingLeftBehind == PrSpec => []QuietAtTheEnd
<1>1. PrInv => QuietAtTheEnd
  BY DEF PrInv, Server, Stopping, QuietAtTheEnd
<1> QED
  BY <1>1, ProcessInvariant, PTL

-----------------------------------------------------------------------------

\* One process at a time is between its start and its TUI, or on its settings screen.
OneBusy == \A a, b \in Procs : Busy(a) /\ Busy(b) => a = b

\* What the user saved last is in c, but for a port that a flag has overridden.
HasWanted(c) ==
  /\ wanted.mode # "any" => c.mode = wanted.mode
  /\ wanted.port # "any" /\ ~flagged => Loaded(c).port \in {wanted.port, "flag"}

\* An announced token is in the file, and so is what the user saved last, unless the file
\* was truncated by a save that did not end.
FileKept ==
  /\ file.st = "none" => file = NoFile /\ saw = {} /\ wanted = Nothing
  /\ \A t, u \in saw : t = u
  /\ \A t \in saw : file.st = "good" => file.token = t
  /\ file.st = "good" => HasWanted(file)
  /\ file.port = "flag" => flagged

\* While main starts its configuration is the file's.
Early == {"init", "create", "key", "cert", "pem", "writePem", "load", "install", "token"}

\* The screen has what is in the file and what the user has edited since.
ScreenFollows(a) ==
  /\ \A t \in saw : settings[a].token = t
  /\ settings[a].port # "missing"
  /\ IF "mode" \in edited[a] THEN TRUE
     ELSE wanted.mode # "any" => settings[a].mode = wanted.mode
  /\ IF "port" \in edited[a] THEN settings[a].port \in {"default", "chosen"}
     ELSE /\ wanted.port # "any" /\ ~flagged => settings[a].port = wanted.port
          /\ settings[a].port = "flag" => flagged

\* What a knows of the file.
CfFollows(a) ==
  /\ ppc[a] \in Early => file.st # "empty" /\ cfg[a].token = file.token
  /\ ppc[a] \in Early \cup {"remove", "save", "write"} => HasWanted(cfg[a])
  /\ ppc[a] \in {"remove", "save", "write"} => saw = {} /\ cfg[a].token # 0
  /\ ppc[a] = "announce" =>
       file.st = "good" /\ file.token = cfg[a].token /\ cfg[a].token # 0
  /\ ppc[a] \in {"saveSettings", "writeSettings"} => settings[a].st = "good"
  /\ ppc[a] \in {"settings", "saveSettings", "writeSettings"} /\ settings[a].st = "good" =>
       ScreenFollows(a)

CfInv ==
  /\ CfTypeOK /\ OneBusy /\ FileKept
  /\ \A a \in Procs : cfg[a].token <= made /\ settings[a].token <= made /\ CfFollows(a)

\* A certificate in the file goes with its key; nobody has signed with another one, nor
\* trusts another one but the one that was there at first.
CAKept ==
  /\ combo \in [key : Int, cert : Int] /\ combo.cert >= OtherName
  /\ certFile \in Int /\ certFile >= OtherName
  /\ ca \in [Procs -> Nat] /\ madeCAs \in Nat
  /\ combo.cert > None => combo.key = combo.cert
  /\ certFile > None => certFile = combo.cert
  /\ \A c \in signed : c = combo.cert /\ c > None
  /\ \A c \in trusted : c # OtherName => c = combo.cert /\ c > None

\* What a knows of the certificate authority's file.
CaFollows(a) ==
  /\ ppc[a] \in {"create", "key", "cert", "pem", "writePem"} => ca[a] > None
  /\ ppc[a] \in {"create", "key", "cert"} => combo.cert <= None
  /\ ppc[a] = "cert" => combo.key = ca[a]
  /\ ppc[a] \in {"pem", "writePem"} => combo.cert = ca[a]
  /\ ppc[a] \in {"load", "install"} => combo.cert > None

DdInv == CfInv /\ CAKept /\ \A a \in Procs : CaFollows(a)
-----------------------------------------------------------------------------
(* The process that is busy, and those that are not. *)

Alone(a) == \A b \in Procs : b # a => ~Busy(b)

\* Processes that are off, or show their flows, know nothing.
LEMMA OthersFollow ==
  ASSUME NEW a \in Procs, Alone(a)', CfFollows(a)', CaFollows(a)'
  PROVE  OneBusy' /\ \A b \in Procs : CfFollows(b)' /\ CaFollows(b)'
<1>1. OneBusy'
  BY DEF OneBusy, Alone
<1>2. ASSUME NEW b \in Procs, b # a PROVE CfFollows(b)' /\ CaFollows(b)'
  <2>1. ppc'[b] \in {"off", "tui"}
    BY <1>2 DEF Alone, Busy
  <2> QED
    BY <2>1 DEF CfFollows, CaFollows, Early
<1> QED
  BY <1>1, <1>2

\* The parts of the invariant that a step of a has to keep.
Kept(a) ==
  /\ CfTypeOK /\ FileKept /\ CAKept
  /\ \A b \in Procs : cfg[b].token <= made /\ settings[b].token <= made
  /\ CfFollows(a) /\ CaFollows(a)

\* A step of a, when no other process is busy.
LEMMA StepKeeps ==
  ASSUME NEW a \in Procs, Alone(a), \A b \in Procs : b # a => ppc'[b] = ppc[b], Kept(a)'
  PROVE  DdInv'
<1>1. Alone(a)'
  BY DEF Alone, Busy
<1>2. OneBusy' /\ \A b \in Procs : CfFollows(b)' /\ CaFollows(b)'
  BY <1>1, OthersFollow DEF Kept
<1> QED
  BY <1>2 DEF DdInv, CfInv, Kept

\* Where a process is.
Points == {"off", "init", "create", "key", "cert", "pem", "writePem", "load", "install", "token",
           "remove", "save", "write", "announce", "tui", "settings", "saveSettings",
           "writeSettings"}

\* Before a meeting, a process that is busy with the files is the only one that is.
LEMMA BusyAlone == ASSUME DdInv, NEW a \in Procs, Busy(a) PROVE Alone(a)
  BY DEF DdInv, CfInv, OneBusy, Alone

\* A step in the running process's program.
LEMMA MovesPoint ==
  ASSUME CfTypeOK, NEW a \in Procs, NEW from \in Points \ {"off"}, NEW to \in Points,
         Moves(a, from, to)
  PROVE  /\ ppc[a] = from /\ ppc'[a] = to /\ \A b \in Procs : b # a => ppc'[b] = ppc[b]
         /\ ppc' \in [Procs -> Points] /\ On(a) /\ \A b \in Procs : On(b)' => On(b)
<1>1. ppc \in [Procs -> Points] /\ ppc[a] = from /\ ppc' = [ppc EXCEPT ![a] = to]
  BY DEF CfTypeOK, Points, Moves
<1>2. /\ ppc'[a] = to /\ (\A b \in Procs : b # a => ppc'[b] = ppc[b])
      /\ ppc' \in [Procs -> Points]
  BY <1>1
<1>3. On(a) /\ \A b \in Procs : On(b)' => On(b)
  BY <1>1, <1>2 DEF On
<1> QED
  BY <1>1, <1>2, <1>3

\* A process ends or goes back to its flows, with the files as they are.
LEMMA EndInv ==
  ASSUME DdInv, NEW a \in Procs, On(a), NEW to \in {"off", "tui"},
         ppc' = [ppc EXCEPT ![a] = to],
         UNCHANGED <<file, legacy, first, job, cfg, settings, edited, history, saw, made, runs>>,
         UNCHANGED caVars
  PROVE  DdInv'
<1> USE DEF DdInv, CfInv, history, caVars
<1>1. /\ ppc'[a] = to /\ (\A b \in Procs : b # a => ppc'[b] = ppc[b])
      /\ ppc \in [Procs -> Points] /\ ppc' \in [Procs -> Points]
  BY DEF CfTypeOK, Points
<1>2. CfTypeOK'
  <2>1. \A b \in Procs : On(b)' => On(b)
    BY <1>1 DEF On
  <2> QED
    BY <1>1, <2>1 DEF CfTypeOK, Points
<1>3. FileKept' /\ CAKept'
  BY DEF FileKept, HasWanted, CAKept
<1>4. OneBusy'
  BY <1>1 DEF OneBusy, Busy
<1>5. ASSUME NEW b \in Procs PROVE CfFollows(b)' /\ CaFollows(b)'
  <2>1. CASE b = a
    BY <1>1, <2>1 DEF CfFollows, CaFollows, Early
  <2>2. CASE b # a
    BY <1>1, <2>2 DEF CfFollows, CaFollows, ScreenFollows, HasWanted
  <2> QED
    BY <2>1, <2>2
<1> QED
  BY <1>2, <1>3, <1>4, <1>5

-----------------------------------------------------------------------------
(* The certificate authority. *)

\* A step of Init changes nothing that the configuration's part is about.
LEMMA InitStepKeeps ==
  ASSUME DdInv, NEW a \in Procs, NEW from \in Early \ {"token"}, NEW to \in Early \cup {"off", "tui"},
         InitStep(a, from, to)
  PROVE  /\ Alone(a) /\ ppc[a] = from /\ ppc'[a] = to
         /\ \A b \in Procs : b # a => ppc'[b] = ppc[b]
         /\ CfTypeOK' /\ FileKept' /\ CfFollows(a)'
         /\ \A b \in Procs : cfg'[b].token <= made' /\ settings'[b].token <= made'
<1> USE DEF DdInv, CfInv
<1>1. /\ Moves(a, from, to)
      /\ UNCHANGED <<file, legacy, first, job, cfg, settings, edited, wanted, flagged, raced, saw,
                     made, runs>>
  BY DEF InitStep, history
<1>2. from \in Points \ {"off"} /\ to \in Points
  BY DEF Early, Points
<1>3. /\ ppc[a] = from /\ ppc'[a] = to /\ (\A b \in Procs : b # a => ppc'[b] = ppc[b])
      /\ ppc' \in [Procs -> Points] /\ \A b \in Procs : On(b)' => On(b)
  BY <1>1, <1>2, MovesPoint
<1>4. Alone(a)
  <2>1. Busy(a)
    BY <1>3 DEF Busy, Early
  <2> HIDE DEF DdInv, CfInv
  <2> QED
    BY <2>1, BusyAlone
<1>5. CfTypeOK'
  BY <1>1, <1>3 DEF CfTypeOK, Points
<1>6. FileKept'
  BY <1>1 DEF FileKept, HasWanted
<1>7. CfFollows(a)'
  BY <1>1, <1>3 DEF CfFollows, Early, HasWanted
<1> QED
  BY <1>1, <1>3, <1>4, <1>5, <1>6, <1>7

\* EnsureCA.
LEMMA LookForCAInv == ASSUME DdInv, NEW a \in Procs, LookForCA(a) PROVE DdInv'
<1> USE DEF DdInv, CfInv
<1> DEFINE to == IF hasCorrectCN THEN "load" ELSE "create"
<1>1. to \in Early \cup {"off", "tui"} /\ "init" \in Early \ {"token"} /\ InitStep(a, "init", to)
  BY DEF LookForCA, Early
<1> HIDE DEF to
<1>2. /\ Alone(a) /\ ppc'[a] = to /\ \A b \in Procs : b # a => ppc'[b] = ppc[b]
      /\ CfTypeOK' /\ FileKept' /\ CfFollows(a)' /\ \A b \in Procs : cfg'[b].token <= made' /\ settings'[b].token <= made'
  BY <1>1, InitStepKeeps
<1>3. CAKept'
  BY DEF LookForCA, CAKept, None, OtherName
<1>4. CaFollows(a)'
  <2>1. CASE hasCorrectCN
    <3>1. combo.cert > None /\ combo' = combo /\ ppc'[a] = "load"
      BY <1>2, <2>1 DEF LookForCA, CAKept, hasCorrectCN, None, OtherName, to
    <3> QED
      BY <3>1 DEF CaFollows
  <2>2. CASE ~hasCorrectCN
    <3>1. combo.cert <= None /\ combo' = combo /\ ppc'[a] = "create"
      BY <1>2, <2>2 DEF LookForCA, CAKept, hasCorrectCN, None, OtherName, to
    <3>2. ca'[a] > None
      BY <2>2 DEF LookForCA, CAKept, None
    <3> QED
      BY <3>1, <3>2 DEF CaFollows
  <2> QED
    BY <2>1, <2>2
<1> QED
  BY <1>2, <1>3, <1>4, StepKeeps DEF Kept

\* The file of key and certificate: half of it has no certificate.
LEMMA WriteComboInv == ASSUME DdInv, NEW a \in Procs, WriteCombo(a) PROVE DdInv'
<1> USE DEF DdInv, CfInv
<1>1. PICK from \in Early \ {"token"}, to \in Early \cup {"off", "tui"} :
        /\ InitStep(a, from, to)
        /\ \/ from = "create" /\ to = "key" /\ combo' = NoCombo
           \/ from = "key" /\ to = "cert" /\ combo' = [combo EXCEPT !.key = ca[a]]
           \/ from = "cert" /\ to = "pem" /\ combo' = [combo EXCEPT !.cert = ca[a]]
  BY DEF WriteCombo, Early
<1>2. /\ Alone(a) /\ ppc[a] = from /\ ppc'[a] = to /\ \A b \in Procs : b # a => ppc'[b] = ppc[b]
      /\ CfTypeOK' /\ FileKept' /\ CfFollows(a)' /\ \A b \in Procs : cfg'[b].token <= made' /\ settings'[b].token <= made'
  BY <1>1, InitStepKeeps
<1>3. UNCHANGED <<certFile, ca, signed, trusted, madeCAs>>
  BY DEF WriteCombo
<1>4. ca[a] \in Nat /\ ca[a] > None /\ combo.cert <= None /\ (from = "cert" => combo.key = ca[a])
  BY <1>1, <1>2 DEF CaFollows, CAKept
<1>5. /\ combo' \in [key : Int, cert : Int] /\ combo'.cert >= OtherName
      /\ from = "create" => combo'.cert = None
      /\ from = "key" => combo'.cert = combo.cert /\ combo'.key = ca[a]
      /\ from = "cert" => combo'.cert = ca[a] /\ combo'.key = combo.key
  BY <1>1, <1>4 DEF CAKept, NoCombo, None, OtherName
<1>6. CAKept'
  BY <1>1, <1>3, <1>4, <1>5 DEF CAKept, None, OtherName
<1>7. CaFollows(a)'
  <2>1. ca'[a] > None
    BY <1>3, <1>4
  <2>2. CASE from = "create"
    <3>1. ppc'[a] = "key" /\ combo'.cert <= None
      BY <1>1, <1>2, <1>5, <2>2 DEF None
    <3> QED
      BY <2>1, <3>1 DEF CaFollows
  <2>3. CASE from = "key"
    BY <1>1, <1>2, <1>3, <1>4, <1>5, <2>1, <2>3 DEF CaFollows
  <2>4. CASE from = "cert"
    BY <1>1, <1>2, <1>3, <1>5, <2>1, <2>4 DEF CaFollows
  <2> QED
    BY <1>1, <2>2, <2>3, <2>4
<1> QED
  BY <1>2, <1>6, <1>7, StepKeeps DEF Kept

\* The certificate alone.
LEMMA WriteCertFileInv == ASSUME DdInv, NEW a \in Procs, WriteCertFile(a) PROVE DdInv'
<1> USE DEF DdInv, CfInv
<1>1. PICK from \in Early \ {"token"}, to \in Early \cup {"off", "tui"} :
        /\ InitStep(a, from, to)
        /\ \/ from = "pem" /\ to = "writePem" /\ certFile' = None
           \/ from = "writePem" /\ to = "load" /\ certFile' = ca[a]
  BY DEF WriteCertFile, Early
<1>2. /\ Alone(a) /\ ppc[a] = from /\ ppc'[a] = to /\ \A b \in Procs : b # a => ppc'[b] = ppc[b]
      /\ CfTypeOK' /\ FileKept' /\ CfFollows(a)' /\ \A b \in Procs : cfg'[b].token <= made' /\ settings'[b].token <= made'
  BY <1>1, InitStepKeeps
<1>3. UNCHANGED <<combo, ca, signed, trusted, madeCAs>>
  BY DEF WriteCertFile
<1>4. ca[a] \in Nat /\ ca[a] > None /\ combo.cert = ca[a]
  BY <1>1, <1>2 DEF CaFollows, CAKept
<1>5. CAKept'
  <2>1. /\ certFile' \in Int /\ certFile' >= OtherName
        /\ certFile' > None => certFile' = combo.cert
    <3>1. certFile' = None \/ certFile' = ca[a]
      BY <1>1
    <3> QED
      BY <1>4, <3>1 DEF None, OtherName
  <2> QED
    BY <1>3, <2>1 DEF CAKept
<1>6. CaFollows(a)'
  BY <1>1, <1>2, <1>3, <1>4 DEF CaFollows, None
<1> QED
  BY <1>2, <1>5, <1>6, StepKeeps DEF Kept

\* NewProxy finds a whole file, and signs with it.
LEMMA LoadCAInv == ASSUME DdInv, NEW a \in Procs, LoadCA(a) PROVE DdInv'
<1> USE DEF DdInv, CfInv
<1>1. PICK to \in {"install", "token", "tui", "off"} : InitStep(a, "load", to)
  BY DEF LoadCA
<1>2. "load" \in Early \ {"token"} /\ to \in Early \cup {"off", "tui"}
  BY DEF Early
<1>3. /\ Alone(a) /\ ppc[a] = "load" /\ ppc'[a] = to /\ \A b \in Procs : b # a => ppc'[b] = ppc[b]
      /\ CfTypeOK' /\ FileKept' /\ CfFollows(a)' /\ \A b \in Procs : cfg'[b].token <= made' /\ settings'[b].token <= made'
  BY <1>1, <1>2, InitStepKeeps
<1>4. /\ UNCHANGED <<combo, certFile, ca, trusted, madeCAs>>
      /\ signed' \subseteq signed \cup {combo.cert} /\ combo.cert > None
  BY <1>3 DEF LoadCA, CaFollows
<1>5. CAKept'
  BY <1>4 DEF CAKept
<1>6. CaFollows(a)'
  BY <1>3, <1>4 DEF CaFollows
<1> QED
  BY <1>3, <1>5, <1>6, StepKeeps DEF Kept

\* --install-ca.
LEMMA InstallInv == ASSUME DdInv, NEW a \in Procs, Install(a) PROVE DdInv'
<1> USE DEF DdInv, CfInv
<1>1. "install" \in Early \ {"token"} /\ "off" \in Early \cup {"off", "tui"} /\ InitStep(a, "install", "off")
  BY DEF Early, Install
<1>2. /\ Alone(a) /\ ppc'[a] = "off" /\ \A b \in Procs : b # a => ppc'[b] = ppc[b]
      /\ CfTypeOK' /\ FileKept' /\ CfFollows(a)' /\ \A b \in Procs : cfg'[b].token <= made' /\ settings'[b].token <= made'
  BY <1>1, InitStepKeeps
<1>3. CAKept'
  BY DEF Install, CAKept, None, OtherName
<1>4. CaFollows(a)'
  BY <1>2 DEF CaFollows
<1> QED
  BY <1>2, <1>3, <1>4, StepKeeps DEF Kept

-----------------------------------------------------------------------------
(* The configuration. *)

\* The points of a process that are not in Init.
CfPoints == {"off", "token", "remove", "save", "write", "announce", "tui", "settings",
             "saveSettings", "writeSettings"}

\* The parts of the types.
LEMMA CfParts ==
  ASSUME DdInv, NEW a \in Procs
  PROVE  /\ file \in Contents /\ cfg[a] \in Contents /\ settings[a] \in Contents
         /\ file.token \in Nat /\ cfg[a].token \in Nat /\ settings[a].token \in Nat
         /\ made \in Nat /\ legacy \in Nat
         /\ EmptyFile \in Contents /\ EmptyFile.st = "empty" /\ EmptyFile.token = 0
         /\ EmptyFile.port = "default"
         /\ saw \subseteq 1 .. made /\ file.token <= made /\ legacy <= made
         /\ cfg \in [Procs -> Contents] /\ settings \in [Procs -> Contents]
         /\ \A b \in Procs : cfg[b].token <= made /\ settings[b].token <= made
<1>1. CfTypeOK /\ \A b \in Procs : cfg[b].token <= made /\ settings[b].token <= made
  BY DEF DdInv, CfInv
<1>2. /\ file \in Contents /\ cfg[a] \in Contents /\ settings[a] \in Contents
      /\ made \in Nat /\ legacy \in Nat
  BY <1>1 DEF CfTypeOK
<1>3. \A c \in Contents : c.token \in Nat
  BY DEF Contents
<1>4. /\ EmptyFile \in Contents /\ EmptyFile.st = "empty" /\ EmptyFile.token = 0
      /\ EmptyFile.port = "default"
  BY DEF Contents, EmptyFile, NoFile
<1>5. /\ saw \subseteq 1 .. made /\ file.token <= made /\ legacy <= made
      /\ cfg \in [Procs -> Contents] /\ settings \in [Procs -> Contents]
  BY <1>1 DEF CfTypeOK
<1> QED
  BY <1>1, <1>2, <1>3, <1>4, <1>5

\* What Load makes of a file that parses.
LEMMA LoadedParts ==
  ASSUME NEW f \in Contents
  PROVE  /\ Loaded(f) \in Contents /\ Loaded(f).port # "missing"
         /\ Loaded(f).token = IF f.st = "none" THEN 0 ELSE f.token
         /\ Loaded(f).mode = IF f.st = "none" THEN "old" ELSE f.mode
         /\ Loaded(f).port = IF f.st = "none" \/ f.port = "missing" THEN "default" ELSE f.port
         /\ Loaded(f).st = IF f.st = "none" THEN "good" ELSE f.st
<1>1. CASE f.st = "none"
  BY <1>1 DEF Loaded, Default, NoFile, Contents
<1>2. CASE f.st # "none" /\ f.port = "missing"
  <2>1. Loaded(f) = [f EXCEPT !.port = "default"]
    BY <1>2 DEF Loaded
  <2> QED
    BY <1>2, <2>1 DEF Contents
<1>3. CASE f.st # "none" /\ f.port # "missing"
  <2>1. Loaded(f) = f
    BY <1>3 DEF Loaded
  <2> QED
    BY <1>3, <2>1
<1> QED
  BY <1>1, <1>2, <1>3

\* What the variables but ppc have to be after a step of a.
Ready(a) ==
  /\ file \in Contents /\ cfg \in [Procs -> Contents] /\ settings \in [Procs -> Contents]
  /\ edited \in [Procs -> SUBSET {"port", "mode"}]
  /\ wanted \in [port : {"any", "default", "chosen"}, mode : {"any", "old", "new"}]
  /\ flagged \in BOOLEAN /\ raced \in BOOLEAN
  /\ legacy \in Nat /\ made \in Nat /\ saw \subseteq 1 .. made
  /\ \A b \in Procs : cfg[b].token <= made /\ settings[b].token <= made
  /\ file.token <= made /\ legacy <= made
  /\ FileKept

\* A step of a process outside Init, when no other one is busy.
LEMMA CfStepKeeps ==
  ASSUME DdInv, NEW a \in Procs, NEW from \in CfPoints \ {"off"}, NEW to \in CfPoints,
         Moves(a, from, to), Alone(a), UNCHANGED <<caVars, job, first, runs>>,
         Ready(a)', \A b \in Procs : cfg'[b].st = cfg[b].st,
         ppc[a] = from /\ ppc'[a] = to => CfFollows(a)'
  PROVE  DdInv'
<1> USE DEF DdInv, CfInv
<1>1. from \in Points \ {"off"} /\ to \in Points
  BY DEF Points, CfPoints
<1>2. /\ ppc[a] = from /\ ppc'[a] = to /\ (\A b \in Procs : b # a => ppc'[b] = ppc[b])
      /\ ppc' \in [Procs -> Points] /\ \A b \in Procs : On(b)' => On(b)
  BY <1>1, MovesPoint
<1>3. CfTypeOK'
  BY <1>2 DEF CfTypeOK, Points, Ready
<1>4. CAKept' /\ CaFollows(a)'
  BY <1>2 DEF CAKept, CaFollows, caVars, CfPoints
<1>5. Kept(a)'
  BY <1>2, <1>3, <1>4 DEF Kept, Ready
<1> QED
  BY <1>2, <1>5, StepKeeps

\* A busy process is.
LEMMA BusyStep ==
  ASSUME DdInv, NEW a \in Procs, NEW from \in CfPoints \ {"off", "tui"}, NEW to, Moves(a, from, to)
  PROVE  Alone(a) /\ ppc[a] = from /\ On(a)
<1>1. ppc[a] = from /\ Busy(a) /\ On(a)
  BY DEF Moves, Busy, CfPoints, On
<1> QED
  BY <1>1, BusyAlone

\* Ready holds before every step.
LEMMA ReadyBefore == ASSUME DdInv, NEW a \in Procs PROVE Ready(a)
  BY DEF DdInv, CfInv, CfTypeOK, Ready

\* LoadOrCreateToken: the file's token if it has one, and only then has one been announced.
LEMMA FindTokenInv == ASSUME DdInv, NEW a \in Procs, FindToken(a), UNCHANGED caVars PROVE DdInv'
<1>1. PICK to \in {"announce", "remove", "save"} :
        /\ Moves(a, "token", to)
        /\ \/ cfg[a].token # 0 /\ to = "announce" /\ UNCHANGED <<cfg, made>>
           \/ /\ cfg[a].token = 0 /\ legacy # 0 /\ to = "remove"
              /\ cfg' = [cfg EXCEPT ![a].token = legacy] /\ made' = made
           \/ /\ cfg[a].token = 0 /\ to = "save"
              /\ made' = made + 1 /\ cfg' = [cfg EXCEPT ![a].token = made']
  BY DEF FindToken
<1>2. UNCHANGED <<file, legacy, first, job, settings, edited, wanted, flagged, raced, saw, runs>>
  BY DEF FindToken, history
<1>3. "token" \in CfPoints \ {"off", "tui"} /\ to \in CfPoints
  BY DEF CfPoints
<1>4. Alone(a) /\ ppc[a] = "token" /\ On(a)
  BY <1>1, <1>3, BusyStep
<1>5. file.st # "empty" /\ cfg[a].token = file.token /\ HasWanted(cfg[a])
  BY <1>4 DEF DdInv, CfInv, CfFollows, Early
<1>6. file.st \in {"none", "empty", "good"} /\ cfg[a].st = "good"
  BY <1>4 DEF DdInv, CfInv, CfTypeOK, Contents
<1>7. cfg[a].token = 0 => saw = {}
  <2>1. \A t \in saw : t # 0
    BY CfParts
  <2> QED
    BY <1>5, <1>6, <2>1 DEF DdInv, CfInv, FileKept
<1>8. cfg[a].token # 0 => file.st = "good"
  BY <1>5, <1>6 DEF DdInv, CfInv, FileKept, NoFile
<1>9. /\ cfg' \in [Procs -> Contents] /\ made' \in Nat /\ made <= made'
      /\ \A b \in Procs : cfg'[b].st = cfg[b].st /\ cfg'[b].token <= made'
      /\ cfg'[a].mode = cfg[a].mode /\ cfg'[a].port = cfg[a].port
      /\ to # "announce" => cfg'[a].token # 0
  <2>1. /\ cfg \in [Procs -> Contents] /\ made \in Nat /\ legacy \in Nat /\ legacy <= made
        /\ \A b \in Procs : cfg[b].token \in Nat /\ cfg[b].token <= made
    BY CfParts DEF CfTypeOK
  <2>2. CASE UNCHANGED <<cfg, made>> /\ to = "announce"
    BY <2>1, <2>2
  <2>3. CASE legacy # 0 /\ cfg' = [cfg EXCEPT ![a].token = legacy] /\ made' = made
    BY <2>1, <2>3 DEF Contents
  <2>4. CASE made' = made + 1 /\ cfg' = [cfg EXCEPT ![a].token = made']
    BY <2>1, <2>4 DEF Contents
  <2> QED
    BY <1>1, <2>2, <2>3, <2>4
<1>10. Ready(a)'
  <2>1. /\ saw' \subseteq 1 .. made' /\ file'.token <= made' /\ legacy' <= made'
        /\ \A b \in Procs : settings'[b].token <= made'
    <3>1. /\ saw \subseteq 1 .. made /\ file.token <= made /\ legacy <= made
          /\ file.token \in Nat /\ made \in Nat /\ legacy \in Nat
          /\ \A b \in Procs : settings[b].token \in Nat /\ settings[b].token <= made
      BY CfParts
    <3> QED
      BY <1>2, <1>9, <3>1
  <2>2. FileKept'
    BY <1>2, ReadyBefore DEF Ready, FileKept, HasWanted
  <2> QED
    BY <1>2, <1>9, <2>1, <2>2, ReadyBefore DEF Ready
<1>11. HasWanted(cfg[a])'
  <2>1. Loaded(cfg'[a]).port = Loaded(cfg[a]).port
    BY <1>6, <1>9, CfParts, LoadedParts
  <2> QED
    BY <1>2, <1>5, <1>9, <2>1 DEF HasWanted
<1>12. ppc'[a] = to => CfFollows(a)'
  BY <1>1, <1>2, <1>5, <1>7, <1>8, <1>9, <1>11 DEF CfFollows, Early
<1> QED
  BY <1>1, <1>2, <1>3, <1>4, <1>9, <1>10, <1>12, CfStepKeeps

\* The steps that change neither a file nor a configuration.
LEMMA IdleInv ==
  ASSUME DdInv, NEW a \in Procs, NEW from \in CfPoints \ {"off"}, NEW to \in CfPoints,
         Moves(a, from, to), Alone(a),
         UNCHANGED <<caVars, file, first, job, cfg, wanted, flagged, saw, made, runs>>,
         raced' \in BOOLEAN, legacy' = legacy \/ legacy' = 0,
         settings' \in [Procs -> Contents], edited' \in [Procs -> SUBSET {"port", "mode"}],
         \A b \in Procs : settings'[b].token <= made,
         ppc[a] = from /\ ppc'[a] = to => CfFollows(a)'
  PROVE  DdInv'
<1>1. FileKept'
  BY DEF DdInv, CfInv, FileKept, HasWanted
<1>2. legacy' \in Nat /\ legacy' <= made'
  BY CfParts
<1>3. Ready(a)'
  BY <1>1, <1>2, ReadyBefore DEF Ready
<1> QED
  BY <1>3, CfStepKeeps

\* The legacy file's removal, before the save.
LEMMA RemoveLegacyInv == ASSUME DdInv, NEW a \in Procs, RemoveLegacy(a), UNCHANGED caVars PROVE DdInv'
<1>1. Moves(a, "remove", "save") /\ "remove" \in CfPoints \ {"off", "tui"} /\ "save" \in CfPoints
  BY DEF RemoveLegacy, CfPoints
<1>2. /\ UNCHANGED <<file, first, job, cfg, settings, edited, wanted, flagged, raced, saw, made, runs>>
      /\ legacy' = 0
  BY DEF RemoveLegacy, history
<1>3. Alone(a) /\ ppc[a] = "remove"
  BY <1>1, BusyStep
<1>4. /\ settings' \in [Procs -> Contents] /\ edited' \in [Procs -> SUBSET {"port", "mode"}]
      /\ raced' \in BOOLEAN /\ \A b \in Procs : settings'[b].token <= made
  BY <1>2, ReadyBefore DEF Ready
<1>5. ppc'[a] = "save" => CfFollows(a)'
  BY <1>2, <1>3 DEF DdInv, CfInv, CfFollows, Early, HasWanted
<1> QED
  BY <1>1, <1>2, <1>3, <1>4, <1>5, IdleInv

\* Closing the screen, which saves what it has, if anything.
LEMMA CloseSettingsInv == ASSUME DdInv, NEW a \in Procs, CloseSettings(a), UNCHANGED caVars PROVE DdInv'
<1>1. PICK to \in {"saveSettings", "tui"} :
        Moves(a, "settings", to) /\ (to = "saveSettings" => settings[a].st = "good")
  BY DEF CloseSettings
<1>2. "settings" \in CfPoints \ {"off", "tui"} /\ to \in CfPoints
  BY DEF CfPoints
<1>3. UNCHANGED <<file, legacy, first, job, cfg, settings, edited, wanted, flagged, raced, saw, made,
                  runs>>
  BY DEF CloseSettings, history
<1>4. Alone(a) /\ ppc[a] = "settings"
  BY <1>1, <1>2, BusyStep
<1>5. /\ settings' \in [Procs -> Contents] /\ edited' \in [Procs -> SUBSET {"port", "mode"}]
      /\ raced' \in BOOLEAN /\ \A b \in Procs : settings'[b].token <= made
  BY <1>3, ReadyBefore DEF Ready
<1>6. ppc'[a] = to => CfFollows(a)'
  BY <1>1, <1>3, <1>4 DEF DdInv, CfInv, CfFollows, ScreenFollows, Early
<1> QED
  BY <1>1, <1>2, <1>3, <1>4, <1>5, <1>6, IdleInv

\* The end of a run.
LEMMA QuitInv == ASSUME DdInv, NEW a \in Procs, Quit(a), UNCHANGED caVars PROVE DdInv'
<1>1. On(a) /\ ppc' = [ppc EXCEPT ![a] = "off"]
  BY DEF Quit, Moves, On
<1> QED
  BY <1>1, EndInv DEF Quit

\* A save of the screen that fails: the file is as it was, or empty.
LEMMA SaveFailsInv == ASSUME DdInv, NEW a \in Procs, SaveFails(a), UNCHANGED caVars PROVE DdInv'
<1>1. On(a) /\ ppc' = [ppc EXCEPT ![a] = "tui"]
  BY DEF SaveFails, Moves, On
<1> QED
  BY <1>1, EndInv DEF SaveFails

\* A kill between any two steps.
LEMMA CrashInv == ASSUME DdInv, NEW a \in Procs, Crash(a), UNCHANGED caVars PROVE DdInv'
  BY EndInv DEF Crash

\* A process that meets no other one is alone.
LEMMA NotMeeting == ASSUME NEW a \in Procs, ~Meets(a) PROVE Alone(a)
  BY DEF Meets, Alone

\* The screen loads the file again, unless a save that did not end has left it empty.
LEMMA OpenSettingsInv ==
  ASSUME DdInv, NEW a \in Procs, OpenSettings(a), UNCHANGED caVars, ~raced' PROVE DdInv'
<1>1. Moves(a, "tui", "settings") /\ "tui" \in CfPoints \ {"off"} /\ "settings" \in CfPoints
  BY DEF OpenSettings, CfPoints
<1>2. /\ UNCHANGED <<file, legacy, first, job, cfg, wanted, flagged, saw, made, runs>>
      /\ edited' = [edited EXCEPT ![a] = {}]
      /\ settings' = [settings EXCEPT ![a] = IF file.st = "empty" THEN @ ELSE Loaded(file)]
      /\ Alone(a) /\ ~(file.st = "empty" /\ settings[a].st = "good")
  BY NotMeeting DEF OpenSettings
<1>3. /\ edited' \in [Procs -> SUBSET {"port", "mode"}] /\ edited'[a] = {}
      /\ settings \in [Procs -> Contents] /\ file \in Contents
      /\ \A b \in Procs : settings[b].token <= made
      /\ file.token \in Nat /\ file.token <= made /\ made \in Nat /\ raced' \in BOOLEAN
  <2>1. edited \in [Procs -> SUBSET {"port", "mode"}]
    BY DEF DdInv, CfInv, CfTypeOK
  <2>2. raced' \in BOOLEAN
    BY DEF OpenSettings
  <2> QED
    BY <1>2, <2>1, <2>2, CfParts
<1>4. CASE file.st = "empty"
  <2>1. settings' = settings /\ settings[a].st # "good"
    BY <1>2, <1>3, <1>4
  <2>2. ppc'[a] = "settings" => CfFollows(a)'
    BY <2>1 DEF CfFollows, Early
  <2> QED
    BY <1>1, <1>2, <1>3, <2>1, <2>2, IdleInv
<1>5. CASE file.st # "empty"
  <2>1. /\ settings' \in [Procs -> Contents] /\ settings'[a] = Loaded(file)
        /\ \A b \in Procs : b # a => settings'[b] = settings[b]
    <3>1. settings' = [settings EXCEPT ![a] = Loaded(file)]
      BY <1>2, <1>5
    <3>2. Loaded(file) \in Contents
      BY <1>3, LoadedParts
    <3> QED
      BY <1>3, <3>1, <3>2
  <2>2. \A b \in Procs : settings'[b].token <= made
    <3>1. Loaded(file).token <= made
      BY <1>3, LoadedParts
    <3> QED
      BY <1>3, <2>1, <3>1
  <2>3. file.st \in {"none", "good"} /\ FileKept
    BY <1>3, <1>5 DEF Contents, DdInv, CfInv
  <2>4. ScreenFollows(a)'
    <3>1. /\ Loaded(file).port # "missing"
          /\ Loaded(file).port = "flag" => flagged
      BY <1>3, <2>3, LoadedParts DEF FileKept
    <3>2. \A t \in saw : Loaded(file).token = t
      BY <1>3, <2>3, LoadedParts DEF FileKept
    <3>3. /\ wanted.mode # "any" => Loaded(file).mode = wanted.mode
          /\ wanted.port # "any" /\ ~flagged => Loaded(file).port = wanted.port
      <4>1. CASE file.st = "none"
        BY <2>3, <4>1 DEF FileKept, Nothing
      <4>2. CASE file.st = "good"
        <5>1. Loaded(file).mode = file.mode
          BY <1>3, <4>2, LoadedParts
        <5> QED
          BY <2>3, <3>1, <4>2, <5>1 DEF FileKept, HasWanted
      <4> QED
        BY <2>3, <4>1, <4>2
    <3> QED
      BY <1>2, <1>3, <2>1, <3>1, <3>2, <3>3 DEF ScreenFollows
  <2>5. ppc'[a] = "settings" => CfFollows(a)'
    BY <2>4 DEF CfFollows, Early
  <2> QED
    BY <1>1, <1>2, <1>3, <2>1, <2>2, <2>5, IdleInv
<1> QED
  BY <1>4, <1>5

\* A change the user makes on the screen.
LEMMA EditSettingInv == ASSUME DdInv, NEW a \in Procs, EditSetting(a), UNCHANGED caVars PROVE DdInv'
<1>1. /\ Moves(a, "settings", "settings") /\ "settings" \in CfPoints \ {"off", "tui"}
      /\ "settings" \in CfPoints /\ "settings" \in CfPoints \ {"off"}
  BY DEF EditSetting, CfPoints
<1>2. /\ UNCHANGED <<file, legacy, first, job, cfg, wanted, flagged, raced, saw, made, runs>>
      /\ settings[a].st = "good"
  BY DEF EditSetting, history
<1>3. Alone(a) /\ ppc[a] = "settings"
  BY <1>1, BusyStep
<1>4. PICK field \in {"mode", "port"}, value \in {"old", "new", "default", "chosen"} :
        /\ edited' = [edited EXCEPT ![a] = @ \cup {field}]
        /\ \/ /\ field = "mode" /\ value \in {"old", "new"}
              /\ settings' = [settings EXCEPT ![a].mode = value]
           \/ /\ field = "port" /\ value \in {"default", "chosen"}
              /\ settings' = [settings EXCEPT ![a].port = value]
  BY DEF EditSetting
<1>5. /\ settings \in [Procs -> Contents] /\ edited \in [Procs -> SUBSET {"port", "mode"}]
      /\ ScreenFollows(a) /\ \A b \in Procs : settings[b].token <= made
  BY <1>2, <1>3 DEF DdInv, CfInv, CfTypeOK, CfFollows
<1>6. /\ settings' \in [Procs -> Contents] /\ \A b \in Procs : settings'[b].token = settings[b].token
      /\ settings'[a].port = IF field = "port" THEN value ELSE settings[a].port
      /\ settings'[a].mode = IF field = "mode" THEN value ELSE settings[a].mode
  <2>1. CASE field = "mode"
    <3>1. settings' = [settings EXCEPT ![a].mode = value] /\ value \in {"old", "new"}
      BY <1>4, <2>1
    <3> QED
      BY <1>5, <2>1, <3>1 DEF Contents
  <2>2. CASE field = "port"
    <3>1. settings' = [settings EXCEPT ![a].port = value] /\ value \in {"default", "chosen"}
      BY <1>4, <2>2
    <3> QED
      BY <1>5, <2>2, <3>1 DEF Contents
  <2> QED
    BY <2>1, <2>2
<1>7. edited' \in [Procs -> SUBSET {"port", "mode"}] /\ edited'[a] = edited[a] \cup {field}
  BY <1>4, <1>5
<1>8. ScreenFollows(a)'
  <2>1. CASE field = "mode"
    BY <1>2, <1>4, <1>5, <1>6, <1>7, <2>1 DEF ScreenFollows
  <2>2. CASE field = "port"
    BY <1>2, <1>4, <1>5, <1>6, <1>7, <2>2 DEF ScreenFollows
  <2> QED
    BY <2>1, <2>2
<1>9. ppc'[a] = "settings" => CfFollows(a)'
  BY <1>8 DEF CfFollows, Early
<1>10. raced' \in BOOLEAN /\ \A b \in Procs : settings'[b].token <= made
  BY <1>2, <1>5, <1>6, ReadyBefore DEF Ready
<1> QED
  BY <1>1, <1>2, <1>3, <1>6, <1>7, <1>9, <1>10, IdleInv

\* The token is announced once it is in the file.
LEMMA AnnounceInv == ASSUME DdInv, NEW a \in Procs, Announce(a), UNCHANGED caVars PROVE DdInv'
<1>1. PICK to \in {"off", "tui"} : Moves(a, "announce", to)
  BY DEF Announce
<1>2. "announce" \in CfPoints \ {"off", "tui"} /\ to \in CfPoints
  BY DEF CfPoints
<1>3. /\ UNCHANGED <<file, legacy, first, job, cfg, settings, edited, wanted, flagged, raced, made, runs>>
      /\ saw' = saw \cup {cfg[a].token}
  BY DEF Announce, history
<1>4. Alone(a) /\ ppc[a] = "announce"
  BY <1>1, <1>2, BusyStep
<1>5. file.st = "good" /\ file.token = cfg[a].token /\ cfg[a].token # 0
  BY <1>4 DEF DdInv, CfInv, CfFollows
<1>6. saw' \subseteq 1 .. made'
  <2>1. cfg[a].token \in 1 .. made
    BY <1>5, CfParts
  <2> QED
    BY <1>3, <2>1, CfParts
<1>7. FileKept'
  <2>1. \A t \in saw' : t = file.token
    BY <1>3, <1>5 DEF DdInv, CfInv, FileKept
  <2> QED
    BY <1>3, <1>5, <2>1 DEF DdInv, CfInv, FileKept, HasWanted
<1>8. Ready(a)'
  BY <1>3, <1>6, <1>7, ReadyBefore DEF Ready
<1>9. ppc'[a] = to => CfFollows(a)'
  BY DEF CfFollows, Early
<1> QED
  BY <1>1, <1>2, <1>3, <1>4, <1>8, <1>9, CfStepKeeps

\* A save truncates the file ...
LEMMA TruncateFileInv == ASSUME DdInv, NEW a \in Procs, TruncateFile(a), UNCHANGED caVars PROVE DdInv'
<1>1. PICK from \in {"save", "saveSettings"}, to \in {"write", "writeSettings"} :
        /\ Moves(a, from, to)
        /\ \/ from = "save" /\ to = "write"
           \/ from = "saveSettings" /\ to = "writeSettings"
  BY DEF TruncateFile
<1>2. from \in CfPoints \ {"off", "tui"} /\ to \in CfPoints
  BY DEF CfPoints
<1>3. /\ UNCHANGED <<legacy, first, job, cfg, settings, edited, wanted, flagged, raced, saw, made, runs>>
      /\ file' = EmptyFile
  BY DEF TruncateFile, history
<1>4. Alone(a) /\ ppc[a] = from
  BY <1>1, <1>2, BusyStep
<1>5. FileKept'
  BY <1>3, CfParts DEF DdInv, CfInv, FileKept
<1>6. Ready(a)'
  BY <1>3, <1>5, CfParts, ReadyBefore DEF Ready
<1>7. ppc'[a] = to => CfFollows(a)'
  BY <1>1, <1>3, <1>4 DEF DdInv, CfInv, CfFollows, Early, HasWanted, ScreenFollows
<1> QED
  BY <1>1, <1>2, <1>3, <1>4, <1>6, <1>7, CfStepKeeps

\* ... and writes all of the configuration: the token's save,
LEMMA WriteTokenInv == ASSUME DdInv, NEW a \in Procs, WriteToken(a), UNCHANGED caVars PROVE DdInv'
<1>1. Moves(a, "write", "announce") /\ "write" \in CfPoints \ {"off", "tui"} /\ "announce" \in CfPoints
  BY DEF WriteToken, CfPoints
<1>2. /\ UNCHANGED <<legacy, first, job, cfg, settings, edited, wanted, raced, saw, made, runs>>
      /\ file' = cfg[a] /\ flagged' = (flagged \/ file'.port = "flag")
  BY DEF WriteToken
<1>3. Alone(a) /\ ppc[a] = "write" /\ On(a)
  BY <1>1, BusyStep
<1>4. /\ saw = {} /\ cfg[a].token # 0 /\ cfg[a].st = "good" /\ HasWanted(cfg[a])
      /\ flagged \in BOOLEAN
  BY <1>3 DEF DdInv, CfInv, CfFollows, CfTypeOK
<1>5. FileKept'
  BY <1>2, <1>4 DEF FileKept, HasWanted
<1>6. Ready(a)'
  BY <1>2, <1>4, <1>5, CfParts, ReadyBefore DEF Ready
<1>7. ppc'[a] = "announce" => CfFollows(a)'
  BY <1>2, <1>4 DEF CfFollows, Early
<1> QED
  BY <1>1, <1>2, <1>3, <1>6, <1>7, CfStepKeeps

\* and the screen's.
LEMMA WriteSettingsInv == ASSUME DdInv, NEW a \in Procs, WriteSettings(a), UNCHANGED caVars PROVE DdInv'
<1>1. /\ Moves(a, "writeSettings", "tui") /\ "writeSettings" \in CfPoints \ {"off", "tui"}
      /\ "tui" \in CfPoints
  BY DEF WriteSettings, CfPoints
<1>2. /\ UNCHANGED <<legacy, first, job, cfg, settings, edited, raced, saw, made, runs>>
      /\ file' = settings[a] /\ flagged' = (flagged /\ "port" \notin edited[a])
      /\ wanted' = [port |-> IF "port" \in edited[a] THEN settings[a].port ELSE wanted.port,
                    mode |-> IF "mode" \in edited[a] THEN settings[a].mode ELSE wanted.mode]
  BY DEF WriteSettings
<1>3. Alone(a) /\ ppc[a] = "writeSettings"
  BY <1>1, BusyStep
<1>4. settings[a].st = "good" /\ ScreenFollows(a) /\ settings[a] \in Contents /\ flagged \in BOOLEAN
  BY <1>3 DEF DdInv, CfInv, CfFollows, CfTypeOK
<1>5. /\ wanted'.port = IF "port" \in edited[a] THEN settings[a].port ELSE wanted.port
      /\ wanted'.mode = IF "mode" \in edited[a] THEN settings[a].mode ELSE wanted.mode
  BY <1>2
<1>6. HasWanted(file)'
  <2>1. Loaded(settings[a]).port = settings[a].port
    BY <1>4, LoadedParts DEF ScreenFollows
  <2>2. wanted'.mode # "any" => settings[a].mode = wanted'.mode
    BY <1>4, <1>5 DEF ScreenFollows
  <2>3. wanted'.port # "any" /\ ~flagged' => settings[a].port = wanted'.port
    BY <1>2, <1>4, <1>5 DEF ScreenFollows
  <2>4. file' = settings[a]
    BY <1>2
  <2> QED
    BY <2>1, <2>2, <2>3, <2>4 DEF HasWanted
<1>7. file'.port = "flag" => flagged'
  BY <1>2, <1>4 DEF ScreenFollows
<1>8. FileKept'
  BY <1>2, <1>4, <1>6, <1>7 DEF DdInv, CfInv, FileKept, ScreenFollows
<1>9. wanted' \in [port : {"any", "default", "chosen"}, mode : {"any", "old", "new"}]
  <2>1. wanted \in [port : {"any", "default", "chosen"}, mode : {"any", "old", "new"}]
    BY DEF DdInv, CfInv, CfTypeOK
  <2>2. "port" \in edited[a] => settings[a].port \in {"default", "chosen"}
    BY <1>4 DEF ScreenFollows
  <2>3. settings[a].mode \in {"old", "new"}
    BY <1>4 DEF Contents
  <2> QED
    BY <1>2, <2>1, <2>2, <2>3
<1>10. Ready(a)'
  <2>1. file' \in Contents /\ file'.token <= made'
    BY <1>2, <1>4, CfParts
  <2>2. flagged' \in BOOLEAN
    BY <1>2, <1>4
  <2> QED
    BY <1>2, <1>8, <1>9, <2>1, <2>2, ReadyBefore DEF Ready
<1>11. ppc'[a] = "tui" => CfFollows(a)'
  BY DEF CfFollows, Early
<1> QED
  BY <1>1, <1>2, <1>3, <1>10, <1>11, CfStepKeeps

\* A start, when no other process is busy, with the configuration of the file.
LEMMA StartInv == ASSUME DdInv, NEW a \in Procs, Start(a), UNCHANGED caVars, ~raced' PROVE DdInv'
<1> USE DEF DdInv, CfInv
<1>1. PICK j \in {"plain", "serve", "print", "install"}, flag \in BOOLEAN :
        /\ job' = [job EXCEPT ![a] = j]
        /\ cfg' = [cfg EXCEPT ![a] = IF flag THEN [Loaded(file) EXCEPT !.port = "flag"]
                                     ELSE Loaded(file)]
        /\ ppc' = [ppc EXCEPT ![a] = IF file.st = "empty" THEN "off"
                                     ELSE IF j = "print" THEN "token" ELSE "init"]
  BY DEF Start
<1>2. /\ UNCHANGED <<file, legacy, first, wanted, flagged, saw, made>>
      /\ runs < MaxRuns /\ runs' = runs + 1 /\ Alone(a)
      /\ settings' = [settings EXCEPT ![a] = NoFile] /\ edited' = [edited EXCEPT ![a] = {}]
  BY NotMeeting DEF Start
<1>3. /\ \A b \in Procs : b # a => ppc'[b] = ppc[b] /\ cfg'[b] = cfg[b]
      /\ ppc'[a] \in {"off", "token", "init"} /\ (file.st = "empty" => ppc'[a] = "off")
      /\ ppc' \in [Procs -> Points]
  <2>1. ppc \in [Procs -> Points]
    BY DEF CfTypeOK, Points
  <2> QED
    BY <1>1, <2>1 DEF CfTypeOK, Points
<1>4. file \in Contents /\ file.st \in {"none", "empty", "good"}
  <2>1. file \in Contents
    BY DEF CfTypeOK
  <2> QED
    BY <2>1 DEF Contents
<1>5. HasWanted(Loaded(file)) \/ file.st = "empty"
  <2>1. CASE file.st = "none"
    <3>1. Loaded(Loaded(file)).port = "default"
      BY <1>4, <2>1, LoadedParts
    <3> QED
      BY <2>1 DEF FileKept, HasWanted, Nothing
  <2>2. CASE file.st = "good"
    <3>1. Loaded(file).mode = file.mode /\ Loaded(Loaded(file)).port = Loaded(file).port
      BY <1>4, <2>2, LoadedParts
    <3> QED
      BY <2>2, <3>1 DEF FileKept, HasWanted
  <2> QED
    BY <1>4, <2>1, <2>2
<1>6. /\ cfg' \in [Procs -> Contents] /\ cfg'[a].token = Loaded(file).token
      /\ cfg'[a].st = Loaded(file).st
      /\ HasWanted(cfg'[a]) \/ file.st = "empty"
  <2>1. Loaded(file) \in Contents /\ cfg \in [Procs -> Contents]
    BY <1>4, LoadedParts DEF CfTypeOK
  <2>2. CASE flag
    <3> DEFINE c == [Loaded(file) EXCEPT !.port = "flag"]
    <3>1. c \in Contents /\ c.token = Loaded(file).token /\ c.st = Loaded(file).st /\ c.port = "flag"
          /\ c.mode = Loaded(file).mode
      BY <2>1 DEF Contents
    <3>2. cfg' \in [Procs -> Contents] /\ cfg'[a] = c
      BY <1>1, <2>1, <2>2, <3>1
    <3> HIDE DEF c
    <3>3. Loaded(c).port = "flag" \/ file.st = "empty"
      <4>1. c.st = "good" \/ file.st = "empty"
        BY <1>4, <3>1, LoadedParts
      <4> QED
        BY <3>1, <4>1, LoadedParts
    <3>4. HasWanted(c) \/ file.st = "empty"
      BY <1>5, <3>1, <3>3 DEF HasWanted
    <3> QED
      BY <3>1, <3>2, <3>4
  <2>3. CASE ~flag
    <3>1. cfg' \in [Procs -> Contents] /\ cfg'[a] = Loaded(file)
      BY <1>1, <2>1, <2>3
    <3> QED
      BY <1>5, <3>1
  <2> QED
    BY <2>2, <2>3
<1>7. /\ file.st # "empty" => cfg'[a].st = "good"
      /\ file.st # "empty" => cfg'[a].token = file.token
      /\ cfg'[a].token <= made
  <2>1. file.st = "none" => file.token = 0
    BY DEF FileKept, NoFile
  <2>2. file.token \in Nat /\ file.token <= made /\ made \in Nat
    BY <1>4 DEF CfTypeOK, Contents
  <2> QED
    BY <1>4, <1>6, <2>1, <2>2, LoadedParts
<1>8. /\ settings' \in [Procs -> Contents] /\ edited' \in [Procs -> SUBSET {"port", "mode"}]
      /\ \A b \in Procs : settings'[b].token <= made
  <2>1. NoFile \in Contents /\ NoFile.token = 0
    BY DEF NoFile, Contents
  <2>2. /\ settings \in [Procs -> Contents] /\ edited \in [Procs -> SUBSET {"port", "mode"}]
        /\ made \in Nat
    BY DEF CfTypeOK
  <2> QED
    BY <1>2, <2>1, <2>2
<1>9. CfTypeOK'
  <2>1. job' \in [Procs -> {"plain", "serve", "print", "install"}]
    BY <1>1 DEF CfTypeOK
  <2>2. runs' \in 0 .. MaxRuns
    <3>1. runs \in 0 .. MaxRuns
      BY DEF CfTypeOK
    <3> QED
      BY <1>2, <3>1, ConfigAssumption
  <2>3. \A b \in Procs : On(b)' => cfg'[b].st = "good"
    BY <1>3, <1>7 DEF CfTypeOK, On
  <2>4. raced' \in BOOLEAN
    BY DEF Start, CfTypeOK
  <2> QED
    BY <1>2, <1>3, <1>6, <1>8, <2>1, <2>2, <2>3, <2>4 DEF CfTypeOK, Points
<1>10. \A b \in Procs : cfg'[b].token <= made' /\ settings'[b].token <= made'
  BY <1>2, <1>3, <1>7, <1>8
<1>11. FileKept' /\ CAKept'
  BY <1>2 DEF FileKept, HasWanted, CAKept, caVars
<1>12. HasWanted(cfg[a])' \/ file.st = "empty"
  BY <1>2, <1>6 DEF HasWanted
<1>13. CfFollows(a)' /\ CaFollows(a)'
  BY <1>2, <1>3, <1>7, <1>12 DEF CfFollows, CaFollows, Early
<1>14. Kept(a)'
  BY <1>9, <1>10, <1>11, <1>13 DEF Kept
<1> HIDE DEF DdInv, CfInv
<1> QED
  BY <1>2, <1>3, <1>14, StepKeeps

-----------------------------------------------------------------------------

\* What the directory may hold at first.
LEMMA DdInitInv == ASSUME DdInit PROVE DdInv
<1>1. /\ NoFile \in Contents /\ Default \in Contents /\ Older \in Contents
      /\ \A f \in {NoFile, Default, Older} : f.token = 0 /\ f.port # "flag"
      /\ NoFile.st = "none" /\ Default.st = "good" /\ Older.st = "good"
  <2>1. NoFile = [st |-> "none", token |-> 0, port |-> "default", mode |-> "old"]
    BY DEF NoFile
  <2>2. Default = [st |-> "good", token |-> 0, port |-> "default", mode |-> "old"]
    BY <2>1 DEF Default
  <2>3. Older = [st |-> "good", token |-> 0, port |-> "missing", mode |-> "old"]
    BY <2>2 DEF Older
  <2> HIDE DEF NoFile, Default, Older
  <2> QED
    BY <2>1, <2>2, <2>3 DEF Contents
<1>2. CfTypeOK
  <2>1. /\ file \in Contents /\ cfg \in [Procs -> Contents] /\ settings \in [Procs -> Contents]
        /\ file.token = 0 /\ edited \in [Procs -> SUBSET {"port", "mode"}]
    BY <1>1 DEF DdInit, CfInit
  <2>2. legacy \in {0, 1} /\ first \in {0, 1} /\ made = legacy /\ saw = {} /\ runs \in 0 .. MaxRuns
    BY ConfigAssumption DEF DdInit, CfInit
  <2>3. \A a \in Procs : ~On(a)
    BY DEF DdInit, CfInit, On
  <2>4. wanted \in [port : {"any", "default", "chosen"}, mode : {"any", "old", "new"}]
    BY DEF DdInit, CfInit, Nothing
  <2>5. flagged \in BOOLEAN /\ raced \in BOOLEAN
    BY DEF DdInit, CfInit
  <2>6. /\ ppc \in [Procs -> Points]
        /\ job \in [Procs -> {"plain", "serve", "print", "install"}]
    BY DEF DdInit, CfInit, Points
  <2>7. /\ legacy \in Nat /\ first \in Nat /\ made \in Nat /\ file.token <= made /\ legacy <= made
        /\ saw \subseteq 1 .. made
    BY <2>1, <2>2
  <2> QED
    BY <2>1, <2>2, <2>3, <2>4, <2>5, <2>6, <2>7 DEF CfTypeOK, Points
<1>3. OneBusy
  BY DEF DdInit, CfInit, OneBusy, Busy
<1>4. FileKept
  BY <1>1 DEF DdInit, CfInit, FileKept, HasWanted, Nothing
<1>5. \A a \in Procs :
        cfg[a].token <= made /\ settings[a].token <= made /\ CfFollows(a) /\ CaFollows(a)
  <2> SUFFICES ASSUME NEW a \in Procs
               PROVE  cfg[a].token <= made /\ settings[a].token <= made /\ CfFollows(a) /\ CaFollows(a)
    OBVIOUS
  <2>1. cfg[a].token = 0 /\ settings[a].token = 0 /\ made \in {0, 1} /\ ppc[a] = "off"
    BY <1>1 DEF DdInit, CfInit
  <2> QED
    BY <2>1 DEF CfFollows, CaFollows, Early
<1>6. CAKept
  BY DEF DdInit, CAKept, NoCombo, HasOther, None, OtherName
<1> QED
  BY <1>2, <1>3, <1>4, <1>5, <1>6 DEF DdInv, CfInv

\* The invariant is inductive, until processes meet.
LEMMA DdNextInv == ASSUME DdInv, [DdNext]_ddVars, ~raced' PROVE DdInv'
<1>1. CASE UNCHANGED ddVars
  <2>1. CfTypeOK' /\ OneBusy' /\ FileKept'
    BY <1>1 DEF ddVars, cfVars, history, DdInv, CfInv, CfTypeOK, On, OneBusy, Busy, FileKept, HasWanted
  <2>2. CAKept'
    BY <1>1 DEF ddVars, caVars, DdInv, CAKept
  <2>3. \A a \in Procs : (cfg[a].token <= made /\ settings[a].token <= made)' /\ CfFollows(a)'
                         /\ CaFollows(a)'
    BY <1>1 DEF ddVars, cfVars, history, caVars, DdInv, CfInv, CfFollows, CaFollows, HasWanted,
                ScreenFollows
  <2> QED
    BY <2>1, <2>2, <2>3 DEF DdInv, CfInv
<1>2. CASE CaNext
  BY <1>2, LookForCAInv, WriteComboInv, WriteCertFileInv, LoadCAInv, InstallInv DEF CaNext
<1>3. CASE CfNext /\ UNCHANGED caVars
  BY <1>3, StartInv, FindTokenInv, RemoveLegacyInv, TruncateFileInv, WriteTokenInv, AnnounceInv,
     OpenSettingsInv, EditSettingInv, CloseSettingsInv, WriteSettingsInv, SaveFailsInv, QuitInv,
     CrashInv DEF CfNext
<1> QED
  BY <1>1, <1>2, <1>3 DEF DdNext

\* Processes that have met stay so.
LEMMA RacedStays == ASSUME raced, [DdNext]_ddVars PROVE raced'
<1>1. CASE UNCHANGED ddVars
  BY <1>1 DEF ddVars, cfVars, history
<1>2. CASE CaNext
  BY <1>2 DEF CaNext, LookForCA, WriteCombo, WriteCertFile, LoadCA, Install, InitStep, history
<1>3. CASE CfNext
  BY <1>3 DEF CfNext, Start, FindToken, RemoveLegacy, TruncateFile, WriteToken, Announce,
              OpenSettings, EditSetting, CloseSettings, WriteSettings, SaveFails, Quit, Crash, history
<1> QED
  BY <1>1, <1>2, <1>3 DEF DdNext

\* The inductive invariant of the data directory: as long as no two processes have met
\* between reading and writing the file.
THEOREM DataDirInvariant == DdSpec => [](~raced => DdInv)
<1> DEFINE Inv == ~raced => DdInv
<1>1. DdInit => Inv
  BY DdInitInv
<1>2. Inv /\ [DdNext]_ddVars => Inv'
  BY DdNextInv, RacedStays
<1>3. Inv /\ [][DdNext]_ddVars => []Inv
  BY <1>2, PTL
<1> QED
  BY <1>1, <1>3, PTL DEF DdSpec

\* Whatever runs, settings, flags and crashes come in between, every MCP server accepts the
\* token that was printed first, unless processes meet between reading and writing the file.
THEOREM TokenIsOne == DdSpec => []OneToken
<1>1. (~raced => DdInv) => OneToken
  BY DEF DdInv, CfInv, FileKept, OneToken
<1> QED
  BY <1>1, DataDirInvariant, PTL

\* What was changed in the settings and saved is there at the next start, unless processes
\* meet, or a flag's value was saved with a token.
THEOREM SettingsAreKept == DdSpec => []SettingsKept
<1>1. (~raced => DdInv) => SettingsKept
  <2> SUFFICES ASSUME DdInv, file.st = "good"
               PROVE  /\ wanted.mode # "any" => file.mode = wanted.mode
                      /\ wanted.port # "any" /\ ~flagged => Loaded(file).port = wanted.port
    BY DEF SettingsKept
  <2>1. HasWanted(file) /\ (file.port = "flag" => flagged) /\ file \in Contents
    BY DEF DdInv, CfInv, FileKept, CfTypeOK
  <2>2. Loaded(file).port = "flag" => file.port = "flag"
    BY <2>1, LoadedParts
  <2> QED
    BY <2>1, <2>2 DEF HasWanted
<1> QED
  BY <1>1, DataDirInvariant, PTL

\* Clients see one CA over all runs, and a half-written one is never used, unless processes
\* meet while one of them starts.
THEOREM CAIsOne == DdSpec => []OneCA
<1>1. (~raced => DdInv) => OneCA
  <2> SUFFICES ASSUME DdInv
               PROVE  /\ \A c, d \in signed : c = d
                      /\ OtherName \notin signed
                      /\ \A c \in trusted \ {OtherName} : signed \subseteq {c}
                      /\ \A a \in Procs : ppc[a] = "load" => combo.key = combo.cert /\ combo.cert > None
    BY DEF OneCA
  <2>1. \A c \in signed : c # OtherName
    BY DEF DdInv, CAKept, None, OtherName
  <2>2. \A a \in Procs : ppc[a] = "load" => combo.key = combo.cert /\ combo.cert > None
    BY DEF DdInv, CAKept, CaFollows
  <2> QED
    BY <2>1, <2>2 DEF DdInv, CAKept
<1> QED
  BY <1>1, DataDirInvariant, PTL
=============================================================================
