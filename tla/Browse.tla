------------------------------- MODULE Browse -------------------------------
(***************************************************************************)
(* The life of a process started with --browse: it points the system's     *)
(* proxy settings at itself and must put them back.  main sets them in     *)
(* browse.Start, defers Session.Stop, and starts a goroutine that restores *)
(* and exits on SIGTERM and SIGHUP.  fatal is os.Exit, which runs no       *)
(* deferred call.                                                          *)
(*                                                                         *)
(* The model starts after signal.NotifyContext has taken over SIGINT.      *)
(***************************************************************************)
EXTENDS Integers

CONSTANTS
  Platform,   \* "darwin" or "linux"
  MCP,        \* whether the MCP server is enabled
  Failures    \* whether networksetup may fail

ASSUME BrowseAssumption == /\ Platform \in {"darwin", "linux"}
                           /\ MCP \in BOOLEAN /\ Failures \in BOOLEAN

VARIABLES
  sys,        \* protocol -> the system's setting: [on, server]
  before,     \* the settings when the program started
  orig,       \* setSystemProxy's snapshot
  mpc,        \* main
  gpc,        \* the signal goroutine: none, waiting, restoring
  left,       \* restorer -> the protocol restoreProxy is about to restore, or "done"
  failed,     \* protocols whose restore failed
  tuiErr,     \* the TUI returned an error
  cancelled,  \* cancel() has run: SIGINT has its default action again
  ended       \* no, or how the process ended

brVars == <<sys, before, orig, mpc, gpc, left, failed, tuiErr, cancelled, ended>>

Protocols == {"http", "https"}
Settings == [on : BOOLEAN, server : {"none", "user", "httpmon"}]
Mine == [on |-> TRUE, server |-> "httpmon"]

\* The user has no proxy, one that is in use, or one that is switched off.
UserSettings == {[on |-> FALSE, server |-> "none"], [on |-> TRUE, server |-> "user"],
                 [on |-> FALSE, server |-> "user"]}

BrInit ==
  /\ sys \in [Protocols -> UserSettings]
  /\ before = sys /\ orig = sys
  /\ mpc = "start" /\ gpc = "none"
  /\ left = [r \in {"main", "signal"} |-> "done"]
  /\ failed = {} /\ tuiErr = FALSE /\ cancelled = FALSE
  /\ ended = "no"

Running == ended = "no"
Fatal == ended' = "fatal"
Goto(pc) == mpc' = pc /\ UNCHANGED ended

-----------------------------------------------------------------------------
(* main up to the TUI *)

\* certutil.Install, unless the CA is trusted already.
InstallCA ==
  /\ Running /\ mpc = "start"
  /\ \/ Goto("snapshot")
     \/ Fatal /\ UNCHANGED mpc
  /\ UNCHANGED <<sys, before, orig, gpc, left, failed, tuiErr, cancelled>>

\* The start of setSystemProxy: the active service and its two settings are read.  On
\* Linux setSystemProxy only fails.
Snapshot ==
  /\ Running /\ mpc = "snapshot"
  /\ \/ Platform = "darwin" /\ orig' = sys /\ Goto("set http")
     \/ (Failures \/ Platform = "linux") /\ Fatal /\ UNCHANGED <<orig, mpc>>
  /\ UNCHANGED <<sys, before, gpc, left, failed, tuiErr, cancelled>>

\* networksetup -setwebproxy, then -setsecurewebproxy; an error of either is returned
\* at once, and main's fatal follows.
SetProxy(p, next) ==
  /\ Running /\ mpc = (IF p = "http" THEN "set http" ELSE "set https")
  /\ \/ sys' = [sys EXCEPT ![p] = Mine] /\ Goto(next)
     \/ Failures /\ Fatal /\ UNCHANGED <<sys, mpc>>
  /\ UNCHANGED <<before, orig, gpc, left, failed, tuiErr, cancelled>>

\* openURL; when it fails the settings are restored before the error is returned.
OpenURL ==
  /\ Running /\ mpc = "open"
  /\ \/ Goto("arm") /\ UNCHANGED left
     \/ Goto("undo") /\ left' = [left EXCEPT !["main"] = "http"]
  /\ UNCHANGED <<sys, before, orig, gpc, failed, tuiErr, cancelled>>

UndoFatal ==
  /\ Running /\ mpc = "undo" /\ left["main"] = "done"
  /\ Fatal
  /\ UNCHANGED <<sys, before, orig, mpc, gpc, left, failed, tuiErr, cancelled>>

\* The deferred Stop, signal.Notify for SIGTERM and SIGHUP, and the goroutine.
Arm ==
  /\ Running /\ mpc = "arm"
  /\ gpc' = "waiting" /\ Goto("mcp")
  /\ UNCHANGED <<sys, before, orig, left, failed, tuiErr, cancelled>>

\* The token and the MCP server's listener.
StartMCP ==
  /\ Running /\ mpc = "mcp"
  /\ \/ Goto("tui")
     \/ MCP /\ Fatal /\ UNCHANGED mpc
  /\ UNCHANGED <<sys, before, orig, gpc, left, failed, tuiErr, cancelled>>

-----------------------------------------------------------------------------
(* The end *)

\* prog.Run returns, then cancel().
TUIReturns ==
  /\ Running /\ mpc = "tui"
  /\ Goto("stopping")
  /\ tuiErr' \in BOOLEAN
  /\ cancelled' = TRUE
  /\ UNCHANGED <<sys, before, orig, gpc, left, failed>>

\* The MCP server and the proxy have stopped (up to 5 and 3 seconds).
Stopped ==
  /\ Running /\ mpc = "stopping"
  /\ \/ tuiErr /\ Fatal /\ UNCHANGED <<mpc, left>>
     \/ ~tuiErr /\ Goto("deferred") /\ left' = [left EXCEPT !["main"] = "http"]
  /\ UNCHANGED <<sys, before, orig, gpc, failed, tuiErr, cancelled>>

AfterProtocol(p) == IF p = "http" THEN "https" ELSE "done"

\* restoreProxy for one protocol.
Restored(p) == IF orig[p].on THEN orig[p] ELSE [sys[p] EXCEPT !.on = FALSE]

\* restoreProxy returns at its first error.
RestoreOneStops(r) ==
  /\ Running /\ left[r] # "done"
  /\ LET p == left[r] IN
       \/ /\ sys' = [sys EXCEPT ![p] = Restored(p)]
          /\ left' = [left EXCEPT ![r] = AfterProtocol(p)]
          /\ UNCHANGED failed
       \/ /\ Failures /\ failed' = failed \cup {p}
          /\ left' = [left EXCEPT ![r] = "done"]
          /\ UNCHANGED sys
  /\ UNCHANGED <<before, orig, mpc, gpc, tuiErr, cancelled, ended>>

\* An error of one protocol is noted and the other one is restored all the same.
RestoreOne(r) ==
  /\ Running /\ left[r] # "done"
  /\ LET p == left[r] IN
       /\ left' = [left EXCEPT ![r] = AfterProtocol(p)]
       /\ \/ sys' = [sys EXCEPT ![p] = Restored(p)] /\ UNCHANGED failed
          \/ Failures /\ failed' = failed \cup {p} /\ UNCHANGED sys
  /\ UNCHANGED <<before, orig, mpc, gpc, tuiErr, cancelled, ended>>

MainReturns ==
  /\ Running /\ mpc = "deferred" /\ left["main"] = "done"
  /\ ended' = "returned"
  /\ UNCHANGED <<sys, before, orig, mpc, gpc, left, failed, tuiErr, cancelled>>

\* SIGTERM or SIGHUP: the goroutine, or the default action before it is there.
Terminate ==
  /\ Running
  /\ \/ /\ gpc = "none" /\ ended' = "terminated" /\ UNCHANGED <<gpc, left>>
     \/ /\ gpc = "waiting" /\ gpc' = "restoring"
        /\ left' = [left EXCEPT !["signal"] = "http"]
        /\ UNCHANGED ended
  /\ UNCHANGED <<sys, before, orig, mpc, failed, tuiErr, cancelled>>

\* The goroutine does not exit.
SignalExitStays ==
  /\ Running /\ gpc = "restoring" /\ left["signal"] = "done"
  /\ UNCHANGED brVars

SignalExit ==
  /\ Running /\ gpc = "restoring" /\ left["signal"] = "done"
  /\ ended' = "signal"
  /\ UNCHANGED <<sys, before, orig, mpc, gpc, left, failed, tuiErr, cancelled>>

\* SIGINT ends the process once cancel() has given it back its default action.  (Before
\* that it cancels the context, which is no matter here.)
Interrupt ==
  /\ Running /\ cancelled
  /\ ended' = "interrupted"
  /\ UNCHANGED <<sys, before, orig, mpc, gpc, left, failed, tuiErr, cancelled>>

-----------------------------------------------------------------------------
(* Properties *)

\* Settings, snapshot and program counters stay in range, and the snapshot is never
\* httpmon's own address.
BrTypeOK ==
  /\ sys \in [Protocols -> Settings]
  /\ before \in [Protocols -> UserSettings] /\ orig = before
  /\ mpc \in {"start", "snapshot", "set http", "set https", "open", "undo", "arm",
              "mcp", "tui", "stopping", "deferred"}
  /\ gpc \in {"none", "waiting", "restoring"}
  /\ left \in [{"main", "signal"} -> Protocols \cup {"done"}]
  /\ failed \subseteq Protocols
  /\ tuiErr \in BOOLEAN /\ cancelled \in BOOLEAN
  /\ ended \in {"no", "returned", "fatal", "signal", "terminated", "interrupted"}

\* What a setting does: the server in use, or none.
Effect(s) == IF s.on THEN s.server ELSE "direct"

SameEffect == \A p \in Protocols \ failed : Effect(sys[p]) = Effect(before[p])

\* When main returns, or the signal goroutine exits, alone or while main is restoring as
\* well, or the browser could not be opened, the user's proxy is in use again for every
\* protocol that could be restored: a failure for one does not keep the other from being
\* restored.
RestoredOnExit ==
  ended \in {"returned", "signal"} \/ (ended = "fatal" /\ mpc = "undo") => SameEffect

\* A process that has been told to end, by the user or by a signal, ends.
EndingEnds == (mpc = "stopping" \/ gpc = "restoring") ~> ~Running

-----------------------------------------------------------------------------
(* What the documentation says and the code does not do: TLC refutes each  *)
(* of these (README, "Divergences").                                       *)

\* main.go: "Ensure system proxy is ALWAYS restored, even on crash/signal/fatal."
AlwaysRestored == ended = "fatal" => SameEffect

\* main.go: "Catch signals that would bypass defer (SIGTERM, second SIGINT)."
InterruptRestores == ended = "interrupted" => SameEffect

\* sysproxy_darwin.go: "It returns a cleanup function that restores the original
\* settings."
ExactlyRestored == ended = "returned" => sys = before

\* CHANGELOG.md: "Linux support for the --browse flag ... with xdg-open for Linux browser
\* launching and a documented no-op for Linux system proxy configuration".
LinuxBrowses == Platform = "linux" /\ ended = "fatal" => mpc # "snapshot"
=============================================================================
