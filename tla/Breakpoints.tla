----------------------------- MODULE Breakpoints -----------------------------
(***************************************************************************)
(* Breakpoints: a script's ctx.breakpoint() blocks the flow's goroutine in *)
(* Controller.Pause until somebody answers.  Answers come from the TUI's   *)
(* editor (Resume, one flow), from the TUI's queue ("A", ResumeAll) and    *)
(* from Proxy.Stop (ResumeAll), which both the Serve goroutine (when the   *)
(* context is cancelled) and main (after the TUI has exited) call.         *)
(*                                                                         *)
(* The n-th pause of flow f is <<f, n>>; its answer is 0 for "skipped", or *)
(* the number of the pause the user's edits were made for.  The controller *)
(* removes a pause from the pending map under its lock and sends the       *)
(* answer after the unlock, so a removed pause is "held" by its resumer    *)
(* until the send.                                                         *)
(***************************************************************************)
EXTENDS Integers, FiniteSets

CONSTANTS
  Flows,       \* flow IDs: numbers, since the queue is sorted by ID
  MaxPauses,   \* breakpoint() calls one flow's scripts make at most
  SubCap       \* capacity of the subscription channel (16 in the code)

ASSUME BreakpointAssumption ==
  /\ Flows \subseteq Nat /\ IsFiniteSet(Flows)
  /\ MaxPauses \in Nat \ {0}
  /\ SubCap \in Nat \ {0}

VARIABLES
  pending,    \* flow -> number of its pause in the controller's map, 0 if absent
  respCh,     \* flow -> pause -> the answer in its channel, or Empty
  sub,        \* hits in the TUI's subscription channel, Unsubscribed before Subscribe
  fpc,        \* flow -> idle, running, notify, waiting, done
  nth,        \* flow -> number of its latest pause
  told,       \* flows whose current Pause copied a subscriber list with the TUI in it
  held,       \* resumer -> answers removed from the map and not sent yet
  view,       \* what the TUI shows: list, queue, editor
  queue,      \* the TUI's copy of the pending hits, a set of pauses
  cursor,     \* the TUI's position in the sorted copy, from 0
  editing,    \* the pause in the TUI's editor, or NoPause
  tpc,        \* the TUI's goroutine: ready, resuming, exited
  spc,        \* the Serve goroutine: serving, resuming, shutdown, returned
  mpc,        \* main: tui, stopping, resuming, shutdown, exited
  cancelled   \* the context is cancelled

bpVars == <<pending, respCh, sub, fpc, nth, told, held, view, queue, cursor, editing,
            tpc, spc, mpc, cancelled>>
uiVars == <<view, queue, cursor, editing>>
lifeVars == <<spc, mpc, cancelled>>

Pauses == 1 .. MaxPauses
Empty == -1
Unsubscribed == -1
NoPause == <<0, 0>>
Resumers == {"tui", "serve", "main"}

BPInit ==
  /\ pending = [f \in Flows |-> 0]
  /\ respCh = [f \in Flows |-> [n \in Pauses |-> Empty]]
  /\ sub = Unsubscribed
  /\ fpc = [f \in Flows |-> "idle"]
  /\ nth = [f \in Flows |-> 0]
  /\ told = {}
  /\ held = [r \in Resumers |-> {}]
  /\ view = "list" /\ queue = {} /\ cursor = 0 /\ editing = NoPause
  /\ tpc = "ready" /\ spc = "serving" /\ mpc = "tui" /\ cancelled = FALSE

\* The process lives until main returns.
Alive == mpc # "exited"

\* Proxy.Stop has closed the listener.
Closing == spc \in {"shutdown", "returned"} \/ mpc = "shutdown"

-----------------------------------------------------------------------------
(* The controller *)

\* The pause is registered only after the subscribers were told.
PauseUnregistered(f) ==
  /\ Alive /\ fpc[f] = "running" /\ nth[f] < MaxPauses
  /\ fpc' = [fpc EXCEPT ![f] = "notify"]
  /\ nth' = [nth EXCEPT ![f] = @ + 1]
  /\ told' = IF sub # Unsubscribed THEN told \cup {f} ELSE told \ {f}
  /\ UNCHANGED <<pending, respCh, sub, held, uiVars, tpc, lifeVars>>

\* Pause up to its unlock: the pause is registered, the subscribers are copied.
Pause(f) ==
  /\ Alive /\ fpc[f] = "running" /\ nth[f] < MaxPauses
  /\ fpc' = [fpc EXCEPT ![f] = "notify"]
  /\ nth' = [nth EXCEPT ![f] = @ + 1]
  /\ pending' = [pending EXCEPT ![f] = nth[f] + 1]
  /\ told' = IF sub # Unsubscribed THEN told \cup {f} ELSE told \ {f}
  /\ UNCHANGED <<respCh, sub, held, uiVars, tpc, lifeVars>>

\* A blocking send to the subscriber.
NotifyBlocking(f) ==
  /\ Alive /\ fpc[f] = "notify"
  /\ f \in told => sub < SubCap
  /\ fpc' = [fpc EXCEPT ![f] = "waiting"]
  /\ sub' = IF f \in told THEN sub + 1 ELSE sub
  /\ UNCHANGED <<pending, respCh, nth, told, held, uiVars, tpc, lifeVars>>

\* The non-blocking send to the subscriber: a full channel drops the hit.
Notify(f) ==
  /\ Alive /\ fpc[f] = "notify"
  /\ fpc' = [fpc EXCEPT ![f] = "waiting"]
  /\ sub' = IF f \in told /\ sub < SubCap THEN sub + 1 ELSE sub
  /\ UNCHANGED <<pending, respCh, nth, told, held, uiVars, tpc, lifeVars>>

\* The receive that ends Pause.
Receive(f) ==
  /\ Alive /\ fpc[f] = "waiting" /\ respCh[f][nth[f]] # Empty
  /\ fpc' = [fpc EXCEPT ![f] = "running"]
  /\ UNCHANGED <<pending, respCh, sub, nth, told, held, uiVars, tpc, lifeVars>>

\* Resume that leaves the answered pause in the map.
TakeOneKeeps(r, f, answer) ==
  /\ pending' = pending
  /\ held' = [held EXCEPT ![r] = IF pending[f] = 0 THEN {}
                                 ELSE {<<f, pending[f], answer>>}]

\* Resume under the lock: the flow's pause, if there is one, leaves the map.
TakeOne(r, f, answer) ==
  /\ pending' = [pending EXCEPT ![f] = 0]
  /\ held' = [held EXCEPT ![r] = IF pending[f] = 0 THEN {}
                                 ELSE {<<f, pending[f], answer>>}]

\* ResumeAll under the lock: every pause leaves the map, to be skipped.
TakeAll(r) ==
  /\ pending' = [f \in Flows |-> 0]
  /\ held' = [held EXCEPT ![r] = {<<f, pending[f], 0>> : f \in {g \in Flows : pending[g] # 0}}]

\* A channel of capacity one takes the answer if it is empty.
Send(r) ==
  /\ Alive
  /\ \E a \in held[r] :
       /\ respCh[a[1]][a[2]] = Empty
       /\ respCh' = [respCh EXCEPT ![a[1]][a[2]] = a[3]]
       /\ held' = [held EXCEPT ![r] = @ \ {a}]
  /\ UNCHANGED <<pending, sub, fpc, nth, told, uiVars, tpc, lifeVars>>

-----------------------------------------------------------------------------
(* The flows *)

\* A connection is accepted while the listener is open.
Start(f) ==
  /\ Alive /\ ~Closing /\ fpc[f] = "idle"
  /\ fpc' = [fpc EXCEPT ![f] = "running"]
  /\ UNCHANGED <<pending, respCh, sub, nth, told, held, uiVars, tpc, lifeVars>>

\* The scripts are done and the flow goes on.
Finish(f) ==
  /\ Alive /\ fpc[f] = "running"
  /\ fpc' = [fpc EXCEPT ![f] = "done"]
  /\ UNCHANGED <<pending, respCh, sub, nth, told, held, uiVars, tpc, lifeVars>>

-----------------------------------------------------------------------------
(* The TUI.  One goroutine handles ticks and keys one after the other. *)

Pending == {<<f, pending[f]>> : f \in {g \in Flows : pending[g] # 0}}

\* The i-th hit of a set of hits sorted by flow ID, i from 0.
HitAt(hits, i) == CHOOSE h \in hits : Cardinality({g \in hits : g[1] < h[1]}) = i

\* The hit the cursor stands on in what the TUI shows.
Highlighted == IF cursor < Cardinality(queue) THEN HitAt(queue, cursor) ELSE NoPause

UIReady == Alive /\ tpc = "ready"
UIOnly == UNCHANGED <<pending, respCh, fpc, nth, told, held, lifeVars>>

\* TickMsg: drainBreakpointSub subscribes at the first tick, then empties the channel.
Tick ==
  /\ UIReady /\ sub # 0
  /\ sub' = 0
  /\ UIOnly /\ UNCHANGED <<uiVars, tpc>>

\* "B" in the list: initBreakpointQueue.
OpenQueue ==
  /\ UIReady /\ view = "list"
  /\ view' = "queue" /\ cursor' = 0 /\ editing' = NoPause /\ queue' = Pending
  /\ UIOnly /\ UNCHANGED <<sub, tpc>>

\* Every key in the queue refreshes the copy first; an empty queue closes.
QueueKey == UIReady /\ view = "queue" /\ queue' = Pending

\* The clamp that ends updateBreakpointQueue.
Clamp(c, n) == IF c >= n THEN (IF n = 0 THEN 0 ELSE n - 1) ELSE c

CloseQueue ==
  /\ QueueKey
  /\ view' = "list"
  /\ UIOnly /\ UNCHANGED <<sub, cursor, editing, tpc>>

\* Down, up, or a key that means nothing here.
MoveCursor ==
  /\ QueueKey /\ Pending # {}
  /\ LET n == Cardinality(Pending) IN
       \/ cursor' = Clamp(IF cursor < n - 1 THEN cursor + 1 ELSE cursor, n)
       \/ cursor' = Clamp(IF cursor > 0 THEN cursor - 1 ELSE cursor, n)
       \/ cursor' = Clamp(cursor, n)
  /\ UIOnly /\ UNCHANGED <<sub, view, editing, tpc>>

\* Enter: initBreakpointEditor on the hit under the cursor of the refreshed copy.
OpenEditor ==
  /\ QueueKey /\ Pending # {}
  /\ LET n == Cardinality(Pending) IN
       /\ editing' = IF cursor < n THEN HitAt(Pending, cursor) ELSE editing
       /\ view' = IF cursor < n THEN "editor" ELSE view
       /\ cursor' = Clamp(cursor, n)
  /\ UIOnly /\ UNCHANGED <<sub, tpc>>

\* "A": ResumeAll under the lock; the sends follow.
ResumeAllKey ==
  /\ QueueKey /\ Pending # {}
  /\ TakeAll("tui")
  /\ tpc' = "resuming"
  /\ cursor' = Clamp(cursor, Cardinality(Pending))
  /\ UNCHANGED <<respCh, sub, fpc, nth, told, view, editing, lifeVars>>

\* Esc and Ctrl+S in the editor: Resume, keyed by the flow ID alone.
EditorKey ==
  /\ UIReady /\ view = "editor"
  /\ \/ TakeOne("tui", editing[1], 0)
     \/ TakeOne("tui", editing[1], editing[2])
  /\ tpc' = "resuming"
  /\ UNCHANGED <<respCh, sub, fpc, nth, told, uiVars, lifeVars>>

\* The editor stays open after it has resumed its flow.
AfterResumeKeepsEditor ==
  /\ Alive /\ tpc = "resuming" /\ held["tui"] = {}
  /\ tpc' = "ready"
  /\ queue' = Pending
  /\ UNCHANGED <<view, editing, cursor>> /\ UIOnly /\ UNCHANGED sub

\* After the sends: the editor closes, the copy is refreshed, and an empty queue
\* closes too.
AfterResume ==
  /\ Alive /\ tpc = "resuming" /\ held["tui"] = {}
  /\ tpc' = "ready"
  /\ queue' = Pending
  /\ editing' = NoPause
  /\ view' = IF Pending = {} THEN "list" ELSE "queue"
  /\ UNCHANGED cursor /\ UIOnly /\ UNCHANGED sub

\* The TUI quits, from the list: prog.Run returns and main cancels the context.
Quit ==
  /\ UIReady /\ view = "list"
  /\ tpc' = "exited" /\ mpc' = "stopping" /\ cancelled' = TRUE
  /\ UNCHANGED <<pending, respCh, sub, fpc, nth, told, held, uiVars, spc>>

-----------------------------------------------------------------------------
(* Shutdown *)

\* SIGINT cancels the context; the TUI is still running.
Signal ==
  /\ Alive /\ ~cancelled
  /\ cancelled' = TRUE
  /\ UNCHANGED <<pending, respCh, sub, fpc, nth, told, held, uiVars, tpc, spc, mpc>>

\* Serve sees the context and calls Stop, which calls ResumeAll first.
ServeStop ==
  /\ Alive /\ cancelled /\ spc = "serving"
  /\ spc' = "resuming"
  /\ TakeAll("serve")
  /\ UNCHANGED <<respCh, sub, fpc, nth, told, uiVars, tpc, mpc, cancelled>>

\* main calls Stop as well.
MainStop ==
  /\ mpc = "stopping"
  /\ mpc' = "resuming"
  /\ TakeAll("main")
  /\ UNCHANGED <<respCh, sub, fpc, nth, told, uiVars, tpc, spc, cancelled>>

\* The accept loop fails: Serve returns without Stop, the TUI stays.
ServeFails ==
  /\ Alive /\ spc = "serving"
  /\ spc' = "returned"
  /\ UNCHANGED <<pending, respCh, sub, fpc, nth, told, held, uiVars, tpc, mpc, cancelled>>

\* Stop goes on to mp.Shutdown once its sends are done.
ServeShutdown ==
  /\ Alive /\ spc = "resuming" /\ held["serve"] = {}
  /\ spc' = "shutdown"
  /\ UNCHANGED <<pending, respCh, sub, fpc, nth, told, held, uiVars, tpc, mpc, cancelled>>

MainShutdown ==
  /\ Alive /\ mpc = "resuming" /\ held["main"] = {}
  /\ mpc' = "shutdown"
  /\ UNCHANGED <<pending, respCh, sub, fpc, nth, told, held, uiVars, tpc, spc, cancelled>>

\* Shutdown returns when no flow is active, or after its three seconds.
ServeReturn ==
  /\ Alive /\ spc = "shutdown"
  /\ spc' = "returned"
  /\ UNCHANGED <<pending, respCh, sub, fpc, nth, told, held, uiVars, tpc, mpc, cancelled>>

\* main waits for Serve and returns: the process ends.
MainExit ==
  /\ mpc = "shutdown" /\ spc = "returned"
  /\ mpc' = "exited"
  /\ UNCHANGED <<pending, respCh, sub, fpc, nth, told, held, uiVars, tpc, spc, cancelled>>

-----------------------------------------------------------------------------

FlowStep(f) == Start(f) \/ Pause(f) \/ Notify(f) \/ Receive(f) \/ Finish(f)
UIStep == \/ Tick \/ OpenQueue \/ CloseQueue \/ MoveCursor \/ OpenEditor
          \/ ResumeAllKey \/ EditorKey \/ AfterResume \/ Quit
StopStep == \/ Signal \/ ServeStop \/ ServeFails \/ MainStop
            \/ ServeShutdown \/ MainShutdown \/ ServeReturn \/ MainExit

BPNext == \/ \E f \in Flows : FlowStep(f)
          \/ \E r \in Resumers : Send(r)
          \/ UIStep \/ StopStep

BPSpec == BPInit /\ [][BPNext]_bpVars

\* Runnable goroutines run; nothing is assumed of the user, and the process may
\* run forever.
BPFairness == /\ \A f \in Flows : WF_bpVars(Notify(f)) /\ WF_bpVars(Receive(f))
              /\ \A r \in Resumers : WF_bpVars(Send(r))

BPLiveSpec == BPSpec /\ BPFairness

-----------------------------------------------------------------------------
(* Properties *)

\* Everything stays in range.
BPTypeOK ==
  /\ pending \in [Flows -> 0 .. MaxPauses]
  /\ respCh \in [Flows -> [Pauses -> Empty .. MaxPauses]]
  /\ sub \in Unsubscribed .. SubCap
  /\ fpc \in [Flows -> {"idle", "running", "notify", "waiting", "done"}]
  /\ nth \in [Flows -> 0 .. MaxPauses]
  /\ told \subseteq Flows
  /\ held \in [Resumers -> SUBSET (Flows \X Pauses \X (0 .. MaxPauses))]
  /\ view \in {"list", "queue", "editor"}
  /\ queue \subseteq Flows \X Pauses
  /\ cursor \in Nat
  /\ editing \in (Flows \X Pauses) \cup {NoPause}
  /\ view = "editor" => editing \in Flows \X Pauses
  /\ tpc \in {"ready", "resuming", "exited"}
  /\ spc \in {"serving", "resuming", "shutdown", "returned"}
  /\ mpc \in {"tui", "stopping", "resuming", "shutdown", "exited"}
  /\ cancelled \in BOOLEAN

\* Where the answer to a pause can still come from.
Held(f, n) == {r \in Resumers : \E e \in 0 .. MaxPauses : <<f, n, e>> \in held[r]}
Paused(f) == fpc[f] \in {"notify", "waiting"}

\* No blocked goroutine is forgotten: its pause is in the map, where the TUI and
\* Stop find it, or a resumer has taken it and will send, or its answer is there.
NoLostWaiter ==
  \A f \in Flows : Paused(f) =>
     \/ pending[f] = nth[f]
     \/ Held(f, nth[f]) # {}
     \/ respCh[f][nth[f]] # Empty

\* A pause is answered at most once, by one resumer, so that no resumer ever
\* blocks on a full channel with answers for others still to send.
OneAnswer ==
  \A f \in Flows, n \in Pauses :
     /\ \A r, s \in Held(f, n) : r = s
     /\ Held(f, n) # {} => respCh[f][n] = Empty /\ pending[f] # n
     /\ pending[f] = n => respCh[f][n] = Empty

\* What the queue offers is really paused: an entry of the map is the current,
\* unanswered pause of a blocked goroutine.
PendingIsPaused ==
  \A f \in Flows : pending[f] # 0 => Paused(f) /\ pending[f] = nth[f]

\* A blocked goroutine has exactly one way on, and nobody else has one: its pause is in
\* the map for anybody to take, or one resumer has it and will send, or its answer is in
\* its channel; what the map offers is the current pause of a blocked goroutine.  So no
\* goroutine is blocked for good by a lost answer, and no resumer by one too many.
OneWayOn == NoLostWaiter /\ OneAnswer /\ PendingIsPaused

\* Edits go to the pause the user saw in the editor, never to a later pause of
\* the same flow, although Resume knows only the flow: nobody but the TUI answers
\* pauses until the context is cancelled.
EditsReachEditedPause ==
  ~cancelled => \A f \in Flows, n \in Pauses : respCh[f][n] > 0 => respCh[f][n] = n

Answered(f) == Paused(f) /\ (Held(f, nth[f]) # {} \/ respCh[f][nth[f]] # Empty)

\* A pause that somebody answered ends: the sends are not held up by a slow
\* subscriber or by each other.
AnsweredPauseEnds == \A f \in Flows : Answered(f) ~> ~Alive \/ ~Paused(f)

\* The answers on the way to f's pause, or that have reached it.
Given(f) ==
  {e \in 0 .. MaxPauses : respCh[f][nth[f]] = e \/ \E r \in Resumers : <<f, nth[f], e>> \in held[r]}

Lost == -2

\* What a caller of the controller sees of the flows.
Phase == [f \in Flows |-> IF ~Paused(f) THEN "going"
                          ELSE IF pending[f] = nth[f] THEN "open" ELSE "answered"]

AnswerOf == [f \in Flows |->
               IF ~Paused(f) \/ pending[f] = nth[f] THEN -1
               ELSE IF \E e \in Given(f) : Given(f) = {e} THEN CHOOSE e \in Given(f) : TRUE
               ELSE Lost]

P == INSTANCE Pauses WITH
       Answers <- 0 .. MaxPauses, Skipped <- 0, phase <- Phase, answerOf <- AnswerOf

\* The map, the channels, the resumers' hands and the two steps of every lock, send and
\* receive are together the plain pauses of Pauses: an answer is fixed when the lock is
\* released, ResumeAll reaches every pause that is open at one moment, and no interleaving
\* of resumers changes, loses or doubles one.
ImplementsPauses == P!PsSpec

-----------------------------------------------------------------------------
(* What the documentation says and the code does not do: TLC refutes each  *)
(* of these (README, "Divergences").                                       *)

\* The design: "TUI exit: ResumeAll() -- all blocked goroutines resume
\* unmodified", "Timeout: None -- auto-resume all on shutdown".  When the process
\* ends, no goroutine is left blocked in Pause.
ShutdownResumesAll == mpc = "exited" => \A f \in Flows : ~Paused(f)

\* The design: "Selecting a flow opens editor with correct headers/body": the
\* editor opens on the flow that was highlighted when Enter was pressed.
EnterOpensHighlighted ==
  [][view = "queue" /\ view' = "editor" => editing' = Highlighted]_bpVars
=============================================================================
