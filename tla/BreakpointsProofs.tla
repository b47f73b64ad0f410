--------------------------- MODULE BreakpointsProofs ---------------------------
(***************************************************************************)
(* For any finite set of flows and any number of pauses of each: a blocked *)
(* goroutine has exactly one way on, edits reach the pause they were made  *)
(* for, and the controller implements the plain pauses of module Pauses.   *)
(*                                                                         *)
(* The argument: an inductive invariant with one part per flow (where the  *)
(* answer to its current pause is), one for the resumers (each holds       *)
(* answers only between its lock and its last send), and one for the time  *)
(* before the context is cancelled, when only the TUI answers.             *)
(***************************************************************************)
EXTENDS Breakpoints, FiniteSetTheorems, TLAPS

\* Where f's current pause is: in the map with an empty channel, in exactly one
\* resumer's hands, or answered; no later pause has an answer yet.
PauseFollows(f) ==
  /\ Paused(f) => nth[f] \in Pauses
  /\ pending[f] # 0 => Paused(f) /\ pending[f] = nth[f] /\ respCh[f][nth[f]] = Empty
  /\ \A r \in Resumers : \A a \in held[r] : a[1] = f =>
       /\ Paused(f) /\ a[2] = nth[f] /\ pending[f] = 0 /\ respCh[f][nth[f]] = Empty
       /\ \A s \in Resumers : \A b \in held[s] : b[1] = f => s = r /\ b = a
  /\ \A n \in Pauses : n > nth[f] => respCh[f][n] = Empty
  /\ Paused(f) => \/ pending[f] # 0 \/ respCh[f][nth[f]] # Empty
                  \/ \E r \in Resumers : \E a \in held[r] : a[1] = f

\* A resumer has answers in its hands only while it is sending them, and main stops the
\* proxy only after the TUI has exited.
HoldersSend ==
  /\ tpc # "exited" => mpc = "tui"
  /\ held["tui"] # {} => tpc = "resuming"
  /\ held["serve"] # {} => spc = "resuming"
  /\ held["main"] # {} => mpc = "resuming"

\* Until the context is cancelled only the TUI answers: the pause in its editor stays
\* in the map, and the edits it sends are for the pause they were made for.
OnlyTheTUI ==
  ~cancelled =>
    /\ mpc = "tui" /\ spc \in {"serving", "returned"}
    /\ view = "editor" /\ tpc = "ready" => pending[editing[1]] = editing[2]
    /\ \A a \in held["tui"] : a[3] \in {0, a[2]}
    /\ \A f \in Flows, n \in Pauses : respCh[f][n] \in {Empty, 0, n}

BPInv == BPTypeOK /\ HoldersSend /\ OnlyTheTUI /\ \A f \in Flows : PauseFollows(f)

-----------------------------------------------------------------------------
(* The queue. *)

\* The pending hits: finitely many, at most one of each flow.
LEMMA PendingShape ==
  ASSUME BPTypeOK
  PROVE  /\ Pending \subseteq Flows \X Pauses
         /\ IsFiniteSet(Pending)
         /\ \A g, h \in Pending : g[1] = h[1] => g = h
         /\ \A h \in Pending : h[1] \in Flows /\ pending[h[1]] = h[2] /\ h[2] # 0
<1>1. \A f \in Flows : pending[f] # 0 => pending[f] \in Pauses
  BY BreakpointAssumption DEF BPTypeOK, Pauses
<1>2. Pending \subseteq Flows \X Pauses
  BY <1>1 DEF Pending
<1>3. IsFiniteSet(Flows \X Pauses)
  <2>1. IsFiniteSet(Pauses)
    BY BreakpointAssumption, FS_Interval DEF Pauses
  <2> QED
    BY <2>1, BreakpointAssumption, FS_Product
<1>4. IsFiniteSet(Pending)
  BY <1>2, <1>3, FS_Subset
<1> QED
  BY <1>2, <1>4 DEF Pending

\* Sorted by flow ID, every position of the queue has a hit: HitAt is never undefined
\* where the TUI uses it.
LEMMA HitAtExists ==
  ASSUME NEW hits, hits \subseteq Flows \X Pauses, IsFiniteSet(hits),
         \A g, h \in hits : g[1] = h[1] => g = h,
         NEW i \in Nat, i < Cardinality(hits)
  PROVE  HitAt(hits, i) \in hits
<1> DEFINE below(h) == {g \in hits : g[1] < h[1]}
           rank == [h \in hits |-> Cardinality(below(h))]
           ranks == {rank[h] : h \in hits}
           n == Cardinality(hits)
<1>1. n \in Nat
  BY FS_CardinalityType
<1>2. \A h \in hits : h[1] \in Nat
  BY BreakpointAssumption
<1>3. ASSUME NEW h \in hits
      PROVE  IsFiniteSet(below(h)) /\ Cardinality(below(h)) \in 0 .. n - 1
  <2>1. below(h) \in SUBSET hits /\ h \notin below(h)
    BY <1>2
  <2>2. IsFiniteSet(below(h)) /\ Cardinality(below(h)) <= n /\ Cardinality(below(h)) # n
    BY <2>1, FS_Subset
  <2>3. Cardinality(below(h)) \in Nat
    BY <2>2, FS_CardinalityType
  <2> QED
    BY <1>1, <2>2, <2>3
<1>4. ASSUME NEW g \in hits, NEW h \in hits, g[1] < h[1]
      PROVE  Cardinality(below(g)) # Cardinality(below(h))
  <2>1. below(g) \in SUBSET below(h) /\ g \in below(h) /\ g \notin below(g)
    BY <1>2, <1>4
  <2> QED
    BY <1>3, <2>1, FS_Subset
<1>5. \A g, h \in hits : rank[g] = rank[h] => g = h
  <2> SUFFICES ASSUME NEW g \in hits, NEW h \in hits, g # h PROVE rank[g] # rank[h]
    OBVIOUS
  <2>1. g[1] < h[1] \/ h[1] < g[1]
    BY <1>2
  <2> QED
    BY <1>4, <2>1
<1>6. rank \in Injection(hits, ranks) /\ rank \in Surjection(hits, ranks)
  <2>1. rank \in [hits -> ranks] /\ IsInjective(rank)
    BY <1>5 DEF IsInjective
  <2> QED
    BY <2>1 DEF Injection, Surjection
<1>7. Cardinality(ranks) = n
  BY <1>6, FS_Surjection
<1>8. ranks \in SUBSET (0 .. n - 1)
  BY <1>3
<1>9. IsFiniteSet(0 .. n - 1) /\ Cardinality(0 .. n - 1) = n
  <2>1. 0 \in Int /\ n - 1 \in Int
    BY <1>1
  <2>2. /\ IsFiniteSet(0 .. n - 1)
        /\ Cardinality(0 .. n - 1) = IF 0 > n - 1 THEN 0 ELSE (n - 1) - 0 + 1
    BY <2>1, FS_Interval
  <2> QED
    BY <1>1, <2>2
<1>10. ranks = 0 .. n - 1
  BY <1>7, <1>8, <1>9, FS_Subset
<1>11. PICK h \in hits : rank[h] = i
  <2>1. i \in 0 .. n - 1
    BY <1>1
  <2> QED
    BY <1>10, <2>1
<1>12. \E k \in hits : Cardinality({g \in hits : g[1] < k[1]}) = i
  BY <1>11
<1> QED
  BY <1>12 DEF HitAt
-----------------------------------------------------------------------------
(* Types. *)

\* The flows' own steps keep the types.
LEMMA FlowTypes ==
  ASSUME BPTypeOK, NEW f \in Flows, FlowStep(f)
  PROVE  BPTypeOK'
<1> USE BreakpointAssumption
<1>1. CASE Start(f) \/ Receive(f) \/ Finish(f)
  <2>1. CASE Start(f)
    BY <2>1 DEF Start, BPTypeOK, uiVars, lifeVars
  <2>2. CASE Receive(f)
    BY <2>2 DEF Receive, BPTypeOK, uiVars, lifeVars
  <2>3. CASE Finish(f)
    BY <2>3 DEF Finish, BPTypeOK, uiVars, lifeVars
  <2> QED
    BY <1>1, <2>1, <2>2, <2>3
<1>2. CASE Pause(f)
  BY <1>2 DEF Pause, BPTypeOK, uiVars, lifeVars
<1>3. CASE Notify(f)
  BY <1>3 DEF Notify, BPTypeOK, uiVars, lifeVars, Unsubscribed
<1> QED
  BY <1>1, <1>2, <1>3 DEF FlowStep

\* What the lock of Resume and of ResumeAll does, in types.
LEMMA TakeTypes ==
  ASSUME BPTypeOK, NEW r \in Resumers,
         \/ TakeAll(r)
         \/ \E f \in Flows, answer \in 0 .. MaxPauses : TakeOne(r, f, answer)
  PROVE  /\ pending' \in [Flows -> 0 .. MaxPauses]
         /\ held' \in [Resumers -> SUBSET (Flows \X Pauses \X (0 .. MaxPauses))]
<1> USE BreakpointAssumption
<1>1. \A f \in Flows : pending[f] # 0 => pending[f] \in Pauses
  BY DEF BPTypeOK, Pauses
<1>2. CASE TakeAll(r)
  BY <1>1, <1>2 DEF TakeAll, BPTypeOK
<1>3. ASSUME NEW f \in Flows, NEW answer \in 0 .. MaxPauses, TakeOne(r, f, answer)
      PROVE  /\ pending' \in [Flows -> 0 .. MaxPauses]
             /\ held' \in [Resumers -> SUBSET (Flows \X Pauses \X (0 .. MaxPauses))]
  BY <1>1, <1>3 DEF TakeOne, BPTypeOK
<1> QED
  BY <1>2, <1>3

\* An answer is sent into the channel of its pause.
LEMMA SendTypes ==
  ASSUME BPTypeOK, NEW r \in Resumers, Send(r)
  PROVE  BPTypeOK'
<1>1. PICK a \in held[r] : /\ respCh' = [respCh EXCEPT ![a[1]][a[2]] = a[3]]
                           /\ held' = [held EXCEPT ![r] = @ \ {a}]
  BY DEF Send
<1>2. a[1] \in Flows /\ a[2] \in Pauses /\ a[3] \in 0 .. MaxPauses
  BY DEF BPTypeOK
<1>3. respCh' \in [Flows -> [Pauses -> Empty .. MaxPauses]]
  <2>1. a[3] \in Empty .. MaxPauses
    BY <1>2, BreakpointAssumption DEF Empty
  <2> QED
    BY <1>1, <1>2, <2>1 DEF BPTypeOK
<1>4. held' \in [Resumers -> SUBSET (Flows \X Pauses \X (0 .. MaxPauses))]
  BY <1>1 DEF BPTypeOK
<1> QED
  BY <1>3, <1>4 DEF Send, BPTypeOK, uiVars, lifeVars

\* The clamped cursor is a position.
LEMMA ClampType ==
  ASSUME NEW c \in Nat, NEW n \in Nat
  PROVE  Clamp(c, n) \in Nat
  BY DEF Clamp

\* The TUI's keys and ticks keep the types; the editor opens on a hit.
LEMMA UITypes == ASSUME BPTypeOK, UIStep PROVE BPTypeOK'
<1> USE BreakpointAssumption
<1>1. Pending \subseteq Flows \X Pauses /\ Cardinality(Pending) \in Nat
  BY PendingShape, FS_CardinalityType
<1>2. CASE Tick
  BY <1>2 DEF Tick, UIOnly, BPTypeOK, uiVars, lifeVars, Unsubscribed
<1>3. CASE OpenQueue \/ CloseQueue
  <2>1. CASE OpenQueue
    BY <1>1, <2>1 DEF OpenQueue, UIOnly, BPTypeOK, lifeVars
  <2>2. CASE CloseQueue
    BY <1>1, <2>2 DEF CloseQueue, QueueKey, UIOnly, BPTypeOK, lifeVars
  <2> QED
    BY <1>3, <2>1, <2>2
<1>4. CASE MoveCursor
  <2>1. cursor' \in Nat
    <3> DEFINE n == Cardinality(Pending)
    <3>1. PICK c \in Nat : cursor' = Clamp(c, n)
      <4>1. /\ (IF cursor < n - 1 THEN cursor + 1 ELSE cursor) \in Nat
            /\ (IF cursor > 0 THEN cursor - 1 ELSE cursor) \in Nat
            /\ cursor \in Nat
        BY DEF BPTypeOK
      <4> QED
        BY <1>4, <4>1 DEF MoveCursor
    <3> QED
      BY <1>1, <3>1, ClampType
  <2> QED
    BY <1>1, <1>4, <2>1 DEF MoveCursor, QueueKey, UIOnly, BPTypeOK, lifeVars
<1>5. CASE OpenEditor
  <2>1. cursor' \in Nat
    BY <1>1, <1>5, ClampType DEF OpenEditor, BPTypeOK
  <2>2. cursor < Cardinality(Pending) => HitAt(Pending, cursor) \in Flows \X Pauses
    BY PendingShape, HitAtExists DEF BPTypeOK
  <2>3. /\ editing' \in (Flows \X Pauses) \cup {NoPause}
        /\ view' \in {"list", "queue", "editor"}
        /\ view' = "editor" => editing' \in Flows \X Pauses
    BY <1>5, <2>2 DEF OpenEditor, QueueKey, BPTypeOK
  <2> QED
    BY <1>1, <1>5, <2>1, <2>3 DEF OpenEditor, QueueKey, UIOnly, BPTypeOK, lifeVars
<1>6. CASE ResumeAllKey
  <2>1. cursor' \in Nat
    BY <1>1, <1>6, ClampType DEF ResumeAllKey, BPTypeOK
  <2>2. /\ pending' \in [Flows -> 0 .. MaxPauses]
        /\ held' \in [Resumers -> SUBSET (Flows \X Pauses \X (0 .. MaxPauses))]
    BY <1>6, TakeTypes DEF ResumeAllKey, Resumers
  <2> QED
    BY <1>1, <1>6, <2>1, <2>2 DEF ResumeAllKey, QueueKey, BPTypeOK, lifeVars
<1>7. CASE EditorKey
  <2>1. editing[1] \in Flows /\ editing[2] \in 0 .. MaxPauses /\ 0 \in 0 .. MaxPauses
    BY <1>7 DEF EditorKey, BPTypeOK, Pauses
  <2>2. \E f \in Flows, answer \in 0 .. MaxPauses : TakeOne("tui", f, answer)
    BY <1>7, <2>1 DEF EditorKey
  <2>3. /\ pending' \in [Flows -> 0 .. MaxPauses]
        /\ held' \in [Resumers -> SUBSET (Flows \X Pauses \X (0 .. MaxPauses))]
    BY <2>2, TakeTypes DEF Resumers
  <2> QED
    BY <1>7, <2>3, SMTT(30) DEF EditorKey, BPTypeOK, uiVars, lifeVars
<1>8. CASE AfterResume
  BY <1>1, <1>8 DEF AfterResume, UIOnly, BPTypeOK, lifeVars
<1>9. CASE Quit
  BY <1>9 DEF Quit, BPTypeOK, uiVars
<1> QED
  BY <1>2, <1>3, <1>4, <1>5, <1>6, <1>7, <1>8, <1>9 DEF UIStep

\* Signals, Stop and the end of the process keep the types.
LEMMA StopTypes == ASSUME BPTypeOK, StopStep PROVE BPTypeOK'
<1>1. CASE Signal \/ ServeFails \/ ServeShutdown \/ MainShutdown \/ ServeReturn \/ MainExit
  BY <1>1 DEF Signal, ServeFails, ServeShutdown, MainShutdown, ServeReturn, MainExit,
              BPTypeOK, uiVars
<1>2. CASE ServeStop
  <2>1. /\ pending' \in [Flows -> 0 .. MaxPauses]
        /\ held' \in [Resumers -> SUBSET (Flows \X Pauses \X (0 .. MaxPauses))]
    BY <1>2, TakeTypes DEF ServeStop, Resumers
  <2> QED
    BY <1>2, <2>1 DEF ServeStop, BPTypeOK, uiVars
<1>3. CASE MainStop
  <2>1. /\ pending' \in [Flows -> 0 .. MaxPauses]
        /\ held' \in [Resumers -> SUBSET (Flows \X Pauses \X (0 .. MaxPauses))]
    BY <1>3, TakeTypes DEF MainStop, Resumers
  <2> QED
    BY <1>3, <2>1 DEF MainStop, BPTypeOK, uiVars
<1> QED
  BY <1>1, <1>2, <1>3 DEF StopStep
-----------------------------------------------------------------------------
(* Where the answer to each pause is. *)

\* A step that leaves g's pause and the answers in the resumers' hands for it alone.
LEMMA StillFollows ==
  ASSUME NEW g \in Flows, PauseFollows(g),
         Paused(g)' = Paused(g), pending'[g] = pending[g], nth'[g] = nth[g],
         respCh'[g] = respCh[g],
         \A r \in Resumers : \A a : a[1] = g => (a \in held'[r] <=> a \in held[r])
  PROVE  PauseFollows(g)'
<1>1. \A r \in Resumers : \A a \in held'[r] : a[1] = g => a \in held[r]
  OBVIOUS
<1>2. (\E r \in Resumers : \E a \in held[r] : a[1] = g)
         => \E r \in Resumers : \E a \in held'[r] : a[1] = g
  OBVIOUS
<1> QED
  BY <1>1, <1>2 DEF PauseFollows

\* The flow's own steps: a new pause is registered with an empty channel, a goroutine
\* goes on only with its answer.
LEMMA FlowFollows ==
  ASSUME BPInv, NEW f \in Flows, FlowStep(f)
  PROVE  \A g \in Flows : PauseFollows(g)'
<1> USE BreakpointAssumption DEF BPInv
<1>1. held' = held /\ respCh' = respCh
      /\ \A g \in Flows : g # f => fpc'[g] = fpc[g] /\ pending'[g] = pending[g]
                                    /\ nth'[g] = nth[g]
  BY DEF FlowStep, Start, Pause, Notify, Receive, Finish, BPTypeOK
<1>2. ASSUME NEW g \in Flows, g # f PROVE PauseFollows(g)'
  BY <1>1, <1>2, StillFollows DEF Paused
<1>3. CASE Start(f) \/ Notify(f) \/ Finish(f)
  <2>1. Paused(f)' = Paused(f) /\ pending' = pending /\ nth' = nth
    BY <1>3 DEF Start, Notify, Finish, Paused, BPTypeOK
  <2> QED
    BY <1>1, <1>2, <2>1, StillFollows
<1>4. CASE Pause(f)
  <2>1. /\ ~Paused(f) /\ Paused(f)' /\ nth[f] < MaxPauses
        /\ nth'[f] = nth[f] + 1 /\ pending'[f] = nth[f] + 1
    BY <1>4 DEF Pause, Paused, BPTypeOK
  <2>2. nth[f] + 1 \in Pauses /\ nth[f] + 1 > nth[f] /\ nth[f] + 1 # 0 /\ nth[f] \in Nat
    BY <2>1 DEF BPTypeOK, Pauses
  <2>3. respCh[f][nth[f] + 1] = Empty /\ \A r \in Resumers : \A a \in held[r] : a[1] # f
    BY <2>1, <2>2 DEF PauseFollows
  <2>4. \A n \in Pauses : n > nth'[f] => n > nth[f]
    BY <2>1, <2>2 DEF Pauses
  <2>5. PauseFollows(f)'
    BY <1>1, <2>1, <2>2, <2>3, <2>4 DEF PauseFollows
  <2> QED
    BY <1>2, <2>5
<1>5. CASE Receive(f)
  <2>1. /\ ~Paused(f)' /\ pending' = pending /\ nth' = nth /\ Paused(f)
        /\ respCh[f][nth[f]] # Empty
    BY <1>5 DEF Receive, Paused, BPTypeOK
  <2>2. pending[f] = 0 /\ \A r \in Resumers : \A a \in held[r] : a[1] # f
    BY <2>1 DEF PauseFollows
  <2>3. PauseFollows(f)'
    BY <1>1, <2>1, <2>2 DEF PauseFollows
  <2> QED
    BY <1>2, <2>3
<1> QED
  BY <1>3, <1>4, <1>5 DEF FlowStep

\* The lock of Resume and of ResumeAll moves pauses from the map into the resumer's
\* empty hands.
LEMMA TakeFollows ==
  ASSUME BPInv, NEW r \in Resumers, held[r] = {},
         UNCHANGED <<respCh, fpc, nth>>,
         NEW T \in SUBSET Flows, NEW answer,
         \A f \in T : pending[f] # 0,
         pending' = [f \in Flows |-> IF f \in T THEN 0 ELSE pending[f]],
         held' = [held EXCEPT ![r] = {<<f, pending[f], answer>> : f \in T}]
  PROVE  \A g \in Flows : PauseFollows(g)'
<1> USE DEF BPInv
<1>1. /\ held'[r] = {<<f, pending[f], answer>> : f \in T}
      /\ \A s \in Resumers : s # r => held'[s] = held[s]
  BY DEF BPTypeOK
<1>2. \A g \in Flows : Paused(g)' = Paused(g)
  BY DEF Paused
<1>3. ASSUME NEW g \in Flows, g \notin T PROVE PauseFollows(g)'
  <2>1. \A a \in held'[r] : a[1] # g
    BY <1>1, <1>3
  <2>2. \A s \in Resumers : \A a : a[1] = g => (a \in held'[s] <=> a \in held[s])
    BY <1>1, <2>1
  <2>3. pending'[g] = pending[g]
    BY <1>3
  <2> QED
    BY <1>2, <2>2, <2>3, StillFollows
<1>4. ASSUME NEW g \in T PROVE PauseFollows(g)'
  <2> DEFINE mine == <<g, pending[g], answer>>
  <2>1. /\ pending[g] # 0 /\ Paused(g) /\ pending[g] = nth[g] /\ nth[g] \in Pauses
        /\ respCh[g][nth[g]] = Empty
    BY DEF PauseFollows
  <2>2. \A s \in Resumers : \A a \in held[s] : a[1] # g
    BY <2>1 DEF PauseFollows
  <2>3. mine \in held'[r] /\ mine[1] = g /\ mine[2] = nth[g]
    BY <1>1, <2>1
  <2>4. \A s \in Resumers : \A a \in held'[s] : a[1] = g => s = r /\ a = mine
    BY <1>1, <2>2
  <2> HIDE DEF mine
  <2>5. /\ Paused(g)' /\ pending'[g] = 0 /\ nth'[g] = nth[g] /\ respCh'[g] = respCh[g]
    BY <1>2, <2>1
  <2>6. \A n \in Pauses : n > nth[g] => respCh[g][n] = Empty
    BY DEF PauseFollows
  <2> QED
    BY <2>1, <2>3, <2>4, <2>5, <2>6 DEF PauseFollows
<1> QED
  BY <1>3, <1>4

\* A send puts the answer into the channel and leaves the resumer without it.
LEMMA SendFollows ==
  ASSUME BPInv, NEW r \in Resumers, Send(r)
  PROVE  \A g \in Flows : PauseFollows(g)'
<1> USE DEF BPInv
<1>1. PICK a \in held[r] : /\ respCh[a[1]][a[2]] = Empty
                           /\ respCh' = [respCh EXCEPT ![a[1]][a[2]] = a[3]]
                           /\ held' = [held EXCEPT ![r] = @ \ {a}]
  BY DEF Send
<1>2. a[1] \in Flows /\ a[2] \in Pauses /\ a[3] \in 0 .. MaxPauses
  BY DEF BPTypeOK
<1>3. UNCHANGED <<pending, fpc, nth>> /\ \A g \in Flows : Paused(g)' = Paused(g)
  BY DEF Send, Paused
<1>4. held'[r] = held[r] \ {a} /\ \A s \in Resumers : s # r => held'[s] = held[s]
  BY <1>1 DEF BPTypeOK
<1>5. ASSUME NEW g \in Flows, g # a[1] PROVE PauseFollows(g)'
  <2>1. respCh'[g] = respCh[g]
    BY <1>1, <1>2, <1>5 DEF BPTypeOK
  <2>2. \A s \in Resumers : \A b : b[1] = g => (b \in held'[s] <=> b \in held[s])
    BY <1>4, <1>5
  <2> QED
    BY <1>3, <2>1, <2>2, StillFollows
<1>6. PauseFollows(a[1])'
  <2> DEFINE f == a[1]
  <2>1. /\ Paused(f) /\ a[2] = nth[f] /\ pending[f] = 0
        /\ \A s \in Resumers : \A b \in held[s] : b[1] = f => s = r /\ b = a
    BY <1>2 DEF PauseFollows
  <2>2. \A s \in Resumers : \A b \in held'[s] : b[1] # f
    BY <1>4, <2>1
  <2>3. respCh'[f][nth[f]] # Empty /\ \A n \in Pauses : n # nth[f] => respCh'[f][n] = respCh[f][n]
    <3>1. a[3] # Empty
      BY <1>2, BreakpointAssumption DEF Empty
    <3> QED
      BY <1>1, <1>2, <2>1, <3>1 DEF BPTypeOK
  <2>4. \A n \in Pauses : n > nth[f] => n # nth[f]
    BY <1>2, <2>1 DEF Pauses
  <2> QED
    BY <1>2, <1>3, <2>1, <2>2, <2>3, <2>4 DEF PauseFollows
<1> QED
  BY <1>5, <1>6
-----------------------------------------------------------------------------
(* Every step keeps the invariant. *)

\* The flows' own steps.
LEMMA FlowStepInv ==
  ASSUME BPInv, NEW f \in Flows, FlowStep(f)
  PROVE  BPInv'
<1> USE DEF BPInv
<1>1. BPTypeOK' /\ \A g \in Flows : PauseFollows(g)'
  BY FlowTypes, FlowFollows
<1>2. UNCHANGED <<respCh, held, uiVars, tpc, lifeVars>>
      /\ (~Paused(f) \/ UNCHANGED pending)
      /\ \A g \in Flows : g # f => pending'[g] = pending[g]
  BY DEF FlowStep, Start, Pause, Notify, Receive, Finish, BPTypeOK, Paused
<1>3. HoldersSend'
  BY <1>2 DEF HoldersSend, lifeVars
<1>4. ASSUME ~cancelled, view = "editor", tpc = "ready"
      PROVE  pending'[editing[1]] = pending[editing[1]]
  <2>1. editing[1] \in Flows /\ editing[2] \in Pauses /\ pending[editing[1]] = editing[2]
    BY <1>4 DEF OnlyTheTUI, BPTypeOK
  <2>2. Paused(editing[1])
    BY <2>1 DEF PauseFollows, Pauses
  <2> QED
    BY <1>2, <2>1, <2>2
<1>5. OnlyTheTUI'
  BY <1>2, <1>4 DEF OnlyTheTUI, uiVars, lifeVars
<1> QED
  BY <1>1, <1>3, <1>5

\* The sends.
LEMMA SendInv ==
  ASSUME BPInv, NEW r \in Resumers, Send(r)
  PROVE  BPInv'
<1> USE DEF BPInv
<1>1. BPTypeOK' /\ \A g \in Flows : PauseFollows(g)'
  BY SendTypes, SendFollows
<1>2. UNCHANGED <<pending, uiVars, tpc, lifeVars>>
      /\ \A s \in Resumers : held'[s] \subseteq held[s]
  BY DEF Send, BPTypeOK
<1>3. HoldersSend'
  BY <1>2 DEF HoldersSend, lifeVars, Resumers
<1>4. OnlyTheTUI'
  <2> SUFFICES ASSUME ~cancelled
               PROVE  \A f \in Flows, n \in Pauses : respCh'[f][n] \in {Empty, 0, n}
    BY <1>2 DEF OnlyTheTUI, uiVars, lifeVars, Resumers
  <2>1. PICK a \in held[r] : respCh' = [respCh EXCEPT ![a[1]][a[2]] = a[3]]
    BY DEF Send
  <2>2. r = "tui"
    BY <2>1 DEF HoldersSend, OnlyTheTUI, Resumers
  <2>3. a[3] \in {0, a[2]} /\ a[1] \in Flows /\ a[2] \in Pauses
    BY <2>1, <2>2 DEF OnlyTheTUI, BPTypeOK
  <2>4. \A f \in Flows, n \in Pauses :
          respCh'[f][n] = IF f = a[1] /\ n = a[2] THEN a[3] ELSE respCh[f][n]
    BY <2>1, <2>3 DEF BPTypeOK
  <2> QED
    BY <2>3, <2>4 DEF OnlyTheTUI
<1> QED
  BY <1>1, <1>3, <1>4

\* Answers for one pause or for all, by anybody whose hands are empty.
LEMMA TakeOneInv ==
  ASSUME BPInv, NEW r \in Resumers, held[r] = {}, UNCHANGED <<respCh, fpc, nth>>,
         NEW f \in Flows, NEW answer, TakeOne(r, f, answer)
  PROVE  /\ \A g \in Flows : PauseFollows(g)'
         /\ \A a \in held'[r] : a = <<f, pending[f], answer>>
         /\ \A s \in Resumers : s # r => held'[s] = held[s]
<1> DEFINE T == IF pending[f] = 0 THEN {} ELSE {f}
<1>1. /\ pending' = [g \in Flows |-> IF g \in T THEN 0 ELSE pending[g]]
      /\ held' = [held EXCEPT ![r] = {<<g, pending[g], answer>> : g \in T}]
  BY DEF TakeOne, BPInv, BPTypeOK
<1>2. T \in SUBSET Flows /\ \A g \in T : g = f /\ pending[g] # 0
  OBVIOUS
<1>3. \A g \in Flows : PauseFollows(g)'
  <2> HIDE DEF T
  <2>1. \A g \in T : pending[g] # 0
    BY <1>2
  <2> QED
    BY <1>1, <1>2, <2>1, TakeFollows
<1>4. held'[r] = {<<g, pending[g], answer>> : g \in T} /\ \A s \in Resumers : s # r => held'[s] = held[s]
  BY <1>1 DEF BPInv, BPTypeOK
<1> QED
  BY <1>2, <1>3, <1>4

\* Resuming all pauses takes each of them, and leaves what others hold.
LEMMA TakeAllInv ==
  ASSUME BPInv, NEW r \in Resumers, held[r] = {}, UNCHANGED <<respCh, fpc, nth>>, TakeAll(r)
  PROVE  /\ \A g \in Flows : PauseFollows(g)'
         /\ \A a \in held'[r] : a[3] = 0
         /\ \A s \in Resumers : s # r => held'[s] = held[s]
<1> DEFINE T == {f \in Flows : pending[f] # 0}
<1>1. /\ pending' = [f \in Flows |-> IF f \in T THEN 0 ELSE pending[f]]
      /\ held' = [held EXCEPT ![r] = {<<f, pending[f], 0>> : f \in T}]
  BY DEF TakeAll
<1>2. \A g \in Flows : PauseFollows(g)'
  <2>1. T \in SUBSET Flows /\ \A g \in T : pending[g] # 0
    OBVIOUS
  <2> HIDE DEF T
  <2> QED
    BY <1>1, <2>1, TakeFollows
<1>3. held'[r] = {<<f, pending[f], 0>> : f \in T} /\ \A s \in Resumers : s # r => held'[s] = held[s]
  BY <1>1 DEF BPInv, BPTypeOK
<1> QED
  BY <1>2, <1>3

\* Keys and ticks.
LEMMA UIStepInv == ASSUME BPInv, UIStep PROVE BPInv'
<1> USE DEF BPInv
<1>1. BPTypeOK'
  BY UITypes
<1>2. ASSUME UNCHANGED <<pending, respCh, fpc, nth, held>>
      PROVE  \A g \in Flows : PauseFollows(g)'
  BY <1>2, StillFollows DEF Paused
<1>3. "tui" \in Resumers /\ (tpc = "ready" => held["tui"] = {})
  BY DEF HoldersSend, Resumers
<1>4. CASE Tick \/ OpenQueue \/ CloseQueue \/ MoveCursor \/ AfterResume
  <2>1. /\ UNCHANGED <<pending, respCh, fpc, nth, held, lifeVars>>
        /\ \/ tpc' = tpc
           \/ tpc = "resuming" /\ tpc' = "ready" /\ held["tui"] = {}
        /\ \/ view' \in {"list", "queue"}
           \/ UNCHANGED <<view, editing, tpc>>
    <3>1. CASE Tick
      BY <3>1 DEF Tick, UIOnly, uiVars
    <3>2. CASE OpenQueue \/ CloseQueue
      BY <3>2 DEF OpenQueue, CloseQueue, QueueKey, UIOnly
    <3>3. CASE MoveCursor
      BY <3>3 DEF MoveCursor, QueueKey, UIOnly
    <3>4. CASE AfterResume
      BY <3>4 DEF AfterResume, UIOnly
    <3> QED
      BY <1>4, <3>1, <3>2, <3>3, <3>4
  <2>2. HoldersSend'
    BY <2>1 DEF HoldersSend, lifeVars
  <2>3. OnlyTheTUI'
    BY <2>1 DEF OnlyTheTUI, lifeVars
  <2> QED
    BY <1>1, <1>2, <2>1, <2>2, <2>3
<1>5. CASE OpenEditor
  <2>1. UNCHANGED <<pending, respCh, fpc, nth, held, lifeVars, tpc>>
    BY <1>5 DEF OpenEditor, UIOnly
  <2>2. view' = "editor" => pending[editing'[1]] = editing'[2]
    <3>1. view = "queue"
      BY <1>5 DEF OpenEditor, QueueKey
    <3>2. ASSUME view' = "editor"
          PROVE  cursor < Cardinality(Pending) /\ editing' = HitAt(Pending, cursor)
      BY <1>5, <3>1, <3>2 DEF OpenEditor
    <3>3. cursor < Cardinality(Pending) => HitAt(Pending, cursor) \in Pending
      BY PendingShape, HitAtExists DEF BPTypeOK
    <3> QED
      BY <3>2, <3>3, PendingShape
  <2>3. HoldersSend' /\ OnlyTheTUI'
    BY <2>1, <2>2 DEF HoldersSend, OnlyTheTUI, lifeVars
  <2> QED
    BY <1>1, <1>2, <2>1, <2>3
<1>6. CASE ResumeAllKey
  <2>1. /\ UNCHANGED <<respCh, fpc, nth, lifeVars>> /\ tpc = "ready" /\ tpc' = "resuming"
        /\ TakeAll("tui")
    BY <1>6 DEF ResumeAllKey, QueueKey, UIReady
  <2>2. /\ \A g \in Flows : PauseFollows(g)'
        /\ \A a \in held'["tui"] : a[3] = 0
        /\ \A s \in Resumers : s # "tui" => held'[s] = held[s]
    BY <1>3, <2>1, TakeAllInv
  <2>3. HoldersSend' /\ OnlyTheTUI'
    BY <2>1, <2>2 DEF HoldersSend, OnlyTheTUI, lifeVars, Resumers
  <2> QED
    BY <1>1, <2>2, <2>3
<1>7. CASE EditorKey
  <2>1. /\ UNCHANGED <<respCh, fpc, nth, lifeVars>> /\ tpc = "ready" /\ tpc' = "resuming"
        /\ editing[1] \in Flows
    BY <1>7 DEF EditorKey, UIReady, BPTypeOK
  <2>2. PICK answer \in {0, editing[2]} : TakeOne("tui", editing[1], answer)
    BY <1>7 DEF EditorKey
  <2>3. held["tui"] = {} /\ "tui" \in Resumers
    BY <1>3, <2>1
  <2>4. /\ \A g \in Flows : PauseFollows(g)'
        /\ \A a \in held'["tui"] : a = <<editing[1], pending[editing[1]], answer>>
        /\ \A s \in Resumers : s # "tui" => held'[s] = held[s]
    <3> HIDE DEF BPInv
    <3> QED
      BY <2>1, <2>2, <2>3, TakeOneInv
  <2>5. ~cancelled => \A a \in held'["tui"] : a[3] \in {0, a[2]}
    <3>1. ~cancelled => pending[editing[1]] = editing[2]
      BY <1>7, <2>1 DEF OnlyTheTUI, EditorKey
    <3> QED
      BY <2>2, <2>4, <3>1
  <2>6. HoldersSend' /\ OnlyTheTUI'
    BY <2>1, <2>4, <2>5 DEF HoldersSend, OnlyTheTUI, lifeVars, Resumers
  <2> QED
    BY <1>1, <2>4, <2>6
<1>8. CASE Quit
  <2>1. /\ UNCHANGED <<pending, respCh, fpc, nth, held, spc>> /\ cancelled' /\ tpc = "ready"
        /\ tpc' = "exited" /\ mpc' = "stopping"
    BY <1>8 DEF Quit, UIReady
  <2>2. held["main"] = {}
    BY <2>1 DEF HoldersSend
  <2>3. HoldersSend' /\ OnlyTheTUI'
    BY <1>3, <2>1, <2>2 DEF HoldersSend, OnlyTheTUI
  <2> QED
    BY <1>1, <1>2, <2>1, <2>3
<1> QED
  BY <1>4, <1>5, <1>6, <1>7, <1>8 DEF UIStep

\* Signals, Stop and the end of the process.
LEMMA StopStepInv == ASSUME BPInv, StopStep PROVE BPInv'
<1> USE DEF BPInv
<1>1. BPTypeOK'
  BY StopTypes
<1>2. ASSUME UNCHANGED <<pending, respCh, fpc, nth, held>>
      PROVE  \A g \in Flows : PauseFollows(g)'
  BY <1>2, StillFollows DEF Paused
<1>3. CASE Signal
  BY <1>1, <1>2, <1>3 DEF Signal, HoldersSend, OnlyTheTUI
<1>4. CASE ServeFails \/ ServeShutdown \/ ServeReturn
  <2>1. /\ UNCHANGED <<pending, respCh, fpc, nth, held, uiVars, tpc, mpc, cancelled>>
        /\ held["serve"] = {}
        /\ \/ spc' = "returned"
           \/ spc = "resuming" /\ spc' = "shutdown"
    BY <1>4 DEF ServeFails, ServeShutdown, ServeReturn, HoldersSend
  <2>2. HoldersSend' /\ OnlyTheTUI'
    BY <2>1 DEF HoldersSend, OnlyTheTUI, uiVars
  <2> QED
    BY <1>1, <1>2, <2>1, <2>2
<1>5. CASE MainShutdown \/ MainExit
  <2>1. /\ UNCHANGED <<pending, respCh, fpc, nth, held, uiVars, tpc, spc, cancelled>>
        /\ held["main"] = {} /\ mpc # "tui"
    BY <1>5 DEF MainShutdown, MainExit, HoldersSend
  <2>2. HoldersSend' /\ OnlyTheTUI'
    BY <2>1 DEF HoldersSend, OnlyTheTUI, uiVars
  <2> QED
    BY <1>1, <1>2, <2>1, <2>2
<1>6. CASE ServeStop
  <2>1. /\ UNCHANGED <<respCh, fpc, nth, uiVars, tpc, mpc, cancelled>> /\ cancelled
        /\ spc = "serving" /\ spc' = "resuming" /\ TakeAll("serve")
    BY <1>6 DEF ServeStop
  <2>2. "serve" \in Resumers /\ held["serve"] = {}
    BY <2>1 DEF HoldersSend, Resumers
  <2>3. /\ \A g \in Flows : PauseFollows(g)'
        /\ \A s \in Resumers : s # "serve" => held'[s] = held[s]
    BY <2>1, <2>2, TakeAllInv
  <2>4. HoldersSend' /\ OnlyTheTUI'
    BY <2>1, <2>3 DEF HoldersSend, OnlyTheTUI, Resumers
  <2> QED
    BY <1>1, <2>3, <2>4
<1>7. CASE MainStop
  <2>1. /\ UNCHANGED <<respCh, fpc, nth, uiVars, tpc, spc, cancelled>>
        /\ mpc = "stopping" /\ mpc' = "resuming" /\ TakeAll("main")
    BY <1>7 DEF MainStop
  <2>2. "main" \in Resumers /\ held["main"] = {} /\ cancelled = TRUE
    BY <2>1 DEF HoldersSend, OnlyTheTUI, Resumers, BPTypeOK
  <2>3. /\ \A g \in Flows : PauseFollows(g)'
        /\ \A s \in Resumers : s # "main" => held'[s] = held[s]
    BY <2>1, <2>2, TakeAllInv
  <2>4. HoldersSend' /\ OnlyTheTUI'
    BY <2>1, <2>2, <2>3 DEF HoldersSend, OnlyTheTUI, Resumers
  <2> QED
    BY <1>1, <2>3, <2>4
<1> QED
  BY <1>3, <1>4, <1>5, <1>6, <1>7 DEF StopStep

\* It holds at the start.
LEMMA BPInitInv == ASSUME BPInit PROVE BPInv
<1> USE BreakpointAssumption
<1>1. BPTypeOK
  <2>1. /\ pending \in [Flows -> 0 .. MaxPauses]
        /\ nth \in [Flows -> 0 .. MaxPauses]
        /\ sub \in Unsubscribed .. SubCap
    BY DEF BPInit, Unsubscribed
  <2>2. respCh \in [Flows -> [Pauses -> Empty .. MaxPauses]]
    <3>1. Empty \in Empty .. MaxPauses
      BY DEF Empty
    <3> QED
      BY <3>1 DEF BPInit
  <2>3. held \in [Resumers -> SUBSET (Flows \X Pauses \X (0 .. MaxPauses))]
    BY DEF BPInit
  <2> QED
    BY <2>1, <2>2, <2>3 DEF BPInit, BPTypeOK
<1>2. HoldersSend /\ OnlyTheTUI
  BY DEF BPInit, HoldersSend, OnlyTheTUI, Resumers
<1>3. \A f \in Flows : PauseFollows(f)
  BY DEF BPInit, PauseFollows, Paused, Resumers
<1> QED
  BY <1>1, <1>2, <1>3 DEF BPInv

\* It is inductive.
LEMMA BPNextInv == ASSUME BPInv, [BPNext]_bpVars PROVE BPInv'
<1>1. CASE UNCHANGED bpVars
  BY <1>1 DEF BPInv, BPTypeOK, HoldersSend, OnlyTheTUI, PauseFollows, Paused, bpVars
<1>2. CASE BPNext
  BY <1>2, FlowStepInv, SendInv, UIStepInv, StopStepInv DEF BPNext
<1> QED
  BY <1>1, <1>2

\* The inductive invariant of the controller, its flows, the TUI and the two goroutines
\* that stop the proxy.
THEOREM BreakpointsInvariant == BPSpec => []BPInv
<1>1. BPInit => BPInv
  BY BPInitInv
<1>2. BPInv /\ [BPNext]_bpVars => BPInv'
  BY BPNextInv
<1> QED
  BY <1>1, <1>2, PTL DEF BPSpec

\* Whatever the order of locks, sends, keys and signals, a blocked goroutine has exactly
\* one way on.
THEOREM BlockedFlowsHaveOneWayOn == BPSpec => []OneWayOn
<1>1. ASSUME BPInv PROVE OneWayOn
  <2> USE <1>1 DEF BPInv
  <2>1. \A f \in Flows, r \in Resumers : \A a \in held[r] : a[1] = f =>
          a = <<f, a[2], a[3]>> /\ a[2] \in Pauses /\ a[3] \in 0 .. MaxPauses
    BY DEF BPTypeOK
  <2>2. NoLostWaiter
    <3> SUFFICES ASSUME NEW f \in Flows, Paused(f), pending[f] # nth[f],
                        respCh[f][nth[f]] = Empty
                 PROVE  Held(f, nth[f]) # {}
      BY DEF NoLostWaiter
    <3>1. PICK r \in Resumers : \E a \in held[r] : a[1] = f
      BY DEF PauseFollows
    <3>2. PICK a \in held[r] : a[1] = f
      BY <3>1
    <3>3. a[2] = nth[f]
      BY <3>2 DEF PauseFollows
    <3>4. r \in Held(f, nth[f])
      BY <2>1, <3>2, <3>3 DEF Held
    <3> QED
      BY <3>4
  <2>3. ASSUME NEW f \in Flows, NEW n \in Pauses, NEW r \in Held(f, n)
        PROVE  /\ Paused(f) /\ n = nth[f] /\ pending[f] = 0 /\ respCh[f][n] = Empty
               /\ \A s \in Held(f, n) : s = r
    <3>1. \A s \in Held(f, n) : s \in Resumers /\ \E a \in held[s] : a[1] = f /\ a[2] = n
      BY DEF Held
    <3>2. PICK a \in held[r] : r \in Resumers /\ a[1] = f /\ a[2] = n
      BY <3>1
    <3>3. /\ Paused(f) /\ a[2] = nth[f] /\ pending[f] = 0 /\ respCh[f][nth[f]] = Empty
          /\ \A s \in Resumers : \A b \in held[s] : b[1] = f => s = r
      BY <3>2 DEF PauseFollows
    <3> QED
      BY <3>1, <3>2, <3>3
  <2>4. OneAnswer
    <3>1. \A f \in Flows, n \in Pauses : pending[f] = n => respCh[f][n] = Empty
      BY DEF PauseFollows, Pauses
    <3>2. \A n \in Pauses : n # 0
      BY DEF Pauses
    <3> QED
      BY <2>3, <3>1, <3>2 DEF OneAnswer
  <2>5. PendingIsPaused
    BY DEF PendingIsPaused, PauseFollows
  <2> QED
    BY <2>2, <2>4, <2>5 DEF OneWayOn
<1> QED
  BY <1>1, BreakpointsInvariant, PTL

\* The user's edits are applied to the pause they were made for, although Resume is
\* keyed by the flow alone.
THEOREM EditsGoWhereMade == BPSpec => []EditsReachEditedPause
<1>1. ASSUME BPInv PROVE EditsReachEditedPause
  BY <1>1 DEF BPInv, OnlyTheTUI, EditsReachEditedPause, Empty, Pauses
<1> QED
  BY <1>1, BreakpointsInvariant, PTL
-----------------------------------------------------------------------------
(* The controller implements the plain pauses. *)

\* The answer that is in somebody's hands or in the channel is the only one, and is what
\* a caller sees.
LEMMA AnswerSeen ==
  ASSUME BPInv, NEW f \in Flows, NEW e \in 0 .. MaxPauses, Paused(f), pending[f] = 0,
         respCh[f][nth[f]] = e \/ \E r \in Resumers : <<f, nth[f], e>> \in held[r]
  PROVE  Phase[f] = "answered" /\ AnswerOf[f] = e
<1> USE DEF BPInv
<1>1. nth[f] \in Pauses /\ nth[f] # 0 /\ e # Empty
  BY BreakpointAssumption DEF PauseFollows, Pauses, Empty
<1>2. Given(f) = {e}
  <2>1. e \in Given(f)
    BY DEF Given
  <2>2. ASSUME NEW d \in Given(f) PROVE d = e
    <3>1. d \in 0 .. MaxPauses /\ d # Empty
      BY BreakpointAssumption DEF Given, Empty
    <3>2. respCh[f][nth[f]] = d \/ \E r \in Resumers : <<f, nth[f], d>> \in held[r]
      BY DEF Given
    <3>3. \A r \in Resumers : \A a \in held[r] : a[1] = f =>
            /\ respCh[f][nth[f]] = Empty
            /\ \A s \in Resumers : \A b \in held[s] : b[1] = f => b = a
      BY DEF PauseFollows
    <3>4. CASE respCh[f][nth[f]] = e
      BY <1>1, <3>1, <3>2, <3>3, <3>4
    <3>5. ASSUME NEW r \in Resumers, <<f, nth[f], e>> \in held[r] PROVE d = e
      BY <3>1, <3>2, <3>3, <3>5
    <3> QED
      BY <3>4, <3>5
  <2> QED
    BY <2>1, <2>2
<1>3. Phase[f] = "answered"
  BY <1>1 DEF Phase
<1>4. AnswerOf[f] = e
  BY <1>1, <1>2 DEF AnswerOf
<1> QED
  BY <1>3, <1>4

\* A flow that is not paused, or whose pause is in the map, has no answer yet.
LEMMA NoAnswerSeen ==
  ASSUME BPInv, NEW f \in Flows
  PROVE  /\ ~Paused(f) => Phase[f] = "going" /\ AnswerOf[f] = -1
         /\ pending[f] # 0 => Phase[f] = "open" /\ AnswerOf[f] = -1
         /\ Paused(f) /\ pending[f] = 0 => Phase[f] = "answered"
<1>1. pending[f] # 0 => Paused(f) /\ pending[f] = nth[f]
  BY DEF BPInv, PauseFollows
<1>2. Paused(f) => nth[f] # 0
  BY DEF BPInv, PauseFollows, Pauses
<1> QED
  BY <1>1, <1>2 DEF Phase, AnswerOf

\* What a caller sees of each flow, in the terms of the controller.
SeenIs ==
  \A f \in Flows :
    /\ ~Paused(f) => Phase[f] = "going" /\ AnswerOf[f] = -1
    /\ pending[f] # 0 => Phase[f] = "open" /\ AnswerOf[f] = -1
    /\ Paused(f) /\ pending[f] = 0 => Phase[f] = "answered"
    /\ \A e \in 0 .. MaxPauses :
         /\ Paused(f) /\ pending[f] = 0
         /\ respCh[f][nth[f]] = e \/ \E r \in Resumers : <<f, nth[f], e>> \in held[r]
         => Phase[f] = "answered" /\ AnswerOf[f] = e

\* So it is seen in every state of the invariant.
LEMMA SeenNow == BPInv => SeenIs
  BY AnswerSeen, NoAnswerSeen DEF SeenIs

\* And in the state after a step.
LEMMA SeenNext == BPInv' => SeenIs'
  BY SeenNow, PTL

\* What a caller sees is a function of the flows, before and after a step.
LEMMA SeenShape ==
  /\ Phase = [f \in Flows |-> Phase[f]] /\ AnswerOf = [f \in Flows |-> AnswerOf[f]]
  /\ Phase' = [f \in Flows |-> Phase'[f]] /\ AnswerOf' = [f \in Flows |-> AnswerOf'[f]]
  BY DEF Phase, AnswerOf

\* A step that leaves g's pause and its answer alone changes nothing that is seen of g.
LEMMA StillSeen ==
  ASSUME NEW g \in Flows,
         Paused(g)' = Paused(g), pending'[g] = pending[g], nth'[g] = nth[g],
         respCh'[g] = respCh[g],
         \A r \in Resumers : \A a : a[1] = g => (a \in held'[r] <=> a \in held[r])
  PROVE  Phase'[g] = Phase[g] /\ AnswerOf'[g] = AnswerOf[g]
<1>1. \A e : \A r \in Resumers : <<g, nth[g], e>> \in held'[r] <=> <<g, nth[g], e>> \in held[r]
  OBVIOUS
<1>2. Given(g)' = Given(g)
  BY <1>1 DEF Given
<1>3. Phase'[g] = Phase[g]
  BY DEF Phase
<1>4. AnswerOf'[g] = AnswerOf[g]
  BY <1>2 DEF AnswerOf
<1> QED
  BY <1>3, <1>4

\* The flows' own steps: Pause blocks, Receive goes on, the others are not seen.
LEMMA FlowStepSeen ==
  ASSUME BPInv, BPInv', NEW f \in Flows, FlowStep(f)
  PROVE  P!Block(f) \/ P!GoOn(f) \/ UNCHANGED P!psVars
<1>1. held' = held /\ respCh' = respCh
      /\ \A g \in Flows : g # f => fpc'[g] = fpc[g] /\ pending'[g] = pending[g]
                                    /\ nth'[g] = nth[g]
  BY DEF FlowStep, Start, Pause, Notify, Receive, Finish, BPInv, BPTypeOK
<1>2. \A g \in Flows : g # f => Phase'[g] = Phase[g] /\ AnswerOf'[g] = AnswerOf[g]
  BY <1>1, StillSeen DEF Paused
<1>3. CASE Start(f) \/ Notify(f) \/ Finish(f)
  <2>1. Paused(f)' = Paused(f) /\ pending' = pending /\ nth' = nth
    BY <1>3 DEF Start, Notify, Finish, Paused, BPInv, BPTypeOK
  <2>2. Phase'[f] = Phase[f] /\ AnswerOf'[f] = AnswerOf[f]
    BY <1>1, <2>1, StillSeen
  <2> QED
    BY <1>2, <2>2, SeenShape DEF P!psVars
<1>4. CASE Pause(f)
  <2>1. ~Paused(f) /\ pending'[f] # 0
    BY <1>4 DEF Pause, Paused, BPInv, BPTypeOK
  <2>2. /\ Phase[f] = "going" /\ AnswerOf[f] = -1
        /\ Phase'[f] = "open" /\ AnswerOf'[f] = -1
    BY <2>1, SeenNow, SeenNext DEF SeenIs
  <2>3. Phase' = [Phase EXCEPT ![f] = "open"] /\ AnswerOf' = AnswerOf
    BY <1>2, <2>2, SeenShape
  <2> QED
    BY <2>2, <2>3 DEF P!Block
<1>5. CASE Receive(f)
  <2>1. Paused(f) /\ pending[f] = 0 /\ ~Paused(f)'
    BY <1>5 DEF Receive, Paused, BPInv, BPTypeOK, PauseFollows
  <2>2. /\ Phase[f] = "answered" /\ Phase'[f] = "going" /\ AnswerOf'[f] = -1
    BY <2>1, SeenNow, SeenNext DEF SeenIs
  <2>3. Phase' = [Phase EXCEPT ![f] = "going"] /\ AnswerOf' = [AnswerOf EXCEPT ![f] = -1]
    BY <1>2, <2>2, SeenShape
  <2> QED
    BY <2>2, <2>3 DEF P!GoOn, P!Unanswered
<1> QED
  BY <1>3, <1>4, <1>5 DEF FlowStep

\* A send moves an answer from a resumer's hands into the channel: not seen.
LEMMA SendSeen ==
  ASSUME BPInv, BPInv', NEW r \in Resumers, Send(r)
  PROVE  UNCHANGED P!psVars
<1>1. PICK a \in held[r] : /\ respCh' = [respCh EXCEPT ![a[1]][a[2]] = a[3]]
                           /\ held' = [held EXCEPT ![r] = @ \ {a}]
  BY DEF Send
<1>2. /\ a[1] \in Flows /\ a[2] \in Pauses /\ a[3] \in 0 .. MaxPauses
      /\ a = <<a[1], a[2], a[3]>>
  BY DEF BPInv, BPTypeOK
<1>3. UNCHANGED <<pending, fpc, nth>> /\ \A g \in Flows : Paused(g)' = Paused(g)
  BY DEF Send, Paused
<1>4. held'[r] = held[r] \ {a} /\ \A s \in Resumers : s # r => held'[s] = held[s]
  BY <1>1 DEF BPInv, BPTypeOK
<1>5. ASSUME NEW g \in Flows, g # a[1]
      PROVE  Phase'[g] = Phase[g] /\ AnswerOf'[g] = AnswerOf[g]
  <2>1. respCh'[g] = respCh[g]
    BY <1>1, <1>2, <1>5 DEF BPInv, BPTypeOK
  <2>2. \A s \in Resumers : \A b : b[1] = g => (b \in held'[s] <=> b \in held[s])
    BY <1>4, <1>5
  <2> QED
    BY <1>3, <2>1, <2>2, StillSeen
<1>6. Phase'[a[1]] = Phase[a[1]] /\ AnswerOf'[a[1]] = AnswerOf[a[1]]
  <2> DEFINE f == a[1]
             e == a[3]
  <2>1. Paused(f) /\ a[2] = nth[f] /\ pending[f] = 0
    BY <1>2 DEF BPInv, PauseFollows
  <2>2. <<f, nth[f], e>> \in held[r]
    BY <1>2, <2>1
  <2>3. respCh'[f][nth[f]] = e
    BY <1>1, <1>2, <2>1 DEF BPInv, BPTypeOK
  <2>4. f \in Flows /\ e \in 0 .. MaxPauses /\ Paused(f)' /\ pending'[f] = 0 /\ nth'[f] = nth[f]
    BY <1>2, <1>3, <2>1
  <2> HIDE DEF f, e
  <2>5. Phase[f] = "answered" /\ AnswerOf[f] = e
    BY <2>1, <2>2, <2>4, SeenNow, SeenNext DEF SeenIs
  <2>6. Phase'[f] = "answered" /\ AnswerOf'[f] = e
    BY <2>3, <2>4, SeenNow, SeenNext DEF SeenIs
  <2> QED
    BY <2>5, <2>6 DEF f
<1> QED
  BY <1>5, <1>6, SeenShape DEF P!psVars

\* Resume under its lock answers the flow's open pause, if there is one.
LEMMA TakeOneSeen ==
  ASSUME BPInv, BPInv', NEW r \in Resumers, held[r] = {}, UNCHANGED <<respCh, fpc, nth>>,
         NEW f \in Flows, NEW answer \in 0 .. MaxPauses, TakeOne(r, f, answer)
  PROVE  P!AnswerOne(f, answer) \/ UNCHANGED P!psVars
<1>1. \A g \in Flows : Paused(g)' = Paused(g)
  BY DEF Paused
<1>2. \A s \in Resumers : s # r => held'[s] = held[s]
  BY DEF TakeOne, BPInv, BPTypeOK
<1>3. \A a \in held'[r] : a[1] = f
  BY DEF TakeOne, BPInv, BPTypeOK
<1>4. \A g \in Flows : g # f => Phase'[g] = Phase[g] /\ AnswerOf'[g] = AnswerOf[g]
  <2> SUFFICES ASSUME NEW g \in Flows, g # f
               PROVE  Phase'[g] = Phase[g] /\ AnswerOf'[g] = AnswerOf[g]
    OBVIOUS
  <2>1. \A s \in Resumers : \A b : b[1] = g => (b \in held'[s] <=> b \in held[s])
    BY <1>2, <1>3
  <2>2. pending'[g] = pending[g]
    BY DEF TakeOne, BPInv, BPTypeOK
  <2> QED
    BY <1>1, <2>1, <2>2, StillSeen
<1>5. CASE pending[f] = 0
  <2>1. held' = held /\ pending' = pending
    BY <1>5 DEF TakeOne, BPInv, BPTypeOK
  <2>2. Phase'[f] = Phase[f] /\ AnswerOf'[f] = AnswerOf[f]
    BY <1>1, <2>1, StillSeen
  <2> QED
    BY <1>4, <2>2, SeenShape DEF P!psVars
<1>6. CASE pending[f] # 0
  <2>1. pending[f] = nth[f] /\ Paused(f)
    BY <1>6 DEF BPInv, PauseFollows
  <2>2. <<f, nth[f], answer>> \in held'[r] /\ pending'[f] = 0
    BY <1>6, <2>1 DEF TakeOne, BPInv, BPTypeOK
  <2>3. Phase[f] = "open"
    BY <1>6, SeenNow, SeenNext DEF SeenIs
  <2>4. Phase'[f] = "answered" /\ AnswerOf'[f] = answer
    BY <1>1, <2>1, <2>2, SeenNow, SeenNext DEF SeenIs
  <2>5. Phase' = [Phase EXCEPT ![f] = "answered"] /\ AnswerOf' = [AnswerOf EXCEPT ![f] = answer]
    BY <1>4, <2>4, SeenShape
  <2> QED
    BY <2>3, <2>5 DEF P!AnswerOne
<1> QED
  BY <1>5, <1>6

\* ResumeAll under its lock answers every open pause at once.
LEMMA TakeAllSeen ==
  ASSUME BPInv, BPInv', NEW r \in Resumers, held[r] = {}, UNCHANGED <<respCh, fpc, nth>>,
         TakeAll(r)
  PROVE  P!AnswerAll
<1>1. \A g \in Flows : Paused(g)' = Paused(g) /\ pending'[g] = 0
  BY DEF Paused, TakeAll
<1>2. \A s \in Resumers : s # r => held'[s] = held[s]
  BY DEF TakeAll, BPInv, BPTypeOK
<1>3. held'[r] = {<<g, pending[g], 0>> : g \in {h \in Flows : pending[h] # 0}}
  BY DEF TakeAll, BPInv, BPTypeOK
<1>4. ASSUME NEW g \in Flows
      PROVE  /\ Phase'[g] = IF Phase[g] = "open" THEN "answered" ELSE Phase[g]
             /\ AnswerOf'[g] = IF Phase[g] = "open" THEN 0 ELSE AnswerOf[g]
  <2>1. CASE pending[g] = 0
    <3>1. \A s \in Resumers : \A b : b[1] = g => (b \in held'[s] <=> b \in held[s])
      BY <1>2, <1>3, <2>1
    <3>2. Phase'[g] = Phase[g] /\ AnswerOf'[g] = AnswerOf[g]
      BY <1>1, <2>1, <3>1, StillSeen
    <3>3. Phase[g] # "open"
      BY <2>1, SeenNow, SeenNext DEF SeenIs
    <3> QED
      BY <3>2, <3>3
  <2>2. CASE pending[g] # 0
    <3>1. pending[g] = nth[g] /\ Paused(g)
      BY <2>2 DEF BPInv, PauseFollows
    <3>2. <<g, nth[g], 0>> \in held'[r]
      BY <1>3, <2>2, <3>1
    <3>3. Phase[g] = "open" /\ 0 \in 0 .. MaxPauses
      BY <2>2, BreakpointAssumption, SeenNow DEF SeenIs
    <3>4. Phase'[g] = "answered" /\ AnswerOf'[g] = 0
      BY <1>1, <3>1, <3>2, <3>3, SeenNow, SeenNext DEF SeenIs
    <3> QED
      BY <3>3, <3>4
  <2> QED
    BY <2>1, <2>2
<1> QED
  BY <1>4, SeenShape DEF P!AnswerAll

\* Every step of the system is a step of the plain pauses, or is not seen.
LEMMA NextImplementsPauses ==
  ASSUME BPInv, BPInv', [BPNext]_bpVars
  PROVE  [P!PsNext]_P!psVars
<1>1. ASSUME UNCHANGED <<pending, respCh, fpc, nth, held>> PROVE UNCHANGED P!psVars
  <2>1. \A g \in Flows : Phase'[g] = Phase[g] /\ AnswerOf'[g] = AnswerOf[g]
    BY <1>1, StillSeen DEF Paused
  <2> QED
    BY <2>1, SeenShape DEF P!psVars
<1>2. CASE UNCHANGED bpVars
  BY <1>1, <1>2 DEF bpVars
<1>3. ASSUME NEW f \in Flows, FlowStep(f) PROVE [P!PsNext]_P!psVars
  BY <1>3, FlowStepSeen DEF P!PsNext
<1>4. ASSUME NEW r \in Resumers, Send(r) PROVE UNCHANGED P!psVars
  BY <1>4, SendSeen
<1>5. CASE UIStep
  <2>1. CASE Tick \/ OpenQueue \/ CloseQueue \/ MoveCursor \/ OpenEditor \/ AfterResume \/ Quit
    <3>1. UNCHANGED <<pending, respCh, fpc, nth, held>>
      BY <2>1 DEF Tick, OpenQueue, CloseQueue, MoveCursor, OpenEditor, AfterResume, Quit, UIOnly
    <3> QED
      BY <1>1, <3>1
  <2>2. ASSUME tpc = "ready" PROVE "tui" \in Resumers /\ held["tui"] = {}
    BY <2>2 DEF BPInv, HoldersSend, Resumers
  <2>3. CASE ResumeAllKey
    <3>1. tpc = "ready" /\ UNCHANGED <<respCh, fpc, nth>> /\ TakeAll("tui")
      BY <2>3 DEF ResumeAllKey, QueueKey, UIReady
    <3>2. P!AnswerAll
      BY <2>2, <3>1, TakeAllSeen
    <3> QED
      BY <3>2 DEF P!PsNext
  <2>4. CASE EditorKey
    <3>1. /\ tpc = "ready" /\ UNCHANGED <<respCh, fpc, nth>>
          /\ editing[1] \in Flows /\ editing[2] \in 0 .. MaxPauses /\ 0 \in 0 .. MaxPauses
      BY <2>4, BreakpointAssumption DEF EditorKey, UIReady, BPInv, BPTypeOK, Pauses
    <3>2. PICK answer \in 0 .. MaxPauses : TakeOne("tui", editing[1], answer)
      BY <2>4, <3>1 DEF EditorKey
    <3>3. P!AnswerOne(editing[1], answer) \/ UNCHANGED P!psVars
      BY <2>2, <3>1, <3>2, TakeOneSeen
    <3> QED
      BY <3>1, <3>3 DEF P!PsNext
  <2> QED
    BY <1>5, <2>1, <2>3, <2>4 DEF UIStep
<1>6. CASE StopStep
  <2>1. CASE Signal \/ ServeFails \/ ServeShutdown \/ MainShutdown \/ ServeReturn \/ MainExit
    <3>1. UNCHANGED <<pending, respCh, fpc, nth, held>>
      BY <2>1 DEF Signal, ServeFails, ServeShutdown, MainShutdown, ServeReturn, MainExit
    <3> QED
      BY <1>1, <3>1
  <2>2. CASE ServeStop
    <3>1. "serve" \in Resumers /\ held["serve"] = {} /\ UNCHANGED <<respCh, fpc, nth>> /\ TakeAll("serve")
      BY <2>2 DEF ServeStop, BPInv, HoldersSend, Resumers
    <3>2. P!AnswerAll
      BY <3>1, TakeAllSeen
    <3> QED
      BY <3>2 DEF P!PsNext
  <2>3. CASE MainStop
    <3>1. "main" \in Resumers /\ held["main"] = {} /\ UNCHANGED <<respCh, fpc, nth>> /\ TakeAll("main")
      BY <2>3 DEF MainStop, BPInv, HoldersSend, Resumers
    <3>2. P!AnswerAll
      BY <3>1, TakeAllSeen
    <3> QED
      BY <3>2 DEF P!PsNext
  <2> QED
    BY <1>6, <2>1, <2>2, <2>3 DEF StopStep
<1> QED
  BY <1>2, <1>3, <1>4, <1>5, <1>6 DEF BPNext

\* The map, the channels, the resumers' hands and the two steps of every lock, send and
\* receive implement the plain pauses: an answer is fixed when the lock is released, and
\* no interleaving of resumers changes, loses or doubles one.
THEOREM ControllerIsPauses == BPSpec => ImplementsPauses
<1>1. BPInit => P!PsInit
  BY DEF BPInit, P!PsInit, Phase, AnswerOf, Paused, P!Unanswered
<1>2. BPInv /\ BPInv' /\ [BPNext]_bpVars => [P!PsNext]_P!psVars
  BY NextImplementsPauses
<1> QED
  BY <1>1, <1>2, BreakpointsInvariant, PTL DEF BPSpec, ImplementsPauses, P!PsSpec
=============================================================================
