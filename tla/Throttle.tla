------------------------------- MODULE Throttle -------------------------------
(***************************************************************************)
(* The slow network that --throttle simulates (throttle/throttle.go): a    *)
(* response body is read through a Reader that sleeps.  Time is in tenths  *)
(* of a second and bandwidth in bytes per second.  What the inner reader   *)
(* does is part of the query: each of its reads offers a number of bytes   *)
(* after a delay, and the bytes it offers are cut to the length asked for. *)
(***************************************************************************)
EXTENDS Queries, Integers, FiniteSets, SequencesExt

CONSTANTS
  PacedBodies,   \* <<bps, latency, buffer, sequence of [offered, delay]>>
  Throttlings    \* <<place, name, bps, latency>>, asked of SetThrottle

ASSUME PacedAssumption ==
  \A q \in PacedBodies : /\ q[1] \in Int /\ q[2] \in Nat /\ q[3] \in Nat
                        /\ q[4] \in Seq([offered : Nat, delay : Nat])

Second == 10

\* Rounded up: a sleep lasts at least as long as asked.
DivUp(m, n) == (m + n - 1) \div n

Larger(m, n) == IF m >= n THEN m ELSE n
Lesser(m, n) == IF m <= n THEN m ELSE n

\* What one Read asks the inner reader for.
Asked(bps, buffer) ==
  IF bps <= 0 THEN buffer ELSE Lesser(buffer, Larger(bps \div 10, 1))

\* The clock starts when the latency is over.
PaceAfterLatency(bps, latency, buffer, inner) ==
  LET after[k \in 0 .. Len(inner)] ==
        IF k = 0 THEN [bytes |-> 0, at |-> latency]
        ELSE LET bytes == after[k - 1].bytes + Lesser(inner[k].offered, Asked(bps, buffer))
                 now == after[k - 1].at + inner[k].delay
             IN  [bytes |-> bytes,
                  at |-> IF bps <= 0 THEN now
                         ELSE Larger(now, latency + DivUp(bytes * Second, bps))]
  IN  after

\* Bytes delivered, and the time, when the k-th Read returns.
Pace(bps, latency, buffer, inner) ==
  LET after[k \in 0 .. Len(inner)] ==
        IF k = 0 THEN [bytes |-> 0, at |-> latency]
        ELSE LET bytes == after[k - 1].bytes + Lesser(inner[k].offered, Asked(bps, buffer))
                 now == after[k - 1].at + inner[k].delay
             IN  [bytes |-> bytes,
                  at |-> IF bps <= 0 THEN now ELSE Larger(now, DivUp(bytes * Second, bps))]
  IN  after

-----------------------------------------------------------------------------
(* The settings of the proxy, a pair, and who sets them.                   *)

\* In bytes per second.
PresetBandwidth(name) ==
  CASE name = "3g" -> 93750
    [] name = "4g" -> 500000
    [] name = "wifi" -> 3750000
    [] OTHER -> 0

\* The rows of the screen, in milliseconds; the first one is None.
throttlePresets ==
  <<[name |-> "", bps |-> 0, latency |-> 0],
    [name |-> "3g", bps |-> PresetBandwidth("3g"), latency |-> 100],
    [name |-> "4g", bps |-> PresetBandwidth("4g"), latency |-> 50],
    [name |-> "wifi", bps |-> PresetBandwidth("wifi"), latency |-> 5]>>

RowOf(name) == CHOOSE p \in ToSet(throttlePresets) : p.name = name

\* What is in force: --throttle and --latency, set_throttle and Enter on the screen each
\* set both.  A name that is no preset ends the start and fails the tool.
SetThrottle(place, name, bps, latency) ==
  IF place = "screen" THEN [bps |-> RowOf(name).bps, latency |-> RowOf(name).latency]
  ELSE [bps |-> IF name # "" THEN PresetBandwidth(name)
                ELSE IF place = "tool" THEN bps ELSE 0,
        latency |-> latency]

\* The row that is marked: the bandwidth decides, and what no preset has counts as None.
activeThrottlePreset(s) ==
  LET same == {i \in DOMAIN throttlePresets : throttlePresets[i].bps = s.bps}
  IN  IF same = {} THEN 1 ELSE CHOOSE i \in same : TRUE

-----------------------------------------------------------------------------

PaceInit == Ask("pace", PacedBodies) \/ Ask("throttle", Throttlings)

ReadBodySlowly == Answer("pace", Pace(query[1], query[2], query[3], query[4]))

ChangeThrottle ==
  LET s == SetThrottle(query[1], query[2], query[3], query[4])
  IN  Answer("throttle", [set |-> s, marked |-> activeThrottlePreset(s)])

PaceNext == ReadBodySlowly \/ ChangeThrottle

PaceSpec == PaceInit /\ [][PaceNext]_queryVars

-----------------------------------------------------------------------------
(* Properties *)

\* How long the inner reader has taken for its first k reads.
Waited(inner) ==
  LET sum[k \in 0 .. Len(inner)] == IF k = 0 THEN 0 ELSE sum[k - 1] + inner[k].delay
  IN  sum

\* A throttled body arrives no faster and no slower than the network it stands for: at
\* every moment at most what the bandwidth carries since the request has been delivered,
\* nothing before the latency is over, and no Read returns later than the slowest of the
\* latency, the bandwidth and the server, each counted up to that read, would make it.
PaceIsBandwidth ==
  LET bps == query[1]
      latency == query[2]
      inner == query[4]
      waited == Waited(inner)
      carried(i) == IF i = 0 THEN latency
                    ELSE Larger(latency, DivUp(Result[i].bytes * Second, bps))
  IN  Answered("pace") =>
        \A k \in DOMAIN inner :
          /\ Result[k].at >= latency
          /\ bps > 0 => Result[k].bytes * Second <= bps * Result[k].at
          /\ bps <= 0 => Result[k].at = latency + waited[k]
          /\ bps > 0 => \E i \in 0 .. k : Result[k].at <= carried(i) + waited[k] - waited[i]

-----------------------------------------------------------------------------
(* What the documentation says and the code does not do: TLC refutes this  *)
(* (README, "Divergences").                                                *)

\* "3g: 750 kbps, 100ms" and "The active preset shows in the status bar": a preset that is
\* shown as active is in force with its latency, wherever it was set.
PresetHasLatency ==
  Answered("throttle") /\ Result.marked # 1 =>
     Result.set.latency = throttlePresets[Result.marked].latency
=============================================================================
