--------------------------- MODULE AlgorithmsProofs ---------------------------
(***************************************************************************)
(* What the pure functions compute, for every query of the form the        *)
(* program asks.                                                           *)
(*                                                                         *)
(* The argument: each loop of the code is a recursive function here; it    *)
(* satisfies its defining equation (the Equation and Loop lemmas, by       *)
(* RecursionExists), and what it computes follows by induction on how far  *)
(* the loop has come (UpTo).                                               *)
(***************************************************************************)
EXTENDS Patterns, Diff, Frames, Throttle, OrderingProofs, SequenceTheorems

-----------------------------------------------------------------------------
(* Throttling *)

Reads == [offered : Nat, delay : Nat]
Pauses == [bytes : Nat, at : Nat]

\* Rounding up is at least the quotient and not negative.
LEMMA DivUpBounds ==
  ASSUME NEW m \in Nat, NEW n \in Nat \ {0}
  PROVE  DivUp(m, n) \in Nat /\ m <= n * DivUp(m, n)
<1>1. (m + n - 1) \div n \in Nat
  OBVIOUS
<1>2. (m + n - 1) - n < n * ((m + n - 1) \div n)
  OBVIOUS
<1> QED
  BY <1>1, <1>2 DEF DivUp

\* Multiplication with a positive number keeps the order.
LEMMA TimesMonotone ==
  ASSUME NEW n \in Int, n > 0, NEW k \in Int, NEW m \in Int, m >= k
  PROVE  n * k <= n * m
<1>1. n * (m - k) >= 0
  OBVIOUS
<1>2. n * (m - k) = n * m - n * k
  OBVIOUS
<1>3. n * m \in Int /\ n * k \in Int
  OBVIOUS
<1> QED
  BY <1>1, <1>2, <1>3

\* The body of Pace's loop.
PaceBody(bps, latency, buffer, inner, f) ==
  [k \in 0 .. Len(inner) |->
     IF k = 0 THEN [bytes |-> 0, at |-> latency]
     ELSE LET bytes == f[k - 1].bytes + Lesser(inner[k].offered, Asked(bps, buffer))
              now == f[k - 1].at + inner[k].delay
          IN  [bytes |-> bytes,
               at |-> IF bps <= 0 THEN now ELSE Larger(now, DivUp(bytes * Second, bps))]]

\* One Read goes on from the one before it.
LEMMA PaceEquation ==
  ASSUME NEW bps \in Int, NEW latency \in Nat, NEW buffer \in Nat, NEW inner \in Seq(Reads)
  PROVE  LET p == Pace(bps, latency, buffer, inner)
         IN  p \in [0 .. Len(inner) -> Pauses] /\ p = PaceBody(bps, latency, buffer, inner, p)
<1> DEFINE D == 0 .. Len(inner)
           F == [a \in D \X [D -> Pauses] |->
                   PaceBody(bps, latency, buffer, inner, a[2])[a[1]]]
           rank == [k \in D |-> k]
<1>1. Asked(bps, buffer) \in Nat
  BY DEF Asked, Lesser, Larger
<1>2. ASSUME NEW f \in [D -> Pauses], NEW k \in D
      PROVE  PaceBody(bps, latency, buffer, inner, f)[k] \in Pauses
  <2>1. CASE k = 0
    BY <2>1 DEF PaceBody, Pauses
  <2>2. CASE k # 0
    <3> DEFINE bytes == f[k - 1].bytes + Lesser(inner[k].offered, Asked(bps, buffer))
               now == f[k - 1].at + inner[k].delay
    <3>1. k - 1 \in D /\ f[k - 1] \in Pauses /\ inner[k] \in Reads
      BY <2>2
    <3>a. f[k - 1].bytes \in Nat /\ f[k - 1].at \in Nat
      BY <3>1 DEF Pauses
    <3>b. inner[k].offered \in Nat /\ inner[k].delay \in Nat
      BY <3>1 DEF Reads
    <3>c. Lesser(inner[k].offered, Asked(bps, buffer)) \in Nat
      BY <1>1, <3>b DEF Lesser
    <3>2. bytes \in Nat /\ now \in Nat
      <4> DEFINE x == Lesser(inner[k].offered, Asked(bps, buffer))
                 y == f[k - 1].bytes
                 z == f[k - 1].at
                 u == inner[k].delay
      <4>1. x \in Nat /\ y \in Nat /\ z \in Nat /\ u \in Nat
        BY <3>a, <3>b, <3>c, Zenon
      <4> HIDE DEF x, y, z, u
      <4>2. y + x \in Nat /\ z + u \in Nat
        BY <4>1
      <4> QED
        BY <4>2, Zenon DEF x, y, z, u
    <3> HIDE DEF bytes, now
    <3>3. ASSUME bps > 0 PROVE DivUp(bytes * Second, bps) \in Nat
      <4>1. bytes * Second \in Nat /\ bps \in Nat \ {0}
        BY <3>2, <3>3 DEF Second
      <4> QED
        BY <4>1, DivUpBounds
    <3>4. (IF bps <= 0 THEN now ELSE Larger(now, DivUp(bytes * Second, bps))) \in Nat
      BY <3>2, <3>3 DEF Larger
    <3>5. PaceBody(bps, latency, buffer, inner, f)[k] =
            [bytes |-> bytes,
             at |-> IF bps <= 0 THEN now ELSE Larger(now, DivUp(bytes * Second, bps))]
      BY <2>2 DEF PaceBody, bytes, now
    <3> QED
      BY <3>2, <3>4, <3>5 DEF Pauses
  <2> QED
    BY <2>1, <2>2
<1>3. F \in [D \X [D -> Pauses] -> Pauses]
  BY <1>2
<1>4. LooksBack(F, D, Pauses, rank)
  <2> SUFFICES ASSUME NEW x \in D, NEW f \in [D -> Pauses], NEW g \in [D -> Pauses],
                      \A y \in D : rank[y] < rank[x] => f[y] = g[y]
               PROVE  F[<<x, f>>] = F[<<x, g>>]
    BY <1>3 DEF LooksBack
  <2>1. x = 0 \/ f[x - 1] = g[x - 1]
    OBVIOUS
  <2> QED
    BY <2>1 DEF PaceBody
<1>5. Len(inner) \in Nat /\ rank \in [D -> 0 .. Len(inner)] /\ Pauses # {}
  <2>1. [bytes |-> 0, at |-> 0] \in Pauses
    BY DEF Pauses
  <2> QED
    BY <2>1
<1> HIDE DEF F, rank, D
<1>6. PICK f \in [D -> Pauses] : Obeys(f, F, D)
  BY <1>4, <1>5, RecursionExists
<1>7. f = PaceBody(bps, latency, buffer, inner, f)
  <2>1. \A x \in D : F[<<x, f>>] = PaceBody(bps, latency, buffer, inner, f)[x]
    BY DEF F
  <2>2. PaceBody(bps, latency, buffer, inner, f) =
          [x \in D |-> PaceBody(bps, latency, buffer, inner, f)[x]]
    BY DEF PaceBody, D
  <2> QED
    BY <1>6, <2>1, <2>2 DEF Obeys
<1> DEFINE p == Pace(bps, latency, buffer, inner)
<1>8. p = CHOOSE h : h = PaceBody(bps, latency, buffer, inner, h)
  BY DEF Pace, PaceBody
<1> HIDE DEF p
<1>9. p = PaceBody(bps, latency, buffer, inner, p)
  BY <1>7, <1>8
<1>10. \A k \in 0 .. Len(inner) : p[k] \in Pauses
  <2> DEFINE S == {k \in D : p[k] \in Pauses}
  <2>1. 0 \in S
    BY <1>9, <1>5 DEF PaceBody, D, Pauses
  <2>2. ASSUME NEW k \in 0 .. Len(inner) - 1, k \in S PROVE k + 1 \in S
    <3> DEFINE f1 == [x \in D |-> IF x = k THEN p[k] ELSE [bytes |-> 0, at |-> 0]]
    <3>1. f1 \in [D -> Pauses] /\ k + 1 \in D /\ k \in D /\ f1[k] = p[k]
      BY <1>5, <2>2 DEF D, Pauses
    <3> HIDE DEF f1
    <3>2. PaceBody(bps, latency, buffer, inner, f1)[k + 1] \in Pauses
      BY <1>2, <3>1
    <3>3. PaceBody(bps, latency, buffer, inner, f1)[k + 1] =
            PaceBody(bps, latency, buffer, inner, p)[k + 1]
      BY <3>1 DEF PaceBody, D
    <3> QED
      BY <1>9, <3>1, <3>2, <3>3
  <2> HIDE DEF S
  <2>3. \A k \in 0 .. Len(inner) : k \in S
    BY <1>5, <2>1, <2>2, UpTo
  <2> QED
    BY <2>3 DEF S
<1>11. p \in [D -> Pauses]
  BY <1>9, <1>10 DEF PaceBody, D
<1> QED
  BY <1>9, <1>11 DEF p, D

WaitedBody(inner, f) ==
  [k \in 0 .. Len(inner) |-> IF k = 0 THEN 0 ELSE f[k - 1] + inner[k].delay]

\* What the server took for k reads is what it took for those before, and the last delay.
LEMMA WaitedEquation ==
  ASSUME NEW inner \in Seq(Reads)
  PROVE  LET w == Waited(inner)
         IN  w \in [0 .. Len(inner) -> Nat] /\ w = WaitedBody(inner, w)
<1> DEFINE D == 0 .. Len(inner)
           F == [a \in D \X [D -> Nat] |-> WaitedBody(inner, a[2])[a[1]]]
           rank == [k \in D |-> k]
<1>1. Len(inner) \in Nat /\ rank \in [D -> 0 .. Len(inner)] /\ Nat # {}
  <2>1. 0 \in Nat
    OBVIOUS
  <2>2. Nat # {}
    BY <2>1
  <2>3. rank \in [D -> 0 .. Len(inner)]
    OBVIOUS
  <2> QED
    BY <2>2, <2>3
<1>2. ASSUME NEW k \in D, k # 0 PROVE k - 1 \in D /\ inner[k].delay \in Nat
  <2>1. k - 1 \in D /\ k \in 1 .. Len(inner)
    BY <1>1, <1>2
  <2>2. inner[k] \in Reads
    BY <2>1
  <2> QED
    BY <2>1, <2>2 DEF Reads
<1>3. F \in [D \X [D -> Nat] -> Nat]
  BY <1>2 DEF WaitedBody
<1>4. LooksBack(F, D, Nat, rank)
  <2> SUFFICES ASSUME NEW x \in D, NEW f \in [D -> Nat], NEW g \in [D -> Nat],
                      \A y \in D : rank[y] < rank[x] => f[y] = g[y]
               PROVE  F[<<x, f>>] = F[<<x, g>>]
    BY <1>3 DEF LooksBack
  <2>1. x = 0 \/ f[x - 1] = g[x - 1]
    OBVIOUS
  <2> QED
    BY <2>1 DEF WaitedBody
<1> HIDE DEF F, rank, D
<1>5. PICK f \in [D -> Nat] : Obeys(f, F, D)
  BY <1>1, <1>4, RecursionExists
<1>6. f = WaitedBody(inner, f)
  <2>1. \A x \in D : F[<<x, f>>] = WaitedBody(inner, f)[x]
    BY DEF F
  <2>2. WaitedBody(inner, f) = [x \in D |-> WaitedBody(inner, f)[x]]
    BY DEF WaitedBody, D
  <2> QED
    BY <1>5, <2>1, <2>2 DEF Obeys
<1> DEFINE w == Waited(inner)
<1>7. w = CHOOSE h : h = WaitedBody(inner, h)
  BY DEF Waited, WaitedBody
<1> HIDE DEF w
<1>8. w = WaitedBody(inner, w)
  BY <1>6, <1>7
<1>9. \A k \in 0 .. Len(inner) : w[k] \in Nat
  <2> DEFINE S == {k \in D : w[k] \in Nat}
  <2>1. 0 \in S
    BY <1>1, <1>8 DEF WaitedBody, D
  <2>2. ASSUME NEW k \in 0 .. Len(inner) - 1, k \in S PROVE k + 1 \in S
    <3>1. k + 1 \in D /\ k + 1 # 0 /\ (k + 1) - 1 = k
      BY <1>1 DEF D
    <3>2. w[k + 1] = w[k] + inner[k + 1].delay
      BY <1>8, <3>1 DEF WaitedBody, D
    <3> QED
      BY <1>2, <2>2, <3>1, <3>2
  <2> HIDE DEF S
  <2>3. \A k \in 0 .. Len(inner) : k \in S
    BY <1>1, <2>1, <2>2, UpTo
  <2> QED
    BY <2>3 DEF S
<1>10. w \in [D -> Nat]
  BY <1>8, <1>9 DEF WaitedBody, D
<1> QED
  BY <1>8, <1>10 DEF w, D

\* A bound on a moment moves on with the delay.
LEMMA LaterByDelay ==
  ASSUME NEW t \in Nat, NEW c \in Nat, NEW m \in Nat, NEW n \in Nat, NEW d \in Nat,
         t <= c + m - n
  PROVE  t + d <= c + (m + d) - n
OBVIOUS

\* Of three numbers each is at most the next.
LEMMA AtMostAtMost ==
  ASSUME NEW k \in Int, NEW m \in Int, NEW n \in Int, k <= m, m <= n
  PROVE  k <= n
OBVIOUS

\* A read that returns at t, when the k-th Read returns, is as slow as the slowest of the
\* latency, the bandwidth and the server.
SlowestUpTo(p, w, bps, latency, k) ==
  \E i \in 0 .. k :
     p[k].at <= (IF i = 0 THEN latency
                 ELSE Larger(latency, DivUp(p[i].bytes * Second, bps))) + w[k] - w[i]

\* What PaceIsBandwidth says of the k-th Read.
InTime(p, w, bps, latency, k) ==
  /\ p[k].at >= latency
  /\ bps > 0 => p[k].bytes * Second <= bps * p[k].at
  /\ bps <= 0 => p[k].at = latency + w[k]
  /\ bps > 0 => SlowestUpTo(p, w, bps, latency, k)

\* After every read the pace has been kept so far.
LEMMA PaceInTime ==
  ASSUME NEW bps \in Int, NEW latency \in Nat, NEW buffer \in Nat, NEW inner \in Seq(Reads)
  PROVE  \A k \in 0 .. Len(inner) :
           InTime(Pace(bps, latency, buffer, inner), Waited(inner), bps, latency, k)
<1> DEFINE p == Pace(bps, latency, buffer, inner)
           w == Waited(inner)
           S == {k \in 0 .. Len(inner) : InTime(p, w, bps, latency, k)}
<1>1. p \in [0 .. Len(inner) -> Pauses] /\ p = PaceBody(bps, latency, buffer, inner, p)
  BY PaceEquation
<1>2. w \in [0 .. Len(inner) -> Nat] /\ w = WaitedBody(inner, w)
  BY WaitedEquation
<1> HIDE DEF p, w
<1>3. Len(inner) \in Nat
  OBVIOUS
<1>4. 0 \in S
  <2>1. p[0] = [bytes |-> 0, at |-> latency] /\ w[0] = 0
    BY <1>1, <1>2, <1>3 DEF PaceBody, WaitedBody
  <2>2. bps > 0 => bps * latency >= 0
    OBVIOUS
  <2>3. 0 * Second <= bps * latency \/ ~ bps > 0
    BY <2>2 DEF Second
  <2>4. SlowestUpTo(p, w, bps, latency, 0)
    BY <2>1 DEF SlowestUpTo
  <2> QED
    BY <1>3, <2>1, <2>3, <2>4 DEF InTime
<1>5. ASSUME NEW k \in 0 .. Len(inner) - 1, k \in S PROVE k + 1 \in S
  <2> DEFINE n == k + 1
             d == inner[k + 1].delay
             bytes == p[k + 1].bytes
             now == p[k].at + inner[k + 1].delay
             sent == DivUp(p[k + 1].bytes * Second, bps)
  <2>1. n \in 1 .. Len(inner) /\ n # 0 /\ n - 1 = k /\ k \in 0 .. Len(inner) /\ n \in 0 .. Len(inner)
    BY <1>3
  <2>2. p[k].at \in Nat /\ p[n].at \in Nat /\ bytes \in Nat /\ d \in Nat /\ now \in Nat
        /\ w[k] \in Nat /\ w[n] \in Nat
    <3>1. p[k] \in Pauses /\ p[n] \in Pauses /\ inner[n] \in Reads
      BY <1>1, <2>1
    <3>2. p[k].at \in Nat /\ p[n].at \in Nat /\ bytes \in Nat /\ d \in Nat
      BY <3>1 DEF Pauses, Reads
    <3>3. w[k] \in Nat /\ w[n] \in Nat
      BY <1>2, <2>1
    <3>4. now = p[k].at + d
      OBVIOUS
    <3> HIDE DEF n, d, bytes, now
    <3>5. now \in Nat
      BY <3>2, <3>4
    <3> QED
      BY <3>2, <3>3, <3>5
  <2>3. w[n] = w[k] + d
    BY <1>2, <2>1 DEF WaitedBody
  <2>4. p[n].at = IF bps <= 0 THEN now ELSE Larger(now, sent)
    <3>1. p[n] = PaceBody(bps, latency, buffer, inner, p)[n]
      BY <1>1, Zenon
    <3> DEFINE b == p[k].bytes + Lesser(inner[n].offered, Asked(bps, buffer))
    <3>2. p[n] = [bytes |-> b,
                  at |-> IF bps <= 0 THEN now ELSE Larger(now, DivUp(b * Second, bps))]
      BY <2>1, <3>1 DEF PaceBody
    <3> HIDE DEF b
    <3>3. bytes = b
      BY <3>2
    <3> QED
      BY <3>2, <3>3
  <2>5. InTime(p, w, bps, latency, k)
    BY <1>5
  <2>6. ASSUME bps > 0 PROVE sent \in Nat /\ bytes * Second <= bps * sent
    <3>1. bytes * Second \in Nat /\ bps \in Nat \ {0}
      <4>1. bytes \in Nat /\ Second \in Nat
        BY <2>2 DEF Second
      <4>2. bytes * Second \in Nat
        <5> HIDE DEF bytes
        <5> QED
          BY <4>1
      <4>3. bps \in Nat \ {0}
        BY <2>6
      <4> QED
        BY <4>2, <4>3, Zenon
    <3> QED
      BY <3>1, DivUpBounds
  <2> HIDE DEF n, d, bytes, now, sent
  <2>7. p[n].at >= latency
    <3>1. now >= p[k].at
      BY <2>2 DEF now, d
    <3>2. p[n].at >= now
      BY <2>2, <2>4, <2>6 DEF Larger
    <3> QED
      BY <2>2, <2>5, <3>1, <3>2 DEF InTime
  <2>8. ASSUME bps > 0 PROVE bytes * Second <= bps * p[n].at
    <3>1. p[n].at >= sent
      BY <2>2, <2>4, <2>6, <2>8 DEF Larger
    <3>2. bps * sent <= bps * p[n].at
      <4>1. sent \in Int /\ p[n].at \in Int
        BY <2>2, <2>6, <2>8
      <4> QED
        BY <2>8, <3>1, <4>1, TimesMonotone
    <3>3. bytes * Second \in Int
      BY <2>2 DEF Second
    <3>4. bps * sent \in Int /\ bps * p[n].at \in Int
      BY <2>2, <2>6, <2>8
    <3>5. bytes * Second <= bps * sent
      BY <2>6, <2>8
    <3> QED
      BY <3>2, <3>3, <3>4, <3>5, AtMostAtMost
  <2>9. ASSUME bps <= 0 PROVE p[n].at = latency + w[n]
    <3>1. p[k].at = latency + w[k]
      BY <2>5, <2>9 DEF InTime
    <3>2. p[n].at = p[k].at + d
      BY <2>4, <2>9 DEF now, d
    <3> QED
      BY <2>2, <2>3, <3>1, <3>2
  <2>10. ASSUME bps > 0 PROVE SlowestUpTo(p, w, bps, latency, n)
    <3>1. CASE p[n].at = now
      <4>1. PICK i \in 0 .. k :
              p[k].at <= (IF i = 0 THEN latency
                          ELSE Larger(latency, DivUp(p[i].bytes * Second, bps))) + w[k] - w[i]
        BY <2>5, <2>10 DEF InTime, SlowestUpTo
      <4> DEFINE c == IF i = 0 THEN latency
                      ELSE Larger(latency, DivUp(p[i].bytes * Second, bps))
      <4>2. i \in 0 .. n /\ i \in 0 .. Len(inner) /\ w[i] \in Nat
        BY <1>2, <1>3, <2>1 DEF n
      <4>3. c \in Nat
        <5>1. p[i].bytes * Second \in Nat /\ bps \in Nat \ {0}
          BY <1>1, <2>10, <4>2 DEF Pauses, Second
        <5> HIDE DEF Second
        <5>2. DivUp(p[i].bytes * Second, bps) \in Nat
          BY <5>1, DivUpBounds
        <5> QED
          BY <5>2 DEF Larger
      <4>4. p[k].at <= c + w[k] - w[i]
        BY <4>1
      <4> HIDE DEF c
      <4>5. p[n].at = p[k].at + d
        BY <3>1 DEF now, d
      <4>6. p[n].at <= c + w[n] - w[i]
        <5>1. p[k].at + d <= c + (w[k] + d) - w[i]
          BY <2>2, <4>2, <4>3, <4>4, LaterByDelay
        <5> QED
          BY <2>3, <4>5, <5>1, Zenon
      <4> QED
        BY <4>2, <4>6 DEF c, SlowestUpTo
    <3>2. CASE p[n].at = sent
      <4>1. p[n].at <= Larger(latency, DivUp(p[n].bytes * Second, bps)) + w[n] - w[n]
        BY <2>2, <2>6, <2>10, <3>2 DEF sent, n, Larger
      <4>2. n \in 0 .. n /\ n # 0
        BY <2>1
      <4> QED
        BY <4>1, <4>2 DEF SlowestUpTo
    <3> QED
      BY <2>4, <2>10, <3>1, <3>2 DEF Larger
  <2> QED
    BY <2>1, <2>7, <2>8, <2>9, <2>10 DEF InTime, bytes, n
<1> HIDE DEF S
<1>6. \A k \in 0 .. Len(inner) : k \in S
  BY <1>3, <1>4, <1>5, UpTo
<1> QED
  BY <1>6 DEF S, p, w

PaceInv ==
  kind = "pace" =>
     /\ query \in PacedBodies
     /\ answer # << >> => answer = <<Pace(query[1], query[2], query[3], query[4])>>

\* PaceInv is inductive: the answer is the pace of what was asked.
LEMMA PaceInvInductive == PaceSpec => []PaceInv
<1>1. PaceInit => PaceInv
  BY DEF PaceInit, Ask, PaceInv
<1>2. PaceInv /\ [PaceNext]_queryVars => PaceInv'
  <2> SUFFICES ASSUME PaceInv, [PaceNext]_queryVars PROVE PaceInv'
    OBVIOUS
  <2>1. CASE ReadBodySlowly
    BY <2>1 DEF ReadBodySlowly, Answer, PaceInv
  <2>2. CASE ChangeThrottle
    <3>1. kind = "throttle" /\ kind' = kind
      BY <2>2 DEF ChangeThrottle, Answer
    <3> QED
      BY <3>1 DEF PaceInv
  <2>3. CASE UNCHANGED queryVars
    BY <2>3 DEF queryVars, PaceInv
  <2> QED
    BY <2>1, <2>2, <2>3 DEF PaceNext
<1> QED
  BY <1>1, <1>2, PTL DEF PaceSpec

\* throttle.Reader delivers a body no faster and no slower than the bandwidth, the latency
\* and the server allow: for every bandwidth, latency and buffer, however many reads there
\* are, whatever each offers and however long it takes.
THEOREM ThrottledBodyIsPaced == PaceSpec => []PaceIsBandwidth
<1>1. PaceInv => PaceIsBandwidth
  <2> SUFFICES ASSUME PaceInv, Answered("pace") PROVE PaceIsBandwidth
    BY DEF PaceIsBandwidth
  <2> DEFINE bps == query[1]
             latency == query[2]
             inner == query[4]
             p == Pace(query[1], query[2], query[3], query[4])
             w == Waited(query[4])
  <2>1. query \in PacedBodies /\ Result = p
    BY DEF PaceInv, Answered, Result
  <2>2. bps \in Int /\ latency \in Nat /\ query[3] \in Nat /\ inner \in Seq(Reads)
    BY <2>1, PacedAssumption DEF Reads
  <2>3. \A k \in 0 .. Len(inner) : InTime(p, w, bps, latency, k)
    BY <2>2, PaceInTime
  <2>4. ASSUME NEW k \in DOMAIN inner PROVE InTime(p, w, bps, latency, k)
    <3>1. k \in 0 .. Len(inner)
      BY <2>2
    <3> QED
      BY <2>3, <3>1
  <2> HIDE DEF bps, latency, inner, p, w
  <2> QED
    BY <2>1, <2>4 DEF PaceIsBandwidth, InTime, SlowestUpTo, bps, latency, inner, w
<1> QED
  BY <1>1, PaceInvInductive, PTL

-----------------------------------------------------------------------------
(* Sequences *)

\* The first n elements.
LEMMA SeqTake ==
  ASSUME NEW V, NEW s \in Seq(V), NEW n \in 0 .. Len(s)
  PROVE  /\ SubSeq(s, 1, n) \in Seq(V) /\ Len(SubSeq(s, 1, n)) = n
         /\ \A x \in 1 .. n : SubSeq(s, 1, n)[x] = s[x]
<1>1. Len(s) \in Nat /\ n \in Nat /\ 1 .. n \subseteq 1 .. Len(s)
  OBVIOUS
<1>2. SubSeq(s, 1, n) = [x \in 1 .. n |-> s[x]]
  BY <1>1
<1>3. \A x \in 1 .. n : s[x] \in V
  BY <1>1
<1>4. SubSeq(s, 1, n) \in [1 .. n -> V]
  BY <1>2, <1>3
<1> QED
  BY <1>1, <1>2, <1>4

\* All but the first n elements.
LEMMA SeqDrop ==
  ASSUME NEW V, NEW s \in Seq(V), NEW n \in 0 .. Len(s)
  PROVE  /\ SubSeq(s, n + 1, Len(s)) \in Seq(V) /\ Len(SubSeq(s, n + 1, Len(s))) = Len(s) - n
         /\ \A x \in 1 .. Len(s) - n : SubSeq(s, n + 1, Len(s))[x] = s[n + x]
<1>1. Len(s) \in Nat /\ n + 1 \in Int /\ Len(s) + 1 - (n + 1) = Len(s) - n /\ Len(s) - n \in Nat
  OBVIOUS
<1>2. SubSeq(s, n + 1, Len(s)) = [x \in 1 .. Len(s) - n |-> s[n + x]]
  <2>1. SubSeq(s, n + 1, Len(s)) = [x \in 1 .. Len(s) - n |-> s[x + (n + 1) - 1]]
    BY <1>1
  <2>2. \A x \in 1 .. Len(s) - n : x + (n + 1) - 1 = n + x
    BY <1>1
  <2> QED
    BY <2>1, <2>2 DEF Drop
<1>3. \A x \in 1 .. Len(s) - n : s[n + x] \in V
  <2> TAKE x \in 1 .. Len(s) - n
  <2>1. n + x \in 1 .. Len(s)
    BY <1>1
  <2> QED
    BY <2>1
<1>4. SubSeq(s, n + 1, Len(s)) \in [1 .. Len(s) - n -> V]
  BY <1>2, <1>3
<1>5. SubSeq(s, n + 1, Len(s)) \in Seq(V)
  BY <1>1, <1>4
<1>6. Len(SubSeq(s, n + 1, Len(s))) = Len(s) - n
  BY <1>1, <1>4, <1>5
<1> QED
  BY <1>2, <1>5, <1>6

\* Two sequences in a row.
LEMMA SeqJoin ==
  ASSUME NEW V, NEW a \in Seq(V), NEW b \in Seq(V)
  PROVE  /\ a \o b \in Seq(V) /\ Len(a \o b) = Len(a) + Len(b)
         /\ \A x \in 1 .. Len(a) : (a \o b)[x] = a[x]
         /\ \A x \in 1 .. Len(b) : (a \o b)[Len(a) + x] = b[x]
OBVIOUS

-----------------------------------------------------------------------------
(* Strings *)

\* The prefixes of a string, character by character.
LEMMA PrefixMeans ==
  ASSUME NEW a \in Text, NEW s \in Text
  PROVE  IsPrefix(a, s) <=> /\ Len(a) <= Len(s)
                            /\ \A x \in 1 .. Len(a) : s[x] = a[x]
<1>1. CASE Len(a) <= Len(s)
  <2>1. SubSeq(a, 1, Len(a)) = [x \in 1 .. Len(a) |-> a[x]]
    BY DEF Text
  <2>2. SubSeq(s, 1, Len(a)) = [x \in 1 .. Len(a) |-> s[x]]
    BY <1>1 DEF Text
  <2>3. [x \in 1 .. Len(a) |-> a[x]] = [x \in 1 .. Len(a) |-> s[x]]
          <=> \A x \in 1 .. Len(a) : s[x] = a[x]
    OBVIOUS
  <2> QED
    BY <1>1, <2>1, <2>2, <2>3 DEF IsPrefix
<1>2. CASE ~ Len(a) <= Len(s)
  BY <1>2 DEF IsPrefix
<1> QED
  BY <1>1, <1>2

\* The suffixes of a string, character by character.
LEMMA SuffixMeans ==
  ASSUME NEW a \in Text, NEW s \in Text
  PROVE  IsSuffix(a, s) <=> /\ Len(a) <= Len(s)
                            /\ \A x \in 1 .. Len(a) : s[Len(s) - Len(a) + x] = a[x]
<1>1. Reverse(a) \in Text /\ Len(Reverse(a)) = Len(a)
      /\ \A x \in 1 .. Len(a) : Reverse(a)[x] = a[Len(a) - x + 1]
  BY DEF Reverse, Text
<1>2. Reverse(s) \in Text /\ Len(Reverse(s)) = Len(s)
      /\ \A x \in 1 .. Len(s) : Reverse(s)[x] = s[Len(s) - x + 1]
  BY DEF Reverse, Text
<1>3. IsSuffix(a, s) <=> /\ Len(a) <= Len(s)
                         /\ \A x \in 1 .. Len(a) : Reverse(s)[x] = Reverse(a)[x]
  BY <1>1, <1>2, PrefixMeans DEF IsSuffix
<1>4. Len(a) \in Nat /\ Len(s) \in Nat
  BY DEF Text
<1>5. ASSUME Len(a) <= Len(s)
      PROVE  (\A x \in 1 .. Len(a) : Reverse(s)[x] = Reverse(a)[x])
               <=> \A x \in 1 .. Len(a) : s[Len(s) - Len(a) + x] = a[x]
  <2>1. ASSUME \A x \in 1 .. Len(a) : Reverse(s)[x] = Reverse(a)[x], NEW x \in 1 .. Len(a)
        PROVE  s[Len(s) - Len(a) + x] = a[x]
    <3> DEFINE y == Len(a) - x + 1
    <3>1. y \in 1 .. Len(a) /\ y \in 1 .. Len(s) /\ Len(a) - y + 1 = x
          /\ Len(s) - y + 1 = Len(s) - Len(a) + x
      BY <1>4, <1>5
    <3> HIDE DEF y
    <3> QED
      BY <1>1, <1>2, <2>1, <3>1
  <2>2. ASSUME \A x \in 1 .. Len(a) : s[Len(s) - Len(a) + x] = a[x], NEW x \in 1 .. Len(a)
        PROVE  Reverse(s)[x] = Reverse(a)[x]
    <3> DEFINE y == Len(a) - x + 1
    <3>1. y \in 1 .. Len(a) /\ x \in 1 .. Len(s) /\ Len(a) - x + 1 = y
          /\ Len(s) - x + 1 = Len(s) - Len(a) + y
      BY <1>4, <1>5
    <3> HIDE DEF y
    <3> QED
      BY <1>1, <1>2, <2>2, <3>1
  <2> QED
    BY <2>1, <2>2
<1> QED
  BY <1>3, <1>5

\* A string has a length.
LEMMA TextLength == ASSUME NEW s \in Text PROVE Len(s) \in Nat
BY DEF Text

\* strings.ToLower keeps the length and everything but the case.
LEMMA ToLowerKeeps ==
  ASSUME NEW s \in Text
  PROVE  /\ ToLower(s) \in Text /\ Len(ToLower(s)) = Len(s)
         /\ \A i \in DOMAIN s : \A c \in {"*", ".", ":", "/"} : ToLower(s)[i] = c <=> s[i] = c
<1>1. ToLower(s) = [i \in 1 .. Len(s) |-> IF s[i] = "A" THEN "a" ELSE s[i]]
  BY DEF ToLower, Text
<1>2. \A i \in 1 .. Len(s) : s[i] \in Chars
  BY DEF Text
<1>3. \A i \in 1 .. Len(s) : ToLower(s)[i] = IF s[i] = "A" THEN "a" ELSE s[i]
  BY <1>1
<1>4. ToLower(s) \in Text /\ Len(ToLower(s)) = Len(s)
  <2>1. Len(s) \in Nat
    BY DEF Text
  <2>2. \A i \in 1 .. Len(s) : (IF s[i] = "A" THEN "a" ELSE s[i]) \in Chars
    BY <1>2, CharAssumption
  <2>3. ToLower(s) \in [1 .. Len(s) -> Chars]
    BY <1>1, <2>2
  <2> HIDE DEF ToLower
  <2> QED
    BY <2>1, <2>3 DEF Text
<1>5. DOMAIN s = 1 .. Len(s)
  BY DEF Text
<1> QED
  BY <1>3, <1>4, <1>5

\* Strings of one length with the same characters are the same.
LEMMA SameText ==
  ASSUME NEW a \in Text, NEW b \in Text, Len(a) = Len(b), \A i \in 1 .. Len(a) : a[i] = b[i]
  PROVE  a = b
BY SeqEqual DEF Text

-----------------------------------------------------------------------------
(* What a glob describes *)

\* e is the function that Glob computes.
AreEnds(e, p, s) ==
  /\ e \in [0 .. Len(p) -> SUBSET (0 .. Len(s))]
  /\ e[0] = {0}
  /\ \A i \in 1 .. Len(p) :
       e[i] = IF p[i] = "*" THEN {k \in 0 .. Len(s) : \E j \in e[i - 1] : j <= k}
              ELSE {k \in 1 .. Len(s) : k - 1 \in e[i - 1] /\ s[k] = p[i]}

\* One character of the pattern.
OneMore(p, s, i, before) ==
  IF p[i] = "*" THEN {k \in 0 .. Len(s) : \E j \in before : j <= k}
  ELSE {k \in 1 .. Len(s) : k - 1 \in before /\ s[k] = p[i]}

GlobBody(p, s, f) ==
  [i \in 0 .. Len(p) |-> IF i = 0 THEN {0} ELSE OneMore(p, s, i, f[i - 1])]

\* A string fits a glob when its end is one of the places where the glob can end in it.
LEMMA GlobEnds ==
  ASSUME NEW p \in Text, NEW s \in Text
  PROVE  \E e : AreEnds(e, p, s) /\ (Glob(p, s) <=> Len(s) \in e[Len(p)])
<1> DEFINE n == Len(p)
           V == SUBSET (0 .. Len(s))
           Step == [c \in (1 .. n) \X V |-> OneMore(p, s, c[1], c[2])]
           e == CHOOSE f : f = GlobBody(p, s, f)
<1>1. n \in Nat /\ Len(s) \in Nat
  BY DEF Text
<1>2. {0} \in V
  BY <1>1
<1>3. \A i, before : OneMore(p, s, i, before) \in V
  BY <1>1 DEF OneMore
<1>4. Step \in [(1 .. n) \X V -> V]
  BY <1>3
<1>5. Glob(p, s) <=> Len(s) \in e[Len(p)]
  BY DEF Glob, GlobBody, OneMore
<1> HIDE DEF n, V, e
<1>6. PICK f \in [0 .. n -> V] : IsLoop(f, n, {0}, Step)
  <2> HIDE DEF Step
  <2> QED
    BY <1>1, <1>2, <1>4, LoopExists
<1>7. f = GlobBody(p, s, f)
  <2>1. \A i \in 0 .. n : f[i] = GlobBody(p, s, f)[i]
    <3> TAKE i \in 0 .. n
    <3>1. GlobBody(p, s, f)[i] = IF i = 0 THEN {0} ELSE OneMore(p, s, i, f[i - 1])
      BY DEF GlobBody, n
    <3>2. f[i] = IF i = 0 THEN {0} ELSE Step[<<i, f[i - 1]>>]
      BY <1>6 DEF IsLoop
    <3>3. ASSUME i # 0 PROVE Step[<<i, f[i - 1]>>] = OneMore(p, s, i, f[i - 1])
      <4>1. i \in 1 .. n /\ i - 1 \in 0 .. n
        BY <1>1, <3>3
      <4>2. f[i - 1] \in V
        BY <4>1
      <4> QED
        BY <4>1, <4>2
    <3> QED
      BY <3>1, <3>2, <3>3
  <2>2. GlobBody(p, s, f) = [i \in 0 .. n |-> GlobBody(p, s, f)[i]]
    BY DEF GlobBody, n
  <2> QED
    BY <2>1, <2>2
<1>8. e = GlobBody(p, s, e)
  BY <1>7 DEF e
<1>9. e[0] = {0} /\ \A i \in 1 .. n : e[i] = OneMore(p, s, i, e[i - 1])
  <2>1. ASSUME NEW i \in 0 .. n
        PROVE  e[i] = IF i = 0 THEN {0} ELSE OneMore(p, s, i, e[i - 1])
    BY <1>8 DEF GlobBody, n
  <2>2. 0 \in 0 .. n /\ \A i \in 1 .. n : i \in 0 .. n /\ i # 0
    BY <1>1
  <2> QED
    BY <2>1, <2>2
<1>10. \A i \in 0 .. n : e[i] \in V
  <2>1. e[0] \in V /\ \A i \in 1 .. n : e[i - 1] \in V => e[i] \in V
    BY <1>2, <1>3, <1>9
  <2> QED
    BY <1>1, <2>1, LoopTyped
<1>11. e \in [0 .. n -> V]
  BY <1>8, <1>10 DEF GlobBody, n
<1>12. AreEnds(e, p, s)
  BY <1>9, <1>11 DEF AreEnds, OneMore, n, V
<1> QED
  BY <1>5, <1>12

\* From place k on, s has the m characters that p has from place b on.
Occurs(s, k, p, b, m) == \A x \in 1 .. m : s[k + x] = p[b + x]

\* A part without stars stands for itself.
LEMMA LiteralEnds ==
  ASSUME NEW p \in Text, NEW s \in Text, NEW e, AreEnds(e, p, s),
         NEW b \in Nat, NEW m \in Nat, b + m <= Len(p), \A x \in 1 .. m : p[b + x] # "*"
  PROVE  \A k \in 0 .. Len(s) :
           k \in e[b + m] <=> k >= m /\ k - m \in e[b] /\ Occurs(s, k - m, p, b, m)
<1> DEFINE Claim(n) == \A k \in 0 .. Len(s) :
             k \in e[b + n] <=> k >= n /\ k - n \in e[b] /\ Occurs(s, k - n, p, b, n)
           S == {n \in 0 .. m : Claim(n)}
<1>1. Len(p) \in Nat /\ Len(s) \in Nat
  BY DEF Text
<1>2. 0 \in S
  BY <1>1 DEF Occurs
<1>3. ASSUME NEW n \in 0 .. m - 1, n \in S PROVE n + 1 \in S
  <2>1. b + (n + 1) \in 1 .. Len(p) /\ (b + (n + 1)) - 1 = b + n /\ n + 1 \in 1 .. m
    BY <1>1
  <2>2. e[b + (n + 1)] = {k \in 1 .. Len(s) : k - 1 \in e[b + n] /\ s[k] = p[b + (n + 1)]}
    BY <2>1 DEF AreEnds
  <2>3. ASSUME NEW k \in 0 .. Len(s)
        PROVE  k \in e[b + (n + 1)] <=>
                 k >= n + 1 /\ k - (n + 1) \in e[b] /\ Occurs(s, k - (n + 1), p, b, n + 1)
    <3>1. CASE k = 0
      BY <1>3, <2>2, <3>1
    <3>2. CASE k # 0
      <4>1. k - 1 \in 0 .. Len(s) /\ k \in 1 .. Len(s)
        BY <1>1, <3>2
      <4>2. k \in e[b + (n + 1)] <=> k - 1 \in e[b + n] /\ s[k] = p[b + (n + 1)]
        BY <2>2, <4>1
      <4>3. k - 1 \in e[b + n] <=>
              k - 1 >= n /\ (k - 1) - n \in e[b] /\ Occurs(s, (k - 1) - n, p, b, n)
        BY <1>3, <4>1
      <4>4. (k - 1) - n = k - (n + 1) /\ (k - 1 >= n <=> k >= n + 1)
        BY <1>1
      <4>5. Occurs(s, k - (n + 1), p, b, n + 1) <=>
              Occurs(s, k - (n + 1), p, b, n) /\ s[k] = p[b + (n + 1)]
        <5>1. (k - (n + 1)) + (n + 1) = k
          BY <1>1
        <5>2. \A x : x \in 1 .. n + 1 <=> x \in 1 .. n \/ x = n + 1
          OBVIOUS
        <5> QED
          BY <5>1, <5>2 DEF Occurs
      <4> QED
        BY <4>2, <4>3, <4>4, <4>5
    <3> QED
      BY <3>1, <3>2
  <2> QED
    BY <2>1, <2>3
<1> HIDE DEF S
<1>4. \A n \in 0 .. m : n \in S
  BY <1>2, <1>3, UpTo
<1>5. m \in 0 .. m
  OBVIOUS
<1> QED
  BY <1>4, <1>5 DEF S

\* A pattern without stars describes itself.
LEMMA GlobWithoutStars ==
  ASSUME NEW p \in Text, Without("*", p), NEW s \in Text
  PROVE  Glob(p, s) <=> p = s
<1>1. PICK e : AreEnds(e, p, s) /\ (Glob(p, s) <=> Len(s) \in e[Len(p)])
  BY GlobEnds
<1>2. Len(p) \in Nat /\ Len(s) \in Nat /\ DOMAIN p = 1 .. Len(p)
  BY DEF Text
<1>3. \A k \in 0 .. Len(s) :
        k \in e[Len(p)] <=>
          k >= Len(p) /\ k - Len(p) \in e[0] /\ Occurs(s, k - Len(p), p, 0, Len(p))
  <2>1. \A x \in 1 .. Len(p) : p[0 + x] # "*"
    BY <1>2 DEF Without
  <2> QED
    <3> DEFINE b == 0
    <3>1. b \in Nat /\ b + Len(p) = Len(p) /\ b + Len(p) <= Len(p) /\ \A x \in 1 .. Len(p) : p[b + x] # "*"
      BY <1>2, <2>1
    <3> HIDE DEF b
    <3>2. \A k \in 0 .. Len(s) :
            k \in e[b + Len(p)] <=>
              k >= Len(p) /\ k - Len(p) \in e[b] /\ Occurs(s, k - Len(p), p, b, Len(p))
      BY <1>1, <1>2, <3>1, LiteralEnds, Zenon
    <3> QED
      BY <3>1, <3>2 DEF b
<1>4. Glob(p, s) <=> /\ Len(s) >= Len(p) /\ Len(s) - Len(p) = 0
                     /\ Occurs(s, Len(s) - Len(p), p, 0, Len(p))
  <2>1. Len(s) \in 0 .. Len(s) /\ e[0] = {0}
    BY <1>1, <1>2 DEF AreEnds
  <2> QED
    BY <1>1, <1>3, <2>1
<1>5. ASSUME Glob(p, s) PROVE p = s
  <2>1. Len(s) = Len(p) /\ Len(s) - Len(p) = 0
    <3>1. Len(s) - Len(p) = 0
      BY <1>4, <1>5, Zenon
    <3> QED
      BY <1>2, <3>1 DEF Text
  <2>2. \A x \in 1 .. Len(p) : s[0 + x] = p[0 + x]
    BY <1>4, <1>5, <2>1 DEF Occurs
  <2>3. \A x \in 1 .. Len(p) : p[x] = s[x]
    BY <1>2, <2>2
  <2> QED
    BY <2>1, <2>3, SameText
<1>6. ASSUME p = s PROVE Glob(p, s)
  <2>1. Len(s) >= Len(p) /\ Len(s) - Len(p) = 0
    BY <1>2, <1>6
  <2>2. Occurs(s, 0, p, 0, Len(p))
    BY <1>6 DEF Occurs
  <2> QED
    BY <1>4, <2>1, <2>2
<1> QED
  BY <1>5, <1>6

\* A star and a part without stars describe the strings with that suffix.
LEMMA GlobStarFirst ==
  ASSUME NEW p \in Text, Len(p) > 0, p[1] = "*", \A i \in 2 .. Len(p) : p[i] # "*",
         NEW s \in Text
  PROVE  Glob(p, s) <=> IsSuffix(Tail(p), s)
<1> DEFINE m == Len(p) - 1
<1>1. PICK e : AreEnds(e, p, s) /\ (Glob(p, s) <=> Len(s) \in e[Len(p)])
  BY GlobEnds
<1>2. Len(p) \in Nat /\ Len(s) \in Nat /\ m \in Nat /\ 1 + m = Len(p)
  BY DEF Text
<1>3. e[1] = 0 .. Len(s)
  <2>1. 1 \in 1 .. Len(p) /\ 1 - 1 = 0
    BY <1>2
  <2>2. e[1] = {k \in 0 .. Len(s) : \E j \in e[0] : j <= k}
    BY <1>1, <2>1 DEF AreEnds
  <2>3. e[0] = {0}
    BY <1>1 DEF AreEnds
  <2> QED
    BY <2>2, <2>3
<1>4. Tail(p) \in Text /\ Len(Tail(p)) = m /\ \A x \in 1 .. m : Tail(p)[x] = p[1 + x]
  BY <1>2 DEF Text
<1> HIDE DEF m
<1>5. \A k \in 0 .. Len(s) :
        k \in e[1 + m] <=> k >= m /\ k - m \in e[1] /\ Occurs(s, k - m, p, 1, m)
  <2>1. \A x \in 1 .. m : p[1 + x] # "*"
    BY <1>2
  <2>2. 1 + m <= Len(p)
    BY <1>2
  <2> QED
    BY <1>1, <1>2, <2>1, <2>2, LiteralEnds
<1>6. Glob(p, s) <=> Len(s) >= m /\ Len(s) - m \in e[1] /\ Occurs(s, Len(s) - m, p, 1, m)
  <2>1. Len(s) \in 0 .. Len(s)
    BY <1>2
  <2> QED
    BY <1>1, <1>2, <1>5, <2>1
<1>7. Len(s) >= m => Len(s) - m \in e[1]
  BY <1>2, <1>3
<1>8. Occurs(s, Len(s) - m, p, 1, m) <=> \A x \in 1 .. m : s[Len(s) - m + x] = Tail(p)[x]
  BY <1>4 DEF Occurs
<1> QED
  BY <1>2, <1>4, <1>6, <1>7, <1>8, SuffixMeans

-----------------------------------------------------------------------------
(* The host filter and the schemas of a host *)

\* What matchHost and Resolve look for in a host is what the pattern says.
LEMMA HostPatternMeans ==
  ASSUME NEW p, IsHostPattern(p), NEW h \in Text
  PROVE  Glob(p, h) <=> IF IsPrefix(<<"*", ".">>, p) THEN IsSuffix(Tail(p), h) ELSE p = h
<1>1. p \in Text /\ Len(p) \in Nat /\ DOMAIN p = 1 .. Len(p)
  BY DEF IsHostPattern, Text
<1>2. IsPrefix(<<"*", ".">>, p) <=> Len(p) > 0 /\ p[1] = "*"
  <2>1. IsPrefix(<<"*", ".">>, p) <=> Len(p) >= 2 /\ p[1] = "*" /\ p[2] = "."
    <3> DEFINE start == <<"*", ".">>
    <3>1. start \in Text /\ Len(start) = 2 /\ start[1] = "*" /\ start[2] = "."
      BY CharAssumption DEF Text
    <3> HIDE DEF start
    <3>2. IsPrefix(start, p) <=> 2 <= Len(p) /\ \A x \in 1 .. 2 : p[x] = start[x]
      BY <1>1, <3>1, PrefixMeans
    <3> QED
      BY <1>1, <3>1, <3>2 DEF start
  <2>2. ASSUME Len(p) > 0, p[1] = "*" PROVE Len(p) >= 2 /\ p[2] = "."
    <3>1. 1 \in DOMAIN p
      BY <1>1, <2>2
    <3> QED
      BY <1>1, <2>2, <3>1 DEF IsHostPattern
  <2> QED
    BY <1>1, <2>1, <2>2
<1>3. CASE IsPrefix(<<"*", ".">>, p)
  <2>1. \A i \in 2 .. Len(p) : p[i] # "*"
    BY <1>1 DEF IsHostPattern
  <2> QED
    BY <1>1, <1>2, <1>3, <2>1, GlobStarFirst
<1>4. CASE ~ IsPrefix(<<"*", ".">>, p)
  <2>1. Without("*", p)
    BY <1>1, <1>2, <1>4 DEF IsHostPattern, Without
  <2> QED
    BY <1>1, <1>4, <2>1, GlobWithoutStars
<1> QED
  BY <1>3, <1>4

\* The host of a request, without the port that the client may have given.
LEMMA HostOfRequest ==
  ASSUME NEW name, IsHostName(name), NEW port, IsPort(port)
  PROVE  StripPort(HostText(name, port)) = name
<1>1. name \in Text /\ Len(name) \in Nat /\ DOMAIN name = 1 .. Len(name)
      /\ \A i \in 1 .. Len(name) : name[i] # ":"
  BY DEF IsHostName, Without, Text
<1>2. port \in Text /\ Len(port) \in Nat /\ \A i \in 1 .. Len(port) : port[i] # ":"
  BY DEF IsPort, Without, Text
<1>3. CASE port = << >>
  BY <1>1, <1>3 DEF StripPort, HostText
<1>4. CASE port # << >>
  <2> DEFINE host == HostText(name, port)
             n == Len(name) + 1
             colons == {i \in DOMAIN host : host[i] = ":"}
  <2>1. host = (name \o <<":">>) \o port /\ <<":">> \in Text
    BY <1>4, CharAssumption DEF HostText, Text
  <2>2. host \in Text /\ Len(host) = n + Len(port)
        /\ (\A i \in 1 .. Len(name) : host[i] = name[i]) /\ host[n] = ":"
        /\ \A i \in 1 .. Len(port) : host[n + i] = port[i]
    <3> DEFINE front == name \o <<":">>
    <3>1. front \in Text /\ Len(front) = n /\ front[n] = ":"
          /\ \A i \in 1 .. Len(name) : front[i] = name[i]
      BY <1>1, <2>1 DEF Text
    <3> HIDE DEF front, host
    <3> QED
      BY <1>1, <1>2, <2>1, <3>1 DEF Text, front
  <2>3. DOMAIN host = 1 .. n + Len(port)
    BY <2>2 DEF Text
  <2> HIDE DEF host
  <2>4. ASSUME NEW i \in 1 .. n + Len(port), host[i] = ":" PROVE i = n
    <3>1. CASE i < n
      BY <1>1, <2>2, <2>4, <3>1
    <3>2. CASE i > n
      <4>1. i - n \in 1 .. Len(port) /\ n + (i - n) = i
        BY <1>1, <1>2, <3>2
      <4> QED
        BY <1>2, <2>2, <2>4, <4>1
    <3> QED
      BY <1>1, <3>1, <3>2
  <2>5. colons = {n}
    BY <1>1, <1>2, <2>2, <2>3, <2>4
  <2>6. StripPort(host) = SubSeq(host, 1, n - 1)
    <3>1. (CHOOSE i \in colons : \A j \in colons : j <= i) = n
      BY <1>1, <2>5
    <3>2. colons # {}
      BY <2>5
    <3> HIDE DEF colons
    <3> QED
      BY <3>1, <3>2 DEF StripPort, colons
  <2>7. SubSeq(host, 1, n - 1) = name
    <3>1. SubSeq(host, 1, Len(name)) \in Text /\ Len(SubSeq(host, 1, Len(name))) = Len(name)
          /\ \A i \in 1 .. Len(name) : SubSeq(host, 1, Len(name))[i] = name[i]
      <4>1. 1 + Len(name) - 1 = Len(name) /\ 1 .. Len(name) \subseteq 1 .. Len(host)
        BY <1>1, <1>2, <2>2
      <4>2. SubSeq(host, 1, Len(name)) = [i \in 1 .. Len(name) |-> host[i]]
        BY <1>1, <2>2 DEF Text
      <4>3. SubSeq(host, 1, Len(name)) \in [1 .. Len(name) -> Chars]
        <5>1. \A i \in 1 .. Len(name) : host[i] \in Chars
          BY <2>2, <4>1 DEF Text
        <5> QED
          BY <4>2, <5>1
      <4> QED
        BY <1>1, <2>2, <4>2, <4>3 DEF Text
    <3>2. n - 1 = Len(name)
      BY <1>1
    <3> QED
      BY <1>1, <3>1, <3>2, SameText
  <2> QED
    BY <2>6, <2>7 DEF host
<1> QED
  BY <1>3, <1>4

\* The lower-case form of a pattern of the documented form is one, and a host has no dot
\* in front in either case.
LEMMA LowerPattern ==
  ASSUME NEW p, IsHostPattern(p)
  PROVE  IsHostPattern(ToLower(p))
<1>1. p \in Text /\ DOMAIN p = 1 .. Len(p) /\ Len(p) \in Nat
  BY DEF IsHostPattern, Text
<1>2. ToLower(p) \in Text /\ Len(ToLower(p)) = Len(p)
      /\ \A i \in DOMAIN p : \A c \in {"*", ".", ":", "/"} : ToLower(p)[i] = c <=> p[i] = c
  BY <1>1, ToLowerKeeps
<1>3. DOMAIN ToLower(p) = DOMAIN p
  BY <1>1, <1>2 DEF Text
<1>4. ASSUME NEW i \in DOMAIN ToLower(p), ToLower(p)[i] = "*"
      PROVE  i = 1 /\ Len(ToLower(p)) > 1 /\ ToLower(p)[2] = "."
  <2>1. i \in DOMAIN p /\ p[i] = "*"
    BY <1>2, <1>3, <1>4
  <2>2. i = 1 /\ Len(p) > 1 /\ p[2] = "."
    BY <2>1 DEF IsHostPattern
  <2>3. 2 \in DOMAIN p
    BY <1>1, <2>2
  <2> QED
    BY <1>2, <2>2, <2>3
<1> QED
  BY <1>2, <1>4 DEF IsHostPattern

\* A host name in lower case is a host name still: not empty, and without a dot in front.
LEMMA LowerHost ==
  ASSUME NEW n, IsHostName(n)
  PROVE  n \in Text /\ ToLower(n) \in Text /\ Len(ToLower(n)) > 0 /\ ToLower(n)[1] # "."
<1>1. n \in Text /\ n # << >> /\ n[1] # "."
  BY DEF IsHostName
<1>2. Len(n) > 0 /\ 1 \in DOMAIN n
  BY <1>1 DEF Text
<1> QED
  BY <1>1, <1>2, ToLowerKeeps

\* The host filter takes a host for listed exactly if a pattern describes it.
LEMMA MatchHostMeans ==
  ASSUME NEW p, IsHostPattern(p), NEW h \in Text
  PROVE  matchHost(p, h) <=> Glob(ToLower(p), h)
<1>1. IsHostPattern(ToLower(p))
  BY LowerPattern
<1> QED
  BY <1>1, HostPatternMeans DEF matchHost

\* What FilterIsGlob says, of every two lists, name and port.
LEMMA ShouldInterceptMeans ==
  ASSUME NEW block \in Seq(Text), \A i \in DOMAIN block : IsHostPattern(block[i]),
         NEW allow \in Seq(Text), \A i \in DOMAIN allow : IsHostPattern(allow[i]),
         NEW name, IsHostName(name), NEW port, IsPort(port)
  PROVE  ShouldIntercept(block, allow, HostText(name, port)) <=>
           IF allow # << >>
             THEN \E i \in DOMAIN allow : Glob(ToLower(allow[i]), ToLower(name))
             ELSE ~ \E i \in DOMAIN block : Glob(ToLower(block[i]), ToLower(name))
<1> DEFINE h == ToLower(name)
<1>1. StripPort(HostText(name, port)) = name
  BY HostOfRequest
<1>2. h \in Text
  BY LowerHost
<1> HIDE DEF h
<1>3. \A i \in DOMAIN allow : matchHost(allow[i], h) <=> Glob(ToLower(allow[i]), h)
  BY <1>2, MatchHostMeans
<1>4. \A i \in DOMAIN block : matchHost(block[i], h) <=> Glob(ToLower(block[i]), h)
  BY <1>2, MatchHostMeans
<1>5. Len(allow) > 0 <=> allow # << >>
  OBVIOUS
<1>6. ShouldIntercept(block, allow, HostText(name, port)) <=>
        IF Len(allow) > 0 THEN \E i \in DOMAIN allow : matchHost(allow[i], h)
        ELSE ~ \E i \in DOMAIN block : matchHost(block[i], h)
  BY <1>1 DEF ShouldIntercept, h
<1> QED
  BY <1>3, <1>4, <1>5, <1>6 DEF h

\* What SchemaIsOfHost says, of every set of keys, name and port.
LEMMA ResolveMeans ==
  ASSUME NEW patterns, \A p \in patterns : IsHostPattern(p) /\ p # << >>,
         NEW name, IsHostName(name), NEW port, IsPort(port),
         NEW r \in Resolve(patterns, HostText(name, port))
  PROVE  LET host == ToLower(name)
             keys == {p \in patterns : Glob(p, host)}
         IN  /\ r = Fallback <=> keys = {}
             /\ host \in keys => r = host
             /\ keys # {} => r \in keys
<1> DEFINE h == ToLower(name)
           keys == {p \in patterns : Glob(p, h)}
           wild == {p \in patterns : IsPrefix(<<"*", ".">>, p) /\ matchHostPattern(p, h)}
<1>1. StripPort(HostText(name, port)) = name
  BY HostOfRequest
<1>2. h \in Text /\ Len(h) > 0 /\ h[1] # "."
  BY LowerHost
<1>3. r \in (IF h \in patterns THEN {h} ELSE IF wild = {} THEN {Fallback} ELSE wild)
  BY <1>1 DEF Resolve
<1> HIDE DEF h
<1>4. ASSUME NEW p \in patterns
      PROVE  Glob(p, h) <=> p = h \/ (IsPrefix(<<"*", ".">>, p) /\ matchHostPattern(p, h))
  <2>1. IsHostPattern(p) /\ p \in Text /\ Len(p) \in Nat /\ DOMAIN p = 1 .. Len(p)
    BY DEF IsHostPattern, Text
  <2>2. Glob(p, h) <=> IF IsPrefix(<<"*", ".">>, p) THEN IsSuffix(Tail(p), h) ELSE p = h
    BY <1>2, <2>1, HostPatternMeans
  <2>3. CASE IsPrefix(<<"*", ".">>, p)
    <3> DEFINE t == Tail(p)
    <3>1. Len(p) >= 2 /\ p[1] = "*" /\ p[2] = "."
      <4> DEFINE start == <<"*", ".">>
      <4>1. start \in Text /\ Len(start) = 2 /\ start[1] = "*" /\ start[2] = "."
        BY CharAssumption DEF Text
      <4> HIDE DEF start
      <4>2. IsPrefix(start, p) <=> 2 <= Len(p) /\ \A x \in 1 .. 2 : p[x] = start[x]
        BY <2>1, <4>1, PrefixMeans
      <4> QED
        BY <2>1, <2>3, <4>1, <4>2 DEF start
    <3>2. t \in Text /\ Len(t) = Len(p) - 1 /\ t[1] = "." /\ 1 \in 1 .. Len(t)
      BY <2>1, <3>1 DEF Text
    <3> HIDE DEF t
    <3>3. IsSuffix(t, h) => Len(h) >= Len(t) /\ h[Len(h) - Len(t) + 1] = "."
      BY <1>2, <3>2, SuffixMeans
    <3>4. IsSuffix(t, h) => Len(h) > Len(t)
      <4>1. Len(h) \in Nat /\ Len(t) \in Nat
        BY <1>2, <3>2 DEF Text
      <4>2. Len(h) = Len(t) => Len(h) - Len(t) + 1 = 1
        BY <4>1
      <4> QED
        BY <1>2, <3>3, <4>1, <4>2
    <3>5. p # h \/ IsSuffix(t, h)
      <4>1. \A x \in 1 .. Len(t) : p[Len(p) - Len(t) + x] = t[x]
        <5>1. Len(t) \in Nat /\ \A x \in 1 .. Len(t) : t[x] = p[1 + x]
          BY <2>1, <3>1 DEF t, Text
        <5> QED
          BY <2>1, <3>2, <5>1
      <4>2. IsSuffix(t, p)
        BY <2>1, <3>2, <4>1, SuffixMeans
      <4> QED
        BY <4>2
    <3> QED
      BY <2>2, <2>3, <3>4, <3>5 DEF matchHostPattern, t
  <2>4. CASE ~ IsPrefix(<<"*", ".">>, p)
    BY <2>2, <2>4
  <2> QED
    BY <2>3, <2>4
<1>5. keys = {p \in patterns : p = h} \cup wild
  BY <1>4
<1> HIDE DEF keys
<1>6. r = Fallback <=> keys = {}
  BY <1>3, <1>5 DEF Fallback
<1>7. (h \in keys => r = h) /\ (keys # {} => r \in keys)
  BY <1>3, <1>5
<1> QED
  BY <1>6, <1>7 DEF keys, h

\* An answer is the one of the function that was asked.
PatInv ==
  /\ kind = "path" =>
       /\ query \in PathQueries
       /\ answer # << >> => answer = <<wildcardMatch(query[1], query[2])>>
  /\ kind = "script" =>
       /\ query \in ScriptQueries
       /\ answer # << >> => answer = <<GlobMatchAny(query[1], query[2])>>
  /\ kind = "host" =>
       /\ query \in HostQueries
       /\ answer # << >> =>
            answer = <<ShouldIntercept(query[1], query[2], HostText(query[3], query[4]))>>
  /\ kind = "schema" =>
       /\ query \in SchemaQueries
       /\ answer # << >> =>
            \E r \in Resolve(query[1], HostText(query[2], query[3])) : answer = <<r>>

\* PatInv is inductive: the answer is that of the function asked.
LEMMA PatInvInductive == PatSpec => []PatInv
<1>1. PatInit => PatInv
  BY DEF PatInit, Ask, PatInv
<1>2. PatInv /\ [PatNext]_queryVars => PatInv'
  <2> SUFFICES ASSUME PatInv, [PatNext]_queryVars PROVE PatInv'
    OBVIOUS
  <2>1. CASE MatchPath
    <3>1. kind = "path" /\ kind' = "path" /\ query' = query
          /\ answer' = <<wildcardMatch(query[1], query[2])>>
      BY <2>1 DEF MatchPath, Answer
    <3> QED
      BY <3>1 DEF PatInv
  <2>2. CASE MatchScript
    <3>1. kind = "script" /\ kind' = "script" /\ query' = query
          /\ answer' = <<GlobMatchAny(query[1], query[2])>>
      BY <2>2 DEF MatchScript, Answer
    <3> QED
      BY <3>1 DEF PatInv
  <2>3. CASE FilterHost
    <3>1. kind = "host" /\ kind' = "host" /\ query' = query
          /\ answer' = <<ShouldIntercept(query[1], query[2], HostText(query[3], query[4]))>>
      BY <2>3 DEF FilterHost, Answer
    <3> QED
      BY <3>1 DEF PatInv
  <2>4. CASE ChooseSchema
    <3>1. PICK r \in Resolve(query[1], HostText(query[2], query[3])) : Answer("schema", r)
      BY <2>4 DEF ChooseSchema
    <3>2. kind = "schema" /\ kind' = "schema" /\ query' = query /\ answer' = <<r>>
      BY <3>1 DEF Answer
    <3> QED
      BY <3>2 DEF PatInv
  <2>5. CASE UNCHANGED queryVars
    BY <2>5 DEF queryVars, PatInv
  <2> QED
    BY <2>1, <2>2, <2>3, <2>4, <2>5 DEF PatNext
<1> QED
  BY <1>1, <1>2, PTL DEF PatSpec

\* hostfilter.ShouldIntercept and HostRegistry.Resolve decide as the patterns say when their
\* star stands for some string: for all lists of patterns that are a name or "*." and a
\* name, sets of such keys in lower case, names without a colon and ports, or none.
THEOREM HostListsMeanWhatTheySay == PatSpec => []HostPatternsAreGlobs
<1>1. PatInv => FilterIsGlob
  <2> SUFFICES ASSUME PatInv, Answered("host") PROVE FilterIsGlob
    BY DEF FilterIsGlob
  <2>1. query \in HostQueries
        /\ Result = ShouldIntercept(query[1], query[2], HostText(query[3], query[4]))
    BY DEF PatInv, Answered, Result
  <2>2. /\ query[1] \in Seq(Text) /\ \A i \in DOMAIN query[1] : IsHostPattern(query[1][i])
        /\ query[2] \in Seq(Text) /\ \A i \in DOMAIN query[2] : IsHostPattern(query[2][i])
        /\ IsHostName(query[3]) /\ IsPort(query[4])
    BY <2>1, HostAssumption
  <2>3. ShouldIntercept(query[1], query[2], HostText(query[3], query[4])) <=>
           IF query[2] # << >>
             THEN \E i \in DOMAIN query[2] : Glob(ToLower(query[2][i]), ToLower(query[3]))
             ELSE ~ \E i \in DOMAIN query[1] : Glob(ToLower(query[1][i]), ToLower(query[3]))
    BY <2>2, ShouldInterceptMeans
  <2> QED
    BY <2>1, <2>3 DEF FilterIsGlob
<1>2. PatInv => SchemaIsOfHost
  <2> SUFFICES ASSUME PatInv, Answered("schema"), \A p \in query[1] : ToLower(p) = p
               PROVE  SchemaIsOfHost
    BY DEF SchemaIsOfHost
  <2> DEFINE host == ToLower(query[2])
             keys == {p \in query[1] : Glob(ToLower(p), host)}
  <2>1. query \in SchemaQueries /\ Result \in Resolve(query[1], HostText(query[2], query[3]))
    BY DEF PatInv, Answered, Result
  <2>2. (\A p \in query[1] : IsHostPattern(p) /\ p # << >>)
        /\ IsHostName(query[2]) /\ IsPort(query[3])
    BY <2>1, HostAssumption
  <2>3. keys = {p \in query[1] : Glob(p, host)}
    OBVIOUS
  <2>4. /\ Result = Fallback <=> keys = {}
        /\ host \in keys => Result = host
        /\ keys # {} => Result \in keys
    BY <2>1, <2>2, <2>3, ResolveMeans
  <2> QED
    BY <2>4 DEF SchemaIsOfHost
<1>3. PatInv => HostPatternsAreGlobs
  BY <1>1, <1>2 DEF HostPatternsAreGlobs
<1> QED
  BY <1>3, PatInvInductive, PTL

-----------------------------------------------------------------------------
(* Parts of strings *)

\* What is left of a string behind its first characters.
LEMMA DropMeans ==
  ASSUME NEW s \in Text, NEW n \in 0 .. Len(s)
  PROVE  /\ Drop(s, n) \in Text /\ Len(Drop(s, n)) = Len(s) - n
         /\ \A x \in 1 .. Len(s) - n : Drop(s, n)[x] = s[n + x]
BY SeqDrop DEF Text, Drop

\* Leaving out twice is leaving out the sum.
LEMMA DropTwice ==
  ASSUME NEW s \in Text, NEW m \in 0 .. Len(s), NEW n \in 0 .. Len(s) - m
  PROVE  Drop(Drop(s, m), n) = Drop(s, m + n)
<1>1. Len(s) \in Nat /\ m + n \in 0 .. Len(s) /\ Len(s) - (m + n) = (Len(s) - m) - n
  BY DEF Text
<1>2. /\ Drop(s, m) \in Text /\ Len(Drop(s, m)) = Len(s) - m
      /\ \A x \in 1 .. Len(s) - m : Drop(s, m)[x] = s[m + x]
  BY DropMeans
<1>3. /\ Drop(s, m + n) \in Text /\ Len(Drop(s, m + n)) = Len(s) - (m + n)
      /\ \A x \in 1 .. Len(s) - (m + n) : Drop(s, m + n)[x] = s[(m + n) + x]
  BY <1>1, DropMeans, Zenon
<1> DEFINE d == Drop(s, m)
<1> HIDE DEF d
<1>4. /\ Drop(d, n) \in Text /\ Len(Drop(d, n)) = Len(d) - n
      /\ \A x \in 1 .. Len(d) - n : Drop(d, n)[x] = d[n + x]
  BY <1>2, DropMeans DEF d
<1>5. \A x \in 1 .. Len(d) - n : Drop(d, n)[x] = Drop(s, m + n)[x]
  <2> TAKE x \in 1 .. Len(d) - n
  <2>1. n + x \in 1 .. Len(s) - m /\ x \in 1 .. Len(s) - (m + n) /\ m + (n + x) = (m + n) + x
    BY <1>1, <1>2 DEF d
  <2> QED
    BY <1>2, <1>3, <1>4, <2>1 DEF d
<1>6. Len(Drop(d, n)) = Len(Drop(s, m + n))
  <2>1. Len(d) - n = Len(s) - (m + n)
    BY <1>1, <1>2 DEF d
  <2> QED
    BY <1>3, <1>4, <2>1, Zenon
<1> QED
  BY <1>3, <1>4, <1>5, <1>6, SameText DEF d

\* strings.Index finds the first occurrence, if there is one.
LEMMA IndexMeans ==
  ASSUME NEW s \in Text, NEW t \in Text
  PROVE  \/ /\ Index(s, t) = 0
            /\ \A k \in 0 .. Len(s) - Len(t) : ~ Occurs(s, k, t, 0, Len(t))
         \/ /\ Index(s, t) \in 1 .. Len(s) - Len(t) + 1
            /\ Occurs(s, Index(s, t) - 1, t, 0, Len(t))
            /\ \A k \in 0 .. Index(s, t) - 2 : ~ Occurs(s, k, t, 0, Len(t))
<1> DEFINE P == {i \in 1 .. Len(s) - Len(t) + 1 : SubSeq(s, i, i + Len(t) - 1) = t}
<1>1. Len(s) \in Nat /\ Len(t) \in Nat
  BY DEF Text
<1>2. ASSUME NEW i \in 1 .. Len(s) - Len(t) + 1
      PROVE  SubSeq(s, i, i + Len(t) - 1) = t <=> Occurs(s, i - 1, t, 0, Len(t))
  <2>1. SubSeq(s, i, i + Len(t) - 1) = [x \in 1 .. Len(t) |-> s[(i - 1) + x]]
    <3>1. (i + Len(t) - 1) + 1 - i = Len(t) /\ \A x \in 1 .. Len(t) : x + i - 1 = (i - 1) + x
      BY <1>1
    <3>2. SubSeq(s, i, i + Len(t) - 1) = [x \in 1 .. Len(t) |-> s[x + i - 1]]
      BY <1>1, <3>1 DEF Text
    <3> QED
      BY <3>1, <3>2
  <2>2. t = [x \in 1 .. Len(t) |-> t[x]]
    BY DEF Text
  <2>3. \A x \in 1 .. Len(t) : t[0 + x] = t[x]
    BY <1>1
  <2> QED
    BY <2>1, <2>2, <2>3 DEF Occurs
<1>3. \A i : i \in P <=> i \in 1 .. Len(s) - Len(t) + 1 /\ Occurs(s, i - 1, t, 0, Len(t))
  BY <1>2
<1>4. Index(s, t) = IF P = {} THEN 0 ELSE CHOOSE i \in P : \A j \in P : i <= j
  BY DEF Index
<1> HIDE DEF P
<1>5. ASSUME NEW k \in Int PROVE (k + 1) - 1 = k
  OBVIOUS
<1>6. CASE P = {}
  <2>1. ASSUME NEW k \in 0 .. Len(s) - Len(t) PROVE ~ Occurs(s, k, t, 0, Len(t))
    <3>1. k + 1 \in 1 .. Len(s) - Len(t) + 1 /\ (k + 1) - 1 = k
      BY <1>1
    <3> QED
      BY <1>3, <1>6, <3>1
  <2> QED
    BY <1>4, <1>6, <2>1
<1>7. CASE P # {}
  <2>1. P \subseteq Int /\ IsFiniteSet(P)
    <3>1. P \subseteq 1 .. Len(s) - Len(t) + 1
      BY <1>3
    <3>2. IsFiniteSet(1 .. Len(s) - Len(t) + 1)
      BY <1>1, FS_Interval
    <3>3. IsFiniteSet(P)
      BY <3>1, <3>2, FS_Subset
    <3>4. P \subseteq Int
      BY <1>3
    <3> QED
      BY <3>3, <3>4
  <2>2. \E i \in P : \A j \in P : i <= j
    BY <1>7, <2>1, SmallestExists
  <2> DEFINE at == CHOOSE i \in P : \A j \in P : i <= j
  <2>3. at \in P /\ \A j \in P : at <= j
    BY <2>2
  <2>4. Index(s, t) = at
    BY <1>4, <1>7
  <2> HIDE DEF at
  <2>5. ASSUME NEW k \in 0 .. at - 2 PROVE ~ Occurs(s, k, t, 0, Len(t))
    <3>1. at \in 1 .. Len(s) - Len(t) + 1
      BY <1>3, <2>3
    <3>2. k + 1 \in 1 .. Len(s) - Len(t) + 1 /\ (k + 1) - 1 = k /\ ~ at <= k + 1
      BY <1>1, <3>1
    <3> QED
      BY <1>3, <2>3, <3>2
  <2> QED
    BY <1>3, <2>3, <2>4, <2>5
<1> QED
  BY <1>6, <1>7

-----------------------------------------------------------------------------
(* The parts between the stars *)

SplitStep(p, n, before) ==
  IF n \in {i \in DOMAIN p : p[i] = "*"} THEN Append(before, << >>)
  ELSE [before EXCEPT ![Len(before)] = Append(@, p[n])]

SplitBody(p, f) ==
  [n \in 0 .. Len(p) |-> IF n = 0 THEN << << >> >> ELSE SplitStep(p, n, f[n - 1])]

\* The loop of Split, and what one turn of it does to sequences of strings.
LEMMA SplitLoop ==
  ASSUME NEW p \in Text
  PROVE  \E f : /\ \A n \in 0 .. Len(p) : f[n] \in Seq(Text)
                /\ f[0] = << << >> >>
                /\ \A n \in 1 .. Len(p) : f[n] = SplitStep(p, n, f[n - 1])
                /\ Split(p) = f[Len(p)]
<1> DEFINE N == Len(p)
           V == Seq(Text)
           Step == [c \in (1 .. N) \X V |-> SplitStep(p, c[1], c[2])]
           h == CHOOSE f : f = SplitBody(p, f)
<1>1. N \in Nat /\ DOMAIN p = 1 .. N
  BY DEF Text
<1>2. << << >> >> \in V
  <2>1. << >> \in Text
    BY DEF Text
  <2> HIDE DEF V
  <2>2. << << >> >> \in Seq(Text)
    BY <2>1
  <2> QED
    BY <2>2 DEF V
<1>3. ASSUME NEW n \in 1 .. N, NEW before \in V PROVE SplitStep(p, n, before) \in V
  <2>1. << >> \in Text
    BY DEF Text
  <2>2. CASE p[n] = "*"
    <3>1. SplitStep(p, n, before) = Append(before, << >>)
      BY <1>1, <2>2 DEF SplitStep
    <3> QED
      BY <2>1, <3>1
  <2>3. CASE p[n] # "*"
    <3> DEFINE k == Len(before)
               last == Append(before[k], p[n])
    <3>1. SplitStep(p, n, before) = [before EXCEPT ![k] = last]
      BY <1>1, <2>3 DEF SplitStep
    <3>2. p[n] \in Chars
      BY <1>1 DEF Text
    <3>3. ASSUME k # 0 PROVE last \in Text
      <4>1. before[k] \in Text
        BY <3>3
      <4> QED
        BY <3>2, <4>1 DEF Text
    <3>4. before \in [1 .. k -> Text] /\ k \in Nat
      OBVIOUS
    <3> HIDE DEF k, last
    <3>5. [before EXCEPT ![k] = last] \in [1 .. k -> Text]
      <4>1. CASE k = 0
        <5>1. k \notin 1 .. k
          BY <4>1
        <5> QED
          BY <3>4, <5>1
      <4>2. CASE k # 0
        BY <3>3, <3>4, <4>2
      <4> QED
        BY <4>1, <4>2
    <3> QED
      BY <3>1, <3>4, <3>5
  <2> QED
    BY <2>2, <2>3
<1>4. Step \in [(1 .. N) \X V -> V]
  BY <1>3
<1>5. Split(p) = h[Len(p)]
  BY DEF Split, SplitBody, SplitStep
<1> HIDE DEF N, V, h
<1>6. PICK f \in [0 .. N -> V] : IsLoop(f, N, << << >> >>, Step)
  <2> HIDE DEF Step
  <2> QED
    BY <1>1, <1>2, <1>4, LoopExists
<1>7. f = SplitBody(p, f)
  <2>1. \A n \in 0 .. N : f[n] = SplitBody(p, f)[n]
    <3> TAKE n \in 0 .. N
    <3>1. SplitBody(p, f)[n] = IF n = 0 THEN << << >> >> ELSE SplitStep(p, n, f[n - 1])
      BY DEF SplitBody, N
    <3>2. f[n] = IF n = 0 THEN << << >> >> ELSE Step[<<n, f[n - 1]>>]
      BY <1>6 DEF IsLoop
    <3>3. ASSUME n # 0 PROVE Step[<<n, f[n - 1]>>] = SplitStep(p, n, f[n - 1])
      <4>1. n \in 1 .. N /\ n - 1 \in 0 .. N
        BY <1>1, <3>3
      <4>2. f[n - 1] \in V
        BY <4>1
      <4> QED
        BY <4>1, <4>2
    <3> QED
      BY <3>1, <3>2, <3>3
  <2>2. SplitBody(p, f) = [n \in 0 .. N |-> SplitBody(p, f)[n]]
    BY DEF SplitBody, N
  <2> QED
    BY <2>1, <2>2
<1>8. h = SplitBody(p, h)
  BY <1>7 DEF h
<1>9. h[0] = << << >> >> /\ \A n \in 1 .. N : h[n] = SplitStep(p, n, h[n - 1])
  <2>1. ASSUME NEW n \in 0 .. N
        PROVE  h[n] = IF n = 0 THEN << << >> >> ELSE SplitStep(p, n, h[n - 1])
    <3>1. h[n] = SplitBody(p, h)[n]
      BY <1>8, Zenon
    <3> QED
      BY <3>1 DEF SplitBody, N
  <2>2. 0 \in 0 .. N /\ \A n \in 1 .. N : n \in 0 .. N /\ n # 0
    BY <1>1
  <2> QED
    BY <2>1, <2>2
<1>10. \A n \in 0 .. N : h[n] \in V
  <2>1. h[0] \in V /\ \A n \in 1 .. N : h[n - 1] \in V => h[n] \in V
    BY <1>2, <1>3, <1>9
  <2> QED
    BY <1>1, <2>1, LoopTyped
<1> QED
  BY <1>5, <1>9, <1>10 DEF N, V

\* The parts of the first n characters of p begin after the places b: a star is between
\* each two of them, and none in any.
IsSplit(parts, b, p, n) ==
  /\ parts \in Seq(Text) /\ b \in Seq(Nat) /\ Len(b) = Len(parts) /\ Len(parts) >= 1
  /\ b[1] = 0 /\ b[Len(b)] + Len(parts[Len(b)]) = n
  /\ \A i \in 1 .. Len(b) : b[i] + Len(parts[i]) <= n
  /\ \A i \in 1 .. Len(b) :
       \A x \in 1 .. Len(parts[i]) : parts[i][x] = p[b[i] + x] /\ p[b[i] + x] # "*"
  /\ \A i \in 1 .. Len(b) - 1 :
       b[i + 1] = b[i] + Len(parts[i]) + 1 /\ p[b[i + 1]] = "*"

\* One more character: a star begins a part, anything else goes on with the last one.
LEMMA SplitGoesOn ==
  ASSUME NEW p \in Text, NEW n \in 0 .. Len(p) - 1, NEW parts, NEW b, IsSplit(parts, b, p, n)
  PROVE  \E c : IsSplit(SplitStep(p, n + 1, parts), c, p, n + 1)
<1> DEFINE k == Len(b)
           char == p[n + 1]
<1>1. Len(p) \in Nat /\ n + 1 \in 1 .. Len(p) /\ n + 1 \in DOMAIN p /\ char \in Chars /\ n \in Nat
  BY DEF Text
<1>2. /\ parts \in Seq(Text) /\ b \in Seq(Nat) /\ k = Len(parts) /\ k >= 1 /\ k \in Nat
      /\ b[1] = 0 /\ b[k] + Len(parts[k]) = n
  BY DEF IsSplit
<1>3. \A i \in 1 .. k : parts[i] \in Text /\ b[i] \in Nat /\ Len(parts[i]) \in Nat
  <2>1. ASSUME NEW i \in 1 .. k PROVE parts[i] \in Text /\ b[i] \in Nat
    <3>1. k = Len(parts)
      BY <1>2, Zenon
    <3>2. i \in 1 .. Len(parts)
      BY <3>1, Zenon
    <3>3. parts[i] \in Text
      BY <1>2, <3>2
    <3>4. b[i] \in Nat
      <4>1. b \in Seq(Nat)
        BY <1>2, Zenon
      <4> QED
        BY <4>1
    <3> QED
      BY <3>3, <3>4
  <2> QED
    BY <2>1, TextLength
<1>a. k \in Nat /\ k >= 1
  BY <1>2
<1>4. \A i \in 1 .. k :
        \A x \in 1 .. Len(parts[i]) : parts[i][x] = p[b[i] + x] /\ p[b[i] + x] # "*"
  BY DEF IsSplit
<1>5. \A i \in 1 .. k - 1 : b[i + 1] = b[i] + Len(parts[i]) + 1 /\ p[b[i + 1]] = "*"
  BY DEF IsSplit
<1>d. \A i \in 1 .. k : b[i] + Len(parts[i]) <= n
  BY DEF IsSplit
<1>6. CASE char = "*"
  <2> DEFINE new == Append(parts, << >>)
             c == Append(b, n + 1)
  <2>1. SplitStep(p, n + 1, parts) = new
    BY <1>1, <1>6 DEF SplitStep
  <2>2. << >> \in Text /\ Len(<< >>) = 0
    BY DEF Text
  <2>3. /\ new \in Seq(Text) /\ Len(new) = k + 1 /\ new[k + 1] = << >>
        /\ \A i \in 1 .. k : new[i] = parts[i]
    BY <1>2, <2>2
  <2>4. /\ c \in Seq(Nat) /\ Len(c) = k + 1 /\ c[k + 1] = n + 1
        /\ \A i \in 1 .. k : c[i] = b[i]
    <3>1. n + 1 \in Nat
      BY <1>1
    <3> QED
      BY <1>2, <3>1, AppendProperties
  <2> HIDE DEF new, c, k
  <2>5. c[1] = 0 /\ c[k + 1] + Len(new[k + 1]) = n + 1
    BY <1>1, <1>2, <2>2, <2>3, <2>4
  <2>6. ASSUME NEW i \in 1 .. k + 1
        PROVE  \A x \in 1 .. Len(new[i]) : new[i][x] = p[c[i] + x] /\ p[c[i] + x] # "*"
    <3>1. CASE i \in 1 .. k
      BY <1>4, <2>3, <2>4, <3>1
    <3>2. CASE i = k + 1
      BY <2>2, <2>3, <3>2
    <3> QED
      BY <1>a, <3>1, <3>2
  <2>7. ASSUME NEW i \in 1 .. k
        PROVE  c[i + 1] = c[i] + Len(new[i]) + 1 /\ p[c[i + 1]] = "*"
    <3>1. CASE i \in 1 .. k - 1
      <4>1. i + 1 \in 1 .. k
        BY <1>2, <3>1
      <4> QED
        BY <1>5, <2>3, <2>4, <3>1, <4>1
    <3>2. CASE i = k
      BY <1>2, <1>3, <1>6, <2>3, <2>4, <3>2
    <3> QED
      BY <1>2, <3>1, <3>2
  <2>8. k + 1 >= 1 /\ (k + 1) - 1 = k
    BY <1>a
  <2>d. ASSUME NEW i \in 1 .. k + 1 PROVE c[i] + Len(new[i]) <= n + 1
    <3>1. CASE i \in 1 .. k
      <4>1. b[i] + Len(parts[i]) <= n + 1
        <5> DEFINE l == Len(parts[i])
        <5>1. l \in Nat /\ b[i] \in Nat /\ b[i] + l <= n
          BY <1>3, <1>d, <3>1
        <5> HIDE DEF l
        <5> QED
          BY <1>1, <5>1 DEF l
      <4> QED
        BY <2>3, <2>4, <3>1, <4>1, Zenon
    <3>2. CASE i = k + 1
      BY <1>1, <2>2, <2>3, <2>4, <3>2
    <3> QED
      BY <1>a, <3>1, <3>2
  <2>9. IsSplit(new, c, p, n + 1)
    BY <2>3, <2>4, <2>5, <2>6, <2>7, <2>8, <2>d DEF IsSplit
  <2> QED
    BY <2>1, <2>9
<1>7. CASE char # "*"
  <2> DEFINE last == Append(parts[k], char)
             new == [parts EXCEPT ![k] = last]
  <2>1. SplitStep(p, n + 1, parts) = new
    BY <1>1, <1>2, <1>7 DEF SplitStep
  <2>2. k \in 1 .. k
    BY <1>2
  <2>3. /\ last \in Text /\ Len(last) = Len(parts[k]) + 1 /\ last[Len(parts[k]) + 1] = char
        /\ \A x \in 1 .. Len(parts[k]) : last[x] = parts[k][x]
    <3> DEFINE q == parts[k]
    <3>1. q \in Text
      BY <1>3, <2>2
    <3> HIDE DEF q
    <3>2. Append(q, char) \in Text /\ Len(Append(q, char)) = Len(q) + 1
          /\ Append(q, char)[Len(q) + 1] = char
          /\ \A x \in 1 .. Len(q) : Append(q, char)[x] = q[x]
      BY <1>1, <3>1 DEF Text
    <3> QED
      BY <3>2 DEF q
  <2> HIDE DEF k, last
  <2>4. /\ new \in Seq(Text) /\ Len(new) = k /\ new[k] = last
        /\ \A i \in 1 .. k : i # k => new[i] = parts[i]
    <3>1. parts \in [1 .. k -> Text]
      BY <1>2
    <3>2. new \in [1 .. k -> Text] /\ new[k] = last /\ \A i \in 1 .. k : i # k => new[i] = parts[i]
      BY <2>2, <2>3, <3>1
    <3> QED
      BY <1>2, <3>2
  <2> HIDE DEF new
  <2> DEFINE l == Len(parts[k])
  <2>b. l \in Nat /\ b[k] \in Nat /\ b[k] + l = n
    BY <1>2, <1>3, <2>2
  <2>c. Len(new[k]) = l + 1 /\ new[k] = last
    BY <2>3, <2>4, Zenon
  <2> HIDE DEF l
  <2>5. b[k] + Len(new[k]) = n + 1
    <3>1. b[k] + (l + 1) = n + 1
      BY <2>b
    <3> QED
      BY <2>c, <3>1, Zenon
  <2>6. ASSUME NEW i \in 1 .. k
        PROVE  \A x \in 1 .. Len(new[i]) : new[i][x] = p[b[i] + x] /\ p[b[i] + x] # "*"
    <3>1. CASE i = k
      <4>1. ASSUME NEW x \in 1 .. l + 1
            PROVE  last[x] = p[b[k] + x] /\ p[b[k] + x] # "*"
        <5>1. CASE x = l + 1
          <6>1. b[k] + x = n + 1
            BY <2>b, <5>1
          <6> QED
            BY <1>7, <2>3, <5>1, <6>1 DEF l
        <5>2. CASE x \in 1 .. l
          BY <1>4, <2>2, <2>3, <5>2 DEF l
        <5> QED
          BY <2>b, <5>1, <5>2
      <4> QED
        BY <2>c, <3>1, <4>1, Zenon
    <3>2. CASE i # k
      BY <1>4, <2>4, <3>2
    <3> QED
      BY <3>1, <3>2
  <2>7. ASSUME NEW i \in 1 .. k - 1
        PROVE  b[i + 1] = b[i] + Len(new[i]) + 1 /\ p[b[i + 1]] = "*"
    <3>1. i \in 1 .. k /\ i # k
      BY <1>a
    <3> QED
      BY <1>5, <2>4, <3>1
  <2>d. ASSUME NEW i \in 1 .. k PROVE b[i] + Len(new[i]) <= n + 1
    <3>1. CASE i = k
      BY <1>1, <2>5, <3>1
    <3>2. CASE i # k
      <4> DEFINE m == Len(parts[i])
      <4>1. m \in Nat /\ b[i] \in Nat /\ b[i] + m <= n
        BY <1>3, <1>d
      <4> HIDE DEF m
      <4>2. b[i] + m <= n + 1
        BY <1>1, <4>1
      <4> QED
        BY <2>4, <3>2, <4>2 DEF m
    <3> QED
      BY <3>1, <3>2
  <2>8. IsSplit(new, b, p, n + 1)
    BY <1>2, <2>4, <2>5, <2>6, <2>7, <2>d DEF IsSplit, k
  <2> QED
    BY <2>1, <2>8
<1> QED
  BY <1>6, <1>7

\* Split cuts a pattern at its stars.
LEMMA SplitMeans ==
  ASSUME NEW p \in Text
  PROVE  \E b : IsSplit(Split(p), b, p, Len(p))
<1>1. PICK f : /\ \A n \in 0 .. Len(p) : f[n] \in Seq(Text)
               /\ f[0] = << << >> >>
               /\ \A n \in 1 .. Len(p) : f[n] = SplitStep(p, n, f[n - 1])
               /\ Split(p) = f[Len(p)]
  BY SplitLoop
<1>2. Len(p) \in Nat
  BY DEF Text
<1> DEFINE S == {n \in 0 .. Len(p) : \E b : IsSplit(f[n], b, p, n)}
<1>3. 0 \in S
  <2> DEFINE one == << << >> >>
             b == <<0>>
  <2>1. << >> \in Text /\ Len(<< >>) = 0
    BY DEF Text
  <2>2. one \in Seq(Text) /\ Len(one) = 1 /\ one[1] = << >>
    BY <2>1
  <2>3. b \in Seq(Nat) /\ Len(b) = 1 /\ b[1] = 0
    OBVIOUS
  <2> HIDE DEF one, b
  <2>4. IsSplit(one, b, p, 0)
    BY <2>1, <2>2, <2>3 DEF IsSplit
  <2>5. 0 \in 0 .. Len(p) /\ f[0] = one
    BY <1>1, <1>2 DEF one
  <2> QED
    BY <2>4, <2>5
<1>4. ASSUME NEW n \in 0 .. Len(p) - 1, n \in S PROVE n + 1 \in S
  <2>1. PICK b : IsSplit(f[n], b, p, n)
    BY <1>4
  <2>2. \E c : IsSplit(SplitStep(p, n + 1, f[n]), c, p, n + 1)
    BY <2>1, SplitGoesOn
  <2>3. n + 1 \in 1 .. Len(p) /\ (n + 1) - 1 = n /\ n + 1 \in 0 .. Len(p)
    BY <1>2
  <2>4. f[n + 1] = SplitStep(p, n + 1, f[n])
    BY <1>1, <2>3
  <2> QED
    BY <2>2, <2>3, <2>4
<1> HIDE DEF S
<1>5. \A n \in 0 .. Len(p) : n \in S
  BY <1>2, <1>3, <1>4, UpTo
<1>6. Len(p) \in 0 .. Len(p)
  BY <1>2
<1> QED
  BY <1>1, <1>5, <1>6 DEF S

-----------------------------------------------------------------------------
(* Greedy matching *)

Rests == {<< >>} \cup {<<r>> : r \in Text}

NextRest(parts, i, before) ==
  IF before = << >> \/ Index(before[1], parts[i + 1]) = 0 THEN << >>
  ELSE <<Drop(before[1], Index(before[1], parts[i + 1]) - 1 + Len(parts[i + 1]))>>

RestBody(parts, s, f) ==
  [i \in 0 .. Len(parts) - 2 |->
     IF i = 0 THEN <<Drop(s, Len(parts[1]))>> ELSE NextRest(parts, i, f[i - 1])]

\* The loop of wildcardMatch over the middle parts.
LEMMA AfterMiddleLoop ==
  ASSUME NEW parts \in Seq(Text), Len(parts) >= 2, NEW s \in Text, Len(parts[1]) <= Len(s)
  PROVE  \E f : /\ \A i \in 0 .. Len(parts) - 2 : f[i] \in Rests
                /\ f[0] = <<Drop(s, Len(parts[1]))>>
                /\ \A i \in 1 .. Len(parts) - 2 : f[i] = NextRest(parts, i, f[i - 1])
                /\ AfterMiddle(parts, s) = f[Len(parts) - 2]
<1> DEFINE N == Len(parts) - 2
           start == <<Drop(s, Len(parts[1]))>>
           Step == [c \in (1 .. N) \X Rests |-> NextRest(parts, c[1], c[2])]
           h == CHOOSE f : f = RestBody(parts, s, f)
<1>1. N \in Nat
  OBVIOUS
<1>2. start \in Rests
  <2>1. parts[1] \in Text
    OBVIOUS
  <2>2. Len(parts[1]) \in 0 .. Len(s)
    BY <2>1, TextLength
  <2>3. Drop(s, Len(parts[1])) \in Text
    BY <2>2, DropMeans
  <2> QED
    BY <2>3 DEF Rests
<1>3. ASSUME NEW i \in 1 .. N, NEW before \in Rests PROVE NextRest(parts, i, before) \in Rests
  <2> DEFINE t == parts[i + 1]
             r == before[1]
             at == Index(r, t)
  <2>1. CASE before = << >> \/ at = 0
    BY <2>1 DEF NextRest, Rests
  <2>2. CASE before # << >> /\ at # 0
    <3>1. r \in Text
      BY <2>2 DEF Rests
    <3>2. t \in Text
      <4>1. i + 1 \in 1 .. Len(parts)
        OBVIOUS
      <4> QED
        BY <4>1
    <3> HIDE DEF t, r
    <3>3. at \in 1 .. Len(r) - Len(t) + 1
      BY <2>2, <3>1, <3>2, IndexMeans
    <3> HIDE DEF at
    <3>4. at - 1 + Len(t) \in 0 .. Len(r)
      <4>1. Len(t) \in Nat /\ Len(r) \in Nat
        BY <3>1, <3>2, TextLength
      <4> QED
        BY <3>3, <4>1
    <3>5. Drop(r, at - 1 + Len(t)) \in Text
      BY <3>1, <3>4, DropMeans
    <3>6. NextRest(parts, i, before) = <<Drop(r, at - 1 + Len(t))>>
      BY <2>2 DEF NextRest, r, t, at
    <3> QED
      BY <3>5, <3>6 DEF Rests
  <2> QED
    BY <2>1, <2>2
<1>4. Step \in [(1 .. N) \X Rests -> Rests]
  BY <1>3
<1>5. AfterMiddle(parts, s) = h[Len(parts) - 2]
  BY DEF AfterMiddle, RestBody, NextRest
<1> HIDE DEF N, h, start
<1>6. PICK f \in [0 .. N -> Rests] : IsLoop(f, N, start, Step)
  <2> HIDE DEF Step
  <2> QED
    BY <1>1, <1>2, <1>4, LoopExists
<1>7. f = RestBody(parts, s, f)
  <2>1. \A i \in 0 .. N : f[i] = RestBody(parts, s, f)[i]
    <3> TAKE i \in 0 .. N
    <3>1. RestBody(parts, s, f)[i] = IF i = 0 THEN start ELSE NextRest(parts, i, f[i - 1])
      BY DEF RestBody, N, start
    <3>2. f[i] = IF i = 0 THEN start ELSE Step[<<i, f[i - 1]>>]
      BY <1>6 DEF IsLoop
    <3>3. ASSUME i # 0 PROVE Step[<<i, f[i - 1]>>] = NextRest(parts, i, f[i - 1])
      <4>1. i \in 1 .. N /\ i - 1 \in 0 .. N
        BY <1>1, <3>3
      <4>2. f[i - 1] \in Rests
        BY <4>1
      <4> QED
        BY <4>1, <4>2
    <3> QED
      BY <3>1, <3>2, <3>3
  <2>2. RestBody(parts, s, f) = [i \in 0 .. N |-> RestBody(parts, s, f)[i]]
    BY DEF RestBody, N
  <2> QED
    BY <2>1, <2>2
<1>8. h = RestBody(parts, s, h)
  BY <1>7 DEF h
<1>9. h[0] = start /\ \A i \in 1 .. N : h[i] = NextRest(parts, i, h[i - 1])
  <2>1. ASSUME NEW i \in 0 .. N
        PROVE  h[i] = IF i = 0 THEN start ELSE NextRest(parts, i, h[i - 1])
    <3>1. h[i] = RestBody(parts, s, h)[i]
      BY <1>8, Zenon
    <3> QED
      BY <3>1 DEF RestBody, N, start
  <2>2. 0 \in 0 .. N /\ \A i \in 1 .. N : i \in 0 .. N /\ i # 0
    BY <1>1
  <2> QED
    BY <2>1, <2>2
<1>10. \A i \in 0 .. N : h[i] \in Rests
  <2>1. h[0] \in Rests /\ \A i \in 1 .. N : h[i - 1] \in Rests => h[i] \in Rests
    BY <1>2, <1>3, <1>9
  <2> QED
    BY <1>1, <2>1, LoopTyped
<1> QED
  BY <1>5, <1>9, <1>10 DEF N, start

\* What a part of the pattern adds to the ends.
LEMMA PartEnds ==
  ASSUME NEW p \in Text, NEW s \in Text, NEW e, AreEnds(e, p, s),
         NEW parts, NEW b, IsSplit(parts, b, p, Len(p)), NEW i \in 1 .. Len(parts)
  PROVE  /\ parts[i] \in Text /\ b[i] \in 0 .. Len(p) /\ b[i] + Len(parts[i]) \in 0 .. Len(p)
         /\ \A k \in 0 .. Len(s) :
              k \in e[b[i] + Len(parts[i])] <=>
                /\ k >= Len(parts[i]) /\ k - Len(parts[i]) \in e[b[i]]
                /\ Occurs(s, k - Len(parts[i]), parts[i], 0, Len(parts[i]))
<1> DEFINE t == parts[i]
           m == Len(parts[i])
           o == b[i]
<1>1. t \in Text
  <2>1. parts \in Seq(Text)
    BY DEF IsSplit
  <2> QED
    BY <2>1
<1>2. o \in Nat /\ i \in 1 .. Len(b)
  <2>1. b \in Seq(Nat) /\ Len(b) = Len(parts)
    BY DEF IsSplit
  <2>2. i \in 1 .. Len(b)
    BY <2>1, Zenon
  <2>3. b[i] \in Nat
    <3>1. b \in Seq(Nat)
      BY <2>1, Zenon
    <3> QED
      BY <2>2, <3>1
  <2> QED
    BY <2>2, <2>3
<1>3. m \in Nat /\ Len(p) \in Nat
  BY <1>1, TextLength
<1>4. o + m <= Len(p) /\ \A x \in 1 .. m : t[x] = p[o + x] /\ p[o + x] # "*"
  BY <1>2 DEF IsSplit
<1> HIDE DEF t, m, o
<1>5. \A k \in 0 .. Len(s) :
        k \in e[o + m] <=> k >= m /\ k - m \in e[o] /\ Occurs(s, k - m, p, o, m)
  <2>1. \A x \in 1 .. m : p[o + x] # "*"
    BY <1>4
  <2> QED
    BY <1>2, <1>3, <1>4, <2>1, LiteralEnds, Zenon
<1>6. \A k : Occurs(s, k, p, o, m) <=> Occurs(s, k, t, 0, m)
  <2>1. \A x \in 1 .. m : t[0 + x] = p[o + x]
    BY <1>3, <1>4
  <2> QED
    BY <2>1 DEF Occurs
<1>7. o \in 0 .. Len(p) /\ o + m \in 0 .. Len(p)
  BY <1>2, <1>3, <1>4
<1>8. \A k \in 0 .. Len(s) :
        k \in e[o + m] <=> k >= m /\ k - m \in e[o] /\ Occurs(s, k - m, t, 0, m)
  BY <1>5, <1>6
<1> QED
  BY <1>1, <1>7, <1>8 DEF t, m, o

\* Where nothing fits, nothing fits later.
LEMMA NoEnds ==
  ASSUME NEW p \in Text, NEW s \in Text, NEW e, AreEnds(e, p, s),
         NEW a \in 0 .. Len(p), e[a] = {}
  PROVE  \A n \in 0 .. Len(p) : n >= a => e[n] = {}
<1> DEFINE S == {n \in 0 .. Len(p) : n >= a => e[n] = {}}
<1>1. Len(p) \in Nat /\ Len(s) \in Nat
  BY TextLength
<1>2. 0 \in S
  BY <1>1
<1>3. ASSUME NEW n \in 0 .. Len(p) - 1, n \in S PROVE n + 1 \in S
  <2>1. n + 1 \in 1 .. Len(p) /\ (n + 1) - 1 = n /\ n + 1 \in 0 .. Len(p)
    BY <1>1
  <2>2. CASE n >= a
    <3>1. e[n] = {}
      BY <1>3, <2>2
    <3>2. e[n + 1] = IF p[n + 1] = "*" THEN {k \in 0 .. Len(s) : \E j \in e[n] : j <= k}
                     ELSE {k \in 1 .. Len(s) : k - 1 \in e[n] /\ s[k] = p[n + 1]}
      BY <2>1 DEF AreEnds
    <3>3. e[n + 1] = {}
      BY <3>1, <3>2
    <3> QED
      BY <2>1, <3>3
  <2>3. CASE ~ n >= a
    <3>1. n + 1 >= a => n + 1 = a
      BY <2>3
    <3> QED
      BY <2>1, <3>1
  <2> QED
    BY <2>2, <2>3
<1> HIDE DEF S
<1>4. \A n \in 0 .. Len(p) : n \in S
  BY <1>1, <1>2, <1>3, UpTo
<1> QED
  BY <1>4 DEF S

\* The prefixes of s that are as long as one of E, or longer.
OrLonger(E, s) == {k \in 0 .. Len(s) : \E j \in E : j <= k}

\* The star after the i-th part lets every longer prefix fit.
LEMMA StarEnds ==
  ASSUME NEW p \in Text, NEW s \in Text, NEW e, AreEnds(e, p, s),
         NEW parts, NEW b, IsSplit(parts, b, p, Len(p)), NEW i \in 1 .. Len(parts) - 1
  PROVE  /\ b[i + 1] = b[i] + Len(parts[i]) + 1
         /\ e[b[i + 1]] = OrLonger(e[b[i] + Len(parts[i])], s)
<1> DEFINE o == b[i]
           m == Len(parts[i])
<1>1. Len(parts) \in Nat /\ i \in 1 .. Len(parts) /\ i + 1 \in 1 .. Len(parts) /\ Len(b) = Len(parts)
  BY DEF IsSplit
<1>2. o + m + 1 = b[i + 1] /\ p[b[i + 1]] = "*"
  <2>1. i \in 1 .. Len(b) - 1
    BY <1>1, Zenon
  <2> QED
    BY <2>1 DEF IsSplit
<1>3. o \in 0 .. Len(p) /\ o + m \in 0 .. Len(p) /\ parts[i] \in Text
  BY <1>1, PartEnds
<1>4. b[i + 1] \in 0 .. Len(p)
  BY <1>1, PartEnds
<1>5. m \in Nat /\ Len(p) \in Nat
  BY <1>3, TextLength
<1> HIDE DEF o, m
<1>6. b[i + 1] \in 1 .. Len(p) /\ b[i + 1] - 1 = o + m
  BY <1>2, <1>3, <1>4, <1>5
<1>7. e[b[i + 1]] = {k \in 0 .. Len(s) : \E j \in e[b[i + 1] - 1] : j <= k}
  BY <1>2, <1>6 DEF AreEnds
<1> QED
  BY <1>2, <1>6, <1>7 DEF o, m, OrLonger

\* What the greedy search leaves of s, and the ends it stands for.
Reached(rest, E, s) ==
  \/ rest = << >> /\ E = {}
  \/ \E c \in 0 .. Len(s) : rest = <<Drop(s, c)>> /\ E = c .. Len(s)

\* A part occurs in what is left of s where it occurs in s.
LEMMA OccursLater ==
  ASSUME NEW s \in Text, NEW c \in 0 .. Len(s), NEW t, NEW m \in Nat,
         NEW k \in 0 .. Len(s) - c - m
  PROVE  Occurs(Drop(s, c), k, t, 0, m) <=> Occurs(s, c + k, t, 0, m)
<1> DEFINE r == Drop(s, c)
<1>1. Len(s) \in Nat
  BY TextLength
<1>2. \A x \in 1 .. Len(s) - c : r[x] = s[c + x]
  BY DropMeans
<1> HIDE DEF r
<1>3. ASSUME NEW x \in 1 .. m PROVE r[k + x] = s[(c + k) + x]
  <2>1. k + x \in 1 .. Len(s) - c /\ c + (k + x) = (c + k) + x
    BY <1>1
  <2> QED
    BY <1>2, <2>1
<1> QED
  BY <1>3 DEF Occurs, r

\* The longer prefixes of a set whose smallest member is c.
LEMMA FromSmallest ==
  ASSUME NEW n \in Nat, NEW E \in SUBSET (0 .. n), NEW c \in E, \A k \in E : c <= k
  PROVE  {k \in 0 .. n : \E j \in E : j <= k} = c .. n
<1>1. c \in 0 .. n
  OBVIOUS
<1>2. ASSUME NEW k \in 0 .. n PROVE (\E j \in E : j <= k) <=> c <= k
  <2>1. ASSUME NEW j \in E, j <= k PROVE c <= k
    <3>1. j \in 0 .. n /\ c <= j
      OBVIOUS
    <3> QED
      BY <1>1, <2>1, <3>1
  <2> QED
    BY <2>1
<1> QED
  BY <1>1, <1>2

\* The first occurrence of a middle part is as good as any: what it leaves stands for every
\* end that the part and the star after it allow.
LEMMA GreedyStep ==
  ASSUME NEW p \in Text, NEW s \in Text, NEW e, AreEnds(e, p, s),
         NEW parts, NEW b, IsSplit(parts, b, p, Len(p)), NEW i \in 1 .. Len(parts) - 2,
         NEW rest, Reached(rest, e[b[i + 1]], s)
  PROVE  Reached(NextRest(parts, i, rest), e[b[(i + 1) + 1]], s)
<1> DEFINE n == Len(s)
           q == i + 1
           t == parts[q]
           m == Len(t)
           E == e[b[q]]
           F == e[b[q] + m]
           G == e[b[q + 1]]
<1>1. Len(parts) \in Nat /\ q \in 1 .. Len(parts) /\ q \in 1 .. Len(parts) - 1
  BY DEF IsSplit
<1> HIDE DEF q
<1>2. /\ t \in Text /\ b[q] + m \in 0 .. Len(p)
      /\ \A k \in 0 .. n : k \in F <=> k >= m /\ k - m \in E /\ Occurs(s, k - m, t, 0, m)
  BY <1>1, PartEnds
<1>3. G = {k \in 0 .. n : \E j \in F : j <= k}
  <2> HIDE DEF t, m, n, E, F, G
  <2>1. q \in 1 .. Len(parts) - 1
    BY <1>1
  <2>2. e[b[q + 1]] = OrLonger(e[b[q] + Len(parts[q])], s)
    BY <2>1, StarEnds
  <2> QED
    BY <2>2, Zenon DEF t, m, n, F, G, OrLonger
<1>4. F \in SUBSET (0 .. n)
  BY <1>2 DEF AreEnds
<1>5. m \in Nat /\ n \in Nat
  BY <1>2, TextLength, Zenon
<1>6. \/ rest = << >> /\ E = {}
      \/ \E c \in 0 .. n : rest = <<Drop(s, c)>> /\ E = c .. n
  BY DEF Reached, q, n
<1>7. NextRest(parts, i, rest) = IF rest = << >> \/ Index(rest[1], t) = 0 THEN << >>
                                 ELSE <<Drop(rest[1], Index(rest[1], t) - 1 + m)>>
  BY DEF NextRest, q
<1> DEFINE N == NextRest(parts, i, rest)
<1> HIDE DEF t, m, n, E, F, G, N
<1>8. ASSUME rest = << >>, E = {} PROVE Reached(N, G, s)
  <2>1. F = {}
    BY <1>2, <1>4, <1>8
  <2>2. G = {} /\ N = << >>
    BY <1>3, <1>7, <1>8, <2>1 DEF N
  <2> QED
    BY <2>2 DEF Reached
<1>9. ASSUME NEW c \in 0 .. n, rest = <<Drop(s, c)>>, E = c .. n PROVE Reached(N, G, s)
  <2> DEFINE r == Drop(s, c)
             at == Index(r, t)
  <2>1. r \in Text /\ Len(r) = n - c
    BY DropMeans DEF n
  <2>2. \/ at = 0 /\ \A k \in 0 .. Len(r) - m : ~ Occurs(r, k, t, 0, m)
        \/ /\ at \in 1 .. Len(r) - m + 1 /\ Occurs(r, at - 1, t, 0, m)
           /\ \A k \in 0 .. at - 2 : ~ Occurs(r, k, t, 0, m)
    BY <1>2, <2>1, IndexMeans DEF m
  <2>3. N = IF at = 0 THEN << >> ELSE <<Drop(r, at - 1 + m)>>
    BY <1>7, <1>9 DEF N
  <2> HIDE DEF r, at
  <2> DEFINE left == n - c
  <2>4. left \in Nat /\ Len(r) = left /\ c \in Nat /\ c + left = n
    <3>1. Len(r) \in Nat
      BY <2>1, TextLength
    <3>2. left \in Nat
      BY <2>1, <3>1, Zenon
    <3>3. c \in 0 .. n
      BY <1>9 DEF n
    <3>4. c \in Nat /\ c + left = n
      BY <1>5, <3>3
    <3> QED
      BY <2>1, <3>2, <3>4, Zenon
  <2>5. \A k \in 0 .. left - m : Occurs(r, k, t, 0, m) <=> Occurs(s, c + k, t, 0, m)
    BY <1>5, OccursLater DEF r, n
  <2>6. ASSUME NEW k \in F
        PROVE  (k - m) - c \in 0 .. left - m /\ Occurs(r, (k - m) - c, t, 0, m)
    <3>1. k \in 0 .. n /\ k >= m /\ k - m \in c .. n /\ Occurs(s, k - m, t, 0, m)
      BY <1>2, <1>4, <1>9
    <3>2. (k - m) - c \in 0 .. left - m /\ c + ((k - m) - c) = k - m
      BY <1>5, <2>4, <3>1
    <3> QED
      BY <2>5, <3>1, <3>2
  <2>7. CASE at = 0
    <3>1. \A k \in 0 .. left - m : ~ Occurs(r, k, t, 0, m)
      BY <2>2, <2>4, <2>7
    <3>2. F = {}
      BY <2>6, <3>1
    <3>3. G = {} /\ N = << >>
      BY <1>3, <2>3, <2>7, <3>2
    <3> QED
      BY <3>3 DEF Reached
  <2>8. CASE at # 0
    <3> DEFINE first == at - 1
               d == c + (first + m)
    <3>1. /\ first \in 0 .. left - m /\ Occurs(r, first, t, 0, m)
          /\ \A k \in 0 .. first - 1 : ~ Occurs(r, k, t, 0, m)
      <4>1. /\ at \in 1 .. left - m + 1 /\ Occurs(r, first, t, 0, m)
            /\ \A k \in 0 .. at - 2 : ~ Occurs(r, k, t, 0, m)
        BY <2>2, <2>4, <2>8, Zenon
      <4>2. first \in 0 .. left - m /\ first - 1 = at - 2
        <5>1. left - m \in Int /\ at \in 1 .. (left - m) + 1
          BY <1>5, <2>4, <4>1
        <5> HIDE DEF left
        <5> QED
          BY <5>1
      <4> QED
        BY <4>1, <4>2
    <3>2. N = <<Drop(r, first + m)>>
      BY <2>3, <2>8
    <3> HIDE DEF first
    <3>3. first + m \in 0 .. left /\ d \in 0 .. n /\ d - m = c + first
          /\ d >= m /\ d - m \in c .. n
      BY <1>5, <2>4, <3>1
    <3>4. Drop(r, first + m) = Drop(s, d)
      BY <3>3, DropTwice DEF r, n
    <3>5. d \in F
      <4>1. Occurs(s, d - m, t, 0, m)
        BY <2>5, <3>1, <3>3
      <4> QED
        BY <1>2, <1>9, <3>3, <4>1
    <3>6. ASSUME NEW k \in F PROVE d <= k
      <4>1. (k - m) - c \in 0 .. left - m /\ Occurs(r, (k - m) - c, t, 0, m)
        BY <2>6
      <4>2. (k - m) - c \notin 0 .. first - 1
        BY <3>1, <4>1
      <4>3. k \in 0 .. n
        BY <1>4
      <4>4. (k - m) - c >= first
        BY <1>5, <2>4, <3>1, <4>1, <4>2, <4>3
      <4>5. m \in Int /\ c \in Int /\ k \in Int /\ first \in Int
        BY <1>5, <2>4, <3>1, <4>3
      <4> HIDE DEF first
      <4> QED
        BY <4>4, <4>5
    <3> HIDE DEF d
    <3>7. G = d .. n
      BY <1>3, <1>4, <1>5, <3>5, <3>6, FromSmallest
    <3> QED
      BY <3>2, <3>3, <3>4, <3>7 DEF Reached, n
  <2> QED
    BY <2>7, <2>8
<1>10. Reached(N, G, s)
  BY <1>6, <1>8, <1>9
<1> QED
  BY <1>10 DEF N, G, q

\* The ends after the first part and the star that follows it.
LEMMA FirstPart ==
  ASSUME NEW p \in Text, NEW s \in Text, NEW e, AreEnds(e, p, s),
         NEW parts, NEW b, IsSplit(parts, b, p, Len(p)), Len(parts) >= 2
  PROVE  /\ parts[1] \in Text
         /\ IsPrefix(parts[1], s) =>
              Len(parts[1]) \in 0 .. Len(s) /\ e[b[2]] = Len(parts[1]) .. Len(s)
         /\ ~ IsPrefix(parts[1], s) => e[Len(p)] = {}
<1> DEFINE t == parts[1]
           m == Len(t)
           n == Len(s)
           o == b[1]
           F == e[o + m]
<1>1. 1 \in 1 .. Len(parts) /\ 1 \in 1 .. Len(parts) - 1 /\ o = 0
  BY DEF IsSplit
<1>2. /\ t \in Text /\ o + m \in 0 .. Len(p)
      /\ \A k \in 0 .. n : k \in F <=> k >= m /\ k - m \in e[o] /\ Occurs(s, k - m, t, 0, m)
  BY <1>1, PartEnds
<1>3. e[b[2]] = {k \in 0 .. n : \E j \in F : j <= k}
  <2> HIDE DEF t, m, n, o, F
  <2>1. e[b[1 + 1]] = OrLonger(e[b[1] + Len(parts[1])], s)
    BY <1>1, StarEnds
  <2>2. 1 + 1 = 2
    OBVIOUS
  <2> QED
    BY <2>1, <2>2, Zenon DEF t, m, n, o, F, OrLonger
<1>4. F \in SUBSET (0 .. n) /\ e[o] = {0}
  BY <1>1, <1>2 DEF AreEnds
<1>5. m \in Nat /\ n \in Nat /\ Len(p) \in Nat
  BY <1>2, TextLength, Zenon
<1>6. IsPrefix(t, s) <=> m <= n /\ Occurs(s, 0, t, 0, m)
  <2>1. IsPrefix(t, s) <=> m <= n /\ \A x \in 1 .. m : s[x] = t[x]
    BY <1>2, PrefixMeans
  <2>2. \A x \in 1 .. m : 0 + x = x
    OBVIOUS
  <2> QED
    BY <2>1, <2>2 DEF Occurs
<1> HIDE DEF t, m, n, o, F
<1>7. \A k \in F : k = m /\ m <= n /\ Occurs(s, 0, t, 0, m)
  <2> TAKE k \in F
  <2>1. k \in 0 .. n /\ k - m = 0 /\ Occurs(s, k - m, t, 0, m)
    BY <1>2, <1>4
  <2> QED
    BY <1>5, <2>1
<1>8. ASSUME IsPrefix(t, s) PROVE m \in 0 .. n /\ e[b[2]] = m .. n
  <2>1. m \in 0 .. n /\ m - m = 0 /\ Occurs(s, 0, t, 0, m)
    BY <1>5, <1>6, <1>8
  <2>2. m \in F
    BY <1>2, <1>4, <2>1
  <2>3. \A k \in F : m <= k
    BY <1>5, <1>7
  <2> QED
    BY <1>3, <1>4, <1>5, <2>1, <2>2, <2>3, FromSmallest
<1>9. ASSUME ~ IsPrefix(t, s) PROVE e[Len(p)] = {}
  <2>1. F = {}
    BY <1>6, <1>7, <1>9
  <2>2. Len(p) \in 0 .. Len(p) /\ Len(p) >= o + m
    BY <1>2, <1>5
  <2> QED
    BY <1>2, <2>1, <2>2, NoEnds DEF F
<1> QED
  BY <1>2, <1>8, <1>9 DEF t, m, n

\* The last part is a suffix of what is left exactly if the whole pattern fits.
LEMMA LastPart ==
  ASSUME NEW p \in Text, NEW s \in Text, NEW e, AreEnds(e, p, s),
         NEW parts, NEW b, IsSplit(parts, b, p, Len(p)), Len(parts) >= 2,
         NEW rest, Reached(rest, e[b[Len(parts)]], s)
  PROVE  Len(s) \in e[Len(p)] <=> rest # << >> /\ IsSuffix(Last(parts), rest[1])
<1> DEFINE q == Len(parts)
           t == parts[q]
           m == Len(t)
           n == Len(s)
           o == b[q]
<1>1. q \in 1 .. Len(parts) /\ o + m = Len(p)
  BY DEF IsSplit
<1>2. /\ t \in Text
      /\ \A k \in 0 .. n :
           k \in e[o + m] <=> k >= m /\ k - m \in e[o] /\ Occurs(s, k - m, t, 0, m)
  BY <1>1, PartEnds
<1>3. m \in Nat /\ n \in Nat /\ n \in 0 .. n
  BY <1>2, TextLength
<1>4. n \in e[Len(p)] <=> n >= m /\ n - m \in e[o] /\ Occurs(s, n - m, t, 0, m)
  BY <1>1, <1>2, <1>3
<1>5. Last(parts) = t
  BY DEF Last
<1>6. \/ rest = << >> /\ e[o] = {}
      \/ \E c \in 0 .. n : rest = <<Drop(s, c)>> /\ e[o] = c .. n
  BY DEF Reached
<1> HIDE DEF q, t, m, n, o
<1>7. ASSUME NEW c \in 0 .. n, rest = <<Drop(s, c)>>, e[o] = c .. n
      PROVE  n \in e[Len(p)] <=> rest # << >> /\ IsSuffix(t, rest[1])
  <2> DEFINE r == Drop(s, c)
             left == n - c
  <2>1. r \in Text /\ Len(r) = left /\ \A x \in 1 .. left : r[x] = s[c + x]
    BY DropMeans DEF n
  <2> HIDE DEF r
  <2>2. IsSuffix(t, r) <=> m <= Len(r) /\ \A x \in 1 .. m : r[Len(r) - m + x] = t[x]
    BY <1>2, <2>1, SuffixMeans DEF m
  <2>3. IsSuffix(t, r) <=> m <= left /\ \A x \in 1 .. m : r[left - m + x] = t[x]
    BY <2>1, <2>2, Zenon
  <2>4. n >= m /\ n - m \in c .. n <=> m <= left
    BY <1>3
  <2>5. ASSUME m <= left
        PROVE  Occurs(s, n - m, t, 0, m) <=> \A x \in 1 .. m : r[left - m + x] = t[x]
    <3>1. ASSUME NEW x \in 1 .. m PROVE r[left - m + x] = s[(n - m) + x] /\ 0 + x = x
      <4>1. left - m + x \in 1 .. left /\ c + (left - m + x) = (n - m) + x
        BY <1>3, <2>5
      <4> QED
        BY <2>1, <4>1
    <3> QED
      BY <3>1 DEF Occurs
  <2>6. n \in e[Len(p)] <=> IsSuffix(t, r)
    BY <1>4, <1>7, <2>3, <2>4, <2>5
  <2> QED
    BY <1>7, <2>6 DEF r
<1>8. n \in e[Len(p)] <=> rest # << >> /\ IsSuffix(t, rest[1])
  <2>1. CASE rest = << >> /\ e[o] = {}
    BY <1>4, <2>1
  <2> QED
    BY <1>6, <1>7, <2>1
<1> QED
  BY <1>5, <1>8 DEF n

\* wildcardMatch's greedy search finds a match exactly when the pattern describes s.
LEMMA WildcardMeans ==
  ASSUME NEW p \in Text, NEW s \in Text
  PROVE  wildcardMatch(p, s) <=> Glob(p, s)
<1> DEFINE parts == Split(p)
           q == Len(parts)
<1>1. PICK e : AreEnds(e, p, s) /\ (Glob(p, s) <=> Len(s) \in e[Len(p)])
  BY GlobEnds
<1>2. PICK b : IsSplit(parts, b, p, Len(p))
  BY SplitMeans
<1>3. parts \in Seq(Text) /\ q \in Nat /\ q >= 1
  BY <1>2 DEF IsSplit
<1>4. wildcardMatch(p, s) <=>
        IF q = 1 THEN p = s
        ELSE /\ IsPrefix(parts[1], s)
             /\ AfterMiddle(parts, s) # << >>
             /\ IsSuffix(Last(parts), AfterMiddle(parts, s)[1])
  BY DEF wildcardMatch
<1> HIDE DEF parts, q
<1>5. CASE q = 1
  <2>1. Without("*", p)
    <3>1. b[1] = 0 /\ Len(parts[1]) = Len(p) /\ 1 \in 1 .. Len(b)
      <4>1. Len(b) = 1 /\ b[1] = 0 /\ b[Len(b)] + Len(parts[Len(b)]) = Len(p)
        BY <1>2, <1>5 DEF IsSplit, q
      <4>2. parts[1] \in Text
        <5>1. parts \in Seq(Text) /\ 1 \in 1 .. Len(parts)
          BY <1>3, <1>5 DEF q
        <5> QED
          BY <5>1
      <4>3. Len(parts[1]) \in Nat /\ 0 + Len(parts[1]) = Len(p)
        BY <4>1, <4>2, TextLength
      <4>4. Len(p) \in Nat /\ 1 \in 1 .. 1
        BY TextLength
      <4> DEFINE l == Len(parts[1])
                 n == Len(p)
      <4> HIDE DEF l, n
      <4>5. l = n
        BY <4>3, <4>4 DEF l, n
      <4> QED
        BY <4>1, <4>4, <4>5, Zenon DEF l, n
    <3>2. \A x \in 1 .. Len(p) : p[0 + x] # "*"
      <4>1. \A x \in 1 .. Len(parts[1]) : p[b[1] + x] # "*"
        BY <1>2, <3>1 DEF IsSplit
      <4> QED
        BY <3>1, <4>1, Zenon
    <3>3. DOMAIN p = 1 .. Len(p) /\ \A x \in 1 .. Len(p) : 0 + x = x
      BY DEF Text
    <3> QED
      BY <3>2, <3>3 DEF Without
  <2> QED
    BY <1>4, <1>5, <2>1, GlobWithoutStars
<1>6. CASE q # 1
  <2>1. Len(parts) >= 2
    <3>1. q >= 2
      BY <1>3, <1>6
    <3> QED
      BY <3>1 DEF q
  <2>2. /\ IsPrefix(parts[1], s) =>
             Len(parts[1]) \in 0 .. Len(s) /\ e[b[2]] = Len(parts[1]) .. Len(s)
        /\ ~ IsPrefix(parts[1], s) => e[Len(p)] = {}
    BY <1>1, <1>2, <2>1, FirstPart
  <2>3. CASE ~ IsPrefix(parts[1], s)
    BY <1>1, <1>4, <1>6, <2>2, <2>3
  <2>4. CASE IsPrefix(parts[1], s)
    <3>1. Len(parts[1]) <= Len(s)
      BY <2>2, <2>4
    <3>2. PICK f : /\ f[0] = <<Drop(s, Len(parts[1]))>>
                   /\ \A i \in 1 .. q - 2 : f[i] = NextRest(parts, i, f[i - 1])
                   /\ AfterMiddle(parts, s) = f[q - 2]
      BY <1>3, <2>1, <3>1, AfterMiddleLoop DEF q
    <3> DEFINE N == q - 2
               S == {i \in 0 .. N : Reached(f[i], e[b[i + 2]], s)}
    <3>3. N \in Nat /\ N \in 0 .. N /\ N + 2 = q
      BY <1>3, <2>1 DEF q
    <3>4. 0 \in S
      <4>1. Reached(f[0], e[b[2]], s)
        BY <2>2, <2>4, <3>2 DEF Reached
      <4>2. 0 + 2 = 2 /\ 0 \in 0 .. N
        BY <3>3
      <4> QED
        BY <4>1, <4>2
    <3>5. ASSUME NEW i \in 0 .. N - 1, i \in S PROVE i + 1 \in S
      <4> DEFINE j == i + 1
      <4>1. j \in 1 .. N /\ j - 1 = i /\ i + 2 = j + 1 /\ j + 2 = (j + 1) + 1 /\ j \in 0 .. N
        BY <3>3
      <4> HIDE DEF j
      <4>2. Reached(f[i], e[b[j + 1]], s)
        BY <3>5, <4>1
      <4>3. j \in 1 .. Len(parts) - 2
        BY <4>1 DEF q
      <4>4. Reached(NextRest(parts, j, f[i]), e[b[(j + 1) + 1]], s)
        BY <1>1, <1>2, <4>2, <4>3, GreedyStep
      <4>5. f[j] = NextRest(parts, j, f[i])
        BY <3>2, <4>1
      <4>6. Reached(f[j], e[b[j + 2]], s)
        BY <4>1, <4>4, <4>5
      <4> QED
        BY <4>1, <4>6 DEF j
    <3> HIDE DEF S, N
    <3>6. \A i \in 0 .. N : i \in S
      BY <3>3, <3>4, <3>5, UpTo
    <3>7. Reached(f[N], e[b[q]], s)
      <4>1. N \in S
        BY <3>3, <3>6
      <4>2. Reached(f[N], e[b[N + 2]], s)
        BY <4>1 DEF S
      <4> QED
        BY <3>3, <4>2
    <3>8. Len(s) \in e[Len(p)] <=> f[N] # << >> /\ IsSuffix(Last(parts), f[N][1])
      BY <1>1, <1>2, <2>1, <3>7, LastPart DEF q
    <3>9. AfterMiddle(parts, s) = f[N]
      BY <3>2 DEF N
    <3> QED
      BY <1>1, <1>4, <1>6, <2>4, <3>8, <3>9
  <2> QED
    BY <2>3, <2>4
<1> QED
  BY <1>5, <1>6

\* wildcardMatch matches s against a pattern where every star matches any substring: for all
\* patterns and strings, taking the first occurrence of every middle part and the last part
\* as a suffix of what is left finds a match exactly when there is one.
THEOREM WildcardsMatchAnySubstring == PatSpec => []WildcardIsGlob
<1>1. PatInv => WildcardIsGlob
  <2> SUFFICES ASSUME PatInv, Answered("path") PROVE WildcardIsGlob
    BY DEF WildcardIsGlob
  <2>1. query \in PathQueries /\ Result = wildcardMatch(query[1], query[2])
    BY DEF PatInv, Answered, Result
  <2>2. query[1] \in Text /\ query[2] \in Text
    BY <2>1, TextAssumption
  <2>3. wildcardMatch(query[1], query[2]) <=> Glob(query[1], query[2])
    BY <2>2, WildcardMeans
  <2> QED
    BY <2>1, <2>3 DEF WildcardIsGlob
<1> QED
  BY <1>1, PatInvInductive, PTL

-----------------------------------------------------------------------------
(* The patterns of a script *)

\* The first characters of a string.
LEMMA TakeMeans ==
  ASSUME NEW s \in Text, NEW n \in 0 .. Len(s)
  PROVE  /\ SubSeq(s, 1, n) \in Text /\ Len(SubSeq(s, 1, n)) = n
         /\ \A x \in 1 .. n : SubSeq(s, 1, n)[x] = s[x]
BY SeqTake DEF Text

\* One string behind the other.
LEMMA JoinMeans ==
  ASSUME NEW a \in Text, NEW b \in Text
  PROVE  /\ a \o b \in Text /\ Len(a \o b) = Len(a) + Len(b)
         /\ \A x \in 1 .. Len(a) : (a \o b)[x] = a[x]
         /\ \A x \in 1 .. Len(b) : (a \o b)[Len(a) + x] = b[x]
BY SeqJoin DEF Text

\* strings.Cut takes a string apart at the first occurrence of t, if there is one.
LEMMA CutMeans ==
  ASSUME NEW s \in Text, NEW t \in Text
  PROVE  /\ ~ Cut(s, t).found => \A k \in 0 .. Len(s) - Len(t) : ~ Occurs(s, k, t, 0, Len(t))
         /\ Cut(s, t).found =>
              /\ Cut(s, t).before \in Text /\ Cut(s, t).after \in Text
              /\ s = Cut(s, t).before \o (t \o Cut(s, t).after)
              /\ \A k \in 0 .. Len(Cut(s, t).before) - 1 : ~ Occurs(s, k, t, 0, Len(t))
<1> DEFINE at == Index(s, t)
           m == Len(t)
           n == Len(s)
           head == SubSeq(s, 1, at - 1)
           rest == Drop(s, at - 1 + m)
<1>1. Cut(s, t) = [found |-> at # 0, before |-> head, after |-> rest]
  BY DEF Cut
<1>2. \/ at = 0 /\ \A k \in 0 .. n - m : ~ Occurs(s, k, t, 0, m)
      \/ /\ at \in 1 .. n - m + 1 /\ Occurs(s, at - 1, t, 0, m)
         /\ \A k \in 0 .. at - 2 : ~ Occurs(s, k, t, 0, m)
  BY IndexMeans
<1>3. m \in Nat /\ n \in Nat
  BY TextLength
<1>a. Cut(s, t).found <=> at # 0
  <2> DEFINE yes == at # 0
  <2>1. Cut(s, t) = [found |-> yes, before |-> head, after |-> rest]
    BY <1>1
  <2> HIDE DEF yes, head, rest
  <2>2. Cut(s, t).found = yes
    BY <2>1
  <2> QED
    BY <2>2 DEF yes
<1> HIDE DEF at, m, n
<1>4. CASE at = 0
  <2>1. ~ Cut(s, t).found
    BY <1>a, <1>4, Zenon
  <2>2. \A k \in 0 .. n - m : ~ Occurs(s, k, t, 0, m)
    BY <1>2, <1>3, <1>4
  <2> QED
    BY <2>1, <2>2, Zenon DEF m, n
<1>5. CASE at # 0
  <2> DEFINE k == at - 1
             both == t \o rest
             all == head \o both
  <2>1. at \in 1 .. n - m + 1 /\ Occurs(s, at - 1, t, 0, m)
        /\ \A i \in 0 .. at - 2 : ~ Occurs(s, i, t, 0, m)
    BY <1>2, <1>5
  <2>2. k \in 0 .. n /\ k + m \in 0 .. n /\ Occurs(s, k, t, 0, m) /\ k - 1 = at - 2
    BY <1>3, <2>1
  <2> HIDE DEF k
  <2>3. head \in Text /\ Len(head) = k /\ \A x \in 1 .. k : head[x] = s[x]
    BY <2>2, TakeMeans DEF k, n
  <2>4. rest \in Text /\ Len(rest) = n - (k + m)
        /\ \A x \in 1 .. n - (k + m) : rest[x] = s[(k + m) + x]
    <3> DEFINE j == k + m
    <3>1. j \in 0 .. Len(s)
      BY <2>2 DEF n
    <3> HIDE DEF j
    <3>2. Drop(s, j) \in Text /\ Len(Drop(s, j)) = Len(s) - j
          /\ \A x \in 1 .. Len(s) - j : Drop(s, j)[x] = s[j + x]
      BY <3>1, DropMeans
    <3> QED
      BY <3>2 DEF j, k, n
  <2> HIDE DEF head, rest
  <2>5. /\ both \in Text /\ Len(both) = m + Len(rest)
        /\ \A x \in 1 .. m : both[x] = t[x]
        /\ \A x \in 1 .. Len(rest) : both[m + x] = rest[x]
    BY <2>4, JoinMeans DEF m
  <2> HIDE DEF both
  <2>6. /\ all \in Text /\ Len(all) = Len(head) + Len(both)
        /\ \A x \in 1 .. Len(head) : all[x] = head[x]
        /\ \A x \in 1 .. Len(both) : all[Len(head) + x] = both[x]
    BY <2>3, <2>5, JoinMeans
  <2> HIDE DEF all
  <2> DEFINE l == n - (k + m)
  <2>7. l \in Nat /\ Len(rest) = l /\ Len(head) = k /\ k + (m + l) = n /\ k \in Nat
    BY <1>3, <2>2, <2>3, <2>4
  <2> HIDE DEF l
  <2>8. Len(both) = m + l /\ Len(all) = k + (m + l)
    <3>1. Len(both) = m + l
      BY <2>5, <2>7, Zenon
    <3> QED
      BY <2>6, <2>7, <3>1, Zenon
  <2>9. ASSUME NEW x \in 1 .. n PROVE s[x] = all[x]
    <3>1. CASE x <= k
      <4>1. x \in 1 .. k
        BY <3>1
      <4> QED
        BY <2>3, <2>6, <2>7, <4>1
    <3>2. CASE x > k /\ x <= k + m
      <4> DEFINE y == x - k
      <4>1. y \in 1 .. m /\ y \in 1 .. m + l /\ k + y = x /\ 0 + y = y
        BY <1>3, <2>7, <3>2
      <4> HIDE DEF y
      <4>2. all[k + y] = both[y] /\ both[y] = t[y]
        BY <2>5, <2>6, <2>7, <2>8, <4>1
      <4>3. s[k + y] = t[y]
        BY <2>2, <4>1 DEF Occurs
      <4> QED
        BY <4>1, <4>2, <4>3
    <3>3. CASE x > k + m
      <4> DEFINE y == x - (k + m)
      <4>1. y \in 1 .. l /\ m + y \in 1 .. m + l /\ k + (m + y) = x /\ (k + m) + y = x
        BY <1>3, <2>7, <3>3
      <4> HIDE DEF y
      <4>2. all[k + (m + y)] = both[m + y] /\ both[m + y] = rest[y]
        BY <2>5, <2>6, <2>7, <2>8, <4>1
      <4>3. rest[y] = s[(k + m) + y]
        BY <2>4, <4>1 DEF l
      <4> QED
        BY <4>1, <4>2, <4>3
    <3> QED
      BY <1>3, <2>7, <3>1, <3>2, <3>3
  <2>10. s = all
    <3>1. Len(s) = Len(all)
      BY <2>7, <2>8, Zenon DEF n
    <3> QED
      BY <2>6, <2>9, <3>1, SameText DEF n
  <2>11. Cut(s, t).before = head /\ Cut(s, t).after = rest
    BY <1>1
  <2>12. \A i \in 0 .. k - 1 : ~ Occurs(s, i, t, 0, m)
    BY <2>1, <2>2
  <2> QED
    <3>1. Cut(s, t).found /\ Cut(s, t).before \in Text /\ Cut(s, t).after \in Text
      BY <1>a, <1>5, <2>3, <2>4, <2>11, Zenon
    <3>2. s = Cut(s, t).before \o (t \o Cut(s, t).after)
      BY <2>10, <2>11, Zenon DEF all, both
    <3>3. \A i \in 0 .. Len(Cut(s, t).before) - 1 : ~ Occurs(s, i, t, 0, m)
      <4>1. Len(Cut(s, t).before) = k
        BY <2>3, <2>11, Zenon
      <4> QED
        BY <2>12, <4>1, Zenon
    <3> QED
      BY <3>1, <3>2, <3>3, Zenon DEF m
<1> QED
  BY <1>4, <1>5

\* What describes a piece of a string describes it there too.
LEMMA Embeds ==
  ASSUME NEW a \in Text, NEW x \in Text, NEW e, AreEnds(e, a, x),
         NEW p \in Text, NEW s \in Text, NEW d, AreEnds(d, p, s),
         NEW o \in Nat, NEW c \in Nat, o + Len(a) <= Len(p), c + Len(x) <= Len(s),
         \A i \in 1 .. Len(a) : p[o + i] = a[i], \A k \in 1 .. Len(x) : s[c + k] = x[k],
         c \in d[o]
  PROVE  \A i \in 0 .. Len(a) : \A k \in e[i] : c + k \in d[o + i]
<1> DEFINE la == Len(a)
           lx == Len(x)
           lp == Len(p)
           ls == Len(s)
           S == {i \in 0 .. la : \A k \in e[i] : c + k \in d[o + i]}
<1>1. la \in Nat /\ lx \in Nat /\ lp \in Nat /\ ls \in Nat
  BY TextLength
<1>2. 0 \in S
  <2>1. e[0] = {0}
    BY DEF AreEnds
  <2>2. c + 0 = c /\ o + 0 = o /\ 0 \in 0 .. la
    BY <1>1
  <2> QED
    BY <2>1, <2>2
<1>3. ASSUME NEW i \in 0 .. la - 1, i \in S PROVE i + 1 \in S
  <2> DEFINE j == i + 1
  <2>1. j \in 1 .. la /\ j - 1 = i /\ o + j \in 1 .. lp /\ (o + j) - 1 = o + i /\ j \in 0 .. la
    BY <1>1
  <2> HIDE DEF j
  <2>2. e[j] = IF a[j] = "*" THEN {k \in 0 .. lx : \E l \in e[i] : l <= k}
               ELSE {k \in 1 .. lx : k - 1 \in e[i] /\ x[k] = a[j]}
    BY <2>1 DEF AreEnds
  <2>3. d[o + j] = IF p[o + j] = "*" THEN {k \in 0 .. ls : \E l \in d[o + i] : l <= k}
                   ELSE {k \in 1 .. ls : k - 1 \in d[o + i] /\ s[k] = p[o + j]}
    BY <2>1 DEF AreEnds
  <2>4. p[o + j] = a[j]
    BY <2>1
  <2>5. \A k \in e[i] : c + k \in d[o + i]
    BY <1>3
  <2>6. e[i] \subseteq 0 .. lx
    <3>1. i \in 0 .. la
      BY <1>1
    <3> QED
      BY <3>1 DEF AreEnds
  <2> HIDE DEF la, lx, lp, ls
  <2>7. ASSUME NEW k \in e[j] PROVE c + k \in d[o + j]
    <3>1. CASE a[j] = "*"
      <4>1. k \in 0 .. lx /\ \E l \in e[i] : l <= k
        BY <2>2, <3>1
      <4>2. PICK l \in e[i] : l <= k
        BY <4>1
      <4>3. c + k \in 0 .. ls
        BY <1>1, <4>1 DEF lx, ls
      <4>4. c + l \in d[o + i] /\ c + l <= c + k
        BY <2>5, <2>6, <4>1, <4>2
      <4> QED
        BY <2>3, <2>4, <3>1, <4>3, <4>4
    <3>2. CASE a[j] # "*"
      <4>1. k \in 1 .. lx /\ k - 1 \in e[i] /\ x[k] = a[j]
        BY <2>2, <3>2
      <4>2. c + k \in 1 .. ls /\ (c + k) - 1 = c + (k - 1)
        BY <1>1, <4>1 DEF lx, ls
      <4>3. (c + k) - 1 \in d[o + i]
        BY <2>5, <4>1, <4>2
      <4>4. s[c + k] = x[k]
        BY <4>1 DEF lx
      <4> QED
        BY <2>3, <2>4, <3>2, <4>1, <4>2, <4>3, <4>4
    <3> QED
      BY <3>1, <3>2
  <2> QED
    BY <2>1, <2>7 DEF j
<1> HIDE DEF S
<1>4. \A i \in 0 .. la : i \in S
  <2> HIDE DEF la
  <2> QED
    BY <1>1, <1>2, <1>3, UpTo
<1> QED
  BY <1>4 DEF S, la

\* Patterns in a row describe strings in a row.
LEMMA GlobJoin ==
  ASSUME NEW a \in Text, NEW b \in Text, NEW x \in Text, NEW y \in Text,
         Glob(a, x), Glob(b, y)
  PROVE  Glob(a \o b, x \o y)
<1> DEFINE p == a \o b
           s == x \o y
<1>1. /\ p \in Text /\ Len(p) = Len(a) + Len(b)
      /\ \A i \in 1 .. Len(a) : p[i] = a[i]
      /\ \A i \in 1 .. Len(b) : p[Len(a) + i] = b[i]
  BY JoinMeans
<1>2. /\ s \in Text /\ Len(s) = Len(x) + Len(y)
      /\ \A i \in 1 .. Len(x) : s[i] = x[i]
      /\ \A i \in 1 .. Len(y) : s[Len(x) + i] = y[i]
  BY JoinMeans
<1> HIDE DEF p, s
<1> DEFINE la == Len(a)
           lb == Len(b)
           lx == Len(x)
           ly == Len(y)
<1>3. la \in Nat /\ lb \in Nat /\ lx \in Nat /\ ly \in Nat
  BY TextLength
<1>4. PICK d : AreEnds(d, p, s) /\ (Glob(p, s) <=> Len(s) \in d[Len(p)])
  BY <1>1, <1>2, GlobEnds
<1>5. PICK e : AreEnds(e, a, x) /\ lx \in e[la]
  BY GlobEnds
<1>6. PICK f : AreEnds(f, b, y) /\ ly \in f[lb]
  BY GlobEnds
<1>7. lx \in d[la]
  <2> DEFINE o == 0
  <2>1. o \in Nat /\ o \in d[o]
    BY <1>4 DEF AreEnds
  <2>2. \A i \in Nat : o + i = i
    OBVIOUS
  <2> HIDE DEF o
  <2>3. o + Len(a) <= Len(p) /\ o + Len(x) <= Len(s)
    <3>1. la <= la + lb /\ lx <= lx + ly
      BY <1>3
    <3>2. o + la = la /\ o + lx = lx
      BY <1>3, <2>2
    <3> QED
      BY <1>1, <1>2, <3>1, <3>2, Zenon
  <2>4. (\A i \in 1 .. Len(a) : p[o + i] = a[i]) /\ \A k \in 1 .. Len(x) : s[o + k] = x[k]
    BY <1>1, <1>2, <2>2
  <2>5. \A i \in 0 .. Len(a) : \A k \in e[i] : o + k \in d[o + i]
    BY <1>1, <1>2, <1>4, <1>5, <2>1, <2>3, <2>4, Embeds
  <2> HIDE DEF la, lx
  <2>6. la \in 0 .. Len(a)
    BY <1>3 DEF la
  <2>7. o + lx \in d[o + la]
    BY <1>5, <2>5, <2>6, Zenon
  <2>8. o + lx = lx /\ o + la = la
    BY <1>3, <2>2
  <2> QED
    BY <2>7, <2>8, Zenon
<1>8. lx + ly \in d[la + lb]
  <2>1. la + Len(b) <= Len(p) /\ lx + Len(y) <= Len(s)
    <3>1. la + lb <= la + lb /\ lx + ly <= lx + ly
      BY <1>3
    <3> QED
      BY <1>1, <1>2, <3>1, Zenon
  <2>2. (\A i \in 1 .. Len(b) : p[la + i] = b[i]) /\ \A k \in 1 .. Len(y) : s[lx + k] = y[k]
    BY <1>1, <1>2
  <2> HIDE DEF la, lx
  <2>3. \A i \in 0 .. Len(b) : \A k \in f[i] : lx + k \in d[la + i]
    BY <1>1, <1>2, <1>3, <1>4, <1>6, <1>7, <2>1, <2>2, Embeds
  <2> HIDE DEF lb, ly
  <2>4. lb \in 0 .. Len(b)
    BY <1>3 DEF lb
  <2> QED
    BY <1>6, <2>3, <2>4, Zenon
<1>9. Glob(p, s)
  BY <1>1, <1>2, <1>4, <1>8, Zenon
<1> QED
  BY <1>9 DEF p, s

\* Every string describes itself, its stars included.
LEMMA GlobSelf ==
  ASSUME NEW p \in Text
  PROVE  Glob(p, p)
<1>1. PICK e : AreEnds(e, p, p) /\ (Glob(p, p) <=> Len(p) \in e[Len(p)])
  BY GlobEnds
<1> DEFINE n == Len(p)
           S == {i \in 0 .. n : i \in e[i]}
<1>2. n \in Nat
  BY TextLength
<1>3. 0 \in S
  BY <1>1, <1>2 DEF AreEnds
<1>4. ASSUME NEW i \in 0 .. n - 1, i \in S PROVE i + 1 \in S
  <2> DEFINE j == i + 1
  <2>1. j \in 1 .. n /\ j - 1 = i /\ j \in 0 .. n /\ i <= j
    BY <1>2
  <2> HIDE DEF j
  <2>2. e[j] = IF p[j] = "*" THEN {k \in 0 .. n : \E l \in e[i] : l <= k}
               ELSE {k \in 1 .. n : k - 1 \in e[i] /\ p[k] = p[j]}
    BY <1>1, <2>1 DEF AreEnds
  <2>3. i \in e[i]
    BY <1>4
  <2> HIDE DEF n
  <2>4. j \in e[j]
    BY <2>1, <2>2, <2>3
  <2> QED
    BY <2>1, <2>4 DEF j
<1> HIDE DEF S
<1>5. \A i \in 0 .. n : i \in S
  <2> HIDE DEF n
  <2> QED
    BY <1>2, <1>3, <1>4, UpTo
<1> QED
  BY <1>1, <1>2, <1>5 DEF S

\* A star alone describes every string.
LEMMA GlobStar ==
  ASSUME NEW s \in Text
  PROVE  <<"*">> \in Text /\ Glob(<<"*">>, s)
<1> DEFINE p == <<"*">>
<1>1. p \in Text /\ Len(p) > 0 /\ p[1] = "*" /\ \A i \in 2 .. Len(p) : p[i] # "*"
  BY CharAssumption DEF Text
<1>2. Tail(p) = << >>
  OBVIOUS
<1> HIDE DEF p
<1>3. Glob(p, s) <=> IsSuffix(<< >>, s)
  BY <1>1, <1>2, GlobStarFirst
<1>4. IsSuffix(<< >>, s)
  <2> DEFINE none == << >>
  <2>1. none \in Text /\ Len(none) = 0
    BY DEF Text
  <2> HIDE DEF none
  <2>2. IsSuffix(none, s) <=> Len(none) <= Len(s)
                              /\ \A x \in 1 .. Len(none) : s[Len(s) - Len(none) + x] = none[x]
    BY <2>1, SuffixMeans
  <2>3. Len(s) \in Nat
    BY TextLength
  <2> QED
    BY <2>1, <2>2, <2>3 DEF none
<1> QED
  BY <1>1, <1>3, <1>4 DEF p

Sep == <<":", "/", "/">>

\* The separator of a URL's scheme is a string of three characters.
LEMMA SepIsText == Sep \in Text /\ Len(Sep) = 3 /\ Sep[1] = ":" /\ Sep[2] = "/" /\ Sep[3] = "/"
BY CharAssumption DEF Sep, Text

\* What splitScheme returns is text, and all of s when there is a scheme.
LEMMA SchemeMeans ==
  ASSUME NEW s \in Text
  PROVE  LET c == splitScheme(s) IN
         /\ c.scheme \in Text /\ c.rest \in Text
         /\ c.scheme # << >> => s = c.scheme \o (Sep \o c.rest)
<1> DEFINE c == Cut(s, Sep)
           r == splitScheme(s)
<1>1. r = IF c.found THEN [scheme |-> c.before, rest |-> c.after]
          ELSE [scheme |-> << >>, rest |-> s]
  BY DEF splitScheme, Sep
<1>2. c.found => /\ c.before \in Text /\ c.after \in Text
                 /\ s = c.before \o (Sep \o c.after)
  BY SepIsText, CutMeans
<1> HIDE DEF c, r
<1>3. CASE c.found
  <2>1. r.scheme = c.before /\ r.rest = c.after
    BY <1>1, <1>3
  <2> QED
    BY <1>2, <1>3, <2>1, Zenon DEF r
<1>4. CASE ~ c.found
  <2>1. r.scheme = << >> /\ r.rest = s
    BY <1>1, <1>4
  <2>2. << >> \in Text
    BY DEF Text
  <2> QED
    BY <2>1, <2>2, Zenon DEF r
<1> QED
  BY <1>3, <1>4

\* A URL with a scheme in front keeps it in lower case, and splitScheme finds it.
LEMMA UrlScheme ==
  ASSUME NEW s \in Text, HasScheme(s)
  PROVE  splitScheme(ToLower(s)).scheme # << >>
<1> DEFINE u == ToLower(s)
           c == Cut(u, Sep)
<1>1. PICK k \in 1 .. Len(s) - 3 : SubSeq(s, k + 1, k + 3) = Sep
  BY DEF HasScheme, Sep
<1>2. u \in Text /\ Len(u) = Len(s)
      /\ \A i \in DOMAIN s : \A x \in {"*", ".", ":", "/"} : u[i] = x <=> s[i] = x
  BY ToLowerKeeps
<1>3. DOMAIN s = 1 .. Len(s) /\ Len(s) \in Nat
  BY DEF Text
<1>4. s[1] # ":" /\ s[k + 1] = ":" /\ s[k + 2] = "/" /\ s[k + 3] = "/"
  <2>1. SubSeq(s, k + 1, k + 3) = [x \in 1 .. 3 |-> s[x + (k + 1) - 1]]
    BY <1>3 DEF Text
  <2> DEFINE t == [x \in 1 .. 3 |-> s[x + (k + 1) - 1]]
  <2>2. t[1] = s[k + 1] /\ t[2] = s[k + 2] /\ t[3] = s[k + 3]
    BY <1>3
  <2> HIDE DEF t
  <2>3. t = Sep
    BY <1>1, <2>1 DEF t
  <2> QED
    BY <2>2, <2>3, SepIsText DEF HasScheme
<1>5. u[1] # ":" /\ u[k + 1] = ":" /\ u[k + 2] = "/" /\ u[k + 3] = "/"
  <2>1. 1 \in DOMAIN s /\ k + 1 \in DOMAIN s /\ k + 2 \in DOMAIN s /\ k + 3 \in DOMAIN s
    BY <1>3
  <2> HIDE DEF u
  <2> QED
    BY <1>2, <1>4, <2>1
<1> HIDE DEF u
<1>6. Occurs(u, k, Sep, 0, 3)
  <2>1. \A x \in 1 .. 3 : x = 1 \/ x = 2 \/ x = 3
    OBVIOUS
  <2>2. ASSUME NEW x \in 1 .. 3 PROVE u[k + x] = Sep[0 + x]
    <3>1. 0 + x = x
      OBVIOUS
    <3>2. CASE x = 1
      BY <1>5, <3>1, <3>2, SepIsText
    <3>3. CASE x = 2
      BY <1>5, <3>1, <3>3, SepIsText
    <3>4. CASE x = 3
      BY <1>5, <3>1, <3>4, SepIsText
    <3> QED
      BY <2>1, <3>2, <3>3, <3>4
  <2> QED
    BY <2>2 DEF Occurs
<1>7. ~ Occurs(u, 0, Sep, 0, 3)
  <2>1. 0 + 1 = 1 /\ 1 \in 1 .. 3
    OBVIOUS
  <2>2. u[1] # Sep[1]
    BY <1>5, SepIsText
  <2> QED
    BY <2>1, <2>2 DEF Occurs
<1>8. /\ ~ c.found => \A i \in 0 .. Len(u) - Len(Sep) : ~ Occurs(u, i, Sep, 0, Len(Sep))
      /\ c.found => c.before \in Text /\ c.after \in Text /\ u = c.before \o (Sep \o c.after)
  BY <1>2, SepIsText, CutMeans
<1>9. c.found
  <2>1. Len(Sep) = 3 /\ k \in 0 .. Len(u) - 3
    BY <1>2, <1>3, SepIsText
  <2> HIDE DEF c
  <2> QED
    BY <1>6, <1>8, <2>1
<1>10. c.before # << >>
  <2> SUFFICES ASSUME c.before = << >> PROVE FALSE
    OBVIOUS
  <2> DEFINE rest == Sep \o c.after
             none == << >>
  <2>1. none \in Text /\ Len(none) = 0
    BY DEF Text
  <2>2. rest \in Text /\ Len(rest) = Len(Sep) + Len(c.after)
        /\ \A x \in 1 .. Len(Sep) : rest[x] = Sep[x]
    BY <1>8, <1>9, SepIsText, JoinMeans
  <2> HIDE DEF rest, none, c
  <2>3. u = none \o rest
    BY <1>8, <1>9 DEF none, rest
  <2>4. \A x \in 1 .. Len(rest) : (none \o rest)[Len(none) + x] = rest[x]
    BY <2>1, <2>2, JoinMeans
  <2>5. 1 \in 1 .. Len(Sep) /\ 1 \in 1 .. Len(rest) /\ 0 + 1 = 1
    <3>1. Len(c.after) \in Nat
      BY <1>8, <1>9, TextLength
    <3>2. 1 \in 1 .. 3 + Len(c.after) /\ 1 \in 1 .. 3 /\ 0 + 1 = 1
      BY <3>1
    <3>3. Len(rest) = 3 + Len(c.after)
      BY <2>2, SepIsText, Zenon
    <3> QED
      BY <3>2, <3>3, SepIsText, Zenon
  <2>6. (none \o rest)[0 + 1] = rest[1]
    BY <2>1, <2>4, <2>5, Zenon
  <2>7. u[1] = ":"
    BY <2>2, <2>3, <2>5, <2>6, SepIsText, Zenon
  <2> QED
    BY <1>5, <2>7
<1>11. splitScheme(u).scheme = c.before
  <2>1. splitScheme(u) = [scheme |-> c.before, rest |-> c.after]
    BY <1>9 DEF splitScheme, Sep
  <2> HIDE DEF c
  <2> QED
    BY <2>1
<1> QED
  BY <1>10, <1>11 DEF u

\* splitHostPath takes a string apart before its first slash, which is where its host ends.
LEMMA HostPathMeans ==
  ASSUME NEW s \in Text
  PROVE  LET h == splitHostPath(s) IN
         /\ h.host \in Text /\ h.path \in Text /\ s = h.host \o h.path
         /\ Without("/", h.host)
         /\ h.path # << >> => h.path[1] = "/"
<1> DEFINE slash == <<"/">>
           c == Cut(s, slash)
           h == splitHostPath(s)
<1>1. slash \in Text /\ Len(slash) = 1 /\ slash[1] = "/"
  BY CharAssumption DEF Text
<1>2. h = IF c.found THEN [host |-> c.before, path |-> slash \o c.after]
          ELSE [host |-> s, path |-> << >>]
  BY DEF splitHostPath
<1> HIDE DEF slash, h
<1>3. /\ ~ c.found => \A k \in 0 .. Len(s) - Len(slash) : ~ Occurs(s, k, slash, 0, Len(slash))
      /\ c.found => /\ c.before \in Text /\ c.after \in Text
                    /\ s = c.before \o (slash \o c.after)
                    /\ \A k \in 0 .. Len(c.before) - 1 : ~ Occurs(s, k, slash, 0, Len(slash))
  BY <1>1, CutMeans
<1> HIDE DEF c
<1>4. Len(s) \in Nat
  BY TextLength
<1>5. ASSUME NEW k \in Nat PROVE Occurs(s, k, slash, 0, Len(slash)) <=> s[k + 1] = "/"
  <2>1. \A x \in 1 .. 1 : x = 1 /\ 0 + x = x
    OBVIOUS
  <2>2. 1 \in 1 .. 1 /\ 0 + 1 = 1
    OBVIOUS
  <2> QED
    BY <1>1, <2>1, <2>2 DEF Occurs
<1>6. CASE c.found
  <2>1. h.host = c.before /\ h.path = slash \o c.after
    BY <1>2, <1>6
  <2> DEFINE a == c.before
             b == slash \o c.after
  <2>2. /\ b \in Text /\ Len(b) = Len(slash) + Len(c.after)
        /\ \A x \in 1 .. Len(slash) : b[x] = slash[x]
    BY <1>1, <1>3, <1>6, JoinMeans
  <2>3. b[1] = "/"
    <3>1. 1 \in 1 .. 1
      OBVIOUS
    <3> HIDE DEF b
    <3> QED
      BY <1>1, <2>2, <3>1
  <2> HIDE DEF a, b
  <2>4. a \in Text /\ s = a \o b /\ \A k \in 0 .. Len(a) - 1 : ~ Occurs(s, k, slash, 0, Len(slash))
    BY <1>3, <1>6 DEF a, b
  <2>5. Without("/", a)
    <3>1. DOMAIN a = 1 .. Len(a) /\ Len(a) \in Nat
      BY <2>4 DEF Text
    <3>2. ASSUME NEW i \in 1 .. Len(a) PROVE a[i] # "/"
      <4>1. i - 1 \in 0 .. Len(a) - 1 /\ (i - 1) + 1 = i /\ i - 1 \in Nat
        BY <3>1
      <4>2. s[i] # "/"
        BY <1>5, <2>4, <4>1
      <4>3. s[i] = a[i]
        BY <2>2, <2>4, JoinMeans
      <4> QED
        BY <4>2, <4>3
    <3> QED
      BY <3>1, <3>2 DEF Without
  <2> QED
    BY <2>1, <2>2, <2>3, <2>4, <2>5, Zenon DEF h, a, b
<1>7. CASE ~ c.found
  <2>1. h.host = s /\ h.path = << >>
    BY <1>2, <1>7
  <2>2. << >> \in Text
    BY DEF Text
  <2>3. Without("/", s)
    <3>1. DOMAIN s = 1 .. Len(s)
      BY DEF Text
    <3>2. ASSUME NEW i \in 1 .. Len(s) PROVE s[i] # "/"
      <4>1. i - 1 \in 0 .. Len(s) - 1 /\ (i - 1) + 1 = i /\ i - 1 \in Nat
        BY <1>4
      <4>2. ~ Occurs(s, i - 1, slash, 0, Len(slash))
        BY <1>1, <1>3, <1>7, <4>1
      <4> QED
        BY <1>5, <4>1, <4>2
    <3> QED
      BY <3>1, <3>2 DEF Without
  <2>4. s = s \o << >>
    BY DEF Text
  <2> QED
    BY <2>1, <2>2, <2>3, <2>4, Zenon DEF h
<1> QED
  BY <1>6, <1>7

\* The host that splitHostPath finds is the longest prefix without a slash.
LEMMA HostOfMeans ==
  ASSUME NEW s \in Text
  PROVE  HostOf(s) = splitHostPath(splitScheme(s).rest).host
<1> DEFINE rest == splitScheme(s).rest
           h == splitHostPath(rest).host
           path == splitHostPath(rest).path
           P == Prefixes(rest)
           NoSlash(g) == \A i \in DOMAIN g : g[i] # "/"
<1>1. rest \in Text
  BY SchemeMeans
<1> HIDE DEF rest
<1>2. /\ h \in Text /\ path \in Text /\ rest = h \o path /\ Without("/", h)
      /\ path # << >> => path[1] = "/"
  BY <1>1, HostPathMeans
<1>3. HostOf(s) = CHOOSE g \in P : NoSlash(g) /\ \A f \in P : NoSlash(f) => Len(f) <= Len(g)
  BY DEF HostOf, rest
<1> HIDE DEF h, path
<1> DEFINE lh == Len(h)
           lp == Len(path)
           lr == Len(rest)
<1>4. /\ lh \in Nat /\ lp \in Nat /\ lr = lh + lp
      /\ \A x \in 1 .. lh : rest[x] = h[x]
      /\ \A x \in 1 .. lp : rest[lh + x] = path[x]
  BY <1>2, TextLength, JoinMeans
<1>5. \A l \in 0 .. lr : /\ SubSeq(rest, 1, l) \in Text /\ Len(SubSeq(rest, 1, l)) = l
                         /\ \A x \in 1 .. l : SubSeq(rest, 1, l)[x] = rest[x]
  BY <1>1, TakeMeans
<1>6. h = SubSeq(rest, 1, lh)
  <2> DEFINE g == SubSeq(rest, 1, lh)
  <2>1. lh \in 0 .. lr
    <3> HIDE DEF lr, lh, lp
    <3> QED
      BY <1>4
  <2>2. g \in Text /\ Len(g) = Len(h) /\ \A x \in 1 .. Len(h) : g[x] = rest[x]
    BY <1>5, <2>1, Zenon
  <2> HIDE DEF g
  <2>3. \A x \in 1 .. Len(h) : g[x] = h[x]
    BY <1>4, <2>2
  <2>4. g = h
    BY <1>2, <2>2, <2>3, SameText
  <2> QED
    BY <2>4 DEF g
<1>7. h \in P
  <2>1. lh \in 0 .. lr
    <3> HIDE DEF lr, lh, lp
    <3> QED
      BY <1>4
  <2> QED
    BY <1>6, <2>1, Zenon DEF Prefixes
<1>8. NoSlash(h)
  BY <1>2 DEF Without
<1>9. ASSUME NEW g \in P, NoSlash(g) PROVE Len(g) <= lh /\ g \in Text
  <2>1. PICK l \in 0 .. lr : g = SubSeq(rest, 1, l)
    BY <1>9 DEF Prefixes
  <2>2. g \in Text /\ Len(g) = l /\ \A x \in 1 .. l : g[x] = rest[x]
    BY <1>5, <2>1, Zenon
  <2>3. l <= lh
    <3> SUFFICES ASSUME ~ l <= lh PROVE FALSE
      OBVIOUS
    <3> HIDE DEF lh, lp, lr
    <3>1. l \in 0 .. lr /\ lh + 1 \in 1 .. l /\ lp # 0 /\ 1 \in 1 .. lp
      BY <1>4, <2>1
    <3>2. path # << >>
      <4>1. Len(<< >>) = 0
        OBVIOUS
      <4> QED
        BY <3>1, <4>1, Zenon DEF lp
    <3>3. g[lh + 1] = "/"
      BY <1>2, <1>4, <2>2, <3>1, <3>2
    <3>4. lh + 1 \in DOMAIN g
      BY <2>2, <3>1 DEF Text
    <3> QED
      BY <1>9, <3>3, <3>4
  <2> QED
    BY <2>2, <2>3, Zenon
<1> HIDE DEF P
<1> DEFINE Host(g) == NoSlash(g) /\ \A f \in P : NoSlash(f) => Len(f) <= Len(g)
<1>10. h \in P /\ Host(h)
  BY <1>7, <1>8, <1>9
<1>11. ASSUME NEW g \in P, Host(g) PROVE g = h
  <2>1. lh <= Len(g)
    BY <1>7, <1>8, <1>11
  <2>2. Len(g) <= lh /\ g \in Text
    BY <1>9, <1>11
  <2>3. Len(g) \in Nat
    BY <2>2, TextLength
  <2> DEFINE l == Len(g)
  <2> HIDE DEF l
  <2>4. l = lh
    <3>1. lh <= l /\ l <= lh /\ l \in Nat /\ lh \in Nat
      BY <1>4, <2>1, <2>2, <2>3 DEF l
    <3> HIDE DEF lh
    <3> QED
      BY <3>1
  <2>5. PICK k \in 0 .. lr : g = SubSeq(rest, 1, k)
    BY <1>11 DEF P, Prefixes
  <2>6. k = lh
    BY <1>5, <2>4, <2>5, Zenon DEF l
  <2> QED
    BY <1>6, <2>5, <2>6, Zenon
<1> HIDE DEF Host
<1>12. (CHOOSE g \in P : Host(g)) = h
  BY <1>10, <1>11
<1> QED
  BY <1>3, <1>12 DEF Host, h, rest

\* A pattern that matches a URL describes it whole, and its host the host.
LEMMA GlobMatchMeans ==
  ASSUME NEW pattern \in Text, NEW url \in Text, HasScheme(url), GlobMatch(pattern, url)
  PROVE  /\ Glob(ToLower(pattern), ToLower(url))
         /\ Glob(HostOf(ToLower(pattern)), HostOf(ToLower(url)))
<1> DEFINE p == ToLower(pattern)
           u == ToLower(url)
           ps == splitScheme(p).scheme
           pr == splitScheme(p).rest
           us == splitScheme(u).scheme
           ur == splitScheme(u).rest
           ph == splitHostPath(pr).host
           pp == splitHostPath(pr).path
           uh == splitHostPath(ur).host
           up == splitHostPath(ur).path
<1>1. /\ ps = <<"*">> \/ ps = us
      /\ Glob(ph, uh)
      /\ wildcardMatch(pp, up)
  BY DEF GlobMatch, pathMatch
<1>2. p \in Text /\ u \in Text
  BY ToLowerKeeps
<1>3. us # << >>
  BY UrlScheme
<1>4. HostOf(p) = ph /\ HostOf(u) = uh
  BY <1>2, HostOfMeans
<1> HIDE DEF p, u
<1>5. /\ ps \in Text /\ pr \in Text /\ us \in Text /\ ur \in Text
      /\ ps # << >> => p = ps \o (Sep \o pr)
      /\ u = us \o (Sep \o ur)
  BY <1>2, <1>3, SchemeMeans
<1> HIDE DEF ps, pr, us, ur
<1>6. /\ ph \in Text /\ pp \in Text /\ pr = ph \o pp
      /\ uh \in Text /\ up \in Text /\ ur = uh \o up
  BY <1>5, HostPathMeans
<1> HIDE DEF ph, pp, uh, up
<1>7. ps # << >> /\ Glob(ps, us)
  <2>1. CASE ps = <<"*">>
    <3>1. <<"*">> # << >>
      OBVIOUS
    <3> QED
      BY <1>5, <2>1, <3>1, GlobStar
  <2>2. CASE ps = us
    BY <1>3, <1>5, <2>2, GlobSelf
  <2> QED
    BY <1>1, <2>1, <2>2
<1>8. Glob(pp, up)
  BY <1>1, <1>6, WildcardMeans
<1>9. Glob(pr, ur)
  BY <1>1, <1>6, <1>8, GlobJoin
<1>10. Glob(Sep, Sep) /\ Sep \in Text
  BY SepIsText, GlobSelf
<1>11. Glob(Sep \o pr, Sep \o ur) /\ Sep \o pr \in Text /\ Sep \o ur \in Text
  BY <1>5, <1>9, <1>10, GlobJoin, JoinMeans
<1>12. Glob(ps \o (Sep \o pr), us \o (Sep \o ur))
  BY <1>5, <1>7, <1>11, GlobJoin
<1>13. Glob(p, u)
  BY <1>5, <1>7, <1>12
<1> QED
  BY <1>1, <1>4, <1>13 DEF p, u

\* matchesURL runs a script only on the URLs its patterns describe, the stars of the path
\* never reaching into the host: for all lists of patterns and every URL with a scheme.
THEOREM ScriptsRunWhereTheySay == PatSpec => []MatchIsSound
<1>1. PatInv => MatchIsSound
  <2> SUFFICES ASSUME PatInv, Answered("script"), Result PROVE MatchIsSound
    BY DEF MatchIsSound
  <2>1. query \in ScriptQueries /\ GlobMatchAny(query[1], query[2])
    BY DEF PatInv, Answered, Result
  <2>2. query[1] \in Seq(Text) /\ query[2] \in Text /\ HasScheme(query[2])
    BY <2>1, TextAssumption
  <2>3. PICK i \in DOMAIN query[1] : GlobMatch(query[1][i], query[2])
    BY <2>1 DEF GlobMatchAny
  <2>4. query[1][i] \in Text
    BY <2>2, <2>3
  <2>5. /\ Glob(ToLower(query[1][i]), ToLower(query[2]))
        /\ Glob(HostOf(ToLower(query[1][i])), HostOf(ToLower(query[2])))
    BY <2>2, <2>3, <2>4, GlobMatchMeans
  <2> QED
    BY <2>5 DEF MatchIsSound
<1> QED
  BY <1>1, PatInvInductive, PTL

-----------------------------------------------------------------------------
(* Sequences in a row *)

\* What holds of all sequences, of bytes.
LEMMA BytesTake ==
  ASSUME NEW s \in Bytes, NEW n \in 0 .. Len(s)
  PROVE  /\ SubSeq(s, 1, n) \in Bytes /\ Len(SubSeq(s, 1, n)) = n
         /\ \A x \in 1 .. n : SubSeq(s, 1, n)[x] = s[x]
BY SeqTake DEF Bytes

\* What is left of a body behind its first bytes.
LEMMA BytesDrop ==
  ASSUME NEW s \in Bytes, NEW n \in 0 .. Len(s)
  PROVE  /\ SubSeq(s, n + 1, Len(s)) \in Bytes /\ Len(SubSeq(s, n + 1, Len(s))) = Len(s) - n
         /\ \A x \in 1 .. Len(s) - n : SubSeq(s, n + 1, Len(s))[x] = s[n + x]
BY SeqDrop DEF Bytes

\* One body behind the other.
LEMMA BytesJoin ==
  ASSUME NEW a \in Bytes, NEW b \in Bytes
  PROVE  /\ a \o b \in Bytes /\ Len(a \o b) = Len(a) + Len(b)
         /\ \A x \in 1 .. Len(a) : (a \o b)[x] = a[x]
         /\ \A x \in 1 .. Len(b) : (a \o b)[Len(a) + x] = b[x]
BY SeqJoin DEF Bytes

\* Bodies of one length with the same bytes are the same.
LEMMA SameBytes ==
  ASSUME NEW a \in Bytes, NEW b \in Bytes, Len(a) = Len(b), \A i \in 1 .. Len(a) : a[i] = b[i]
  PROVE  a = b
BY SeqEqual DEF Bytes

\* A body has a length.
LEMMA BytesLength == ASSUME NEW s \in Bytes PROVE Len(s) \in Nat
BY DEF Bytes

\* Taking apart what was put together.
LEMMA JoinParts ==
  ASSUME NEW a \in Bytes, NEW b \in Bytes
  PROVE  /\ SubSeq(a \o b, 1, Len(a)) = a
         /\ SubSeq(a \o b, Len(a) + 1, Len(a \o b)) = b
<1> DEFINE s == a \o b
           n == Len(a)
           first == SubSeq(s, 1, n)
           last == SubSeq(s, n + 1, Len(s))
<1>1. s \in Bytes /\ Len(s) = n + Len(b) /\ n \in Nat /\ Len(b) \in Nat
      /\ (\A x \in 1 .. n : s[x] = a[x]) /\ \A x \in 1 .. Len(b) : s[n + x] = b[x]
  BY BytesJoin, BytesLength
<1> HIDE DEF s
<1>2. n \in 0 .. Len(s) /\ Len(s) - n = Len(b)
  <2> DEFINE l == Len(s)
             m == Len(b)
  <2>1. l = n + m /\ n \in Nat /\ m \in Nat
    BY <1>1
  <2> HIDE DEF l, m, n
  <2>2. n \in 0 .. l /\ l - n = m
    BY <2>1
  <2> QED
    BY <2>2 DEF l, m
<1>3. first \in Bytes /\ Len(first) = n /\ \A x \in 1 .. n : first[x] = s[x]
  BY <1>1, <1>2, BytesTake
<1>4. last \in Bytes /\ Len(last) = Len(s) - n /\ \A x \in 1 .. Len(s) - n : last[x] = s[n + x]
  BY <1>1, <1>2, BytesDrop
<1> HIDE DEF first, last
<1>5. first = a
  BY <1>1, <1>3, SameBytes
<1>6. last = b
  <2>1. Len(last) = Len(b) /\ \A x \in 1 .. Len(b) : last[x] = b[x]
    BY <1>1, <1>2, <1>4
  <2> QED
    BY <1>4, <2>1, SameBytes
<1> QED
  BY <1>5, <1>6 DEF first, last, s

\* What can be put together in any grouping, with nothing as well.
Joins(W) ==
  /\ << >> \in W
  /\ \A a \in W : << >> \o a = a /\ a \o << >> = a
  /\ \A a, b \in W : a \o b \in W
  /\ \A a, b, c \in W : (a \o b) \o c = a \o (b \o c)

\* The sequences over any set can be put together.
LEMMA SeqJoins ==
  ASSUME NEW V
  PROVE  Joins(Seq(V))
<1> DEFINE W == Seq(V)
<1>1. ASSUME NEW a \in W, NEW b \in W
      PROVE  /\ a \o b \in W /\ Len(a \o b) = Len(a) + Len(b)
             /\ \A x \in 1 .. Len(a) : (a \o b)[x] = a[x]
             /\ \A x \in 1 .. Len(b) : (a \o b)[Len(a) + x] = b[x]
  BY SeqJoin
<1>2. ASSUME NEW a \in W PROVE Len(a) \in Nat
  OBVIOUS
<1>3. ASSUME NEW a \in W, NEW b \in W, Len(a) = Len(b), \A i \in 1 .. Len(a) : a[i] = b[i]
      PROVE  a = b
  BY <1>3, SeqEqual
<1>4. << >> \in W /\ \A a \in W : << >> \o a = a /\ a \o << >> = a
  OBVIOUS
<1> HIDE DEF W
<1>5. ASSUME NEW a \in W, NEW b \in W, NEW c \in W PROVE (a \o b) \o c = a \o (b \o c)
  <2> DEFINE ab == a \o b
             bc == b \o c
             l == ab \o c
             r == a \o bc
  <2>1. /\ ab \in W /\ Len(ab) = Len(a) + Len(b)
        /\ \A x \in 1 .. Len(a) : ab[x] = a[x]
        /\ \A x \in 1 .. Len(b) : ab[Len(a) + x] = b[x]
    BY <1>1
  <2>2. /\ bc \in W /\ Len(bc) = Len(b) + Len(c)
        /\ \A x \in 1 .. Len(b) : bc[x] = b[x]
        /\ \A x \in 1 .. Len(c) : bc[Len(b) + x] = c[x]
    BY <1>1
  <2> HIDE DEF ab, bc
  <2>3. /\ l \in W /\ Len(l) = Len(ab) + Len(c)
        /\ \A x \in 1 .. Len(ab) : l[x] = ab[x]
        /\ \A x \in 1 .. Len(c) : l[Len(ab) + x] = c[x]
    <3>1. ab \in W
      BY <2>1
    <3> QED
      BY <1>1, <3>1, Zenon
  <2>4. /\ r \in W /\ Len(r) = Len(a) + Len(bc)
        /\ \A x \in 1 .. Len(a) : r[x] = a[x]
        /\ \A x \in 1 .. Len(bc) : r[Len(a) + x] = bc[x]
    <3>1. bc \in W
      BY <2>2
    <3> QED
      BY <1>1, <3>1, Zenon
  <2> HIDE DEF l, r
  <2> DEFINE la == Len(a)
             lb == Len(b)
             lc == Len(c)
  <2>5. la \in Nat /\ lb \in Nat /\ lc \in Nat
    BY <1>2
  <2>6. Len(ab) = la + lb /\ Len(bc) = lb + lc
    BY <2>1, <2>2, Zenon
  <2>7. Len(l) = (la + lb) + lc /\ Len(r) = la + (lb + lc)
    BY <2>3, <2>4, <2>6, Zenon
  <2>8. /\ \A x \in 1 .. la : l[x] = a[x] /\ r[x] = a[x]
        /\ \A x \in 1 .. lb : l[la + x] = b[x] /\ r[la + x] = b[x]
        /\ \A x \in 1 .. lc : l[(la + lb) + x] = c[x] /\ r[la + (lb + x)] = c[x]
    <3> HIDE DEF la, lb, lc
    <3>1. \A x \in 1 .. la : x \in 1 .. la + lb
      BY <2>5
    <3>2. \A x \in 1 .. lb : la + x \in 1 .. la + lb /\ x \in 1 .. lb + lc
      BY <2>5
    <3>3. \A x \in 1 .. lc : lb + x \in 1 .. lb + lc
      BY <2>5
    <3>4. /\ \A x \in 1 .. la : ab[x] = a[x]
          /\ \A x \in 1 .. lb : ab[la + x] = b[x]
          /\ \A x \in 1 .. lb : bc[x] = b[x]
          /\ \A x \in 1 .. lc : bc[lb + x] = c[x]
      BY <2>1, <2>2, Zenon DEF la, lb, lc
    <3>5. /\ \A x \in 1 .. la + lb : l[x] = ab[x]
          /\ \A x \in 1 .. lc : l[(la + lb) + x] = c[x]
          /\ \A x \in 1 .. la : r[x] = a[x]
          /\ \A x \in 1 .. lb + lc : r[la + x] = bc[x]
      BY <2>3, <2>4, <2>6, Zenon DEF la, lc
    <3> QED
      BY <3>1, <3>2, <3>3, <3>4, <3>5
  <2> HIDE DEF la, lb, lc
  <2>9. ASSUME NEW x \in 1 .. (la + lb) + lc PROVE l[x] = r[x]
    <3>1. CASE x <= la
      <4>1. x \in 1 .. la
        BY <2>5, <3>1
      <4> QED
        BY <2>8, <4>1
    <3>2. CASE x > la /\ x <= la + lb
      <4>1. x - la \in 1 .. lb /\ la + (x - la) = x
        BY <2>5, <3>2
      <4> QED
        BY <2>8, <4>1
    <3>3. CASE x > la + lb
      <4>1. x - (la + lb) \in 1 .. lc /\ (la + lb) + (x - (la + lb)) = x
            /\ la + (lb + (x - (la + lb))) = x
        BY <2>5, <3>3
      <4> QED
        BY <2>8, <4>1
    <3> QED
      BY <2>5, <3>1, <3>2, <3>3
  <2>10. (la + lb) + lc = la + (lb + lc)
    BY <2>5
  <2>11. Len(l) = Len(r)
    BY <2>7, <2>10, Zenon
  <2>12. \A x \in 1 .. Len(l) : l[x] = r[x]
    BY <2>7, <2>9, Zenon
  <2>13. l = r
    BY <2>3, <2>4, <2>11, <2>12, <1>3
  <2> QED
    BY <2>13 DEF l, r, ab, bc
<1> QED
  BY <1>1, <1>4, <1>5 DEF Joins, W

\* So can bodies.
LEMMA BytesJoins == Joins(Bytes)
BY SeqJoins DEF Bytes

\* Three bodies in a row are the same whichever two are put together first.
LEMMA JoinAssociates ==
  ASSUME NEW a \in Bytes, NEW b \in Bytes, NEW c \in Bytes
  PROVE  (a \o b) \o c = a \o (b \o c)
BY BytesJoins DEF Joins

\* A body and nothing is the body.
LEMMA JoinNothing ==
  ASSUME NEW a \in Bytes
  PROVE  << >> \in Bytes /\ << >> \o a = a /\ a \o << >> = a
BY DEF Bytes

ListOf(seqs, W) == seqs \in Seq(W)

FlattenBody(seqs, f) ==
  [i \in 1 .. Len(seqs) |-> IF i = 1 THEN seqs[i] ELSE f[i - 1] \o seqs[i]]

\* FlattenSeq puts the sequences together from the first to the last.
LEMMA FlattenLoop ==
  ASSUME NEW W, Joins(W), NEW seqs, ListOf(seqs, W)
  PROVE  \E f : /\ \A i \in 0 .. Len(seqs) : f[i] \in W
                /\ f[0] = << >>
                /\ \A i \in 1 .. Len(seqs) : f[i] = f[i - 1] \o seqs[i]
                /\ FlattenSeq(seqs) = f[Len(seqs)]
<1> DEFINE n == Len(seqs)
           h == CHOOSE f : f = FlattenBody(seqs, f)
           Step == [c \in (1 .. n) \X W |-> c[2] \o seqs[c[1]]]
<1>1. n \in Nat /\ \A i \in 1 .. n : seqs[i] \in W
  BY DEF ListOf
<1>2. FlattenSeq(seqs) = IF n = 0 THEN seqs ELSE h[n]
  BY DEF FlattenSeq, FlattenBody
<1>3. Step \in [(1 .. n) \X W -> W]
  BY <1>1 DEF Joins
<1>4. << >> \in W
  BY DEF Joins
<1> HIDE DEF n, h
<1>5. PICK f \in [0 .. n -> W] : IsLoop(f, n, << >>, Step)
  <2> HIDE DEF Step
  <2> QED
    BY <1>1, <1>3, <1>4, LoopExists
<1>6. f[0] = << >>
  <2>1. 0 \in 0 .. n
    BY <1>1
  <2> QED
    BY <1>5, <2>1 DEF IsLoop
<1>7. \A i \in 1 .. n : f[i - 1] \in W /\ f[i] = f[i - 1] \o seqs[i]
  <2> TAKE i \in 1 .. n
  <2>1. i \in 0 .. n /\ i # 0 /\ i - 1 \in 0 .. n
    BY <1>1
  <2>2. f[i - 1] \in W
    BY <2>1
  <2>3. f[i] = Step[<<i, f[i - 1]>>]
    BY <1>5, <2>1 DEF IsLoop
  <2> QED
    BY <2>2, <2>3
<1>8. n # 0 => h[n] = f[n]
  <2> DEFINE g == [i \in 1 .. n |-> f[i]]
  <2>1. g = FlattenBody(seqs, g)
    <3>1. ASSUME NEW i \in 1 .. n PROVE g[i] = FlattenBody(seqs, g)[i]
      <4>1. CASE i = 1
        <5>1. f[i] = << >> \o seqs[i]
          <6>1. i - 1 = 0
            BY <4>1
          <6>2. f[i] = f[i - 1] \o seqs[i]
            BY <1>7, Zenon
          <6> QED
            BY <1>6, <6>1, <6>2, Zenon
        <5>2. seqs[i] \in W
          BY <1>1
        <5>3. << >> \o seqs[i] = seqs[i]
          BY <5>2 DEF Joins
        <5>4. g[i] = f[i]
          OBVIOUS
        <5>5. FlattenBody(seqs, g)[i] = seqs[i]
          BY <4>1 DEF FlattenBody, n
        <5> QED
          BY <5>1, <5>3, <5>4, <5>5, Zenon
      <4>2. CASE i # 1
        <5>1. i - 1 \in 1 .. n
          BY <1>1, <4>2
        <5> QED
          BY <1>7, <4>2, <5>1 DEF FlattenBody, n
      <4> QED
        BY <4>1, <4>2
    <3>2. FlattenBody(seqs, g) = [i \in 1 .. n |-> FlattenBody(seqs, g)[i]] /\ g = [i \in 1 .. n |-> g[i]]
      BY DEF FlattenBody, n
    <3> HIDE DEF g
    <3> QED
      BY <3>1, <3>2
  <2>2. h = FlattenBody(seqs, h)
    <3> HIDE DEF g
    <3> QED
      BY <2>1 DEF h
  <2> DEFINE S == {i \in 0 .. n : i # 0 => h[i] = f[i]}
  <2>3. 0 \in S
    BY <1>1
  <2>4. ASSUME NEW i \in 0 .. n - 1, i \in S PROVE i + 1 \in S
    <3> DEFINE j == i + 1
    <3>1. j \in 1 .. n /\ j \in 0 .. n /\ j - 1 = i
      BY <1>1
    <3> HIDE DEF j
    <3>2. h[j] = IF j = 1 THEN seqs[j] ELSE h[j - 1] \o seqs[j]
      <4>1. h[j] = FlattenBody(seqs, h)[j]
        BY <2>2, Zenon
      <4> QED
        BY <3>1, <4>1 DEF FlattenBody, n
    <3>3. g[j] = IF j = 1 THEN seqs[j] ELSE g[j - 1] \o seqs[j]
      <4> HIDE DEF g
      <4>1. g[j] = FlattenBody(seqs, g)[j]
        BY <2>1, Zenon
      <4> QED
        BY <3>1, <4>1 DEF FlattenBody, n
    <3>4. CASE j = 1
      BY <3>1, <3>2, <3>3, <3>4 DEF j
    <3>5. CASE j # 1
      <4>1. i \in 1 .. n /\ i # 0
        BY <1>1, <3>1, <3>5
      <4>2. h[i] = f[i] /\ g[i] = f[i]
        BY <2>4, <4>1
      <4> QED
        BY <3>1, <3>2, <3>3, <3>5, <4>2 DEF j
    <3> QED
      BY <3>4, <3>5
  <2> HIDE DEF S
  <2>5. \A i \in 0 .. n : i \in S
    BY <1>1, <2>3, <2>4, UpTo
  <2>6. n \in 0 .. n
    BY <1>1
  <2> QED
    BY <2>5, <2>6 DEF S
<1>9. n = 0 => seqs = << >>
  BY DEF n, ListOf
<1>10. FlattenSeq(seqs) = f[n]
  BY <1>2, <1>6, <1>8, <1>9
<1>11. \A i \in 0 .. n : f[i] \in W
  OBVIOUS
<1> QED
  BY <1>6, <1>7, <1>10, <1>11 DEF n

\* The same from the last to the first, with something after them all.
LEMMA FlattenBack ==
  ASSUME NEW seqs \in Seq(Bytes), NEW tail \in Bytes
  PROVE  \E r : /\ \A i \in 0 .. Len(seqs) : r[i] \in Bytes
                /\ r[Len(seqs)] = tail
                /\ \A i \in 1 .. Len(seqs) : r[i - 1] = seqs[i] \o r[i]
                /\ \A i \in 0 .. Len(seqs) : \E before \in Bytes : r[0] = before \o r[i]
                /\ r[0] = FlattenSeq(seqs) \o tail
<1> DEFINE n == Len(seqs)
           W == Bytes
           Step == [c \in (1 .. n) \X W |-> seqs[n + 1 - c[1]] \o c[2]]
<1>1. n \in Nat /\ \A i \in 1 .. n : seqs[i] \in W
  OBVIOUS
<1>2. PICK f : /\ \A i \in 0 .. n : f[i] \in Bytes
               /\ f[0] = << >>
               /\ \A i \in 1 .. n : f[i] = f[i - 1] \o seqs[i]
               /\ FlattenSeq(seqs) = f[n]
  BY BytesJoins, FlattenLoop DEF ListOf
<1> HIDE DEF n
<1>3. Step \in [(1 .. n) \X W -> W]
  <2>1. ASSUME NEW i \in 1 .. n, NEW a \in W PROVE seqs[n + 1 - i] \o a \in W
    <3>1. n + 1 - i \in 1 .. n
      BY <1>1
    <3>2. seqs[n + 1 - i] \in Bytes
      BY <1>1, <3>1
    <3> QED
      BY <3>2, BytesJoin
  <2> QED
    BY <2>1
<1>4. PICK g \in [0 .. n -> W] : IsLoop(g, n, tail, Step)
  <2> HIDE DEF Step, W
  <2>1. tail \in W
    BY DEF W
  <2> QED
    BY <1>1, <1>3, <2>1, LoopExists
<1> DEFINE r == [i \in 0 .. n |-> g[n - i]]
<1>5. \A i \in 0 .. n : r[i] \in W
  BY <1>1
<1>6. r[n] = tail
  <2>1. n \in 0 .. n /\ n - n = 0 /\ 0 \in 0 .. n
    BY <1>1
  <2> QED
    BY <1>4, <2>1 DEF IsLoop
<1>7. ASSUME NEW i \in 1 .. n PROVE r[i - 1] = seqs[i] \o r[i]
  <2> DEFINE k == n - (i - 1)
  <2>1. k \in 1 .. n /\ k \in 0 .. n /\ k # 0 /\ k - 1 = n - i /\ n + 1 - k = i
        /\ i - 1 \in 0 .. n /\ i \in 0 .. n /\ k - 1 \in 0 .. n
    BY <1>1
  <2> HIDE DEF k
  <2>2. g[k] = Step[<<k, g[k - 1]>>]
    BY <1>4, <2>1 DEF IsLoop
  <2>3. g[k - 1] \in W
    BY <2>1
  <2>4. g[k] = seqs[i] \o g[n - i]
    BY <2>1, <2>2, <2>3
  <2>5. r[i - 1] = g[k] /\ r[i] = g[n - i]
    BY <2>1 DEF k
  <2> QED
    BY <2>4, <2>5
<1> HIDE DEF r
<1>8. /\ r[0] = FlattenSeq(seqs) \o tail
      /\ \A i \in 0 .. n : \E before \in Bytes : r[0] = before \o r[i]
  <2> DEFINE S == {i \in 0 .. n : f[i] \o r[i] = r[0]}
  <2>1. 0 \in S
    <3>1. r[0] \in Bytes /\ 0 \in 0 .. n
      BY <1>1, <1>5
    <3>2. << >> \o r[0] = r[0]
      BY <3>1, JoinNothing
    <3> QED
      BY <1>2, <3>1, <3>2
  <2>2. ASSUME NEW i \in 0 .. n - 1, i \in S PROVE i + 1 \in S
    <3> DEFINE j == i + 1
    <3>1. j \in 1 .. n /\ j \in 0 .. n /\ j - 1 = i /\ i \in 0 .. n
      BY <1>1
    <3> HIDE DEF j
    <3>2. f[j] = f[i] \o seqs[j] /\ r[i] = seqs[j] \o r[j]
      BY <1>2, <1>7, <3>1
    <3>3. f[i] \in Bytes /\ seqs[j] \in Bytes /\ r[j] \in Bytes
      BY <1>1, <1>2, <1>5, <3>1
    <3>4. f[j] \o r[j] = f[i] \o r[i]
      <4>1. (f[i] \o seqs[j]) \o r[j] = f[i] \o (seqs[j] \o r[j])
        BY <3>3, JoinAssociates, Zenon
      <4> QED
        BY <3>2, <4>1, Zenon
    <3>5. f[i] \o r[i] = r[0]
      BY <2>2
    <3>6. j \in S
      BY <3>1, <3>4, <3>5
    <3> QED
      BY <3>6 DEF j
  <2> HIDE DEF S
  <2>3. \A i \in 0 .. n : i \in S
    BY <1>1, <2>1, <2>2, UpTo
  <2>4. n \in S
    BY <1>1, <2>3
  <2>5. \A i \in 0 .. n : f[i] \in Bytes /\ r[0] = f[i] \o r[i]
    BY <1>2, <2>3 DEF S
  <2> QED
    BY <1>2, <1>6, <2>4, <2>5 DEF S
<1> QED
  BY <1>5, <1>6, <1>7, <1>8 DEF n

-----------------------------------------------------------------------------
(* Frames *)

\* Four bytes say the length of a payload, and BigEndian reads it back.
LEMMA FourBytes ==
  ASSUME NEW n \in Nat, IsUint32(n), NEW d, d = PutUint32(n)
  PROVE  d \in Bytes /\ Len(d) = 4 /\ ((d[1] * 256 + d[2]) * 256 + d[3]) * 256 + d[4] = n
<1> DEFINE q1 == n \div 16777216
           q2 == n \div 65536
           q3 == n \div 256
<1>1. q1 \in Nat /\ q1 < 256 /\ q2 \in Nat /\ q3 \in Nat
  BY DEF IsUint32
<1>2. q2 = 256 * q1 + (q2 % 256) /\ q2 % 256 \in Byte
  <2> DEFINE c == q2 \div 256
  <2>1. q2 = 256 * c + (q2 % 256) /\ q2 % 256 \in Byte /\ c \in Nat
    <3> HIDE DEF q2
    <3> QED
      BY <1>1 DEF Byte
  <2>2. 65536 * q2 <= n /\ n < 65536 * (q2 + 1) /\ 256 * c <= q2 /\ q2 < 256 * (c + 1)
    BY <1>1
  <2>3. 16777216 * q1 <= n /\ n < 16777216 * (q1 + 1)
    BY <1>1
  <2> HIDE DEF c, q1, q2
  <2>4. c = q1
    BY <1>1, <2>1, <2>2, <2>3
  <2> QED
    BY <2>1, <2>4
<1>3. q3 = 256 * q2 + (q3 % 256) /\ q3 % 256 \in Byte
  BY <1>1 DEF Byte
<1>4. n = 256 * q3 + (n % 256) /\ n % 256 \in Byte
  BY <1>1 DEF Byte
<1>5. q1 % 256 = q1 /\ q1 \in Byte
  BY <1>1 DEF Byte
<1> DEFINE r2 == q2 % 256
           r3 == q3 % 256
           r4 == n % 256
<1>6. d = <<q1, r2, r3, r4>>
  BY <1>5 DEF PutUint32
<1> HIDE DEF q1, q2, q3, r2, r3, r4
<1>7. d \in Bytes /\ Len(d) = 4 /\ d[1] = q1 /\ d[2] = r2 /\ d[3] = r3 /\ d[4] = r4
  BY <1>2, <1>3, <1>4, <1>5, <1>6 DEF Bytes, r2, r3, r4
<1>8. ((q1 * 256 + r2) * 256 + r3) * 256 + r4 = n
  <2>1. q2 = q1 * 256 + r2 /\ q3 = q2 * 256 + r3 /\ n = q3 * 256 + r4
    BY <1>1, <1>2, <1>3, <1>4 DEF r2, r3, r4
  <2> QED
    BY <2>1
<1> QED
  BY <1>7, <1>8, Zenon

\* The header of a frame.
LEMMA HeaderMeans ==
  ASSUME NEW flag \in Byte, NEW n \in Nat, IsUint32(n)
  PROVE  LET head == <<flag>> \o PutUint32(n) IN
         /\ head \in Bytes /\ Len(head) = 5 /\ head[1] = flag
         /\ \A b : (\A x \in 1 .. 5 : b[x] = head[x]) /\ b \in Bytes /\ Len(b) >= 5 => Length(b) = n
<1> DEFINE d == PutUint32(n)
           one == <<flag>>
           head == one \o d
<1>1. d \in Bytes /\ Len(d) = 4 /\ ((d[1] * 256 + d[2]) * 256 + d[3]) * 256 + d[4] = n
  BY FourBytes
<1>2. one \in Bytes /\ Len(one) = 1 /\ one[1] = flag
  BY DEF Bytes
<1> HIDE DEF d, one
<1>3. /\ head \in Bytes /\ Len(head) = Len(one) + Len(d)
      /\ \A x \in 1 .. Len(one) : head[x] = one[x]
      /\ \A x \in 1 .. Len(d) : head[Len(one) + x] = d[x]
  BY <1>1, <1>2, BytesJoin
<1> HIDE DEF head
<1>4. Len(head) = 5
  <2>1. 1 + 4 = 5
    OBVIOUS
  <2> QED
    BY <1>1, <1>2, <1>3, <2>1, Zenon
<1>5. head[1] = flag /\ head[2] = d[1] /\ head[3] = d[2] /\ head[4] = d[3] /\ head[5] = d[4]
  <2>1. (\A x \in 1 .. 1 : head[x] = one[x]) /\ \A x \in 1 .. 4 : head[1 + x] = d[x]
    BY <1>1, <1>2, <1>3, Zenon
  <2> QED
    BY <1>2, <2>1
<1>6. ASSUME NEW b \in Bytes, Len(b) >= 5, \A x \in 1 .. 5 : b[x] = head[x] PROVE Length(b) = n
  <2> DEFINE s == SubSeq(b, 2, 5)
  <2>1. s = [x \in 1 .. 4 |-> b[x + 2 - 1]]
    BY <1>6 DEF Bytes
  <2>2. s[1] = b[2] /\ s[2] = b[3] /\ s[3] = b[4] /\ s[4] = b[5]
    BY <2>1
  <2> HIDE DEF s
  <2>3. s[1] = d[1] /\ s[2] = d[2] /\ s[3] = d[3] /\ s[4] = d[4]
    BY <1>5, <1>6, <2>2
  <2>4. Length(b) = ((s[1] * 256 + s[2]) * 256 + s[3]) * 256 + s[4]
    BY DEF Length, BigEndian, frameHeaderLen, s
  <2> QED
    BY <1>1, <2>3, <2>4, Zenon
<1> QED
  BY <1>3, <1>4, <1>5, <1>6 DEF head, one, d

\* What the decoder sees of a frame and what follows it.
LEMMA FrameMeans ==
  ASSUME NEW f, IsFrame(f), NEW rest \in Bytes
  PROVE  LET m == Len(f.payload)
             b == FrameBytes(f) \o rest
         IN  /\ m \in Nat /\ FrameBytes(f) \in Bytes /\ Len(FrameBytes(f)) = 5 + m
             /\ b \in Bytes /\ Len(b) = (5 + m) + Len(rest)
             /\ b[1] = f.flag /\ Length(b) = m
             /\ SubSeq(b, 1, 5 + m) = FrameBytes(f)
             /\ Rest(b, 5) = f.payload \o rest
             /\ SubSeq(f.payload \o rest, 1, m) = f.payload
<1> DEFINE p == f.payload
           m == Len(p)
           head == <<f.flag>> \o PutUint32(m)
           fb == head \o p
           pr == p \o rest
           b == fb \o rest
<1>1. p \in Bytes /\ f.flag \in Byte /\ IsUint32(m)
  BY DEF IsFrame
<1>2. m \in Nat
  BY <1>1, BytesLength
<1>3. /\ head \in Bytes /\ Len(head) = 5 /\ head[1] = f.flag
      /\ \A c : (\A x \in 1 .. 5 : c[x] = head[x]) /\ c \in Bytes /\ Len(c) >= 5 => Length(c) = m
  BY <1>1, <1>2, HeaderMeans
<1>4. FrameBytes(f) = fb
  BY DEF FrameBytes
<1> HIDE DEF p, head
<1>5. fb \in Bytes /\ Len(fb) = Len(head) + Len(p)
  BY <1>1, <1>3, BytesJoin
<1>6. pr \in Bytes /\ Len(pr) = Len(p) + Len(rest) /\ SubSeq(pr, 1, Len(p)) = p
  BY <1>1, BytesJoin, JoinParts
<1>7. b = head \o pr
  BY <1>1, <1>3, JoinAssociates
<1>8. b \in Bytes /\ Len(b) = Len(fb) + Len(rest) /\ SubSeq(b, 1, Len(fb)) = fb
  <2> HIDE DEF fb
  <2> QED
    BY <1>5, BytesJoin, JoinParts
<1> HIDE DEF fb, pr
<1> DEFINE hp == head \o pr
<1>9. Len(hp) = Len(head) + Len(pr) /\ (\A x \in 1 .. Len(head) : hp[x] = head[x])
      /\ SubSeq(hp, Len(head) + 1, Len(hp)) = pr
  BY <1>3, <1>6, BytesJoin, JoinParts
<1>10. b = hp
  BY <1>7
<1> HIDE DEF b, hp
<1>11. Len(fb) = 5 + m /\ Len(b) = (5 + m) + Len(rest)
  BY <1>3, <1>5, <1>8, Zenon DEF m
<1>12. \A x \in 1 .. 5 : b[x] = head[x]
  BY <1>3, <1>9, <1>10, Zenon
<1>13. b[1] = f.flag
  <2>1. 1 \in 1 .. 5
    OBVIOUS
  <2> QED
    BY <1>3, <1>12, <2>1, Zenon
<1>14. Length(b) = m
  <2>1. Len(rest) \in Nat
    BY BytesLength
  <2>2. (5 + m) + Len(rest) >= 5
    BY <1>2, <2>1
  <2>3. Len(b) >= 5
    BY <1>11, <2>2, Zenon
  <2> QED
    BY <1>3, <1>8, <1>12, <2>3, Zenon
<1>15. SubSeq(b, 1, 5 + m) = fb
  BY <1>8, <1>11, Zenon
<1>16. Rest(b, 5) = pr
  BY <1>3, <1>9, <1>10, Zenon DEF Rest
<1> QED
  BY <1>2, <1>4, <1>5, <1>6, <1>8, <1>11, <1>13, <1>14, <1>15, <1>16, Zenon DEF b, pr, p, m

\* The last n bytes.
LEMMA RemainingMeans ==
  ASSUME NEW body \in Bytes, NEW n \in 0 .. Len(body)
  PROVE  LET b == Rest(body, Len(body) - n) IN
         /\ b \in Bytes /\ Len(b) = n
         /\ n >= 5 => b[1] \in Byte /\ Length(b) \in Nat
<1> DEFINE l == Len(body)
           k == l - n
           b == Rest(body, k)
<1>1. l \in Nat /\ k \in 0 .. l /\ l - k = n
  BY BytesLength
<1> HIDE DEF k
<1>2. b \in Bytes /\ Len(b) = l - k
  BY <1>1, BytesDrop DEF Rest
<1>3. Len(b) = n
  BY <1>1, <1>2, Zenon
<1> HIDE DEF b
<1>4. ASSUME n >= 5 PROVE b[1] \in Byte /\ Length(b) \in Nat
  <2>1. \A i \in 1 .. n : b[i] \in Byte
    BY <1>2, <1>3 DEF Bytes
  <2>2. \A i \in 1 .. 5 : b[i] \in Nat
    <3>1. 1 .. 5 \subseteq 1 .. n /\ Byte \subseteq Nat
      BY <1>1, <1>4 DEF Byte
    <3> QED
      BY <2>1, <3>1
  <2> DEFINE s == SubSeq(b, 2, 5)
  <2>3. s = [x \in 1 .. 4 |-> b[x + 2 - 1]]
    BY <1>2, <1>3, <1>4 DEF Bytes
  <2>4. s[1] = b[2] /\ s[2] = b[3] /\ s[3] = b[4] /\ s[4] = b[5]
    BY <2>3
  <2> HIDE DEF s
  <2>5. s[1] \in Nat /\ s[2] \in Nat /\ s[3] \in Nat /\ s[4] \in Nat
    BY <2>2, <2>4
  <2>6. BigEndian(s) \in Nat
    <3> DEFINE x == s[1] * 256 + s[2]
               y == x * 256 + s[3]
               z == y * 256 + s[4]
    <3>1. \A u, v \in Nat : u * 256 + v \in Nat
      OBVIOUS
    <3>2. x \in Nat
      BY <2>5, <3>1, Zenon
    <3> HIDE DEF x
    <3>3. y \in Nat
      BY <2>5, <3>1, <3>2, Zenon
    <3> HIDE DEF y
    <3>4. z \in Nat
      BY <2>5, <3>1, <3>3, Zenon
    <3> QED
      BY <3>4, Zenon DEF BigEndian, x, y
  <2>7. 1 \in 1 .. n
    BY <1>4
  <2> QED
    BY <2>1, <2>6, <2>7 DEF Length, frameHeaderLen, s
<1> QED
  BY <1>2, <1>3, <1>4, Zenon DEF b, k, l

\* The body of extractNonDataFrames for the last n bytes.
NonDataAt(body, n, from) ==
  LET b == Rest(body, Len(body) - n)
      end == Least(frameHeaderLen + Length(b), n)
  IN  IF n < frameHeaderLen THEN << >>
      ELSE (IF b[1] # flagData THEN SubSeq(b, 1, end) ELSE << >>) \o from[n - end]

NonDataBody(body, from) == [n \in 0 .. Len(body) |-> NonDataAt(body, n, from)]

\* extractNonDataFrames computes what its loop does on each rest of the body.
LEMMA NonDataLoop ==
  ASSUME NEW body \in Bytes
  PROVE  \E h : /\ \A n \in 0 .. Len(body) : h[n] = NonDataAt(body, n, h)
                /\ extractNonDataFrames(body) = h[Len(body)]
<1> DEFINE l == Len(body)
           D == 0 .. l
           h == CHOOSE f : f = NonDataBody(body, f)
           rank == [n \in D |-> n]
           F == [c \in D \X [D -> Bytes] |-> NonDataAt(body, c[1], c[2])]
<1>1. l \in Nat
  BY BytesLength
<1>2. extractNonDataFrames(body) = h[l]
  BY DEF extractNonDataFrames, NonDataBody, NonDataAt
<1> HIDE DEF h
<1>3. ASSUME NEW n \in D, n >= 5
      PROVE  LET b == Rest(body, Len(body) - n)
                 end == Least(frameHeaderLen + Length(b), n)
             IN  SubSeq(b, 1, end) \in Bytes /\ n - end \in D /\ n - end < n
  <2> DEFINE b == Rest(body, Len(body) - n)
             end == Least(frameHeaderLen + Length(b), n)
  <2>1. b \in Bytes /\ Len(b) = n /\ Length(b) \in Nat
    BY <1>3, RemainingMeans
  <2> HIDE DEF b, l
  <2>2. end \in 5 .. n
    BY <1>1, <1>3, <2>1 DEF Least, frameHeaderLen
  <2> HIDE DEF end
  <2>3. end \in 0 .. Len(b) /\ n - end \in D /\ n - end < n
    <3>1. end \in 0 .. n /\ n - end \in D /\ n - end < n
      BY <1>1, <1>3, <2>2
    <3> QED
      BY <2>1, <3>1, Zenon
  <2>4. SubSeq(b, 1, end) \in Bytes
    BY <2>1, <2>3, BytesTake
  <2> QED
    BY <2>3, <2>4 DEF b, end
<1>4. << >> \in Bytes
  BY DEF Bytes
<1>5. ASSUME NEW n \in D, NEW f \in [D -> Bytes] PROVE NonDataAt(body, n, f) \in Bytes
  <2>1. CASE n < 5
    BY <1>4, <2>1 DEF NonDataAt, frameHeaderLen
  <2>2. CASE n >= 5
    <3> DEFINE b == Rest(body, Len(body) - n)
               end == Least(frameHeaderLen + Length(b), n)
               a == IF b[1] # flagData THEN SubSeq(b, 1, end) ELSE << >>
    <3>1. SubSeq(b, 1, end) \in Bytes /\ n - end \in D
      BY <1>3, <2>2
    <3>2. NonDataAt(body, n, f) = a \o f[n - end]
      <4>1. ~ n < frameHeaderLen
        BY <1>1, <2>2 DEF frameHeaderLen
      <4> QED
        BY <4>1 DEF NonDataAt
    <3> HIDE DEF b, end
    <3>3. a \in Bytes /\ f[n - end] \in Bytes
      BY <1>4, <3>1
    <3> HIDE DEF a
    <3> QED
      BY <3>2, <3>3, BytesJoin
  <2> QED
    BY <1>1, <2>1, <2>2
<1>6. F \in [D \X [D -> Bytes] -> Bytes]
  BY <1>5
<1>7. \A n \in D : \A f \in [D -> Bytes] : F[<<n, f>>] = NonDataAt(body, n, f)
  OBVIOUS
<1> HIDE DEF F, D
<1>8. LooksBack(F, D, Bytes, rank)
  <2> SUFFICES ASSUME NEW n \in D, NEW f \in [D -> Bytes], NEW g \in [D -> Bytes],
                      \A y \in D : rank[y] < rank[n] => f[y] = g[y]
               PROVE  F[<<n, f>>] = F[<<n, g>>]
    BY <1>6 DEF LooksBack
  <2>1. NonDataAt(body, n, f) = NonDataAt(body, n, g)
    <3>1. CASE n < 5
      BY <3>1 DEF NonDataAt, frameHeaderLen
    <3>2. CASE n >= 5
      <4> DEFINE b == Rest(body, Len(body) - n)
                 end == Least(frameHeaderLen + Length(b), n)
      <4>1. n - end \in D /\ n - end < n
        BY <1>3, <3>2
      <4> HIDE DEF end
      <4>2. f[n - end] = g[n - end]
        BY <4>1
      <4> QED
        BY <4>2 DEF NonDataAt, end
    <3> QED
      BY <1>1, <3>1, <3>2 DEF D
  <2> QED
    BY <1>7, <2>1
<1>9. PICK f \in [D -> Bytes] : Obeys(f, F, D)
  <2>1. rank \in [D -> 0 .. l] /\ Bytes # {}
    BY <1>4 DEF D
  <2> HIDE DEF rank
  <2> QED
    BY <1>1, <1>8, <2>1, RecursionExists
<1>10. f = NonDataBody(body, f)
  <2>1. \A n \in D : f[n] = NonDataAt(body, n, f)
    BY <1>7, <1>9 DEF Obeys
  <2>2. f = [n \in D |-> f[n]]
    OBVIOUS
  <2> QED
    BY <2>1, <2>2 DEF NonDataBody, D
<1>11. h = NonDataBody(body, h)
  BY <1>10 DEF h
<1>12. \A n \in D : h[n] = NonDataAt(body, n, h)
  <2> TAKE n \in D
  <2>1. h[n] = NonDataBody(body, h)[n]
    BY <1>11, Zenon
  <2> QED
    BY <2>1 DEF NonDataBody, D
<1> QED
  BY <1>2, <1>12 DEF D

NoteKinds == {"truncated", "compressed", "unknown"}
Decoded == [ok : BOOLEAN, payload : Bytes, notes : Seq(NoteKinds)]
Nothing(ok) == [ok |-> ok, payload |-> << >>, notes |-> << >>]

\* The body of extractDataFrames for the last n bytes.
DataAt(body, n, from) ==
  LET b == Rest(body, Len(body) - n)
      left == Rest(b, frameHeaderLen)
      truncated == Len(left) < Length(b)
      frame == IF truncated THEN left ELSE SubSeq(left, 1, Length(b))
      more == IF truncated THEN Nothing(TRUE) ELSE from[n - (frameHeaderLen + Length(b))]
  IN  IF n = 0 THEN Nothing(TRUE)
      ELSE IF n < frameHeaderLen THEN Nothing(FALSE)
      ELSE IF ~more.ok THEN more
      ELSE [ok |-> TRUE,
            payload |-> (IF b[1] = flagData THEN frame ELSE << >>) \o more.payload,
            notes |-> Notes(b[1], truncated) \o more.notes]

DataBody(body, from) == [n \in 0 .. Len(body) |-> DataAt(body, n, from)]

\* The notes on a frame are of the known kinds.
LEMMA NotesTyped ==
  ASSUME NEW flag \in Byte, NEW t \in BOOLEAN
  PROVE  Notes(flag, t) \in Seq(NoteKinds)
<1> DEFINE k == CASE flag = flagData -> << >>
                  [] flag = flagCompressed -> <<"compressed">>
                  [] IsTrailer(flag) -> << >>
                  [] OTHER -> <<"unknown">>
           c == IF t THEN <<"truncated">> ELSE << >>
<1>1. /\ << >> \in Seq(NoteKinds) /\ <<"truncated">> \in Seq(NoteKinds)
      /\ <<"compressed">> \in Seq(NoteKinds) /\ <<"unknown">> \in Seq(NoteKinds)
  BY DEF NoteKinds
<1>2. c \in Seq(NoteKinds)
  BY <1>1, Zenon
<1>3. k \in Seq(NoteKinds)
  BY <1>1, Zenon
<1>4. Notes(flag, t) = c \o k
  BY DEF Notes
<1> HIDE DEF c, k
<1> QED
  BY <1>2, <1>3, <1>4

\* extractDataFrames computes what its loop does on each rest of the body.
LEMMA DataLoop ==
  ASSUME NEW body \in Bytes
  PROVE  \E h : /\ \A n \in 0 .. Len(body) : h[n] = DataAt(body, n, h)
                /\ extractDataFrames(body) = h[Len(body)]
<1> DEFINE l == Len(body)
           D == 0 .. l
           h == CHOOSE f : f = DataBody(body, f)
           rank == [n \in D |-> n]
           F == [c \in D \X [D -> Decoded] |-> DataAt(body, c[1], c[2])]
<1>1. l \in Nat
  BY BytesLength
<1>2. extractDataFrames(body) = h[l]
  BY DEF extractDataFrames, DataBody, DataAt, Nothing
<1> HIDE DEF h
<1>3. ASSUME NEW n \in D, n >= 5
      PROVE  LET b == Rest(body, Len(body) - n)
                 left == Rest(b, frameHeaderLen)
             IN  /\ b[1] \in Byte /\ left \in Bytes
                 /\ ~ Len(left) < Length(b) =>
                      /\ SubSeq(left, 1, Length(b)) \in Bytes
                      /\ n - (frameHeaderLen + Length(b)) \in D
                      /\ n - (frameHeaderLen + Length(b)) < n
  <2> DEFINE b == Rest(body, Len(body) - n)
             left == Rest(b, frameHeaderLen)
             m == Length(b)
  <2>1. b \in Bytes /\ Len(b) = n /\ b[1] \in Byte /\ m \in Nat
    BY <1>3, RemainingMeans
  <2> HIDE DEF b, l, m
  <2>2. left \in Bytes /\ Len(left) = Len(b) - 5
    <3>1. 5 \in 0 .. n
      BY <1>1, <1>3
    <3>2. 5 \in 0 .. Len(b)
      BY <2>1, <3>1, Zenon
    <3> QED
      BY <2>1, <3>2, BytesDrop DEF Rest, frameHeaderLen
  <2> HIDE DEF left
  <2>3. Len(left) = n - 5
    BY <2>1, <2>2, Zenon
  <2>4. ASSUME ~ Len(left) < m
        PROVE  SubSeq(left, 1, m) \in Bytes /\ n - (5 + m) \in D /\ n - (5 + m) < n
    <3>1. ~ n - 5 < m
      BY <2>3, <2>4, Zenon
    <3>2. m \in 0 .. n - 5 /\ n - (5 + m) \in D /\ n - (5 + m) < n
      BY <1>1, <1>3, <2>1, <3>1
    <3>3. m \in 0 .. Len(left)
      BY <2>3, <3>2, Zenon
    <3> QED
      BY <2>2, <3>2, <3>3, BytesTake
  <2> QED
    BY <2>1, <2>2, <2>4, Zenon DEF b, left, m, frameHeaderLen
<1>4. Nothing(TRUE) \in Decoded /\ Nothing(FALSE) \in Decoded
  <2>1. << >> \in Bytes /\ << >> \in Seq(NoteKinds)
    BY DEF Bytes
  <2> QED
    BY <2>1 DEF Decoded, Nothing
<1>5. ASSUME NEW n \in D, NEW f \in [D -> Decoded] PROVE DataAt(body, n, f) \in Decoded
  <2>1. CASE n < 5
    BY <1>4, <2>1 DEF DataAt, frameHeaderLen
  <2>2. CASE n >= 5
    <3> DEFINE b == Rest(body, Len(body) - n)
               left == Rest(b, frameHeaderLen)
               truncated == Len(left) < Length(b)
               frame == IF truncated THEN left ELSE SubSeq(left, 1, Length(b))
               more == IF truncated THEN Nothing(TRUE)
                       ELSE f[n - (frameHeaderLen + Length(b))]
               payload == (IF b[1] = flagData THEN frame ELSE << >>) \o more.payload
               notes == Notes(b[1], truncated) \o more.notes
    <3>1. b[1] \in Byte /\ frame \in Bytes /\ more \in Decoded
      BY <1>3, <1>4, <2>2
    <3>2. DataAt(body, n, f) = IF ~more.ok THEN more
                               ELSE [ok |-> TRUE, payload |-> payload, notes |-> notes]
      <4>1. n # 0 /\ ~ n < frameHeaderLen
        BY <1>1, <2>2 DEF frameHeaderLen
      <4> QED
        BY <4>1 DEF DataAt
    <3>3. truncated \in BOOLEAN
      OBVIOUS
    <3> HIDE DEF b, truncated, frame, more
    <3>4. payload \in Bytes
      <4>1. more.payload \in Bytes /\ << >> \in Bytes
        BY <3>1 DEF Decoded, Bytes
      <4> QED
        BY <3>1, <4>1, BytesJoin
    <3>5. notes \in Seq(NoteKinds)
      <4>1. more.notes \in Seq(NoteKinds) /\ Notes(b[1], truncated) \in Seq(NoteKinds)
        BY <3>1, <3>3, NotesTyped DEF Decoded
      <4> QED
        BY <4>1
    <3> HIDE DEF payload, notes
    <3> QED
      BY <3>1, <3>2, <3>4, <3>5 DEF Decoded
  <2> QED
    BY <1>1, <2>1, <2>2
<1>6. F \in [D \X [D -> Decoded] -> Decoded]
  BY <1>5
<1>7. \A n \in D : \A f \in [D -> Decoded] : F[<<n, f>>] = DataAt(body, n, f)
  OBVIOUS
<1> HIDE DEF F, D
<1>8. LooksBack(F, D, Decoded, rank)
  <2> SUFFICES ASSUME NEW n \in D, NEW f \in [D -> Decoded], NEW g \in [D -> Decoded],
                      \A y \in D : rank[y] < rank[n] => f[y] = g[y]
               PROVE  F[<<n, f>>] = F[<<n, g>>]
    BY <1>6 DEF LooksBack
  <2>1. DataAt(body, n, f) = DataAt(body, n, g)
    <3>1. CASE n < 5
      BY <3>1 DEF DataAt, frameHeaderLen
    <3>2. CASE n >= 5
      <4> DEFINE b == Rest(body, Len(body) - n)
                 left == Rest(b, frameHeaderLen)
                 k == n - (frameHeaderLen + Length(b))
      <4>1. ~ Len(left) < Length(b) => k \in D /\ k < n
        BY <1>3, <3>2
      <4> HIDE DEF k
      <4>2. ~ Len(left) < Length(b) => f[k] = g[k]
        BY <4>1
      <4>3. (IF Len(left) < Length(b) THEN Nothing(TRUE) ELSE f[k]) =
              IF Len(left) < Length(b) THEN Nothing(TRUE) ELSE g[k]
        BY <4>2, Zenon
      <4> QED
        BY <4>3, Zenon DEF DataAt, k
    <3> QED
      BY <1>1, <3>1, <3>2 DEF D
  <2> QED
    BY <1>7, <2>1
<1>9. PICK f \in [D -> Decoded] : Obeys(f, F, D)
  <2>1. rank \in [D -> 0 .. l] /\ Decoded # {}
    BY <1>4 DEF D
  <2> HIDE DEF rank
  <2> QED
    BY <1>1, <1>8, <2>1, RecursionExists
<1>10. f = DataBody(body, f)
  <2>1. \A n \in D : f[n] = DataAt(body, n, f)
    BY <1>7, <1>9 DEF Obeys
  <2>2. f = [n \in D |-> f[n]]
    OBVIOUS
  <2> QED
    BY <2>1, <2>2 DEF DataBody, D
<1>11. h = DataBody(body, h)
  BY <1>10 DEF h
<1>12. \A n \in D : h[n] = DataAt(body, n, h)
  <2> TAKE n \in D
  <2>1. h[n] = DataBody(body, h)[n]
    BY <1>11, Zenon
  <2> QED
    BY <2>1 DEF DataBody, D
<1> QED
  BY <1>2, <1>12 DEF D

\* From the last to the first.
LEMMA DownTo ==
  ASSUME NEW n \in Nat, NEW S, n \in S, \A i \in 1 .. n : i \in S => i - 1 \in S
  PROVE  \A i \in 0 .. n : i \in S
<1> DEFINE T == {j \in 0 .. n : n - j \in S}
<1>1. 0 \in T
  OBVIOUS
<1>2. ASSUME NEW j \in 0 .. n - 1, j \in T PROVE j + 1 \in T
  <2> DEFINE i == n - j
  <2>1. i \in 1 .. n /\ i \in S /\ i - 1 = n - (j + 1)
    BY <1>2
  <2> HIDE DEF i
  <2>2. i - 1 \in S
    BY <2>1
  <2>3. n - (j + 1) \in S
    BY <2>1, <2>2, Zenon
  <2> QED
    BY <2>3
<1> HIDE DEF T
<1>3. \A j \in 0 .. n : j \in T
  BY <1>1, <1>2, UpTo
<1>4. ASSUME NEW i \in 0 .. n PROVE i \in S
  <2>1. n - i \in 0 .. n /\ n - (n - i) = i
    OBVIOUS
  <2>2. n - i \in T
    BY <1>3, <2>1
  <2>3. n - (n - i) \in S
    BY <2>2 DEF T
  <2> QED
    BY <2>1, <2>3, Zenon
<1> QED
  BY <1>4

\* What remains of a body after its beginning.
LEMMA RestAfter ==
  ASSUME NEW before \in Bytes, NEW r \in Bytes, NEW body, body = before \o r
  PROVE  /\ body \in Bytes /\ Len(r) \in 0 .. Len(body)
         /\ Rest(body, Len(body) - Len(r)) = r
<1> DEFINE k == Len(before)
           m == Len(r)
           l == Len(body)
<1>1. k \in Nat /\ m \in Nat
  BY BytesLength
<1>2. body \in Bytes /\ l = k + m /\ SubSeq(body, k + 1, l) = r
  BY BytesJoin, JoinParts, Zenon
<1> HIDE DEF k, m, l
<1>3. m \in 0 .. l /\ l - m = k
  BY <1>1, <1>2
<1>4. Rest(body, l - m) = r
  BY <1>2, <1>3, Zenon DEF Rest, l
<1> QED
  BY <1>2, <1>3, <1>4 DEF m, l

EndsWith(body, r) == \E before \in Bytes : body = before \o r
NonDataHolds(body, h) == \A n \in 0 .. Len(body) : h[n] = NonDataAt(body, n, h)
DataHolds(body, h) == \A n \in 0 .. Len(body) : h[n] = DataAt(body, n, h)

OtherPiece(f) == IF f.flag = flagData THEN << >> ELSE FrameBytes(f)
DataPiece(f) == IF f.flag = flagData THEN f.payload ELSE << >>

\* The loops at the beginning of a whole frame.
LEMMA NonDataFrame ==
  ASSUME NEW f, IsFrame(f), NEW rest \in Bytes, NEW body, EndsWith(body, FrameBytes(f) \o rest),
         NEW h, NonDataHolds(body, h)
  PROVE  h[Len(FrameBytes(f) \o rest)] = OtherPiece(f) \o h[Len(rest)]
<1> DEFINE m == Len(f.payload)
           b == FrameBytes(f) \o rest
           n == Len(b)
           k == Len(rest)
<1>1. /\ m \in Nat /\ b \in Bytes /\ n = (5 + m) + k
      /\ b[1] = f.flag /\ Length(b) = m /\ SubSeq(b, 1, 5 + m) = FrameBytes(f)
  BY FrameMeans
<1>2. k \in Nat
  BY BytesLength
<1>3. PICK before \in Bytes : body = before \o b
  BY DEF EndsWith
<1> HIDE DEF b
<1>4. n \in 0 .. Len(body) /\ Rest(body, Len(body) - n) = b
  BY <1>1, <1>3, RestAfter
<1> HIDE DEF m, n, k
<1>5. ~ n < 5 /\ Least(5 + m, n) = 5 + m /\ n - (5 + m) = k
  BY <1>1, <1>2 DEF Least
<1>6. h[n] = NonDataAt(body, n, h)
  BY <1>4 DEF NonDataHolds
<1>7. NonDataAt(body, n, h) =
        (IF b[1] # flagData THEN SubSeq(b, 1, 5 + m) ELSE << >>) \o h[k]
  BY <1>1, <1>4, <1>5, Zenon DEF NonDataAt, frameHeaderLen
<1>8. (IF b[1] # flagData THEN SubSeq(b, 1, 5 + m) ELSE << >>) = OtherPiece(f)
  BY <1>1 DEF OtherPiece
<1> QED
  BY <1>6, <1>7, <1>8, Zenon DEF b, n, k

\* One turn of the loop over a whole frame: it adds the frame's payload, if it is data.
LEMMA DataFrame ==
  ASSUME NEW f, IsFrame(f), NEW rest \in Bytes, NEW body, EndsWith(body, FrameBytes(f) \o rest),
         NEW h, DataHolds(body, h)
  PROVE  LET more == h[Len(rest)] IN
         h[Len(FrameBytes(f) \o rest)] =
           IF ~more.ok THEN more
           ELSE [ok |-> TRUE, payload |-> DataPiece(f) \o more.payload,
                 notes |-> Notes(f.flag, FALSE) \o more.notes]
<1> DEFINE m == Len(f.payload)
           b == FrameBytes(f) \o rest
           left == f.payload \o rest
           n == Len(b)
           k == Len(rest)
<1>1. /\ m \in Nat /\ b \in Bytes /\ n = (5 + m) + k
      /\ b[1] = f.flag /\ Length(b) = m
      /\ Rest(b, 5) = left /\ SubSeq(left, 1, m) = f.payload
  BY FrameMeans
<1>2. k \in Nat
  BY BytesLength
<1>3. Len(left) = m + k
  BY BytesJoin DEF IsFrame
<1>4. PICK before \in Bytes : body = before \o b
  BY DEF EndsWith
<1> HIDE DEF b, left
<1>5. n \in 0 .. Len(body) /\ Rest(body, Len(body) - n) = b
  BY <1>1, <1>4, RestAfter
<1> HIDE DEF m, n, k
<1>6. ~ n < 5 /\ n # 0 /\ n - (5 + m) = k /\ ~ m + k < m
  BY <1>1, <1>2
<1>7. h[n] = DataAt(body, n, h)
  BY <1>5 DEF DataHolds
<1>8. (Len(left) < m) = FALSE
  <2>1. ~ Len(left) < m
    BY <1>3, <1>6, Zenon
  <2> QED
    BY <2>1
<1> DEFINE more == h[k]
<1>9. DataAt(body, n, h) =
        IF ~more.ok THEN more
        ELSE [ok |-> TRUE, payload |-> (IF b[1] = flagData THEN f.payload ELSE << >>) \o more.payload,
              notes |-> Notes(b[1], FALSE) \o more.notes]
  <2>1. Rest(body, Len(body) - n) = b /\ ~ n < frameHeaderLen /\ n # 0
        /\ Rest(b, frameHeaderLen) = left /\ Length(b) = m
        /\ n - (frameHeaderLen + m) = k
    BY <1>1, <1>5, <1>6, Zenon DEF frameHeaderLen
  <2>2. DataAt(body, n, h) =
          LET truncated == Len(left) < m
              frame == IF truncated THEN left ELSE SubSeq(left, 1, m)
              mr == IF truncated THEN Nothing(TRUE) ELSE h[k]
          IN  IF ~mr.ok THEN mr
              ELSE [ok |-> TRUE,
                    payload |-> (IF b[1] = flagData THEN frame ELSE << >>) \o mr.payload,
                    notes |-> Notes(b[1], truncated) \o mr.notes]
    BY <2>1, Zenon DEF DataAt
  <2> QED
    BY <1>1, <1>8, <2>2, Zenon
<1>10. (IF b[1] = flagData THEN f.payload ELSE << >>) = DataPiece(f)
  BY <1>1 DEF DataPiece
<1> QED
  BY <1>1, <1>7, <1>9, <1>10, Zenon DEF b, n, k

\* What is kept of the bytes after the whole frames, and what is payload in them.
KeptTail(tail) ==
  IF Len(tail) < frameHeaderLen THEN << >> ELSE IF tail[1] = flagData THEN << >> ELSE tail
PartialTail(tail) ==
  IF Len(tail) < frameHeaderLen THEN << >>
  ELSE IF tail[1] = flagData THEN Rest(tail, frameHeaderLen) ELSE << >>

\* The loops at the bytes after the last whole frame.
LEMMA NonDataTail ==
  ASSUME NEW tail, IsCutOff(tail), NEW body, EndsWith(body, tail), NEW h, NonDataHolds(body, h)
  PROVE  h[Len(tail)] = KeptTail(tail)
<1> DEFINE n == Len(tail)
           m == Length(tail)
<1>1. tail \in Bytes /\ n \in Nat
  BY BytesLength DEF IsCutOff
<1>2. body \in Bytes /\ n \in 0 .. Len(body) /\ Rest(body, Len(body) - n) = tail
  BY <1>1, RestAfter DEF EndsWith
<1>3. n < 5 \/ n < 5 + m
  BY DEF IsCutOff, frameHeaderLen
<1>4. n >= 5 => m \in Nat
  BY <1>2, RemainingMeans, Zenon
<1>5. SubSeq(tail, 1, n) = tail
  BY <1>1 DEF Bytes
<1>6. h[n] = NonDataAt(body, n, h)
  BY <1>2 DEF NonDataHolds
<1> HIDE DEF n, m
<1>7. CASE n < 5
  <2>1. NonDataAt(body, n, h) = << >>
    BY <1>7 DEF NonDataAt, frameHeaderLen
  <2> QED
    BY <1>6, <1>7, <2>1 DEF KeptTail, frameHeaderLen, n
<1>8. CASE n >= 5
  <2>1. ~ n < 5 /\ Least(5 + m, n) = n /\ n - n = 0
    BY <1>1, <1>3, <1>4, <1>8 DEF Least
  <2>2. h[0] = << >>
    <3>1. 0 \in 0 .. Len(body) /\ 0 < 5
      BY <1>2, BytesLength
    <3>2. h[0] = NonDataAt(body, 0, h)
      BY <3>1 DEF NonDataHolds
    <3>3. NonDataAt(body, 0, h) = << >>
      BY <3>1, Zenon DEF NonDataAt, frameHeaderLen
    <3> QED
      BY <3>2, <3>3
  <2>3. NonDataAt(body, n, h) = (IF tail[1] # flagData THEN tail ELSE << >>) \o << >>
    <3>1. Least(frameHeaderLen + Length(tail), n) = n
      BY <2>1, Zenon DEF frameHeaderLen, m
    <3> QED
      BY <1>2, <1>5, <2>1, <2>2, <3>1, Zenon DEF NonDataAt, frameHeaderLen
  <2>4. KeptTail(tail) = IF tail[1] # flagData THEN tail ELSE << >>
    BY <2>1 DEF KeptTail, frameHeaderLen, n
  <2>5. KeptTail(tail) \in Bytes
    BY <1>1, <2>4, JoinNothing
  <2>6. KeptTail(tail) \o << >> = KeptTail(tail)
    BY <2>5, JoinNothing
  <2> QED
    BY <1>6, <2>3, <2>4, <2>6, Zenon DEF n
<1> QED
  BY <1>1, <1>7, <1>8

\* The last turn of the loop, over what is cut off.
LEMMA DataTail ==
  ASSUME NEW tail, IsCutOff(tail), NEW body, EndsWith(body, tail), NEW h, DataHolds(body, h)
  PROVE  /\ tail # << >> /\ Len(tail) < frameHeaderLen => ~h[Len(tail)].ok
         /\ tail = << >> \/ ~ Len(tail) < frameHeaderLen =>
              h[Len(tail)].ok /\ h[Len(tail)].payload = PartialTail(tail)
<1> DEFINE n == Len(tail)
           m == Length(tail)
           left == Rest(tail, 5)
<1>1. tail \in Bytes /\ n \in Nat
  BY BytesLength DEF IsCutOff
<1>2. body \in Bytes /\ n \in 0 .. Len(body) /\ Rest(body, Len(body) - n) = tail
  BY <1>1, RestAfter DEF EndsWith
<1>3. n < 5 \/ n < 5 + m
  BY DEF IsCutOff, frameHeaderLen
<1>4. n >= 5 => m \in Nat
  BY <1>2, RemainingMeans, Zenon
<1>5. h[n] = DataAt(body, n, h)
  BY <1>2 DEF DataHolds
<1>6. n >= 5 => left \in Bytes /\ Len(left) = n - 5
  <2> SUFFICES ASSUME n >= 5 PROVE left \in Bytes /\ Len(left) = n - 5
    OBVIOUS
  <2>1. 5 \in 0 .. n
    BY <1>1
  <2> QED
    BY <1>1, <2>1, BytesDrop DEF Rest
<1>7. n = 0 <=> tail = << >>
  BY <1>1 DEF Bytes
<1> HIDE DEF n, m, left
<1>8. CASE n = 0
  <2>1. h[n] = Nothing(TRUE)
    BY <1>5, <1>8, Zenon DEF DataAt
  <2>2. PartialTail(tail) = << >>
    BY <1>8 DEF PartialTail, frameHeaderLen, n
  <2> QED
    BY <1>7, <1>8, <2>1, <2>2 DEF Nothing, n
<1>9. CASE n # 0 /\ n < 5
  <2>1. h[n] = Nothing(FALSE)
    BY <1>5, <1>9, Zenon DEF DataAt, frameHeaderLen
  <2> QED
    BY <1>7, <1>9, <2>1 DEF Nothing, n, frameHeaderLen
<1>10. CASE n >= 5
  <2>1. ~ n < 5 /\ n # 0 /\ n - 5 < m
    BY <1>1, <1>3, <1>4, <1>10
  <2>2. (Len(left) < m) = TRUE
    BY <1>6, <1>10, <2>1
  <2> DEFINE p == IF tail[1] = flagData THEN left ELSE << >>
             q == p \o << >>
  <2>3. DataAt(body, n, h) = [ok |-> TRUE, payload |-> q, notes |-> Notes(tail[1], TRUE) \o << >>]
    <3>1. Rest(body, Len(body) - n) = tail /\ ~ n < frameHeaderLen /\ n # 0
          /\ Rest(tail, frameHeaderLen) = left /\ Length(tail) = m
      BY <1>2, <2>1, Zenon DEF frameHeaderLen, left, m
    <3>2. DataAt(body, n, h) =
            LET truncated == Len(left) < m
                frame == IF truncated THEN left ELSE SubSeq(left, 1, m)
                mr == IF truncated THEN Nothing(TRUE) ELSE h[n - (frameHeaderLen + m)]
            IN  IF ~mr.ok THEN mr
                ELSE [ok |-> TRUE,
                      payload |-> (IF tail[1] = flagData THEN frame ELSE << >>) \o mr.payload,
                      notes |-> Notes(tail[1], truncated) \o mr.notes]
      BY <3>1, Zenon DEF DataAt
    <3>3. Nothing(TRUE).ok = TRUE /\ Nothing(TRUE).payload = << >> /\ Nothing(TRUE).notes = << >>
      BY DEF Nothing
    <3> QED
      BY <2>2, <3>2, <3>3, Zenon
  <2>4. q = p
    BY <1>6, <1>10, JoinNothing
  <2>5. PartialTail(tail) = p
    BY <2>1, Zenon DEF PartialTail, frameHeaderLen, n, left
  <2> HIDE DEF p, q
  <2>6. h[n].ok /\ h[n].payload = p
    BY <1>5, <2>3, <2>4
  <2> QED
    BY <1>7, <2>1, <2>5, <2>6, Zenon DEF n, frameHeaderLen
<1> QED
  BY <1>1, <1>8, <1>9, <1>10

WholeFrames(frames) ==
  /\ frames \in Seq([flag : Byte, payload : Bytes])
  /\ \A i \in DOMAIN frames : IsFrame(frames[i])

\* A sequence of as many byte sequences as there are frames.
LEMMA PerFrame ==
  ASSUME NEW k \in Nat, NEW s, s = [i \in 1 .. k |-> s[i]], \A i \in 1 .. k : s[i] \in Bytes
  PROVE  s \in Seq(Bytes) /\ Len(s) = k
<1> DEFINE W == Bytes
<1>1. \A i \in 1 .. k : s[i] \in W
  OBVIOUS
<1> HIDE DEF W
<1>2. s \in [1 .. k -> W]
  BY <1>1
<1>3. s \in Seq(W) /\ Len(s) = k
  BY <1>2
<1> QED
  BY <1>3 DEF W

\* Frames, one by one, and the pieces that are taken from each.
LEMMA FramesMean ==
  ASSUME NEW frames, WholeFrames(frames)
  PROVE  /\ Len(frames) \in Nat /\ DOMAIN frames = 1 .. Len(frames)
         /\ \A i \in 1 .. Len(frames) : /\ IsFrame(frames[i]) /\ FrameBytes(frames[i]) \in Bytes
                                        /\ OtherPiece(frames[i]) \in Bytes
                                        /\ DataPiece(frames[i]) \in Bytes
<1> DEFINE V == [flag : Byte, payload : Bytes]
           k == Len(frames)
<1>1. k \in Nat /\ DOMAIN frames = 1 .. k
  <2>1. frames \in Seq(V)
    BY DEF WholeFrames
  <2> HIDE DEF V
  <2> QED
    BY <2>1
<1>2. \A i \in 1 .. k : IsFrame(frames[i])
  BY <1>1 DEF WholeFrames
<1>3. ASSUME NEW f, IsFrame(f)
      PROVE  FrameBytes(f) \in Bytes /\ OtherPiece(f) \in Bytes /\ DataPiece(f) \in Bytes
  <2>1. << >> \in Bytes
    BY DEF Bytes
  <2>2. FrameBytes(f) \in Bytes
    BY <1>3, <2>1, FrameMeans
  <2>3. f.payload \in Bytes
    BY <1>3 DEF IsFrame
  <2> QED
    BY <2>1, <2>2, <2>3 DEF OtherPiece, DataPiece
<1> HIDE DEF k
<1>4. \A i \in 1 .. k : /\ IsFrame(frames[i]) /\ FrameBytes(frames[i]) \in Bytes
                        /\ OtherPiece(frames[i]) \in Bytes /\ DataPiece(frames[i]) \in Bytes
  BY <1>2, <1>3, Zenon
<1> QED
  BY <1>1, <1>4, Zenon DEF k

\* The body from each frame on.
LEMMA BodyFrom ==
  ASSUME NEW frames, WholeFrames(frames), NEW tail \in Bytes
  PROVE  \E r : /\ \A i \in 0 .. Len(frames) : /\ r[i] \in Bytes
                                               /\ EndsWith(r[0], r[i])
                /\ r[Len(frames)] = tail
                /\ \A i \in 1 .. Len(frames) : r[i - 1] = FrameBytes(frames[i]) \o r[i]
                /\ r[0] = BodyOf(<<frames, tail>>)
<1> DEFINE k == Len(frames)
           s == [i \in DOMAIN frames |-> FrameBytes(frames[i])]
<1>1. k \in Nat /\ DOMAIN frames = 1 .. k /\ \A i \in 1 .. k : FrameBytes(frames[i]) \in Bytes
  BY FramesMean
<1>2. \A i \in 1 .. k : s[i] = FrameBytes(frames[i])
  BY <1>1
<1>3. s = [i \in 1 .. k |-> s[i]]
  BY <1>1
<1>4. BodyOf(<<frames, tail>>) = FlattenSeq(s) \o tail
  BY DEF BodyOf
<1> HIDE DEF k, s
<1>5. s \in Seq(Bytes) /\ Len(s) = k
  BY <1>1, <1>2, <1>3, PerFrame
<1>6. PICK r : /\ \A i \in 0 .. Len(s) : r[i] \in Bytes
               /\ r[Len(s)] = tail
               /\ \A i \in 1 .. Len(s) : r[i - 1] = s[i] \o r[i]
               /\ \A i \in 0 .. Len(s) : EndsWith(r[0], r[i])
               /\ r[0] = FlattenSeq(s) \o tail
  BY <1>5, FlattenBack DEF EndsWith
<1>7. \A i \in 1 .. k : r[i - 1] = FrameBytes(frames[i]) \o r[i]
  BY <1>2, <1>5, <1>6, Zenon
<1>8. /\ \A i \in 0 .. k : r[i] \in Bytes
      /\ \A i \in 0 .. k : EndsWith(r[0], r[i])
      /\ r[k] = tail /\ r[0] = FlattenSeq(s) \o tail
  BY <1>5, <1>6, Zenon
<1> QED
  BY <1>4, <1>7, <1>8 DEF k

\* The other frames from each frame on.
LEMMA OthersFrom ==
  ASSUME NEW frames, WholeFrames(frames), NEW tail \in Bytes
  PROVE  \E r : /\ \A i \in 0 .. Len(frames) : /\ r[i] \in Bytes
                                               /\ EndsWith(r[0], r[i])
                /\ r[Len(frames)] = tail
                /\ \A i \in 1 .. Len(frames) : r[i - 1] = OtherPiece(frames[i]) \o r[i]
                /\ r[0] = OthersOf(frames) \o tail
<1> DEFINE k == Len(frames)
           s == [i \in DOMAIN frames |-> OtherPiece(frames[i])]
<1>1. k \in Nat /\ DOMAIN frames = 1 .. k /\ \A i \in 1 .. k : OtherPiece(frames[i]) \in Bytes
  BY FramesMean
<1>2. \A i \in 1 .. k : s[i] = OtherPiece(frames[i])
  BY <1>1
<1>3. s = [i \in 1 .. k |-> s[i]]
  BY <1>1
<1>4. OthersOf(frames) = FlattenSeq(s)
  BY DEF OthersOf, OtherPiece
<1> HIDE DEF k, s
<1>5. s \in Seq(Bytes) /\ Len(s) = k
  BY <1>1, <1>2, <1>3, PerFrame
<1>6. PICK r : /\ \A i \in 0 .. Len(s) : r[i] \in Bytes
               /\ r[Len(s)] = tail
               /\ \A i \in 1 .. Len(s) : r[i - 1] = s[i] \o r[i]
               /\ \A i \in 0 .. Len(s) : EndsWith(r[0], r[i])
               /\ r[0] = FlattenSeq(s) \o tail
  BY <1>5, FlattenBack DEF EndsWith
<1>7. \A i \in 1 .. k : r[i - 1] = OtherPiece(frames[i]) \o r[i]
  BY <1>2, <1>5, <1>6, Zenon
<1>8. /\ \A i \in 0 .. k : r[i] \in Bytes
      /\ \A i \in 0 .. k : EndsWith(r[0], r[i])
      /\ r[k] = tail /\ r[0] = FlattenSeq(s) \o tail
  BY <1>5, <1>6, Zenon
<1> QED
  BY <1>4, <1>7, <1>8 DEF k

\* The payloads from each frame on.
LEMMA DataFrom ==
  ASSUME NEW frames, WholeFrames(frames), NEW tail \in Bytes
  PROVE  \E r : /\ \A i \in 0 .. Len(frames) : r[i] \in Bytes
                /\ r[Len(frames)] = tail
                /\ \A i \in 1 .. Len(frames) : r[i - 1] = DataPiece(frames[i]) \o r[i]
                /\ r[0] = DataOf(frames) \o tail
<1> DEFINE k == Len(frames)
           s == [i \in DOMAIN frames |-> DataPiece(frames[i])]
<1>1. k \in Nat /\ DOMAIN frames = 1 .. k /\ \A i \in 1 .. k : DataPiece(frames[i]) \in Bytes
  BY FramesMean
<1>2. \A i \in 1 .. k : s[i] = DataPiece(frames[i])
  BY <1>1
<1>3. s = [i \in 1 .. k |-> s[i]]
  BY <1>1
<1>4. DataOf(frames) = FlattenSeq(s)
  BY DEF DataOf, DataPiece
<1> HIDE DEF k, s
<1>5. s \in Seq(Bytes) /\ Len(s) = k
  BY <1>1, <1>2, <1>3, PerFrame
<1>6. PICK r : /\ \A i \in 0 .. Len(s) : r[i] \in Bytes
               /\ r[Len(s)] = tail
               /\ \A i \in 1 .. Len(s) : r[i - 1] = s[i] \o r[i]
               /\ \A i \in 0 .. Len(s) : EndsWith(r[0], r[i])
               /\ r[0] = FlattenSeq(s) \o tail
  BY <1>5, FlattenBack DEF EndsWith
<1>7. \A i \in 1 .. k : r[i - 1] = DataPiece(frames[i]) \o r[i]
  BY <1>2, <1>5, <1>6, Zenon
<1>8. /\ \A i \in 0 .. k : r[i] \in Bytes
      /\ \A i \in 0 .. k : EndsWith(r[0], r[i])
      /\ r[k] = tail /\ r[0] = FlattenSeq(s) \o tail
  BY <1>5, <1>6, Zenon
<1> QED
  BY <1>4, <1>7, <1>8 DEF k

\* What the encoder keeps of a body: its other frames, in their order, and the end if it is
\* not of a data frame.
LEMMA OthersAreKept ==
  ASSUME NEW frames, WholeFrames(frames), NEW tail, IsCutOff(tail)
  PROVE  extractNonDataFrames(BodyOf(<<frames, tail>>)) = OthersOf(frames) \o KeptTail(tail)
<1> DEFINE k == Len(frames)
           body == BodyOf(<<frames, tail>>)
           kept == KeptTail(tail)
<1>1. /\ k \in Nat
      /\ \A i \in 1 .. k : IsFrame(frames[i])
  BY FramesMean
<1>2. tail \in Bytes /\ kept \in Bytes
  BY JoinNothing DEF IsCutOff, KeptTail
<1> HIDE DEF body, kept
<1>3. PICK r : /\ \A i \in 0 .. k : r[i] \in Bytes /\ EndsWith(r[0], r[i])
               /\ r[k] = tail
               /\ \A i \in 1 .. k : r[i - 1] = FrameBytes(frames[i]) \o r[i]
               /\ r[0] = body
  BY <1>2, BodyFrom DEF body
<1>4. PICK o : /\ \A i \in 0 .. k : o[i] \in Bytes /\ EndsWith(o[0], o[i])
               /\ o[k] = kept
               /\ \A i \in 1 .. k : o[i - 1] = OtherPiece(frames[i]) \o o[i]
               /\ o[0] = OthersOf(frames) \o kept
  BY <1>2, OthersFrom
<1> HIDE DEF k
<1>5. 0 \in 0 .. k /\ k \in 0 .. k
  BY <1>1
<1>6. body \in Bytes
  BY <1>3, <1>5
<1>7. PICK h : /\ NonDataHolds(body, h)
               /\ extractNonDataFrames(body) = h[Len(body)]
  BY <1>6, NonDataLoop DEF NonDataHolds
<1> DEFINE S == {i \in 0 .. k : h[Len(r[i])] = o[i]}
<1>8. k \in S
  <2>1. EndsWith(body, tail)
    BY <1>3, <1>5
  <2>2. h[Len(tail)] = kept
    BY <1>7, <2>1, NonDataTail DEF kept
  <2> QED
    BY <1>3, <1>4, <1>5, <2>2
<1>9. ASSUME NEW i \in 1 .. k, i \in S PROVE i - 1 \in S
  <2>1. i \in 0 .. k /\ i - 1 \in 0 .. k
    BY <1>1
  <2>2. EndsWith(body, r[i - 1])
    BY <1>3, <2>1
  <2>3. r[i - 1] = FrameBytes(frames[i]) \o r[i] /\ r[i] \in Bytes /\ IsFrame(frames[i])
    BY <1>1, <1>3, <2>1
  <2> DEFINE f == frames[i]
             rest == r[i]
  <2>4. IsFrame(f) /\ rest \in Bytes /\ EndsWith(body, FrameBytes(f) \o rest)
    BY <2>2, <2>3
  <2> HIDE DEF f, rest
  <2>5. h[Len(FrameBytes(f) \o rest)] = OtherPiece(f) \o h[Len(rest)]
    BY <1>7, <2>4, NonDataFrame
  <2>6. h[Len(rest)] = o[i] /\ o[i - 1] = OtherPiece(f) \o o[i]
    BY <1>4, <1>9 DEF f, rest
  <2>7. h[Len(r[i - 1])] = o[i - 1]
    BY <2>3, <2>5, <2>6, Zenon DEF f, rest
  <2> QED
    BY <2>1, <2>7
<1> HIDE DEF S
<1>10. 0 \in S
  BY <1>1, <1>5, <1>8, <1>9, DownTo
<1> QED
  BY <1>3, <1>4, <1>7, <1>10 DEF S, body, kept

\* What the decoder makes of a body: the payloads of its data frames, in their order, or
\* the error when the last header is cut off.
LEMMA DataIsDecoded ==
  ASSUME NEW frames, WholeFrames(frames), NEW tail, IsCutOff(tail)
  PROVE  LET decoded == extractDataFrames(BodyOf(<<frames, tail>>)) IN
         /\ tail # << >> /\ Len(tail) < frameHeaderLen => ~decoded.ok
         /\ tail = << >> \/ ~ Len(tail) < frameHeaderLen =>
              decoded.ok /\ decoded.payload = DataOf(frames) \o PartialTail(tail)
<1> DEFINE k == Len(frames)
           body == BodyOf(<<frames, tail>>)
           partial == PartialTail(tail)
           broken == tail # << >> /\ Len(tail) < frameHeaderLen
<1>1. /\ k \in Nat
      /\ \A i \in 1 .. k : IsFrame(frames[i])
  BY FramesMean
<1>2. tail \in Bytes /\ partial \in Bytes
  <2>1. ASSUME ~ Len(tail) < 5 PROVE Rest(tail, 5) \in Bytes
    <3>1. tail \in Bytes /\ Len(tail) \in Nat
      BY BytesLength DEF IsCutOff
    <3>2. 5 \in 0 .. Len(tail)
      BY <2>1, <3>1
    <3> QED
      BY <3>1, <3>2, BytesDrop DEF Rest
  <2> QED
    BY <2>1, JoinNothing DEF IsCutOff, PartialTail, frameHeaderLen
<1> HIDE DEF body, partial
<1>3. PICK r : /\ \A i \in 0 .. k : r[i] \in Bytes /\ EndsWith(r[0], r[i])
               /\ r[k] = tail
               /\ \A i \in 1 .. k : r[i - 1] = FrameBytes(frames[i]) \o r[i]
               /\ r[0] = body
  BY <1>2, BodyFrom DEF body
<1>4. PICK p : /\ \A i \in 0 .. k : p[i] \in Bytes
               /\ p[k] = partial
               /\ \A i \in 1 .. k : p[i - 1] = DataPiece(frames[i]) \o p[i]
               /\ p[0] = DataOf(frames) \o partial
  BY <1>2, DataFrom
<1> HIDE DEF k
<1>5. 0 \in 0 .. k /\ k \in 0 .. k
  BY <1>1
<1>6. body \in Bytes
  BY <1>3, <1>5
<1>7. PICK h : /\ DataHolds(body, h)
               /\ extractDataFrames(body) = h[Len(body)]
  BY <1>6, DataLoop DEF DataHolds
<1> DEFINE Right(d, i) == IF broken THEN ~d.ok ELSE d.ok /\ d.payload = p[i]
           S == {i \in 0 .. k : Right(h[Len(r[i])], i)}
<1>8. k \in S
  <2>1. EndsWith(body, tail)
    BY <1>3, <1>5
  <2>2. /\ broken => ~h[Len(tail)].ok
        /\ tail = << >> \/ ~ Len(tail) < frameHeaderLen =>
             h[Len(tail)].ok /\ h[Len(tail)].payload = partial
    BY <1>7, <2>1, DataTail DEF partial
  <2>3. Right(h[Len(tail)], k)
    BY <1>4, <2>2
  <2> HIDE DEF broken
  <2> QED
    BY <1>3, <1>5, <2>3
<1> HIDE DEF broken
<1>9. ASSUME NEW i \in 1 .. k, i \in S PROVE i - 1 \in S
  <2>1. i \in 0 .. k /\ i - 1 \in 0 .. k
    BY <1>1
  <2>2. EndsWith(body, r[i - 1])
    BY <1>3, <2>1
  <2>3. r[i - 1] = FrameBytes(frames[i]) \o r[i] /\ r[i] \in Bytes /\ IsFrame(frames[i])
    BY <1>1, <1>3, <2>1
  <2> DEFINE f == frames[i]
             rest == r[i]
             more == h[Len(rest)]
             here == h[Len(FrameBytes(f) \o rest)]
  <2>4. IsFrame(f) /\ rest \in Bytes /\ EndsWith(body, FrameBytes(f) \o rest)
    BY <2>2, <2>3
  <2> HIDE DEF f, rest
  <2>5. here = IF ~more.ok THEN more
               ELSE [ok |-> TRUE, payload |-> DataPiece(f) \o more.payload,
                     notes |-> Notes(f.flag, FALSE) \o more.notes]
    BY <1>7, <2>4, DataFrame DEF more, here
  <2>6. Right(more, i) /\ p[i - 1] = DataPiece(f) \o p[i]
    BY <1>4, <1>9 DEF f, rest
  <2>7. here = h[Len(r[i - 1])]
    BY <2>3 DEF f, rest
  <2> HIDE DEF more, here
  <2>8. Right(here, i - 1)
    BY <2>5, <2>6
  <2> QED
    BY <2>1, <2>7, <2>8
<1> HIDE DEF S
<1>10. 0 \in S
  BY <1>1, <1>5, <1>8, <1>9, DownTo
<1>11. Right(extractDataFrames(body), 0)
  BY <1>3, <1>7, <1>10 DEF S
<1> QED
  BY <1>4, <1>11 DEF body, broken, partial

\* More bytes in front do not change how a body ends.
LEMMA EndsFurther ==
  ASSUME NEW a \in Bytes, NEW b, NEW r \in Bytes, EndsWith(b, r)
  PROVE  EndsWith(a \o b, r)
<1>1. PICK before \in Bytes : b = before \o r
  BY DEF EndsWith
<1>2. a \o b = (a \o before) \o r
  BY <1>1, JoinAssociates
<1>3. a \o before \in Bytes
  BY BytesJoin
<1> QED
  BY <1>2, <1>3 DEF EndsWith

\* A body encoded again is one data frame with the payload and what was kept: decoding it
\* finds the payload and no more.
LEMMA EditIsDecoded ==
  ASSUME NEW frames, WholeFrames(frames), NEW tail, IsCutOff(tail),
         tail = << >> \/ ~ Len(tail) < frameHeaderLen,
         NEW payload \in Bytes, IsUint32(Len(payload))
  PROVE  LET sent == EncodeFrames(payload, BodyOf(<<frames, tail>>))
             again == extractDataFrames(sent)
         IN  /\ again.ok /\ again.payload = payload
             /\ Rest(sent, frameHeaderLen + Len(payload)) = OthersOf(frames) \o KeptTail(tail)
<1> DEFINE k == Len(frames)
           sent == EncodeFrames(payload, BodyOf(<<frames, tail>>))
           kept == KeptTail(tail)
           f0 == [flag |-> flagData, payload |-> payload]
           fb == FrameBytes(f0)
           others == OthersOf(frames) \o kept
<1>1. k \in Nat /\ \A i \in 1 .. k : IsFrame(frames[i])
  BY FramesMean
<1>2. sent = fb \o others
  <2>1. sent = fb \o extractNonDataFrames(BodyOf(<<frames, tail>>))
    BY DEF EncodeFrames, FrameBytes
  <2> HIDE DEF sent, fb
  <2> QED
    BY <2>1, OthersAreKept
<1>3. IsFrame(f0) /\ f0.flag = flagData /\ f0.payload = payload
  BY DEF IsFrame, flagData, Byte
<1>4. /\ IsCutOff(kept) /\ kept \in Bytes
      /\ kept = << >> \/ ~ Len(kept) < frameHeaderLen
      /\ PartialTail(kept) = << >>
  <2>1. << >> \in Bytes /\ Len(<< >>) < frameHeaderLen
    BY DEF Bytes, frameHeaderLen
  <2>2. kept = << >> \/ (kept = tail /\ ~ Len(tail) < frameHeaderLen /\ tail[1] # flagData)
    BY DEF KeptTail
  <2> HIDE DEF kept
  <2>3. CASE kept = << >>
    BY <2>1, <2>3 DEF IsCutOff, PartialTail
  <2>4. CASE kept = tail /\ ~ Len(tail) < frameHeaderLen /\ tail[1] # flagData
    BY <2>4 DEF IsCutOff, PartialTail
  <2> QED
    BY <2>2, <2>3, <2>4
<1> HIDE DEF sent, kept, f0
<1>5. PICK o : /\ \A i \in 0 .. k : o[i] \in Bytes /\ EndsWith(o[0], o[i])
               /\ o[k] = kept
               /\ \A i \in 1 .. k : o[i - 1] = OtherPiece(frames[i]) \o o[i]
               /\ o[0] = OthersOf(frames) \o kept
  BY <1>4, OthersFrom
<1> HIDE DEF k
<1>6. 0 \in 0 .. k /\ k \in 0 .. k
  BY <1>1
<1>7. others \in Bytes /\ others = o[0]
  BY <1>5, <1>6
<1> HIDE DEF others
<1>8. fb \in Bytes /\ Len(fb) = 5 + Len(payload) /\ sent \in Bytes
  BY <1>2, <1>3, <1>7, FrameMeans
<1> HIDE DEF fb
<1>9. PICK h : DataHolds(sent, h) /\ extractDataFrames(sent) = h[Len(sent)]
  BY <1>8, DataLoop DEF DataHolds
<1>10. \A i \in 0 .. k : EndsWith(sent, o[i])
  BY <1>2, <1>5, <1>7, <1>8, EndsFurther
<1> DEFINE Right(d) == d.ok = TRUE /\ d.payload = << >>
           S == {i \in 0 .. k : Right(h[Len(o[i])])}
<1>11. k \in S
  <2>1. EndsWith(sent, kept)
    BY <1>5, <1>6, <1>10
  <2>2. h[Len(kept)].ok /\ h[Len(kept)].payload = << >>
    BY <1>4, <1>9, <2>1, DataTail
  <2> QED
    BY <1>5, <1>6, <2>2
<1>12. ASSUME NEW i \in 1 .. k, i \in S PROVE i - 1 \in S
  <2>1. i \in 0 .. k /\ i - 1 \in 0 .. k
    BY <1>1
  <2> DEFINE f == frames[i]
             rest == o[i]
             more == h[Len(rest)]
             here == h[Len(FrameBytes(f) \o rest)]
  <2>2. IsFrame(f) /\ rest \in Bytes /\ o[i - 1] = OtherPiece(f) \o rest /\ Right(more)
    BY <1>1, <1>5, <1>12, <2>1
  <2>3. EndsWith(sent, o[i - 1])
    BY <1>10, <2>1
  <2> HIDE DEF f, rest
  <2>4. CASE f.flag = flagData
    <3>1. o[i - 1] = rest
      BY <2>2, <2>4, JoinNothing DEF OtherPiece
    <3> QED
      BY <2>1, <2>2, <3>1
  <2>5. CASE f.flag # flagData
    <3>1. o[i - 1] = FrameBytes(f) \o rest /\ DataPiece(f) = << >>
      BY <2>2, <2>5 DEF OtherPiece, DataPiece
    <3>2. EndsWith(sent, FrameBytes(f) \o rest)
      BY <2>3, <3>1
    <3>3. here = IF ~more.ok THEN more
                 ELSE [ok |-> TRUE, payload |-> DataPiece(f) \o more.payload,
                       notes |-> Notes(f.flag, FALSE) \o more.notes]
      BY <1>9, <2>2, <3>2, DataFrame DEF more, here
    <3>4. << >> \o << >> = << >>
      BY JoinNothing
    <3>5. here = h[Len(o[i - 1])]
      BY <3>1
    <3> HIDE DEF more, here
    <3>6. Right(here)
      BY <2>2, <3>1, <3>3, <3>4
    <3> QED
      BY <2>1, <3>5, <3>6
  <2> QED
    BY <2>4, <2>5
<1> HIDE DEF S
<1>13. 0 \in S
  BY <1>1, <1>6, <1>11, <1>12, DownTo
<1>14. Right(h[Len(others)])
  BY <1>7, <1>13 DEF S
<1>15. h[Len(sent)].ok /\ h[Len(sent)].payload = payload
  <2> DEFINE more == h[Len(others)]
             here == h[Len(FrameBytes(f0) \o others)]
  <2>1. EndsWith(sent, FrameBytes(f0) \o others)
    <3>1. sent = << >> \o (FrameBytes(f0) \o others) /\ << >> \in Bytes
      BY <1>2, <1>8, JoinNothing DEF fb
    <3> QED
      BY <3>1 DEF EndsWith
  <2>2. here = IF ~more.ok THEN more
               ELSE [ok |-> TRUE, payload |-> DataPiece(f0) \o more.payload,
                     notes |-> Notes(f0.flag, FALSE) \o more.notes]
    <3>1. IsFrame(f0) /\ others \in Bytes /\ DataHolds(sent, h)
      BY <1>3, <1>7, <1>9
    <3> HIDE DEF f0
    <3> QED
      BY <2>1, <3>1, DataFrame DEF more, here
  <2>3. DataPiece(f0) = payload /\ payload \o << >> = payload
    BY <1>3, JoinNothing DEF DataPiece
  <2>4. here = h[Len(sent)]
    BY <1>2 DEF fb
  <2> HIDE DEF more, here
  <2>5. here.ok /\ here.payload = payload
    BY <1>14, <2>2, <2>3 DEF more
  <2> QED
    BY <2>4, <2>5
<1>16. Rest(sent, frameHeaderLen + Len(payload)) = others
  <2>1. SubSeq(sent, Len(fb) + 1, Len(sent)) = others
    BY <1>2, <1>7, <1>8, JoinParts
  <2> QED
    BY <1>8, <2>1, Zenon DEF Rest, frameHeaderLen
<1> QED
  BY <1>9, <1>15, <1>16 DEF sent, others, kept

-----------------------------------------------------------------------------
(* Edited gRPC-Web bodies *)

ReEncoded(framed, payload) ==
  LET body == BodyOf(framed)
      decoded == extractDataFrames(body)
      encoded == EncodeFrames(payload, body)
  IN  [decoded |-> decoded,
       again |-> IF decoded.ok THEN extractDataFrames(encoded) ELSE decoded,
       sent |-> IF decoded.ok THEN encoded ELSE body]

\* The question asked, and what was answered to it.
FramesInv ==
  /\ kind = "frames" /\ query \in FramedBodies \X Payloads
  /\ answer = << >> \/ answer = <<ReEncoded(query[1], query[2])>>

\* FramesInv is inductive: the answer is the body re-encoded.
LEMMA FramesInvInductive == FramesSpec => []FramesInv
<1>1. FramesInit => FramesInv
  BY DEF FramesInit, Ask, FramesInv
<1>2. FramesInv /\ [FramesNext]_queryVars => FramesInv'
  <2> SUFFICES ASSUME FramesInv, [FramesNext]_queryVars PROVE FramesInv'
    OBVIOUS
  <2>1. CASE ReEncode
    <3>1. kind' = kind /\ query' = query /\ answer' = <<ReEncoded(query[1], query[2])>>
      BY <2>1 DEF ReEncode, ReEncoded, Answer
    <3> QED
      BY <3>1 DEF FramesInv
  <2>2. CASE UNCHANGED queryVars
    BY <2>2 DEF queryVars, FramesInv
  <2> QED
    BY <2>1, <2>2 DEF FramesNext
<1> QED
  BY <1>1, <1>2, PTL DEF FramesSpec

\* A gRPC-Web body that a script edited (bodydecoder.GRPCWebDecoder: Decode, then Encode)
\* decodes to exactly the edited payload and keeps every trailer and compressed frame of the
\* original, byte for byte and in order; one whose last header is cut off is not touched.
\* For all sequences of frames, whatever their bytes and lengths, every way the body can be
\* cut off after them, and every edited payload that a frame can hold.
THEOREM EditsKeepTheRestOfTheBody == FramesSpec => []EditKeepsOtherFrames
<1>1. FramesInv => EditKeepsOtherFrames
  <2> SUFFICES ASSUME FramesInv, Answered("frames") PROVE EditKeepsOtherFrames
    BY DEF EditKeepsOtherFrames
  <2> DEFINE frames == query[1][1]
             tail == query[1][2]
             payload == query[2]
             body == BodyOf(query[1])
             sent == EncodeFrames(payload, body)
             decoded == extractDataFrames(body)
             result == ReEncoded(query[1], payload)
             broken == tail # << >> /\ Len(tail) < frameHeaderLen
             dataTail == tail # << >> /\ tail[1] = flagData
  <2>1. query[1] \in FramedBodies /\ payload \in Payloads /\ Result = result
    BY DEF FramesInv, Answered, Result
  <2>2. WholeFrames(frames) /\ IsCutOff(tail) /\ payload \in Bytes /\ IsUint32(Len(payload))
    BY <2>1, FrameAssumption DEF WholeFrames
  <2>3. BodyOf(<<frames, tail>>) = body
    BY DEF BodyOf
  <2>4. /\ broken => ~decoded.ok
        /\ ~broken => decoded.ok /\ decoded.payload = DataOf(frames) \o PartialTail(tail)
    <3> HIDE DEF frames, tail
    <3> QED
      BY <2>2, <2>3, DataIsDecoded
  <2>5. ~broken => /\ extractDataFrames(sent).ok /\ extractDataFrames(sent).payload = payload
                   /\ Rest(sent, frameHeaderLen + Len(payload)) = OthersOf(frames) \o KeptTail(tail)
    <3> HIDE DEF frames, tail, payload
    <3> QED
      BY <2>2, <2>3, EditIsDecoded
  <2>6. /\ result.decoded = decoded
        /\ decoded.ok => result.again = extractDataFrames(sent) /\ result.sent = sent
        /\ ~decoded.ok => result.sent = body
    BY DEF ReEncoded
  <2>7. ~broken => /\ PartialTail(tail) = IF dataTail THEN Rest(tail, frameHeaderLen) ELSE << >>
                   /\ KeptTail(tail) = IF dataTail THEN << >> ELSE tail
    <3> HIDE DEF tail
    <3>1. tail = << >> => Len(tail) < frameHeaderLen
      BY DEF frameHeaderLen
    <3> QED
      BY <3>1, Zenon DEF PartialTail, KeptTail
  <2> HIDE DEF frames, tail, payload, body, sent, decoded, result, dataTail, broken
  <2>8. CASE broken
    <3>1. ~Result.decoded.ok /\ Result.sent = body
      BY <2>1, <2>4, <2>6, <2>8
    <3> QED
      BY <2>8, <3>1, Zenon DEF EditKeepsOtherFrames, broken, body, tail
  <2>9. CASE ~broken
    <3>1. /\ Result.decoded.payload =
               DataOf(frames) \o (IF dataTail THEN Rest(tail, frameHeaderLen) ELSE << >>)
          /\ Result.again.ok /\ Result.again.payload = payload
          /\ Rest(Result.sent, frameHeaderLen + Len(payload)) =
               OthersOf(frames) \o (IF dataTail THEN << >> ELSE tail)
      BY <2>1, <2>4, <2>5, <2>6, <2>7, <2>9, Zenon
    <3> QED
      BY <2>9, <3>1, Zenon DEF EditKeepsOtherFrames, broken, dataTail, payload, frames, tail
  <2> QED
    BY <2>8, <2>9
<1> QED
  BY <1>1, FramesInvInductive, PTL

-----------------------------------------------------------------------------
(* The lines of a diff *)

\* Putting two lists together and then their members, or first the members of each.
LEMMA FlattenJoin ==
  ASSUME NEW W, Joins(W), NEW s, ListOf(s, W), NEW t, ListOf(t, W)
  PROVE  FlattenSeq(s \o t) = FlattenSeq(s) \o FlattenSeq(t) /\ FlattenSeq(s) \in W
<1> DEFINE n == Len(s)
           m == Len(t)
           st == s \o t
<1>1. n \in Nat /\ m \in Nat /\ Len(st) = n + m
      /\ (\A i \in 1 .. n : st[i] = s[i]) /\ (\A i \in 1 .. m : st[n + i] = t[i])
  BY SeqJoin DEF ListOf
<1>2. ListOf(st, W)
  BY SeqJoin DEF ListOf
<1>3. \A i \in 1 .. m : t[i] \in W
  BY DEF ListOf
<1> HIDE DEF st
<1>4. PICK f : /\ \A i \in 0 .. Len(st) : f[i] \in W
               /\ f[0] = << >>
               /\ \A i \in 1 .. Len(st) : f[i] = f[i - 1] \o st[i]
               /\ FlattenSeq(st) = f[Len(st)]
  BY <1>2, FlattenLoop
<1>5. PICK g : /\ \A i \in 0 .. n : g[i] \in W
               /\ g[0] = << >>
               /\ \A i \in 1 .. n : g[i] = g[i - 1] \o s[i]
               /\ FlattenSeq(s) = g[n]
  BY FlattenLoop
<1>6. PICK h : /\ \A i \in 0 .. m : h[i] \in W
               /\ h[0] = << >>
               /\ \A i \in 1 .. m : h[i] = h[i - 1] \o t[i]
               /\ FlattenSeq(t) = h[m]
  BY FlattenLoop
<1> HIDE DEF n, m
<1>7. \A i \in 1 .. n + m : f[i] = f[i - 1] \o st[i]
  BY <1>1, <1>4
<1>8. n \in 0 .. n /\ m \in 0 .. m /\ 0 \in 0 .. m
  BY <1>1
<1> DEFINE S == {i \in 0 .. n : f[i] = g[i]}
<1>9. 0 \in S
  BY <1>1, <1>4, <1>5
<1>10. ASSUME NEW i \in 0 .. n - 1, i \in S PROVE i + 1 \in S
  <2> DEFINE j == i + 1
  <2>1. j \in 1 .. n /\ j \in 0 .. n /\ j \in 1 .. n + m /\ j - 1 = i
    BY <1>1
  <2> HIDE DEF j
  <2>2. f[j] = f[i] \o s[j] /\ g[j] = g[i] \o s[j] /\ f[i] = g[i]
    BY <1>1, <1>5, <1>7, <1>10, <2>1
  <2>3. j \in S
    BY <2>1, <2>2
  <2> QED
    BY <2>3 DEF j
<1> HIDE DEF S
<1>11. \A i \in 0 .. n : i \in S
  BY <1>1, <1>9, <1>10, UpTo
<1>12. f[n] = g[n] /\ g[n] \in W
  BY <1>5, <1>8, <1>11 DEF S
<1> DEFINE T == {i \in 0 .. m : f[n + i] = g[n] \o h[i]}
<1>13. 0 \in T
  <2>1. n + 0 = n
    BY <1>1
  <2>2. g[n] \o << >> = g[n]
    BY <1>12 DEF Joins
  <2> QED
    BY <1>6, <1>8, <1>12, <2>1, <2>2
<1>14. ASSUME NEW i \in 0 .. m - 1, i \in T PROVE i + 1 \in T
  <2> DEFINE j == i + 1
  <2>1. /\ j \in 1 .. m /\ j \in 0 .. m /\ i \in 0 .. m /\ n + j \in 1 .. n + m
        /\ j - 1 = i /\ (n + j) - 1 = n + i
    BY <1>1
  <2> HIDE DEF j
  <2>2. f[n + j] = f[n + i] \o t[j] /\ h[j] = h[i] \o t[j] /\ f[n + i] = g[n] \o h[i]
    BY <1>1, <1>6, <1>7, <1>14, <2>1
  <2>3. h[i] \in W /\ t[j] \in W
    BY <1>3, <1>6, <2>1 DEF m
  <2>4. (g[n] \o h[i]) \o t[j] = g[n] \o (h[i] \o t[j])
    BY <1>12, <2>3, Zenon DEF Joins
  <2>5. f[n + j] = g[n] \o h[j]
    BY <2>2, <2>4, Zenon
  <2>6. j \in T
    BY <2>1, <2>5
  <2> QED
    BY <2>6 DEF j
<1> HIDE DEF T
<1>15. \A i \in 0 .. m : i \in T
  BY <1>1, <1>13, <1>14, UpTo
<1>16. f[n + m] = g[n] \o h[m]
  BY <1>8, <1>15 DEF T
<1>17. FlattenSeq(st) = f[n + m]
  BY <1>1, <1>4, Zenon
<1> QED
  BY <1>5, <1>6, <1>12, <1>16, <1>17, Zenon DEF st

\* A single sequence flattens to itself, none to nothing.
LEMMA FlattenOne ==
  ASSUME NEW W, Joins(W), NEW x \in W
  PROVE  FlattenSeq(<<x>>) = x /\ FlattenSeq(<< >>) = << >>
<1>1. ListOf(<<x>>, W) /\ ListOf(<< >>, W)
  BY DEF ListOf
<1>2. FlattenSeq(<<x>>) = x
  <2> DEFINE s == <<x>>
  <2>1. Len(s) = 1 /\ s[1] = x
    OBVIOUS
  <2>2. ListOf(s, W)
    BY <1>1
  <2> HIDE DEF s
  <2>3. PICK f : /\ \A i \in 0 .. Len(s) : f[i] \in W
                 /\ f[0] = << >>
                 /\ \A i \in 1 .. Len(s) : f[i] = f[i - 1] \o s[i]
                 /\ FlattenSeq(s) = f[Len(s)]
    BY <2>2, FlattenLoop
  <2>4. 1 \in 1 .. 1 /\ 1 - 1 = 0
    OBVIOUS
  <2>5. f[1] = << >> \o x
    BY <2>1, <2>3, <2>4, Zenon
  <2>6. << >> \o x = x
    BY DEF Joins
  <2> QED
    BY <2>1, <2>3, <2>5, <2>6, Zenon DEF s
<1>3. FlattenSeq(<< >>) = << >>
  <2> DEFINE s == << >>
  <2>1. Len(s) = 0
    OBVIOUS
  <2>2. ListOf(s, W)
    BY <1>1
  <2> HIDE DEF s
  <2>3. PICK f : /\ \A i \in 0 .. Len(s) : f[i] \in W
                 /\ f[0] = << >>
                 /\ \A i \in 1 .. Len(s) : f[i] = f[i - 1] \o s[i]
                 /\ FlattenSeq(s) = f[Len(s)]
    BY <2>2, FlattenLoop
  <2> QED
    BY <2>1, <2>3, Zenon DEF s
<1> QED
  BY <1>2, <1>3

\* What a line of a diff can show, and the lines.
Contents == Texts \cup {"heading", "unchanged"}
LineSet == [type : {"ctx", "del", "add"}, content : Contents]
DiffLines == Seq(LineSet)
Columns == Seq(Contents)

\* What is shown and the lines of diffs can be put together.
LEMMA ColumnsJoin == Joins(Columns) /\ Joins(DiffLines)
BY SeqJoins DEF Columns, DiffLines

\* What one line shows of a side.
Shown(l, types) == IF l.type \in types THEN <<l.content>> ELSE << >>

\* A line shows something that can be shown, or nothing.
LEMMA ShownTyped ==
  ASSUME NEW l \in LineSet, NEW types
  PROVE  Shown(l, types) \in Columns
<1>1. l.content \in Contents
  BY DEF LineSet
<1>2. <<l.content>> \in Columns /\ << >> \in Columns
  BY <1>1 DEF Columns
<1> QED
  BY <1>2 DEF Shown

\* A side of the lines of two diffs in a row.
LEMMA SideJoin ==
  ASSUME NEW x \in DiffLines, NEW y \in DiffLines, NEW types
  PROVE  /\ x \o y \in DiffLines
         /\ Side(x, types) \in Columns
         /\ Side(x \o y, types) = Side(x, types) \o Side(y, types)
<1> DEFINE n == Len(x)
           m == Len(y)
           xy == x \o y
           px == [i \in DOMAIN x |-> Shown(x[i], types)]
           py == [i \in DOMAIN y |-> Shown(y[i], types)]
           pxy == [i \in DOMAIN xy |-> Shown(xy[i], types)]
           pp == px \o py
<1>1. /\ xy \in DiffLines /\ n \in Nat /\ m \in Nat /\ Len(xy) = n + m
      /\ (\A i \in 1 .. n : xy[i] = x[i]) /\ (\A i \in 1 .. m : xy[n + i] = y[i])
  BY SeqJoin DEF DiffLines
<1>2. DOMAIN x = 1 .. n /\ DOMAIN y = 1 .. m /\ DOMAIN xy = 1 .. n + m
  BY <1>1 DEF DiffLines
<1>3. (\A i \in 1 .. n : x[i] \in LineSet) /\ \A i \in 1 .. m : y[i] \in LineSet
  BY DEF DiffLines
<1>4. Side(x, types) = FlattenSeq(px) /\ Side(y, types) = FlattenSeq(py)
      /\ Side(xy, types) = FlattenSeq(pxy)
  BY DEF Side, Shown
<1> HIDE DEF n, m, xy
<1>5. ASSUME NEW k \in Nat, NEW s, s = [i \in 1 .. k |-> s[i]], \A i \in 1 .. k : s[i] \in Columns
      PROVE  ListOf(s, Columns) /\ Len(s) = k
  <2> DEFINE W == Columns
  <2>1. \A i \in 1 .. k : s[i] \in W
    BY <1>5
  <2> HIDE DEF W
  <2>2. s \in [1 .. k -> W]
    BY <1>5, <2>1
  <2>3. s \in Seq(W) /\ Len(s) = k
    BY <1>5, <2>2
  <2> QED
    BY <2>3 DEF W, ListOf
<1>6. ListOf(px, Columns) /\ Len(px) = n
  <2>1. px = [i \in 1 .. n |-> px[i]]
    BY <1>2
  <2>2. \A i \in 1 .. n : px[i] \in Columns
    BY <1>2, <1>3, ShownTyped
  <2> HIDE DEF px
  <2> QED
    BY <1>1, <1>5, <2>1, <2>2
<1>7. ListOf(py, Columns) /\ Len(py) = m
  <2>1. py = [i \in 1 .. m |-> py[i]]
    BY <1>2
  <2>2. \A i \in 1 .. m : py[i] \in Columns
    BY <1>2, <1>3, ShownTyped
  <2> HIDE DEF py
  <2> QED
    BY <1>1, <1>5, <2>1, <2>2
<1>8. /\ \A i \in 1 .. n : px[i] = Shown(x[i], types)
      /\ \A i \in 1 .. m : py[i] = Shown(y[i], types)
      /\ \A i \in 1 .. n + m : pxy[i] = Shown(xy[i], types)
      /\ DOMAIN pxy = 1 .. n + m /\ pxy = [i \in 1 .. n + m |-> pxy[i]]
  BY <1>2
<1> HIDE DEF px, py, pxy
<1>9. /\ pp = [i \in 1 .. n + m |-> pp[i]]
      /\ (\A i \in 1 .. n : pp[i] = px[i]) /\ \A i \in 1 .. m : pp[n + i] = py[i]
  <2> DEFINE W == Columns
  <2>1. px \in Seq(W) /\ py \in Seq(W)
    BY <1>6, <1>7 DEF ListOf
  <2> HIDE DEF W
  <2>2. /\ pp \in Seq(W) /\ Len(pp) = Len(px) + Len(py)
        /\ (\A i \in 1 .. Len(px) : pp[i] = px[i])
        /\ \A i \in 1 .. Len(py) : pp[Len(px) + i] = py[i]
    BY <2>1, SeqJoin
  <2> HIDE DEF pp
  <2>3. Len(pp) = n + m
    BY <1>6, <1>7, <2>2, Zenon
  <2>4. pp = [i \in 1 .. Len(pp) |-> pp[i]]
    BY <2>2
  <2> QED
    BY <1>6, <1>7, <2>2, <2>3, <2>4, Zenon
<1>10. pxy = pp
  <2> HIDE DEF pp
  <2>1. ASSUME NEW i \in 1 .. n + m PROVE pxy[i] = pp[i]
    <3>1. CASE i <= n
      <4>1. i \in 1 .. n
        BY <1>1, <3>1
      <4>2. xy[i] = x[i] /\ pp[i] = px[i]
        BY <1>1, <1>9, <4>1
      <4>3. px[i] = Shown(x[i], types) /\ pxy[i] = Shown(xy[i], types)
        BY <1>8, <4>1
      <4> QED
        BY <4>2, <4>3, Zenon
    <3>2. CASE i > n
      <4> DEFINE j == i - n
      <4>1. j \in 1 .. m /\ n + j = i
        BY <1>1, <3>2
      <4> HIDE DEF j
      <4>2. pxy[i] = Shown(y[j], types) /\ pp[i] = py[j]
        BY <1>1, <1>8, <1>9, <4>1
      <4> QED
        BY <1>8, <4>1, <4>2
    <3> QED
      BY <1>1, <3>1, <3>2
  <2> QED
    BY <1>8, <1>9, <2>1
<1>11. FlattenSeq(pp) = FlattenSeq(px) \o FlattenSeq(py) /\ FlattenSeq(px) \in Columns
  BY <1>6, <1>7, ColumnsJoin, FlattenJoin
<1> QED
  BY <1>1, <1>4, <1>10, <1>11, Zenon DEF xy

\* A side of one line, and of none.
LEMMA SideOne ==
  ASSUME NEW l \in LineSet, NEW types
  PROVE  /\ <<l>> \in DiffLines /\ << >> \in DiffLines
         /\ Side(<<l>>, types) = Shown(l, types) /\ Side(<< >>, types) = << >>
<1>1. Side(<<l>>, types) = FlattenSeq(<<Shown(l, types)>>)
  <2> DEFINE p == [i \in DOMAIN <<l>> |-> Shown(<<l>>[i], types)]
  <2>1. Side(<<l>>, types) = FlattenSeq(p)
    BY DEF Side, Shown
  <2>2. p = <<Shown(l, types)>>
    OBVIOUS
  <2> QED
    BY <2>1, <2>2
<1>2. Side(<< >>, types) = FlattenSeq(<< >>)
  <2> DEFINE p == [i \in DOMAIN << >> |-> Shown(<< >>[i], types)]
  <2>1. Side(<< >>, types) = FlattenSeq(p)
    BY DEF Side, Shown
  <2>2. p = << >>
    OBVIOUS
  <2> QED
    BY <2>1, <2>2
<1>3. FlattenSeq(<<Shown(l, types)>>) = Shown(l, types) /\ FlattenSeq(<< >>) = << >>
  BY ShownTyped, ColumnsJoin, FlattenOne
<1>4. <<l>> \in DiffLines /\ << >> \in DiffLines
  BY DEF DiffLines
<1> QED
  BY <1>1, <1>2, <1>3, <1>4, Zenon

\* Whether two diffs in a row show a change.
LEMMA ChangesJoin ==
  ASSUME NEW x \in DiffLines, NEW y \in DiffLines
  PROVE  x \o y \in DiffLines /\ (HasChanges(x \o y) <=> HasChanges(x) \/ HasChanges(y))
<1> DEFINE n == Len(x)
           m == Len(y)
           xy == x \o y
<1>1. /\ xy \in DiffLines /\ n \in Nat /\ m \in Nat /\ Len(xy) = n + m
      /\ (\A i \in 1 .. n : xy[i] = x[i]) /\ (\A i \in 1 .. m : xy[n + i] = y[i])
  BY SeqJoin DEF DiffLines
<1>2. DOMAIN x = 1 .. n /\ DOMAIN y = 1 .. m /\ DOMAIN xy = 1 .. n + m
  BY <1>1 DEF DiffLines
<1> HIDE DEF n, m, xy
<1> DEFINE Changed(l) == l.type \in {"add", "del"}
<1>3. /\ HasChanges(x) <=> \E i \in 1 .. n : Changed(x[i])
      /\ HasChanges(y) <=> \E i \in 1 .. m : Changed(y[i])
      /\ HasChanges(xy) <=> \E i \in 1 .. n + m : Changed(xy[i])
  BY <1>2 DEF HasChanges
<1> HIDE DEF Changed
<1>4. ASSUME NEW i \in 1 .. n + m, Changed(xy[i])
      PROVE  (\E j \in 1 .. n : Changed(x[j])) \/ \E j \in 1 .. m : Changed(y[j])
  <2>1. CASE i <= n
    <3>1. i \in 1 .. n
      BY <1>1, <2>1
    <3> QED
      BY <1>1, <1>4, <3>1
  <2>2. CASE i > n
    <3>1. i - n \in 1 .. m /\ n + (i - n) = i
      BY <1>1, <2>2
    <3> QED
      BY <1>1, <1>4, <3>1
  <2> QED
    BY <1>1, <2>1, <2>2
<1>5. ASSUME NEW j \in 1 .. n, Changed(x[j]) PROVE \E i \in 1 .. n + m : Changed(xy[i])
  <2>1. j \in 1 .. n + m /\ xy[j] = x[j]
    BY <1>1
  <2> QED
    BY <1>5, <2>1
<1>6. ASSUME NEW j \in 1 .. m, Changed(y[j]) PROVE \E i \in 1 .. n + m : Changed(xy[i])
  <2>1. n + j \in 1 .. n + m /\ xy[n + j] = y[j]
    BY <1>1
  <2> QED
    BY <1>6, <2>1
<1> QED
  BY <1>1, <1>3, <1>4, <1>5, <1>6 DEF xy

-----------------------------------------------------------------------------
(* The table of longest common subsequences, and the walk through it *)

\* How many lines are left in front of a place.
Left(a, b, p) == (Len(a) + 1 - p[1]) + (Len(b) + 1 - p[2])

\* The body of lcsTable.
LcsAt(a, b, p, dp) ==
  LET i == p[1]
      j == p[2]
  IN  IF i > Len(a) \/ j > Len(b) THEN 0
      ELSE IF a[i] = b[j] THEN dp[<<i + 1, j + 1>>] + 1
      ELSE GreaterOf(dp[<<i + 1, j>>], dp[<<i, j + 1>>])

LcsBody(a, b, dp) == [p \in Spots(a, b) |-> LcsAt(a, b, p, dp)]

\* The body of the walk of simpleDiff.
WalkAt(a, b, dp, p, walk) ==
  LET i == p[1]
      j == p[2]
  IN  IF i > Len(a) /\ j > Len(b) THEN << >>
      ELSE IF i <= Len(a) /\ j <= Len(b) /\ a[i] = b[j]
        THEN <<Ctx(a[i])>> \o walk[<<i + 1, j + 1>>]
      ELSE IF j <= Len(b) /\ (i > Len(a) \/ dp[<<i, j + 1>>] >= dp[<<i + 1, j>>])
        THEN <<Add(b[j])>> \o walk[<<i, j + 1>>]
      ELSE <<Del(a[i])>> \o walk[<<i + 1, j>>]

WalkBody(a, b, dp, walk) == [p \in Spots(a, b) |-> WalkAt(a, b, dp, p, walk)]

TextSeqs == Seq(Texts)

\* The places one step on, and what is left there.
LEMMA SpotsMean ==
  ASSUME NEW a \in TextSeqs, NEW b \in TextSeqs, NEW p \in Spots(a, b)
  PROVE  LET i == p[1]
             j == p[2]
             n == Len(a)
             m == Len(b)
         IN  /\ n \in Nat /\ m \in Nat
             /\ i \in 1 .. n + 1 /\ j \in 1 .. m + 1 /\ p = <<i, j>>
             /\ Left(a, b, p) \in 0 .. n + m
             /\ i <= n => a[i] \in Texts /\ <<i + 1, j>> \in Spots(a, b)
                          /\ Left(a, b, <<i + 1, j>>) = Left(a, b, p) - 1
             /\ j <= m => b[j] \in Texts /\ <<i, j + 1>> \in Spots(a, b)
                          /\ Left(a, b, <<i, j + 1>>) = Left(a, b, p) - 1
             /\ i <= n /\ j <= m => <<i + 1, j + 1>> \in Spots(a, b)
                          /\ Left(a, b, <<i + 1, j + 1>>) = Left(a, b, p) - 2
<1> DEFINE i == p[1]
           j == p[2]
           n == Len(a)
           m == Len(b)
<1>1. n \in Nat /\ m \in Nat /\ (\A k \in 1 .. n : a[k] \in Texts) /\ \A k \in 1 .. m : b[k] \in Texts
  BY DEF TextSeqs
<1>2. Spots(a, b) = (1 .. n + 1) \X (1 .. m + 1)
  BY DEF Spots
<1>3. \A q : Left(a, b, q) = (n + 1 - q[1]) + (m + 1 - q[2])
  BY DEF Left
<1> HIDE DEF n, m
<1>4. i \in 1 .. n + 1 /\ j \in 1 .. m + 1 /\ p = <<i, j>>
  BY <1>2
<1> HIDE DEF i, j
<1>5. Left(a, b, p) = (n + 1 - i) + (m + 1 - j)
  BY <1>3 DEF i, j
<1>6. ASSUME i <= n
      PROVE  a[i] \in Texts /\ <<i + 1, j>> \in Spots(a, b)
             /\ Left(a, b, <<i + 1, j>>) = Left(a, b, p) - 1
  <2>1. Left(a, b, <<i + 1, j>>) = (n + 1 - (i + 1)) + (m + 1 - j)
    BY <1>3
  <2>2. i \in 1 .. n /\ i + 1 \in 1 .. n + 1
    BY <1>1, <1>4, <1>6
  <2> QED
    BY <1>1, <1>2, <1>4, <1>5, <2>1, <2>2
<1>7. ASSUME j <= m
      PROVE  b[j] \in Texts /\ <<i, j + 1>> \in Spots(a, b)
             /\ Left(a, b, <<i, j + 1>>) = Left(a, b, p) - 1
  <2>1. Left(a, b, <<i, j + 1>>) = (n + 1 - i) + (m + 1 - (j + 1))
    BY <1>3
  <2>2. j \in 1 .. m /\ j + 1 \in 1 .. m + 1
    BY <1>1, <1>4, <1>7
  <2> QED
    BY <1>1, <1>2, <1>4, <1>5, <2>1, <2>2
<1>8. ASSUME i <= n, j <= m
      PROVE  <<i + 1, j + 1>> \in Spots(a, b)
             /\ Left(a, b, <<i + 1, j + 1>>) = Left(a, b, p) - 2
  <2>1. Left(a, b, <<i + 1, j + 1>>) = (n + 1 - (i + 1)) + (m + 1 - (j + 1))
    BY <1>3
  <2>2. i + 1 \in 1 .. n + 1 /\ j + 1 \in 1 .. m + 1
    BY <1>1, <1>4, <1>8
  <2> QED
    BY <1>1, <1>2, <1>4, <1>5, <2>1, <2>2
<1>9. Left(a, b, p) \in 0 .. n + m
  BY <1>1, <1>4, <1>5
<1> QED
  BY <1>1, <1>4, <1>6, <1>7, <1>8, <1>9 DEF i, j, n, m

\* What holds at every place if it holds behind the last line and with each place for the
\* one before.
LEMMA FromTheEnd ==
  ASSUME NEW a \in TextSeqs, NEW b \in TextSeqs, NEW S,
         \A p \in Spots(a, b) :
           (\A q \in Spots(a, b) : Left(a, b, q) < Left(a, b, p) => q \in S) => p \in S
  PROVE  \A p \in Spots(a, b) : p \in S
<1> DEFINE D == Spots(a, b)
           left(p) == Left(a, b, p)
           n == Len(a) + Len(b)
           T == {k \in 0 .. n : \A p \in D : left(p) < k => p \in S}
<1>1. n \in Nat
  BY DEF TextSeqs
<1>2. \A p \in D : left(p) \in 0 .. n
  BY SpotsMean
<1>3. \A p \in D : (\A q \in D : left(q) < left(p) => q \in S) => p \in S
  OBVIOUS
<1> HIDE DEF D, left, n
<1>4. 0 \in T
  BY <1>1, <1>2
<1>5. ASSUME NEW k \in 0 .. n - 1, k \in T PROVE k + 1 \in T
  <2>1. \A p \in D : left(p) < k => p \in S
    BY <1>5
  <2>2. ASSUME NEW p \in D, left(p) < k + 1 PROVE p \in S
    <3>1. left(p) <= k /\ left(p) \in Int
      BY <1>1, <1>2, <2>2
    <3>2. ASSUME NEW q \in D, left(q) < left(p) PROVE q \in S
      <4>1. left(q) < k
        BY <1>2, <3>1, <3>2
      <4> QED
        BY <2>1, <4>1
    <3> QED
      BY <1>3, <3>2
  <2>3. k + 1 \in 0 .. n
    BY <1>1
  <2> QED
    BY <2>2, <2>3
<1> HIDE DEF T
<1>6. \A k \in 0 .. n : k \in T
  BY <1>1, <1>4, <1>5, UpTo
<1>7. ASSUME NEW p \in D PROVE p \in S
  <2>1. left(p) \in 0 .. n
    BY <1>2
  <2>2. ASSUME NEW q \in D, left(q) < left(p) PROVE q \in S
    BY <1>6, <2>1, <2>2 DEF T
  <2> QED
    BY <1>3, <2>2
<1> QED
  BY <1>7 DEF D

\* The table is filled from the end.
LEMMA LcsLoop ==
  ASSUME NEW a \in TextSeqs, NEW b \in TextSeqs
  PROVE  /\ lcsTable(a, b) \in [Spots(a, b) -> Nat]
         /\ \A p \in Spots(a, b) : lcsTable(a, b)[p] = LcsAt(a, b, p, lcsTable(a, b))
<1> DEFINE D == Spots(a, b)
           h == CHOOSE f : f = LcsBody(a, b, f)
           n == Len(a) + Len(b)
           rank == [p \in D |-> Left(a, b, p)]
           F == [c \in D \X [D -> Nat] |-> LcsAt(a, b, c[1], c[2])]
<1>1. lcsTable(a, b) = h
  BY DEF lcsTable, LcsBody, LcsAt
<1> HIDE DEF h
<1>2. n \in Nat
  BY DEF TextSeqs
<1>3. ASSUME NEW p \in D
      PROVE  LET i == p[1]
                 j == p[2]
             IN  ~(i > Len(a) \/ j > Len(b)) =>
                   /\ <<i + 1, j>> \in D /\ <<i, j + 1>> \in D /\ <<i + 1, j + 1>> \in D
                   /\ Left(a, b, <<i + 1, j>>) < Left(a, b, p)
                   /\ Left(a, b, <<i, j + 1>>) < Left(a, b, p)
                   /\ Left(a, b, <<i + 1, j + 1>>) < Left(a, b, p)
  BY SpotsMean
<1>4. ASSUME NEW p \in D, NEW f \in [D -> Nat] PROVE LcsAt(a, b, p, f) \in Nat
  <2> DEFINE i == p[1]
             j == p[2]
  <2>1. CASE i > Len(a) \/ j > Len(b)
    BY <2>1 DEF LcsAt
  <2>2. CASE ~(i > Len(a) \/ j > Len(b))
    <3>1. f[<<i + 1, j>>] \in Nat /\ f[<<i, j + 1>>] \in Nat /\ f[<<i + 1, j + 1>>] \in Nat
      BY <1>3, <2>2
    <3> QED
      BY <2>2, <3>1 DEF LcsAt, GreaterOf
  <2> QED
    BY <2>1, <2>2
<1>5. F \in [D \X [D -> Nat] -> Nat]
  BY <1>4
<1>6. \A p \in D : \A f \in [D -> Nat] : F[<<p, f>>] = LcsAt(a, b, p, f)
  OBVIOUS
<1>7. \A p \in D : rank[p] = Left(a, b, p)
  OBVIOUS
<1>8. rank \in [D -> 0 .. n]
  BY SpotsMean
<1> HIDE DEF F, D, rank, n
<1>9. LooksBack(F, D, Nat, rank)
  <2> SUFFICES ASSUME NEW p \in D, NEW f \in [D -> Nat], NEW g \in [D -> Nat],
                      \A y \in D : rank[y] < rank[p] => f[y] = g[y]
               PROVE  F[<<p, f>>] = F[<<p, g>>]
    BY <1>5 DEF LooksBack
  <2> DEFINE i == p[1]
             j == p[2]
  <2>1. LcsAt(a, b, p, f) = LcsAt(a, b, p, g)
    <3>1. CASE i > Len(a) \/ j > Len(b)
      BY <3>1 DEF LcsAt
    <3>2. CASE ~(i > Len(a) \/ j > Len(b))
      <4>1. /\ f[<<i + 1, j>>] = g[<<i + 1, j>>] /\ f[<<i, j + 1>>] = g[<<i, j + 1>>]
            /\ f[<<i + 1, j + 1>>] = g[<<i + 1, j + 1>>]
        BY <1>3, <1>7, <3>2
      <4> QED
        BY <4>1 DEF LcsAt
    <3> QED
      BY <3>1, <3>2
  <2> QED
    BY <1>6, <2>1
<1>10. PICK f \in [D -> Nat] : Obeys(f, F, D)
  <2>1. Nat # {}
    OBVIOUS
  <2> QED
    BY <1>2, <1>8, <1>9, <2>1, RecursionExists
<1>11. f = LcsBody(a, b, f)
  <2>1. \A p \in D : f[p] = LcsAt(a, b, p, f)
    BY <1>6, <1>10 DEF Obeys
  <2>2. f = [p \in D |-> f[p]]
    OBVIOUS
  <2> QED
    BY <2>1, <2>2 DEF LcsBody, D
<1>12. h = LcsBody(a, b, h)
  BY <1>11 DEF h
<1>13. \A p \in D : h[p] = LcsAt(a, b, p, h)
  <2> TAKE p \in D
  <2>1. h[p] = LcsBody(a, b, h)[p]
    BY <1>12, Zenon
  <2> QED
    BY <2>1 DEF LcsBody, D
<1>14. h = [p \in D |-> h[p]]
  BY <1>12 DEF LcsBody, D
<1> DEFINE S == {p \in D : h[p] \in Nat}
<1>15. ASSUME NEW p \in D, \A q \in D : Left(a, b, q) < Left(a, b, p) => q \in S
       PROVE  p \in S
  <2> DEFINE i == p[1]
             j == p[2]
  <2>1. h[p] = LcsAt(a, b, p, h)
    BY <1>13
  <2>2. CASE i > Len(a) \/ j > Len(b)
    BY <2>1, <2>2 DEF LcsAt
  <2>3. CASE ~(i > Len(a) \/ j > Len(b))
    <3>1. h[<<i + 1, j>>] \in Nat /\ h[<<i, j + 1>>] \in Nat /\ h[<<i + 1, j + 1>>] \in Nat
      BY <1>3, <1>15, <2>3
    <3> QED
      BY <2>1, <2>3, <3>1 DEF LcsAt, GreaterOf
  <2> QED
    BY <2>2, <2>3
<1> HIDE DEF S
<1>16. \A p \in D : p \in S
  BY <1>15, FromTheEnd DEF D
<1>17. h \in [D -> Nat]
  BY <1>14, <1>16 DEF S
<1> QED
  BY <1>1, <1>13, <1>17 DEF D

\* The three kinds of lines.
LEMMA LinesTyped ==
  ASSUME NEW c \in Contents
  PROVE  /\ Ctx(c) \in LineSet /\ Del(c) \in LineSet /\ Add(c) \in LineSet
         /\ Ctx(c).type = "ctx" /\ Del(c).type = "del" /\ Add(c).type = "add"
         /\ Ctx(c).content = c /\ Del(c).content = c /\ Add(c).content = c
BY DEF Ctx, Del, Add, LineSet

\* One step of the walk: what it shows, and where it goes on.
Goes(a, b, dp, p, q, l) ==
  LET i == p[1]
      j == p[2]
  IN  \/ /\ i <= Len(a) /\ j <= Len(b) /\ a[i] = b[j]
         /\ q = <<i + 1, j + 1>> /\ l = Ctx(a[i])
      \/ /\ j <= Len(b) /\ (i > Len(a) \/ (a[i] # b[j] /\ dp[<<i, j + 1>>] >= dp[<<i + 1, j>>]))
         /\ q = <<i, j + 1>> /\ l = Add(b[j])
      \/ /\ i <= Len(a)
         /\ j > Len(b) \/ (a[i] # b[j] /\ ~ dp[<<i, j + 1>>] >= dp[<<i + 1, j>>])
         /\ q = <<i + 1, j>> /\ l = Del(a[i])

\* The walk has arrived, or shows line l and goes on at q.
Arrived(a, b, dp, p) ==
  /\ p = <<Len(a) + 1, Len(b) + 1>>
  /\ \A walk : WalkAt(a, b, dp, p, walk) = << >>
GoesOn(a, b, dp, p, q, l) ==
  /\ Left(a, b, q) < Left(a, b, p) /\ Goes(a, b, dp, p, q, l)
  /\ \A walk : WalkAt(a, b, dp, p, walk) = <<l>> \o walk[q]

\* Wherever the walk is it has arrived, or one line takes it to a place nearer to the ends.
LEMMA WalkStep ==
  ASSUME NEW a \in TextSeqs, NEW b \in TextSeqs, NEW dp, NEW p \in Spots(a, b)
  PROVE  \/ Arrived(a, b, dp, p)
         \/ \E q \in Spots(a, b), l \in LineSet : GoesOn(a, b, dp, p, q, l)
<1> DEFINE i == p[1]
           j == p[2]
           n == Len(a)
           m == Len(b)
           left(q) == Left(a, b, q)
<1>1. /\ n \in Nat /\ m \in Nat
      /\ i \in 1 .. n + 1 /\ j \in 1 .. m + 1 /\ p = <<i, j>>
      /\ left(p) \in 0 .. n + m
      /\ i <= n => a[i] \in Texts /\ <<i + 1, j>> \in Spots(a, b)
                   /\ left(<<i + 1, j>>) = left(p) - 1
      /\ j <= m => b[j] \in Texts /\ <<i, j + 1>> \in Spots(a, b)
                   /\ left(<<i, j + 1>>) = left(p) - 1
      /\ i <= n /\ j <= m => <<i + 1, j + 1>> \in Spots(a, b)
                   /\ left(<<i + 1, j + 1>>) = left(p) - 2
  BY SpotsMean
<1> DEFINE equal == i <= n /\ j <= m /\ a[i] = b[j]
           adds == j <= m /\ (i > n \/ dp[<<i, j + 1>>] >= dp[<<i + 1, j>>])
<1>2. \A walk : WalkAt(a, b, dp, p, walk) =
        IF i > n /\ j > m THEN << >>
        ELSE IF equal THEN <<Ctx(a[i])>> \o walk[<<i + 1, j + 1>>]
        ELSE IF adds THEN <<Add(b[j])>> \o walk[<<i, j + 1>>]
        ELSE <<Del(a[i])>> \o walk[<<i + 1, j>>]
  BY DEF WalkAt
<1>3. \A x \in Texts : x \in Contents
  BY DEF Contents
<1>4. \A q, l : Goes(a, b, dp, p, q, l) <=>
        \/ equal /\ q = <<i + 1, j + 1>> /\ l = Ctx(a[i])
        \/ /\ j <= m /\ (i > n \/ (a[i] # b[j] /\ dp[<<i, j + 1>>] >= dp[<<i + 1, j>>]))
           /\ q = <<i, j + 1>> /\ l = Add(b[j])
        \/ /\ i <= n /\ (j > m \/ (a[i] # b[j] /\ ~ dp[<<i, j + 1>>] >= dp[<<i + 1, j>>]))
           /\ q = <<i + 1, j>> /\ l = Del(a[i])
  BY DEF Goes
<1> DEFINE more == dp[<<i, j + 1>>] >= dp[<<i + 1, j>>]
<1> HIDE DEF n, m, i, j, left, more
<1>5. CASE i > n /\ j > m
  <2>1. i = n + 1 /\ j = m + 1
    BY <1>1, <1>5
  <2>2. \A walk : WalkAt(a, b, dp, p, walk) = << >>
    BY <1>2, <1>5
  <2>3. p = <<n + 1, m + 1>>
    BY <1>1, <2>1
  <2> QED
    BY <2>2, <2>3 DEF n, m, Arrived
<1>6. CASE ~(i > n /\ j > m) /\ equal
  <2> DEFINE q == <<i + 1, j + 1>>
             l == Ctx(a[i])
  <2>1. q \in Spots(a, b) /\ left(q) < left(p)
    BY <1>1, <1>6
  <2>2. l \in LineSet
    BY <1>1, <1>3, <1>6, LinesTyped
  <2>3. Goes(a, b, dp, p, q, l)
    BY <1>4, <1>6
  <2>4. \A walk : WalkAt(a, b, dp, p, walk) = <<l>> \o walk[q]
    BY <1>2, <1>6
  <2> QED
    BY <2>1, <2>2, <2>3, <2>4 DEF left, GoesOn
<1>7. CASE ~(i > n /\ j > m) /\ ~equal /\ adds
  <2> DEFINE q == <<i, j + 1>>
             l == Add(b[j])
  <2>1. q \in Spots(a, b) /\ left(q) < left(p)
    BY <1>1, <1>7
  <2>2. l \in LineSet
    BY <1>1, <1>3, <1>7, LinesTyped
  <2>3. j <= m /\ (i > n \/ (a[i] # b[j] /\ more))
    BY <1>1, <1>7 DEF more
  <2>4. Goes(a, b, dp, p, q, l)
    BY <1>4, <2>3 DEF more
  <2>5. \A walk : WalkAt(a, b, dp, p, walk) = <<l>> \o walk[q]
    BY <1>2, <1>7
  <2> QED
    BY <2>1, <2>2, <2>4, <2>5 DEF left, GoesOn
<1>8. CASE ~(i > n /\ j > m) /\ ~equal /\ ~adds
  <2> DEFINE q == <<i + 1, j>>
             l == Del(a[i])
  <2>1. i <= n /\ (j > m \/ (a[i] # b[j] /\ ~more))
    BY <1>1, <1>8 DEF more
  <2>2. q \in Spots(a, b) /\ left(q) < left(p)
    BY <1>1, <2>1
  <2>3. l \in LineSet
    BY <1>1, <1>3, <2>1, LinesTyped
  <2>4. Goes(a, b, dp, p, q, l)
    BY <1>4, <2>1 DEF more
  <2>5. \A walk : WalkAt(a, b, dp, p, walk) = <<l>> \o walk[q]
    BY <1>2, <1>8
  <2> QED
    BY <2>2, <2>3, <2>4, <2>5 DEF left, GoesOn
<1> QED
  BY <1>5, <1>6, <1>7, <1>8

\* simpleDiff computes what its walk does at each place.
LEMMA WalkLoop ==
  ASSUME NEW a \in TextSeqs, NEW b \in TextSeqs
  PROVE  \E h : /\ simpleDiff(a, b) = h[<<1, 1>>]
                /\ \A p \in Spots(a, b) : h[p] = WalkAt(a, b, lcsTable(a, b), p, h)
<1> DEFINE D == Spots(a, b)
           dp == lcsTable(a, b)
           W == DiffLines
           h == CHOOSE f : f = WalkBody(a, b, dp, f)
           n == Len(a) + Len(b)
           rank == [p \in D |-> Left(a, b, p)]
           F == [c \in D \X [D -> W] |-> WalkAt(a, b, dp, c[1], c[2])]
<1>1. simpleDiff(a, b) = h[<<1, 1>>]
  BY DEF simpleDiff, WalkBody, WalkAt
<1> HIDE DEF h, dp
<1>2. n \in Nat
  BY DEF TextSeqs
<1>3. << >> \in W /\ \A l \in LineSet : \A w \in W : <<l>> \o w \in W
  <2>1. << >> \in W /\ \A v, w \in W : v \o w \in W
    BY ColumnsJoin DEF Joins
  <2>2. \A l \in LineSet : <<l>> \in W
    BY DEF DiffLines
  <2> HIDE DEF W
  <2> QED
    BY <2>1, <2>2
<1> HIDE DEF W
<1>4. ASSUME NEW p \in D
      PROVE  Arrived(a, b, dp, p) \/ \E q \in D, l \in LineSet : GoesOn(a, b, dp, p, q, l)
  BY WalkStep
<1>5. ASSUME NEW p \in D, NEW f \in [D -> W] PROVE WalkAt(a, b, dp, p, f) \in W
  <2>1. CASE Arrived(a, b, dp, p)
    BY <1>3, <2>1 DEF Arrived
  <2>2. CASE \E q \in D, l \in LineSet : GoesOn(a, b, dp, p, q, l)
    <3>1. PICK q \in D, l \in LineSet : \A walk : WalkAt(a, b, dp, p, walk) = <<l>> \o walk[q]
      BY <2>2 DEF GoesOn
    <3> HIDE DEF D
    <3>2. f[q] \in W
      OBVIOUS
    <3>3. <<l>> \o f[q] \in W
      BY <1>3, <3>2
    <3> QED
      BY <3>1, <3>3, Zenon
  <2> QED
    BY <1>4, <2>1, <2>2
<1>6. F \in [D \X [D -> W] -> W]
  BY <1>5
<1>7. \A p \in D : \A f \in [D -> W] : F[<<p, f>>] = WalkAt(a, b, dp, p, f)
  OBVIOUS
<1>8. \A p \in D : rank[p] = Left(a, b, p)
  OBVIOUS
<1>9. rank \in [D -> 0 .. n]
  BY SpotsMean
<1> HIDE DEF F, D, rank, n
<1>10. LooksBack(F, D, W, rank)
  <2> SUFFICES ASSUME NEW p \in D, NEW f \in [D -> W], NEW g \in [D -> W],
                      \A y \in D : rank[y] < rank[p] => f[y] = g[y]
               PROVE  F[<<p, f>>] = F[<<p, g>>]
    BY <1>6 DEF LooksBack
  <2>1. WalkAt(a, b, dp, p, f) = WalkAt(a, b, dp, p, g)
    <3>1. CASE Arrived(a, b, dp, p)
      BY <3>1, Zenon DEF Arrived
    <3>2. CASE \E q \in D, l \in LineSet : GoesOn(a, b, dp, p, q, l)
      <4>1. PICK q \in D, l \in LineSet :
              /\ Left(a, b, q) < Left(a, b, p)
              /\ \A walk : WalkAt(a, b, dp, p, walk) = <<l>> \o walk[q]
        BY <3>2 DEF GoesOn
      <4>2. f[q] = g[q]
        BY <1>8, <4>1
      <4> QED
        BY <4>1, <4>2, Zenon
    <3> QED
      BY <1>4, <3>1, <3>2
  <2> QED
    BY <1>7, <2>1
<1>11. PICK f \in [D -> W] : Obeys(f, F, D)
  <2>1. W # {}
    BY <1>3
  <2> QED
    BY <1>2, <1>9, <1>10, <2>1, RecursionExists
<1>12. f = WalkBody(a, b, dp, f)
  <2>1. \A p \in D : f[p] = WalkAt(a, b, dp, p, f)
    BY <1>7, <1>11 DEF Obeys
  <2>2. f = [p \in D |-> f[p]]
    OBVIOUS
  <2> QED
    BY <2>1, <2>2 DEF WalkBody, D
<1>13. h = WalkBody(a, b, dp, h)
  BY <1>12 DEF h
<1>14. \A p \in D : h[p] = WalkAt(a, b, dp, p, h)
  <2> TAKE p \in D
  <2>1. h[p] = WalkBody(a, b, dp, h)[p]
    BY <1>13, Zenon
  <2> QED
    BY <2>1 DEF WalkBody, D
<1> QED
  BY <1>1, <1>14 DEF D, dp

\* One sequence of texts behind the other.
LEMMA TextsJoin ==
  ASSUME NEW a \in TextSeqs, NEW b \in TextSeqs
  PROVE  /\ a \o b \in TextSeqs /\ Len(a \o b) = Len(a) + Len(b)
         /\ \A x \in 1 .. Len(a) : (a \o b)[x] = a[x]
         /\ \A x \in 1 .. Len(b) : (a \o b)[Len(a) + x] = b[x]
BY SeqJoin DEF TextSeqs

\* What is left of a sequence from one of its members on.
LEMMA RestOfTexts ==
  ASSUME NEW a \in TextSeqs
  PROVE  /\ \A i \in 1 .. Len(a) : SubSeq(a, i, Len(a)) = <<a[i]>> \o SubSeq(a, i + 1, Len(a))
         /\ SubSeq(a, Len(a) + 1, Len(a)) = << >> /\ SubSeq(a, 1, Len(a)) = a
         /\ \A i \in 1 .. Len(a) + 1 : SubSeq(a, i, Len(a)) \in TextSeqs
<1> DEFINE n == Len(a)
<1>1. n \in Nat /\ \A k \in 1 .. n : a[k] \in Texts
  BY DEF TextSeqs
<1>2. ASSUME NEW i \in 1 .. n + 1
      PROVE  /\ SubSeq(a, i, n) \in TextSeqs /\ Len(SubSeq(a, i, n)) = n + 1 - i
             /\ \A x \in 1 .. n + 1 - i : SubSeq(a, i, n)[x] = a[(i - 1) + x]
  <2> DEFINE k == i - 1
  <2>1. k \in 0 .. n /\ k + 1 = i /\ n - k = n + 1 - i
    BY <1>1
  <2> HIDE DEF k, n
  <2>2. /\ SubSeq(a, k + 1, n) \in TextSeqs /\ Len(SubSeq(a, k + 1, n)) = n - k
        /\ \A x \in 1 .. n - k : SubSeq(a, k + 1, n)[x] = a[k + x]
    BY <2>1, SeqDrop DEF TextSeqs, n
  <2> QED
    BY <2>1, <2>2, Zenon DEF k
<1>3. ASSUME NEW i \in 1 .. n PROVE SubSeq(a, i, n) = <<a[i]>> \o SubSeq(a, i + 1, n)
  <2> DEFINE s == SubSeq(a, i, n)
             t == SubSeq(a, i + 1, n)
             one == <<a[i]>>
             u == one \o t
  <2>1. i \in 1 .. n + 1 /\ i + 1 \in 1 .. n + 1 /\ i - 1 + 1 = i
    BY <1>1
  <2>2. s \in TextSeqs /\ Len(s) = n + 1 - i /\ \A x \in 1 .. n + 1 - i : s[x] = a[(i - 1) + x]
    BY <1>2, <2>1
  <2>3. /\ t \in TextSeqs /\ Len(t) = n + 1 - (i + 1)
        /\ \A x \in 1 .. n + 1 - (i + 1) : t[x] = a[((i + 1) - 1) + x]
    BY <1>2, <2>1
  <2>4. one \in TextSeqs /\ Len(one) = 1 /\ one[1] = a[i]
    BY <1>1 DEF TextSeqs
  <2> HIDE DEF s, t, one
  <2>5. /\ u \in TextSeqs /\ Len(u) = Len(one) + Len(t)
        /\ (\A x \in 1 .. Len(one) : u[x] = one[x]) /\ \A x \in 1 .. Len(t) : u[Len(one) + x] = t[x]
    BY <2>3, <2>4, TextsJoin
  <2> HIDE DEF u, n
  <2> DEFINE m == n - i
  <2>6. m \in Nat /\ n + 1 - i = m + 1 /\ n + 1 - (i + 1) = m /\ 1 + m = m + 1
    BY <1>1
  <2> HIDE DEF m
  <2>7. Len(s) = m + 1 /\ Len(u) = m + 1
    BY <2>2, <2>3, <2>4, <2>5, <2>6, Zenon
  <2>8. ASSUME NEW x \in 1 .. m + 1 PROVE s[x] = u[x]
    <3>1. s[x] = a[(i - 1) + x]
      BY <2>2, <2>6, Zenon
    <3>2. CASE x = 1
      <4>1. u[1] = one[1]
        BY <2>4, <2>5
      <4> QED
        BY <2>1, <2>4, <3>1, <3>2, <4>1, Zenon
    <3>3. CASE x # 1
      <4> DEFINE y == x - 1
      <4>1. y \in 1 .. m /\ 1 + y = x /\ ((i + 1) - 1) + y = (i - 1) + x
        BY <2>6, <3>3
      <4> HIDE DEF y
      <4>2. u[1 + y] = t[y] /\ t[y] = a[((i + 1) - 1) + y]
        BY <2>3, <2>4, <2>5, <2>6, <4>1, Zenon
      <4> QED
        BY <3>1, <4>1, <4>2, Zenon
    <3> QED
      BY <3>2, <3>3
  <2>9. s = u
    <3>1. Len(s) = Len(u) /\ \A x \in 1 .. Len(s) : s[x] = u[x]
      BY <2>7, <2>8, Zenon
    <3> QED
      BY <2>2, <2>5, <3>1, SeqEqual DEF TextSeqs
  <2> QED
    BY <2>9 DEF s, t, one, u
<1>4. SubSeq(a, n + 1, n) = << >>
  BY DEF TextSeqs
<1>5. SubSeq(a, 1, n) = a
  BY DEF TextSeqs
<1> QED
  BY <1>2, <1>3, <1>4, <1>5 DEF n

\* Along the walk the table goes down by one with every common line, and only with one.
LEMMA TableStep ==
  ASSUME NEW a \in TextSeqs, NEW b \in TextSeqs, NEW p \in Spots(a, b), NEW q \in Spots(a, b),
         NEW l, Goes(a, b, lcsTable(a, b), p, q, l)
  PROVE  lcsTable(a, b)[p] = lcsTable(a, b)[q] + (IF l.type = "ctx" THEN 1 ELSE 0)
<1> DEFINE dp == lcsTable(a, b)
           i == p[1]
           j == p[2]
           n == Len(a)
           m == Len(b)
<1>1. dp \in [Spots(a, b) -> Nat] /\ \A r \in Spots(a, b) : dp[r] = LcsAt(a, b, r, dp)
  BY LcsLoop
<1>2. /\ n \in Nat /\ m \in Nat /\ i \in 1 .. n + 1 /\ j \in 1 .. m + 1
      /\ i <= n => <<i + 1, j>> \in Spots(a, b)
      /\ j <= m => <<i, j + 1>> \in Spots(a, b)
  BY SpotsMean
<1> HIDE DEF dp
<1>3. dp[p] = IF i > n \/ j > m THEN 0
              ELSE IF a[i] = b[j] THEN dp[<<i + 1, j + 1>>] + 1
              ELSE GreaterOf(dp[<<i + 1, j>>], dp[<<i, j + 1>>])
  BY <1>1 DEF LcsAt
<1>4. dp[q] \in Nat
  BY <1>1
<1>5. \/ i <= n /\ j <= m /\ a[i] = b[j] /\ q = <<i + 1, j + 1>> /\ l = Ctx(a[i])
      \/ /\ j <= m /\ (i > n \/ (a[i] # b[j] /\ dp[<<i, j + 1>>] >= dp[<<i + 1, j>>]))
         /\ q = <<i, j + 1>> /\ l = Add(b[j])
      \/ /\ i <= n /\ (j > m \/ (a[i] # b[j] /\ ~ dp[<<i, j + 1>>] >= dp[<<i + 1, j>>]))
         /\ q = <<i + 1, j>> /\ l = Del(a[i])
  BY DEF Goes, dp
<1>6. \A c : Ctx(c).type = "ctx" /\ Del(c).type = "del" /\ Add(c).type = "add"
  BY DEF Ctx, Del, Add
<1>7. q[1] > n \/ q[2] > m => dp[q] = 0
  BY <1>1 DEF LcsAt
<1> HIDE DEF n, m, i, j
<1>8. CASE i <= n /\ j <= m /\ a[i] = b[j] /\ q = <<i + 1, j + 1>> /\ l = Ctx(a[i])
  <2>1. dp[p] = dp[q] + 1 /\ l.type = "ctx"
    BY <1>2, <1>3, <1>6, <1>8
  <2> QED
    BY <2>1 DEF dp
<1>9. CASE /\ j <= m /\ (i > n \/ (a[i] # b[j] /\ dp[<<i, j + 1>>] >= dp[<<i + 1, j>>]))
           /\ q = <<i, j + 1>> /\ l = Add(b[j])
  <2>1. l.type # "ctx"
    BY <1>6, <1>9
  <2>2. CASE i > n
    <3>1. dp[p] = 0 /\ dp[q] = 0
      BY <1>3, <1>7, <1>9, <2>2
    <3> QED
      BY <2>1, <3>1 DEF dp
  <2>3. CASE ~ i > n
    <3>1. i <= n /\ ~ (i > n \/ j > m) /\ a[i] # b[j] /\ dp[q] >= dp[<<i + 1, j>>]
      BY <1>2, <1>9, <2>3
    <3>2. dp[<<i + 1, j>>] \in Nat
      BY <1>1, <1>2, <3>1
    <3>3. dp[p] = GreaterOf(dp[<<i + 1, j>>], dp[q])
      BY <1>3, <1>9, <3>1
    <3>4. dp[p] = dp[q]
      BY <1>4, <3>1, <3>2, <3>3 DEF GreaterOf
    <3> QED
      BY <1>4, <2>1, <3>4 DEF dp
  <2> QED
    BY <2>2, <2>3
<1>10. CASE /\ i <= n /\ (j > m \/ (a[i] # b[j] /\ ~ dp[<<i, j + 1>>] >= dp[<<i + 1, j>>]))
            /\ q = <<i + 1, j>> /\ l = Del(a[i])
  <2>1. l.type # "ctx"
    BY <1>6, <1>10
  <2>2. CASE j > m
    <3>1. dp[p] = 0 /\ dp[q] = 0
      BY <1>3, <1>7, <1>10, <2>2
    <3> QED
      BY <2>1, <3>1 DEF dp
  <2>3. CASE ~ j > m
    <3>1. j <= m /\ ~ (i > n \/ j > m) /\ a[i] # b[j] /\ ~ dp[<<i, j + 1>>] >= dp[q]
      BY <1>2, <1>10, <2>3
    <3>2. dp[<<i, j + 1>>] \in Nat
      BY <1>1, <1>2, <3>1
    <3>3. dp[p] = GreaterOf(dp[q], dp[<<i, j + 1>>])
      BY <1>3, <1>10, <3>1
    <3>4. dp[p] = dp[q]
      BY <1>4, <3>1, <3>2, <3>3 DEF GreaterOf
    <3> QED
      BY <1>4, <2>1, <3>4 DEF dp
  <2> QED
    BY <2>2, <2>3
<1> QED
  BY <1>5, <1>8, <1>9, <1>10

\* What the walk shows from a place on: the rest of either body, and of the lines of both as
\* many as the table says.
Tells(a, b, p, lines) ==
  /\ lines \in DiffLines
  /\ Side(lines, {"ctx", "del"}) = SubSeq(a, p[1], Len(a))
  /\ Side(lines, {"ctx", "add"}) = SubSeq(b, p[2], Len(b))
  /\ Len(Side(lines, {"ctx"})) = lcsTable(a, b)[p]

\* What the rest of a walk tells, its step before tells of one line more.
LEMMA TellsFurther ==
  ASSUME NEW a \in TextSeqs, NEW b \in TextSeqs, NEW p \in Spots(a, b), NEW q \in Spots(a, b),
         NEW l \in LineSet, Goes(a, b, lcsTable(a, b), p, q, l),
         NEW lines, Tells(a, b, q, lines)
  PROVE  Tells(a, b, p, <<l>> \o lines)
<1> DEFINE i == p[1]
           j == p[2]
           n == Len(a)
           m == Len(b)
           all == <<l>> \o lines
           first == {"ctx", "del"}
           second == {"ctx", "add"}
           both == {"ctx"}
           ra(k) == SubSeq(a, k, n)
           rb(k) == SubSeq(b, k, m)
<1>1. n \in Nat /\ m \in Nat /\ i \in 1 .. n + 1 /\ j \in 1 .. m + 1
  BY SpotsMean
<1>2. lines \in DiffLines
  BY DEF Tells
<1>3. \A types : /\ all \in DiffLines /\ Side(lines, types) \in Columns
                 /\ Side(all, types) = Shown(l, types) \o Side(lines, types)
  <2> TAKE types
  <2>1. <<l>> \in DiffLines /\ Side(<<l>>, types) = Shown(l, types)
    BY SideOne
  <2> DEFINE one == <<l>>
  <2> HIDE DEF one
  <2>2. one \in DiffLines /\ Side(one, types) = Shown(l, types)
    BY <2>1 DEF one
  <2>3. /\ one \o lines \in DiffLines
        /\ Side(one \o lines, types) = Side(one, types) \o Side(lines, types)
    BY <1>2, <2>2, SideJoin
  <2>4. Side(lines, types) \in Columns
    BY <1>2, SideJoin
  <2> QED
    BY <2>2, <2>3, <2>4 DEF one
<1>4. /\ Side(lines, first) = ra(q[1]) /\ Side(lines, second) = rb(q[2])
      /\ Len(Side(lines, both)) = lcsTable(a, b)[q]
  BY DEF Tells
<1>5. lcsTable(a, b)[p] = lcsTable(a, b)[q] + (IF l.type = "ctx" THEN 1 ELSE 0)
  BY TableStep
<1>6. Len(Side(all, both)) = lcsTable(a, b)[p]
  <2> DEFINE s == Side(lines, both)
             k == lcsTable(a, b)[q]
  <2>1. s \in Columns /\ Side(all, both) = Shown(l, both) \o s
    BY <1>3
  <2>2. Len(s) = k
    BY <1>4
  <2>3. k \in Nat
    BY LcsLoop
  <2>4. Shown(l, both) \in Columns
    BY ShownTyped
  <2>5. Len(Shown(l, both)) = IF l.type = "ctx" THEN 1 ELSE 0
    BY DEF Shown
  <2> HIDE DEF s, k
  <2>6. Len(Shown(l, both) \o s) = Len(Shown(l, both)) + Len(s)
    BY <2>1, <2>4 DEF Columns
  <2> DEFINE x == Len(Shown(l, both))
             y == Len(Side(all, both))
  <2>7. y = x + k
    BY <2>1, <2>2, <2>6, Zenon
  <2> HIDE DEF x, y
  <2>8. x + k = k + x /\ x = IF l.type = "ctx" THEN 1 ELSE 0
    BY <2>3, <2>5 DEF x
  <2>9. y = lcsTable(a, b)[p]
    BY <1>5, <2>7, <2>8 DEF k
  <2> QED
    BY <2>9 DEF y
<1>7. /\ \A k \in 1 .. n : ra(k) = <<a[k]>> \o ra(k + 1)
      /\ \A k \in 1 .. m : rb(k) = <<b[k]>> \o rb(k + 1)
      /\ \A k \in 1 .. n + 1 : << >> \o ra(k) = ra(k)
      /\ \A k \in 1 .. m + 1 : << >> \o rb(k) = rb(k)
  <2>1. \A s \in TextSeqs : << >> \o s = s
    BY SeqJoins DEF TextSeqs, Joins
  <2>2. (\A k \in 1 .. n + 1 : ra(k) \in TextSeqs) /\ \A k \in 1 .. m + 1 : rb(k) \in TextSeqs
    BY RestOfTexts
  <2>3. /\ \A k \in 1 .. n : ra(k) = <<a[k]>> \o ra(k + 1)
        /\ \A k \in 1 .. m : rb(k) = <<b[k]>> \o rb(k + 1)
    BY RestOfTexts
  <2> QED
    BY <2>1, <2>2, <2>3
<1>8. \/ i <= n /\ j <= m /\ a[i] = b[j] /\ q = <<i + 1, j + 1>> /\ l = Ctx(a[i])
      \/ j <= m /\ q = <<i, j + 1>> /\ l = Add(b[j])
      \/ i <= n /\ q = <<i + 1, j>> /\ l = Del(a[i])
  BY DEF Goes
<1> HIDE DEF all, ra, rb, n, m, i, j
<1>9. Side(all, first) = ra(i) /\ Side(all, second) = rb(j)
  <2>1. CASE i <= n /\ j <= m /\ a[i] = b[j] /\ q = <<i + 1, j + 1>> /\ l = Ctx(a[i])
    <3>1. Shown(l, first) = <<a[i]>> /\ Shown(l, second) = <<b[j]>>
      BY <2>1 DEF Shown, Ctx
    <3>2. i \in 1 .. n /\ j \in 1 .. m /\ q[1] = i + 1 /\ q[2] = j + 1
      BY <1>1, <2>1
    <3>3. /\ Side(all, first) = <<a[i]>> \o ra(i + 1)
          /\ Side(all, second) = <<b[j]>> \o rb(j + 1)
      BY <1>3, <1>4, <3>1, <3>2, Zenon
    <3> QED
      BY <1>7, <3>2, <3>3, Zenon
  <2>2. CASE j <= m /\ q = <<i, j + 1>> /\ l = Add(b[j])
    <3>1. Shown(l, first) = << >> /\ Shown(l, second) = <<b[j]>>
      BY <2>2 DEF Shown, Add
    <3>2. i \in 1 .. n + 1 /\ j \in 1 .. m /\ q[1] = i /\ q[2] = j + 1
      BY <1>1, <2>2
    <3> QED
      BY <1>3, <1>4, <1>7, <3>1, <3>2, Zenon
  <2>3. CASE i <= n /\ q = <<i + 1, j>> /\ l = Del(a[i])
    <3>1. Shown(l, first) = <<a[i]>> /\ Shown(l, second) = << >>
      BY <2>3 DEF Shown, Del
    <3>2. i \in 1 .. n /\ j \in 1 .. m + 1 /\ q[1] = i + 1 /\ q[2] = j
      BY <1>1, <2>3
    <3> QED
      BY <1>3, <1>4, <1>7, <3>1, <3>2, Zenon
  <2> QED
    BY <1>8, <2>1, <2>2, <2>3
<1>10. all \in DiffLines
  BY <1>3
<1> QED
  BY <1>6, <1>9, <1>10 DEF Tells, all, ra, rb, i, j, n, m

\* The whole walk tells both bodies and shows as many common lines as the table says.
LEMMA WalkTells ==
  ASSUME NEW a \in TextSeqs, NEW b \in TextSeqs
  PROVE  Tells(a, b, <<1, 1>>, simpleDiff(a, b))
<1> DEFINE dp == lcsTable(a, b)
<1>1. PICK h : /\ simpleDiff(a, b) = h[<<1, 1>>]
               /\ \A p \in Spots(a, b) : h[p] = WalkAt(a, b, dp, p, h)
  BY WalkLoop
<1> DEFINE S == {p \in Spots(a, b) : Tells(a, b, p, h[p])}
<1>2. ASSUME NEW p \in Spots(a, b),
             \A q \in Spots(a, b) : Left(a, b, q) < Left(a, b, p) => q \in S
      PROVE  p \in S
  <2>1. h[p] = WalkAt(a, b, dp, p, h)
    BY <1>1
  <2>2. CASE Arrived(a, b, dp, p)
    <3>1. h[p] = << >> /\ p = <<Len(a) + 1, Len(b) + 1>>
      BY <2>1, <2>2 DEF Arrived
    <3>2. << >> \in DiffLines /\ \A types : Side(<< >>, types) = << >>
      <4>1. Empty \in Contents
        BY DiffAssumption DEF Contents
      <4>2. Ctx(Empty) \in LineSet
        BY <4>1, LinesTyped
      <4> QED
        BY <4>2, SideOne
    <3>3. SubSeq(a, Len(a) + 1, Len(a)) = << >> /\ SubSeq(b, Len(b) + 1, Len(b)) = << >>
      BY RestOfTexts
    <3>4. p[1] = Len(a) + 1 /\ p[2] = Len(b) + 1
      BY <3>1
    <3>5. lcsTable(a, b)[p] = 0
      <4>1. lcsTable(a, b)[p] = LcsAt(a, b, p, lcsTable(a, b))
        BY LcsLoop
      <4>2. p[1] > Len(a)
        BY <3>4, SpotsMean
      <4> QED
        BY <4>1, <4>2 DEF LcsAt
    <3>6. Len(<< >>) = 0
      OBVIOUS
    <3>7. Tells(a, b, p, h[p])
      BY <3>1, <3>2, <3>3, <3>4, <3>5, <3>6, Zenon DEF Tells
    <3> QED
      BY <3>7
  <2>3. CASE \E q \in Spots(a, b), l \in LineSet : GoesOn(a, b, dp, p, q, l)
    <3>1. PICK q \in Spots(a, b), l \in LineSet :
            /\ Left(a, b, q) < Left(a, b, p) /\ Goes(a, b, dp, p, q, l)
            /\ \A walk : WalkAt(a, b, dp, p, walk) = <<l>> \o walk[q]
      BY <2>3 DEF GoesOn
    <3>2. Tells(a, b, q, h[q])
      BY <1>2, <3>1
    <3>3. h[p] = <<l>> \o h[q]
      BY <2>1, <3>1, Zenon
    <3>4. Tells(a, b, p, <<l>> \o h[q])
      BY <3>1, <3>2, TellsFurther
    <3> QED
      BY <3>3, <3>4
  <2> QED
    BY <2>2, <2>3, WalkStep
<1> HIDE DEF S
<1>3. \A p \in Spots(a, b) : p \in S
  BY <1>2, FromTheEnd
<1>4. <<1, 1>> \in Spots(a, b)
  BY DEF Spots, TextSeqs
<1> QED
  BY <1>1, <1>3, <1>4 DEF S

\* There is a common subsequence of k lines from a place on: f and g say where they are.
Matches(a, b, f, g, k) ==
  Rising(f, k) /\ Rising(g, k) /\ \A x \in 1 .. k : a[f[x]] = b[g[x]]
CommonFrom(a, b, i, j, k) ==
  \E f \in [1 .. k -> i .. Len(a)] : \E g \in [1 .. k -> j .. Len(b)] : Matches(a, b, f, g, k)

\* A common subsequence of less is one of more; the empty one is everywhere.
LEMMA CommonShorter ==
  ASSUME NEW a \in TextSeqs, NEW b \in TextSeqs, NEW i \in Nat, NEW j \in Nat, NEW k \in Nat
  PROVE  /\ CommonFrom(a, b, i + 1, j, k) => CommonFrom(a, b, i, j, k)
         /\ CommonFrom(a, b, i, j + 1, k) => CommonFrom(a, b, i, j, k)
         /\ CommonFrom(a, b, i, j, 0)
<1> DEFINE n == Len(a)
           m == Len(b)
<1>1. n \in Nat /\ m \in Nat
  BY DEF TextSeqs
<1> HIDE DEF n, m
<1>2. i + 1 .. n \subseteq i .. n /\ j + 1 .. m \subseteq j .. m
  BY <1>1
<1>3. ASSUME NEW I1, NEW I2, NEW J1, NEW J2, I1 \subseteq I2, J1 \subseteq J2,
             NEW f \in [1 .. k -> I1], NEW g \in [1 .. k -> J1]
      PROVE  f \in [1 .. k -> I2] /\ g \in [1 .. k -> J2]
  BY <1>3
<1>4. CommonFrom(a, b, i + 1, j, k) => CommonFrom(a, b, i, j, k)
  BY <1>2 DEF CommonFrom, n, m
<1>5. CommonFrom(a, b, i, j + 1, k) => CommonFrom(a, b, i, j, k)
  BY <1>2 DEF CommonFrom, n, m
<1>6. CommonFrom(a, b, i, j, 0)
  <2> DEFINE f == [x \in 1 .. 0 |-> 0]
  <2>1. f \in [1 .. 0 -> i .. Len(a)] /\ f \in [1 .. 0 -> j .. Len(b)]
    OBVIOUS
  <2>2. Matches(a, b, f, f, 0)
    BY DEF Matches, Rising
  <2> QED
    BY <2>1, <2>2 DEF CommonFrom
<1> QED
  BY <1>4, <1>5, <1>6

\* A common subsequence without its first line, and with one more in front of it.
LEMMA CommonLess ==
  ASSUME NEW a \in TextSeqs, NEW b \in TextSeqs, NEW i \in Nat, NEW j \in Nat, NEW k \in Nat,
         k >= 1, CommonFrom(a, b, i, j, k)
  PROVE  /\ i <= Len(a) /\ j <= Len(b)
         /\ CommonFrom(a, b, i + 1, j + 1, k - 1)
         /\ a[i] # b[j] => CommonFrom(a, b, i + 1, j, k) \/ CommonFrom(a, b, i, j + 1, k)
<1> DEFINE n == Len(a)
           m == Len(b)
<1>1. n \in Nat /\ m \in Nat
  BY DEF TextSeqs
<1>2. PICK f \in [1 .. k -> i .. n], g \in [1 .. k -> j .. m] : Matches(a, b, f, g, k)
  BY DEF CommonFrom
<1> HIDE DEF n, m
<1>3. /\ \A x, y \in 1 .. k : x < y => f[x] < f[y] /\ g[x] < g[y]
      /\ \A x \in 1 .. k : a[f[x]] = b[g[x]]
  BY <1>2 DEF Matches, Rising
<1>4. (\A x \in 1 .. k : f[x] \in i .. n /\ g[x] \in j .. m) /\ 1 \in 1 .. k
  BY <1>2
<1>5. i <= n /\ j <= m
  BY <1>1, <1>4
<1>6. CommonFrom(a, b, i + 1, j + 1, k - 1)
  <2> DEFINE f1 == [x \in 1 .. k - 1 |-> f[x + 1]]
             g1 == [x \in 1 .. k - 1 |-> g[x + 1]]
  <2>1. ASSUME NEW x \in 1 .. k - 1
        PROVE  x + 1 \in 1 .. k /\ f[x + 1] \in i + 1 .. n /\ g[x + 1] \in j + 1 .. m
    <3>1. x + 1 \in 1 .. k /\ 1 < x + 1
      OBVIOUS
    <3>2. f[1] < f[x + 1] /\ g[1] < g[x + 1]
      BY <1>3, <1>4, <3>1
    <3>3. f[1] \in i .. n /\ g[1] \in j .. m /\ f[x + 1] \in i .. n /\ g[x + 1] \in j .. m
      BY <1>4, <3>1
    <3> QED
      BY <1>1, <3>1, <3>2, <3>3
  <2>2. f1 \in [1 .. k - 1 -> i + 1 .. n] /\ g1 \in [1 .. k - 1 -> j + 1 .. m]
    BY <2>1
  <2>3. \A x, y \in 1 .. k - 1 : x < y => f1[x] < f1[y] /\ g1[x] < g1[y]
    <3> TAKE x, y \in 1 .. k - 1
    <3>1. x + 1 \in 1 .. k /\ y + 1 \in 1 .. k /\ (x < y => x + 1 < y + 1)
      OBVIOUS
    <3> QED
      BY <1>3, <3>1
  <2>4. \A x \in 1 .. k - 1 : a[f1[x]] = b[g1[x]]
    BY <1>3, <2>1
  <2> HIDE DEF f1, g1
  <2>5. Matches(a, b, f1, g1, k - 1)
    BY <2>3, <2>4 DEF Matches, Rising
  <2> QED
    BY <2>2, <2>5 DEF CommonFrom, n, m
<1>7. ASSUME a[i] # b[j]
      PROVE  CommonFrom(a, b, i + 1, j, k) \/ CommonFrom(a, b, i, j + 1, k)
  <2>1. a[f[1]] = b[g[1]] /\ f[1] \in i .. n /\ g[1] \in j .. m
    BY <1>3, <1>4
  <2>2. f[1] # i \/ g[1] # j
    BY <1>7, <2>1
  <2>3. CASE f[1] # i
    <3>1. ASSUME NEW x \in 1 .. k PROVE f[x] \in i + 1 .. n
      <4>1. x = 1 \/ f[1] < f[x]
        BY <1>3, <1>4
      <4>2. f[x] \in i .. n
        BY <1>4
      <4> QED
        BY <1>1, <2>1, <2>3, <4>1, <4>2
    <3>2. f \in [1 .. k -> i + 1 .. n]
      BY <3>1
    <3> QED
      BY <1>2, <3>2 DEF CommonFrom, n, m
  <2>4. CASE g[1] # j
    <3>1. ASSUME NEW x \in 1 .. k PROVE g[x] \in j + 1 .. m
      <4>1. x = 1 \/ g[1] < g[x]
        BY <1>3, <1>4
      <4>2. g[x] \in j .. m
        BY <1>4
      <4> QED
        BY <1>1, <2>1, <2>4, <4>1, <4>2
    <3>2. g \in [1 .. k -> j + 1 .. m]
      BY <3>1
    <3> QED
      BY <1>2, <3>2 DEF CommonFrom, n, m
  <2> QED
    BY <2>2, <2>3, <2>4
<1> QED
  BY <1>5, <1>6, <1>7 DEF n, m

\* A common line in front makes a common subsequence longer by one.
LEMMA CommonMore ==
  ASSUME NEW a \in TextSeqs, NEW b \in TextSeqs, NEW i \in 1 .. Len(a), NEW j \in 1 .. Len(b),
         NEW k \in Nat, a[i] = b[j], CommonFrom(a, b, i + 1, j + 1, k)
  PROVE  CommonFrom(a, b, i, j, k + 1)
<1> DEFINE n == Len(a)
           m == Len(b)
<1>1. n \in Nat /\ m \in Nat
  BY DEF TextSeqs
<1>2. PICK f \in [1 .. k -> i + 1 .. n], g \in [1 .. k -> j + 1 .. m] : Matches(a, b, f, g, k)
  BY DEF CommonFrom
<1> HIDE DEF n, m
<1>3. /\ \A x, y \in 1 .. k : x < y => f[x] < f[y] /\ g[x] < g[y]
      /\ \A x \in 1 .. k : a[f[x]] = b[g[x]]
  BY <1>2 DEF Matches, Rising
<1>4. i \in 1 .. n /\ j \in 1 .. m
  BY DEF n, m
<1> DEFINE f1 == [x \in 1 .. k + 1 |-> IF x = 1 THEN i ELSE f[x - 1]]
           g1 == [x \in 1 .. k + 1 |-> IF x = 1 THEN j ELSE g[x - 1]]
<1>5. \A x \in 1 .. k + 1 : x = 1 \/ (x - 1 \in 1 .. k /\ f[x - 1] \in i + 1 .. n
                                      /\ g[x - 1] \in j + 1 .. m)
  OBVIOUS
<1>6. f1 \in [1 .. k + 1 -> i .. n] /\ g1 \in [1 .. k + 1 -> j .. m]
  <2>1. ASSUME NEW x \in 1 .. k + 1
        PROVE  (IF x = 1 THEN i ELSE f[x - 1]) \in i .. n /\ (IF x = 1 THEN j ELSE g[x - 1]) \in j .. m
    BY <1>1, <1>4, <1>5
  <2> QED
    BY <2>1
<1>7. ASSUME NEW x \in 1 .. k + 1, NEW y \in 1 .. k + 1, x < y
      PROVE  f1[x] < f1[y] /\ g1[x] < g1[y]
  <2>1. y - 1 \in 1 .. k /\ y # 1
    BY <1>7
  <2>2. f1[y] = f[y - 1] /\ g1[y] = g[y - 1]
    BY <2>1
  <2>3. CASE x = 1
    <3>1. f1[x] = i /\ g1[x] = j
      BY <2>3
    <3>2. f[y - 1] \in i + 1 .. n /\ g[y - 1] \in j + 1 .. m
      BY <2>1
    <3>3. i < f[y - 1] /\ j < g[y - 1]
      <4> DEFINE u == f[y - 1]
                 v == g[y - 1]
      <4>1. u \in i + 1 .. n /\ v \in j + 1 .. m
        BY <3>2
      <4> HIDE DEF u, v
      <4>2. i \in Int /\ j \in Int /\ n \in Int /\ m \in Int
        BY <1>1, <1>4
      <4>3. i < u /\ j < v
        BY <4>1, <4>2
      <4> QED
        BY <4>3 DEF u, v
    <3> QED
      BY <2>2, <3>1, <3>3, Zenon
  <2>4. CASE x # 1
    <3>1. x - 1 \in 1 .. k /\ x - 1 < y - 1 /\ f1[x] = f[x - 1] /\ g1[x] = g[x - 1]
      BY <1>7, <2>4
    <3> QED
      <4>1. f[x - 1] < f[y - 1] /\ g[x - 1] < g[y - 1]
        BY <1>3, <2>1, <3>1
      <4> QED
        BY <2>2, <3>1, <4>1, Zenon
  <2> QED
    BY <2>3, <2>4
<1>8. ASSUME NEW x \in 1 .. k + 1 PROVE a[f1[x]] = b[g1[x]]
  <2>1. CASE x = 1
    BY <2>1
  <2>2. CASE x # 1
    <3>1. x - 1 \in 1 .. k /\ f1[x] = f[x - 1] /\ g1[x] = g[x - 1]
      BY <2>2
    <3> QED
      BY <1>3, <3>1
  <2> QED
    BY <2>1, <2>2
<1> HIDE DEF f1, g1
<1>9. Matches(a, b, f1, g1, k + 1)
  BY <1>7, <1>8 DEF Matches, Rising
<1> QED
  BY <1>6, <1>9 DEF CommonFrom, n, m

\* The table holds the lengths of the longest common subsequences.
LEMMA TableMeans ==
  ASSUME NEW a \in TextSeqs, NEW b \in TextSeqs, NEW p \in Spots(a, b)
  PROVE  /\ lcsTable(a, b)[p] \in 0 .. Len(a) + 1 - p[1]
         /\ CommonFrom(a, b, p[1], p[2], lcsTable(a, b)[p])
         /\ \A k \in Nat : CommonFrom(a, b, p[1], p[2], k) => k <= lcsTable(a, b)[p]
<1> DEFINE D == Spots(a, b)
           dp == lcsTable(a, b)
           n == Len(a)
           m == Len(b)
           Com(i, j, k) == CommonFrom(a, b, i, j, k)
           Longest(r) == /\ dp[r] \in 0 .. n + 1 - r[1] /\ Com(r[1], r[2], dp[r])
                         /\ \A k \in Nat : Com(r[1], r[2], k) => k <= dp[r]
           S == {r \in D : Longest(r)}
<1>1. n \in Nat /\ m \in Nat
  BY DEF TextSeqs
<1>2. dp \in [D -> Nat] /\ \A r \in D : dp[r] = LcsAt(a, b, r, dp)
  BY LcsLoop
<1>3. ASSUME NEW r \in D
      PROVE  LET i == r[1]
                 j == r[2]
             IN  /\ i \in 1 .. n + 1 /\ j \in 1 .. m + 1
                 /\ i <= n /\ j <= m =>
                      /\ <<i + 1, j>> \in D /\ <<i, j + 1>> \in D /\ <<i + 1, j + 1>> \in D
                      /\ Left(a, b, <<i + 1, j>>) < Left(a, b, r)
                      /\ Left(a, b, <<i, j + 1>>) < Left(a, b, r)
                      /\ Left(a, b, <<i + 1, j + 1>>) < Left(a, b, r)
  BY SpotsMean
<1>4. ASSUME NEW i \in Nat, NEW j \in Nat, NEW k \in Nat
      PROVE  /\ Com(i + 1, j, k) => Com(i, j, k)
             /\ Com(i, j + 1, k) => Com(i, j, k)
             /\ Com(i, j, 0)
  BY CommonShorter
<1>5. ASSUME NEW i \in Nat, NEW j \in Nat, NEW k \in Nat, k >= 1, Com(i, j, k)
      PROVE  /\ i <= n /\ j <= m /\ Com(i + 1, j + 1, k - 1)
             /\ a[i] # b[j] => Com(i + 1, j, k) \/ Com(i, j + 1, k)
  BY <1>5, CommonLess
<1>6. ASSUME NEW i \in 1 .. n, NEW j \in 1 .. m, NEW k \in Nat, a[i] = b[j], Com(i + 1, j + 1, k)
      PROVE  Com(i, j, k + 1)
  BY <1>6, CommonMore
<1> HIDE DEF D, dp, n, m, Com
<1>7. ASSUME NEW r \in D, \A q \in D : Left(a, b, q) < Left(a, b, r) => q \in S
      PROVE  r \in S
  <2> DEFINE i == r[1]
             j == r[2]
             x == dp[r]
             down == dp[<<i + 1, j>>]
             right == dp[<<i, j + 1>>]
             over == dp[<<i + 1, j + 1>>]
  <2>1. i \in 1 .. n + 1 /\ j \in 1 .. m + 1 /\ i \in Nat /\ j \in Nat
    <3>1. i \in 1 .. n + 1 /\ j \in 1 .. m + 1
      BY <1>3, Zenon
    <3> HIDE DEF i, j
    <3> QED
      BY <1>1, <3>1
  <2>2. x = IF i > n \/ j > m THEN 0
            ELSE IF a[i] = b[j] THEN over + 1
            ELSE GreaterOf(down, right)
    BY <1>2 DEF LcsAt, n, m
  <2>3. ASSUME i <= n, j <= m
        PROVE  /\ down \in 0 .. n + 1 - (i + 1) /\ Com(i + 1, j, down)
               /\ \A k \in Nat : Com(i + 1, j, k) => k <= down
               /\ right \in 0 .. n + 1 - i /\ Com(i, j + 1, right)
               /\ \A k \in Nat : Com(i, j + 1, k) => k <= right
               /\ over \in 0 .. n + 1 - (i + 1) /\ Com(i + 1, j + 1, over)
               /\ \A k \in Nat : Com(i + 1, j + 1, k) => k <= over
    <3>1. Longest(<<i + 1, j>>) /\ Longest(<<i, j + 1>>) /\ Longest(<<i + 1, j + 1>>)
      <4> HIDE DEF Longest
      <4> QED
        BY <1>3, <1>7, <2>3
    <3> QED
      BY <3>1
  <2> HIDE DEF x, down, right, over, i, j
  <2>4. CASE i > n \/ j > m
    <3>1. x = 0
      BY <2>2, <2>4
    <3>2. ASSUME NEW k \in Nat, Com(i, j, k) PROVE k <= 0
      <4>1. ~ k >= 1
        BY <1>1, <1>5, <2>1, <2>4, <3>2
      <4> QED
        BY <4>1
    <3>3. Com(i, j, 0) /\ 0 \in 0 .. n + 1 - i
      BY <1>1, <1>4, <2>1
    <3> QED
      BY <3>1, <3>2, <3>3 DEF x, i, j
  <2>5. CASE i <= n /\ j <= m /\ a[i] = b[j]
    <3>1. x = over + 1
      BY <1>1, <2>1, <2>2, <2>5
    <3>2. /\ over \in 0 .. n + 1 - (i + 1) /\ Com(i + 1, j + 1, over)
          /\ \A k \in Nat : Com(i + 1, j + 1, k) => k <= over
      BY <2>3, <2>5
    <3>3. over \in Nat /\ x \in 0 .. n + 1 - i /\ i \in 1 .. n /\ j \in 1 .. m
      BY <1>1, <2>1, <2>5, <3>1, <3>2
    <3>4. Com(i, j, x)
      BY <1>6, <2>5, <3>1, <3>2, <3>3
    <3>5. ASSUME NEW k \in Nat, Com(i, j, k) PROVE k <= x
      <4>1. CASE k >= 1
        <5>1. Com(i + 1, j + 1, k - 1) /\ k - 1 \in Nat
          BY <1>5, <2>1, <3>5, <4>1
        <5>2. k - 1 <= over
          BY <3>2, <5>1
        <5> QED
          BY <3>1, <3>3, <5>2
      <4>2. CASE k = 0
        BY <1>1, <3>3, <4>2
      <4> QED
        BY <4>1, <4>2
    <3> QED
      BY <3>3, <3>4, <3>5 DEF x, i, j
  <2>6. CASE i <= n /\ j <= m /\ a[i] # b[j]
    <3>1. x = GreaterOf(down, right)
      BY <1>1, <2>1, <2>2, <2>6
    <3>2. /\ down \in 0 .. n + 1 - (i + 1) /\ Com(i + 1, j, down)
          /\ \A k \in Nat : Com(i + 1, j, k) => k <= down
          /\ right \in 0 .. n + 1 - i /\ Com(i, j + 1, right)
          /\ \A k \in Nat : Com(i, j + 1, k) => k <= right
      BY <2>3, <2>6
    <3>3. down \in Nat /\ right \in Nat /\ x \in 0 .. n + 1 - i /\ down <= x /\ right <= x
          /\ (x = down \/ x = right)
      BY <1>1, <2>1, <2>6, <3>1, <3>2 DEF GreaterOf
    <3>4. Com(i, j, x)
      <4>1. Com(i, j, down) /\ Com(i, j, right)
        BY <1>4, <2>1, <3>2, <3>3
      <4> QED
        BY <3>3, <4>1, Zenon
    <3>5. ASSUME NEW k \in Nat, Com(i, j, k) PROVE k <= x
      <4>1. CASE k >= 1
        <5>1. Com(i + 1, j, k) \/ Com(i, j + 1, k)
          BY <1>5, <2>1, <2>6, <3>5, <4>1
        <5>2. k <= down \/ k <= right
          BY <3>2, <5>1
        <5> QED
          BY <1>1, <3>3, <5>2
      <4>2. CASE k = 0
        BY <1>1, <3>3, <4>2
      <4> QED
        BY <4>1, <4>2
    <3> QED
      BY <3>3, <3>4, <3>5 DEF x, i, j
  <2> QED
    BY <1>1, <2>1, <2>4, <2>5, <2>6
<1>8. \A r \in D : r \in S
  <2> HIDE DEF S
  <2> QED
    BY <1>7, FromTheEnd DEF D
<1>9. Longest(p)
  BY <1>8 DEF D
<1> QED
  BY <1>9 DEF dp, n, Com

\* The greatest member of a set of numbers is Max.
LEMMA MaxMeans ==
  ASSUME NEW S, S \subseteq Nat, NEW x \in S, \A y \in S : y <= x
  PROVE  Max(S) = x
<1> DEFINE g == Max(S)
<1>1. \E z \in S : \A y \in S : z >= y
  OBVIOUS
<1>2. g \in S /\ \A y \in S : g >= y
  BY <1>1 DEF Max
<1> HIDE DEF g
<1>3. g = x
  BY <1>2
<1> QED
  BY <1>3 DEF g

\* The table's first entry is the length of the longest common subsequence.
LEMMA LongestCommon ==
  ASSUME NEW a \in TextSeqs, NEW b \in TextSeqs
  PROVE  lcsTable(a, b)[<<1, 1>>] = Max(CommonLengths(a, b))
<1> DEFINE x == lcsTable(a, b)[<<1, 1>>]
           n == Len(a)
           m == Len(b)
<1>1. n \in Nat /\ m \in Nat /\ DOMAIN a = 1 .. n /\ DOMAIN b = 1 .. m
  BY DEF TextSeqs
<1>2. <<1, 1>> \in Spots(a, b)
  BY <1>1 DEF Spots
<1>3. x \in 0 .. n /\ CommonFrom(a, b, 1, 1, x) /\ \A k \in Nat : CommonFrom(a, b, 1, 1, k) => k <= x
  <2> DEFINE p == <<1, 1>>
  <2>1. p[1] = 1 /\ p[2] = 1
    OBVIOUS
  <2> HIDE DEF p
  <2>2. /\ lcsTable(a, b)[p] \in 0 .. n + 1 - p[1]
        /\ CommonFrom(a, b, p[1], p[2], lcsTable(a, b)[p])
        /\ \A k \in Nat : CommonFrom(a, b, p[1], p[2], k) => k <= lcsTable(a, b)[p]
    BY <1>2, TableMeans DEF p
  <2>3. n + 1 - 1 = n
    BY <1>1
  <2> QED
    BY <2>1, <2>2, <2>3, Zenon DEF p
<1>4. \A k : k \in CommonLengths(a, b) <=> k \in 0 .. n /\ CommonFrom(a, b, 1, 1, k)
  <2>1. ASSUME NEW k, k \in 0 .. n
        PROVE  CommonFrom(a, b, 1, 1, k) <=>
                 \E f \in [1 .. k -> DOMAIN a] : \E g \in [1 .. k -> DOMAIN b] :
                   Rising(f, k) /\ Rising(g, k) /\ \A y \in 1 .. k : a[f[y]] = b[g[y]]
    <3>1. CommonFrom(a, b, 1, 1, k) <=>
            \E f \in [1 .. k -> 1 .. n] : \E g \in [1 .. k -> 1 .. m] : Matches(a, b, f, g, k)
      BY Zenon DEF CommonFrom
    <3> DEFINE A == DOMAIN a
               B == DOMAIN b
               P(f, g) == Rising(f, k) /\ Rising(g, k) /\ \A y \in 1 .. k : a[f[y]] = b[g[y]]
    <3>2. A = 1 .. n /\ B = 1 .. m
      BY <1>1
    <3>3. CommonFrom(a, b, 1, 1, k) <=>
            \E f \in [1 .. k -> 1 .. n] : \E g \in [1 .. k -> 1 .. m] : P(f, g)
      BY <3>1, Zenon DEF Matches
    <3> HIDE DEF A, B, P, n, m
    <3>4. CommonFrom(a, b, 1, 1, k) <=> \E f \in [1 .. k -> A] : \E g \in [1 .. k -> B] : P(f, g)
      BY <3>2, <3>3
    <3> QED
      BY <3>4, Zenon DEF A, B, P
  <2> QED
    BY <2>1, Zenon DEF CommonLengths
<1> HIDE DEF x, n
<1>5. CommonLengths(a, b) \subseteq Nat /\ x \in CommonLengths(a, b)
      /\ \A k \in CommonLengths(a, b) : k <= x
  BY <1>1, <1>3, <1>4
<1>6. Max(CommonLengths(a, b)) = x
  BY <1>5, MaxMeans
<1> QED
  BY <1>6 DEF x

-----------------------------------------------------------------------------
(* The diff of two bodies *)

\* Lines that are all on a side are that side.
LEMMA AllShown ==
  ASSUME NEW b \in TextSeqs, NEW lines \in DiffLines, NEW types, Len(lines) = Len(b),
         \A i \in 1 .. Len(b) : Shown(lines[i], types) = <<b[i]>>
  PROVE  Side(lines, types) = b
<1> DEFINE n == Len(b)
           p == [i \in DOMAIN lines |-> Shown(lines[i], types)]
<1>1. n \in Nat /\ Len(lines) = n /\ DOMAIN lines = 1 .. n /\ DOMAIN b = 1 .. n
      /\ \A i \in 1 .. n : b[i] \in Contents
  BY DEF DiffLines, TextSeqs, Contents
<1>2. b \in Columns
  BY DEF TextSeqs, Columns, Contents
<1>3. Side(lines, types) = FlattenSeq(p)
  BY DEF Side, Shown
<1>4. p = [i \in 1 .. n |-> <<b[i]>>]
  BY <1>1
<1> HIDE DEF p
<1>5. \A i \in 1 .. n : <<b[i]>> \in Columns
  BY <1>1 DEF Columns
<1> HIDE DEF n
<1>6. ListOf(p, Columns) /\ Len(p) = n /\ \A i \in 1 .. n : p[i] = <<b[i]>>
  BY <1>1, <1>4, <1>5 DEF ListOf
<1>7. PICK f : /\ \A i \in 0 .. Len(p) : f[i] \in Columns
               /\ f[0] = << >>
               /\ \A i \in 1 .. Len(p) : f[i] = f[i - 1] \o p[i]
               /\ FlattenSeq(p) = f[Len(p)]
  BY <1>6, ColumnsJoin, FlattenLoop
<1>8. /\ \A i \in 0 .. n : f[i] \in Columns
      /\ f[0] = << >> /\ FlattenSeq(p) = f[n]
      /\ \A i \in 1 .. n : f[i] = f[i - 1] \o <<b[i]>>
  BY <1>6, <1>7
<1> DEFINE S == {i \in 0 .. n : Len(f[i]) = i /\ \A x \in 1 .. i : f[i][x] = b[x]}
<1>9. 0 \in S
  <2>1. 0 \in 0 .. n /\ Len(<< >>) = 0 /\ 1 .. 0 = {}
    BY <1>1
  <2> QED
    BY <1>8, <2>1
<1>10. ASSUME NEW k \in 0 .. n - 1, k \in S PROVE k + 1 \in S
  <2>1. k \in Nat /\ k + 1 \in 1 .. n /\ k + 1 - 1 = k /\ k \in 0 .. n
    BY <1>1
  <2> DEFINE s == f[k]
             t == <<b[k + 1]>>
             st == f[k + 1]
  <2>2. s \in Columns /\ t \in Columns /\ Len(s) = k /\ \A x \in 1 .. k : s[x] = b[x]
    BY <1>5, <1>8, <1>10, <2>1
  <2>3. st = s \o t
    BY <1>8, <2>1
  <2>4. Len(t) = 1 /\ t[1] = b[k + 1]
    OBVIOUS
  <2> HIDE DEF s, t, st
  <2>5. /\ Len(s \o t) = Len(s) + Len(t)
        /\ \A x \in 1 .. Len(s) : (s \o t)[x] = s[x]
        /\ \A x \in 1 .. Len(t) : (s \o t)[Len(s) + x] = t[x]
    <3>1. s \in Seq(Contents) /\ t \in Seq(Contents)
      BY <2>2 DEF Columns
    <3> QED
      BY <3>1, SeqJoin
  <2>6. Len(st) = k + 1
    BY <2>1, <2>2, <2>3, <2>4, <2>5
  <2>7. ASSUME NEW x \in 1 .. k + 1 PROVE st[x] = b[x]
    <3>1. CASE x \in 1 .. k
      BY <2>2, <2>3, <2>5, <3>1
    <3>2. CASE x = k + 1
      <4>1. st[k + 1] = t[1]
        BY <2>2, <2>3, <2>4, <2>5
      <4> QED
        BY <2>4, <3>2, <4>1
    <3> QED
      BY <2>1, <3>1, <3>2
  <2>8. k + 1 \in 0 .. n /\ Len(f[k + 1]) = k + 1 /\ \A x \in 1 .. k + 1 : f[k + 1][x] = b[x]
    <3>1. k + 1 \in 0 .. n
      BY <1>1, <2>1
    <3> QED
      BY <2>6, <2>7, <3>1, Zenon DEF st
  <2> QED
    BY <2>8
<1>11. n \in S
  <2> HIDE DEF S
  <2>1. \A k \in 0 .. n : k \in S
    BY <1>1, <1>9, <1>10, UpTo
  <2> QED
    BY <1>1, <2>1
<1> DEFINE c == f[n]
<1>12. c \in Columns /\ Len(c) = n /\ \A x \in 1 .. n : c[x] = b[x]
  BY <1>1, <1>8, <1>11
<1> HIDE DEF c
<1>13. c = b
  <2>1. Len(c) = Len(b) /\ \A x \in 1 .. Len(c) : c[x] = b[x]
    BY <1>1, <1>12 DEF n
  <2> QED
    BY <1>2, <1>12, <2>1, SeqEqual DEF Columns
<1> QED
  BY <1>3, <1>8, <1>13 DEF c

\* Lines none of which is on a side.
LEMMA NoneShown ==
  ASSUME NEW lines \in DiffLines, NEW types,
         \A i \in 1 .. Len(lines) : Shown(lines[i], types) = << >>
  PROVE  Side(lines, types) = << >>
<1> DEFINE n == Len(lines)
           p == [i \in DOMAIN lines |-> Shown(lines[i], types)]
<1>1. n \in Nat /\ DOMAIN lines = 1 .. n
  BY DEF DiffLines
<1>2. Side(lines, types) = FlattenSeq(p)
  BY DEF Side, Shown
<1>3. p = [i \in 1 .. n |-> << >>]
  BY <1>1
<1> HIDE DEF p, n
<1>4. << >> \in Columns /\ << >> \o << >> = << >>
  BY DEF Columns
<1>5. ListOf(p, Columns) /\ Len(p) = n /\ \A i \in 1 .. n : p[i] = << >>
  BY <1>1, <1>3, <1>4 DEF ListOf
<1>6. PICK f : /\ \A i \in 0 .. Len(p) : f[i] \in Columns
               /\ f[0] = << >>
               /\ \A i \in 1 .. Len(p) : f[i] = f[i - 1] \o p[i]
               /\ FlattenSeq(p) = f[Len(p)]
  BY <1>5, ColumnsJoin, FlattenLoop
<1>7. f[0] = << >> /\ FlattenSeq(p) = f[n] /\ \A i \in 1 .. n : f[i] = f[i - 1] \o << >>
  BY <1>5, <1>6
<1> DEFINE S == {i \in 0 .. n : f[i] = << >>}
<1>8. 0 \in S
  BY <1>1, <1>7
<1>9. ASSUME NEW k \in 0 .. n - 1, k \in S PROVE k + 1 \in S
  <2>1. k + 1 \in 1 .. n /\ k + 1 - 1 = k /\ k + 1 \in 0 .. n
    BY <1>1
  <2> QED
    BY <1>4, <1>7, <1>9, <2>1
<1>10. n \in S
  <2> HIDE DEF S
  <2>1. \A k \in 0 .. n : k \in S
    BY <1>1, <1>8, <1>9, UpTo
  <2> QED
    BY <1>1, <2>1
<1> QED
  BY <1>2, <1>7, <1>10

\* Where nothing is changed both sides are the same.
LEMMA SameSides ==
  ASSUME NEW lines \in DiffLines, ~HasChanges(lines)
  PROVE  Side(lines, {"ctx", "del"}) = Side(lines, {"ctx", "add"})
<1>1. \A i \in DOMAIN lines : lines[i].type = "ctx"
  <2>1. ASSUME NEW i \in DOMAIN lines PROVE lines[i].type \in {"ctx", "del", "add"}
    <3>1. lines[i] \in LineSet
      BY DEF DiffLines
    <3> QED
      BY <3>1 DEF LineSet
  <2> QED
    BY <2>1 DEF HasChanges
<1> DEFINE p == [i \in DOMAIN lines |-> Shown(lines[i], {"ctx", "del"})]
           q == [i \in DOMAIN lines |-> Shown(lines[i], {"ctx", "add"})]
<1>2. p = q
  BY <1>1 DEF Shown
<1>3. Side(lines, {"ctx", "del"}) = FlattenSeq(p) /\ Side(lines, {"ctx", "add"}) = FlattenSeq(q)
  BY DEF Side, Shown
<1> QED
  BY <1>2, <1>3

\* The lines of a body, each shown in the same way.
Removed(b) == [i \in DOMAIN b |-> Del(b[i])]
Added(b) == [i \in DOMAIN b |-> Add(b[i])]

\* A body shown as removed, or as added, is on that side alone and all of it.
LEMMA WholeMeans ==
  ASSUME NEW b \in TextSeqs
  PROVE  /\ Removed(b) \in DiffLines /\ Added(b) \in DiffLines
         /\ Side(Removed(b), {"ctx", "del"}) = b /\ Side(Removed(b), {"ctx", "add"}) = << >>
         /\ Side(Added(b), {"ctx", "add"}) = b /\ Side(Added(b), {"ctx", "del"}) = << >>
<1> DEFINE n == Len(b)
           r == Removed(b)
           s == Added(b)
<1>1. n \in Nat /\ DOMAIN b = 1 .. n /\ \A i \in 1 .. n : b[i] \in Contents
  BY DEF TextSeqs, Contents
<1> HIDE DEF n
<1>2. /\ r = [i \in 1 .. n |-> Del(b[i])] /\ s = [i \in 1 .. n |-> Add(b[i])]
  BY <1>1 DEF Removed, Added
<1> HIDE DEF r, s
<1>3. \A i \in 1 .. n :
        /\ Del(b[i]) \in LineSet /\ Add(b[i]) \in LineSet
        /\ Del(b[i]).type = "del" /\ Del(b[i]).content = b[i]
        /\ Add(b[i]).type = "add" /\ Add(b[i]).content = b[i]
  BY <1>1, LinesTyped
<1>4. r \in DiffLines /\ s \in DiffLines /\ Len(r) = n /\ Len(s) = n
  BY <1>1, <1>2, <1>3 DEF DiffLines
<1>5. ASSUME NEW i \in 1 .. n
      PROVE  /\ Shown(r[i], {"ctx", "del"}) = <<b[i]>> /\ Shown(r[i], {"ctx", "add"}) = << >>
             /\ Shown(s[i], {"ctx", "add"}) = <<b[i]>> /\ Shown(s[i], {"ctx", "del"}) = << >>
  <2>1. r[i] = Del(b[i]) /\ s[i] = Add(b[i])
    BY <1>2
  <2> QED
    BY <1>3, <2>1 DEF Shown
<1>6. Side(r, {"ctx", "del"}) = b /\ Side(s, {"ctx", "add"}) = b
  BY <1>4, <1>5, AllShown DEF n
<1>7. Side(r, {"ctx", "add"}) = << >> /\ Side(s, {"ctx", "del"}) = << >>
  BY <1>4, <1>5, NoneShown
<1> QED
  BY <1>4, <1>6, <1>7 DEF r, s

\* What of a diff tells two bodies apart: without the added lines it is the first, without the
\* removed ones the second, and as many lines are common as can be.
Edits(a, b, lines) ==
  /\ lines \in DiffLines
  /\ Side(lines, {"ctx", "del"}) = a
  /\ Side(lines, {"ctx", "add"}) = b
  /\ GreaterOf(Len(a), Len(b)) <= MaxLines => Len(Side(lines, {"ctx"})) = Max(CommonLengths(a, b))

\* The lines below the heading of the diff of two different bodies.
Below(a, b) == IF GreaterOf(Len(a), Len(b)) > MaxLines THEN Removed(a) \o Added(b)
               ELSE simpleDiff(a, b)

\* Below the heading stands an edit of the first body into the second.
LEMMA BelowEdits ==
  ASSUME NEW a \in TextSeqs, NEW b \in TextSeqs
  PROVE  Edits(a, b, Below(a, b))
<1>1. MaxLines \in Nat /\ GreaterOf(Len(a), Len(b)) \in Nat
  BY DiffAssumption DEF TextSeqs, GreaterOf
<1>2. CASE GreaterOf(Len(a), Len(b)) > MaxLines
  <2> DEFINE r == Removed(a)
             s == Added(b)
  <2>1. /\ r \in DiffLines /\ s \in DiffLines
        /\ Side(r, {"ctx", "del"}) = a /\ Side(r, {"ctx", "add"}) = << >>
        /\ Side(s, {"ctx", "add"}) = b /\ Side(s, {"ctx", "del"}) = << >>
    BY WholeMeans
  <2> HIDE DEF r, s
  <2>2. r \o s \in DiffLines /\ \A types : Side(r \o s, types) = Side(r, types) \o Side(s, types)
    BY <2>1, SideJoin
  <2>3. a \o << >> = a /\ << >> \o b = b
    BY DEF TextSeqs
  <2>4. Side(r \o s, {"ctx", "del"}) = a /\ Side(r \o s, {"ctx", "add"}) = b
    BY <2>1, <2>2, <2>3, Zenon
  <2>5. ~ GreaterOf(Len(a), Len(b)) <= MaxLines
    BY <1>1, <1>2
  <2>6. Below(a, b) = r \o s
    BY <1>2, Zenon DEF Below, r, s
  <2> QED
    BY <2>2, <2>4, <2>5, <2>6, Zenon DEF Edits
<1>3. CASE ~ GreaterOf(Len(a), Len(b)) > MaxLines
  <2> DEFINE lines == simpleDiff(a, b)
             p == <<1, 1>>
  <2>1. Tells(a, b, p, lines) /\ p[1] = 1 /\ p[2] = 1
    BY WalkTells
  <2> HIDE DEF lines, p
  <2>2. SubSeq(a, 1, Len(a)) = a /\ SubSeq(b, 1, Len(b)) = b
    BY RestOfTexts, Zenon
  <2>3. lines \in DiffLines /\ Side(lines, {"ctx", "del"}) = a /\ Side(lines, {"ctx", "add"}) = b
    BY <2>1, <2>2, Zenon DEF Tells
  <2>4. Len(Side(lines, {"ctx"})) = lcsTable(a, b)[p]
    BY <2>1, Zenon DEF Tells
  <2>5. lcsTable(a, b)[p] = Max(CommonLengths(a, b))
    BY LongestCommon DEF p
  <2>6. Below(a, b) = lines
    BY <1>3, Zenon DEF Below, lines
  <2> QED
    BY <2>3, <2>4, <2>5, <2>6, Zenon DEF Edits
<1> QED
  BY <1>2, <1>3

\* A sequence behind a single element.
LEMMA TailOfJoin ==
  ASSUME NEW V, NEW x \in V, NEW s \in Seq(V)
  PROVE  Tail(<<x>> \o s) = s
<1> DEFINE t == <<x>> \o s
           n == Len(s)
<1>1. t \in Seq(V) /\ t # << >> /\ Len(t) = 1 + n /\ n \in Nat /\ \A i \in 1 .. n : t[1 + i] = s[i]
  OBVIOUS
<1> HIDE DEF t
<1>2. /\ Tail(t) \in Seq(V) /\ Len(Tail(t)) = Len(t) - 1
      /\ \A i \in 1 .. Len(Tail(t)) : Tail(t)[i] = t[i + 1]
  BY <1>1, HeadTailProperties
<1> DEFINE u == Tail(t)
<1>3. u \in Seq(V) /\ Len(u) = n /\ \A i \in 1 .. n : u[i] = s[i]
  BY <1>1, <1>2
<1> HIDE DEF u, n
<1>4. u = s
  BY <1>3, SeqEqual DEF n
<1> QED
  BY <1>4 DEF u, t

\* The diff of two bodies shows the edit, and a change just if there is one.
LEMMA BodyMeans ==
  ASSUME NEW a \in TextSeqs, NEW b \in TextSeqs
  PROVE  /\ diffBody(a, b) \in DiffLines
         /\ HasChanges(diffBody(a, b)) <=> a # b
         /\ a # b => Edits(a, b, Tail(diffBody(a, b)))
<1> DEFINE d == diffBody(a, b)
           shown == Below(a, b)
<1>1. "heading" \in Contents /\ "unchanged" \in Contents
  BY DEF Contents
<1>2. \A c \in {"heading", "unchanged"} : <<Ctx(c)>> \in DiffLines /\ ~HasChanges(<<Ctx(c)>>)
  BY <1>1, LinesTyped DEF DiffLines, HasChanges
<1>3. << >> \in DiffLines /\ ~HasChanges(<< >>)
  BY DEF DiffLines, HasChanges
<1>4. CASE a = b
  <2>1. d = << >> \/ d = <<Ctx("unchanged")>>
    BY <1>4 DEF diffBody
  <2> QED
    BY <1>2, <1>3, <1>4, <2>1
<1>5. CASE a # b
  <2>1. d = <<Ctx("heading")>> \o shown
    BY <1>5, Zenon DEF diffBody, Below, Removed, Added
  <2>2. Edits(a, b, shown)
    BY BelowEdits
  <2> HIDE DEF d, shown
  <2>3. shown \in DiffLines
    BY <2>2, Zenon DEF Edits
  <2>4. HasChanges(shown)
    <3>1. CASE ~HasChanges(shown)
      <4>1. Side(shown, {"ctx", "del"}) = Side(shown, {"ctx", "add"})
        BY <2>3, <3>1, SameSides
      <4> QED
        BY <1>5, <2>2, <4>1, Zenon DEF Edits
    <3> QED
      BY <3>1
  <2>5. d \in DiffLines /\ HasChanges(d)
    BY <1>2, <2>1, <2>3, <2>4, ChangesJoin
  <2>6. Tail(d) = shown
    <3>1. shown \in Seq(LineSet) /\ Ctx("heading") \in LineSet
      BY <1>1, <2>3, LinesTyped DEF DiffLines
    <3> HIDE DEF shown
    <3> QED
      BY <2>1, <3>1, TailOfJoin
  <2> QED
    BY <1>5, <2>2, <2>5, <2>6 DEF d
<1> QED
  BY <1>4, <1>5

-----------------------------------------------------------------------------
(* The diff of two flows *)

\* A field is shown as changed just if it is.
LEMMA FieldMeans ==
  ASSUME NEW v \in Texts, NEW w \in Texts
  PROVE  diffField(v, w) \in DiffLines /\ (HasChanges(diffField(v, w)) <=> v # w)
<1> DEFINE d == diffField(v, w)
<1>1. /\ Ctx(v) \in LineSet /\ Del(v) \in LineSet /\ Add(w) \in LineSet
      /\ Ctx(v).type = "ctx" /\ Del(v).type = "del"
  BY LinesTyped DEF Contents
<1>2. CASE v = w
  <2>1. d = <<Ctx(v)>>
    BY <1>2 DEF diffField
  <2>2. d \in DiffLines /\ ~HasChanges(d)
    <3> HIDE DEF d
    <3> QED
      BY <1>1, <2>1 DEF DiffLines, HasChanges
  <2> QED
    BY <1>2, <2>2
<1>3. CASE v # w
  <2>1. d = <<Del(v), Add(w)>>
    BY <1>3 DEF diffField
  <2>2. d \in DiffLines /\ HasChanges(d)
    <3> HIDE DEF d
    <3>1. d \in DiffLines /\ 1 \in DOMAIN d /\ d[1] = Del(v)
      BY <1>1, <2>1 DEF DiffLines
    <3> QED
      BY <1>1, <3>1 DEF HasChanges
  <2> QED
    BY <1>3, <2>2
<1> QED
  BY <1>2, <1>3

\* A diff made of several shows a change just if one of them does.
LEMMA FlattenChanges ==
  ASSUME NEW p, ListOf(p, DiffLines)
  PROVE  /\ FlattenSeq(p) \in DiffLines
         /\ HasChanges(FlattenSeq(p)) <=> \E i \in 1 .. Len(p) : HasChanges(p[i])
<1> DEFINE n == Len(p)
<1>1. n \in Nat /\ \A i \in 1 .. n : p[i] \in DiffLines
  BY DEF ListOf
<1>2. PICK f : /\ \A i \in 0 .. Len(p) : f[i] \in DiffLines
               /\ f[0] = << >>
               /\ \A i \in 1 .. Len(p) : f[i] = f[i - 1] \o p[i]
               /\ FlattenSeq(p) = f[Len(p)]
  BY ColumnsJoin, FlattenLoop
<1> HIDE DEF n
<1>3. /\ \A i \in 0 .. n : f[i] \in DiffLines
      /\ f[0] = << >> /\ FlattenSeq(p) = f[n]
      /\ \A i \in 1 .. n : f[i] = f[i - 1] \o p[i]
  BY <1>2 DEF n
<1> DEFINE Some(i) == \E x \in 1 .. i : HasChanges(p[x])
           S == {i \in 0 .. n : HasChanges(f[i]) <=> Some(i)}
<1>4. 0 \in S
  <2>1. ~HasChanges(f[0])
    BY <1>3 DEF HasChanges
  <2>2. 1 .. 0 = {} /\ 0 \in 0 .. n
    BY <1>1
  <2> QED
    BY <2>1, <2>2
<1>5. ASSUME NEW k \in 0 .. n - 1, k \in S PROVE k + 1 \in S
  <2>1. /\ k \in 0 .. n /\ k + 1 \in 0 .. n /\ k + 1 \in 1 .. n /\ k + 1 - 1 = k
        /\ 1 .. k + 1 = (1 .. k) \cup {k + 1}
    BY <1>1
  <2>2. f[k + 1] = f[k] \o p[k + 1] /\ f[k] \in DiffLines /\ p[k + 1] \in DiffLines
    <3>1. f[k] \in DiffLines /\ p[k + 1] \in DiffLines
      BY <1>1, <1>3, <2>1
    <3>2. f[k + 1] = f[k] \o p[k + 1]
      <4> DEFINE e == k + 1
      <4>1. e \in 1 .. n /\ e - 1 = k
        BY <2>1
      <4> HIDE DEF e
      <4>2. f[e] = f[e - 1] \o p[e]
        BY <1>3, <4>1
      <4> QED
        BY <4>1, <4>2, Zenon DEF e
    <3> QED
      BY <3>1, <3>2
  <2>3. HasChanges(f[k + 1]) <=> HasChanges(f[k]) \/ HasChanges(p[k + 1])
    BY <2>2, ChangesJoin
  <2>4. HasChanges(f[k]) <=> Some(k)
    BY <1>5
  <2>5. Some(k + 1) <=> Some(k) \/ HasChanges(p[k + 1])
    BY <2>1, Zenon
  <2> QED
    BY <2>1, <2>3, <2>4, <2>5, Zenon
<1>6. n \in S
  <2> HIDE DEF S
  <2>1. \A k \in 0 .. n : k \in S
    BY <1>1, <1>4, <1>5, UpTo
  <2> QED
    BY <1>1, <2>1
<1>7. n \in 0 .. n
  BY <1>1
<1> QED
  BY <1>3, <1>6, <1>7, Zenon DEF n

\* What diffHeaders shows of one header.
HeaderLine(h, g, k) ==
  LET v == joinVals(h, k)
      w == joinVals(g, k)
  IN  IF v = w THEN <<Ctx(v)>>
      ELSE (IF v # Empty THEN <<Del(v)>> ELSE << >>) \o (IF w # Empty THEN <<Add(w)>> ELSE << >>)

\* The line of a header shows a change just if its joined values differ.
LEMMA HeaderLineMeans ==
  ASSUME NEW h, IsHeaders(h), NEW g, IsHeaders(g), NEW k
  PROVE  /\ HeaderLine(h, g, k) \in DiffLines
         /\ HasChanges(HeaderLine(h, g, k)) <=> joinVals(h, k) # joinVals(g, k)
<1> DEFINE v == joinVals(h, k)
           w == joinVals(g, k)
           l == HeaderLine(h, g, k)
           x == IF v # Empty THEN <<Del(v)>> ELSE << >>
           y == IF w # Empty THEN <<Add(w)>> ELSE << >>
<1>1. v \in Contents /\ w \in Contents
  <2>1. Empty \in Texts
    BY DiffAssumption, Zenon
  <2>2. v \in Texts /\ w \in Texts
    BY <2>1 DEF IsHeaders, joinVals
  <2> QED
    BY <2>2, Zenon DEF Contents
<1>2. l = IF v = w THEN <<Ctx(v)>> ELSE x \o y
  BY DEF HeaderLine
<1> HIDE DEF v, w, l
<1>3. /\ Ctx(v) \in LineSet /\ Del(v) \in LineSet /\ Add(w) \in LineSet
      /\ Ctx(v).type = "ctx" /\ Del(v).type = "del" /\ Add(w).type = "add"
  BY <1>1, LinesTyped
<1>4. ASSUME NEW z \in LineSet
      PROVE  <<z>> \in DiffLines /\ (HasChanges(<<z>>) <=> z.type \in {"add", "del"})
  <2> DEFINE s == <<z>>
  <2>1. s \in DiffLines /\ DOMAIN s = {1} /\ s[1] = z
    BY DEF DiffLines
  <2> HIDE DEF s
  <2>2. HasChanges(s) <=> z.type \in {"add", "del"}
    BY <2>1 DEF HasChanges
  <2> QED
    BY <2>1, <2>2 DEF s
<1>5. << >> \in DiffLines /\ ~HasChanges(<< >>)
  BY DEF DiffLines, HasChanges
<1>6. x \in DiffLines /\ y \in DiffLines /\ (HasChanges(x) <=> v # Empty) /\ (HasChanges(y) <=> w # Empty)
  BY <1>3, <1>4, <1>5
<1>7. CASE v = w
  BY <1>2, <1>3, <1>4, <1>7 DEF l, v, w
<1>8. CASE v # w
  <2> HIDE DEF x, y
  <2>1. x \o y \in DiffLines /\ (HasChanges(x \o y) <=> HasChanges(x) \/ HasChanges(y))
    BY <1>6, ChangesJoin
  <2>2. l \in DiffLines /\ HasChanges(l)
    BY <1>2, <1>6, <1>8, <2>1
  <2> QED
    BY <1>8, <2>2 DEF l, v, w
<1> QED
  BY <1>7, <1>8

\* Every name is in the sorted list, and nothing else is.
LEMMA SortedMeans ==
  ASSUME NEW names \in SUBSET Int, IsFiniteSet(names)
  PROVE  /\ Sorted(names) \in Seq(names)
         /\ \A k \in names : \E i \in 1 .. Len(Sorted(names)) : Sorted(names)[i] = k
<1> DEFINE R == {p \in names \X names : p[1] < p[2]}
<1>1. \A x, y \in names : <<x, y>> \in R <=> x < y
  OBVIOUS
<1>2. Sorted(names) = InOrder(names, R)
  BY DEF Sorted
<1> HIDE DEF R
<1>3. Orders(R, names)
  BY <1>1 DEF Orders
<1>4. /\ InOrder(names, R) \in Seq(names) /\ Len(InOrder(names, R)) = Cardinality(names)
      /\ \A k \in names : \E i \in 1 .. Cardinality(names) :
           InOrder(names, R)[i] = k /\ Cardinality(Before(names, R, k)) = i - 1
  BY <1>3, InOrderLists
<1> QED
  BY <1>2, <1>4

\* The headers that can be seen are those whose joined values are not empty.
LEMMA VisibleMeans ==
  ASSUME NEW h, IsHeaders(h), NEW g, IsHeaders(g)
  PROVE  Visible(h) = Visible(g) <=>
           \A k \in headerNames(h, g) : joinVals(h, k) = joinVals(g, k)
<1> DEFINE N == headerNames(h, g)
           A == {n \in DOMAIN h : h[n] # Empty}
           B == {n \in DOMAIN g : g[n] # Empty}
<1>1. Visible(h) = [k \in A |-> h[k]] /\ Visible(g) = [k \in B |-> g[k]]
  BY DEF Visible
<1>2. N = DOMAIN h \cup DOMAIN g
  BY DEF headerNames
<1>3. ASSUME Visible(h) = Visible(g), NEW k \in N PROVE joinVals(h, k) = joinVals(g, k)
  <2>1. A = B /\ \A n \in A : h[n] = g[n]
    BY <1>1, <1>3
  <2> QED
    BY <2>1 DEF joinVals
<1>4. ASSUME \A k \in N : joinVals(h, k) = joinVals(g, k) PROVE Visible(h) = Visible(g)
  <2>1. \A k \in N : k \in A <=> k \in B
    BY <1>2, <1>4 DEF joinVals
  <2>2. A = B
    BY <1>2, <2>1
  <2>3. \A k \in A : h[k] = g[k]
    BY <1>2, <1>4, <2>2 DEF joinVals
  <2> QED
    BY <1>1, <2>2, <2>3
<1> QED
  BY <1>3, <1>4

\* The headers are shown as changed just if the visible ones differ.
LEMMA HeadersMean ==
  ASSUME NEW h, IsHeaders(h), NEW g, IsHeaders(g)
  PROVE  /\ diffHeaders(h, g) \in DiffLines
         /\ HasChanges(diffHeaders(h, g)) <=> Visible(h) # Visible(g)
<1> DEFINE N == headerNames(h, g)
           keys == Sorted(N)
           n == Len(keys)
           p == [i \in DOMAIN keys |-> HeaderLine(h, g, keys[i])]
           flat == FlattenSeq(p)
           head == <<Ctx("heading")>>
<1>1. N \in SUBSET Int /\ IsFiniteSet(N)
  BY FS_Union DEF IsHeaders, headerNames
<1>2. diffHeaders(h, g) = head \o flat
  BY Zenon DEF diffHeaders, HeaderLine
<1> HIDE DEF N
<1>3. keys \in Seq(N) /\ \A k \in N : \E i \in 1 .. n : keys[i] = k
  BY <1>1, SortedMeans
<1> HIDE DEF keys
<1>4. n \in Nat /\ DOMAIN keys = 1 .. n /\ \A i \in 1 .. n : keys[i] \in N
  BY <1>3
<1> HIDE DEF n
<1>5. p = [i \in 1 .. n |-> HeaderLine(h, g, keys[i])]
  BY <1>4
<1>6. \A k : /\ HeaderLine(h, g, k) \in DiffLines
             /\ HasChanges(HeaderLine(h, g, k)) <=> joinVals(h, k) # joinVals(g, k)
  BY HeaderLineMeans, Zenon
<1> HIDE DEF p
<1>7. ListOf(p, DiffLines) /\ Len(p) = n
  BY <1>4, <1>5, <1>6 DEF ListOf
<1>8. flat \in DiffLines /\ (HasChanges(flat) <=> \E i \in 1 .. n : HasChanges(p[i]))
  BY <1>7, FlattenChanges
<1>9. (\E i \in 1 .. n : HasChanges(p[i])) <=> \E k \in N : joinVals(h, k) # joinVals(g, k)
  <2>1. \A i \in 1 .. n : HasChanges(p[i]) <=> joinVals(h, keys[i]) # joinVals(g, keys[i])
    BY <1>5, <1>6
  <2> QED
    BY <1>3, <1>4, <2>1, Zenon
<1>10. head \in DiffLines /\ ~HasChanges(head)
  <2>1. Ctx("heading") \in LineSet /\ Ctx("heading").type = "ctx"
    BY LinesTyped DEF Contents
  <2> QED
    BY <2>1 DEF DiffLines, HasChanges
<1> HIDE DEF flat, head
<1>11. head \o flat \in DiffLines /\ (HasChanges(head \o flat) <=> HasChanges(flat))
  BY <1>8, <1>10, ChangesJoin
<1>12. Visible(h) = Visible(g) <=> \A k \in N : joinVals(h, k) = joinVals(g, k)
  BY VisibleMeans DEF N
<1>13. HasChanges(head \o flat) <=> \E k \in N : joinVals(h, k) # joinVals(g, k)
  BY <1>8, <1>9, <1>11, Zenon
<1>14. Visible(h) # Visible(g) <=> \E k \in N : joinVals(h, k) # joinVals(g, k)
  BY <1>12, Zenon
<1> QED
  BY <1>2, <1>11, <1>13, <1>14, Zenon

\* A flow as the assumption on the queries has it.
IsFlow(f) ==
  /\ f.field \in Texts
  /\ IsHeaders(f.reqHeaders) /\ IsHeaders(f.respHeaders)
  /\ IsBody(f.reqBody) /\ IsBody(f.respBody)

\* A change in any section is a change of the whole, and there is no other.
LEMMA CompareMeans ==
  ASSUME NEW f, IsFlow(f), NEW g, IsFlow(g)
  PROVE  HasChanges(Compare(f, g)) <=>
           \/ f.field # g.field
           \/ Visible(f.reqHeaders) # Visible(g.reqHeaders)
           \/ Visible(f.respHeaders) # Visible(g.respHeaders)
           \/ f.reqBody # g.reqBody \/ f.respBody # g.respBody
<1> DEFINE a == diffField(f.field, g.field)
           b == diffHeaders(f.reqHeaders, g.reqHeaders)
           c == diffHeaders(f.respHeaders, g.respHeaders)
           d == diffBody(f.reqBody, g.reqBody)
           e == diffBody(f.respBody, g.respBody)
<1>1. a \in DiffLines /\ (HasChanges(a) <=> f.field # g.field)
  <2>1. f.field \in Texts /\ g.field \in Texts
    BY DEF IsFlow
  <2> QED
    BY <2>1, FieldMeans
<1>2. b \in DiffLines /\ (HasChanges(b) <=> Visible(f.reqHeaders) # Visible(g.reqHeaders))
  <2>1. IsHeaders(f.reqHeaders) /\ IsHeaders(g.reqHeaders)
    BY DEF IsFlow
  <2> QED
    BY <2>1, HeadersMean
<1>3. c \in DiffLines /\ (HasChanges(c) <=> Visible(f.respHeaders) # Visible(g.respHeaders))
  <2>1. IsHeaders(f.respHeaders) /\ IsHeaders(g.respHeaders)
    BY DEF IsFlow
  <2> QED
    BY <2>1, HeadersMean
<1>4. d \in DiffLines /\ (HasChanges(d) <=> f.reqBody # g.reqBody)
  <2>1. f.reqBody \in TextSeqs /\ g.reqBody \in TextSeqs
    BY DEF IsFlow, IsBody, TextSeqs
  <2> QED
    BY <2>1, BodyMeans
<1>5. e \in DiffLines /\ (HasChanges(e) <=> f.respBody # g.respBody)
  <2>1. f.respBody \in TextSeqs /\ g.respBody \in TextSeqs
    BY DEF IsFlow, IsBody, TextSeqs
  <2> QED
    BY <2>1, BodyMeans
<1>6. Compare(f, g) = (((a \o b) \o c) \o d) \o e
  BY Zenon DEF Compare
<1> HIDE DEF a, b, c, d, e
<1>7. a \o b \in DiffLines /\ (HasChanges(a \o b) <=> HasChanges(a) \/ HasChanges(b))
  BY <1>1, <1>2, ChangesJoin
<1> DEFINE ab == a \o b
<1> HIDE DEF ab
<1>8. ab \o c \in DiffLines /\ (HasChanges(ab \o c) <=> HasChanges(ab) \/ HasChanges(c))
  <2>1. ab \in DiffLines
    BY <1>7 DEF ab
  <2> QED
    BY <1>3, <2>1, ChangesJoin
<1> DEFINE abc == ab \o c
<1> HIDE DEF abc
<1>9. abc \o d \in DiffLines /\ (HasChanges(abc \o d) <=> HasChanges(abc) \/ HasChanges(d))
  <2>1. abc \in DiffLines
    BY <1>8 DEF abc
  <2> QED
    BY <1>4, <2>1, ChangesJoin
<1> DEFINE abcd == abc \o d
<1> HIDE DEF abcd
<1>10. HasChanges(abcd \o e) <=> HasChanges(abcd) \/ HasChanges(e)
  <2>1. abcd \in DiffLines
    BY <1>9 DEF abcd
  <2> QED
    BY <1>5, <2>1, ChangesJoin
<1>11. HasChanges(Compare(f, g)) <=>
         HasChanges(a) \/ HasChanges(b) \/ HasChanges(c) \/ HasChanges(d) \/ HasChanges(e)
  BY <1>6, <1>7, <1>8, <1>9, <1>10, Zenon DEF ab, abc, abcd
<1> QED
  BY <1>1, <1>2, <1>3, <1>4, <1>5, <1>11, Zenon

\* The question asked, and what was answered to it.
DiffInv ==
  \/ /\ kind = "flows" /\ query \in FlowPairs
     /\ answer = << >> \/ answer = <<Compare(query[1], query[2])>>
  \/ /\ kind = "bodies" /\ query \in BodyPairs
     /\ answer = << >> \/ answer = <<diffBody(query[1], query[2])>>

\* DiffInv is inductive, and so every answer is the one to the question.
LEMMA DiffInvInductive == DiffSpec => []DiffInv
<1>1. DiffInit => DiffInv
  BY DEF DiffInit, Ask, DiffInv
<1>2. DiffInv /\ [DiffNext]_queryVars => DiffInv'
  <2> SUFFICES ASSUME DiffInv, [DiffNext]_queryVars PROVE DiffInv'
    OBVIOUS
  <2>1. CASE CompareFlows
    <3>1. kind = "flows" /\ kind' = kind /\ query' = query
          /\ answer' = <<Compare(query[1], query[2])>>
      BY <2>1 DEF CompareFlows, Answer
    <3> QED
      BY <3>1 DEF DiffInv
  <2>2. CASE CompareBodies
    <3>1. kind = "bodies" /\ kind' = kind /\ query' = query
          /\ answer' = <<diffBody(query[1], query[2])>>
      BY <2>2 DEF CompareBodies, Answer
    <3> QED
      BY <3>1 DEF DiffInv
  <2>3. CASE UNCHANGED queryVars
    BY <2>3 DEF queryVars, DiffInv
  <2> QED
    BY <2>1, <2>2, <2>3 DEF DiffNext
<1> QED
  BY <1>1, <1>2, PTL DEF DiffSpec

\* What the screen of two marked flows shows (diff.Compare, diffBody, simpleDiff): the diff of
\* two bodies is an edit of the one into the other with as few changed lines as there can be
\* up to the size limit, and two flows are shown with a change exactly when something that
\* can be seen differs.  For all bodies, headers and fields, and every size limit.
THEOREM DiffsTellBothFlows == DiffSpec => []DiffIsFaithful
<1>1. DiffInv => BodyDiffIsEdit
  <2> SUFFICES ASSUME DiffInv, Answered("bodies") PROVE BodyDiffIsEdit
    BY DEF BodyDiffIsEdit
  <2> DEFINE a == query[1]
             b == query[2]
  <2>1. query \in BodyPairs /\ Result = diffBody(a, b)
    BY DEF DiffInv, Answered, Result
  <2>2. a \in TextSeqs /\ b \in TextSeqs
    <3>1. IsBody(a) /\ IsBody(b)
      BY <2>1, DiffAssumption, Zenon
    <3> QED
      BY <3>1, Zenon DEF IsBody, TextSeqs
  <2>3. HasChanges(Result) <=> a # b
    <3> HIDE DEF a, b
    <3> QED
      BY <2>1, <2>2, BodyMeans
  <2>4. a # b => Edits(a, b, Tail(Result))
    <3> HIDE DEF a, b
    <3> QED
      BY <2>1, <2>2, BodyMeans
  <2> QED
    BY <2>3, <2>4, Zenon DEF BodyDiffIsEdit, Edits
<1>2. DiffInv => ChangesAreShown
  <2> SUFFICES ASSUME DiffInv, Answered("flows") PROVE ChangesAreShown
    BY DEF ChangesAreShown
  <2> DEFINE f == query[1]
             g == query[2]
  <2>1. query \in FlowPairs /\ Result = Compare(f, g)
    BY DEF DiffInv, Answered, Result
  <2>2. IsFlow(f) /\ IsFlow(g)
    BY <2>1, DiffAssumption DEF IsFlow
  <2> QED
    BY <2>1, <2>2, CompareMeans, Zenon DEF ChangesAreShown
<1>3. DiffInv => DiffIsFaithful
  BY <1>1, <1>2 DEF DiffIsFaithful
<1> QED
  BY <1>3, DiffInvInductive, PTL
=============================================================================
