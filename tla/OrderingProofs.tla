---------------------------- MODULE OrderingProofs ----------------------------
(***************************************************************************)
(* InOrder lists every member of a finite set once, in the given order,    *)
(* and Kept is the sublist at the kept positions.                          *)
(*                                                                         *)
(* The argument: of two members the earlier one has fewer members before   *)
(* it, so counting those is an injection into 0 .. n - 1; between sets of  *)
(* n members it is a surjection as well, so that every place is taken.     *)
(***************************************************************************)
EXTENDS Ordering, FiniteSetTheorems, TLAPS

\* R puts any two different members of S in one order.
Orders(R, S) ==
  /\ \A x \in S : <<x, x>> \notin R
  /\ \A x, y, z \in S : <<x, y>> \in R /\ <<y, z>> \in R => <<x, z>> \in R
  /\ \A x, y \in S : x = y \/ <<x, y>> \in R \/ <<y, x>> \in R

\* The number of members before one grows with the order.
LEMMA BeforeGrows ==
  ASSUME NEW S, IsFiniteSet(S), NEW R, Orders(R, S), NEW x \in S
  PROVE  /\ Cardinality(Before(S, R, x)) \in 0 .. Cardinality(S) - 1
         /\ \A y \in S : <<x, y>> \in R =>
              Cardinality(Before(S, R, x)) < Cardinality(Before(S, R, y))
<1>1. \A y \in S : /\ Before(S, R, y) \subseteq S
                   /\ y \notin Before(S, R, y)
  BY DEF Before, Orders
<1>2. \A y \in S : /\ IsFiniteSet(Before(S, R, y))
                   /\ Cardinality(Before(S, R, y)) \in Nat
                   /\ Cardinality(Before(S, R, y)) < Cardinality(S)
                   /\ Cardinality(S) \in Nat
  <2> TAKE y \in S
  <2>1. /\ IsFiniteSet(Before(S, R, y))
        /\ Cardinality(Before(S, R, y)) <= Cardinality(S)
        /\ Cardinality(S) = Cardinality(Before(S, R, y)) => S = Before(S, R, y)
    BY <1>1, FS_Subset
  <2>2. Cardinality(Before(S, R, y)) \in Nat /\ Cardinality(S) \in Nat
    BY <2>1, FS_CardinalityType
  <2>3. S # Before(S, R, y)
    BY <1>1
  <2> QED
    BY <2>1, <2>2, <2>3
<1>3. ASSUME NEW y \in S, <<x, y>> \in R
      PROVE  Cardinality(Before(S, R, x)) < Cardinality(Before(S, R, y))
  <2>1. Before(S, R, x) \subseteq Before(S, R, y)
    BY <1>3 DEF Before, Orders
  <2>2. x \in Before(S, R, y)
    BY <1>3 DEF Before
  <2>3. Before(S, R, x) # Before(S, R, y)
    BY <1>1, <2>2
  <2>4. Cardinality(Before(S, R, x)) <= Cardinality(Before(S, R, y))
        /\ (Cardinality(Before(S, R, y)) = Cardinality(Before(S, R, x))
              => Before(S, R, y) = Before(S, R, x))
    BY <1>2, <2>1, FS_Subset
  <2> QED
    BY <1>2, <2>3, <2>4
<1> QED
  BY <1>2, <1>3

\* Every place is taken by one member.
LEMMA PlacesTaken ==
  ASSUME NEW S, IsFiniteSet(S), NEW R, Orders(R, S), NEW i \in 1 .. Cardinality(S)
  PROVE  \E x \in S : Cardinality(Before(S, R, x)) = i - 1
<1> DEFINE n == Cardinality(S)
           place == [x \in S |-> Cardinality(Before(S, R, x))]
<1>1. n \in Nat
  BY FS_CardinalityType
<1>2. \A x \in S : place[x] \in 0 .. n - 1
  BY BeforeGrows
<1>3. \A x, y \in S : place[x] = place[y] => x = y
  <2> SUFFICES ASSUME NEW x \in S, NEW y \in S, x # y PROVE place[x] # place[y]
    OBVIOUS
  <2>1. <<x, y>> \in R \/ <<y, x>> \in R
    BY DEF Orders
  <2>2. place[x] \in Int /\ place[y] \in Int
    BY <1>1, <1>2
  <2>3. <<x, y>> \in R => place[x] < place[y]
    BY BeforeGrows
  <2>4. <<y, x>> \in R => place[y] < place[x]
    BY BeforeGrows
  <2> QED
    BY <2>1, <2>2, <2>3, <2>4
<1>4. place \in Injection(S, 0 .. n - 1)
  BY <1>2, <1>3 DEF Injection, IsInjective
<1>5. IsFiniteSet(0 .. n - 1) /\ Cardinality(0 .. n - 1) = n
  <2>1. 0 \in Int /\ n - 1 \in Int
    BY <1>1
  <2>2. IsFiniteSet(0 .. n - 1)
        /\ Cardinality(0 .. n - 1) = IF 0 > n - 1 THEN 0 ELSE (n - 1) - 0 + 1
    BY <2>1, FS_Interval
  <2> QED
    BY <1>1, <2>2
<1>6. place \in Surjection(S, 0 .. n - 1)
  BY <1>4, <1>5, FS_Injection
<1>7. i - 1 \in 0 .. n - 1
  BY <1>1
<1>8. \E x \in S : place[x] = i - 1
  BY <1>6, <1>7 DEF Surjection
<1> QED
  BY <1>8

\* The list has every member once, and the order's.
THEOREM InOrderLists ==
  ASSUME NEW S, IsFiniteSet(S), NEW R, Orders(R, S)
  PROVE  /\ Cardinality(S) \in Nat
         /\ InOrder(S, R) \in Seq(S) /\ Len(InOrder(S, R)) = Cardinality(S)
         /\ \A i \in 1 .. Cardinality(S) :
              Cardinality(Before(S, R, InOrder(S, R)[i])) = i - 1
         /\ \A i, j \in 1 .. Cardinality(S) : i < j =>
              <<InOrder(S, R)[i], InOrder(S, R)[j]>> \in R
         /\ \A x \in S : \E i \in 1 .. Cardinality(S) :
              InOrder(S, R)[i] = x /\ Cardinality(Before(S, R, x)) = i - 1
<1> DEFINE n == Cardinality(S)
           list == InOrder(S, R)
           Place(x) == Cardinality(Before(S, R, x))
<1>1. n \in Nat
  BY FS_CardinalityType
<1>2. \A i \in 1 .. n : list[i] \in S /\ Place(list[i]) = i - 1
  <2> TAKE i \in 1 .. n
  <2>1. list[i] = CHOOSE x \in S : Place(x) = i - 1
    BY DEF InOrder
  <2>2. \E x \in S : Place(x) = i - 1
    BY PlacesTaken
  <2> HIDE DEF list, Place
  <2> QED
    BY <2>1, <2>2
<1>3. list \in Seq(S) /\ Len(list) = n
  <2>1. list = [i \in 1 .. n |-> list[i]]
    BY DEF InOrder
  <2> HIDE DEF list
  <2> QED
    BY <1>1, <1>2, <2>1
<1>4. \A x, y \in S : Place(x) \in Int /\ (Place(x) = Place(y) => x = y)
  <2> TAKE x, y \in S
  <2>1. Place(x) \in Int /\ Place(y) \in Int
    BY <1>1, BeforeGrows
  <2>2. <<x, y>> \in R => Place(x) < Place(y)
    BY BeforeGrows
  <2>3. <<y, x>> \in R => Place(y) < Place(x)
    BY BeforeGrows
  <2>4. x = y \/ <<x, y>> \in R \/ <<y, x>> \in R
    BY DEF Orders
  <2> HIDE DEF Place
  <2> QED
    BY <2>1, <2>2, <2>3, <2>4
<1>5. ASSUME NEW i \in 1 .. n, NEW j \in 1 .. n, i < j
      PROVE  <<list[i], list[j]>> \in R
  <2>1. list[i] \in S /\ list[j] \in S /\ Place(list[i]) = i - 1 /\ Place(list[j]) = j - 1
    BY <1>2
  <2>2. <<list[j], list[i]>> \in R => Place(list[j]) < Place(list[i])
    BY <2>1, BeforeGrows
  <2>3. list[i] = list[j] \/ <<list[i], list[j]>> \in R \/ <<list[j], list[i]>> \in R
    BY <2>1 DEF Orders
  <2> HIDE DEF list, Place
  <2> QED
    BY <1>1, <1>5, <2>1, <2>2, <2>3
<1>6. ASSUME NEW x \in S
      PROVE  \E i \in 1 .. n : list[i] = x /\ Place(x) = i - 1
  <2>1. Place(x) \in 0 .. n - 1
    BY BeforeGrows
  <2>2. Place(x) + 1 \in 1 .. n /\ Place(x) = (Place(x) + 1) - 1
    BY <1>1, <2>1
  <2>3. list[Place(x) + 1] \in S /\ Place(list[Place(x) + 1]) = (Place(x) + 1) - 1
    BY <1>2, <2>2
  <2>4. list[Place(x) + 1] = x
    BY <1>4, <2>2, <2>3
  <2> HIDE DEF list, Place
  <2> QED
    BY <2>2, <2>4
<1> QED
  BY <1>1, <1>2, <1>3, <1>5, <1>6

\* The order of numbers, as pairs.
Less(P) == {pair \in P \X P : pair[1] < pair[2]}

\* t is the list s at the positions P, in increasing order: the place in t of what is
\* at a position is the number of smaller positions.
Sublist(t, s, P) ==
  /\ Cardinality(P) \in Nat
  /\ t = [i \in 1 .. Cardinality(P) |-> t[i]]
  /\ \E places \in [1 .. Cardinality(P) -> P] :
       /\ \A i \in 1 .. Cardinality(P) : t[i] = s[places[i]]
       /\ \A i, j \in 1 .. Cardinality(P) : i < j => places[i] < places[j]
       /\ \A p \in P : \E i \in 1 .. Cardinality(P) :
            places[i] = p /\ Cardinality(Smaller(P, p)) = i - 1

\* A filtered list is the list at increasing positions, which are all that are kept.
THEOREM KeptIsSublist ==
  ASSUME NEW s, NEW last \in Nat, NEW P \in SUBSET (1 .. last)
  PROVE  IsFiniteSet(P) /\ Sublist(Kept(s, P), s, P)
<1> DEFINE R == Less(P)
           n == Cardinality(P)
           Place(p) == Cardinality(Smaller(P, p))
           places == [i \in 1 .. n |-> CHOOSE p \in P : Place(p) = i - 1]
<1>1. IsFiniteSet(P)
  <2>1. 1 \in Int /\ last \in Int
    OBVIOUS
  <2>2. IsFiniteSet(1 .. last)
    BY <2>1, FS_Interval
  <2> QED
    BY <2>2, FS_Subset
<1>2. P \subseteq Int /\ n \in Nat
  BY <1>1, FS_CardinalityType
<1>3. \A x, y : <<x, y>> \in R <=> x \in P /\ y \in P /\ x < y
  BY DEF Less
<1>4. Orders(R, P)
  BY <1>2, <1>3 DEF Orders
<1>5. \A p \in P : Before(P, R, p) = Smaller(P, p)
  BY <1>3 DEF Before, Smaller
<1> HIDE DEF R
<1>6. \A i \in 1 .. n : \E p \in P : Place(p) = i - 1
  <2> TAKE i \in 1 .. n
  <2>1. \E p \in P : Cardinality(Before(P, R, p)) = i - 1
    BY <1>1, <1>4, PlacesTaken
  <2> QED
    BY <1>5, <2>1
<1>7. ASSUME NEW p \in P
      PROVE  Place(p) \in 0 .. n - 1 /\ \A q \in P : p < q => Place(p) < Place(q)
  <2>1. /\ Cardinality(Before(P, R, p)) \in 0 .. n - 1
        /\ \A q \in P : <<p, q>> \in R =>
             Cardinality(Before(P, R, p)) < Cardinality(Before(P, R, q))
    BY <1>1, <1>4, BeforeGrows
  <2> QED
    BY <1>3, <1>5, <2>1
<1> HIDE DEF n, Place
<1>8. \A i \in 1 .. n : places[i] \in P /\ Place(places[i]) = i - 1
  BY <1>6
<1>9. Kept(s, P) = [i \in 1 .. n |-> s[places[i]]]
  BY DEF Kept, n, Place
<1> HIDE DEF places
<1>10. \A i, j \in 1 .. n : i < j => places[i] < places[j]
  <2> SUFFICES ASSUME NEW i \in 1 .. n, NEW j \in 1 .. n, i < j PROVE places[i] < places[j]
    OBVIOUS
  <2>1. places[i] \in P /\ places[j] \in P /\ Place(places[i]) = i - 1 /\ Place(places[j]) = j - 1
    BY <1>8
  <2>2. places[j] < places[i] => Place(places[j]) < Place(places[i])
    BY <1>7, <2>1
  <2>3. places[i] \in Int /\ places[j] \in Int
    BY <1>2, <2>1
  <2> QED
    BY <1>2, <2>1, <2>2, <2>3
<1>11. \A p \in P : \E i \in 1 .. n : places[i] = p /\ Place(p) = i - 1
  <2> TAKE p \in P
  <2> DEFINE i == Place(p) + 1
  <2>1. Place(p) \in Int /\ i \in 1 .. n /\ Place(p) = i - 1
    BY <1>2, <1>7
  <2>2. places[i] \in P /\ Place(places[i]) = Place(p)
    BY <1>8, <2>1
  <2>3. places[i] \in Int /\ p \in Int
    BY <1>2, <2>2
  <2>4. (places[i] < p => Place(places[i]) < Place(p)) /\ (p < places[i] => Place(p) < Place(places[i]))
    BY <1>7, <2>2
  <2>5. places[i] = p
    BY <2>1, <2>2, <2>3, <2>4
  <2> QED
    BY <2>1, <2>5
<1>12. places \in [1 .. n -> P]
  BY <1>8 DEF places
<1>13. Kept(s, P) = [i \in 1 .. n |-> Kept(s, P)[i]] /\ \A i \in 1 .. n : Kept(s, P)[i] = s[places[i]]
  BY <1>9
<1> QED
  BY <1>1, <1>2, <1>10, <1>11, <1>12, <1>13 DEF Sublist, n, Place

\* A finite set of numbers has a smallest member.
THEOREM SmallestExists ==
  ASSUME NEW P, P \subseteq Int, IsFiniteSet(P), P # {}
  PROVE  \E x \in P : \A y \in P : x <= y
<1> DEFINE R == Less(P)
<1>1. \A x, y : <<x, y>> \in R <=> x \in P /\ y \in P /\ x < y
  BY DEF Less
<1>2. Orders(R, P)
  BY <1>1 DEF Orders
<1> HIDE DEF R
<1>3. /\ Cardinality(P) \in Nat
      /\ InOrder(P, R) \in Seq(P) /\ Len(InOrder(P, R)) = Cardinality(P)
      /\ \A i, j \in 1 .. Cardinality(P) : i < j =>
           <<InOrder(P, R)[i], InOrder(P, R)[j]>> \in R
      /\ \A x \in P : \E i \in 1 .. Cardinality(P) :
           InOrder(P, R)[i] = x /\ Cardinality(Before(P, R, x)) = i - 1
  BY <1>2, InOrderLists
<1>4. PICK p \in P : TRUE
  OBVIOUS
<1>5. PICK k \in 1 .. Cardinality(P) : InOrder(P, R)[k] = p
  BY <1>3
<1>6. 1 \in 1 .. Cardinality(P)
  BY <1>3, <1>5
<1>7. InOrder(P, R)[1] \in P
  BY <1>1, <1>3, <1>5, <1>6
<1>8. \A y \in P : InOrder(P, R)[1] <= y
  <2> TAKE y \in P
  <2>1. PICK i \in 1 .. Cardinality(P) : InOrder(P, R)[i] = y
    BY <1>3
  <2>2. i = 1 \/ <<InOrder(P, R)[1], y>> \in R
    BY <1>3, <1>6, <2>1
  <2>3. InOrder(P, R)[1] \in Int /\ y \in Int
    BY <1>7
  <2> QED
    BY <1>1, <2>1, <2>2, <2>3
<1> QED
  BY <1>7, <1>8

\* Induction up to n: what holds of 0 and of the successor of each number it holds of.
LEMMA UpTo ==
  ASSUME NEW n \in Nat, NEW S, 0 \in S,
         \A k \in 0 .. n - 1 : k \in S => k + 1 \in S
  PROVE  \A k \in 0 .. n : k \in S
<1> SUFFICES ASSUME (0 .. n) \ S # {} PROVE FALSE
  OBVIOUS
<1> DEFINE P == (0 .. n) \ S
<1>1. P \subseteq Int /\ P # {} /\ IsFiniteSet(P)
  <2>1. IsFiniteSet(0 .. n)
    BY FS_Interval
  <2>2. P \subseteq 0 .. n
    OBVIOUS
  <2>3. IsFiniteSet(P)
    BY <2>1, <2>2, FS_Subset
  <2> QED
    BY <2>2, <2>3
<1>2. PICK x \in P : \A y \in P : x <= y
  BY <1>1, SmallestExists
<1>3. x # 0 /\ x - 1 \in 0 .. n - 1 /\ x - 1 < x
  BY <1>2
<1>4. x - 1 \notin P
  BY <1>2, <1>3
<1> QED
  BY <1>2, <1>3, <1>4

\* F is the body of a recursive definition: the value at x depends only on those at
\* members of D of a lower rank.
LooksBack(F, D, V, rank) ==
  /\ F \in [D \X [D -> V] -> V]
  /\ \A x \in D : \A f, g \in [D -> V] :
       (\A y \in D : rank[y] < rank[x] => f[y] = g[y]) => F[<<x, f>>] = F[<<x, g>>]

\* f is the function with the body F.
Obeys(f, F, D) == f = [x \in D |-> F[<<x, f>>]]

\* A function may be defined by such a recursion.
THEOREM RecursionExists ==
  ASSUME NEW D, NEW V, V # {}, NEW n \in Nat, NEW rank \in [D -> 0 .. n],
         NEW F, LooksBack(F, D, V, rank)
  PROVE  \E f \in [D -> V] : Obeys(f, F, D)
<1> USE DEF LooksBack
<1> DEFINE Solves(f, m) == \A x \in D : rank[x] < m => f[x] = F[<<x, f>>]
           S == {m \in 0 .. n + 1 : \E f \in [D -> V] : Solves(f, m)}
<1>1. 0 \in S
  <2>1. PICK v \in V : TRUE
    OBVIOUS
  <2>2. [x \in D |-> v] \in [D -> V] /\ \A x \in D : rank[x] >= 0
    OBVIOUS
  <2>3. Solves([x \in D |-> v], 0)
    BY <2>2
  <2> HIDE DEF Solves
  <2>4. \E f \in [D -> V] : Solves(f, 0)
    BY <2>2, <2>3
  <2> QED
    BY <2>4
<1>2. ASSUME NEW m \in 0 .. n, m \in S PROVE m + 1 \in S
  <2>1. PICK f \in [D -> V] : Solves(f, m)
    BY <1>2
  <2> DEFINE g == [x \in D |-> IF rank[x] = m THEN F[<<x, f>>] ELSE f[x]]
  <2>2. g \in [D -> V]
    OBVIOUS
  <2>3. ASSUME NEW x \in D, rank[x] < m + 1 PROVE g[x] = F[<<x, g>>]
    <3>1. g[x] = F[<<x, f>>]
      BY <2>1, <2>3
    <3>2. \A y \in D : rank[y] < rank[x] => f[y] = g[y]
      BY <2>3
    <3> HIDE DEF g
    <3>3. F[<<x, f>>] = F[<<x, g>>]
      BY <2>2, <3>2
    <3> QED
      BY <3>1, <3>3
  <2>4. Solves(g, m + 1)
    BY <2>3
  <2> HIDE DEF Solves, g
  <2>5. \E h \in [D -> V] : Solves(h, m + 1)
    BY <2>2, <2>4
  <2> QED
    BY <2>5
<1> HIDE DEF S
<1>3. n + 1 \in S
  BY <1>1, <1>2, UpTo
<1>4. PICK f \in [D -> V] : Solves(f, n + 1)
  BY <1>3 DEF S
<1>5. \A x \in D : f[x] = F[<<x, f>>]
  BY <1>4
<1>6. Obeys(f, F, D)
  BY <1>5 DEF Obeys
<1> QED
  BY <1>6

\* f is the loop that starts with base and makes n steps: the value after step k comes from
\* the one after step k - 1.
IsLoop(f, n, base, Step) ==
  f = [k \in 0 .. n |-> IF k = 0 THEN base ELSE Step[<<k, f[k - 1]>>]]

\* A function may be defined as such a loop.
LEMMA LoopExists ==
  ASSUME NEW n \in Nat, NEW V, NEW base \in V, NEW Step \in [(1 .. n) \X V -> V]
  PROVE  \E f \in [0 .. n -> V] : IsLoop(f, n, base, Step)
<1> DEFINE D == 0 .. n
           F == [a \in D \X [D -> V] |-> IF a[1] = 0 THEN base ELSE Step[<<a[1], a[2][a[1] - 1]>>]]
           rank == [k \in D |-> k]
<1>1. V # {} /\ rank \in [D -> 0 .. n]
  OBVIOUS
<1>2. ASSUME NEW k \in D, NEW f \in [D -> V]
      PROVE  (IF k = 0 THEN base ELSE Step[<<k, f[k - 1]>>]) \in V
  <2>1. CASE k # 0
    <3>1. k \in 1 .. n /\ k - 1 \in D
      BY <2>1
    <3>2. f[k - 1] \in V
      BY <3>1
    <3>3. Step[<<k, f[k - 1]>>] \in V
      BY <3>1, <3>2
    <3> QED
      BY <2>1, <3>3
  <2> QED
    BY <2>1
<1>3. \A k \in D : \A f \in [D -> V] :
        F[<<k, f>>] = IF k = 0 THEN base ELSE Step[<<k, f[k - 1]>>]
  OBVIOUS
<1>4. F \in [D \X [D -> V] -> V]
  BY <1>2
<1> HIDE DEF F, D
<1>5. LooksBack(F, D, V, rank)
  <2> SUFFICES ASSUME NEW x \in D, NEW f \in [D -> V], NEW g \in [D -> V],
                      \A y \in D : rank[y] < rank[x] => f[y] = g[y]
               PROVE  F[<<x, f>>] = F[<<x, g>>]
    BY <1>4 DEF LooksBack
  <2>1. x = 0 \/ f[x - 1] = g[x - 1]
    BY DEF D
  <2> QED
    BY <1>3, <2>1
<1> HIDE DEF rank
<1>6. PICK f \in [D -> V] : Obeys(f, F, D)
  BY <1>1, <1>5, RecursionExists
<1>7. IsLoop(f, n, base, Step)
  <2>1. \A k \in D : f[k] = IF k = 0 THEN base ELSE Step[<<k, f[k - 1]>>]
    BY <1>3, <1>6 DEF Obeys
  <2>2. f = [k \in D |-> f[k]]
    OBVIOUS
  <2> QED
    BY <2>1, <2>2 DEF IsLoop, D
<1> QED
  BY <1>7 DEF D

\* What the first value has and every step keeps, all values have.
LEMMA LoopTyped ==
  ASSUME NEW n \in Nat, NEW V, NEW f, f[0] \in V,
         \A k \in 1 .. n : f[k - 1] \in V => f[k] \in V
  PROVE  \A k \in 0 .. n : f[k] \in V
<1> DEFINE S == {k \in 0 .. n : f[k] \in V}
<1>1. 0 \in S
  OBVIOUS
<1>2. ASSUME NEW k \in 0 .. n - 1, k \in S PROVE k + 1 \in S
  <2>1. k + 1 \in 1 .. n /\ (k + 1) - 1 = k
    OBVIOUS
  <2> QED
    BY <1>2, <2>1
<1> HIDE DEF S
<1>3. \A k \in 0 .. n : k \in S
  BY <1>1, <1>2, UpTo
<1> QED
  BY <1>3 DEF S
=============================================================================
