--------------------------- MODULE FlowListProofs ---------------------------
(***************************************************************************)
(* For any number of flows, any capacity, terminal heights, hosts and      *)
(* processes: what the cursor and the rows of the flow list promise.       *)
(*                                                                         *)
(* The argument: every pass that draws the list moves listOffset to where  *)
(* the cursor, if it is on a row, is visible; a pass that does not draw    *)
(* changes neither rows nor size, or leaves the list.  The cursor is never *)
(* below -1 and, before a panic, neither is listOffset below 0, so that    *)
(* only the cursor at -1 leads out of range.  Rows of the tree and of the  *)
(* focused group are always those of the listing read last: whatever       *)
(* changes the grouping or the mode reads them again.                      *)
(***************************************************************************)
EXTENDS FlowList, OrderingProofs

Metas == [id : Flows, process : Keys]
Rows == [header : BOOLEAN, key : Keys, id : Flows \cup {NoFlow}]

FlTypes ==
  /\ stored \in Seq(Flows) /\ captured \in Nat /\ height \in Nat
  /\ flows \in Seq(Metas) /\ treeRows \in Seq(Rows)
  /\ listMode \in {"flat", "tree", "focus"} /\ panicked \in BOOLEAN
  /\ selectedIdx \in Int /\ selectedIdx >= -1
  /\ listOffset \in Int /\ (~panicked => listOffset >= 0)

FlInv == FlTypes /\ CursorVisible /\ PanicOnlyBelow /\ RowsAreOfGrouping

-----------------------------------------------------------------------------
(* The larger and the smaller of two numbers. *)

\* The larger of two numbers is one of them and not below either.
LEMMA MaxOfTwo ==
  ASSUME NEW a \in Int, NEW b \in Int
  PROVE  Max({a, b}) \in {a, b} /\ Max({a, b}) >= a /\ Max({a, b}) >= b
<1>1. \E x \in {a, b} : \A y \in {a, b} : x >= y
  <2>1. CASE a >= b
    BY <2>1
  <2>2. CASE b >= a
    BY <2>2
  <2> QED
    BY <2>1, <2>2
<1> QED
  BY <1>1 DEF Max

\* Likewise.
LEMMA MinOfTwo ==
  ASSUME NEW a \in Int, NEW b \in Int
  PROVE  Min({a, b}) \in {a, b} /\ Min({a, b}) <= a /\ Min({a, b}) <= b
<1>1. \E x \in {a, b} : \A y \in {a, b} : x =< y
  <2>1. CASE a =< b
    BY <2>1
  <2>2. CASE b =< a
    BY <2>2
  <2> QED
    BY <2>1, <2>2
<1> QED
  BY <1>1 DEF Min

-----------------------------------------------------------------------------
(* Drawing. *)

HasRows == maxRows \in Nat /\ (maxRows > 0 => height > 0)

\* Rows are drawn only once the terminal's size is known.
LEMMA MaxRowsFit == height \in Nat => HasRows
<1> SUFFICES ASSUME height \in Nat PROVE HasRows
  OBVIOUS
<1>1. height - 5 \in Int /\ 0 \in Int
  OBVIOUS
<1>2. maxRows \in {height - 5, 0} /\ maxRows >= 0
  BY <1>1, MaxOfTwo DEF maxRows
<1>3. maxRows = height - 5 \/ maxRows = 0
  BY <1>2
<1>4. maxRows \in Int
  BY <1>1, <1>3
<1> QED
  BY <1>2, <1>3, <1>4 DEF HasRows

\* The same in the next state, as a whole.
LEMMA HasRowsNext == (height \in Nat)' => HasRows'
  BY MaxRowsFit, PTL

\* The same in the next state.
LEMMA MaxRowsNext ==
  ASSUME height' \in Nat
  PROVE  maxRows' \in Nat /\ (maxRows' > 0 => height' > 0)
<1>1. HasRows'
  BY HasRowsNext
<1> QED
  BY <1>1 DEF HasRows

\* View shows the cursor if it is on a row, and leaves the range only below.
LEMMA ViewShows ==
  ASSUME NEW offset \in Nat, height' \in Nat, selectedIdx' \in Int, selectedIdx' >= -1,
         visibleLen' \in Nat, View(offset)
  PROVE  /\ CursorVisible' /\ (panicked' => selectedIdx' = -1)
         /\ panicked' \in BOOLEAN
         /\ listOffset' \in Int /\ (~panicked' => listOffset' >= 0)
<1> DEFINE n == maxRows'
           c == selectedIdx'
           count == visibleLen'
           drawn == height' > 0 /\ screen' = "list"
           s == Scrolled(offset, c, n)
           at == InRange(s, count, n)
<1>1. n \in Nat /\ (n > 0 => height' > 0)
  BY MaxRowsNext
<1>2. listOffset' = (IF drawn THEN at ELSE offset) /\ panicked' = (drawn /\ at < 0 /\ n > 0)
  BY DEF View
<1> HIDE DEF n, count
<1>3. c \in Int /\ c >= -1 /\ count \in Nat
  BY DEF count
<1> HIDE DEF c
<1>4. /\ s \in Int
      /\ n > 0 => /\ s <= c /\ c < s + n
                  /\ c >= 0 => s >= 0
      /\ n = 0 => s = offset
  BY <1>1, <1>3 DEF Scrolled
<1> HIDE DEF s
<1>5. at = IF s > count - n THEN Max({count - n, 0}) ELSE s
  BY DEF InRange
<1>6. count - n \in Int /\ 0 \in Int
  BY <1>1, <1>3
<1>7. Max({count - n, 0}) \in {count - n, 0} /\ Max({count - n, 0}) >= count - n
      /\ Max({count - n, 0}) >= 0
  BY <1>6, MaxOfTwo
<1> HIDE DEF at
<1>8. /\ at \in Int
      /\ n > 0 /\ c \in 0 .. count - 1 => at <= c /\ c < at + n
      /\ at < 0 /\ n > 0 => c = -1
      /\ n = 0 => at >= 0
  BY <1>1, <1>3, <1>4, <1>5, <1>6, <1>7
<1>9. CursorVisible'
  <2> SUFFICES ASSUME screen' = "list", n > 0, c \in 0 .. count - 1
               PROVE  listOffset' <= c /\ c < listOffset' + n
    BY DEF CursorVisible, n, c, count
  <2> QED
    BY <1>1, <1>2, <1>8
<1>10. panicked' => c = -1
  BY <1>2, <1>8
<1>11. listOffset' \in Int /\ (~panicked' => listOffset' >= 0)
  <2>1. CASE drawn
    <3>1. listOffset' = at /\ (panicked' <=> at < 0 /\ n > 0)
      BY <1>2, <2>1
    <3> QED
      BY <1>1, <1>8, <3>1
  <2>2. CASE ~drawn
    BY <1>2, <2>2
  <2> QED
    BY <2>1, <2>2
<1> QED
  BY <1>2, <1>9, <1>10, <1>11 DEF c

-----------------------------------------------------------------------------
(* Reading the store. *)

\* What a listing is: in it, an ID stands for one record.
Listing(fs) == fs \in Seq(Metas) /\ \A f, g \in Range(fs) : f.id = g.id => f = g

\* The range of a sequence.
LEMMA RangeOf ==
  ASSUME NEW S, NEW s \in Seq(S)
  PROVE  /\ Len(s) \in Nat /\ DOMAIN s = 1 .. Len(s)
         /\ \A x : x \in Range(s) <=> \E i \in 1 .. Len(s) : s[i] = x
         /\ Range(s) \subseteq S
  BY DEF Range

\* List returns records of stored flows.
LEMMA ListShape ==
  ASSUME stored \in Seq(Flows), NEW filter, NEW limit \in Nat
  PROVE  Listing(List(filter, limit).page)
<1> DEFINE P == {i \in 1 .. Len(stored) : filter \in {Everything, HostOf[stored[i]]}}
           matched == Kept(stored, P)
           m == Cardinality(P)
           Meta(f) == [id |-> f, process |-> IF f \in resolved THEN ProcessOf[f] ELSE Unknown]
           metas == [i \in 1 .. m |-> Meta(matched[i])]
           k == IF limit > 0 THEN Min({limit, m}) ELSE m
           page == List(filter, limit).page
<1>1. Len(stored) \in Nat /\ \A i \in 1 .. Len(stored) : stored[i] \in Flows
  OBVIOUS
<1>2. P \in SUBSET (1 .. Len(stored))
  OBVIOUS
<1> HIDE DEF P
<1>3. Sublist(matched, stored, P)
  BY <1>1, <1>2, KeptIsSublist
<1>4. m \in Nat /\ matched = [i \in 1 .. m |-> matched[i]]
  BY <1>3 DEF Sublist
<1>5. \A i \in 1 .. m : matched[i] \in Flows
  <2>1. PICK places \in [1 .. m -> P] : \A i \in 1 .. m : matched[i] = stored[places[i]]
    BY <1>3 DEF Sublist
  <2> HIDE DEF matched, m
  <2> QED
    BY <1>1, <1>2, <2>1
<1> HIDE DEF matched, m
<1>6. Len(matched) = m
  BY <1>4
<1>7. k \in 0 .. m
  <2>1. CASE limit > 0
    <3>1. limit \in Int /\ m \in Int
      BY <1>4
    <3>2. Min({limit, m}) \in {limit, m} /\ Min({limit, m}) <= m
      BY <3>1, MinOfTwo
    <3> QED
      BY <1>4, <2>1, <3>2
  <2>2. CASE ~(limit > 0)
    BY <1>4, <2>2
  <2> QED
    BY <2>1, <2>2
<1>8. page = SubSeq(metas, 1, k)
  BY <1>6 DEF List, matched, P
<1> HIDE DEF k
<1>9. \A f \in Flows : Meta(f) \in Metas /\ Meta(f).id = f
  BY DEF Metas, Keys
<1> HIDE DEF Meta
<1>10. metas \in Seq(Metas) /\ Len(metas) = m
  BY <1>4, <1>5, <1>9
<1>11. \A i \in 1 .. m : metas[i] = Meta(metas[i].id)
  BY <1>5, <1>9
<1> HIDE DEF metas
<1>12. page = [i \in 1 .. k |-> metas[i]]
  BY <1>4, <1>7, <1>8, <1>10
<1> HIDE DEF page
<1>13. page \in Seq(Metas) /\ Len(page) = k
  <2>1. \A i \in 1 .. k : metas[i] \in Metas
    BY <1>4, <1>7, <1>10
  <2>2. k \in Nat /\ [i \in 1 .. k |-> metas[i]] \in Seq(Metas)
    BY <1>4, <1>7, <2>1
  <2> QED
    BY <1>12, <2>2
<1>14. \A i \in 1 .. k : page[i] = Meta(page[i].id)
  BY <1>4, <1>7, <1>11, <1>12
<1>15. \A f \in Range(page) : f = Meta(f.id)
  BY <1>13, <1>14, RangeOf
<1>16. Listing(page)
  BY <1>13, <1>15 DEF Listing
<1> QED
  BY <1>16 DEF page

-----------------------------------------------------------------------------
(* Groups. *)

\* A finite set of numbers has a largest member, and Max is one.
LEMMA MaxIsLargest ==
  ASSUME NEW P, P \subseteq Int, IsFiniteSet(P), P # {}
  PROVE  Max(P) \in P /\ \A y \in P : Max(P) >= y
<1> DEFINE Q == {-x : x \in P}
           neg == [x \in P |-> -x]
<1>1. neg \in Surjection(P, Q)
  BY DEF Surjection
<1>2. IsFiniteSet(Q)
  BY <1>1, FS_Surjection
<1>3. Q \subseteq Int /\ Q # {}
  OBVIOUS
<1> HIDE DEF Q
<1>4. PICK q \in Q : \A y \in Q : q <= y
  BY <1>2, <1>3, SmallestExists
<1>5. -q \in P /\ \A y \in P : -q >= y
  BY <1>3, <1>4 DEF Q
<1>6. \E x \in P : \A y \in P : x >= y
  BY <1>5
<1> QED
  BY <1>6 DEF Max

KeysIn(fs, by) == {treeKeyFn(by, f) : f \in Range(fs)}
Of(fs, by, k) == {j \in 1 .. Len(fs) : treeKeyFn(by, fs[j]) = k}
StartsOf(fs, by, k) == {StartedAt[fs[j].id] : j \in Of(fs, by, k)}
Group(fs, by, k) == [key |-> k, flows |-> Of(fs, by, k), newest |-> Max(StartsOf(fs, by, k))]

\* A key has flows, of which one is the newest.
LEMMA KeyHasFlows ==
  ASSUME NEW fs, Listing(fs), NEW by, NEW k \in KeysIn(fs, by)
  PROVE  /\ k \in Keys
         /\ \E f \in Range(fs) : treeKeyFn(by, f) = k
         /\ \E j \in Of(fs, by, k) : Max(StartsOf(fs, by, k)) = StartedAt[fs[j].id]
<1>1. fs \in Seq(Metas)
  BY DEF Listing
<1>2. PICK f \in Range(fs) : treeKeyFn(by, f) = k
  BY DEF KeysIn
<1>3. f \in Metas /\ \E j \in 1 .. Len(fs) : fs[j] = f
  BY <1>1, <1>2, RangeOf
<1>4. k \in Keys
  BY <1>2, <1>3 DEF treeKeyFn, Metas, Keys, Hosts
<1>5. Len(fs) \in Nat /\ \A j \in 1 .. Len(fs) : fs[j].id \in Flows
  <2>1. Len(fs) \in Nat /\ \A j \in 1 .. Len(fs) : fs[j] \in Metas
    BY <1>1
  <2>2. \A f1 \in Metas : f1.id \in Flows
    BY DEF Metas
  <2> QED
    BY <2>1, <2>2
<1>6. IsFiniteSet(Of(fs, by, k)) /\ Of(fs, by, k) # {} /\ Of(fs, by, k) \subseteq 1 .. Len(fs)
  <2>1. Of(fs, by, k) \subseteq 1 .. Len(fs) /\ Of(fs, by, k) # {}
    BY <1>2, <1>3 DEF Of
  <2>2. 1 \in Int /\ Len(fs) \in Int
    BY <1>5
  <2>3. IsFiniteSet(1 .. Len(fs))
    BY <2>2, FS_Interval
  <2> QED
    BY <2>1, <2>3, FS_Subset
<1> DEFINE O == Of(fs, by, k)
           S == StartsOf(fs, by, k)
           start == [j \in O |-> StartedAt[fs[j].id]]
<1>7. S = {start[j] : j \in O}
  BY DEF StartsOf
<1>8. start \in Surjection(O, S)
  BY <1>7 DEF Surjection
<1>9. IsFiniteSet(S)
  BY <1>6, <1>8, FS_Surjection
<1>10. S # {} /\ S \subseteq Int
  BY <1>5, <1>6, FlowListAssumption DEF StartsOf
<1> HIDE DEF S
<1>11. Max(S) \in S
  BY <1>9, <1>10, MaxIsLargest
<1> QED
  BY <1>2, <1>4, <1>7, <1>11 DEF S

\* The groups of a listing: finitely many, told apart by key and by newest flow.
Grouping(fs, by, G) ==
  /\ IsFiniteSet(G)
  /\ \A g \in G : /\ g.key \in Keys /\ g.newest \in Nat
                  /\ g.flows \subseteq 1 .. Len(fs)
                  /\ \E f \in Range(fs) : treeKeyFn(by, f) = g.key
  /\ \A g, h \in G : g.newest = h.newest => g = h

\* buildGroups makes such groups.
LEMMA GroupsShape ==
  ASSUME NEW fs, Listing(fs), NEW by
  PROVE  Grouping(fs, by, buildGroups(fs, by))
<1> DEFINE G == buildGroups(fs, by)
           K == KeysIn(fs, by)
           groupOf == [k \in K |-> Group(fs, by, k)]
           keyAt == [i \in 1 .. Len(fs) |-> treeKeyFn(by, fs[i])]
<1>1. fs \in Seq(Metas) /\ Len(fs) \in Nat
  BY DEF Listing
<1>2. G = {Group(fs, by, k) : k \in K}
  BY DEF buildGroups, Group, KeysIn, StartsOf, Of
<1>3. IsFiniteSet(K)
  <2>1. \A k : k \in K <=> \E i \in 1 .. Len(fs) : treeKeyFn(by, fs[i]) = k
    BY <1>1, RangeOf DEF KeysIn
  <2> HIDE DEF K
  <2>2. keyAt \in Surjection(1 .. Len(fs), K)
    <3>1. \A i \in 1 .. Len(fs) : keyAt[i] = treeKeyFn(by, fs[i]) /\ keyAt[i] \in K
      BY <2>1
    <3>2. keyAt \in [1 .. Len(fs) -> K]
      BY <3>1
    <3>3. \A k \in K : \E i \in 1 .. Len(fs) : keyAt[i] = k
      BY <2>1, <3>1
    <3> QED
      BY <3>2, <3>3 DEF Surjection
  <2>3. 1 \in Int /\ Len(fs) \in Int
    BY <1>1
  <2>4. IsFiniteSet(1 .. Len(fs))
    BY <2>3, FS_Interval
  <2> QED
    BY <2>2, <2>4, FS_Surjection
<1>4. IsFiniteSet(G)
  <2> HIDE DEF K, G
  <2>1. groupOf \in Surjection(K, G)
    BY <1>2 DEF Surjection
  <2> QED
    BY <1>3, <2>1, FS_Surjection
<1>5. ASSUME NEW k \in K
      PROVE  /\ Group(fs, by, k).key = k /\ k \in Keys
             /\ Group(fs, by, k).flows \subseteq 1 .. Len(fs)
             /\ \E f \in Range(fs) : treeKeyFn(by, f) = k
             /\ \E j \in Of(fs, by, k) : Group(fs, by, k).newest = StartedAt[fs[j].id]
  BY KeyHasFlows DEF Group, Of
<1>6. \A k \in K : \A j \in Of(fs, by, k) :
        j \in 1 .. Len(fs) /\ fs[j].id \in Flows /\ treeKeyFn(by, fs[j]) = k
  <2>1. \A j \in 1 .. Len(fs) : fs[j] \in Metas
    BY <1>1
  <2>2. \A f \in Metas : f.id \in Flows
    BY DEF Metas
  <2> QED
    BY <2>1, <2>2 DEF Of
<1>7. ASSUME NEW k \in K, NEW l \in K, Group(fs, by, k).newest = Group(fs, by, l).newest
      PROVE  k = l
  <2>1. PICK i \in Of(fs, by, k) : Group(fs, by, k).newest = StartedAt[fs[i].id]
    BY <1>5
  <2>2. PICK j \in Of(fs, by, l) : Group(fs, by, l).newest = StartedAt[fs[j].id]
    BY <1>5
  <2>3. StartedAt[fs[i].id] = StartedAt[fs[j].id] /\ fs[i].id \in Flows /\ fs[j].id \in Flows
    BY <1>6, <1>7, <2>1, <2>2
  <2>4. fs[i].id = fs[j].id
    BY <2>3, FlowListAssumption
  <2>5. fs[i] \in Range(fs) /\ fs[j] \in Range(fs)
    BY <1>1, <1>6, RangeOf
  <2>6. fs[i] = fs[j]
    BY <2>4, <2>5 DEF Listing
  <2> QED
    BY <1>6, <2>6
<1>8. \A k \in K : Group(fs, by, k).newest \in Nat
  BY <1>5, <1>6, FlowListAssumption
<1> HIDE DEF K, G
<1>9. \A g \in G : /\ g.key \in Keys /\ g.newest \in Nat
                   /\ g.flows \subseteq 1 .. Len(fs)
                   /\ \E f \in Range(fs) : treeKeyFn(by, f) = g.key
  BY <1>2, <1>5, <1>8
<1>10. \A g, h \in G : g.newest = h.newest => g = h
  BY <1>2, <1>7
<1> QED
  BY <1>4, <1>9, <1>10 DEF Grouping, G

-----------------------------------------------------------------------------
(* Rows. *)

\* Whatever rows are made of groups have places that are ordered.
LEMMA PlacesOrdered ==
  ASSUME NEW fs, Listing(fs), NEW by, NEW G, Grouping(fs, by, G), NEW expanded
  PROVE  LET P == Places(G, expanded) IN
         /\ IsFiniteSet(P) /\ Orders(Above(P), P)
         /\ \A p \in P : /\ p[1] \in G /\ p[2] \in 0 .. Len(fs)
                         /\ <<p[1], 0>> \in P
<1> DEFINE P == Places(G, expanded)
<1>1. Len(fs) \in Nat
  BY DEF Listing
<1>2. \A p : p \in P <=> \E g \in G : p \in {g} \X ({0} \cup IF g.key \in expanded THEN g.flows ELSE {})
  BY DEF Places
<1> HIDE DEF P
<1>3. ASSUME NEW p \in P
      PROVE  /\ p = <<p[1], p[2]>> /\ p[1] \in G /\ p[2] \in 0 .. Len(fs)
             /\ <<p[1], 0>> \in P
  <2>1. PICK g \in G : p \in {g} \X ({0} \cup IF g.key \in expanded THEN g.flows ELSE {})
    BY <1>2
  <2>2. p = <<p[1], p[2]>> /\ p[1] = g /\ p[2] \in {0} \cup g.flows
    BY <2>1
  <2>3. g.flows \subseteq 1 .. Len(fs)
    BY DEF Grouping
  <2>4. <<g, 0>> \in {g} \X ({0} \cup IF g.key \in expanded THEN g.flows ELSE {})
    OBVIOUS
  <2>5. <<g, 0>> \in P
    BY <1>2, <2>4
  <2> QED
    BY <1>1, <2>2, <2>3, <2>5
<1>4. IsFiniteSet(P)
  <2>1. IsFiniteSet(0 .. Len(fs))
    <3>1. 0 \in Int /\ Len(fs) \in Int
      BY <1>1
    <3> QED
      BY <3>1, FS_Interval
  <2>2. IsFiniteSet(G)
    BY DEF Grouping
  <2>3. IsFiniteSet(G \X (0 .. Len(fs)))
    BY <2>1, <2>2, FS_Product
  <2>4. ASSUME NEW p \in P PROVE p \in G \X (0 .. Len(fs))
    <3>1. p = <<p[1], p[2]>> /\ p[1] \in G /\ p[2] \in 0 .. Len(fs)
      BY <1>3
    <3>2. <<p[1], p[2]>> \in G \X (0 .. Len(fs))
      BY <3>1
    <3> QED
      BY <3>1, <3>2
  <2>5. P \in SUBSET (G \X (0 .. Len(fs)))
    BY <2>4
  <2> QED
    BY <2>3, <2>5, FS_Subset
<1>5. \A p, q : <<p, q>> \in Above(P) <=>
        /\ p \in P /\ q \in P
        /\ p[1].newest > q[1].newest \/ (p[1] = q[1] /\ p[2] < q[2])
  BY DEF Above
<1>6. \A p \in P : p[1].newest \in Int /\ p[2] \in Int
  <2>1. \A g \in G : g.newest \in Int
    BY DEF Grouping
  <2>2. \A i \in 0 .. Len(fs) : i \in Int
    BY <1>1
  <2> QED
    BY <1>3, <2>1, <2>2
<1>7. \A p, q \in P : p[1].newest = q[1].newest => p[1] = q[1]
  BY <1>3 DEF Grouping
<1>8. \A p \in P : <<p, p>> \notin Above(P)
  BY <1>5, <1>6
<1>9. ASSUME NEW p \in P, NEW q \in P, NEW r \in P,
             <<p, q>> \in Above(P), <<q, r>> \in Above(P)
      PROVE  <<p, r>> \in Above(P)
  BY <1>5, <1>6, <1>9
<1>10. ASSUME NEW p \in P, NEW q \in P
       PROVE  p = q \/ <<p, q>> \in Above(P) \/ <<q, p>> \in Above(P)
  <2>1. CASE p[1] = q[1]
    <3>1. p[2] = q[2] => p = q
      BY <1>3, <2>1
    <3> QED
      BY <1>5, <1>6, <2>1, <3>1
  <2>2. CASE p[1] # q[1]
    BY <1>5, <1>6, <1>7, <2>2
  <2> QED
    BY <2>1, <2>2
<1>11. Orders(Above(P), P)
  BY <1>8, <1>9, <1>10 DEF Orders
<1> QED
  BY <1>3, <1>4, <1>11 DEF P

\* The rows of a tree: each is of a group with flows, whose header is among them.
TreeOf(fs, by, rs) ==
  /\ rs \in Seq(Rows)
  /\ \A i \in 1 .. Len(rs) :
       /\ \E f \in Range(fs) : treeKeyFn(by, f) = rs[i].key
       /\ \E j \in 1 .. Len(rs) : rs[j] = Header(rs[i].key)

\* flattenTree makes a tree.
LEMMA TreeShape ==
  ASSUME NEW fs, Listing(fs), NEW by, NEW G, Grouping(fs, by, G), NEW expanded
  PROVE  TreeOf(fs, by, flattenTree(fs, G, expanded))
<1> DEFINE P == Places(G, expanded)
           n == Cardinality(P)
           order == InOrder(P, Above(P))
           rs == flattenTree(fs, G, expanded)
<1>1. /\ IsFiniteSet(P) /\ Orders(Above(P), P)
      /\ \A p \in P : p[1] \in G /\ p[2] \in 0 .. Len(fs) /\ <<p[1], 0>> \in P
  BY PlacesOrdered
<1>2. rs = [r \in DOMAIN order |-> RowAt(fs, order[r])]
  BY DEF flattenTree
<1> HIDE DEF P
<1>3. /\ n \in Nat /\ order \in Seq(P) /\ Len(order) = n
      /\ \A p \in P : \E i \in 1 .. n : order[i] = p
  <2> DEFINE R == Above(P)
  <2>1. Orders(R, P)
    BY <1>1
  <2> HIDE DEF R
  <2>2. /\ Cardinality(P) \in Nat
        /\ InOrder(P, R) \in Seq(P) /\ Len(InOrder(P, R)) = Cardinality(P)
        /\ \A x \in P : \E i \in 1 .. Cardinality(P) :
             InOrder(P, R)[i] = x /\ Cardinality(Before(P, R, x)) = i - 1
    BY <1>1, <2>1, InOrderLists
  <2> QED
    BY <2>2 DEF R
<1> HIDE DEF order, n
<1>4. ASSUME NEW p \in P
      PROVE  /\ RowAt(fs, p) \in Rows /\ RowAt(fs, p).key = p[1].key
             /\ \E f \in Range(fs) : treeKeyFn(by, f) = p[1].key
             /\ RowAt(fs, <<p[1], 0>>) = Header(p[1].key)
  <2>1. p[1] \in G /\ p[2] \in 0 .. Len(fs)
    BY <1>1
  <2>2. p[1].key \in Keys /\ \E f \in Range(fs) : treeKeyFn(by, f) = p[1].key
    BY <2>1 DEF Grouping
  <2>3. fs \in Seq(Metas) /\ Len(fs) \in Nat
    BY DEF Listing
  <2>4. p[2] # 0 => fs[p[2]].id \in Flows
    <3>1. p[2] # 0 => fs[p[2]] \in Metas
      BY <2>1, <2>3
    <3>2. \A f \in Metas : f.id \in Flows
      BY DEF Metas
    <3> QED
      BY <3>1, <3>2
  <2>5. RowAt(fs, p) \in Rows /\ RowAt(fs, p).key = p[1].key
    BY <2>2, <2>4 DEF RowAt, Header, FlowRow, Rows
  <2> QED
    BY <2>2, <2>5 DEF RowAt
<1>5. \A r \in 1 .. n : order[r] \in P
  BY <1>3
<1>6. rs = [r \in 1 .. n |-> RowAt(fs, order[r])]
  BY <1>2, <1>3
<1> HIDE DEF rs
<1>7. rs \in Seq(Rows) /\ Len(rs) = n /\ \A r \in 1 .. n : rs[r] = RowAt(fs, order[r])
  <2>1. \A r \in 1 .. n : RowAt(fs, order[r]) \in Rows
    BY <1>4, <1>5
  <2> HIDE DEF n
  <2>2. n \in Nat
    BY <1>3
  <2> QED
    BY <1>6, <2>1, <2>2
<1>8. ASSUME NEW i \in 1 .. n
      PROVE  /\ \E f \in Range(fs) : treeKeyFn(by, f) = rs[i].key
             /\ \E j \in 1 .. n : rs[j] = Header(rs[i].key)
  <2> DEFINE p == order[i]
  <2>1. p \in P /\ rs[i].key = p[1].key
    BY <1>4, <1>5, <1>7
  <2>2. <<p[1], 0>> \in P
    BY <1>1, <2>1
  <2>3. PICK j \in 1 .. n : order[j] = <<p[1], 0>>
    BY <1>3, <2>2
  <2>4. rs[j] = Header(p[1].key)
    BY <1>4, <1>7, <2>1, <2>3
  <2> QED
    BY <1>4, <2>1, <2>4
<1> QED
  BY <1>7, <1>8 DEF TreeOf, rs

\* flattenFocus makes rows without headers.
LEMMA FocusShape ==
  ASSUME NEW fs, Listing(fs), NEW by, NEW G, Grouping(fs, by, G), NEW key
  PROVE  LET rs == flattenFocus(fs, G, key)
         IN rs \in Seq(Rows) /\ \A i \in 1 .. Len(rs) : ~rs[i].header
<1> DEFINE P == UNION {g.flows : g \in {h \in G : h.key = key}}
           shown == Kept(fs, P)
           n == Cardinality(P)
           rs == flattenFocus(fs, G, key)
<1>1. rs = [i \in DOMAIN shown |-> FlowRow(key, shown[i].id)]
  BY DEF flattenFocus
<1>2. Len(fs) \in Nat /\ \A j \in 1 .. Len(fs) : fs[j].id \in Flows
  <2>1. Len(fs) \in Nat /\ \A j \in 1 .. Len(fs) : fs[j] \in Metas
    BY DEF Listing
  <2>2. \A f \in Metas : f.id \in Flows
    BY DEF Metas
  <2> QED
    BY <2>1, <2>2
<1>3. \A p \in P : p \in 1 .. Len(fs) /\ key \in Keys
  <2> TAKE p \in P
  <2>1. PICK g \in G : g.key = key /\ p \in g.flows
    OBVIOUS
  <2> QED
    BY <2>1 DEF Grouping
<1> HIDE DEF P, rs
<1>4. P \in SUBSET (1 .. Len(fs))
  BY <1>3
<1>5. Sublist(shown, fs, P)
  BY <1>2, <1>4, KeptIsSublist
<1> HIDE DEF shown
<1>6. n \in Nat /\ shown = [i \in 1 .. n |-> shown[i]]
  BY <1>5 DEF Sublist
<1>7. \A i \in 1 .. n : \E p \in P : shown[i] = fs[p]
  <2>1. PICK places \in [1 .. n -> P] : \A i \in 1 .. n : shown[i] = fs[places[i]]
    BY <1>5 DEF Sublist
  <2> HIDE DEF n
  <2> QED
    BY <2>1
<1> HIDE DEF n
<1>8. \A i \in 1 .. n : FlowRow(key, shown[i].id) \in Rows /\ ~FlowRow(key, shown[i].id).header
  <2> TAKE i \in 1 .. n
  <2>1. shown[i].id \in Flows /\ key \in Keys
    BY <1>2, <1>3, <1>7
  <2> QED
    BY <2>1 DEF FlowRow, Rows
<1>9. rs = [i \in 1 .. n |-> FlowRow(key, shown[i].id)]
  BY <1>1, <1>6
<1>10. rs \in Seq(Rows) /\ Len(rs) = n /\ \A i \in 1 .. n : ~rs[i].header
  BY <1>6, <1>8, <1>9
<1> QED
  BY <1>10 DEF rs

\* Reading the store again makes the rows those of the mode and of the grouping.
LEMMA RefreshMakesRows ==
  ASSUME stored \in Seq(Flows), treeRows \in Seq(Rows), height' \in Nat,
         NEW mode \in {"flat", "tree", "focus"}, refreshFlows(mode)
  PROVE  /\ flows' \in Seq(Metas) /\ treeRows' \in Seq(Rows)
         /\ listMode' \in {"flat", "tree", "focus"}
         /\ RowsAreOfGrouping'
<1> DEFINE limit == IF mode = "flat" THEN Max({height' - 4, FlatLimit}) ELSE 0
           fs == List(storeFilter', limit).page
           G == buildGroups(fs, treeGroupBy')
           focused == flattenFocus(fs, G, focusKey')
           tree == flattenTree(fs, G, groupExpanded')
<1>1. /\ flows' = fs
      /\ listMode' = IF mode = "focus" /\ focused = <<>> THEN "tree" ELSE mode
      /\ treeRows' = CASE mode = "flat" -> treeRows
                       [] mode = "focus" /\ focused # <<>> -> focused
                       [] OTHER -> tree
  BY DEF refreshFlows
<1>2. limit \in Nat
  <2>1. height' - 4 \in Int /\ FlatLimit \in Int /\ FlatLimit > 0
    BY FlowListAssumption
  <2>2. Max({height' - 4, FlatLimit}) \in {height' - 4, FlatLimit} /\ Max({height' - 4, FlatLimit}) >= FlatLimit
    BY <2>1, MaxOfTwo
  <2>3. Max({height' - 4, FlatLimit}) \in Nat
    BY <2>1, <2>2
  <2> QED
    BY <2>3
<1> HIDE DEF limit
<1>3. Listing(fs)
  BY <1>2, ListShape
<1> HIDE DEF fs
<1>4. Grouping(fs, treeGroupBy', G)
  BY <1>3, GroupsShape
<1> HIDE DEF G
<1>5. TreeOf(fs, treeGroupBy', tree)
  BY <1>3, <1>4, TreeShape
<1>6. focused \in Seq(Rows) /\ \A i \in 1 .. Len(focused) : ~focused[i].header
  BY <1>3, <1>4, FocusShape
<1> HIDE DEF tree, focused
<1>7. flows' \in Seq(Metas) /\ tree \in Seq(Rows)
  BY <1>1, <1>3, <1>5 DEF Listing, TreeOf
<1>8. CASE mode = "flat"
  <2>1. listMode' = "flat" /\ treeRows' = treeRows
    BY <1>1, <1>8
  <2>2. RowsAreOfGrouping'
    BY <2>1 DEF RowsAreOfGrouping, HeadersHaveFlows, FocusShowsFlows
  <2> QED
    BY <1>7, <2>1, <2>2
<1>9. CASE mode = "focus" /\ focused # <<>>
  <2>1. listMode' = "focus" /\ treeRows' = focused
    BY <1>1, <1>9
  <2>2. DOMAIN treeRows' = 1 .. Len(focused)
    BY <1>6, <2>1
  <2>3. RowsAreOfGrouping'
    BY <1>6, <1>9, <2>1, <2>2 DEF RowsAreOfGrouping, HeadersHaveFlows, FocusShowsFlows
  <2> QED
    BY <1>6, <1>7, <2>1, <2>3
<1>10. CASE mode # "flat" /\ ~(mode = "focus" /\ focused # <<>>)
  <2>1. listMode' = "tree" /\ treeRows' = tree
    BY <1>1, <1>10
  <2>2. HeadersHaveFlows'
    <3> SUFFICES ASSUME NEW i \in DOMAIN tree
                 PROVE  /\ \E f \in Range(fs) : treeKeyFn(treeGroupBy', f) = tree[i].key
                        /\ Header(tree[i].key) \in Range(tree)
      BY <1>1, <2>1 DEF HeadersHaveFlows, treeKeyFn
    <3>1. i \in 1 .. Len(tree)
      BY <1>7
    <3>2. \E j \in 1 .. Len(tree) : tree[j] = Header(tree[i].key)
      BY <1>5, <3>1 DEF TreeOf
    <3>3. Header(tree[i].key) \in Range(tree)
      BY <1>7, <3>2, RangeOf
    <3> QED
      BY <1>5, <3>1, <3>3 DEF TreeOf
  <2>3. FocusShowsFlows'
    BY <2>1 DEF FocusShowsFlows
  <2> QED
    BY <1>7, <2>1, <2>2, <2>3 DEF RowsAreOfGrouping
<1> QED
  BY <1>8, <1>9, <1>10

-----------------------------------------------------------------------------
(* One operation at a time. *)

\* What a pass leaves when it draws the list and the rows are in order.
LEMMA PassKeeps ==
  ASSUME stored' \in Seq(Flows), captured' \in Nat, height' \in Nat, flows' \in Seq(Metas),
         treeRows' \in Seq(Rows),
         listMode' \in {"flat", "tree", "focus"}, RowsAreOfGrouping',
         selectedIdx' \in Int, selectedIdx' >= -1, NEW offset \in Nat, View(offset)
  PROVE  FlInv'
<1>1. visibleLen' \in Nat
  BY DEF visibleLen
<1>2. /\ CursorVisible' /\ (panicked' => selectedIdx' = -1) /\ panicked' \in BOOLEAN
      /\ listOffset' \in Int /\ (~panicked' => listOffset' >= 0)
  BY <1>1, ViewShows
<1>3. PanicOnlyBelow'
  BY <1>2 DEF PanicOnlyBelow
<1> QED
  BY <1>2, <1>3 DEF FlInv, FlTypes

\* Rows that are not touched stay in order.
LEMMA RowsStay ==
  ASSUME RowsAreOfGrouping, flows' = flows, treeRows' = treeRows, treeGroupBy' = treeGroupBy,
         listMode' = listMode \/ listMode' = "flat"
  PROVE  RowsAreOfGrouping'
<1>1. CASE listMode' = "flat"
  BY <1>1 DEF RowsAreOfGrouping, HeadersHaveFlows, FocusShowsFlows
<1>2. CASE listMode' = listMode
  BY <1>2 DEF RowsAreOfGrouping, HeadersHaveFlows, FocusShowsFlows, treeKeyFn
<1> QED
  BY <1>1, <1>2

\* A pass that reads the store again.
LEMMA RefreshPass ==
  ASSUME FlInv, UNCHANGED world, height' \in Nat, selectedIdx' \in Int, selectedIdx' >= -1,
         NEW mode \in {"flat", "tree", "focus"}, refreshFlows(mode),
         NEW offset \in Nat, View(offset)
  PROVE  FlInv'
<1>1. stored \in Seq(Flows) /\ captured \in Nat /\ treeRows \in Seq(Rows)
  BY DEF FlInv, FlTypes
<1>2. stored' = stored /\ captured' = captured
  BY DEF world
<1>3. /\ flows' \in Seq(Metas) /\ treeRows' \in Seq(Rows)
      /\ listMode' \in {"flat", "tree", "focus"}
      /\ RowsAreOfGrouping'
  BY <1>1, RefreshMakesRows
<1> QED
  BY <1>1, <1>2, <1>3, PassKeeps

\* A pass that does not.
LEMMA StillPass ==
  ASSUME FlInv, UNCHANGED world, height' \in Nat, selectedIdx' \in Int, selectedIdx' >= -1,
         flows' = flows, treeRows' = treeRows, treeGroupBy' = treeGroupBy,
         listMode' = listMode \/ listMode' = "flat",
         NEW offset \in Nat, View(offset)
  PROVE  FlInv'
<1>1. /\ stored \in Seq(Flows) /\ captured \in Nat /\ treeRows \in Seq(Rows)
      /\ flows \in Seq(Metas) /\ listMode \in {"flat", "tree", "focus"} /\ RowsAreOfGrouping
  BY DEF FlInv, FlTypes
<1>2. stored' = stored /\ captured' = captured
  BY DEF world
<1>3. RowsAreOfGrouping'
  BY <1>1, RowsStay
<1> QED
  BY <1>1, <1>2, <1>3, PassKeeps

\* A step that does not draw the list: nothing the cursor depends on changes.
LEMMA UndrawnStep ==
  ASSUME FlInv, ~panicked, stored' \in Seq(Flows), captured' \in Nat,
         height' = height, flows' = flows, treeRows' = treeRows, listMode' = listMode,
         treeGroupBy' = treeGroupBy, listOffset' = listOffset,
         selectedIdx' \in Int, selectedIdx' >= -1, panicked' \in BOOLEAN,
         panicked' => selectedIdx' = -1,
         \/ screen' \in {"detail", "diff"}
         \/ screen' = screen /\ selectedIdx' = selectedIdx
  PROVE  FlInv'
<1>1. FlTypes'
  BY DEF FlInv, FlTypes
<1>2. PanicOnlyBelow'
  BY DEF PanicOnlyBelow
<1>3. RowsAreOfGrouping'
  BY RowsStay DEF FlInv
<1>4. maxRows' = maxRows /\ visibleLen' = visibleLen
  BY DEF maxRows, visibleLen
<1>5. CursorVisible'
  <2>1. CASE screen' \in {"detail", "diff"}
    BY <2>1 DEF CursorVisible
  <2>2. CASE screen' = screen /\ selectedIdx' = selectedIdx
    BY <1>4, <2>2 DEF CursorVisible, FlInv
  <2> QED
    BY <2>1, <2>2
<1> QED
  BY <1>1, <1>2, <1>3, <1>5 DEF FlInv

\* What every operation relies on.
LEMMA FlFacts ==
  ASSUME FlInv
  PROVE  /\ stored \in Seq(Flows) /\ captured \in Nat /\ height \in Nat
         /\ Len(flows) \in Nat /\ DOMAIN flows = 1 .. Len(flows)
         /\ Len(treeRows) \in Nat /\ DOMAIN treeRows = 1 .. Len(treeRows)
         /\ visibleLen \in Nat /\ pageSize \in Nat
         /\ listMode \in {"flat", "tree", "focus"}
         /\ selectedIdx \in Int /\ selectedIdx >= -1
         /\ panicked \in BOOLEAN /\ (~panicked => listOffset \in Nat)
<1>1. FlTypes
  BY DEF FlInv
<1>2. pageSize \in Nat
  <2>1. height - 5 \in Int /\ 1 \in Int
    BY <1>1 DEF FlTypes
  <2>2. pageSize \in {height - 5, 1} /\ pageSize >= 1
    BY <2>1, MaxOfTwo DEF pageSize
  <2>3. pageSize \in Int
    BY <2>1, <2>2
  <2> QED
    BY <2>2, <2>3
<1> QED
  BY <1>1, <1>2 DEF FlTypes, visibleLen

\* The program starts with an empty list.
LEMMA FlInitInv == FLInit => FlInv
<1> SUFFICES ASSUME FLInit PROVE FlInv
  OBVIOUS
<1>1. \A S : <<>> \in Seq(S)
  OBVIOUS
<1>2. FlTypes
  <2>1. stored \in Seq(Flows) /\ flows \in Seq(Metas) /\ treeRows \in Seq(Rows)
    BY <1>1 DEF FLInit
  <2>2. /\ captured = 0 /\ height = 0 /\ selectedIdx = 0 /\ listOffset = 0
        /\ listMode = "flat" /\ panicked = FALSE
    BY DEF FLInit
  <2>3. captured \in Nat /\ height \in Nat
    BY <2>2
  <2>4. selectedIdx \in Int /\ selectedIdx >= -1 /\ listOffset \in Int /\ listOffset >= 0
    BY <2>2
  <2>5. listMode \in {"flat", "tree", "focus"} /\ panicked \in BOOLEAN
    BY <2>2
  <2> QED
    BY <2>1, <2>3, <2>4, <2>5 DEF FlTypes
<1>3. height = 0
  BY DEF FLInit
<1>4. CursorVisible
  <2>1. maxRows \in Nat /\ (maxRows > 0 => height > 0)
    BY <1>3, MaxRowsFit DEF HasRows
  <2> QED
    BY <1>3, <2>1 DEF CursorVisible
<1>5. PanicOnlyBelow /\ RowsAreOfGrouping
  BY DEF FLInit, PanicOnlyBelow, RowsAreOfGrouping, HeadersHaveFlows, FocusShowsFlows
<1> QED
  BY <1>2, <1>4, <1>5 DEF FlInv

\* The proxy adds a request or the resolver names a process.
LEMMA WorldInv ==
  ASSUME FlInv, Captured \/ \E f \in Flows : Resolved(f)
  PROVE  FlInv'
<1>1. stored \in Seq(Flows) /\ captured \in Nat /\ selectedIdx \in Int /\ selectedIdx >= -1
  BY FlFacts
<1>2. stored' \in Seq(Flows) /\ captured' \in Nat
  <2>1. CASE Captured
    <3> DEFINE longer == <<captured'>> \o stored
               n == Min({Capacity, Len(stored) + 1})
    <3>1. captured' \in Nat /\ captured' \in Flows
      BY <1>1, <2>1, FlowListAssumption DEF Captured, Flows
    <3>2. <<captured'>> \in Seq(Flows)
      BY <3>1
    <3>3. longer \in Seq(Flows) /\ Len(longer) = Len(stored) + 1
      BY <1>1, <3>2
    <3>4. n \in 0 .. Len(stored) + 1
      <4>1. Capacity \in Int /\ Capacity > 0 /\ Len(stored) + 1 \in Int /\ Len(stored) + 1 > 0
        BY <1>1, FlowListAssumption
      <4>2. n \in {Capacity, Len(stored) + 1} /\ n <= Len(stored) + 1
        BY <4>1, MinOfTwo
      <4> QED
        BY <4>1, <4>2
    <3>5. stored' = SubSeq(longer, 1, n)
      BY <2>1 DEF Captured
    <3> HIDE DEF longer, n
    <3>6. \A i \in 1 .. n : i \in 1 .. Len(longer) /\ longer[i] \in Flows
      BY <1>1, <3>3, <3>4
    <3>7. SubSeq(longer, 1, n) \in Seq(Flows)
      BY <1>1, <3>3, <3>4, <3>6
    <3> QED
      BY <3>1, <3>5, <3>7
  <2>2. CASE \E f \in Flows : Resolved(f)
    BY <1>1, <2>2 DEF Resolved
  <2> QED
    BY <2>1, <2>2
<1>3. /\ ~panicked /\ height' = height /\ flows' = flows /\ treeRows' = treeRows
      /\ listMode' = listMode /\ treeGroupBy' = treeGroupBy /\ listOffset' = listOffset
      /\ selectedIdx' = selectedIdx /\ panicked' = FALSE /\ screen' = screen
  BY FlFacts DEF Captured, Resolved, grouping, rows, opened
<1> QED
  BY <1>1, <1>2, <1>3, UndrawnStep

\* The 100 ms tick, a resize, and keystrokes in the filter input.
LEMMA MessagesInv ==
  ASSUME FlInv, \/ Tick \/ \E h \in Heights : WindowSize(h)
                \/ \E f \in Hosts \cup {Everything} : applyFilter(f)
  PROVE  FlInv'
<1> USE FlFacts
<1>1. CASE Tick
  <2>1. /\ UNCHANGED world /\ height' = height /\ selectedIdx' = selectedIdx
        /\ refreshFlows(listMode) /\ View(listOffset) /\ ~panicked
    BY <1>1 DEF Tick
  <2> QED
    BY <2>1, RefreshPass
<1>2. ASSUME NEW h \in Heights, WindowSize(h) PROVE FlInv'
  <2>1. /\ UNCHANGED world /\ height' = h /\ selectedIdx' = selectedIdx
        /\ flows' = flows /\ treeRows' = treeRows /\ treeGroupBy' = treeGroupBy
        /\ listMode' = listMode /\ View(listOffset) /\ ~panicked
    BY <1>2 DEF WindowSize, grouping, rows
  <2>2. height' \in Nat
    BY <2>1, FlowListAssumption
  <2> QED
    BY <2>1, <2>2, StillPass
<1>3. ASSUME NEW f \in Hosts \cup {Everything}, applyFilter(f) PROVE FlInv'
  <2>1. /\ UNCHANGED world /\ height' = height /\ selectedIdx' = 0
        /\ flows' = flows /\ treeRows' = treeRows /\ treeGroupBy' = treeGroupBy
        /\ listMode' = listMode /\ View(0)
    BY <1>3 DEF applyFilter, grouping, rows
  <2> QED
    BY <2>1, StillPass
<1> QED
  BY <1>1, <1>2, <1>3

\* Keys that move the cursor.
LEMMA MovesInv ==
  ASSUME FlInv, NEW i \in Int, i >= -1, NEW offset \in Nat, MoveTo(i, offset)
  PROVE  FlInv'
<1>1. /\ UNCHANGED world /\ height' = height /\ selectedIdx' = i
      /\ flows' = flows /\ treeRows' = treeRows /\ treeGroupBy' = treeGroupBy
      /\ listMode' = listMode /\ View(offset)
  BY DEF MoveTo, grouping, rows
<1>2. height' \in Nat
  BY <1>1, FlFacts
<1> QED
  BY <1>1, <1>2, StillPass

\* Where each of them moves it.
LEMMA NavInv ==
  ASSUME FlInv, \/ Down \/ Up \/ PageDown \/ PageUp \/ JumpFirst \/ JumpLast
                \/ jumpToParentGroup
  PROVE  FlInv'
<1>1. /\ visibleLen \in Nat /\ pageSize \in Nat /\ selectedIdx \in Int /\ selectedIdx >= -1
      /\ (~panicked => listOffset \in Nat)
      /\ DOMAIN treeRows = 1 .. Len(treeRows) /\ Len(treeRows) \in Nat
  BY FlFacts
<1>2. ~panicked
  BY DEF Down, Up, PageDown, PageUp, JumpFirst, JumpLast, jumpToParentGroup, MoveTo
<1>3. CASE Down \/ Up \/ JumpFirst \/ JumpLast
  <2>1. PICK i \in Int, offset \in Nat : i >= -1 /\ MoveTo(i, offset)
    BY <1>1, <1>2, <1>3 DEF Down, Up, JumpFirst, JumpLast
  <2> QED
    BY <2>1, MovesInv
<1>4. CASE PageDown
  <2> DEFINE i == Min({selectedIdx + pageSize, visibleLen - 1})
  <2>1. selectedIdx + pageSize \in Int /\ visibleLen - 1 \in Int
        /\ selectedIdx + pageSize >= -1 /\ visibleLen - 1 >= -1
    BY <1>1
  <2>2. i \in {selectedIdx + pageSize, visibleLen - 1}
    BY <2>1, MinOfTwo
  <2>3. MoveTo(i, listOffset)
    BY <1>4 DEF PageDown
  <2> HIDE DEF i
  <2>4. i \in Int /\ i >= -1
    BY <2>1, <2>2
  <2> QED
    BY <1>1, <1>2, <2>3, <2>4, MovesInv
<1>5. CASE PageUp
  <2> DEFINE i == Max({selectedIdx - pageSize, 0})
  <2>1. selectedIdx - pageSize \in Int /\ 0 \in Int
    BY <1>1
  <2>2. i \in {selectedIdx - pageSize, 0} /\ i >= 0
    BY <2>1, MaxOfTwo
  <2>3. MoveTo(i, listOffset)
    BY <1>5 DEF PageUp
  <2> HIDE DEF i
  <2>4. i \in Int /\ i >= -1
    BY <2>1, <2>2
  <2> QED
    BY <1>1, <1>2, <2>3, <2>4, MovesInv
<1>6. CASE jumpToParentGroup
  <2>1. PICK i \in DOMAIN treeRows : MoveTo(i - 1, listOffset)
    BY <1>6 DEF jumpToParentGroup
  <2>2. i - 1 \in Int /\ i - 1 >= -1
    BY <1>1
  <2> QED
    BY <1>1, <1>2, <2>1, <2>2, MovesInv
<1> QED
  BY <1>3, <1>4, <1>5, <1>6

\* Keys that change the mode or the grouping.
LEMMA ModesInv ==
  ASSUME FlInv, FlatT \/ TreeT \/ FocusEsc \/ FocusT
  PROVE  FlInv'
<1>1. height \in Nat
  BY FlFacts
<1>2. CASE FocusT
  <2>1. /\ UNCHANGED world /\ height' = height /\ selectedIdx' = 0
        /\ flows' = flows /\ treeRows' = treeRows /\ treeGroupBy' = treeGroupBy
        /\ listMode' = "flat" /\ View(0)
    BY <1>2 DEF FocusT, grouping
  <2> QED
    BY <1>1, <2>1, StillPass
<1>3. CASE FlatT \/ TreeT \/ FocusEsc
  <2>1. PICK mode \in {"flat", "tree", "focus"}, by \in {"host", "process", treeGroupBy} :
          SwitchTo(mode, by)
    BY <1>3 DEF FlatT, TreeT, FocusEsc
  <2>2. /\ UNCHANGED world /\ height' = height /\ selectedIdx' = 0
        /\ refreshFlows(mode) /\ View(0)
    BY <2>1 DEF SwitchTo
  <2> QED
    BY <1>1, <2>2, RefreshPass
<1> QED
  BY <1>2, <1>3

\* Keys in the tree that read the row under the cursor.
LEMMA TreeKeysInv ==
  ASSUME FlInv, Expand \/ Collapse \/ EnterHeader \/ Focus
  PROVE  FlInv'
<1>1. height \in Nat /\ selectedIdx \in Int /\ selectedIdx >= -1 /\ (~panicked => listOffset \in Nat)
  BY FlFacts
<1>2. ~panicked
  BY DEF Expand, Collapse, EnterHeader, Focus, InList
<1>3. CASE Focus
  <2>1. /\ UNCHANGED world /\ height' = height /\ selectedIdx' = 0
        /\ refreshFlows("focus") /\ View(listOffset)
    BY <1>3 DEF Focus
  <2> QED
    BY <1>1, <1>2, <2>1, RefreshPass
<1>4. CASE Expand \/ Collapse \/ EnterHeader
  <2>1. PICK keys : SetExpanded(keys)
    BY <1>4 DEF Expand, Collapse, EnterHeader
  <2>2. /\ UNCHANGED world /\ height' = height /\ selectedIdx' = selectedIdx
        /\ refreshFlows("tree") /\ View(listOffset)
    BY <2>1 DEF SetExpanded
  <2> QED
    BY <1>1, <1>2, <2>2, RefreshPass
<1> QED
  BY <1>3, <1>4

\* A key that indexes below the first row ends the program.
LEMMA ReadPanicsInv ==
  ASSUME FlInv, ReadPanics
  PROVE  FlInv'
<1>1. /\ ~panicked /\ panicked' = TRUE /\ height' = height /\ flows' = flows
      /\ treeRows' = treeRows /\ listMode' = listMode /\ treeGroupBy' = treeGroupBy
      /\ listOffset' = listOffset /\ selectedIdx' = selectedIdx /\ screen' = screen
      /\ stored' = stored /\ captured' = captured
  BY DEF ReadPanics, world, grouping, rows, opened
<1>2. PICK s \in {flows, treeRows} : OnRow(s) /\ selectedIdx + 1 \notin DOMAIN s
  BY DEF ReadPanics
<1>3. /\ Len(s) \in Nat /\ DOMAIN s = 1 .. Len(s)
      /\ selectedIdx \in Int /\ selectedIdx >= -1
      /\ stored \in Seq(Flows) /\ captured \in Nat
  BY FlFacts
<1>4. selectedIdx = -1
  BY <1>2, <1>3 DEF OnRow
<1> QED
  BY <1>1, <1>3, <1>4, UndrawnStep

\* Opening a flow, going to its neighbour, comparing and coming back.
LEMMA ScreensInv ==
  ASSUME FlInv, \/ openFlowDetail \/ \E delta \in {1, -1} : nextFlow(delta)
                \/ Back \/ handleDiffMark
  PROVE  FlInv'
<1>1. /\ stored \in Seq(Flows) /\ captured \in Nat /\ height \in Nat
      /\ Len(flows) \in Nat /\ DOMAIN flows = 1 .. Len(flows)
      /\ selectedIdx \in Int /\ selectedIdx >= -1 /\ (~panicked => listOffset \in Nat)
  BY FlFacts
<1>2. CASE openFlowDetail
  <2>1. /\ ~panicked /\ panicked' = FALSE /\ height' = height /\ flows' = flows
        /\ treeRows' = treeRows /\ listMode' = listMode /\ treeGroupBy' = treeGroupBy
        /\ listOffset' = listOffset /\ selectedIdx' = selectedIdx /\ screen' = "detail"
        /\ stored' = stored /\ captured' = captured
    BY <1>2, FlFacts DEF openFlowDetail, world, grouping, rows
  <2> QED
    BY <1>1, <2>1, UndrawnStep
<1>3. ASSUME NEW delta \in {1, -1}, nextFlow(delta) PROVE FlInv'
  <2>1. /\ ~panicked /\ panicked' = FALSE /\ height' = height /\ flows' = flows
        /\ treeRows' = treeRows /\ listMode' = listMode /\ treeGroupBy' = treeGroupBy
        /\ listOffset' = listOffset /\ screen' = "detail"
        /\ stored' = stored /\ captured' = captured
    BY <1>3, FlFacts DEF nextFlow, world, grouping, rows
  <2>2. PICK i \in DOMAIN flows : i + delta \in DOMAIN flows /\ selectedIdx' = i + delta - 1
    BY <1>3 DEF nextFlow
  <2>3. selectedIdx' \in Int /\ selectedIdx' >= -1
    BY <1>1, <2>2
  <2> QED
    BY <1>1, <2>1, <2>3, UndrawnStep
<1>4. CASE Back \/ handleDiffMark
  <2>1. /\ UNCHANGED world /\ height' = height /\ selectedIdx' = selectedIdx
        /\ flows' = flows /\ treeRows' = treeRows /\ treeGroupBy' = treeGroupBy
        /\ listMode' = listMode /\ View(listOffset) /\ ~panicked
    BY <1>4 DEF Back, handleDiffMark, grouping, rows
  <2> QED
    BY <1>1, <2>1, StillPass
<1> QED
  BY <1>2, <1>3, <1>4

\* Every step keeps the invariant.
LEMMA FlNextInv == FlInv /\ [FLNext]_flVars => FlInv'
<1> SUFFICES ASSUME FlInv, [FLNext]_flVars PROVE FlInv'
  OBVIOUS
<1>1. CASE UNCHANGED flVars
  <2>1. /\ stored' = stored /\ captured' = captured /\ height' = height /\ flows' = flows
        /\ treeRows' = treeRows /\ listMode' = listMode /\ treeGroupBy' = treeGroupBy
        /\ selectedIdx' = selectedIdx /\ listOffset' = listOffset /\ screen' = screen
        /\ panicked' = panicked
    BY <1>1 DEF flVars, world, grouping, rows, opened
  <2>2. FlTypes' /\ PanicOnlyBelow' /\ RowsAreOfGrouping'
    BY <2>1, RowsStay DEF FlInv, FlTypes, PanicOnlyBelow
  <2>3. CursorVisible'
    BY <2>1 DEF FlInv, CursorVisible, visibleLen, maxRows
  <2> QED
    BY <2>2, <2>3 DEF FlInv
<1>2. CASE FLNext
  BY <1>2, WorldInv, MessagesInv, NavInv, ModesInv, TreeKeysInv, ReadPanicsInv, ScreensInv
     DEF FLNext
<1> QED
  BY <1>1, <1>2

-----------------------------------------------------------------------------

\* The inductive invariant of the flow list.
THEOREM FlowListInvariant == FLSpec => []FlInv
  BY FlInitInv, FlNextInv, PTL DEF FLSpec

\* A cursor that is on a row is inside the viewport whenever the list is drawn, for any
\* number of rows and any terminal height.
THEOREM CursorStaysVisible == FLSpec => []CursorVisible
<1>1. FlInv => CursorVisible
  BY DEF FlInv
<1> QED
  BY <1>1, FlowListInvariant, PTL

\* The only index out of range is the -1 that page down leaves on an empty list.
THEOREM NoPanicFromAbove == FLSpec => []PanicOnlyBelow
<1>1. FlInv => PanicOnlyBelow
  BY DEF FlInv
<1> QED
  BY <1>1, FlowListInvariant, PTL

\* Rows are those of the mode and of the grouping in force.
THEOREM RowsFollowGrouping == FLSpec => []RowsAreOfGrouping
<1>1. FlInv => RowsAreOfGrouping
  BY DEF FlInv
<1> QED
  BY <1>1, FlowListInvariant, PTL
=============================================================================
