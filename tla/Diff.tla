--------------------------------- MODULE Diff ---------------------------------
(***************************************************************************)
(* The comparison of two marked flows (diff/diff.go).  A body is the       *)
(* non-empty sequence of its lines, as strings.Split gives them; names,    *)
(* values and lines are strings told apart only by equality, and Empty is  *)
(* the empty one.  A flow without data has no headers and empty bodies.    *)
(***************************************************************************)
EXTENDS Queries, Integers, FiniteSets, SequencesExt, Ordering

CONSTANTS
  Texts,       \* what a line, a field or the value of a header may be
  FlowPairs,   \* pairs of flows asked of Compare
  BodyPairs,   \* pairs of bodies asked of diffBody
  MaxLines     \* 200: longer bodies are shown as removed and added

Empty == ""
EmptyBody == <<Empty>>

Ctx(c) == [type |-> "ctx", content |-> c]
Del(c) == [type |-> "del", content |-> c]
Add(c) == [type |-> "add", content |-> c]

-----------------------------------------------------------------------------
(* The longest common subsequence, and the walk through its table.         *)

\* Where the two loops can be: in front of line i of a and line j of b, or behind the last.
Spots(a, b) == (1 .. Len(a) + 1) \X (1 .. Len(b) + 1)

GreaterOf(m, n) == IF m >= n THEN m ELSE n

lcsTable(a, b) ==
  LET dp[p \in Spots(a, b)] ==
        LET i == p[1]
            j == p[2]
        IN  IF i > Len(a) \/ j > Len(b) THEN 0
            ELSE IF a[i] = b[j] THEN dp[<<i + 1, j + 1>>] + 1
            ELSE GreaterOf(dp[<<i + 1, j>>], dp[<<i, j + 1>>])
  IN  dp

\* The walk takes whatever fits without asking the table.
simpleDiffGreedy(a, b) ==
  LET walk[p \in Spots(a, b)] ==
        LET i == p[1]
            j == p[2]
        IN  IF i > Len(a) /\ j > Len(b) THEN << >>
            ELSE IF i <= Len(a) /\ j <= Len(b) /\ a[i] = b[j]
              THEN <<Ctx(a[i])>> \o walk[<<i + 1, j + 1>>]
            ELSE IF j <= Len(b) THEN <<Add(b[j])>> \o walk[<<i, j + 1>>]
            ELSE <<Del(a[i])>> \o walk[<<i + 1, j>>]
  IN  walk[<<1, 1>>]

simpleDiff(a, b) ==
  LET dp == lcsTable(a, b)
      walk[p \in Spots(a, b)] ==
        LET i == p[1]
            j == p[2]
        IN  IF i > Len(a) /\ j > Len(b) THEN << >>
            ELSE IF i <= Len(a) /\ j <= Len(b) /\ a[i] = b[j]
              THEN <<Ctx(a[i])>> \o walk[<<i + 1, j + 1>>]
            ELSE IF j <= Len(b) /\ (i > Len(a) \/ dp[<<i, j + 1>>] >= dp[<<i + 1, j>>])
              THEN <<Add(b[j])>> \o walk[<<i, j + 1>>]
            ELSE <<Del(a[i])>> \o walk[<<i + 1, j>>]
  IN  walk[<<1, 1>>]

diffBody(b1, b2) ==
  IF b1 = b2 THEN IF b1 = EmptyBody THEN << >> ELSE <<Ctx("unchanged")>>
  ELSE <<Ctx("heading")>> \o
       IF GreaterOf(Len(b1), Len(b2)) > MaxLines
         THEN [i \in DOMAIN b1 |-> Del(b1[i])] \o [i \in DOMAIN b2 |-> Add(b2[i])]
         ELSE simpleDiff(b1, b2)

diffField(v1, v2) == IF v1 = v2 THEN <<Ctx(v1)>> ELSE <<Del(v1), Add(v2)>>

\* A header that is missing and one whose value is empty are joined to the same.
joinVals(h, k) == IF k \in DOMAIN h THEN h[k] ELSE Empty

\* Only the names of the first flow.
headerNamesFirst(h1, h2) == DOMAIN h1

headerNames(h1, h2) == DOMAIN h1 \cup DOMAIN h2

\* Header names are numbers, so that they have an order.
Sorted(names) == InOrder(names, {p \in names \X names : p[1] < p[2]})

diffHeaders(h1, h2) ==
  LET line(k) ==
        LET v1 == joinVals(h1, k)
            v2 == joinVals(h2, k)
        IN  IF v1 = v2 THEN <<Ctx(v1)>>
            ELSE (IF v1 # Empty THEN <<Del(v1)>> ELSE << >>)
                   \o (IF v2 # Empty THEN <<Add(v2)>> ELSE << >>)
      keys == Sorted(headerNames(h1, h2))
  IN  <<Ctx("heading")>> \o FlattenSeq([i \in DOMAIN keys |-> line(keys[i])])

\* Method, URL and status are one field here.
Compare(f1, f2) ==
  diffField(f1.field, f2.field)
    \o diffHeaders(f1.reqHeaders, f2.reqHeaders)
    \o diffHeaders(f1.respHeaders, f2.respHeaders)
    \o diffBody(f1.reqBody, f2.reqBody)
    \o diffBody(f1.respBody, f2.respBody)

HasChanges(lines) == \E i \in DOMAIN lines : lines[i].type \in {"add", "del"}

-----------------------------------------------------------------------------

IsBody(b) == b \in Seq(Texts) /\ b # << >>
IsHeaders(h) ==
  /\ DOMAIN h \subseteq Int /\ IsFiniteSet(DOMAIN h)
  /\ \A k \in DOMAIN h : h[k] \in Texts
  /\ h = [k \in DOMAIN h |-> h[k]]

ASSUME DiffAssumption ==
  /\ Empty \in Texts /\ MaxLines \in Nat
  /\ \A p \in BodyPairs : IsBody(p[1]) /\ IsBody(p[2])
  /\ \A p \in FlowPairs : \A n \in {1, 2} :
       /\ p[n].field \in Texts
       /\ IsHeaders(p[n].reqHeaders) /\ IsHeaders(p[n].respHeaders)
       /\ IsBody(p[n].reqBody) /\ IsBody(p[n].respBody)

DiffInit == Ask("flows", FlowPairs) \/ Ask("bodies", BodyPairs)

CompareFlows == Answer("flows", Compare(query[1], query[2]))

CompareBodies == Answer("bodies", diffBody(query[1], query[2]))

DiffNext == CompareFlows \/ CompareBodies

DiffSpec == DiffInit /\ [][DiffNext]_queryVars

-----------------------------------------------------------------------------
(* Properties *)

\* The lines of the given types, in their order.
Side(lines, types) ==
  FlattenSeq([i \in DOMAIN lines |->
                IF lines[i].type \in types THEN <<lines[i].content>> ELSE << >>])

Rising(f, n) == \A x, y \in 1 .. n : x < y => f[x] < f[y]

\* The lengths of the common subsequences of a and b: f and g say where one is in them.
CommonLengths(a, b) ==
  {n \in 0 .. Len(a) :
     \E f \in [1 .. n -> DOMAIN a] : \E g \in [1 .. n -> DOMAIN b] :
       Rising(f, n) /\ Rising(g, n) /\ \A x \in 1 .. n : a[f[x]] = b[g[x]]}

\* What the diff of two bodies shows is an edit of the first into the second: without the
\* added lines it is the first, without the removed ones it is the second, and up to the
\* size limit no more lines are shown as changed than must be.  Two different bodies
\* never look the same.
BodyDiffIsEdit ==
  LET a == query[1]
      b == query[2]
      shown == Tail(Result)
  IN  Answered("bodies") =>
        IF a = b THEN ~HasChanges(Result)
        ELSE /\ Side(shown, {"ctx", "del"}) = a
             /\ Side(shown, {"ctx", "add"}) = b
             /\ GreaterOf(Len(a), Len(b)) <= MaxLines =>
                  Len(Side(shown, {"ctx"})) = Max(CommonLengths(a, b))

\* The headers whose value can be seen.
Visible(h) == [k \in {n \in DOMAIN h : h[n] # Empty} |-> h[k]]

\* Two flows are shown with a change exactly when something that can be seen differs: a
\* change in any one section is not lost among the others, and headers of equal flows
\* never look changed, whichever of the two flows has them.
ChangesAreShown ==
  LET f == query[1]
      g == query[2]
  IN  Answered("flows") =>
        (HasChanges(Result) <=>
           \/ f.field # g.field
           \/ Visible(f.reqHeaders) # Visible(g.reqHeaders)
           \/ Visible(f.respHeaders) # Visible(g.respHeaders)
           \/ f.reqBody # g.reqBody \/ f.respBody # g.respBody)

\* The diff tells both flows, and nothing that is not so.
DiffIsFaithful == BodyDiffIsEdit /\ ChangesAreShown
=============================================================================
