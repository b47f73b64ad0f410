----------------------------- MODULE MCAlgorithms -----------------------------
(***************************************************************************)
(* Bounded queries for Algorithms.                                         *)
(***************************************************************************)
EXTENDS Algorithms

Strings(chars, n) == UNION {[1 .. k -> chars] : k \in 0 .. n}

\* Letters, a digit and what the patterns and URLs are built with.
MCChars == {"a", "b", "A", "h", "s", "8", "*", ".", ":", "/"}

\* Long enough for two middle parts that overlap.
MCPathQueries == Strings({"a", "b", "*"}, 5) \X Strings({"a", "b"}, 5)

Scheme(c) == <<c, ":", "/", "/">>
Rests(chars) == Strings(chars \cup {"/", "."}, 3)
URLs == {Scheme(c) \o <<"a">> \o r : c \in {"h", "s"}, r \in Rests({"a", "A"})}
Globs == {Scheme(c) \o r : c \in {"h", "*"}, r \in Rests({"a", "*"})}

\* A pattern of the documented form scheme://host/path, alone or after another one.
MCScriptQueries == {<<ps, u>> : ps \in {<<g>> : g \in Globs} \cup {<<Scheme("s"), g>> : g \in Globs},
                                u \in URLs}

\* The pattern of the template for new scripts.
StarQueries == {<< << <<"*">> >>, u>> : u \in URLs}

Names == {n \in Strings({"a", "b", "A", "."}, 3) \ {<< >>} : n[1] # "." /\ Last(n) # "."}
Plain == Strings({"a", "."}, 3) \ {<< >>}
HostPatterns == Plain \cup {<<"*", ".">> \o n : n \in Plain}
Lists == {<< >>} \cup {<<p>> : p \in HostPatterns} \cup {<<p, <<"b">> >> : p \in HostPatterns}
Ports == {<< >>, <<"8">>}

\* Host names, and patterns that are names or "*." and a name: no list, a block list, an
\* allow list, or both.
MCHostQueries ==
  {<<b, a, n, p>> : b \in Lists, a \in {<< >>, << <<"a">> >>}, n \in Names, p \in Ports}
    \cup {<< << >>, a, n, p>> : a \in Lists, n \in Names, p \in Ports}

\* Keys of one or two patterns, with an upper-case letter in some.
UpperPatterns == {<<"A">>, <<"*", ".", "A">>}
MCSchemaQueries ==
  {<<ps, n, p>> : ps \in {{x, y} : x \in HostPatterns, y \in HostPatterns \cup UpperPatterns},
                  n \in Names, p \in Ports}

-----------------------------------------------------------------------------

\* Bodies of up to four lines, one of which may be empty.
Bodies == {EmptyBody} \cup UNION {[1 .. n -> {Empty, "x", "y"}] : n \in 1 .. 4}
MCBodyPairs == Bodies \X Bodies

\* One of the four lines more than a small limit.
MCMaxLines == 3

MCTexts == {Empty, "x", "y", "v", "w", "m", "n"}

HeaderMaps == UNION {[names -> {Empty, "v", "w"}] : names \in SUBSET {1, 2}}
FlowLike(f, q, r, b, c) ==
  [field |-> f, reqHeaders |-> q, respHeaders |-> r, reqBody |-> b, respBody |-> c]
HeaderFlows == {FlowLike(f, h, g, EmptyBody, EmptyBody) :
                  f \in {"m"}, h \in HeaderMaps, g \in {[n \in {} |-> Empty], [n \in {1} |-> "v"]}}
BodyFlows == {FlowLike(f, [n \in {1} |-> "v"], [n \in {1} |-> "v"], b, c) :
                f \in {"m", "n"}, b \in {EmptyBody, <<"x">>, <<"x", "y">>},
                c \in {EmptyBody, <<"x">>}}
MCFlowPairs == (HeaderFlows \X HeaderFlows) \cup (BodyFlows \X BodyFlows)

-----------------------------------------------------------------------------

\* Up to three frames of every kind, one without payload, one that looks like a header.
Frame(f, p) == [flag |-> f, payload |-> p]
SomeFrames == {Frame(f, p) : f \in {flagData, flagCompressed, flagTrailers, 2},
                             p \in {<< >>, <<7>>, <<0, 7>>}}
\* Nothing, a piece of a header, and frames that say they are longer than they are.
Tails == {<< >>, <<0>>, <<128, 0, 0, 0>>, <<0, 0, 0, 0, 2, 7>>, <<0, 0, 0, 0, 1>>,
          <<128, 0, 0, 0, 3, 0>>, <<1, 0, 0, 1, 0>>}
MCFramedBodies == (UNION {[1 .. n -> SomeFrames] : n \in 0 .. 3}) \X Tails
MCPayloads == {<< >>, <<7>>, <<7, 7, 0>>}

-----------------------------------------------------------------------------

\* Tags of fields 1 and 2, a group of each, lengths, a control character and two-byte runes.
MCWireBodies ==
  Strings({8, 10, 1, 2, 11, 12}, 6) \cup Strings({8, 10, 16, 2, 195, 169}, 4)
    \cup {<<10, n>> \o s : n \in 1 .. 3, s \in Strings({8, 2, 195, 169, 65}, 3)}
    \cup {<<10, 2, 195, 169>>, <<18, 3, 195, 169, 65>>, <<13, 1, 2, 3, 4, 8, 5>>,
           <<9, 1, 2, 3, 4, 5, 6, 7, 8>>, <<11, 11, 8, 1, 12, 12>>, <<15, 1>>, <<10, 1, 7>>}

-----------------------------------------------------------------------------

\* Three reads of a server that is fast, slow or both; below ten bytes a second a read is
\* one byte, above it a tenth of the bandwidth.
MCPacedBodies ==
  {0, 3, 10, 25, 60} \X {0, 1, 7} \X {1, 4}
    \X [1 .. 3 -> [offered : {0, 1, 5}, delay : {0, 2, 9}]]

\* Every place and preset, and a bandwidth that is none.
MCThrottlings == {"flags", "tool", "screen"} \X {"", "3g", "4g", "wifi"} \X {0, 1000} \X {0, 5, 100}

-----------------------------------------------------------------------------

\* Two flows, a term for each of them, negated or not, up to two of them.
TwoFlows == {"f1", "f2"}
Terms == [negate : BOOLEAN, holds : SUBSET TwoFlows]
Inputs ==
  {[empty |-> TRUE, whole |-> << >>, fields |-> << >>]}
    \cup {[empty |-> FALSE, whole |-> [negate |-> FALSE, holds |-> h], fields |-> f] :
            h \in SUBSET TwoFlows, f \in UNION {[1 .. n -> Terms] : n \in 0 .. 2}}
Places == {"list_requests", "search_requests", "screen"}
MCFilterQueries == Places \X Inputs \X SUBSET TwoFlows

None == {}
=============================================================================
