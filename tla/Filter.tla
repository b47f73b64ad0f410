-------------------------------- MODULE Filter --------------------------------
(***************************************************************************)
(* The flow filters (filter/advanced.go, filter/quick.go) and the three    *)
(* places that hand one to the store.  An input is told apart as empty or  *)
(* not, by the term its whole text is to the quick filter, and by its      *)
(* fields, what is between the blanks, to the advanced one.  A term is     *)
(* [negate, holds], where holds is the set of flows it is true of.         *)
(***************************************************************************)
EXTENDS Queries, SequencesExt

CONSTANTS
  FilterQueries,   \* <<place, input, flows in the store>>
  NoFilter,        \* an interface that is nil
  Panic            \* no listing at all

\* A nil *AdvancedFilter or *QuickFilter, also inside an interface, which is then not nil.
NilPointer == << >>

Compile(input) == input.fields

CompileQuick(input) == IF input.fields = << >> THEN NilPointer ELSE <<input.whole>>

\* Terms are ANDed.
MatchTerms(terms, flow) ==
  \A i \in DOMAIN terms : (flow \in terms[i].holds) # terms[i].negate

\* handleListRequests, handleGetRequestCount, handleExportHAR
parseFilter(input) == IF input.empty THEN NoFilter ELSE [terms |-> Compile(input)]

\* App.applyFilter
applyFilter(input) ==
  IF Compile(input) = NilPointer THEN NoFilter ELSE [terms |-> Compile(input)]

FilterOf(place, input) ==
  CASE place = "list_requests" -> parseFilter(input)
    [] place = "search_requests" -> [terms |-> CompileQuick(input)]
    [] place = "screen" -> applyFilter(input)

\* Match reads a field of its receiver.
ListWith(f, flows) ==
  IF f = NoFilter THEN flows
  ELSE IF f.terms = NilPointer /\ flows # {} THEN Panic
  ELSE {flow \in flows : MatchTerms(f.terms, flow)}

-----------------------------------------------------------------------------

FilterInit == Ask("filter", FilterQueries)

\* An empty query of search_requests is an error before it is compiled.
ListFiltered ==
  /\ kind = "filter"
  /\ ~(query[1] = "search_requests" /\ query[2].empty)
  /\ Answer("filter", ListWith(FilterOf(query[1], query[2]), query[3]))

FilterNext == ListFiltered

-----------------------------------------------------------------------------
(* Properties *)

\* The comments of Compile, CompileQuick and parseFilter say that empty input matches all
\* flows, and blanks are trimmed first: a filter of blanks lists every flow, wherever it
\* is given.  It does so on the screen alone: TLC refutes this.
BlankMatchesAll ==
  Answered("filter") /\ query[2].fields = << >> => Result = query[3]
=============================================================================
