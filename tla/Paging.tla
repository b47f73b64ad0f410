-------------------------------- MODULE Paging --------------------------------
(***************************************************************************)
(* An MCP client that reads the list page by page (list_requests and       *)
(* search_requests, mcpserver/tools_read.go), while flows are added and    *)
(* evicted between its calls.  The list is newest first and a page is      *)
(* named by its offset, so every flow added in between moves the rest of   *)
(* the list on by one, and a flow that no longer matches the filter moves  *)
(* the rest back.  The client goes on with the offset after the items it   *)
(* was given.  The filter is the set of flows it matches: by host, path or *)
(* method it matches a flow always or never, by status or content type it  *)
(* may begin or cease to when the response is stored (filter/advanced.go). *)
(***************************************************************************)
EXTENDS RingBuffer

CONSTANTS
  Limits,         \* limits the client asks for
  DefaultLimit,   \* the limit of a call without one (50)
  MaxLimit        \* the largest page (200)

ASSUME LimitsAssumption == /\ Limits \subseteq Int
                           /\ DefaultLimit \in Nat \ {0} /\ MaxLimit \in Nat \ {0}

VARIABLES
  pager,     \* idle, paging, done
  wanted,    \* the flows the filter matches
  asked,     \* the client's limit
  offset,    \* where its next page begins
  seen,      \* flows it was given
  owed,      \* flows that matched and were held when it began
  stopped    \* flows that have ceased to match since then

pgLocal == <<pager, wanted, asked, offset, seen, owed, stopped>>
pgVars == <<rbVars, pgLocal>>

PgInit ==
  /\ RBInit
  /\ pager = "idle" /\ wanted = {} /\ asked = 0 /\ offset = 0 /\ seen = {} /\ owed = {}
  /\ stopped = {}

clampLimit(limit) ==
  IF limit <= 0 THEN DefaultLimit ELSE IF limit > MaxLimit THEN MaxLimit ELSE limit

\* handleListRequests: one page, and the number of matches.
ListRequests(from, limit) ==
  List({m \in FlowMeta : m.id \in wanted'}, from, clampLimit(limit))

\* One call; the client has it all when it was given nothing, or the last match.
TakePage(from) ==
  LET answer == ListRequests(from, asked')
      ids == {answer[1][i].id : i \in DOMAIN answer[1]}
  IN  /\ seen' = seen \cup ids
      /\ offset' = from + Len(answer[1])
      /\ pager' = IF ids = {} \/ offset' >= answer[2] THEN "done" ELSE "paging"

FirstPage ==
  /\ pager = "idle"
  /\ wanted' \in SUBSET used /\ asked' \in Limits
  /\ owed' = {f \in wanted' : Stored(f)} /\ stopped' = {}
  /\ TakePage(0)
  /\ UNCHANGED rbVars

NextPage ==
  /\ pager = "paging"
  /\ UNCHANGED <<rbVars, wanted, asked, owed, stopped>>
  /\ TakePage(offset)

\* The store's other callers.  A flow that is added may match as well.
Write ==
  /\ pager = "idle" /\ RBNext
  /\ UNCHANGED pgLocal

\* Between two pages: a flow is added, and it may match as well; or the response of one is
\* stored, and the filter begins or ceases to match it.
AddBetween ==
  /\ pager = "paging" /\ \E f \in FlowIDs : DoAdd(f)
  /\ \E s \in SUBSET (used' \ used) : wanted' = wanted \cup s
  /\ UNCHANGED <<pager, asked, offset, seen, owed, stopped>>

UpdateBetween ==
  /\ pager = "paging"
  /\ \E f \in FlowIDs : /\ Stored(f)
                        /\ \E c \in StatusCodes : Update(f, SetStatus(c))
                        /\ wanted' \in {wanted \cup {f}, wanted \ {f}}
  /\ stopped' = stopped \cup (wanted \ wanted')
  /\ UNCHANGED <<pager, asked, offset, seen, owed>>

PgNext == FirstPage \/ NextPage \/ Write \/ AddBetween \/ UpdateBetween

PgSpec == PgInit /\ [][PgNext]_pgVars

-----------------------------------------------------------------------------
(* Properties *)

\* No flow down to the i-th of the list has ceased to match since the client began.
Unmoved(i) == \A j \in 1 .. i : Newest[j].id \notin stopped

\* Pages asked for one after the other leave nothing out: every flow that matched when the
\* client began, and is still held when it has the last page, was on one of the pages,
\* whatever was added, evicted or began to match in between, unless it or a newer flow
\* ceased to match meanwhile.  (A flow that does moves the older ones back over the next
\* page's offset, which then leaves one out; and a flow may be on two pages.)
PagingMissesNothing ==
  pager = "done" => \A i \in 1 .. count :
     Newest[i].id \in owed /\ Unmoved(i) => Newest[i].id \in seen
=============================================================================
