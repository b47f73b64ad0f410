------------------------------ MODULE FlowList ------------------------------
(***************************************************************************)
(* The flow list of the terminal interface.  The rows it shows are a copy  *)
(* of the store's listing, read again on every 100 ms tick and by some of  *)
(* the keys; the cursor is an index into that copy.  Traffic arrives and   *)
(* is evicted in between, filters and modes change which rows there are,   *)
(* and neither refreshFlows nor a resize looks at the cursor.              *)
(*                                                                         *)
(* Every action is one pass of the event loop: Update, then View.  View is *)
(* part of it because writeRows moves listOffset while it draws.  Indices  *)
(* are the code's, from 0; rows are TLA+ sequences, from 1.                *)
(***************************************************************************)
EXTENDS Ordering, SequencesExt

CONSTANTS
  MaxFlows,    \* bound: flows captured in a behaviour, 1..MaxFlows in order
  Capacity,    \* of the store
  FlatLimit,   \* rows the flat list asks for at least (50 in the code)
  Heights,     \* terminal heights
  HostOf,      \* flow -> its host
  ProcessOf,   \* flow -> the process the resolver finds for it
  StartedAt    \* flow -> FlowMeta.StartedAt

Flows == 1..MaxFlows
Hosts == {HostOf[f] : f \in Flows}
Unknown == "-"                       \* processLabel's dash
Keys == Hosts \cup {ProcessOf[f] : f \in Flows} \cup {Unknown}

ASSUME FlowListAssumption ==
  /\ MaxFlows \in Nat \ {0} /\ Capacity \in Nat \ {0} /\ FlatLimit \in Nat \ {0}
  /\ Heights \subseteq Nat \ {0}
  /\ \A f \in Flows : StartedAt[f] \in Nat
  /\ \A f, g \in Flows : StartedAt[f] = StartedAt[g] => f = g

VARIABLES
  stored,         \* the store's flows, newest first
  captured,       \* flows captured so far
  resolved,       \* flows whose process is known
  height,         \* 0 until the first WindowSizeMsg
  listMode, treeGroupBy, focusKey, groupExpanded, storeFilter,
  flows,          \* the copy of the listing: [id, process] records
  totalFlows,
  treeRows,       \* rows of the tree and focus modes: [header, key, id]
  selectedIdx, listOffset,
  screen,         \* list, detail or diff
  selectedID, diffMarkID,
  panicked        \* an index out of range ended the program

world == <<stored, captured, resolved>>
grouping == <<treeGroupBy, focusKey, groupExpanded>>
rows == <<flows, totalFlows, treeRows, listMode>>
opened == <<screen, selectedID, diffMarkID>>
flVars == <<world, height, grouping, storeFilter, rows, selectedIdx, listOffset, opened, panicked>>

NoFlow == 0
Everything == "all"
Header(k) == [header |-> TRUE, key |-> k, id |-> NoFlow]
FlowRow(k, id) == [header |-> FALSE, key |-> k, id |-> id]

FLTypeOK ==
  /\ stored \in SeqOf(Flows, Capacity) /\ captured \in 0..MaxFlows /\ resolved \subseteq Flows
  /\ height \in Heights \cup {0}
  /\ listMode \in {"flat", "tree", "focus"} /\ treeGroupBy \in {"host", "process"}
  /\ focusKey \in Keys \cup {""} /\ groupExpanded \subseteq Keys
  /\ storeFilter \in Hosts \cup {Everything}
  /\ Range(flows) \subseteq [id : Flows, process : Keys] /\ Len(flows) <= totalFlows
  /\ totalFlows <= Capacity
  /\ Range(treeRows) \subseteq {Header(k) : k \in Keys}
                               \cup {FlowRow(k, id) : k \in Keys, id \in Flows}
  /\ selectedIdx \in -1..2 * Capacity /\ listOffset \in -1..2 * Capacity
  /\ screen \in {"list", "detail", "diff"} /\ panicked \in BOOLEAN
  /\ selectedID \in Flows \cup {NoFlow} /\ diffMarkID \in Flows \cup {NoFlow}

FLInit ==
  /\ stored = <<>> /\ captured = 0 /\ resolved = {} /\ height = 0
  /\ listMode = "flat" /\ treeGroupBy = "host" /\ focusKey = "" /\ groupExpanded = {}
  /\ storeFilter \in {Everything} \cup Hosts
  /\ flows = <<>> /\ totalFlows = 0 /\ treeRows = <<>>
  /\ selectedIdx = 0 /\ listOffset = 0
  /\ screen = "list" /\ selectedID = NoFlow /\ diffMarkID = NoFlow /\ panicked = FALSE

-----------------------------------------------------------------------------
(* Reading the store and building rows. *)

\* RingBuffer.List from offset 0; a limit of 0 is none.  Returns [page, total].
List(filter, limit) ==
  LET matched == Kept(stored, {i \in 1 .. Len(stored) : filter \in {Everything, HostOf[stored[i]]}})
      Meta(f) == [id |-> f, process |-> IF f \in resolved THEN ProcessOf[f] ELSE Unknown]
  IN [page  |-> SubSeq([i \in 1 .. Len(matched) |-> Meta(matched[i])], 1,
                       IF limit > 0 THEN Min({limit, Len(matched)}) ELSE Len(matched)),
      total |-> Len(matched)]

treeKeyFn(by, f) == IF by = "process" THEN f.process ELSE HostOf[f.id]

\* The groups of a listing, their flows as positions in it.
buildGroups(fs, by) ==
  LET Of(k) == {j \in 1 .. Len(fs) : treeKeyFn(by, fs[j]) = k}
  IN {[key |-> k, flows |-> Of(k), newest |-> Max({StartedAt[fs[j].id] : j \in Of(k)})] :
        k \in {treeKeyFn(by, f) : f \in Range(fs)}}

\* The places of rows: <<g, 0>> is group g's header, <<g, j>> the flow at position j.
Places(groups, expanded) ==
  UNION {{g} \X ({0} \cup IF g.key \in expanded THEN g.flows ELSE {}) : g \in groups}

\* The group with the newest flow comes first, and a group's flows are in listing order.
Above(places) == {p \in places \X places : \/ p[1][1].newest > p[2][1].newest
                                           \/ p[1][1] = p[2][1] /\ p[1][2] < p[2][2]}

RowAt(fs, p) == IF p[2] = 0 THEN Header(p[1].key) ELSE FlowRow(p[1].key, fs[p[2]].id)

flattenTree(fs, groups, expanded) ==
  LET order == InOrder(Places(groups, expanded), Above(Places(groups, expanded)))
  IN [r \in DOMAIN order |-> RowAt(fs, order[r])]

\* The rows of one group, without its header.
flattenFocus(fs, groups, key) ==
  LET shown == Kept(fs, UNION {g.flows : g \in {h \in groups : h.key = key}})
  IN [i \in DOMAIN shown |-> FlowRow(key, shown[i].id)]

\* Mutant of refreshFlows: an empty focused group stays focused.
refreshFlowsStaysFocused(mode) ==
  LET limit == IF mode = "flat" THEN Max({height' - 4, FlatLimit}) ELSE 0
      listing == List(storeFilter', limit)
      groups == buildGroups(listing.page, treeGroupBy')
  IN /\ flows' = listing.page /\ totalFlows' = listing.total /\ listMode' = mode
     /\ treeRows' = CASE mode = "flat" -> treeRows
                      [] mode = "focus" -> flattenFocus(listing.page, groups, focusKey')
                      [] OTHER -> flattenTree(listing.page, groups, groupExpanded')

\* The focus mode falls back to the tree when its group is gone; the cursor stays.
refreshFlows(mode) ==
  LET limit == IF mode = "flat" THEN Max({height' - 4, FlatLimit}) ELSE 0
      listing == List(storeFilter', limit)
      groups == buildGroups(listing.page, treeGroupBy')
      focused == flattenFocus(listing.page, groups, focusKey')
      tree == flattenTree(listing.page, groups, groupExpanded')
  IN /\ flows' = listing.page /\ totalFlows' = listing.total
     /\ listMode' = IF mode = "focus" /\ focused = <<>> THEN "tree" ELSE mode
     /\ treeRows' = CASE mode = "flat" -> treeRows
                      [] mode = "focus" /\ focused # <<>> -> focused
                      [] OTHER -> tree

-----------------------------------------------------------------------------
(* Drawing. *)

visibleLen == IF listMode = "flat" THEN Len(flows) ELSE Len(treeRows)
maxRows == Max({height - 5, 0})
pageSize == Max({height - 5, 1})

\* Mutant of Scrolled: one row too few is scrolled.
ScrolledLate(offset, cursor, n) ==
  IF n = 0 THEN offset
  ELSE LET up == IF cursor < offset THEN cursor ELSE offset
       IN IF cursor > up + n THEN cursor - n + 1 ELSE up

\* writeRows's two adjustments of listOffset.
Scrolled(offset, cursor, n) ==
  IF n = 0 THEN offset
  ELSE LET up == IF cursor < offset THEN cursor ELSE offset
       IN IF cursor >= up + n THEN cursor - n + 1 ELSE up
InRange(offset, count, n) == IF offset > count - n THEN Max({count - n, 0}) ELSE offset

\* View: nothing of the list before the first size is known or under another
\* screen; drawing a row before the first one is an index out of range.
View(offset) ==
  LET drawn == height' > 0 /\ screen' = "list"
      at == InRange(Scrolled(offset, selectedIdx', maxRows'), visibleLen', maxRows')
  IN /\ listOffset' = IF drawn THEN at ELSE offset
     /\ panicked' = (drawn /\ at < 0 /\ maxRows' > 0)

-----------------------------------------------------------------------------
(* The proxy's side of the store. *)

\* A request is added; the oldest flow leaves a full store.
Captured ==
  /\ captured < MaxFlows /\ ~panicked
  /\ captured' = captured + 1
  /\ stored' = SubSeq(<<captured'>> \o stored, 1, Min({Capacity, Len(stored) + 1}))
  /\ UNCHANGED <<resolved, height, grouping, storeFilter, rows, selectedIdx, listOffset, opened, panicked>>

\* The resolver writes the process of a stored flow.
Resolved(f) ==
  /\ f \in Range(stored) \ resolved /\ ~panicked
  /\ resolved' = resolved \cup {f}
  /\ UNCHANGED <<stored, captured, height, grouping, storeFilter, rows, selectedIdx, listOffset, opened, panicked>>

-----------------------------------------------------------------------------
(* Messages. *)

Tick ==
  /\ ~panicked
  /\ UNCHANGED <<world, height, grouping, storeFilter, selectedIdx, opened>>
  /\ refreshFlows(listMode)
  /\ View(listOffset)

WindowSize(h) ==
  /\ ~panicked /\ h # height /\ height' = h
  /\ UNCHANGED <<world, grouping, storeFilter, rows, selectedIdx, opened>>
  /\ View(listOffset)

InList(mode) == ~panicked /\ screen = "list" /\ listMode = mode

\* Each keystroke in the filter input compiles it; the rows follow at the next tick.
applyFilter(f) ==
  /\ ~panicked /\ screen = "list"
  /\ storeFilter' = f /\ selectedIdx' = 0
  /\ UNCHANGED <<world, height, grouping, rows, opened>>
  /\ View(0)

MoveTo(i, offset) ==
  /\ ~panicked /\ screen = "list"
  /\ selectedIdx' = i
  /\ UNCHANGED <<world, height, grouping, storeFilter, rows, opened>>
  /\ View(offset)

Down == selectedIdx < visibleLen - 1 /\ MoveTo(selectedIdx + 1, listOffset)
Up == selectedIdx > 0 /\ MoveTo(selectedIdx - 1, listOffset)
PageDown == MoveTo(Min({selectedIdx + pageSize, visibleLen - 1}), listOffset)
PageUp == MoveTo(Max({selectedIdx - pageSize, 0}), listOffset)
JumpFirst == MoveTo(0, 0)
JumpLast == visibleLen > 0 /\ MoveTo(visibleLen - 1, listOffset)

\* Mutant of SwitchTo: the rows are left to the next tick.
SwitchToStale(mode, by) ==
  /\ treeGroupBy' = by /\ selectedIdx' = 0 /\ listMode' = mode
  /\ UNCHANGED <<world, height, focusKey, groupExpanded, storeFilter, opened, flows, totalFlows, treeRows>>
  /\ View(0)

\* "t" in the flat list and the tree, "esc" in the focused group.
SwitchTo(mode, by) ==
  /\ treeGroupBy' = by /\ selectedIdx' = 0
  /\ UNCHANGED <<world, height, focusKey, groupExpanded, storeFilter, opened>>
  /\ refreshFlows(mode)
  /\ View(0)

FlatT == InList("flat") /\ SwitchTo("tree", "host")
TreeT == InList("tree") /\ IF treeGroupBy = "host" THEN SwitchTo("tree", "process")
                                                   ELSE SwitchTo("flat", treeGroupBy)
FocusEsc == InList("focus") /\ SwitchTo("tree", treeGroupBy)

\* "t" in the focused group does not read the store again.
FocusT ==
  /\ InList("focus")
  /\ listMode' = "flat" /\ selectedIdx' = 0
  /\ UNCHANGED <<world, height, grouping, storeFilter, flows, totalFlows, treeRows, opened>>
  /\ View(0)

-----------------------------------------------------------------------------
(* Keys that read the row under the cursor.  The code checks the upper     *)
(* bound only.                                                             *)

\* Mutant of OnRow: the cursor is trusted.
OnRowTrusted(s) == TRUE

OnRow(s) == selectedIdx < Len(s)
Reads(s) == OnRow(s) /\ selectedIdx + 1 \in DOMAIN s
CursorRow == treeRows[selectedIdx + 1]

ReadPanics ==
  /\ ~panicked /\ screen = "list"
  /\ LET s == IF listMode = "flat" THEN flows ELSE treeRows
     IN OnRow(s) /\ selectedIdx + 1 \notin DOMAIN s
  /\ panicked' = TRUE
  /\ UNCHANGED <<world, height, grouping, storeFilter, rows, selectedIdx, listOffset, opened>>

SetExpanded(keys) ==
  /\ groupExpanded' = keys
  /\ UNCHANGED <<world, height, treeGroupBy, focusKey, storeFilter, selectedIdx, opened>>
  /\ refreshFlows("tree")
  /\ View(listOffset)

Expand == /\ InList("tree") /\ Reads(treeRows) /\ CursorRow.header
          /\ SetExpanded(groupExpanded \cup {CursorRow.key})

Collapse == /\ InList("tree") /\ Reads(treeRows) /\ CursorRow.header
            /\ SetExpanded(groupExpanded \ {CursorRow.key})

\* "h" on a flow moves to its group's header, if there is one.
jumpToParentGroup ==
  /\ InList("tree") /\ Reads(treeRows) /\ ~CursorRow.header
  /\ \E i \in DOMAIN treeRows :
       /\ treeRows[i] = Header(CursorRow.key)
       /\ MoveTo(i - 1, listOffset)

EnterHeader ==
  /\ InList("tree") /\ Reads(treeRows) /\ CursorRow.header
  /\ SetExpanded(IF CursorRow.key \in groupExpanded THEN groupExpanded \ {CursorRow.key}
                                                    ELSE groupExpanded \cup {CursorRow.key})

Focus ==
  /\ InList("tree") /\ Reads(treeRows)
  /\ focusKey' = CursorRow.key /\ selectedIdx' = 0
  /\ UNCHANGED <<world, height, treeGroupBy, groupExpanded, storeFilter, opened>>
  /\ refreshFlows("focus")
  /\ View(listOffset)

\* The flow under the cursor; NoFlow on a header or below the rows.
FlowUnderCursor ==
  IF listMode = "flat" THEN IF Reads(flows) THEN flows[selectedIdx + 1].id ELSE NoFlow
                       ELSE IF Reads(treeRows) THEN CursorRow.id ELSE NoFlow

openFlowDetail ==
  /\ ~panicked /\ screen = "list" /\ FlowUnderCursor # NoFlow
  /\ selectedID' = FlowUnderCursor /\ screen' = "detail"
  /\ UNCHANGED <<world, height, grouping, storeFilter, rows, selectedIdx, listOffset, diffMarkID, panicked>>

\* "n" and "N" in the detail view.
nextFlow(delta) ==
  /\ ~panicked /\ screen = "detail"
  /\ \E i \in DOMAIN flows :
       /\ flows[i].id = selectedID /\ i + delta \in DOMAIN flows
       /\ selectedIdx' = i + delta - 1
       /\ selectedID' = flows[i + delta].id
  /\ UNCHANGED <<world, height, grouping, storeFilter, rows, listOffset, screen, diffMarkID, panicked>>

\* "esc" in the detail view and in the diff.
Back ==
  /\ ~panicked /\ screen # "list" /\ screen' = "list"
  /\ UNCHANGED <<world, height, grouping, storeFilter, rows, selectedIdx, selectedID, diffMarkID>>
  /\ View(listOffset)

\* "d": the first press marks, the second compares if both are still stored.
handleDiffMark ==
  /\ ~panicked /\ screen = "list" /\ FlowUnderCursor # NoFlow
  /\ IF diffMarkID = NoFlow
       THEN diffMarkID' = FlowUnderCursor /\ UNCHANGED screen
       ELSE /\ diffMarkID' = NoFlow
            /\ screen' = IF {diffMarkID, FlowUnderCursor} \subseteq Range(stored)
                           THEN "diff" ELSE screen
  /\ UNCHANGED <<world, height, grouping, storeFilter, rows, selectedIdx, selectedID>>
  /\ View(listOffset)

FLNext ==
  \/ Captured \/ \E f \in Flows : Resolved(f)
  \/ Tick \/ \E h \in Heights : WindowSize(h)
  \/ \E f \in Hosts \cup {Everything} : applyFilter(f)
  \/ Down \/ Up \/ PageDown \/ PageUp \/ JumpFirst \/ JumpLast
  \/ FlatT \/ TreeT \/ FocusEsc \/ FocusT
  \/ ReadPanics \/ Expand \/ Collapse \/ jumpToParentGroup \/ EnterHeader \/ Focus
  \/ openFlowDetail \/ \E delta \in {1, -1} : nextFlow(delta)
  \/ Back \/ handleDiffMark

FLSpec == FLInit /\ [][FLNext]_flVars

-----------------------------------------------------------------------------
(* Properties. *)

\* Whenever a list is drawn, a cursor that is on a row is inside the viewport:
\* the three adjustments of writeRows never undo one another, whatever a tick,
\* a resize or an eviction did to the rows.
CursorVisible ==
  (screen = "list" /\ ~panicked /\ maxRows > 0 /\ selectedIdx \in 0..visibleLen - 1)
    => listOffset <= selectedIdx /\ selectedIdx < listOffset + maxRows

\* A stale cursor never crashes the program from above: a list that shrank
\* under it (filter, eviction, collapse, lost group) makes keys do nothing.
\* The only index out of range that a key or a frame can reach is the -1 that
\* page down leaves on an empty list.
PanicOnlyBelow == panicked => selectedIdx = -1

\* The tree's headers belong to the grouping in force and to flows of the
\* current copy, so a header's count is never 0 and "h" finds a header.
HeadersHaveFlows ==
  listMode = "tree" =>
    \A i \in DOMAIN treeRows :
      /\ \E f \in Range(flows) : treeKeyFn(treeGroupBy, f) = treeRows[i].key
      /\ Header(treeRows[i].key) \in Range(treeRows)

\* A focused group shows flows only: enter reads a row's flow unchecked there.
FocusShowsFlows ==
  listMode = "focus" => treeRows # <<>> /\ \A i \in DOMAIN treeRows : ~treeRows[i].header

\* Rows, grouping, expansion and focused group are separate pieces of state that keys,
\* ticks, filters and evictions change one at a time: whatever is drawn or indexed, the
\* rows are those of the mode and of the grouping in force.
RowsAreOfGrouping == HeadersHaveFlows /\ FocusShowsFlows

-----------------------------------------------------------------------------
(* What the documentation says and the code does not do: TLC refutes each  *)
(* of these (README, "Divergences").                                       *)

\* writeRows: "Ensure offset doesn't exceed valid range."
OffsetInRange == listOffset >= 0

\* README: G jumps to the last flow.
LastIsLast == [][JumpLast /\ listMode = "flat" => selectedIdx' = totalFlows - 1]_flVars

\* TestNextFlowInDetail: after "n" the list's cursor is on the flow shown.
CursorFollowsDetail ==
  [][\A delta \in {1, -1} : nextFlow(delta) => FlowUnderCursor' = selectedID']_flVars

=============================================================================
