----------------------------- MODULE MCFlowList -----------------------------
(* Two hosts and two processes over a handful of flows. *)
EXTENDS FlowList

MCHostOf == [f \in Flows |-> IF f % 2 = 1 THEN "a" ELSE "b"]
MCProcessOf == [f \in Flows |-> "curl"]
\* The first two requests reach the store in the other order.
MCStartedAt == [f \in Flows |-> IF f = 1 THEN 2 ELSE IF f = 2 THEN 1 ELSE f]

\* What the next steps can depend on: rows of another mode, the key of a group
\* out of focus, the flow of a closed detail view and the processes of evicted
\* flows are written before they are read again.
LiveState ==
  <<stored, resolved \cap Range(stored), height, listMode, treeGroupBy, groupExpanded,
    storeFilter, flows, totalFlows, selectedIdx, listOffset, screen, diffMarkID, panicked,
    IF listMode = "flat" THEN <<>> ELSE treeRows,
    IF listMode = "focus" THEN focusKey ELSE "",
    IF screen = "detail" THEN selectedID ELSE NoFlow>>
=============================================================================
