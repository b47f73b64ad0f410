------------------------------- MODULE FlowLog -------------------------------
(***************************************************************************)
(* What the flow store promises its callers: a log of at most Capacity     *)
(* flows, oldest first, from which the oldest entry falls out when a flow  *)
(* is appended to a full log, and for every flow in the log at most one    *)
(* FlowData.  No slots, no index, no wrap-around.                          *)
(***************************************************************************)
EXTENDS Integers, Sequences

CONSTANTS Capacity, FlowIDs, FlowMeta, FlowData, NoData

VARIABLES
  log,      \* the metas held, oldest first
  bodies    \* flow ID -> FlowData or NoData

logVars == <<log, bodies>>

IDs(l) == {l[i].id : i \in DOMAIN l}

LogInit == log = << >> /\ bodies = [f \in FlowIDs |-> NoData]

\* A new flow is appended; the oldest falls out of a full log with its body.
AppendFlow(meta) ==
  LET kept == IF Len(log) = Capacity THEN Tail(log) ELSE log
  IN  /\ meta.id \in FlowIDs \ IDs(log)
      /\ log' = Append(kept, meta)
      /\ bodies' = [f \in FlowIDs |->
                      IF f \in IDs(log) \ IDs(kept) THEN NoData ELSE bodies[f]]

\* One entry's summary changes; its position and its ID do not.
Amend(i, meta) ==
  /\ meta.id = log[i].id
  /\ log' = [log EXCEPT ![i] = meta]
  /\ UNCHANGED bodies

\* The body of a flow in the log is written.
WriteBody(i, d) ==
  /\ bodies' = [bodies EXCEPT ![log[i].id] = d]
  /\ UNCHANGED log

LogNext ==
  \/ \E meta \in FlowMeta : AppendFlow(meta)
  \/ \E i \in DOMAIN log :
       \/ \E meta \in FlowMeta : Amend(i, meta)
       \/ \E d \in FlowData : WriteBody(i, d)

LogSpec == LogInit /\ [][LogNext]_logVars
=============================================================================
