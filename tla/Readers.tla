------------------------------- MODULE Readers -------------------------------
(***************************************************************************)
(* Those who read the flow store while the pipeline writes it: the MCP     *)
(* tools get_request and export_har (mcpserver/tools_read.go, its buildHAR)*)
(* and the TUI's HAR export (tui/export.go, har/har.go).  Each copies      *)
(* summaries under the store's lock first and asks for the flow's data     *)
(* later, or reads it after the unlock: Get returns the store's own        *)
(* pointer, so what a reader holds still changes under UpdateData, but no  *)
(* longer after SetData or an eviction.                                    *)
(*                                                                         *)
(* Readers keep nothing and do not see each other, so there is one, which  *)
(* reads once, at any time; a behaviour ends with its answer.              *)
(***************************************************************************)
EXTENDS Capture

VARIABLES
  reader,   \* idle, fetch, headers, body, done, panicked
  tool,     \* get, har (MCP) or file (TUI)
  todo,     \* the summaries still to be read
  ptr,      \* the data the reader holds: [flow, shared, d]; shared while it is the store's
  got       \* the last answer or entry: [meta, headers, body, whole]

rdLocal == <<reader, tool, todo, ptr, got>>
rdVars == <<capVars, rdLocal>>

NoPtr == [flow |-> NoFlow, shared |-> FALSE, d |-> NoData]
Torn == -1
Nothing == [meta |-> ZeroMeta, headers |-> 0, body |-> 0, whole |-> FALSE]

\* An answer or an entry with a summary, but neither headers nor bodies.
Bare(m) == [Nothing EXCEPT !.meta = m, !.whole = TRUE]

RdInit ==
  /\ CapInit
  /\ reader = "idle" /\ tool = "get" /\ todo = << >> /\ ptr = NoPtr /\ got = Nothing

Becomes(from, to) == reader = from /\ reader' = to

-----------------------------------------------------------------------------

\* What a step of the pipeline does to the data a reader holds.
SetsData(f) == (pc[f] = "request" /\ pc'[f] = "scripts")
                 \/ (pc[f] = "scripts" /\ pc'[f] = "synthetic")
PointerFollows ==
  LET f == ptr.flow
      shared == ptr.shared /\ index'[f] # NoSlot /\ ~SetsData(f)
  IN  ptr' = [ptr EXCEPT !.shared = shared, !.d = IF shared THEN data'[f] ELSE @]

Pipeline ==
  /\ reader \notin {"done", "panicked"}
  /\ CapNext /\ PointerFollows
  /\ UNCHANGED <<reader, tool, todo, got>>

\* The whole list, newest first, for an export: store.List, or the TUI's copy of it.
ListFlows ==
  /\ Becomes("idle", "fetch")
  /\ tool' \in {"har", "file"}
  /\ todo' = Newest
  /\ UNCHANGED <<capVars, ptr, got>>

\* One flow by its ID, for an export: only its summary is kept.
GetForExport(f) ==
  /\ Becomes("idle", "fetch")
  /\ tool' \in {"har", "file"}
  /\ todo' = IF Get(f).ok THEN <<Get(f).meta>> ELSE << >>
  /\ UNCHANGED <<capVars, ptr, got>>

\* The next summary's data.  For a flow without data, because it is gone or none has been
\* stored yet, the TUI writes an entry of the summary alone; the MCP tool skips a flow that
\* is gone, and panics on one that is held.
FetchData ==
  /\ reader = "fetch" /\ todo # << >>
  /\ LET m == Head(todo)
         g == Get(m.id)
     IN  \/ /\ g.data # NoData
            /\ reader' = "headers"
            /\ ptr' = [flow |-> m.id, shared |-> TRUE, d |-> g.data]
            /\ got' = [Nothing EXCEPT !.meta = m]
            /\ UNCHANGED todo
         \/ /\ g.data = NoData
            /\ reader' = IF tool = "har" /\ g.ok THEN "panicked" ELSE "fetch"
            /\ got' = IF tool = "file" THEN Bare(m) ELSE got
            /\ todo' = Tail(todo)
            /\ UNCHANGED ptr
  /\ UNCHANGED <<capVars, tool>>

\* The summary of a second Get, after the data of the first.
GetRequestTwice(f) ==
  /\ reader = "idle" /\ tool' = "get"
  /\ Get(f).ok /\ Get(f).data # NoData
  /\ reader' = "headers"
  /\ \E s \in FlowStates : got' = [Nothing EXCEPT !.meta = [Get(f).meta EXCEPT !.state = s]]
  /\ ptr' = [flow |-> f, shared |-> TRUE, d |-> Get(f).data]
  /\ todo' = <<Get(f).meta>>
  /\ UNCHANGED capVars

\* get_request: summary and data of one Get; an unknown flow is an error, and a flow
\* without data is answered without.
GetRequest(f) ==
  /\ reader = "idle" /\ tool' = "get"
  /\ Get(f).ok
  /\ IF Get(f).data = NoData
     THEN /\ reader' = "done" /\ got' = Bare(Get(f).meta)
          /\ UNCHANGED <<ptr, todo>>
     ELSE /\ reader' = "headers"
          /\ got' = [Nothing EXCEPT !.meta = Get(f).meta]
          /\ ptr' = [flow |-> f, shared |-> TRUE, d |-> Get(f).data]
          /\ todo' = <<Get(f).meta>>
  /\ UNCHANGED capVars

\* The response may be being merged into the object that the reader holds, without the
\* store's lock.
Merging == ptr.shared /\ pc[ptr.flow] = "merge"

\* The headers, after the unlock.
ReadHeaders ==
  /\ Becomes("headers", "body")
  /\ \E h \in {ptr.d.resp} \cup (IF Merging THEN {response[ptr.flow]} ELSE {}) :
       got' = [got EXCEPT !.headers = h]
  /\ UNCHANGED <<capVars, tool, todo, ptr>>

\* The body, a slice, which may also be read half written.
ReadBody ==
  /\ Becomes("body", IF tool = "get" THEN "done" ELSE "fetch")
  /\ \E b \in {ptr.d.resp} \cup (IF Merging THEN {response[ptr.flow], Torn} ELSE {}) :
       got' = [got EXCEPT !.body = b, !.whole = TRUE]
  /\ todo' = Tail(todo) /\ ptr' = NoPtr
  /\ UNCHANGED <<capVars, tool>>

\* The document is returned, or written to the file.
ExportEnds ==
  /\ todo = << >> /\ Becomes("fetch", "done")
  /\ UNCHANGED <<capVars, tool, todo, ptr, got>>

RdNext ==
  \/ Pipeline \/ ListFlows \/ FetchData \/ ReadHeaders \/ ReadBody \/ ExportEnds
  \/ \E f \in FlowIDs : GetForExport(f) \/ GetRequest(f)

RdSpec == RdInit /\ [][RdNext]_rdVars

-----------------------------------------------------------------------------
(* Properties *)

RdTypeOK ==
  /\ reader \in {"idle", "fetch", "headers", "body", "done", "panicked"}
  /\ tool \in {"get", "har", "file"}
  /\ todo \in Seq(FlowMeta)
  /\ ptr.d \in FlowData \cup {NoData}
  /\ ptr.shared => Stored(ptr.flow) /\ ptr.d = data[ptr.flow]
  /\ got.headers \in StatusCodes \cup {0} /\ got.body \in StatusCodes \cup {0, Torn}

\* An answer or a HAR entry that shows a flow as completed has the headers and the body of
\* that very response, although the summary was copied earlier than the data, the data is
\* read without the lock, and the flow may be written or evicted in between.  The TUI's
\* export alone has entries with neither, and only for flows that have been evicted.
CompletedReadIsWhole ==
  got.whole /\ got.meta.state = "Completed" =>
    \/ got.headers = got.meta.status /\ got.body = got.meta.status
    \/ /\ tool = "file" /\ ~Stored(got.meta.id)
       /\ got.headers = 0 /\ got.body = 0

-----------------------------------------------------------------------------
(* What the documentation says and the code does not do: TLC refutes each  *)
(* of these (README, "Divergences").                                       *)

\* The MCP design, on export_har: "Impl: existing `har.Export()`", which exports a flow
\* without data as an entry without headers and bodies.
ExportSurvivesMissingData == reader # "panicked"

\* README: "Thread-safe ring buffer for captured flows".
ReadsAreNotTorn == got.body # Torn
=============================================================================
