------------------------------ MODULE RingBuffer ------------------------------
(***************************************************************************)
(* The flow store of httpmon (internal/store): a fixed number of slots     *)
(* holding the summaries (FlowMeta) of the most recent flows, a map from   *)
(* flow ID to slot, and a map from flow ID to the captured headers and     *)
(* bodies (FlowData).  Every operation runs under one mutex, so each is a  *)
(* single step.                                                            *)
(*                                                                         *)
(* Go maps are total functions here: an absent key of index is NoSlot, an  *)
(* absent key of data is NoData.  The functions passed to Update and       *)
(* UpdateData are TLA+ functions on records.                               *)
(***************************************************************************)
EXTENDS Ordering

CONSTANTS
  Capacity,       \* number of slots
  FlowIDs,        \* the IDs go-mitmproxy may hand out
  NoFlow,         \* the ID of a slot never written (the empty string)
  NoData,         \* the nil *FlowData of a missing key
  StatusCodes,    \* HTTP status codes that occur
  PIDs,           \* process IDs that occur
  Names           \* process names that occur, besides "" and the fallback

\* main.go refuses a buffer size below one.
ASSUME CapacityAssumption == Capacity \in Nat \ {0}
ASSUME NoFlowAssumption == NoFlow \notin FlowIDs
ASSUME NumbersAssumption == /\ StatusCodes \subseteq Nat \ {0}
                            /\ PIDs \subseteq Nat \ {0}

VARIABLES
  metas,          \* slot -> FlowMeta
  data,           \* flow ID -> FlowData or NoData
  index,          \* flow ID -> slot or NoSlot
  head,           \* slot of the oldest flow
  count,          \* number of flows held
  used            \* IDs handed out so far (the proxy's UUIDs are never reused)

rbVars == <<metas, data, index, head, count, used>>

Slots == 0 .. Capacity - 1
NoSlot == -1

FlowStates == {"InProgress", "Completed", "Failed", "Breakpoint"}
NoName == "none"                 \* the zero value of FlowMeta.Process
Fallback == "dash"               \* procinfo's fallbackName
ProcessNames == Names \cup {NoName, Fallback}

\* The fields the properties tell apart.  ContentType, SizeBytes and Duration
\* are always written together with status or state.
FlowMeta == [id      : FlowIDs \cup {NoFlow},
             state   : FlowStates,
             status  : StatusCodes \cup {0},
             process : ProcessNames,
             pid     : PIDs \cup {0}]

\* req: request headers and body present.  resp: the status code of the response
\* whose headers and body are present, 0 when there is none.
FlowData == [req  : BOOLEAN,
             resp : StatusCodes \cup {0},
             pid  : PIDs \cup {0}]

ASSUME NoDataAssumption == NoData \notin FlowData

ZeroMeta == [id |-> NoFlow, state |-> "InProgress", status |-> 0,
             process |-> NoName, pid |-> 0]
ZeroData == [req |-> FALSE, resp |-> 0, pid |-> 0]

-----------------------------------------------------------------------------

\* The slot of the i-th oldest flow, i counted from 0.
SlotAt(i) == (head + i) % Capacity

Stored(id) == index[id] # NoSlot
Meta(id) == metas[index[id]]

\* store.New
RBInit ==
  /\ metas = [s \in Slots |-> ZeroMeta]
  /\ data = [f \in FlowIDs |-> NoData]
  /\ index = [f \in FlowIDs |-> NoSlot]
  /\ head = 0
  /\ count = 0
  /\ used = {}

\* Plausible slips in Add: the evicted flow keeps its FlowData; head is not advanced.
AddKeepsData(meta) ==
  LET slot == SlotAt(count)
      full == count = Capacity
      evicted == metas[head].id
  IN  /\ data' = data
      /\ index' = [f \in FlowIDs |->
                     IF f = meta.id THEN slot
                     ELSE IF full /\ f = evicted THEN NoSlot ELSE index[f]]
      /\ head' = IF full THEN (head + 1) % Capacity ELSE head
      /\ count' = IF full THEN count ELSE count + 1
      /\ metas' = [metas EXCEPT ![slot] = meta]
      /\ used' = used \cup {meta.id}

AddKeepsHead(meta) ==
  LET slot == SlotAt(count)
      full == count = Capacity
      evicted == metas[head].id
  IN  /\ data' = [f \in FlowIDs |->
                    IF full /\ f = evicted THEN NoData ELSE data[f]]
      /\ index' = [f \in FlowIDs |->
                     IF f = meta.id THEN slot
                     ELSE IF full /\ f = evicted THEN NoSlot ELSE index[f]]
      /\ head' = head
      /\ count' = IF full THEN count ELSE count + 1
      /\ metas' = [metas EXCEPT ![slot] = meta]
      /\ used' = used \cup {meta.id}

\* Add: when full, the oldest flow loses its data and its index entry and the
\* new flow takes its slot.
Add(meta) ==
  LET slot == SlotAt(count)
      full == count = Capacity
      evicted == metas[head].id
  IN  /\ data' = [f \in FlowIDs |->
                    IF full /\ f = evicted THEN NoData ELSE data[f]]
      /\ index' = [f \in FlowIDs |->
                     IF f = meta.id THEN slot
                     ELSE IF full /\ f = evicted THEN NoSlot ELSE index[f]]
      /\ head' = IF full THEN (head + 1) % Capacity ELSE head
      /\ count' = IF full THEN count ELSE count + 1
      /\ metas' = [metas EXCEPT ![slot] = meta]
      /\ used' = used \cup {meta.id}

\* Update: fn applied to the flow's meta; nothing when the flow is not held.
Update(id, fn) ==
  /\ metas' = IF Stored(id)
              THEN [metas EXCEPT ![index[id]] = fn[metas[index[id]]]]
              ELSE metas
  /\ UNCHANGED <<data, index, head, count, used>>

\* UpdateData without the check that the flow is still held.
UpdateDataUnchecked(id, fn) ==
  /\ data' = [data EXCEPT ![id] = fn[IF @ = NoData THEN ZeroData ELSE @]]
  /\ UNCHANGED <<metas, index, head, count, used>>

\* UpdateData: creates an empty FlowData first when there is none.
UpdateData(id, fn) ==
  /\ data' = IF Stored(id)
             THEN [data EXCEPT ![id] = fn[IF data[id] = NoData THEN ZeroData
                                                               ELSE data[id]]]
             ELSE data
  /\ UNCHANGED <<metas, index, head, count, used>>

\* SetData: replaces the whole FlowData.
SetData(id, d) ==
  /\ data' = IF Stored(id) THEN [data EXCEPT ![id] = d] ELSE data
  /\ UNCHANGED <<metas, index, head, count, used>>

\* Get: a copy of the meta and the FlowData; an error when the flow is not held.
Get(id) == IF Stored(id) THEN [ok |-> TRUE, meta |-> Meta(id), data |-> data[id]]
                         ELSE [ok |-> FALSE, meta |-> ZeroMeta, data |-> NoData]

\* The page of a list that starts at offset + 1, as if offsets were counted from 1.
PageFromNext(matched, offset, limit) ==
  LET rest == SubSeq(matched, offset + 2, Len(matched))
  IN  IF limit > 0 /\ limit < Len(rest) THEN SubSeq(rest, 1, limit) ELSE rest

\* The page [offset, offset + limit) of a list; a limit of zero means no limit.
Page(matched, offset, limit) ==
  LET rest == SubSeq(matched, offset + 1, Len(matched))
  IN  IF limit > 0 /\ limit < Len(rest) THEN SubSeq(rest, 1, limit) ELSE rest

\* The summaries held, newest first: List without a filter or a page.
Newest == [i \in 1 .. count |-> metas[SlotAt(count - i)]]

\* List: newest first, filtered, then one page; also the number of matches.
List(matching, offset, limit) ==
  LET matched == Kept(Newest, {i \in 1 .. count : Newest[i] \in matching})
  IN  <<Page(matched, offset, limit), Len(matched)>>

-----------------------------------------------------------------------------
(* The store on its own: callers add flows with fresh IDs and write to any *)
(* flow they were handed, evicted or not.                                  *)

NewMeta(id) == [ZeroMeta EXCEPT !.id = id]

\* The functions callers pass to Update and UpdateData; none changes the ID.
SetState(s) == [m \in FlowMeta |-> [m EXCEPT !.state = s]]
SetStatus(c) == [m \in FlowMeta |-> [m EXCEPT !.status = c]]
SetOutcome(s, c) == [m \in FlowMeta |-> [m EXCEPT !.state = s, !.status = c]]
SetProcess(n, p) == [m \in FlowMeta |-> [m EXCEPT !.process = n, !.pid = p]]
SetResp(c) == [d \in FlowData |-> [d EXCEPT !.resp = c]]
SetPID(p) == [d \in FlowData |-> [d EXCEPT !.pid = p]]

DoAdd(id) == id \notin used /\ Add(NewMeta(id))
DoUpdate(id) == id \in used /\ \E s \in FlowStates : Update(id, SetState(s))
DoUpdateData(id) == id \in used /\ \E c \in StatusCodes : UpdateData(id, SetResp(c))
DoSetData(id) == id \in used /\ SetData(id, [ZeroData EXCEPT !.req = TRUE])

RBNext ==
  \E id \in FlowIDs : DoAdd(id) \/ DoUpdate(id) \/ DoUpdateData(id) \/ DoSetData(id)

RBSpec == RBInit /\ [][RBNext]_rbVars

-----------------------------------------------------------------------------
(* Properties *)

\* The store's fields have the types of the Go struct.
RBTypeOK ==
  /\ metas \in [Slots -> FlowMeta]
  /\ data \in [FlowIDs -> FlowData \cup {NoData}]
  /\ index \in [FlowIDs -> Slots \cup {NoSlot}]
  /\ head \in Slots
  /\ count \in 0 .. Capacity
  /\ used \subseteq FlowIDs

\* The index never lies: an indexed flow's slot is one of the count live slots
\* after head and holds that flow's meta, so Get and Update reach the right flow.
IndexSound ==
  \A f \in FlowIDs : Stored(f) =>
     /\ Meta(f).id = f
     /\ \E i \in 0 .. count - 1 : index[f] = SlotAt(i)

\* Every flow List shows can be opened with Get: each live slot's flow is indexed
\* at that very slot (so no flow occupies two slots).
LiveIndexed ==
  \A i \in 0 .. count - 1 :
     /\ metas[SlotAt(i)].id \in used
     /\ index[metas[SlotAt(i)].id] = SlotAt(i)

\* Captured bodies never outlive their flow: a late callback or resolver
\* writing to an evicted flow must not leave memory nobody can reach or evict.
NoOrphanData == \A f \in FlowIDs : data[f] # NoData => Stored(f)

\* Only handed-out IDs are held.
StoredUsed == \A f \in FlowIDs : Stored(f) => f \in used

RBInv == RBTypeOK /\ IndexSound /\ LiveIndexed /\ NoOrphanData /\ StoredUsed

\* An evicted flow never comes back, whatever late writers do.
NoResurrection ==
  [][\A f \in used : ~Stored(f) => ~Stored(f)' /\ data'[f] = NoData]_rbVars

\* The log the slots represent: the live slots, oldest first.
Contents == [i \in 1 .. count |-> metas[SlotAt(i - 1)]]

Log == INSTANCE FlowLog WITH log <- Contents, bodies <- data

\* The slots, the index and the wrap-around implement the bounded log: whatever is added,
\* updated and evicted, callers see a log from which only the oldest flow ever falls out.
ImplementsLog == Log!LogSpec
=============================================================================
