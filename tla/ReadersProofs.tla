---------------------------- MODULE ReadersProofs ----------------------------
(***************************************************************************)
(* For every capacity and number of flows, what get_request and the HAR    *)
(* exports show of a completed flow is whole, or nothing of it when it was *)
(* evicted before the TUI's export came to it; and a client that reads the *)
(* list page by page is given every flow it asked for, down to one that no *)
(* longer matches.                                                         *)
(*                                                                         *)
(* The argument for the first: a summary copied while it showed a flow as  *)
(* completed is still the store's, unless the flow was evicted (Trusted);  *)
(* the data the reader holds is the store's while it is shared, and no     *)
(* longer changes afterwards; and an answered flow's response is not being *)
(* merged.                                                                 *)
(* For the second: a flow the client has not seen yet has at least as many *)
(* matching flows before it in the list as the offset of the next page     *)
(* (Waiting); a flow that is added or begins to match only puts it further *)
(* down, and one that ceases to match is not above it.                     *)
(***************************************************************************)
EXTENDS Readers, Paging, CaptureProofs, OrderingProofs

\* A summary that can still be relied on if it shows its flow as completed.
Trusted(m) ==
  /\ m.id \in FlowIDs
  /\ m.state = "Completed" =>
       pc[m.id] = "answered" /\ (Stored(m.id) => Meta(m.id).status = m.status)

TodoTrusted ==
  /\ todo \in Seq(FlowMeta)
  /\ \A i \in 1 .. Len(todo) : Trusted(todo[i])

PointerSound ==
  ptr.shared => ptr.flow \in FlowIDs /\ Stored(ptr.flow) /\ ptr.d = data[ptr.flow]

\* What is being read, between the copy of the summary and the reading of the body.
Reading ==
  reader \in {"headers", "body"} =>
    /\ todo # << >> /\ ~got.whole /\ Trusted(got.meta) /\ ptr.flow = got.meta.id
    /\ got.meta.state = "Completed" => ptr.d.resp = got.meta.status
    /\ got.meta.state = "Completed" /\ reader = "body" => got.headers = got.meta.status

Recorded ==
  /\ DOMAIN ptr = {"flow", "shared", "d"} /\ ptr.shared \in BOOLEAN
  /\ DOMAIN got = {"meta", "headers", "body", "whole"} /\ got.whole \in BOOLEAN
  /\ tool \in {"get", "har", "file"}

\* What has been answered was a summary of this kind.
AnswerTrusted ==
  /\ reader = "idle" => ~got.whole
  /\ got.whole => Trusted(got.meta)

RdInv ==
  /\ CapInv /\ TodoTrusted /\ PointerSound /\ Reading /\ Recorded
  /\ AnswerTrusted /\ CompletedReadIsWhole

-----------------------------------------------------------------------------
(* What a copied summary is good for. *)

\* A trusted summary stays so under every step of the pipeline.
LEMMA TrustedStays ==
  ASSUME CapInv, CapNext, NEW m, Trusted(m)
  PROVE  /\ m.state = "Completed" =>
              /\ pc'[m.id] = "answered"
              /\ Stored(m.id)' => Stored(m.id) /\ Meta(m.id)'.status = m.status
  BY AnsweredStays DEF Trusted

\* The summary of a held flow can be trusted, and its data has the response it shows.
LEMMA HeldIsTrusted ==
  ASSUME CapInv, NEW f \in FlowIDs, Stored(f)
  PROVE  /\ Meta(f) \in FlowMeta /\ Meta(f).id = f /\ Trusted(Meta(f))
         /\ Meta(f).state = "Completed" => data[f].resp = Meta(f).status
<1>1. FlowOK(f) /\ RBInv
  BY CapInvByFlow DEF TypesOK
<1>2. Meta(f) \in FlowMeta /\ Meta(f).id = f
  BY <1>1 DEF RBInv, RBTypeOK, IndexSound, Stored, Meta
<1> QED
  BY <1>1, <1>2 DEF Trusted, FlowOK

\* A trusted summary of a flow that is still held shows the response the store has.
LEMMA TrustedShowsResponse ==
  ASSUME CapInv, NEW m, Trusted(m), m.state = "Completed", Stored(m.id)
  PROVE  data[m.id].resp = m.status
<1>1. FlowOK(m.id)
  BY CapInvByFlow DEF Trusted
<1> QED
  BY <1>1 DEF Trusted, FlowOK

\* The same in the next state.
LEMMA TrustedShowsResponseNext ==
  ASSUME CapInv', NEW m, m.id \in FlowIDs, m.state = "Completed", Stored(m.id)',
         pc'[m.id] = "answered", Meta(m.id)'.status = m.status
  PROVE  data'[m.id].resp = m.status
<1>1. FlowOK(m.id)'
  BY CapInvByFlowNext
<1> QED
  BY <1>1 DEF FlowOK

\* Every summary of the whole list can be trusted.
LEMMA ListedAreTrusted ==
  ASSUME CapInv
  PROVE  /\ Newest \in Seq(FlowMeta)
         /\ \A i \in 1 .. Len(Newest) : Trusted(Newest[i])
<1>1. RBInv /\ count \in Nat /\ count <= Capacity
  BY DEF CapInv, RBInv, RBTypeOK
<1>2. ASSUME NEW i \in 1 .. count
      PROVE  Newest[i] \in FlowMeta /\ Trusted(Newest[i])
  <2>1. count - i \in 0 .. count - 1
    BY <1>1
  <2> DEFINE m == metas[SlotAt(count - i)]
  <2>2. m.id \in used /\ index[m.id] = SlotAt(count - i)
    BY <1>1, <2>1 DEF RBInv, LiveIndexed
  <2>3. m.id \in FlowIDs
    BY <1>1, <2>2 DEF RBInv, RBTypeOK
  <2>4. SlotAt(count - i) \in Slots
    <3>1. head \in Slots /\ count - i \in 0 .. Capacity
      BY <1>1, <2>1, CapacityAssumption DEF RBInv, RBTypeOK
    <3> QED
      BY <3>1, SlotWrap DEF SlotAt
  <2>5. Stored(m.id) /\ Meta(m.id) = m
    BY <2>2, <2>4 DEF Stored, Meta, Slots, NoSlot
  <2>6. Newest[i] = m
    BY <1>1 DEF Newest
  <2> HIDE DEF m
  <2> QED
    BY <2>3, <2>5, <2>6, HeldIsTrusted
<1>3. DOMAIN Newest = 1 .. count
  BY DEF Newest
<1> QED
  BY <1>1, <1>2, <1>3 DEF Newest

-----------------------------------------------------------------------------
(* The steps *)

\* The reader starts with nothing.
LEMMA RdInitInv == RdInit => RdInv
<1> SUFFICES ASSUME RdInit PROVE RdInv
  OBVIOUS
<1>1. CapInv
  BY CapInitInv DEF RdInit
<1>2. TodoTrusted
  BY DEF RdInit, TodoTrusted
<1>3. PointerSound /\ Reading /\ Recorded /\ AnswerTrusted /\ CompletedReadIsWhole
  BY DEF RdInit, PointerSound, Reading, Recorded, AnswerTrusted, CompletedReadIsWhole, NoPtr,
         Nothing
<1> QED
  BY <1>1, <1>2, <1>3 DEF RdInv

\* While the pipeline moves, what the reader copied stays good, and the data it holds
\* follows the store's until the store replaces or drops it.
LEMMA PipelineInv == RdInv /\ Pipeline => RdInv'
<1> SUFFICES ASSUME RdInv, Pipeline PROVE RdInv'
  OBVIOUS
<1>1. CapInv /\ CapInv' /\ CapNext /\ UNCHANGED <<reader, tool, todo, got>> /\ PointerFollows
  BY CapNextInv DEF RdInv, Pipeline
<1>2. \A m : Trusted(m) => /\ m.id \in FlowIDs
                           /\ m.state = "Completed" =>
                                /\ pc'[m.id] = "answered"
                                /\ Stored(m.id)' => /\ Stored(m.id)
                                                    /\ Meta(m.id)'.status = m.status
  BY <1>1, TrustedStays DEF Trusted
<1>3. TodoTrusted'
  BY <1>1, <1>2 DEF RdInv, TodoTrusted, Trusted
<1>4. /\ DOMAIN ptr' = {"flow", "shared", "d"} /\ ptr'.flow = ptr.flow
      /\ ptr'.shared \in BOOLEAN
      /\ ptr'.shared => ptr.shared /\ Stored(ptr.flow)' /\ ptr'.d = data'[ptr.flow]
      /\ ~ptr'.shared => ptr'.d = ptr.d
  BY <1>1 DEF PointerFollows, RdInv, Recorded, Stored
<1>5. PointerSound'
  BY <1>4 DEF RdInv, PointerSound
<1>6. Reading'
  <2> SUFFICES ASSUME reader' \in {"headers", "body"} PROVE Reading'
    BY DEF Reading
  <2>1. /\ todo # << >> /\ ~got.whole /\ Trusted(got.meta) /\ ptr.flow = got.meta.id
        /\ got.meta.state = "Completed" => ptr.d.resp = got.meta.status
        /\ got.meta.state = "Completed" /\ reader = "body" => got.headers = got.meta.status
    BY <1>1 DEF RdInv, Reading
  <2>2. Trusted(got.meta)'
    BY <1>1, <1>2, <2>1 DEF Trusted
  <2>3. got.meta.state = "Completed" => ptr'.d.resp = got.meta.status
    <3>1. CASE ~ptr'.shared
      BY <1>4, <2>1, <3>1
    <3>2. CASE ptr'.shared
      BY <1>1, <1>2, <1>4, <2>1, <3>2, TrustedShowsResponseNext
    <3> QED
      BY <3>1, <3>2
  <2> QED
    BY <1>1, <1>4, <2>1, <2>2, <2>3 DEF Reading
<1>7. Recorded' /\ AnswerTrusted'
  BY <1>1, <1>2, <1>4 DEF RdInv, Recorded, AnswerTrusted, Trusted
<1>8. CompletedReadIsWhole'
  BY <1>1, <1>2 DEF RdInv, AnswerTrusted, CompletedReadIsWhole
<1> QED
  BY <1>1, <1>3, <1>5, <1>6, <1>7, <1>8 DEF RdInv

\* A step of the reader leaves the store and the pipeline alone.
LEMMA ReaderStep ==
  ASSUME RdInv, UNCHANGED capVars
  PROVE  /\ CapInv'
         /\ index' = index /\ data' = data /\ pc' = pc /\ response' = response
         /\ \A m : Trusted(m) <=> /\ m.id \in FlowIDs
                                  /\ m.state = "Completed" =>
                                       /\ pc'[m.id] = "answered"
                                       /\ Stored(m.id)' => Meta(m.id)'.status = m.status
<1>1. CapInv'
  BY CapNextInv DEF RdInv
<1> QED
  BY <1>1 DEF capVars, rbVars, capLocal, Trusted, Stored, Meta

\* The summaries an export starts with can be trusted.
LEMMA ListInv ==
  ASSUME RdInv, ListFlows \/ \E f \in FlowIDs : GetForExport(f)
  PROVE  RdInv'
<1>1. UNCHANGED <<capVars, ptr, got>> /\ reader' = "fetch" /\ tool' \in {"har", "file"}
  BY DEF ListFlows, GetForExport, Becomes
<1>2. CapInv /\ CapInv'
  BY <1>1, ReaderStep DEF RdInv
<1>3. todo' \in Seq(FlowMeta) /\ \A i \in 1 .. Len(todo') : Trusted(todo'[i])
  <2>1. CASE ListFlows
    BY <1>2, <2>1, ListedAreTrusted DEF ListFlows
  <2>2. ASSUME NEW f \in FlowIDs, GetForExport(f)
        PROVE  todo' \in Seq(FlowMeta) /\ \A i \in 1 .. Len(todo') : Trusted(todo'[i])
    <3>1. CASE Stored(f)
      <4>1. todo' = <<Meta(f)>>
        BY <2>2, <3>1 DEF GetForExport, Get
      <4> QED
        BY <1>2, <3>1, <4>1, HeldIsTrusted
    <3>2. CASE ~Stored(f)
      BY <2>2, <3>2 DEF GetForExport, Get
    <3> QED
      BY <3>1, <3>2
  <2> QED
    BY <2>1, <2>2
<1>4. TodoTrusted'
  BY <1>1, <1>3, ReaderStep DEF TodoTrusted, Trusted
<1>5. PointerSound' /\ Reading' /\ Recorded'
  BY <1>1, ReaderStep DEF RdInv, PointerSound, Reading, Recorded, Stored
<1>6. AnswerTrusted' /\ CompletedReadIsWhole'
  BY <1>1 DEF RdInv, AnswerTrusted, CompletedReadIsWhole, ListFlows, GetForExport, Becomes
<1> QED
  BY <1>2, <1>4, <1>5, <1>6 DEF RdInv

\* The data fetched for a trusted summary belongs to it.
LEMMA FetchInv ==
  ASSUME RdInv, FetchData \/ \E f \in FlowIDs : GetRequest(f)
  PROVE  RdInv'
<1>1. UNCHANGED capVars /\ tool' \in {"get", "har", "file"}
  BY DEF FetchData, GetRequest, RdInv, Recorded
<1>2. CapInv /\ CapInv'
  BY <1>1, ReaderStep DEF RdInv
<1>3. ASSUME NEW m, Trusted(m), m \in FlowMeta, Stored(m.id), reader' = "headers",
             ptr' = [flow |-> m.id, shared |-> TRUE, d |-> data[m.id]],
             got' = [Nothing EXCEPT !.meta = m],
             todo' # << >>, todo' \in Seq(FlowMeta), \A i \in 1 .. Len(todo') : Trusted(todo'[i])
      PROVE  RdInv'
  <2>1. TodoTrusted'
    BY <1>1, <1>3, ReaderStep DEF TodoTrusted, Trusted
  <2>2. /\ m.id \in FlowIDs /\ Stored(m.id)' /\ data' = data
        /\ m.state = "Completed" => data[m.id].resp = m.status
    BY <1>1, <1>2, <1>3, ReaderStep, TrustedShowsResponse DEF Trusted, Stored
  <2>3. got' = [meta |-> m, headers |-> 0, body |-> 0, whole |-> FALSE]
    BY <1>3 DEF Nothing
  <2>4. Trusted(m)'
    BY <1>1, <1>3, ReaderStep DEF Trusted
  <2>5. PointerSound'
    BY <1>3, <2>2 DEF PointerSound
  <2>6. Reading'
    BY <1>3, <2>2, <2>3, <2>4 DEF Reading, Trusted
  <2>7. Recorded'
    <3>1. ptr' = [flow |-> m.id, shared |-> TRUE, d |-> data[m.id]]
      BY <1>3
    <3>2. DOMAIN ptr' = {"flow", "shared", "d"} /\ ptr'.shared = TRUE
      BY <3>1
    <3>3. DOMAIN got' = {"meta", "headers", "body", "whole"} /\ got'.whole = FALSE
      BY <2>3
    <3> QED
      BY <1>1, <3>2, <3>3, Zenon DEF Recorded
  <2>8. CompletedReadIsWhole' /\ AnswerTrusted'
    BY <2>3 DEF CompletedReadIsWhole, AnswerTrusted
  <2> QED
    BY <1>2, <2>1, <2>5, <2>6, <2>7, <2>8 DEF RdInv
<1>4. ASSUME NEW m, Trusted(m), data[m.id] = NoData, got' = Bare(m), UNCHANGED ptr,
             reader' \in {"fetch", "panicked", "done"},
             Stored(m.id) \/ tool' = "file",
             todo' \in Seq(FlowMeta), \A i \in 1 .. Len(todo') : Trusted(todo'[i])
      PROVE  RdInv'
  <2>1. got' = [meta |-> m, headers |-> 0, body |-> 0, whole |-> TRUE]
    BY <1>4 DEF Bare, Nothing
  <2>2. m.state = "Completed" => ~Stored(m.id)
    <3>1. FlowOK(m.id)
      BY <1>2, <1>4, CapInvByFlow DEF Trusted
    <3> QED
      BY <1>4, <3>1 DEF Trusted, FlowOK
  <2>3. TodoTrusted'
    BY <1>1, <1>4, ReaderStep DEF TodoTrusted, Trusted
  <2>4. PointerSound' /\ Reading'
    BY <1>1, <1>4, ReaderStep DEF RdInv, PointerSound, Reading, Stored
  <2>5. Recorded'
    <3>1. DOMAIN got' = {"meta", "headers", "body", "whole"} /\ got'.whole = TRUE
      BY <2>1
    <3>2. ptr' = ptr
      BY <1>4
    <3> QED
      BY <1>1, <3>1, <3>2, Zenon DEF RdInv, Recorded
  <2>6. AnswerTrusted'
    BY <1>1, <1>4, <2>1, ReaderStep DEF AnswerTrusted, Trusted
  <2>7. CompletedReadIsWhole'
    BY <1>1, <1>4, <2>1, <2>2, ReaderStep DEF CompletedReadIsWhole, Stored
  <2> QED
    BY <1>2, <2>3, <2>4, <2>5, <2>6, <2>7 DEF RdInv
<1>5. ASSUME NEW f \in FlowIDs, GetRequest(f) PROVE RdInv'
  <2>1. Stored(f)
    BY <1>5 DEF GetRequest, Get
  <2>2. Meta(f) \in FlowMeta /\ Meta(f).id = f /\ Trusted(Meta(f))
    BY <1>2, <2>1, HeldIsTrusted
  <2>3. CASE data[f] # NoData
    <3>1. /\ reader' = "headers" /\ todo' = <<Meta(f)>>
          /\ ptr' = [flow |-> f, shared |-> TRUE, d |-> data[f]]
          /\ got' = [Nothing EXCEPT !.meta = Meta(f)]
      BY <1>5, <2>1, <2>3 DEF GetRequest, Get
    <3> QED
      BY <1>3, <2>1, <2>2, <3>1
  <2>4. CASE data[f] = NoData
    <3>1. reader' = "done" /\ got' = Bare(Meta(f)) /\ UNCHANGED <<ptr, todo>>
      BY <1>5, <2>1, <2>4 DEF GetRequest, Get
    <3>2. todo \in Seq(FlowMeta) /\ \A i \in 1 .. Len(todo) : Trusted(todo[i])
      BY DEF RdInv, TodoTrusted
    <3> QED
      BY <1>4, <2>1, <2>2, <2>4, <3>1, <3>2
  <2> QED
    BY <2>3, <2>4
<1>6. CASE FetchData
  <2> DEFINE m == Head(todo)
  <2>1. m \in FlowMeta /\ Trusted(m) /\ Tail(todo) \in Seq(FlowMeta)
        /\ \A i \in 1 .. Len(Tail(todo)) : Trusted(Tail(todo)[i])
    BY <1>6 DEF FetchData, RdInv, TodoTrusted
  <2>2. Get(m.id).data # NoData => Stored(m.id)
    BY DEF Get
  <2>3. CASE Get(m.id).data # NoData
    <3>1. /\ Stored(m.id) /\ reader' = "headers" /\ todo' = todo /\ todo # << >>
          /\ ptr' = [flow |-> m.id, shared |-> TRUE, d |-> data[m.id]]
          /\ got' = [Nothing EXCEPT !.meta = m]
      BY <1>6, <2>2, <2>3 DEF FetchData, Get
    <3>2. todo \in Seq(FlowMeta) /\ \A i \in 1 .. Len(todo) : Trusted(todo[i])
      BY DEF RdInv, TodoTrusted
    <3> QED
      BY <1>3, <2>1, <3>1, <3>2
  <2>4. CASE Get(m.id).data = NoData
    <3>1. /\ reader' \in {"panicked", "fetch"} /\ todo' = Tail(todo) /\ tool' = tool
          /\ got' = (IF tool = "file" THEN Bare(m) ELSE got) /\ UNCHANGED ptr
      BY <1>6, <2>4 DEF FetchData
    <3>2. CASE tool = "file"
      <4>1. data[m.id] = NoData
        <5>1. ~Stored(m.id) => data[m.id] = NoData
          BY <1>2, <2>1 DEF CapInv, RBInv, NoOrphanData, Trusted
        <5> QED
          BY <2>4, <5>1 DEF Get
      <4> QED
        BY <1>4, <2>1, <3>1, <3>2, <4>1
    <3>3. CASE tool # "file"
      <4>1. TodoTrusted'
        BY <1>1, <2>1, <3>1, ReaderStep DEF TodoTrusted, Trusted
      <4>2. PointerSound' /\ Reading' /\ Recorded'
        BY <1>1, <3>1, <3>3, ReaderStep DEF RdInv, PointerSound, Reading, Recorded, Stored
      <4>3. AnswerTrusted' /\ CompletedReadIsWhole'
        BY <1>1, <3>1, <3>3, ReaderStep
           DEF RdInv, AnswerTrusted, CompletedReadIsWhole, Trusted, Stored
      <4> QED
        BY <1>2, <4>1, <4>2, <4>3 DEF RdInv
    <3> QED
      BY <3>2, <3>3
  <2> QED
    BY <2>3, <2>4
<1> QED
  BY <1>5, <1>6

\* What is read without the lock is the response: an answered flow is not being merged.
LEMMA ReadInv ==
  ASSUME RdInv, ReadHeaders \/ ReadBody
  PROVE  RdInv'
<1>1. UNCHANGED <<capVars, tool>> /\ reader \in {"headers", "body"}
  BY DEF ReadHeaders, ReadBody, Becomes
<1>2. CapInv /\ CapInv'
  BY <1>1, ReaderStep DEF RdInv
<1>3. /\ todo # << >> /\ ~got.whole /\ Trusted(got.meta) /\ ptr.flow = got.meta.id
      /\ got.meta.state = "Completed" => ptr.d.resp = got.meta.status
      /\ got.meta.state = "Completed" /\ reader = "body" => got.headers = got.meta.status
  BY <1>1 DEF RdInv, Reading
<1>4. got.meta.state = "Completed" => ~Merging
  BY <1>3 DEF Trusted, Merging
<1>5. DOMAIN got = {"meta", "headers", "body", "whole"}
  BY DEF RdInv, Recorded
<1>6. CASE ReadHeaders
  <2>1. UNCHANGED <<capVars, tool, todo, ptr>> /\ reader' = "body"
    BY <1>6 DEF ReadHeaders, Becomes
  <2>2. PICK h : got' = [got EXCEPT !.headers = h]
                 /\ (got.meta.state = "Completed" => h = ptr.d.resp)
    BY <1>4, <1>6 DEF ReadHeaders
  <2>3. /\ got'.meta = got.meta /\ got'.headers = h /\ got'.whole = got.whole
        /\ DOMAIN got' = DOMAIN got
    BY <1>5, <2>2
  <2>4. TodoTrusted' /\ PointerSound'
    BY <2>1, ReaderStep DEF RdInv, TodoTrusted, PointerSound, Trusted, Stored
  <2>5. Trusted(got.meta)'
    BY <1>1, <1>3, <2>3, ReaderStep DEF Trusted
  <2>6. Reading'
    BY <1>3, <2>1, <2>2, <2>3, <2>5 DEF Reading
  <2>7. Recorded' /\ AnswerTrusted' /\ CompletedReadIsWhole'
    BY <1>3, <2>1, <2>3 DEF RdInv, Recorded, AnswerTrusted, CompletedReadIsWhole
  <2> QED
    BY <1>2, <2>4, <2>6, <2>7 DEF RdInv
<1>7. CASE ReadBody
  <2>1. /\ reader = "body" /\ reader' \in {"done", "fetch"}
        /\ ptr' = NoPtr /\ todo' = Tail(todo)
    BY <1>7 DEF ReadBody, Becomes
  <2>2. PICK b : got' = [got EXCEPT !.body = b, !.whole = TRUE]
                 /\ (got.meta.state = "Completed" => b = ptr.d.resp)
    BY <1>4, <1>7 DEF ReadBody
  <2>3. /\ got'.meta = got.meta /\ got'.headers = got.headers /\ got'.body = b
        /\ got'.whole = TRUE /\ DOMAIN got' = DOMAIN got
    BY <1>5, <2>2
  <2>4. TodoTrusted'
    <3>1. /\ Tail(todo) \in Seq(FlowMeta)
          /\ \A i \in 1 .. Len(Tail(todo)) : Trusted(Tail(todo)[i])
      BY <1>3 DEF RdInv, TodoTrusted
    <3> QED
      BY <1>1, <2>1, <3>1, ReaderStep DEF RdInv, TodoTrusted, Trusted
  <2>5. PointerSound' /\ Reading'
    BY <2>1 DEF PointerSound, Reading, NoPtr
  <2>6. Recorded'
    BY <1>1, <1>5, <2>1, <2>3 DEF RdInv, Recorded, NoPtr
  <2>7. CompletedReadIsWhole'
    BY <1>3, <2>1, <2>2, <2>3 DEF CompletedReadIsWhole
  <2>8. AnswerTrusted'
    BY <1>1, <1>3, <2>1, <2>3, ReaderStep DEF AnswerTrusted, Trusted
  <2> QED
    BY <1>2, <2>4, <2>5, <2>6, <2>7, <2>8 DEF RdInv
<1> QED
  BY <1>6, <1>7

-----------------------------------------------------------------------------
(* The theorems *)

\* Every step keeps the invariant.
LEMMA RdNextInv == RdInv /\ [RdNext]_rdVars => RdInv'
<1> SUFFICES ASSUME RdInv, [RdNext]_rdVars PROVE RdInv'
  OBVIOUS
<1>1. ASSUME UNCHANGED <<capVars, todo, ptr, got, tool>>, reader' = reader \/ reader' = "done"
      PROVE  RdInv'
  BY <1>1, ReaderStep DEF RdInv, TodoTrusted, PointerSound, Reading, Recorded,
                          AnswerTrusted, CompletedReadIsWhole, Trusted, Stored
<1>2. CASE UNCHANGED rdVars
  BY <1>1, <1>2 DEF rdVars, rdLocal
<1>3. CASE ExportEnds
  BY <1>1, <1>3 DEF ExportEnds, Becomes
<1> QED
  BY <1>2, <1>3, PipelineInv, ListInv, FetchInv, ReadInv DEF RdNext

\* The inductive invariant of the readers and the pipeline holds throughout.
THEOREM ReadersInvariant == RdSpec => []RdInv
  BY RdInitInv, RdNextInv, PTL DEF RdSpec

\* An answer or HAR entry of a completed flow has that response's headers and body, or, in
\* the TUI's export of a flow that has been evicted, neither: for every capacity, number of
\* flows and interleaving with the pipeline and evictions.
THEOREM CompletedReadsAreWhole == RdSpec => []CompletedReadIsWhole
<1>1. RdInv => CompletedReadIsWhole
  BY DEF RdInv
<1> QED
  BY <1>1, ReadersInvariant, PTL

-----------------------------------------------------------------------------
(* Paging: the positions of the list. *)

\* The matching flows before the i-th of the list.
Ahead(i, matching) == {j \in 1 .. i - 1 : Newest[j].id \in matching}

\* What the client has not seen yet is not before its next page, below the first flow of
\* the list that has ceased to match.
Waiting ==
  \A i \in 1 .. count :
    Newest[i].id \in owed \ seen /\ Unmoved(i) => offset <= Cardinality(Ahead(i, wanted))

PgInv ==
  /\ RBInv
  /\ pager \in {"idle", "paging", "done"} /\ asked \in Int /\ offset \in Nat
  /\ wanted \subseteq used /\ owed \subseteq used /\ owed \subseteq wanted \cup stopped
  /\ pager = "paging" => Waiting
  /\ PagingMissesNothing

\* The list is the log, newest first.
LEMMA NewestShape ==
  ASSUME RBInv
  PROVE  /\ count \in Nat /\ Newest = [i \in 1 .. count |-> Newest[i]]
         /\ \A i \in 1 .. count : /\ Newest[i] \in FlowMeta /\ Newest[i].id \in used
                                  /\ count + 1 - i \in 1 .. count
                                  /\ Newest[i] = Contents[count + 1 - i]
         /\ \A f \in FlowIDs : Stored(f) <=> \E i \in 1 .. count : Newest[i].id = f
<1>1. count \in Nat
  BY DEF RBInv, RBTypeOK
<1>2. ASSUME NEW i \in 1 .. count
      PROVE  /\ Newest[i] \in FlowMeta /\ Newest[i].id \in used
             /\ count + 1 - i \in 1 .. count
             /\ Newest[i] = Contents[count + 1 - i]
  <2>1. count + 1 - i \in 1 .. count /\ (count + 1 - i) - 1 = count - i
    BY <1>1
  <2>2. Newest[i] = metas[SlotAt(count - i)]
    BY DEF Newest
  <2>3. Contents[count + 1 - i] = metas[SlotAt(count - i)]
        /\ Contents[count + 1 - i] \in FlowMeta
    BY <2>1, ContentsShape, ElementOfSeq
  <2>4. Contents[count + 1 - i].id \in used
    BY <2>1, ContentsIDs
  <2> QED
    BY <2>1, <2>2, <2>3, <2>4
<1>3. ASSUME NEW f \in FlowIDs
      PROVE  Stored(f) <=> \E i \in 1 .. count : Newest[i].id = f
  <2>1. Stored(f) <=> \E i \in 1 .. count : Contents[i].id = f
    BY ContentsIDs
  <2>2. \A i \in 1 .. count : count + 1 - i \in 1 .. count /\ count + 1 - (count + 1 - i) = i
    BY <1>1
  <2>3. \A i \in 1 .. count : Newest[count + 1 - i] = Contents[i]
    BY <1>2, <2>2
  <2> QED
    BY <1>2, <2>1, <2>2, <2>3
<1>4. Newest = [i \in 1 .. count |-> Newest[i]]
  BY DEF Newest
<1> QED
  BY <1>1, <1>2, <1>3, <1>4

MirrorsLog == \A i \in 1 .. count : Newest[i] = Contents[count + 1 - i]

\* The list is the log, newest first, as a state predicate.
LEMMA NewestMirrors == RBInv => MirrorsLog
<1> SUFFICES ASSUME RBInv PROVE MirrorsLog
  OBVIOUS
<1> QED
  BY NewestShape DEF MirrorsLog

\* The same in the next state.
LEMMA MirrorsNext == RBInv' => MirrorsLog'
  BY NewestMirrors, PTL

\* The same in the next state, with the list's positions.
LEMMA NewestShapeNext ==
  RBInv' => \A i \in 1 .. count' : Newest'[i] = Contents'[count' + 1 - i]
<1> SUFFICES ASSUME RBInv' PROVE \A i \in 1 .. count' : Newest'[i] = Contents'[count' + 1 - i]
  OBVIOUS
<1>1. MirrorsLog'
  BY MirrorsNext
<1> QED
  BY <1>1 DEF MirrorsLog

PageLength(len, from, limit) ==
  IF from >= len THEN 0 ELSE IF limit < len - from THEN limit ELSE len - from

\* A page is the part of the list after the offset, as long as the limit allows.
LEMMA PageShape ==
  ASSUME NEW S, NEW s \in Seq(S), NEW from \in Nat, NEW limit \in Nat \ {0}
  PROVE  /\ PageLength(Len(s), from, limit) \in Nat
         /\ Page(s, from, limit) \in Seq(S)
         /\ Len(Page(s, from, limit)) = PageLength(Len(s), from, limit)
         /\ \A k \in 1 .. PageLength(Len(s), from, limit) :
              Page(s, from, limit)[k] = s[from + k]
<1> USE DEF PageLength
<1> DEFINE rest == SubSeq(s, from + 1, Len(s))
           m == IF from >= Len(s) THEN 0 ELSE Len(s) - from
<1>1. Len(s) \in Nat /\ m \in Nat
  OBVIOUS
<1>2. rest \in Seq(S) /\ Len(rest) = m /\ \A k \in 1 .. m : rest[k] = s[from + k]
  OBVIOUS
<1> HIDE DEF rest
<1>3. CASE limit < m
  <2>1. Page(s, from, limit) = SubSeq(rest, 1, limit)
    BY <1>2, <1>3 DEF Page, rest
  <2>2. SubSeq(rest, 1, limit) \in Seq(S) /\ Len(SubSeq(rest, 1, limit)) = limit
        /\ \A k \in 1 .. limit : SubSeq(rest, 1, limit)[k] = rest[k]
    BY <1>2, <1>3
  <2> QED
    BY <1>1, <1>2, <1>3, <2>1, <2>2
<1>4. CASE ~(limit < m)
  <2>1. Page(s, from, limit) = rest
    BY <1>2, <1>4 DEF Page, rest
  <2> QED
    BY <1>1, <1>2, <1>4, <2>1
<1> QED
  BY <1>3, <1>4

\* A page gives the client every matching flow from its offset up to the next one, and
\* ends the reading only when there is none left.
LEMMA PageTaken ==
  ASSUME RBInv, UNCHANGED rbVars, NEW from \in Nat, asked' \in Int, wanted' \subseteq used,
         TakePage(from)
  PROVE  /\ offset' \in Nat /\ pager' \in {"done", "paging"} /\ seen \subseteq seen'
         /\ \A i \in 1 .. count :
              /\ Newest[i].id \in wanted' \ seen'
              /\ from <= Cardinality(Ahead(i, wanted'))
              => pager' = "paging" /\ offset' <= Cardinality(Ahead(i, wanted'))
<1> DEFINE P == {i \in 1 .. count : Newest[i] \in {m \in FlowMeta : m.id \in wanted'}}
           matched == Kept(Newest, P)
           limit == clampLimit(asked')
           page == Page(matched, from, limit)
           n == Cardinality(P)
<1>1. /\ count \in Nat /\ Newest = [i \in 1 .. count |-> Newest[i]]
      /\ \A i \in 1 .. count : Newest[i] \in FlowMeta
  BY NewestShape
<1>2. \A i \in 1 .. count : i \in P <=> Newest[i].id \in wanted'
  BY <1>1
<1>3. P \in SUBSET (1 .. count)
  OBVIOUS
<1>4. \A i \in 1 .. count : Smaller(P, i) = Ahead(i, wanted')
  BY <1>1, <1>2 DEF Ahead, Smaller
<1>5. limit \in Nat \ {0}
  BY LimitsAssumption DEF clampLimit
<1>6. ListRequests(from, asked') = <<page, Len(matched)>>
  BY DEF ListRequests, List
<1> HIDE DEF P, matched, limit
<1>7. /\ n \in Nat /\ matched = [i \in 1 .. n |-> matched[i]]
      /\ \E places \in [1 .. n -> P] :
           /\ \A i \in 1 .. n : matched[i] = Newest[places[i]]
           /\ \A p \in P : \E i \in 1 .. n :
                places[i] = p /\ Cardinality(Smaller(P, p)) = i - 1
  <2> DEFINE s == Newest
  <2>1. matched = Kept(s, P)
    BY DEF matched
  <2> HIDE DEF s
  <2>2. Sublist(matched, s, P)
    BY <1>1, <1>3, <2>1, KeptIsSublist
  <2> QED
    BY <2>2 DEF Sublist, s
<1>8. matched \in Seq(FlowMeta) /\ Len(matched) = n
  <2>1. \A i \in 1 .. n : matched[i] \in FlowMeta
    BY <1>1, <1>3, <1>7
  <2> QED
    BY <1>7, <2>1
<1>9. \A i \in P : /\ Cardinality(Ahead(i, wanted')) \in 0 .. n - 1
                   /\ matched[Cardinality(Ahead(i, wanted')) + 1] = Newest[i]
  <2> TAKE i \in P
  <2>1. PICK k \in 1 .. n : matched[k] = Newest[i] /\ Cardinality(Smaller(P, i)) = k - 1
    BY <1>7
  <2>2. Cardinality(Ahead(i, wanted')) = k - 1
    BY <1>3, <1>4, <2>1
  <2> QED
    BY <1>7, <2>1, <2>2
<1> DEFINE length == PageLength(n, from, limit)
<1>10. /\ length \in Nat /\ page \in Seq(FlowMeta) /\ Len(page) = length
       /\ \A k \in 1 .. length : page[k] = matched[from + k]
  <2>1. matched \in Seq(FlowMeta) /\ Len(matched) = n
    BY <1>8
  <2>2. /\ PageLength(Len(matched), from, limit) \in Nat
        /\ Page(matched, from, limit) \in Seq(FlowMeta)
        /\ Len(Page(matched, from, limit)) = PageLength(Len(matched), from, limit)
        /\ \A k \in 1 .. PageLength(Len(matched), from, limit) :
             Page(matched, from, limit)[k] = matched[from + k]
    BY <1>5, <2>1, PageShape, Zenon
  <2> QED
    BY <2>1, <2>2
<1> DEFINE ids == {page[i].id : i \in DOMAIN page}
<1>11. ids = {page[k].id : k \in 1 .. length}
  BY <1>10
<1> HIDE DEF page
<1>12. /\ seen' = seen \cup ids /\ offset' = from + length
       /\ pager' = IF ids = {} \/ offset' >= n THEN "done" ELSE "paging"
  <2> DEFINE answer == ListRequests(from, asked')
  <2>1. answer[1] = page /\ answer[2] = n
    BY <1>6, <1>8
  <2>2. /\ seen' = seen \cup {answer[1][i].id : i \in DOMAIN answer[1]}
        /\ offset' = from + Len(answer[1])
        /\ pager' = IF {answer[1][i].id : i \in DOMAIN answer[1]} = {} \/ offset' >= answer[2]
                    THEN "done" ELSE "paging"
    BY DEF TakePage
  <2> HIDE DEF answer
  <2> QED
    BY <1>10, <2>1, <2>2
<1> HIDE DEF ids
<1>13. ASSUME NEW i \in 1 .. count, Newest[i].id \in wanted' \ seen',
              from <= Cardinality(Ahead(i, wanted'))
       PROVE  pager' = "paging" /\ offset' <= Cardinality(Ahead(i, wanted'))
  <2> DEFINE r == Cardinality(Ahead(i, wanted'))
  <2>1. i \in P /\ r \in 0 .. n - 1 /\ matched[r + 1] = Newest[i]
    BY <1>2, <1>9, <1>13
  <2> HIDE DEF r
  <2>2. from <= r /\ from < n
    BY <1>7, <1>13, <2>1 DEF r
  <2>3. CASE r < from + length
    <3>1. r + 1 - from \in 1 .. length /\ from + (r + 1 - from) = r + 1
      BY <1>7, <1>10, <2>1, <2>2, <2>3
    <3>2. page[r + 1 - from] = Newest[i]
      BY <1>10, <2>1, <3>1
    <3>3. Newest[i].id \in ids
      BY <1>11, <3>1, <3>2
    <3> QED
      BY <1>12, <1>13, <3>3
  <2>4. CASE r >= from + length
    <3>1. offset' <= r /\ ~(offset' >= n)
      BY <1>7, <1>10, <1>12, <2>1, <2>4
    <3>2. length >= 1
      BY <1>5, <1>7, <2>2 DEF PageLength
    <3>3. ids # {}
      <4>1. 1 \in 1 .. length
        BY <1>10, <3>2
      <4>2. page[1].id \in ids
        BY <1>11, <4>1
      <4> QED
        BY <4>2
    <3> QED
      BY <1>12, <3>1, <3>3 DEF r
  <2> QED
    BY <1>7, <1>10, <2>1, <2>3, <2>4 DEF r
<1> QED
  BY <1>10, <1>12, <1>13

-----------------------------------------------------------------------------
(* Paging: the steps. *)

\* One more page, of the list as it is.
LEMMA PageInv ==
  ASSUME RBInv, UNCHANGED rbVars, NEW from \in Nat, asked' \in Int, TakePage(from),
         wanted' \subseteq used, owed' \subseteq used, owed' \subseteq wanted' \cup stopped',
         \A i \in 1 .. count :
           Newest[i].id \in owed' \ seen /\ (\A j \in 1 .. i : Newest[j].id \notin stopped') =>
             from <= Cardinality(Ahead(i, wanted'))
  PROVE  PgInv'
<1>1. /\ offset' \in Nat /\ pager' \in {"done", "paging"} /\ seen \subseteq seen'
      /\ \A i \in 1 .. count :
           /\ Newest[i].id \in wanted' \ seen'
           /\ from <= Cardinality(Ahead(i, wanted'))
           => pager' = "paging" /\ offset' <= Cardinality(Ahead(i, wanted'))
  BY PageTaken
<1>2. UNCHANGED <<count, used, Newest>> /\ count \in Nat
  BY DEF rbVars, Newest, SlotAt, RBInv, RBTypeOK
<1>3. RBInv'
  BY RBNextInv
<1>4. ASSUME NEW i \in 1 .. count, Newest[i].id \in owed' \ seen',
             \A j \in 1 .. i : Newest[j].id \notin stopped'
      PROVE  pager' = "paging" /\ offset' <= Cardinality(Ahead(i, wanted'))
  <2>1. i \in 1 .. i
    BY <1>2
  <2>2. Newest[i].id \in wanted'
    BY <1>4, <2>1
  <2>3. from <= Cardinality(Ahead(i, wanted'))
    BY <1>1, <1>4
  <2> QED
    BY <1>1, <1>4, <2>2, <2>3
<1>5. Waiting'
  BY <1>2, <1>4 DEF Waiting, Unmoved, Ahead
<1>6. PagingMissesNothing'
  BY <1>2, <1>4 DEF PagingMissesNothing, Unmoved
<1> QED
  BY <1>1, <1>2, <1>3, <1>5, <1>6 DEF PgInv

\* An added flow goes to the head of the list; every flow that stays in it has one more
\* before it.
LEMMA AddShiftsList ==
  ASSUME RBInv, NEW g \in FlowIDs, DoAdd(g)
  PROVE  /\ used' = used \cup {g} /\ g \notin used /\ count' \in Nat
         /\ \A i \in 1 .. count' :
              IF i = 1 THEN Newest'[i].id = g
              ELSE i - 1 \in 1 .. count /\ Newest'[i] = Newest[i - 1]
<1> DEFINE m == NewMeta(g)
<1>1. m \in FlowMeta /\ m.id = g /\ g \notin used
  BY DEF DoAdd, NewMeta, ZeroMeta, FlowMeta, FlowStates, ProcessNames
<1> HIDE DEF m
<1>2. Add(m)
  BY DEF DoAdd, m
<1>3. Log!AppendFlow(m) /\ RBInv'
  BY <1>1, <1>2, AddAppends, AddInv
<1>4. Contents \in Seq(FlowMeta) /\ Len(Contents) = count /\ count \in Nat
  BY ContentsShape DEF RBInv, RBTypeOK
<1>5. Contents' \in Seq(FlowMeta) /\ Len(Contents') = count' /\ count' \in Nat
  BY <1>3, ContentsShapeNext DEF RBInv, RBTypeOK
<1>6. Contents' = Append(IF Len(Contents) = Capacity THEN Tail(Contents) ELSE Contents, m)
  BY <1>3 DEF Log!AppendFlow
<1>7. /\ \A i \in 1 .. count : Newest[i] = Contents[count + 1 - i]
      /\ \A i \in 1 .. count' : Newest'[i] = Contents'[count' + 1 - i]
  BY <1>3, NewestShape, NewestShapeNext
<1>8. ASSUME NEW i \in 1 .. count'
      PROVE  IF i = 1 THEN Newest'[i].id = g
             ELSE i - 1 \in 1 .. count /\ Newest'[i] = Newest[i - 1]
  <2>1. CASE Len(Contents) = Capacity
    <3>1. Contents # << >> /\ count' = count
      BY <1>4, <1>5, <1>6, <2>1, CapacityAssumption
    <3>2. Tail(Contents) \in Seq(FlowMeta) /\ Len(Tail(Contents)) = count - 1
          /\ \A j \in 1 .. count - 1 : Tail(Contents)[j] = Contents[j + 1]
      BY <1>4, <3>1, HeadTailProperties
    <3>3. Contents'[count] = m /\ \A j \in 1 .. count - 1 : Contents'[j] = Contents[j + 1]
      BY <1>1, <1>4, <1>6, <2>1, <3>1, <3>2
    <3>4. CASE i = 1
      BY <1>1, <1>4, <1>7, <3>1, <3>3, <3>4
    <3>5. CASE i # 1
      <4>1. i - 1 \in 1 .. count /\ count' + 1 - i \in 1 .. count - 1
            /\ (count' + 1 - i) + 1 = count + 1 - (i - 1)
        BY <1>4, <3>1, <3>5
      <4> QED
        BY <1>7, <3>3, <4>1
    <3> QED
      BY <3>4, <3>5
  <2>2. CASE Len(Contents) # Capacity
    <3>1. /\ count' = count + 1 /\ Contents'[count + 1] = m
          /\ \A j \in 1 .. count : Contents'[j] = Contents[j]
      BY <1>1, <1>4, <1>5, <1>6, <2>2
    <3>2. CASE i = 1
      BY <1>1, <1>4, <1>7, <3>1, <3>2
    <3>3. CASE i # 1
      <4>1. i - 1 \in 1 .. count /\ count' + 1 - i \in 1 .. count
            /\ count' + 1 - i = count + 1 - (i - 1)
        BY <1>4, <3>1, <3>3
      <4> QED
        BY <1>7, <3>1, <4>1
    <3> QED
      BY <3>2, <3>3
  <2> QED
    BY <2>1, <2>2
<1>9. used' = used \cup {g}
  BY <1>1, <1>2 DEF Add
<1> QED
  BY <1>1, <1>5, <1>8, <1>9

\* A flow that waited for its page goes on waiting when another is added.
LEMMA AddKeepsWaiting ==
  ASSUME PgInv, NEW g \in FlowIDs, DoAdd(g), pager = "paging",
         NEW s \in SUBSET (used' \ used), wanted' = wanted \cup s,
         UNCHANGED <<offset, seen, owed, stopped>>
  PROVE  Waiting'
<1>1. /\ g \notin used /\ count' \in Nat
      /\ \A i \in 1 .. count' :
           IF i = 1 THEN Newest'[i].id = g
           ELSE i - 1 \in 1 .. count /\ Newest'[i] = Newest[i - 1]
  BY AddShiftsList DEF PgInv
<1>2. offset \in Nat /\ count \in Nat /\ Waiting /\ wanted \subseteq used
  BY DEF PgInv, RBInv, RBTypeOK
<1> SUFFICES ASSUME NEW i \in 1 .. count', Newest'[i].id \in owed \ seen,
                    \A j \in 1 .. i : Newest'[j].id \notin stopped
             PROVE  offset <= Cardinality(Ahead(i, wanted)')
  BY DEF Waiting, Unmoved
<1>3. i - 1 \in 1 .. count /\ Newest'[i] = Newest[i - 1] /\ Unmoved(i - 1)
  <2>1. g \notin owed
    BY <1>1 DEF PgInv
  <2>2. i # 1 /\ i \in Nat /\ i <= count'
    BY <1>1, <2>1
  <2>3. i - 1 \in 1 .. count /\ Newest'[i] = Newest[i - 1]
    BY <1>1, <2>2
  <2>4. ASSUME NEW j \in 1 .. i - 1 PROVE Newest[j].id \notin stopped
    <3>1. j + 1 \in 1 .. i /\ j + 1 \in 1 .. count' /\ j + 1 # 1 /\ (j + 1) - 1 = j
      BY <1>1, <2>2
    <3>2. Newest'[j + 1] = Newest[j]
      BY <1>1, <3>1
    <3> QED
      BY <3>1, <3>2
  <2> QED
    BY <2>3, <2>4 DEF Unmoved
<1>4. offset <= Cardinality(Ahead(i - 1, wanted))
  BY <1>2, <1>3 DEF Waiting
<1> DEFINE A == Ahead(i - 1, wanted)
           B == Ahead(i, wanted)'
           up == [j \in A |-> j + 1]
<1>5. \A j \in A : j \in Int /\ j + 1 \in B
  <2> TAKE j \in A
  <2>1. j \in 1 .. (i - 1) - 1 /\ Newest[j].id \in wanted
    BY DEF Ahead
  <2>2. /\ j + 1 \in 1 .. count' /\ (j + 1) - 1 = j /\ j + 1 # 1
        /\ j + 1 \in 1 .. i - 1
    BY <1>1, <1>2, <1>3, <2>1
  <2>3. Newest'[j + 1].id \in wanted'
    BY <1>1, <2>1, <2>2
  <2> QED
    BY <2>1, <2>2, <2>3 DEF Ahead
<1>6. IsFiniteSet(B)
  <2>1. 1 \in Int /\ i - 1 \in Int
    BY <1>1
  <2>2. IsFiniteSet(1 .. i - 1)
    BY <2>1, FS_Interval
  <2>3. B \subseteq 1 .. i - 1
    BY DEF Ahead
  <2> QED
    BY <2>2, <2>3, FS_Subset
<1> HIDE DEF A, B
<1>7. up \in Injection(A, B)
  BY <1>5 DEF Injection, IsInjective
<1>8. Cardinality(A) <= Cardinality(B) /\ IsFiniteSet(A)
  <2> HIDE DEF up
  <2> QED
    BY <1>6, <1>7, FS_Injection
<1>9. Cardinality(A) \in Nat /\ Cardinality(B) \in Nat
  BY <1>6, <1>8, FS_CardinalityType
<1>10. offset <= Cardinality(B)
  BY <1>2, <1>4, <1>8, <1>9 DEF A
<1> QED
  BY <1>10 DEF B

\* So it does when a flow begins to match; when one ceases to, those above it go on waiting.
LEMMA UpdateKeepsWaiting ==
  ASSUME PgInv, pager = "paging", UpdateBetween
  PROVE  RBInv' /\ used' = used /\ Waiting'
<1>1. PICK g \in FlowIDs, c \in StatusCodes :
        Update(g, SetStatus(c)) /\ wanted' \in {wanted \cup {g}, wanted \ {g}}
  BY DEF UpdateBetween
<1>2. SetStatus(c) \in [FlowMeta -> FlowMeta] /\ \A m \in FlowMeta : SetStatus(c)[m].id = m.id
  BY <1>1, WriterTypes
<1>3. RBInv' /\ index' = index /\ used' = used /\ head' = head /\ count' = count
  BY <1>1, <1>2, UpdateEffect DEF PgInv, Update
<1>4. metas \in [Slots -> FlowMeta] /\ count \in Nat /\ \A f \in FlowIDs : Stored(f) => index[f] \in Slots
  BY DEF PgInv, RBInv, RBTypeOK, Stored
<1>5. \A s \in Slots : metas'[s].id = metas[s].id
  BY <1>1, <1>2, <1>4 DEF Update
<1>6. \A i \in 1 .. count : Newest'[i].id = Newest[i].id
  <2> TAKE i \in 1 .. count
  <2>1. SlotAt(count - i) \in Slots
    <3>1. count \in 0 .. Capacity /\ head \in Slots /\ Capacity \in Nat
      BY CapacityAssumption DEF PgInv, RBInv, RBTypeOK
    <3>2. count - i \in 0 .. Capacity
      BY <3>1
    <3> QED
      BY <3>1, <3>2, SlotWrap, Zenon DEF SlotAt
  <2>2. Newest[i] = metas[SlotAt(count - i)] /\ Newest'[i] = metas'[SlotAt(count - i)]
    BY <1>3 DEF Newest, SlotAt
  <2> QED
    BY <1>5, <2>1, <2>2
<1> SUFFICES ASSUME NEW i \in 1 .. count, Newest[i].id \in owed \ seen,
                    \A j \in 1 .. i : Newest[j].id \notin stopped'
             PROVE  offset <= Cardinality(Ahead(i, wanted)')
  <2>1. UNCHANGED <<offset, seen, owed>>
    BY DEF UpdateBetween
  <2>2. \A i \in 1 .. count : 1 .. i \subseteq 1 .. count
    BY <1>4
  <2> QED
    BY <1>3, <1>6, <2>1, <2>2 DEF Waiting, Unmoved
<1>7. stopped \subseteq stopped' /\ wanted \ wanted' \subseteq stopped'
  BY DEF UpdateBetween
<1>8. offset \in Nat /\ offset <= Cardinality(Ahead(i, wanted))
  BY <1>7 DEF PgInv, Waiting, Unmoved
<1> DEFINE A == Ahead(i, wanted)
           B == Ahead(i, wanted)'
<1>9. A \subseteq B /\ B \subseteq 1 .. i - 1
  <2>1. B \subseteq 1 .. i - 1
    BY DEF Ahead
  <2>2. ASSUME NEW j \in A PROVE j \in B
    <3>1. j \in 1 .. i - 1 /\ j \in 1 .. i /\ j \in 1 .. count /\ Newest[j].id \in wanted
      BY <1>4 DEF Ahead
    <3>2. Newest[j].id \in wanted'
      BY <1>7, <3>1
    <3> QED
      BY <1>6, <3>1, <3>2 DEF Ahead
  <2> QED
    BY <2>1, <2>2
<1>10. IsFiniteSet(B)
  <2>1. 1 \in Int /\ i - 1 \in Int
    BY <1>4
  <2> QED
    BY <1>9, <2>1, FS_Interval, FS_Subset
<1> HIDE DEF A, B
<1>11. Cardinality(A) <= Cardinality(B) /\ Cardinality(A) \in Nat /\ Cardinality(B) \in Nat
  BY <1>9, <1>10, FS_Subset, FS_CardinalityType
<1>12. offset <= Cardinality(B)
  BY <1>8, <1>11 DEF A
<1> QED
  BY <1>12 DEF B

\* The client starts with nothing.
LEMMA PgInitInv == PgInit => PgInv
<1> SUFFICES ASSUME PgInit PROVE PgInv
  OBVIOUS
<1>1. RBInv
  BY RBInitInv DEF PgInit
<1> QED
  BY <1>1 DEF PgInit, PgInv, PagingMissesNothing

\* Every step of the client and of the store keeps the invariant.
LEMMA PgNextInv == PgInv /\ [PgNext]_pgVars => PgInv'
<1> SUFFICES ASSUME PgInv, [PgNext]_pgVars PROVE PgInv'
  OBVIOUS
<1> USE DEF PgInv
<1>1. used \subseteq FlowIDs /\ count \in Nat
  BY DEF RBInv, RBTypeOK
<1>2. CASE FirstPage
  <2>1. 0 \in Nat /\ UNCHANGED rbVars /\ used' = used /\ wanted' \subseteq used
        /\ owed' \subseteq used /\ owed' \subseteq wanted' \cup stopped' /\ TakePage(0)
    BY <1>2 DEF FirstPage, rbVars
  <2>2. asked' \in Int
    BY <1>2, LimitsAssumption DEF FirstPage
  <2>3. \A i \in 1 .. count : 0 <= Cardinality(Ahead(i, wanted'))
    <3> TAKE i \in 1 .. count
    <3>1. 1 \in Int /\ i - 1 \in Int
      BY <1>1
    <3>2. IsFiniteSet(1 .. i - 1) /\ Ahead(i, wanted') \subseteq 1 .. i - 1
      BY <3>1, FS_Interval DEF Ahead
    <3>3. Cardinality(Ahead(i, wanted')) \in Nat
      BY <3>2, FS_Subset, FS_CardinalityType
    <3> QED
      BY <3>3
  <2> HIDE DEF PgInv
  <2>4. RBInv
    BY DEF PgInv
  <2> QED
    BY <2>1, <2>2, <2>3, <2>4, PageInv
<1>3. CASE NextPage
  <2>1. UNCHANGED rbVars /\ UNCHANGED <<wanted, asked, owed, stopped>> /\ used' = used
        /\ TakePage(offset)
    BY <1>3 DEF NextPage, rbVars
  <2>2. Waiting
    BY <1>3 DEF NextPage
  <2>3. offset \in Nat /\ asked' \in Int /\ RBInv /\ wanted' \subseteq used
        /\ owed' \subseteq used /\ owed' \subseteq wanted' \cup stopped'
    BY <2>1
  <2>4. \A i \in 1 .. count :
          Newest[i].id \in owed' \ seen /\ (\A j \in 1 .. i : Newest[j].id \notin stopped') =>
            offset <= Cardinality(Ahead(i, wanted'))
    BY <2>1, <2>2 DEF Waiting, Unmoved
  <2> HIDE DEF PgInv
  <2> QED
    BY <2>1, <2>3, <2>4, PageInv
<1>4. CASE Write
  <2>1. RBInv'
    BY <1>4, RBNextInv DEF Write
  <2>2. used \subseteq used'
    BY <1>4 DEF Write, RBNext, DoAdd, DoUpdate, DoUpdateData, DoSetData,
                Add, Update, UpdateData, SetData
  <2> QED
    BY <1>4, <2>1, <2>2 DEF Write, pgLocal, PagingMissesNothing
<1>5. CASE AddBetween
  <2>1. PICK g \in FlowIDs : DoAdd(g)
    BY <1>5 DEF AddBetween
  <2>2. PICK s \in SUBSET (used' \ used) : wanted' = wanted \cup s
    BY <1>5 DEF AddBetween
  <2>3. pager = "paging" /\ UNCHANGED <<pager, asked, offset, seen, owed, stopped>>
    BY <1>5 DEF AddBetween
  <2>4. RBInv'
    BY <2>1, RBNextInv DEF RBNext
  <2>5. Waiting'
    <3> HIDE DEF PgInv
    <3> QED
      BY <2>1, <2>2, <2>3, AddKeepsWaiting
  <2>6. used' = used \cup {g}
    BY <2>1, AddShiftsList
  <2> QED
    BY <2>2, <2>3, <2>4, <2>5, <2>6 DEF PagingMissesNothing
<1>6. CASE UpdateBetween
  <2>1. pager = "paging" /\ UNCHANGED <<pager, asked, offset, seen, owed>>
        /\ stopped' = stopped \cup (wanted \ wanted')
    BY <1>6 DEF UpdateBetween
  <2>2. PICK f \in FlowIDs : Stored(f) /\ wanted' \in {wanted \cup {f}, wanted \ {f}}
    BY <1>6 DEF UpdateBetween
  <2>3. RBInv' /\ used' = used /\ Waiting'
    <3> HIDE DEF PgInv
    <3> QED
      BY <1>6, <2>1, UpdateKeepsWaiting
  <2>4. f \in used
    BY <2>2 DEF RBInv, StoredUsed
  <2> QED
    BY <2>1, <2>2, <2>3, <2>4 DEF PagingMissesNothing
<1>7. CASE UNCHANGED pgVars
  <2>1. RBInv'
    BY <1>7, RBNextInv DEF pgVars
  <2>2. UNCHANGED <<rbVars, metas, head, count, used, index>> /\ UNCHANGED pgLocal
    BY <1>7 DEF pgVars, rbVars
  <2>3. Newest' = Newest
    BY <2>2 DEF Newest, SlotAt
  <2>4. Waiting => Waiting'
    BY <2>2, <2>3 DEF Waiting, Unmoved, Ahead, pgLocal
  <2> QED
    BY <2>1, <2>2, <2>3, <2>4 DEF pgLocal, PagingMissesNothing, Unmoved
<1> QED
  BY <1>2, <1>3, <1>4, <1>5, <1>6, <1>7 DEF PgNext

\* The invariant of a client that pages through a store being written to.
THEOREM PagingInvariant == PgSpec => []PgInv
  BY PgInitInv, PgNextInv, PTL DEF PgSpec

\* For every capacity, filter and limit: whatever is added, evicted or begins to match
\* between its calls, a client that goes on from the end of each page was given every flow
\* that matched when it began and is still held when it ends, down to the newest flow that
\* ceased to match meanwhile.
THEOREM PagesMissNothing == PgSpec => []PagingMissesNothing
<1>1. PgInv => PagingMissesNothing
  BY DEF PgInv
<1> QED
  BY <1>1, PagingInvariant, PTL
=============================================================================
