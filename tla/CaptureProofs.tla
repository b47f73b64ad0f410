---------------------------- MODULE CaptureProofs ----------------------------
(***************************************************************************)
(* The flow store, for every capacity and every set of flow IDs: index and *)
(* slots stay consistent, the data of evicted flows is dropped, and what   *)
(* it does is what the bounded log FlowLog says.  And the pipeline over    *)
(* it, for every number of flows and every semaphore size: the promises    *)
(* the TUI and MCP read the store by.                                      *)
(*                                                                         *)
(* The argument for the store is about slots: consecutive ones differ, and *)
(* shifting the oldest shifts them all.  For the pipeline: what a store    *)
(* operation does to one flow's meta and data and to everybody else's (the *)
(* Effect lemmas), then one step per action of the pipeline, reasoning     *)
(* about flows only.                                                       *)
(***************************************************************************)
EXTENDS Capture, SequenceTheorems, FiniteSetTheorems, TLAPS

(* Slot arithmetic. *)

\* One turn of the buffer, without %.
Turn(n) == IF n < Capacity THEN n ELSE n - Capacity

\* Slots wrap at most once: the slot i places after a slot is found by at most
\* one subtraction.
LEMMA SlotWrap ==
  ASSUME NEW h \in Slots, NEW i \in 0 .. Capacity
  PROVE  (h + i) % Capacity = Turn(h + i) /\ (h + i) % Capacity \in Slots
  BY CapacityAssumption, SMT DEF Slots, Turn

\* One turn leaves different places different.
LEMMA TurnInjective ==
  ASSUME NEW h \in Slots,
         NEW i \in 0 .. Capacity - 1, NEW j \in 0 .. Capacity - 1,
         Turn(h + i) = Turn(h + j)
  PROVE  i = j
  BY CapacityAssumption DEF Slots, Turn

\* Shifting the start by one and shifting the place by one agree.
LEMMA TurnShift ==
  ASSUME NEW h \in Slots, NEW i \in 0 .. Capacity - 1
  PROVE  Turn(Turn(h + 1) + i) = Turn(h + (i + 1)) /\ Turn(h + 1) \in Slots
  BY CapacityAssumption DEF Slots, Turn

\* Two places less than a full turn apart are two slots.
LEMMA SlotInjective ==
  ASSUME NEW h \in Slots, NEW i \in 0 .. Capacity - 1, NEW j \in 0 .. Capacity - 1
  PROVE  (h + i) % Capacity = (h + j) % Capacity => i = j
<1>1. i \in 0 .. Capacity /\ j \in 0 .. Capacity
  BY CapacityAssumption
<1>2. (h + i) % Capacity = Turn(h + i) /\ (h + j) % Capacity = Turn(h + j)
  BY <1>1, SlotWrap, Zenon
<1>3. Turn(h + i) = Turn(h + j) => i = j
  BY TurnInjective
<1> QED
  BY <1>2, <1>3, Zenon

\* From the next slot, place i is the place i + 1 from here.
LEMMA SlotShift ==
  ASSUME NEW h \in Slots, NEW i \in 0 .. Capacity - 1
  PROVE  (((h + 1) % Capacity) + i) % Capacity = (h + (i + 1)) % Capacity
<1>1. 1 \in 0 .. Capacity /\ i \in 0 .. Capacity /\ i + 1 \in 0 .. Capacity
  BY CapacityAssumption
<1>2. (h + 1) % Capacity = Turn(h + 1) /\ (h + (i + 1)) % Capacity = Turn(h + (i + 1))
  BY <1>1, SlotWrap, Zenon
<1>3. Turn(h + 1) \in Slots /\ Turn(Turn(h + 1) + i) = Turn(h + (i + 1))
  BY TurnShift
<1>4. (Turn(h + 1) + i) % Capacity = Turn(Turn(h + 1) + i)
  BY <1>1, <1>3, SlotWrap, Zenon
<1> QED
  BY <1>2, <1>3, <1>4, Zenon

\* Place 0 and the place a full turn away are the slot itself.
LEMMA SlotFullTurn ==
  ASSUME NEW h \in Slots
  PROVE  (h + 0) % Capacity = h /\ (h + Capacity) % Capacity = h
<1>1. 0 \in 0 .. Capacity /\ Capacity \in 0 .. Capacity
  BY CapacityAssumption
<1>2. (h + 0) % Capacity = Turn(h + 0) /\ (h + Capacity) % Capacity = Turn(h + Capacity)
  BY <1>1, SlotWrap, Zenon
<1>3. Turn(h + 0) = h /\ Turn(h + Capacity) = h
  BY CapacityAssumption DEF Turn, Slots
<1> QED
  BY <1>2, <1>3, Zenon

-----------------------------------------------------------------------------
(* Each operation keeps the store's invariant. *)

\* The empty store satisfies the invariant.
LEMMA RBInitInv == RBInit => RBInv
<1> SUFFICES ASSUME RBInit PROVE RBInv
  OBVIOUS
<1>1. RBTypeOK
  BY CapacityAssumption
     DEF RBInit, RBTypeOK, Slots, FlowMeta, ZeroMeta, FlowStates, ProcessNames
<1>2. IndexSound /\ NoOrphanData /\ StoredUsed
  BY DEF RBInit, IndexSound, NoOrphanData, StoredUsed, Stored
<1>3. LiveIndexed
  BY DEF RBInit, LiveIndexed
<1> QED
  BY <1>1, <1>2, <1>3 DEF RBInv

\* Update with a function that keeps the ID keeps the invariant.
LEMMA UpdateInv ==
  ASSUME RBInv, NEW id \in FlowIDs,
         NEW fn \in [FlowMeta -> FlowMeta], \A m \in FlowMeta : fn[m].id = m.id,
         Update(id, fn)
  PROVE  RBInv'
<1> USE CapacityAssumption DEF RBInv, RBTypeOK
<1>1. /\ data' = data /\ index' = index /\ head' = head /\ count' = count
      /\ used' = used
  BY DEF Update
<1>2. metas' \in [Slots -> FlowMeta] /\ \A s \in Slots : metas'[s].id = metas[s].id
  BY DEF Update, Stored, Slots, NoSlot
<1>3. \A i \in 0 .. count - 1 : SlotAt(i) \in Slots /\ SlotAt(i)' = SlotAt(i)
  BY <1>1, SlotWrap DEF SlotAt
<1>4. RBTypeOK'
  BY <1>1, <1>2
<1>5. IndexSound'
  BY <1>1, <1>2, <1>3 DEF IndexSound, Stored, Meta, NoSlot
<1>6. LiveIndexed'
  BY <1>1, <1>2, <1>3 DEF LiveIndexed
<1>7. NoOrphanData' /\ StoredUsed'
  BY <1>1 DEF NoOrphanData, StoredUsed, Stored
<1> QED
  BY <1>4, <1>5, <1>6, <1>7

\* Any write to data that creates entries for held flows only keeps the invariant.
LEMMA DataInv ==
  ASSUME RBInv, UNCHANGED <<metas, index, head, count, used>>,
         data' \in [FlowIDs -> FlowData \cup {NoData}],
         \A f \in FlowIDs : ~Stored(f) => data'[f] = data[f]
  PROVE  RBInv'
<1>1. RBTypeOK'
  BY DEF RBInv, RBTypeOK
<1>2. IndexSound'
  BY DEF RBInv, IndexSound, Stored, Meta, SlotAt
<1>3. LiveIndexed'
  BY DEF RBInv, LiveIndexed, SlotAt
<1>4. NoOrphanData' /\ StoredUsed'
  BY DEF RBInv, NoOrphanData, StoredUsed, Stored
<1> QED
  BY <1>1, <1>2, <1>3, <1>4 DEF RBInv

\* UpdateData keeps the invariant.
LEMMA UpdateDataInv ==
  ASSUME RBInv, NEW id \in FlowIDs, NEW fn \in [FlowData -> FlowData],
         UpdateData(id, fn)
  PROVE  RBInv'
<1>1. ZeroData \in FlowData
  BY DEF ZeroData, FlowData
<1>2. /\ data' \in [FlowIDs -> FlowData \cup {NoData}]
      /\ \A f \in FlowIDs : ~Stored(f) => data'[f] = data[f]
  BY <1>1 DEF UpdateData, RBInv, RBTypeOK, Stored
<1> QED
  BY <1>2, DataInv DEF UpdateData

\* SetData keeps the invariant.
LEMMA SetDataInv ==
  ASSUME RBInv, NEW id \in FlowIDs, NEW d \in FlowData, SetData(id, d)
  PROVE  RBInv'
<1>1. /\ data' \in [FlowIDs -> FlowData \cup {NoData}]
      /\ \A f \in FlowIDs : ~Stored(f) => data'[f] = data[f]
  BY DEF SetData, RBInv, RBTypeOK, Stored
<1> QED
  BY <1>1, DataInv DEF SetData

\* Add of a fresh flow keeps the invariant, with and without an eviction.
LEMMA AddInv ==
  ASSUME RBInv, NEW meta \in FlowMeta, meta.id \in FlowIDs \ used, Add(meta)
  PROVE  RBInv'
<1> DEFINE id == meta.id
           slot == SlotAt(count)
           evicted == metas[head].id
<1> USE CapacityAssumption DEF RBInv, RBTypeOK
<1>1. id \in FlowIDs /\ id \notin used /\ ~Stored(id)
  BY DEF StoredUsed
<1>2. slot \in Slots /\ metas' = [metas EXCEPT ![slot] = meta]
      /\ used' = used \cup {id}
  BY SlotWrap DEF SlotAt, Add
<1>3. CASE count < Capacity
  <2>1. /\ head' = head /\ count' = count + 1 /\ data' = data
        /\ index' = [f \in FlowIDs |-> IF f = id THEN slot ELSE index[f]]
    <3>1. ~(count = Capacity)
      BY <1>3
    <3> QED
      BY <3>1 DEF Add
  <2>2. \A i \in 0 .. count : SlotAt(i) \in Slots /\ SlotAt(i)' = SlotAt(i)
    BY <2>1, SlotWrap DEF SlotAt
  <2>3. \A i \in 0 .. count - 1 : SlotAt(i) # slot
    BY <1>3, SlotInjective DEF SlotAt
  <2>4. RBTypeOK'
    BY <1>1, <1>2, <1>3, <2>1
  <2>5. IndexSound'
    <3> SUFFICES ASSUME NEW f \in FlowIDs, Stored(f)'
                 PROVE  Meta(f)'.id = f /\ \E i \in 0 .. count : index'[f] = SlotAt(i)'
      BY <2>1 DEF IndexSound
    <3>1. CASE f = id
      BY <3>1, <1>1, <1>2, <2>1, <2>2 DEF Meta
    <3>2. CASE f # id
      BY <3>2, <1>1, <1>2, <2>1, <2>2, <2>3 DEF Meta, IndexSound, Stored, NoSlot
    <3> QED
      BY <3>1, <3>2
  <2>6. LiveIndexed'
    <3> SUFFICES ASSUME NEW i \in 0 .. count
                 PROVE  /\ metas'[SlotAt(i)].id \in used'
                        /\ index'[metas'[SlotAt(i)].id] = SlotAt(i)
      BY <2>1, <2>2 DEF LiveIndexed
    <3>1. CASE i = count
      BY <3>1, <1>1, <1>2, <2>1
    <3>2. CASE i \in 0 .. count - 1
      BY <3>2, <1>1, <1>2, <2>1, <2>2, <2>3 DEF LiveIndexed
    <3> QED
      BY <3>1, <3>2
  <2>7. NoOrphanData' /\ StoredUsed'
    BY <1>1, <1>2, <2>1 DEF NoOrphanData, StoredUsed, Stored, Slots, NoSlot
  <2> QED
    BY <2>4, <2>5, <2>6, <2>7
<1>4. CASE count = Capacity
  <2>1. /\ head' = (head + 1) % Capacity /\ count' = count
        /\ data' = [f \in FlowIDs |-> IF f = evicted THEN NoData ELSE data[f]]
        /\ index' = [f \in FlowIDs |->
                       IF f = id THEN slot ELSE IF f = evicted THEN NoSlot ELSE index[f]]
    BY <1>4 DEF Add
  <2>2. slot = head /\ SlotAt(0) = head
    BY <1>4, SlotFullTurn DEF SlotAt
  <2>3. evicted \in used /\ index[evicted] = head
    BY <1>4, <2>2 DEF LiveIndexed
  <2>4. head' \in Slots
    BY <2>1, SlotWrap
  <2>5. \A i \in 0 .. Capacity - 1 : SlotAt(i) \in Slots /\ SlotAt(i)' = SlotAt(i + 1)
    BY <2>1, SlotShift, SlotWrap DEF SlotAt
  <2>6. SlotAt(Capacity) = head
    BY <1>4, <2>2
  <2>7. \A i \in 1 .. Capacity - 1 : SlotAt(i) # head
    <3> TAKE i \in 1 .. Capacity - 1
    <3>1. i \in 0 .. Capacity - 1 /\ 0 \in 0 .. Capacity - 1 /\ i # 0
      OBVIOUS
    <3> QED
      BY <3>1, <2>2, SlotInjective DEF SlotAt
  <2>8. RBTypeOK'
    BY <1>1, <1>2, <1>4, <2>1, <2>4
  <2>9. IndexSound'
    <3> SUFFICES ASSUME NEW f \in FlowIDs, Stored(f)'
                 PROVE  /\ Meta(f)'.id = f
                        /\ \E i \in 0 .. Capacity - 1 : index'[f] = SlotAt(i)'
      BY <1>4, <2>1 DEF IndexSound
    <3>1. CASE f = id
      <4>1. Capacity - 1 \in 0 .. Capacity - 1 /\ SlotAt(Capacity - 1)' = head
        BY <2>5, <2>6
      <4> QED
        BY <3>1, <4>1, <1>1, <1>2, <2>1, <2>2 DEF Meta
    <3>2. CASE f # id
      <4>1. f # evicted /\ index'[f] = index[f] /\ Stored(f)
        BY <3>2, <2>1 DEF Stored
      <4>2. PICK j \in 0 .. count - 1 : index[f] = SlotAt(j)
        BY <4>1 DEF IndexSound
      <4>3. j # 0
        BY <4>1, <4>2, <2>2 DEF IndexSound, Meta
      <4>4. j - 1 \in 0 .. Capacity - 1 /\ SlotAt(j - 1)' = SlotAt(j)
        BY <4>3, <1>4, <2>5
      <4>5. index[f] # slot
        BY <4>2, <4>3, <1>4, <2>2, <2>7
      <4>6. index[f] \in Slots
        BY <4>1 DEF Stored
      <4>7. metas'[index'[f]] = metas[index[f]]
        BY <4>1, <4>5, <4>6, <1>2
      <4> QED
        BY <4>1, <4>2, <4>4, <4>7 DEF Meta, IndexSound
    <3> QED
      BY <3>1, <3>2
  <2>10. LiveIndexed'
    <3> SUFFICES ASSUME NEW i \in 0 .. Capacity - 1
                 PROVE  /\ metas'[SlotAt(i + 1)].id \in used'
                        /\ index'[metas'[SlotAt(i + 1)].id] = SlotAt(i + 1)
      BY <1>4, <2>1, <2>5 DEF LiveIndexed
    <3>1. CASE i + 1 = Capacity
      BY <3>1, <1>1, <1>2, <2>1, <2>2, <2>6
    <3>2. CASE i + 1 # Capacity
      <4>1. i + 1 \in 0 .. count - 1 /\ i + 1 \in 1 .. Capacity - 1
        BY <3>2, <1>4
      <4> DEFINE g == metas[SlotAt(i + 1)].id
      <4>2. SlotAt(i + 1) \in Slots /\ SlotAt(i + 1) # slot
        BY <4>1, <2>5, <2>7, <2>2
      <4>3. metas'[SlotAt(i + 1)] = metas[SlotAt(i + 1)]
        BY <4>2, <1>2
      <4>4. g \in used /\ index[g] = SlotAt(i + 1)
        BY <4>1 DEF LiveIndexed
      <4>5. g # id /\ g # evicted
        BY <4>4, <4>2, <1>1, <2>2, <2>3
      <4> QED
        BY <4>3, <4>4, <4>5, <2>1, <1>2
    <3> QED
      BY <3>1, <3>2
  <2>11. NoOrphanData' /\ StoredUsed'
    BY <1>1, <1>2, <2>1 DEF NoOrphanData, StoredUsed, Stored, Slots, NoSlot
  <2> QED
    BY <2>8, <2>9, <2>10, <2>11
<1> QED
  BY <1>3, <1>4

-----------------------------------------------------------------------------
(* The slots implement the bounded log. *)

\* The log has one entry per live slot.
LEMMA ContentsShape ==
  ASSUME RBInv
  PROVE  /\ Contents \in Seq(FlowMeta) /\ Len(Contents) = count
         /\ \A i \in 1 .. count : SlotAt(i - 1) \in Slots /\ Contents[i] = metas[SlotAt(i - 1)]
<1>1. count \in Nat /\ \A i \in 1 .. count : SlotAt(i - 1) \in Slots
  <2>1. \A i \in 1 .. count : i - 1 \in 0 .. Capacity
    BY CapacityAssumption DEF RBInv, RBTypeOK
  <2> QED
    BY <2>1, SlotWrap, CapacityAssumption DEF RBInv, RBTypeOK, SlotAt
<1>2. \A i \in 1 .. count : metas[SlotAt(i - 1)] \in FlowMeta
  BY <1>1 DEF RBInv, RBTypeOK
<1> QED
  BY <1>1, <1>2 DEF Contents

\* The log of the next state has the same shape.
LEMMA ContentsShapeNext ==
  ASSUME RBInv'
  PROVE  /\ Contents' \in Seq(FlowMeta) /\ Len(Contents') = count'
         /\ \A i \in 1 .. count' : Contents'[i] = metas'[SlotAt(i - 1)']
<1>1. count' \in Nat /\ \A i \in 1 .. count' : SlotAt(i - 1)' \in Slots
  <2>1. \A i \in 1 .. count' : i - 1 \in 0 .. Capacity
    BY CapacityAssumption DEF RBInv, RBTypeOK
  <2> QED
    BY <2>1, SlotWrap, CapacityAssumption DEF RBInv, RBTypeOK, SlotAt
<1>2. \A i \in 1 .. count' : metas'[SlotAt(i - 1)'] \in FlowMeta
  BY <1>1 DEF RBInv, RBTypeOK
<1> QED
  BY <1>1, <1>2 DEF Contents

\* No flow is in the log twice, every logged flow was handed out, and the log holds
\* exactly the flows of the index.
LEMMA ContentsIDs ==
  ASSUME RBInv
  PROVE  /\ \A i, j \in 1 .. count : Contents[i].id = Contents[j].id => i = j
         /\ \A i \in 1 .. count : Contents[i].id \in used
         /\ \A f \in FlowIDs : Stored(f) <=> \E i \in 1 .. count : Contents[i].id = f
<1>1. \A i \in 1 .. count : /\ Contents[i].id \in used
                            /\ index[Contents[i].id] = SlotAt(i - 1)
                            /\ SlotAt(i - 1) \in Slots
  <2> TAKE i \in 1 .. count
  <2>1. i - 1 \in 0 .. count - 1
    BY CapacityAssumption DEF RBInv, RBTypeOK
  <2> QED
    BY <2>1, ContentsShape DEF RBInv, LiveIndexed
<1>2. ASSUME NEW i \in 1 .. count, NEW j \in 1 .. count, SlotAt(i - 1) = SlotAt(j - 1)
      PROVE  i = j
  <2>1. i - 1 \in 0 .. Capacity - 1 /\ j - 1 \in 0 .. Capacity - 1 /\ head \in Slots
    BY CapacityAssumption DEF RBInv, RBTypeOK
  <2>2. i - 1 = j - 1
    BY <2>1, <1>2, SlotInjective DEF SlotAt
  <2> QED
    BY <2>2
<1>3. ASSUME NEW f \in FlowIDs, Stored(f) PROVE \E i \in 1 .. count : Contents[i].id = f
  <2>1. Meta(f).id = f
    BY <1>3 DEF RBInv, IndexSound
  <2>2. PICK k \in 0 .. count - 1 : index[f] = SlotAt(k)
    BY <1>3 DEF RBInv, IndexSound
  <2>3. k + 1 \in 1 .. count /\ k = (k + 1) - 1
    BY CapacityAssumption DEF RBInv, RBTypeOK
  <2>4. Contents[k + 1] = metas[SlotAt(k)]
    BY <2>3, ContentsShape
  <2> QED
    BY <2>1, <2>2, <2>3, <2>4 DEF Meta
<1>4. ASSUME NEW f \in FlowIDs, NEW i \in 1 .. count, Contents[i].id = f PROVE Stored(f)
  BY <1>1, <1>4 DEF Stored, Slots, NoSlot
<1> QED
  BY <1>1, <1>2, <1>3, <1>4

\* Add appends to the log, and when the log is full drops its oldest flow and that
\* flow's body.
LEMMA AddAppends ==
  ASSUME RBInv, NEW meta \in FlowMeta, meta.id \in FlowIDs \ used, Add(meta)
  PROVE  Log!AppendFlow(meta)
<1> DEFINE kept == IF Len(Contents) = Capacity THEN Tail(Contents) ELSE Contents
           evicted == metas[head].id
<1>1. RBInv' /\ count \in Nat /\ head \in Slots /\ data \in [FlowIDs -> FlowData \cup {NoData}]
  BY AddInv DEF RBInv, RBTypeOK
<1>2. /\ Contents \in Seq(FlowMeta) /\ Len(Contents) = count
      /\ \A i \in 1 .. count : SlotAt(i - 1) \in Slots /\ Contents[i] = metas[SlotAt(i - 1)]
  BY ContentsShape
<1>3. /\ Contents' \in Seq(FlowMeta) /\ Len(Contents') = count'
      /\ \A i \in 1 .. count' : Contents'[i] = metas'[SlotAt(i - 1)']
  BY <1>1, ContentsShapeNext
<1>4. meta.id \in FlowIDs \ Log!IDs(Contents)
  BY <1>2, ContentsIDs DEF Log!IDs
<1>5. SlotAt(count) \in Slots /\ metas' = [metas EXCEPT ![SlotAt(count)] = meta]
  BY SlotWrap DEF SlotAt, Add, RBInv, RBTypeOK
<1>6. metas'[SlotAt(count)] = meta
  BY <1>5 DEF RBInv, RBTypeOK
<1>7. CASE count < Capacity
  <2>1. kept = Contents /\ ~(count = Capacity)
    BY <1>7, <1>1, <1>2, CapacityAssumption
  <2>2. head' = head /\ count' = count + 1 /\ data' = [f \in FlowIDs |-> data[f]]
    BY <2>1 DEF Add
  <2>3. \A k \in 0 .. count : SlotAt(k)' = SlotAt(k)
    BY <2>2 DEF SlotAt
  <2>4. \A i \in 1 .. count : SlotAt(i - 1) # SlotAt(count)
    <3> TAKE i \in 1 .. count
    <3>1. i - 1 \in 0 .. Capacity - 1 /\ count \in 0 .. Capacity - 1 /\ i - 1 # count
      BY <1>1, <1>7, CapacityAssumption
    <3> QED
      BY <3>1, <1>1, SlotInjective DEF SlotAt
  <2>5. \A i \in 1 .. count : Contents'[i] = Contents[i]
    <3> TAKE i \in 1 .. count
    <3>1. i \in 1 .. count' /\ i - 1 \in 0 .. count
      BY <1>1, <2>2
    <3>2. metas'[SlotAt(i - 1)] = metas[SlotAt(i - 1)]
      BY <1>2, <1>5, <2>4 DEF RBInv, RBTypeOK
    <3> QED
      BY <3>1, <3>2, <1>2, <1>3, <2>3
  <2>6. Contents'[count + 1] = meta
    <3>1. count + 1 \in 1 .. count' /\ (count + 1) - 1 = count /\ count \in 0 .. count
      BY <1>1, <2>2
    <3> QED
      BY <3>1, <1>3, <1>6, <2>3
  <2>7. Contents' = Append(Contents, meta)
    BY <1>1, <1>2, <1>3, <2>2, <2>5, <2>6, SMT
  <2>8. data' = [f \in FlowIDs |-> IF f \in Log!IDs(Contents) \ Log!IDs(kept)
                                   THEN NoData ELSE data[f]]
    BY <2>1, <2>2
  <2> QED
    BY <1>4, <2>1, <2>7, <2>8 DEF Log!AppendFlow
<1>8. CASE count = Capacity
  <2>1. kept = Tail(Contents) /\ Contents # << >> /\ Capacity \in Nat \ {0}
    BY <1>8, <1>2, CapacityAssumption
  <2>2. /\ head' = (head + 1) % Capacity /\ count' = count
        /\ data' = [f \in FlowIDs |-> IF f = evicted THEN NoData ELSE data[f]]
    BY <1>8 DEF Add
  <2>3. SlotAt(0) = head /\ SlotAt(count) = head
    BY <1>1, <1>8, SlotFullTurn DEF SlotAt
  <2>4. \A k \in 0 .. Capacity - 1 : SlotAt(k)' = SlotAt(k + 1)
    BY <1>1, <2>2, SlotShift DEF SlotAt
  <2>5. Tail(Contents) \in Seq(FlowMeta) /\ Len(Tail(Contents)) = count - 1
        /\ \A i \in 1 .. count - 1 : Tail(Contents)[i] = Contents[i + 1]
    BY <1>2, <2>1, HeadTailProperties
  <2>6. \A i \in 1 .. count - 1 : Contents'[i] = Contents[i + 1]
    <3> TAKE i \in 1 .. count - 1
    <3>1. i \in 1 .. count' /\ i + 1 \in 1 .. count /\ i - 1 \in 0 .. Capacity - 1
          /\ (i - 1) + 1 = i /\ (i + 1) - 1 = i /\ i \in 0 .. Capacity - 1
          /\ 0 \in 0 .. Capacity - 1 /\ i # 0
      BY <1>1, <1>8, <2>1, <2>2
    <3>2. Contents'[i] = metas'[SlotAt(i)]
      BY <3>1, <1>3, <2>4
    <3>3. SlotAt(i) # head
      BY <3>1, <1>1, <2>3, SlotInjective DEF SlotAt
    <3>4. SlotAt(i) \in Slots /\ Contents[i + 1] = metas[SlotAt(i)]
      BY <3>1, <1>2
    <3> QED
      BY <3>2, <3>3, <3>4, <1>5, <2>3 DEF RBInv, RBTypeOK
  <2>7. Contents'[count] = meta
    <3>1. count \in 1 .. count' /\ count - 1 \in 0 .. Capacity - 1 /\ (count - 1) + 1 = count
      BY <1>1, <1>8, <2>1, <2>2
    <3> QED
      BY <3>1, <1>3, <1>6, <2>4
  <2>8. Contents' = Append(Tail(Contents), meta)
    <3> DEFINE rest == Tail(Contents)
    <3>1. rest \in Seq(FlowMeta) /\ Len(rest) = count - 1
          /\ \A i \in 1 .. count - 1 : rest[i] = Contents[i + 1]
      BY <2>1, <2>5
    <3>2. Contents' \in Seq(FlowMeta) /\ Len(Contents') = count
          /\ \A i \in 1 .. count - 1 : Contents'[i] = rest[i]
      BY <1>1, <1>3, <1>8, <2>1, <2>2, <2>6, <3>1
    <3> HIDE DEF rest
    <3>3. Append(rest, meta) \in Seq(FlowMeta) /\ Len(Append(rest, meta)) = count
          /\ Append(rest, meta)[count] = meta
          /\ \A i \in 1 .. count - 1 : Append(rest, meta)[i] = rest[i]
      BY <3>1, <1>1
    <3>4. \A i \in 1 .. Len(Contents') : Contents'[i] = Append(rest, meta)[i]
      BY <1>1, <2>7, <3>2, <3>3
    <3>5. /\ Contents' \in Seq(FlowMeta) /\ Append(rest, meta) \in Seq(FlowMeta)
          /\ Len(Contents') = Len(Append(rest, meta))
      BY <3>2, <3>3
    <3> QED
      BY <3>4, <3>5, SeqEqual, Zenon DEF rest
  <2>9. Contents[1].id = evicted /\ 1 \in 1 .. count
    <3>1. 1 \in 1 .. count /\ 1 - 1 = 0
      BY <1>8, <2>1
    <3> QED
      BY <3>1, <1>2, <2>3
  <2>10. Log!IDs(Contents) \ Log!IDs(kept) = {evicted}
    <3>1. Log!IDs(Contents) = {Contents[i].id : i \in 1 .. count}
      BY <1>2 DEF Log!IDs
    <3>2. Log!IDs(kept) = {Contents[i + 1].id : i \in 1 .. count - 1}
      BY <2>1, <2>5 DEF Log!IDs
    <3>3. ASSUME NEW i \in 1 .. count, i # 1 PROVE Contents[i].id \in Log!IDs(kept)
      <4>1. i - 1 \in 1 .. count - 1 /\ (i - 1) + 1 = i
        BY <1>1, <3>3
      <4> QED
        BY <4>1, <3>2
    <3>4. evicted \notin Log!IDs(kept)
      <4>1. ASSUME NEW i \in 1 .. count - 1, Contents[i + 1].id = evicted PROVE FALSE
        <5>1. i + 1 \in 1 .. count /\ i + 1 # 1
          BY <1>1, <4>1
        <5> QED
          BY <5>1, <4>1, <2>9, ContentsIDs
      <4> QED
        BY <4>1, <3>2
    <3> QED
      BY <3>1, <3>3, <3>4, <2>9
  <2>11. data' = [f \in FlowIDs |-> IF f \in Log!IDs(Contents) \ Log!IDs(kept)
                                    THEN NoData ELSE data[f]]
    BY <2>2, <2>10
  <2> QED
    BY <1>4, <2>1, <2>8, <2>11 DEF Log!AppendFlow
<1> QED
  BY <1>1, <1>7, <1>8, CapacityAssumption DEF RBInv, RBTypeOK

\* Update with a function that keeps the ID changes one entry of the log, or none.
LEMMA UpdateAmends ==
  ASSUME RBInv, NEW id \in FlowIDs,
         NEW fn \in [FlowMeta -> FlowMeta], \A m \in FlowMeta : fn[m].id = m.id,
         Update(id, fn)
  PROVE  \/ UNCHANGED <<Contents, data>>
         \/ \E i \in DOMAIN Contents : \E m \in FlowMeta : Log!Amend(i, m)
<1>1. /\ Contents \in Seq(FlowMeta) /\ Len(Contents) = count /\ count \in Nat
      /\ \A i \in 1 .. count : SlotAt(i - 1) \in Slots /\ Contents[i] = metas[SlotAt(i - 1)]
  BY ContentsShape
<1>2. data' = data /\ index' = index /\ head' = head /\ count' = count
  BY DEF Update
<1>3. RBInv'
  BY UpdateInv
<1>4. /\ Contents' \in Seq(FlowMeta) /\ Len(Contents') = count
      /\ \A i \in 1 .. count : Contents'[i] = metas'[SlotAt(i - 1)]
  BY <1>2, <1>3, ContentsShapeNext DEF SlotAt
<1>5. CASE ~Stored(id)
  <2>1. metas' = metas
    BY <1>5 DEF Update
  <2>2. Contents' = Contents
    BY <1>1, <1>4, <2>1, SeqEqual
  <2> QED
    BY <1>2, <2>2
<1>6. CASE Stored(id)
  <2>1. index[id] \in Slots /\ metas' = [metas EXCEPT ![index[id]] = fn[metas[index[id]]]]
    BY <1>6 DEF Update, Stored, RBInv, RBTypeOK
  <2>2. PICK i \in 1 .. count : Contents[i].id = id
    BY <1>6, ContentsIDs
  <2>3. index[id] = SlotAt(i - 1)
    <3>1. i - 1 \in 0 .. count - 1
      BY <1>1
    <3> QED
      BY <3>1, <2>2, <1>1 DEF RBInv, LiveIndexed
  <2> DEFINE m == fn[Contents[i]]
  <2>4. m \in FlowMeta /\ m.id = Contents[i].id
    BY <1>1, ElementOfSeq
  <2> HIDE DEF m
  <2>5. metas' = [metas EXCEPT ![SlotAt(i - 1)] = m]
    BY <2>1, <2>3, <1>1 DEF m
  <2>6. \A j \in 1 .. count : Contents'[j] = IF j = i THEN m ELSE Contents[j]
    <3> TAKE j \in 1 .. count
    <3>1. j # i => SlotAt(j - 1) # SlotAt(i - 1)
      <4>1. i - 1 \in 0 .. Capacity - 1 /\ j - 1 \in 0 .. Capacity - 1 /\ head \in Slots
        BY CapacityAssumption DEF RBInv, RBTypeOK
      <4>2. SlotAt(j - 1) = SlotAt(i - 1) => j - 1 = i - 1
        BY <4>1, SlotInjective DEF SlotAt
      <4> QED
        BY <4>2, <1>1
    <3> QED
      BY <3>1, <1>1, <1>4, <2>5 DEF RBInv, RBTypeOK
  <2>7. Contents' = [Contents EXCEPT ![i] = m]
    <3>1. /\ [Contents EXCEPT ![i] = m] \in Seq(FlowMeta)
          /\ Len([Contents EXCEPT ![i] = m]) = count
          /\ \A j \in 1 .. count : [Contents EXCEPT ![i] = m][j] = IF j = i THEN m ELSE Contents[j]
      BY <1>1, <2>4, ExceptSeq
    <3> QED
      BY <3>1, <1>4, <2>6, SeqEqual
  <2>8. Log!Amend(i, m)
    BY <1>2, <2>4, <2>7 DEF Log!Amend
  <2>9. i \in DOMAIN Contents
    BY <1>1
  <2> QED
    BY <2>4, <2>8, <2>9
<1> QED
  BY <1>5, <1>6

\* A write to a held flow's data writes one body of the log.
LEMMA DataWrites ==
  ASSUME RBInv, UNCHANGED <<metas, index, head, count, used>>,
         NEW id \in FlowIDs, NEW d \in FlowData,
         data' = IF Stored(id) THEN [data EXCEPT ![id] = d] ELSE data
  PROVE  \/ UNCHANGED <<Contents, data>>
         \/ \E i \in DOMAIN Contents : \E e \in FlowData : Log!WriteBody(i, e)
<1>1. Contents' = Contents
  BY DEF Contents, SlotAt
<1>2. CASE Stored(id)
  <2>1. PICK i \in 1 .. count : Contents[i].id = id
    BY <1>2, ContentsIDs
  <2>2. i \in DOMAIN Contents
    BY ContentsShape
  <2>3. Log!WriteBody(i, d)
    BY <1>1, <1>2, <2>1 DEF Log!WriteBody
  <2> QED
    BY <2>2, <2>3
<1> QED
  BY <1>1, <1>2

-----------------------------------------------------------------------------
(* The store's theorems. *)

\* Every step of the store keeps the invariant.
LEMMA RBNextInv == RBInv /\ [RBNext]_rbVars => RBInv'
<1> SUFFICES ASSUME RBInv, [RBNext]_rbVars PROVE RBInv'
  OBVIOUS
<1>1. CASE UNCHANGED rbVars
  BY <1>1 DEF rbVars, RBInv, RBTypeOK, IndexSound, LiveIndexed, NoOrphanData,
              StoredUsed, Stored, Meta, SlotAt
<1>2. ASSUME NEW id \in FlowIDs, DoAdd(id) PROVE RBInv'
  <2>1. NewMeta(id) \in FlowMeta /\ NewMeta(id).id = id
    BY DEF NewMeta, ZeroMeta, FlowMeta, FlowStates, ProcessNames
  <2> QED
    BY <1>2, <2>1, AddInv DEF DoAdd
<1>3. ASSUME NEW id \in FlowIDs, DoUpdate(id) PROVE RBInv'
  <2>1. PICK s \in FlowStates : Update(id, SetState(s))
    BY <1>3 DEF DoUpdate
  <2>2. SetState(s) \in [FlowMeta -> FlowMeta] /\ \A m \in FlowMeta : SetState(s)[m].id = m.id
    BY DEF SetState, FlowMeta
  <2> QED
    BY <2>1, <2>2, UpdateInv
<1>4. ASSUME NEW id \in FlowIDs, DoUpdateData(id) PROVE RBInv'
  <2>1. PICK c \in StatusCodes : UpdateData(id, SetResp(c))
    BY <1>4 DEF DoUpdateData
  <2>2. SetResp(c) \in [FlowData -> FlowData]
    BY DEF SetResp, FlowData
  <2> QED
    BY <2>1, <2>2, UpdateDataInv
<1>5. ASSUME NEW id \in FlowIDs, DoSetData(id) PROVE RBInv'
  <2>1. [ZeroData EXCEPT !.req = TRUE] \in FlowData
    BY DEF ZeroData, FlowData
  <2> QED
    BY <1>5, <2>1, SetDataInv DEF DoSetData
<1> QED
  BY <1>1, <1>2, <1>3, <1>4, <1>5 DEF RBNext

\* The store's invariant holds in every state, for every capacity: the index and
\* the slots agree, every listed flow can be opened, evicted flows leave no data.
THEOREM RingBufferConsistent == RBSpec => []RBInv
  BY RBInitInv, RBNextInv, PTL DEF RBSpec

\* Every flow the list shows can be opened with Get, at the slot it is shown from.
THEOREM ListedFlowsOpen == RBSpec => []LiveIndexed
<1>1. RBInv => LiveIndexed
  BY DEF RBInv
<1> QED
  BY <1>1, RingBufferConsistent, PTL

\* The index leads to the flow it was asked for.
THEOREM IndexNeverLies == RBSpec => []IndexSound
<1>1. RBInv => IndexSound
  BY DEF RBInv
<1> QED
  BY <1>1, RingBufferConsistent, PTL

\* Bodies are dropped with their flow: the store's memory is bounded by its capacity.
THEOREM NoDataOutlivesItsFlow == RBSpec => []NoOrphanData
<1>1. RBInv => NoOrphanData
  BY DEF RBInv
<1> QED
  BY <1>1, RingBufferConsistent, PTL

\* A late write for an evicted flow brings nothing of it back: only Add makes an
\* index entry, for an ID never used before, and the data writers look at the index.
THEOREM EvictedStayEvicted == RBSpec => NoResurrection
<1> DEFINE Gone(f) == ~Stored(f) => ~Stored(f)' /\ data'[f] = NoData
<1>1. ASSUME RBInv, RBNext PROVE \A f \in used : Gone(f)
  <2> USE <1>1
  <2> SUFFICES ASSUME NEW f \in used, ~Stored(f)
               PROVE  ~Stored(f)' /\ data'[f] = NoData
    OBVIOUS
  <2>1. f \in FlowIDs /\ data[f] = NoData /\ data \in [FlowIDs -> FlowData \cup {NoData}]
    BY DEF RBInv, RBTypeOK, NoOrphanData
  <2>2. PICK id \in FlowIDs : DoAdd(id) \/ DoUpdate(id) \/ DoUpdateData(id) \/ DoSetData(id)
    BY DEF RBNext
  <2>3. CASE DoAdd(id)
    BY <2>1, <2>3 DEF DoAdd, Add, NewMeta, ZeroMeta, Stored
  <2>4. CASE DoUpdate(id)
    BY <2>1, <2>4 DEF DoUpdate, Update, Stored
  <2>5. CASE DoUpdateData(id)
    BY <2>1, <2>5 DEF DoUpdateData, UpdateData, Stored
  <2>6. CASE DoSetData(id)
    BY <2>1, <2>6 DEF DoSetData, SetData, Stored
  <2> QED
    BY <2>2, <2>3, <2>4, <2>5, <2>6
<1>2. RBInv /\ [RBNext]_rbVars => [\A f \in used : Gone(f)]_rbVars
  BY <1>1
<1> QED
  BY <1>2, RingBufferConsistent, PTL DEF RBSpec, NoResurrection

\* Every step of the store is a step of the log or leaves it alone.
LEMMA NextImplementsLog == RBInv /\ [RBNext]_rbVars => [Log!LogNext]_(Log!logVars)
<1> SUFFICES ASSUME RBInv, [RBNext]_rbVars
             PROVE  Log!LogNext \/ UNCHANGED <<Contents, data>>
  BY DEF Log!logVars
<1>1. CASE UNCHANGED rbVars
  BY <1>1 DEF rbVars, Contents, SlotAt
<1>2. ASSUME NEW id \in FlowIDs, DoAdd(id) PROVE Log!LogNext
  <2>1. NewMeta(id) \in FlowMeta /\ NewMeta(id).id = id
    BY DEF NewMeta, ZeroMeta, FlowMeta, FlowStates, ProcessNames
  <2>2. Log!AppendFlow(NewMeta(id))
    BY <1>2, <2>1, AddAppends DEF DoAdd
  <2> QED
    BY <2>1, <2>2 DEF Log!LogNext
<1>3. ASSUME NEW id \in FlowIDs, DoUpdate(id) PROVE Log!LogNext \/ UNCHANGED <<Contents, data>>
  <2>1. PICK s \in FlowStates : Update(id, SetState(s))
    BY <1>3 DEF DoUpdate
  <2>2. SetState(s) \in [FlowMeta -> FlowMeta] /\ \A m \in FlowMeta : SetState(s)[m].id = m.id
    BY DEF SetState, FlowMeta
  <2> QED
    BY <2>1, <2>2, UpdateAmends DEF Log!LogNext
<1>4. ASSUME NEW id \in FlowIDs, DoUpdateData(id)
      PROVE  Log!LogNext \/ UNCHANGED <<Contents, data>>
  <2>1. PICK c \in StatusCodes : UpdateData(id, SetResp(c))
    BY <1>4 DEF DoUpdateData
  <2> DEFINE old == IF data[id] = NoData THEN ZeroData ELSE data[id]
  <2>2. old \in FlowData
    BY DEF RBInv, RBTypeOK, ZeroData, FlowData
  <2>3. SetResp(c)[old] \in FlowData
    BY <2>2 DEF SetResp, FlowData
  <2> QED
    BY <2>1, <2>3, DataWrites DEF UpdateData, Log!LogNext
<1>5. ASSUME NEW id \in FlowIDs, DoSetData(id) PROVE Log!LogNext \/ UNCHANGED <<Contents, data>>
  <2>1. [ZeroData EXCEPT !.req = TRUE] \in FlowData
    BY DEF ZeroData, FlowData
  <2> QED
    BY <1>5, <2>1, DataWrites DEF DoSetData, SetData, Log!LogNext
<1> QED
  BY <1>1, <1>2, <1>3, <1>4, <1>5 DEF RBNext

\* The empty store is the empty log.
LEMMA InitImplementsLog == RBInit => Log!LogInit
<1> SUFFICES ASSUME RBInit PROVE Log!LogInit
  OBVIOUS
<1>1. RBInv /\ count = 0
  BY RBInitInv DEF RBInit
<1>2. Contents = << >>
  BY <1>1, ContentsShape, EmptySeq, SeqEqual
<1> QED
  BY <1>2 DEF RBInit, Log!LogInit

\* The store implements the bounded log: through eviction, wrap-around and late writes
\* its callers see a log from whose old end flows fall out, each with its body.
THEOREM StoreIsALog == RBSpec => ImplementsLog
  BY InitImplementsLog, NextImplementsLog, RingBufferConsistent, PTL
     DEF RBSpec, ImplementsLog, Log!LogSpec

-----------------------------------------------------------------------------
(* What the store operations do, flow by flow. *)

\* Update changes the meta of its flow and nothing else.
LEMMA UpdateEffect ==
  ASSUME RBInv, NEW id \in FlowIDs,
         NEW fn \in [FlowMeta -> FlowMeta], \A m \in FlowMeta : fn[m].id = m.id,
         Update(id, fn)
  PROVE  /\ RBInv'
         /\ index' = index /\ data' = data /\ used' = used
         /\ \A g \in FlowIDs : Stored(g) =>
              /\ Meta(g) \in FlowMeta
              /\ Meta(g)' = IF g = id THEN fn[Meta(id)] ELSE Meta(g)
<1>1. RBInv'
  BY UpdateInv
<1>2. index' = index /\ data' = data /\ used' = used
  BY DEF Update
<1>3. ASSUME NEW g \in FlowIDs, Stored(g)
      PROVE  Meta(g) \in FlowMeta /\ Meta(g)' = IF g = id THEN fn[Meta(id)] ELSE Meta(g)
  <2>1. index[g] \in Slots /\ Meta(g).id = g
    BY <1>3 DEF RBInv, RBTypeOK, IndexSound, Stored
  <2>2. CASE ~Stored(id)
    BY <1>2, <1>3, <2>1, <2>2 DEF Update, Meta, RBInv, RBTypeOK
  <2>3. CASE Stored(id)
    <3>1. index[id] \in Slots /\ Meta(id).id = id
      BY <2>3 DEF RBInv, RBTypeOK, IndexSound, Stored
    <3>2. g # id => index[g] # index[id]
      BY <2>1, <3>1 DEF Meta
    <3> QED
      BY <1>2, <2>1, <2>3, <3>1, <3>2 DEF Update, Meta, RBInv, RBTypeOK
  <2> QED
    BY <2>2, <2>3
<1> QED
  BY <1>1, <1>2, <1>3

\* UpdateData and SetData change the data of their flow, if it is held.
LEMMA UpdateDataEffect ==
  ASSUME RBInv, NEW id \in FlowIDs, NEW fn \in [FlowData -> FlowData],
         UpdateData(id, fn)
  PROVE  /\ RBInv'
         /\ index' = index /\ metas' = metas /\ used' = used
         /\ \A g \in FlowIDs : g # id => data'[g] = data[g]
         /\ IF Stored(id)
            THEN data'[id] = fn[IF data[id] = NoData THEN ZeroData ELSE data[id]]
            ELSE data'[id] = data[id]
<1>1. RBInv'
  BY UpdateDataInv
<1> QED
  BY <1>1 DEF UpdateData, RBInv, RBTypeOK

\* SetData changes the data of its flow, if it is held, and no other.
LEMMA SetDataEffect ==
  ASSUME RBInv, NEW id \in FlowIDs, NEW d \in FlowData, SetData(id, d)
  PROVE  /\ RBInv'
         /\ index' = index /\ metas' = metas /\ used' = used
         /\ \A g \in FlowIDs : g # id => data'[g] = data[g]
         /\ data'[id] = IF Stored(id) THEN d ELSE data[id]
<1>1. RBInv'
  BY SetDataInv
<1> QED
  BY <1>1 DEF SetData, RBInv, RBTypeOK

\* After Add, the new flow is held without data and the others are as before or
\* gone.
LEMMA AddEffect ==
  ASSUME RBInv, NEW id \in FlowIDs, DoAdd(id)
  PROVE  /\ RBInv'
         /\ used' = used \cup {id}
         /\ Stored(id)' /\ Meta(id)' = NewMeta(id) /\ data'[id] = NoData
         /\ \A g \in FlowIDs : g # id /\ Stored(g)' =>
              /\ Stored(g)
              /\ Meta(g)' = Meta(g)
              /\ data'[g] = data[g]
<1> DEFINE meta == NewMeta(id)
           slot == SlotAt(count)
<1>1. meta \in FlowMeta /\ meta.id = id /\ id \notin used /\ Add(meta)
  BY DEF DoAdd, NewMeta, ZeroMeta, FlowMeta, FlowStates, ProcessNames
<1>2. RBInv'
  BY <1>1, AddInv
<1>3. slot \in Slots
  BY SlotWrap DEF SlotAt, RBInv, RBTypeOK
<1>4. /\ used' = used \cup {id} /\ metas' = [metas EXCEPT ![slot] = meta]
      /\ \A g \in FlowIDs : index'[g] = IF g = id THEN slot
                             ELSE IF count = Capacity /\ g = metas[head].id THEN NoSlot
                             ELSE index[g]
      /\ \A g \in FlowIDs : data'[g] = IF count = Capacity /\ g = metas[head].id
                                       THEN NoData ELSE data[g]
  BY <1>1 DEF Add
<1>5. ~Stored(id) /\ data[id] = NoData
  BY <1>1 DEF RBInv, StoredUsed, NoOrphanData
<1>6. Stored(id)' /\ Meta(id)' = meta /\ data'[id] = NoData
  BY <1>3, <1>4, <1>5 DEF Stored, Meta, RBInv, RBTypeOK, Slots, NoSlot
<1>7. ASSUME NEW g \in FlowIDs, g # id, Stored(g)'
      PROVE  Stored(g) /\ Meta(g)' = Meta(g) /\ data'[g] = data[g]
  <2>1. index'[g] = index[g] /\ Stored(g) /\ data'[g] = data[g]
    BY <1>4, <1>7 DEF Stored
  <2>2. index[g] \in Slots
    BY <2>1 DEF Stored, RBInv, RBTypeOK
  <2>3. index[g] # slot
    <3>1. Meta(g)'.id = g
      BY <1>2, <1>7 DEF RBInv, IndexSound
    <3>2. metas'[slot].id = id
      BY <1>1, <1>3, <1>4 DEF RBInv, RBTypeOK
    <3> QED
      BY <1>7, <2>1, <3>1, <3>2 DEF Meta
  <2> QED
    BY <1>4, <2>1, <2>2, <2>3 DEF Meta
<1> QED
  BY <1>2, <1>4, <1>6, <1>7

-----------------------------------------------------------------------------
(* The invariant, flow by flow. *)

FlowOK(f) ==
  /\ Stored(f) =>
       /\ Meta(f).state = "Completed" <=> pc[f] = "answered"
       /\ Meta(f).state = "Failed" <=> pc[f] = "failed"
       /\ Meta(f).state = "Completed" =>
            data[f] # NoData /\ data[f].resp # 0 /\ data[f].resp = Meta(f).status
       /\ f \notin large /\ pc[f] \in {"scripts", "synthetic", "upstream", "headers",
                                       "respbody", "response", "merge", "complete",
                                       "answered", "failed", "blocked", "streamed"}
            => data[f] # NoData /\ data[f].req
  /\ pc[f] \in {"synthetic", "complete"} =>
       /\ response[f] # 0
       /\ Stored(f) => data[f] # NoData /\ data[f].resp = response[f]
  /\ pc[f] \in {"headers", "respbody", "response", "merge"} => response[f] # 0
  /\ (pc[f] = "new" \/ f \in excluded) => f \notin used
  /\ f \in excluded => pc[f] # "new"

TypesOK == RBInv /\ ResTypeOK /\ ResolvedPID /\ CapTypeOK

\* The invariant is the types and each flow's part.
LEMMA CapInvByFlow == CapInv <=> TypesOK /\ \A f \in FlowIDs : FlowOK(f)
<1>1. CapInv => TypesOK /\ \A f \in FlowIDs : FlowOK(f)
  BY DEF CapInv, TypesOK, FlowOK, StateFollowsPC, ResponseStoredFirst, ResponsePresent,
         Unstarted, ExcludedStarted, CompletedHasResponse, RequestKept
<1>2. TypesOK /\ (\A f \in FlowIDs : FlowOK(f)) => CapInv
  <2> SUFFICES ASSUME TypesOK, \A f \in FlowIDs : FlowOK(f) PROVE CapInv
    OBVIOUS
  <2>1. StateFollowsPC /\ CompletedHasResponse /\ RequestKept
    BY DEF FlowOK, StateFollowsPC, CompletedHasResponse, RequestKept
  <2>2. ResponseStoredFirst /\ ResponsePresent /\ Unstarted
    BY DEF FlowOK, ResponseStoredFirst, ResponsePresent, Unstarted
  <2>3. ExcludedStarted
    BY DEF FlowOK, ExcludedStarted, TypesOK, CapTypeOK
  <2> QED
    BY <2>1, <2>2, <2>3 DEF CapInv, TypesOK
<1> QED
  BY <1>1, <1>2

\* The same split of the invariant in the next state.
LEMMA CapInvByFlowNext == CapInv' <=> TypesOK' /\ \A f \in FlowIDs : FlowOK(f)'
<1>1. (CapInv <=> TypesOK /\ \A f \in FlowIDs : FlowOK(f))'
  BY CapInvByFlow, PTL
<1> QED
  BY <1>1

\* A step that leaves flow g alone, or evicts it, keeps g's part.
Untouched(g) ==
  /\ pc'[g] = pc[g] /\ response'[g] = response[g]
  /\ g \in excluded' <=> g \in excluded
  /\ g \in large' <=> g \in large
  /\ g \in used' <=> g \in used
  /\ Stored(g)' => Stored(g) /\ Meta(g)' = Meta(g) /\ data'[g] = data[g]

\* A flow that a step did not touch keeps its part of the invariant.
LEMMA UntouchedOK ==
  ASSUME NEW g \in FlowIDs, FlowOK(g), Untouched(g)
  PROVE  FlowOK(g)'
  BY DEF FlowOK, Untouched

\* A step that keeps states, statuses, requests and responses keeps every part:
\* what a resolver does to the store.
Quiet ==
  /\ index' = index /\ used' = used
  /\ \A g \in FlowIDs : Stored(g) =>
       Meta(g)'.state = Meta(g).state /\ Meta(g)'.status = Meta(g).status
  /\ \A g \in FlowIDs : data[g] # NoData =>
       data'[g] # NoData /\ data'[g].req = data[g].req /\ data'[g].resp = data[g].resp

\* So does a flow whose entry only a resolver wrote to.
LEMMA QuietOK ==
  ASSUME NEW g \in FlowIDs, FlowOK(g), Quiet, UNCHANGED capLocal
  PROVE  FlowOK(g)'
<1>1. Stored(g)' <=> Stored(g)
  BY DEF Quiet, Stored
<1> QED
  BY <1>1 DEF FlowOK, Quiet, capLocal

\* The functions the pipeline and the resolver pass to the store have the types
\* Update and UpdateData expect, and keep the ID.
LEMMA WriterTypes ==
  /\ \A t \in FlowStates : /\ SetState(t) \in [FlowMeta -> FlowMeta]
                           /\ \A m \in FlowMeta : SetState(t)[m].id = m.id
  /\ \A c \in StatusCodes \cup {0} :
       /\ SetStatus(c) \in [FlowMeta -> FlowMeta]
       /\ \A m \in FlowMeta : SetStatus(c)[m].id = m.id
       /\ SetResp(c) \in [FlowData -> FlowData]
  /\ \A t \in FlowStates, c \in StatusCodes \cup {0} :
       /\ SetOutcome(t, c) \in [FlowMeta -> FlowMeta]
       /\ \A m \in FlowMeta : SetOutcome(t, c)[m].id = m.id
  /\ \A p \in PIDs : SetPID(p) \in [FlowData -> FlowData]
  /\ \A n \in ProcessNames, p \in PIDs :
       /\ SetProcess(n, p) \in [FlowMeta -> FlowMeta]
       /\ \A m \in FlowMeta : SetProcess(n, p)[m].id = m.id
<1>1. \A t \in FlowStates : /\ SetState(t) \in [FlowMeta -> FlowMeta]
                            /\ \A m \in FlowMeta : SetState(t)[m].id = m.id
  BY DEF SetState, FlowMeta
<1>2. \A c \in StatusCodes \cup {0} :
       /\ SetStatus(c) \in [FlowMeta -> FlowMeta]
       /\ \A m \in FlowMeta : SetStatus(c)[m].id = m.id
  BY DEF SetStatus, FlowMeta
<1>3. \A c \in StatusCodes \cup {0} : SetResp(c) \in [FlowData -> FlowData]
  BY DEF SetResp, FlowData
<1>4. \A t \in FlowStates, c \in StatusCodes \cup {0} :
       /\ SetOutcome(t, c) \in [FlowMeta -> FlowMeta]
       /\ \A m \in FlowMeta : SetOutcome(t, c)[m].id = m.id
  BY DEF SetOutcome, FlowMeta
<1>5. \A p \in PIDs : SetPID(p) \in [FlowData -> FlowData]
  BY DEF SetPID, FlowData
<1>6. \A n \in ProcessNames, p \in PIDs :
       /\ SetProcess(n, p) \in [FlowMeta -> FlowMeta]
       /\ \A m \in FlowMeta : SetProcess(n, p)[m].id = m.id
  BY DEF SetProcess, FlowMeta
<1> QED
  BY <1>1, <1>2, <1>3, <1>4, <1>5, <1>6

-----------------------------------------------------------------------------
(* The resolver. *)

\* No step of a resolution disturbs what the pipeline wrote.
LEMMA GoroutineQuiet ==
  ASSUME TypesOK, NEW f \in FlowIDs, Goroutine(f)
  PROVE  RBInv' /\ ResTypeOK' /\ ResolvedPID' /\ Quiet
<1> USE DEF TypesOK
<1>1. ASSUME UNCHANGED rbVars PROVE RBInv' /\ Quiet
  BY <1>1 DEF rbVars, RBInv, RBTypeOK, IndexSound, LiveIndexed, NoOrphanData, StoredUsed,
              Stored, Meta, SlotAt, Quiet
<1>2. CASE FindPID(f) \/ CacheHit(f) \/ CacheMiss(f) \/ LookupName(f) \/ LookupFails(f)
           \/ RecordFailure(f) \/ ResetFailures(f) \/ Release(f)
  <2>1. UNCHANGED rbVars
    BY <1>2 DEF FindPID, CacheHit, CacheMiss, LookupName, LookupFails, RecordFailure,
                ResetFailures, Release
  <2>2. ASSUME FindPID(f) PROVE ResTypeOK' /\ ResolvedPID'
    BY <2>2 DEF FindPID, Goto, ResTypeOK, ResolvedPID, RunPCs
  <2>3. ASSUME CacheHit(f) \/ CacheMiss(f) \/ LookupName(f) \/ LookupFails(f)
        PROVE  ResTypeOK' /\ ResolvedPID'
    BY <2>3 DEF CacheHit, CacheMiss, LookupName, LookupFails, Goto, ResTypeOK,
                ResolvedPID, RunPCs, ProcessNames
  <2>4. ASSUME RecordFailure(f) \/ ResetFailures(f) \/ Release(f)
        PROVE  ResTypeOK' /\ ResolvedPID'
    <3>1. warned' \in BOOLEAN
      BY <2>4, Zenon DEF RecordFailure, ResetFailures, Release, ResTypeOK
    <3>2. failCount' \in Nat
      BY <2>4 DEF RecordFailure, ResetFailures, Release, ResTypeOK
    <3> QED
      BY <2>4, <3>1, <3>2
         DEF RecordFailure, ResetFailures, Release, Goto, ResTypeOK, ResolvedPID, RunPCs
  <2> QED
    BY <1>1, <1>2, <2>1, <2>2, <2>3, <2>4
<1>3. CASE FindFails(f)
  <2> DEFINE fn == [m \in FlowMeta |-> [m EXCEPT !.process = Fallback]]
  <2>1. fn \in [FlowMeta -> FlowMeta] /\ \A m \in FlowMeta : fn[m].id = m.id
    BY DEF FlowMeta, ProcessNames
  <2>2. Update(f, fn)
    BY <1>3 DEF FindFails
  <2>3. \A m \in FlowMeta : fn[m].state = m.state /\ fn[m].status = m.status
    BY DEF FlowMeta
  <2>4. RBInv' /\ Quiet
    BY <2>1, <2>2, <2>3, UpdateEffect DEF Quiet
  <2>5. ResTypeOK' /\ ResolvedPID'
    BY <1>3 DEF FindFails, Goto, ResTypeOK, ResolvedPID, RunPCs
  <2> QED
    BY <2>4, <2>5
<1>4. CASE WriteMeta(f)
  <2> DEFINE fn == SetProcess(nameOf[f], pidOf[f])
  <2>1. nameOf[f] \in ProcessNames /\ pidOf[f] \in PIDs /\ Update(f, fn)
    BY <1>4 DEF WriteMeta, Goto, ResTypeOK, ResolvedPID
  <2>2. fn \in [FlowMeta -> FlowMeta] /\ \A m \in FlowMeta : fn[m].id = m.id
    BY <2>1, WriterTypes
  <2>3. \A m \in FlowMeta : fn[m].state = m.state /\ fn[m].status = m.status
    BY DEF FlowMeta, SetProcess
  <2> HIDE DEF fn
  <2>4. RBInv' /\ Quiet
    BY <2>1, <2>2, <2>3, UpdateEffect DEF Quiet
  <2>5. ResTypeOK' /\ ResolvedPID'
    BY <1>4 DEF WriteMeta, Goto, ResTypeOK, ResolvedPID, RunPCs
  <2> QED
    BY <2>4, <2>5
<1>5. CASE WriteData(f)
  <2> DEFINE fn == SetPID(pidOf[f])
  <2>1. pidOf[f] \in PIDs /\ UpdateData(f, fn)
    BY <1>5 DEF WriteData, Goto, ResTypeOK, ResolvedPID
  <2>2. fn \in [FlowData -> FlowData]
    BY <2>1, WriterTypes
  <2>3. \A d \in FlowData : fn[d].req = d.req /\ fn[d].resp = d.resp
    BY DEF FlowData, SetPID
  <2> HIDE DEF fn
  <2>4. /\ RBInv' /\ index' = index /\ metas' = metas /\ used' = used
        /\ \A g \in FlowIDs : g # f => data'[g] = data[g]
        /\ data[f] # NoData => data'[f] = data[f] \/ data'[f] = fn[data[f]]
    BY <2>1, <2>2, UpdateDataEffect
  <2>5. \A g \in FlowIDs : data[g] # NoData =>
          data'[g] # NoData /\ data'[g].req = data[g].req /\ data'[g].resp = data[g].resp
    BY <2>2, <2>3, <2>4, NoDataAssumption DEF RBInv, RBTypeOK
  <2>6. Quiet
    BY <2>4, <2>5 DEF Quiet, Stored, Meta
  <2>7. ResTypeOK' /\ ResolvedPID'
    BY <1>5 DEF WriteData, Goto, ResTypeOK, ResolvedPID, RunPCs
  <2> QED
    BY <2>4, <2>6, <2>7
<1> QED
  BY <1>2, <1>3, <1>4, <1>5 DEF Goroutine

-----------------------------------------------------------------------------
(* The pipeline: one lemma per group of actions. *)

\* A step of flow f keeps the invariant if it keeps the types and f's own part and
\* touches nobody else.
LEMMA OneFlowStep ==
  ASSUME CapInv, NEW f \in FlowIDs, RBInv', ResTypeOK', ResolvedPID', CapTypeOK',
         FlowOK(f)', \A g \in FlowIDs : g # f => Untouched(g)
  PROVE  CapInv'
<1>1. \A g \in FlowIDs : FlowOK(g)'
  BY CapInvByFlow, UntouchedOK
<1> QED
  BY <1>1, CapInvByFlowNext DEF TypesOK

\* What steps that leave the store, or the resolver's variables, alone keep.
LEMMA StoreUnchanged == RBInv /\ UNCHANGED rbVars => RBInv'
  BY DEF rbVars, RBInv, RBTypeOK, IndexSound, LiveIndexed, NoOrphanData, StoredUsed,
         Stored, Meta, SlotAt

\* The resolver's variables keep their types when no step of it happens.
LEMMA ResolverUnchanged ==
  ResTypeOK /\ ResolvedPID /\ UNCHANGED resLocal => ResTypeOK' /\ ResolvedPID'
  BY DEF resLocal, ResTypeOK, ResolvedPID

\* Steps of the flow's goroutine that do not call the store.
Silent(f) ==
  \/ RequestheadersExcluded(f) \/ ReadRequestBody(f) \/ Pause(f) \/ Resume(f)
  \/ ScriptsForward(f) \/ ScriptsBlock(f) \/ Upstream(f) \/ ReadResponseBody(f)
  \/ ResponseScripts(f)

\* Steps that write nothing to the store keep the invariant.
LEMMA SilentInv == ASSUME CapInv, NEW f \in FlowIDs, Silent(f) PROVE CapInv'
<1> USE CapInvByFlow, ForbiddenAssumption, NumbersAssumption DEF TypesOK
<1>1. UNCHANGED <<rbVars, resLocal>>
  BY DEF Silent, RequestheadersExcluded, ReadRequestBody, Pause, Resume, ScriptsForward,
         ScriptsBlock, Upstream, ReadResponseBody, ResponseScripts
<1>2. RBInv' /\ ResTypeOK' /\ ResolvedPID'
  BY <1>1, StoreUnchanged, ResolverUnchanged
<1>3. Stored(f)' = Stored(f) /\ Meta(f)' = Meta(f) /\ data' = data /\ used' = used
  BY <1>1 DEF rbVars, Stored, Meta
<1>4. CapTypeOK'
  BY DEF Silent, RequestheadersExcluded, ReadRequestBody, Pause, Resume, ScriptsForward,
         ScriptsBlock, Upstream, ReadResponseBody, ResponseScripts, Step, CapTypeOK,
         OpenPCs, EndPCs
<1>5. ASSUME NEW g \in FlowIDs, g # f PROVE Untouched(g)
  <2>1. Stored(g)' = Stored(g) /\ Meta(g)' = Meta(g)
    BY <1>1 DEF rbVars, Stored, Meta
  <2> QED
    BY <1>3, <1>5, <2>1
       DEF Untouched, Silent, RequestheadersExcluded, ReadRequestBody, Pause, Resume,
           ScriptsForward, ScriptsBlock, Upstream, ReadResponseBody, ResponseScripts, Step,
           CapTypeOK
<1>6. FlowOK(f)'
  <2>1. CASE RequestheadersExcluded(f) \/ Pause(f) \/ Resume(f)
    BY <1>3, <2>1 DEF FlowOK, RequestheadersExcluded, Pause, Resume, Step, At, CapTypeOK
  <2>2. CASE ReadRequestBody(f)
    BY <1>3, <2>2 DEF FlowOK, ReadRequestBody, Step, At, CapTypeOK
  <2>3. CASE ScriptsForward(f) \/ ScriptsBlock(f)
    BY <1>3, <2>3 DEF FlowOK, ScriptsForward, ScriptsBlock, Step, At, CapTypeOK
  <2>4. CASE Upstream(f)
    BY <1>3, <2>4 DEF FlowOK, Upstream, Step, At, CapTypeOK
  <2>5. CASE ReadResponseBody(f)
    BY <1>3, <2>5 DEF FlowOK, ReadResponseBody, Step, At, CapTypeOK
  <2>6. CASE ResponseScripts(f)
    BY <1>3, <2>6 DEF FlowOK, ResponseScripts, Step, At, CapTypeOK
  <2> QED
    BY <2>1, <2>2, <2>3, <2>4, <2>5, <2>6 DEF Silent
<1> QED
  BY <1>2, <1>4, <1>5, <1>6, OneFlowStep

\* Steps that write the flow's data.
LEMMA DataStepInv ==
  ASSUME CapInv, NEW f \in FlowIDs,
         Request(f) \/ ScriptsRespond(f) \/ MergeResponse(f)
  PROVE  CapInv'
<1> USE CapInvByFlow, NumbersAssumption, NoDataAssumption DEF TypesOK
<1>1. ResTypeOK' /\ ResolvedPID'
  BY ResolverUnchanged DEF Request, ScriptsRespond, MergeResponse
<1>2. CapTypeOK'
  BY DEF Request, ScriptsRespond, MergeResponse, Step, CapTypeOK, OpenPCs, EndPCs
<1>3. /\ RBInv' /\ index' = index /\ metas' = metas /\ used' = used
      /\ \A g \in FlowIDs : g # f => data'[g] = data[g]
      /\ FlowOK(f)'
  <2>1. CASE Request(f)
    <3>1. RequestData \in FlowData /\ RequestData.req
      BY DEF RequestData, ZeroData, FlowData
    <3>2. /\ RBInv' /\ index' = index /\ metas' = metas /\ used' = used
          /\ \A g \in FlowIDs : g # f => data'[g] = data[g]
          /\ data'[f] = IF Stored(f) THEN RequestData ELSE data[f]
      BY <2>1, <3>1, SetDataEffect DEF Request
    <3>3. FlowOK(f)'
      BY <2>1, <3>1, <3>2 DEF FlowOK, Request, Step, At, CapTypeOK, Stored, Meta
    <3> QED
      BY <3>2, <3>3
  <2>2. CASE ScriptsRespond(f)
    <3>1. PICK c \in StatusCodes : /\ response' = [response EXCEPT ![f] = c]
                                   /\ SetData(f, [RequestData EXCEPT !.resp = c])
      BY <2>2 DEF ScriptsRespond
    <3> DEFINE d == [RequestData EXCEPT !.resp = c]
    <3>2. d \in FlowData /\ d.req /\ d.resp = c
      BY DEF RequestData, ZeroData, FlowData
    <3> HIDE DEF d
    <3>3. /\ RBInv' /\ index' = index /\ metas' = metas /\ used' = used
          /\ \A g \in FlowIDs : g # f => data'[g] = data[g]
          /\ data'[f] = IF Stored(f) THEN d ELSE data[f]
      BY <3>1, <3>2, SetDataEffect DEF d
    <3>4. FlowOK(f)'
      BY <2>2, <3>1, <3>2, <3>3 DEF FlowOK, ScriptsRespond, Step, At, CapTypeOK, Stored, Meta
    <3> QED
      BY <3>3, <3>4
  <2>3. CASE MergeResponse(f)
    <3> DEFINE fn == SetResp(response[f])
    <3>1. response[f] \in StatusCodes \cup {0} /\ UpdateData(f, fn)
      BY <2>3 DEF MergeResponse, CapTypeOK
    <3>2. fn \in [FlowData -> FlowData]
      BY <3>1, WriterTypes
    <3>3. \A d \in FlowData : fn[d].req = d.req /\ fn[d].resp = response[f]
      BY DEF SetResp, FlowData
    <3> HIDE DEF fn
    <3>4. /\ RBInv' /\ index' = index /\ metas' = metas /\ used' = used
          /\ \A g \in FlowIDs : g # f => data'[g] = data[g]
          /\ IF Stored(f)
             THEN data'[f] = fn[IF data[f] = NoData THEN ZeroData ELSE data[f]]
             ELSE data'[f] = data[f]
      BY <3>1, <3>2, UpdateDataEffect
    <3>5. Stored(f) => /\ data'[f] # NoData /\ data'[f].resp = response[f]
                       /\ data[f] # NoData => data'[f].req = data[f].req
      <4>1. ZeroData \in FlowData
        BY DEF ZeroData, FlowData
      <4> QED
        BY <3>2, <3>3, <3>4, <4>1 DEF RBInv, RBTypeOK
    <3>6. FlowOK(f)'
      BY <2>3, <3>4, <3>5 DEF FlowOK, MergeResponse, Step, At, CapTypeOK, Stored, Meta
    <3> QED
      BY <3>4, <3>6
  <2> QED
    BY <2>1, <2>2, <2>3
<1>4. ASSUME NEW g \in FlowIDs, g # f PROVE Untouched(g)
  <2>1. Stored(g)' = Stored(g) /\ Meta(g)' = Meta(g)
    BY <1>3 DEF Stored, Meta
  <2> QED
    BY <1>3, <1>4, <2>1
       DEF Untouched, Request, ScriptsRespond, MergeResponse, Step, CapTypeOK
<1> QED
  BY <1>1, <1>2, <1>3, <1>4, OneFlowStep

\* What Update does for a step of f, given the meta it writes.
LEMMA MetaStepFrame ==
  ASSUME CapInv, NEW f \in FlowIDs, NEW fn \in [FlowMeta -> FlowMeta],
         \A m \in FlowMeta : fn[m].id = m.id, Update(f, fn)
  PROVE  /\ RBInv'
         /\ Stored(f) => Meta(f)' = fn[Meta(f)] /\ Meta(f) \in FlowMeta
         /\ \A g \in FlowIDs : Stored(g)' = Stored(g)
         /\ \A g \in FlowIDs : g # f /\ Stored(g) => Meta(g)' = Meta(g)
         /\ data' = data /\ used' = used
<1>1. RBInv
  BY DEF CapInv
<1>2. /\ RBInv' /\ index' = index /\ data' = data /\ used' = used
      /\ \A g \in FlowIDs : Stored(g) =>
              /\ Meta(g) \in FlowMeta
              /\ Meta(g)' = IF g = f THEN fn[Meta(f)] ELSE Meta(g)
  BY <1>1, UpdateEffect
<1> QED
  BY <1>2 DEF Stored

\* Steps that write the flow's meta.
LEMMA MetaStepInv ==
  ASSUME CapInv, NEW f \in FlowIDs,
         SyntheticComplete(f) \/ Responseheaders(f) \/ ResponseFails(f) \/ CompleteFlow(f)
  PROVE  CapInv'
<1> USE CapInvByFlow DEF TypesOK
<1>1. ResTypeOK' /\ ResolvedPID'
  BY ResolverUnchanged DEF SyntheticComplete, Responseheaders, ResponseFails, CompleteFlow
<1>2. CapTypeOK'
  BY DEF SyntheticComplete, Responseheaders, ResponseFails, CompleteFlow, Step, CapTypeOK,
         OpenPCs, EndPCs
<1>3. response[f] \in StatusCodes \cup {0} /\ {"Completed", "Failed"} \subseteq FlowStates
  BY DEF CapTypeOK, FlowStates
<1>4. PICK fn \in [FlowMeta -> FlowMeta] :
        /\ \A m \in FlowMeta : fn[m].id = m.id
        /\ Update(f, fn)
        /\ SyntheticComplete(f) \/ CompleteFlow(f) => fn = SetOutcome("Completed", response[f])
        /\ Responseheaders(f) => fn = SetStatus(response[f])
        /\ ResponseFails(f) => fn = SetState("Failed")
  <2>1. CASE SyntheticComplete(f) \/ CompleteFlow(f)
    <3>1. Update(f, SetOutcome("Completed", response[f])) /\ ~Responseheaders(f)
          /\ ~ResponseFails(f)
      BY <2>1 DEF SyntheticComplete, CompleteFlow, Responseheaders, ResponseFails, Step, At
    <3> QED
      BY <1>3, <2>1, <3>1, WriterTypes
  <2>2. CASE Responseheaders(f)
    <3>1. Update(f, SetStatus(response[f])) /\ ~SyntheticComplete(f) /\ ~CompleteFlow(f)
          /\ ~ResponseFails(f)
      BY <2>2 DEF SyntheticComplete, CompleteFlow, Responseheaders, ResponseFails, Step, At
    <3> QED
      BY <1>3, <2>2, <3>1, WriterTypes
  <2>3. CASE ResponseFails(f)
    <3>1. Update(f, SetState("Failed")) /\ ~SyntheticComplete(f) /\ ~CompleteFlow(f)
          /\ ~Responseheaders(f)
      BY <2>3 DEF SyntheticComplete, CompleteFlow, Responseheaders, ResponseFails, Step, At
    <3> QED
      BY <1>3, <2>3, <3>1, WriterTypes
  <2> QED
    BY <2>1, <2>2, <2>3
<1>5. /\ RBInv' /\ data' = data /\ used' = used
      /\ Stored(f) => Meta(f)' = fn[Meta(f)] /\ Meta(f) \in FlowMeta
      /\ \A g \in FlowIDs : Stored(g)' = Stored(g)
      /\ \A g \in FlowIDs : g # f /\ Stored(g) => Meta(g)' = Meta(g)
  BY <1>4, MetaStepFrame
<1>6. ASSUME NEW g \in FlowIDs, g # f PROVE Untouched(g)
  BY <1>5, <1>6 DEF Untouched, SyntheticComplete, Responseheaders, ResponseFails,
                    CompleteFlow, Step, CapTypeOK
<1>7. FlowOK(f)'
  <2>1. CASE SyntheticComplete(f) \/ CompleteFlow(f)
    <3>1. Stored(f) => Meta(f)'.state = "Completed" /\ Meta(f)'.status = response[f]
      <4>1. fn = SetOutcome("Completed", response[f])
        BY <1>4, <2>1
      <4>2. \A m \in FlowMeta : fn[m].state = "Completed" /\ fn[m].status = response[f]
        BY <4>1 DEF SetOutcome, FlowMeta
      <4> QED
        BY <1>5, <4>2
    <3> QED
      BY <1>5, <2>1, <3>1 DEF FlowOK, SyntheticComplete, CompleteFlow, Step, At, CapTypeOK
  <2>2. CASE Responseheaders(f)
    <3>1. Stored(f) => Meta(f)'.state = Meta(f).state
      <4>1. fn = SetStatus(response[f])
        BY <1>4, <2>2
      <4>2. \A m \in FlowMeta : fn[m].state = m.state
        BY <4>1 DEF SetStatus, FlowMeta
      <4> QED
        BY <1>5, <4>2
    <3> QED
      BY <1>5, <2>2, <3>1 DEF FlowOK, Responseheaders, Step, At, CapTypeOK
  <2>3. CASE ResponseFails(f)
    <3>1. Stored(f) => Meta(f)'.state = "Failed"
      <4>1. fn = SetState("Failed")
        BY <1>4, <2>3
      <4>2. \A m \in FlowMeta : fn[m].state = "Failed"
        BY <4>1 DEF SetState, FlowMeta
      <4> QED
        BY <1>5, <4>2
    <3> QED
      BY <1>5, <2>3, <3>1 DEF FlowOK, ResponseFails, Step, At, CapTypeOK
  <2> QED
    BY <2>1, <2>2, <2>3
<1> QED
  BY <1>1, <1>2, <1>5, <1>6, <1>7, OneFlowStep

\* Requestheaders: the flow enters the store, another may leave it.
LEMMA RequestheadersInv ==
  ASSUME CapInv, NEW f \in FlowIDs, Requestheaders(f)
  PROVE  CapInv'
<1> USE CapInvByFlow DEF TypesOK
<1>1. ResTypeOK' /\ ResolvedPID'
  BY DEF Requestheaders, Goto, ResTypeOK, ResolvedPID, RunPCs
<1>2. CapTypeOK'
  BY DEF Requestheaders, Step, CapTypeOK, OpenPCs, EndPCs
<1>3. /\ RBInv' /\ used' = used \cup {f}
      /\ Stored(f)' /\ Meta(f)' = NewMeta(f) /\ data'[f] = NoData
      /\ \A g \in FlowIDs : g # f /\ Stored(g)' =>
           Stored(g) /\ Meta(g)' = Meta(g) /\ data'[g] = data[g]
  BY AddEffect DEF Requestheaders
<1>4. ASSUME NEW g \in FlowIDs, g # f PROVE Untouched(g)
  BY <1>3, <1>4 DEF Untouched, Requestheaders, Step, CapTypeOK
<1>5. NewMeta(f).state = "InProgress"
  BY DEF NewMeta, ZeroMeta
<1>6. FlowOK(f)'
  BY <1>3, <1>5 DEF FlowOK, Requestheaders, Step, At, CapTypeOK
<1> QED
  BY <1>1, <1>2, <1>3, <1>4, <1>6, OneFlowStep

\* Resolve: the resolver's goroutine starts.
LEMMA ResolveInv ==
  ASSUME CapInv, NEW f \in FlowIDs, Resolve(f)
  PROVE  CapInv'
<1> USE CapInvByFlow DEF TypesOK
<1>1. UNCHANGED rbVars /\ RBInv'
  BY StoreUnchanged DEF Resolve, Acquire
<1>2. ResTypeOK' /\ ResolvedPID'
  BY DEF Resolve, Acquire, Goto, ResTypeOK, ResolvedPID, RunPCs
<1>3. CapTypeOK'
  BY DEF Resolve, Step, CapTypeOK, OpenPCs, EndPCs
<1>4. \A g \in FlowIDs : Stored(g)' = Stored(g) /\ Meta(g)' = Meta(g)
  BY <1>1 DEF rbVars, Stored, Meta
<1>5. ASSUME NEW g \in FlowIDs, g # f PROVE Untouched(g)
  BY <1>1, <1>4, <1>5 DEF Untouched, Resolve, Step, CapTypeOK, rbVars
<1>6. FlowOK(f)'
  BY <1>1, <1>4 DEF FlowOK, Resolve, Step, At, CapTypeOK, rbVars
<1> QED
  BY <1>1, <1>2, <1>3, <1>5, <1>6, OneFlowStep

-----------------------------------------------------------------------------
(* The theorems *)

\* The pipeline starts in the invariant.
LEMMA CapInitInv == CapInit => CapInv
<1> SUFFICES ASSUME CapInit PROVE CapInv
  OBVIOUS
<1>1. RBInv
  BY RBInitInv DEF CapInit
<1>2. ResTypeOK /\ ResolvedPID
  BY DEF CapInit, ResInit, ResTypeOK, ResolvedPID, ProcessNames
<1>3. CapTypeOK
  BY DEF CapInit, CapTypeOK
<1>4. \A f \in FlowIDs : FlowOK(f)
  BY DEF CapInit, RBInit, FlowOK, Stored
<1> QED
  BY <1>1, <1>2, <1>3, <1>4, CapInvByFlow DEF TypesOK

\* Every step of the pipeline, of a resolver and of the environment keeps it.
LEMMA CapNextInv == CapInv /\ [CapNext]_capVars => CapInv'
<1> SUFFICES ASSUME CapInv, [CapNext]_capVars PROVE CapInv'
  OBVIOUS
<1>1. CASE UNCHANGED capVars
  <2>1. RBInv' /\ ResTypeOK' /\ ResolvedPID' /\ CapTypeOK'
    BY <1>1, StoreUnchanged, ResolverUnchanged DEF capVars, capLocal, CapInv, CapTypeOK
  <2>2. Quiet
    BY <1>1 DEF capVars, rbVars, Quiet, Stored, Meta
  <2> QED
    BY <1>1, <2>1, <2>2, QuietOK, CapInvByFlow, CapInvByFlowNext DEF capVars, TypesOK
<1>2. ASSUME NEW f \in FlowIDs, FlowStep(f) \/ Pause(f) \/ Resume(f) PROVE CapInv'
  BY <1>2, SilentInv, DataStepInv, MetaStepInv, RequestheadersInv, ResolveInv
     DEF FlowStep, Silent
<1>3. ASSUME NEW f \in FlowIDs, Goroutine(f), UNCHANGED capLocal PROVE CapInv'
  <2>1. RBInv' /\ ResTypeOK' /\ ResolvedPID' /\ Quiet
    BY <1>3, GoroutineQuiet, CapInvByFlow
  <2>2. CapTypeOK'
    BY <1>3 DEF capLocal, CapInv, CapTypeOK
  <2> QED
    BY <1>3, <2>1, <2>2, QuietOK, CapInvByFlow, CapInvByFlowNext DEF TypesOK
<1>4. ASSUME NEW p \in PIDs, PIDReused(p), UNCHANGED capLocal PROVE CapInv'
  <2>1. RBInv'
    BY <1>4, StoreUnchanged DEF PIDReused, CapInv
  <2>2. ResTypeOK' /\ ResolvedPID'
    BY <1>4 DEF PIDReused, CapInv, ResTypeOK, ResolvedPID
  <2>3. CapTypeOK'
    BY <1>4 DEF capLocal, CapInv, CapTypeOK
  <2>4. Quiet
    BY <1>4 DEF PIDReused, rbVars, Quiet, Stored, Meta
  <2> QED
    BY <1>4, <2>1, <2>2, <2>3, <2>4, QuietOK, CapInvByFlow, CapInvByFlowNext DEF TypesOK
<1> QED
  BY <1>1, <1>2, <1>3, <1>4 DEF CapNext

\* The inductive invariant holds throughout.
THEOREM CaptureInvariant == CapSpec => []CapInv
  BY CapInitInv, CapNextInv, PTL DEF CapSpec

\* Types of the pipeline's variables.
THEOREM CaptureTypes == CapSpec => []CapTypeOK
<1>1. CapInv => CapTypeOK
  BY DEF CapInv
<1> QED
  BY <1>1, CaptureInvariant, PTL

\* A Completed flow has the response whose status is shown, for every capacity,
\* number of flows and interleaving of callbacks, resolvers and evictions.
THEOREM CompletedFlowsHaveResponses == CapSpec => []CompletedHasResponse
<1>1. CapInv => CompletedHasResponse
  BY DEF CapInv
<1> QED
  BY <1>1, CaptureInvariant, PTL

\* The captured request survives the resolver and the response.
THEOREM RequestsAreKept == CapSpec => []RequestKept
<1>1. CapInv => RequestKept
  BY DEF CapInv
<1> QED
  BY <1>1, CaptureInvariant, PTL

\* Excluded hosts leave no trace in the store.
THEOREM ExcludedHostsUnseen == CapSpec => []ExcludedNeverStored
<1>1. CapInv => ExcludedNeverStored
  BY DEF CapInv, Unstarted, CapTypeOK, ExcludedNeverStored, RBInv, StoredUsed, NoOrphanData
<1> QED
  BY <1>1, CaptureInvariant, PTL

\* Flows that Response or a script answered are settled.
THEOREM AnsweredFlowsSettle == CapSpec => []AnsweredIsSettled
<1>1. CapInv => AnsweredIsSettled
  BY DEF CapInv, StateFollowsPC, AnsweredIsSettled
<1> QED
  BY <1>1, CaptureInvariant, PTL

\* A settled flow that is held before and after a step keeps its state and status.
Final(f) ==
  Stored(f) /\ Meta(f).state \in {"Completed", "Failed"} /\ Stored(f)'
    => Meta(f)'.state = Meta(f).state /\ Meta(f)'.status = Meta(f).status

\* The actions that write the state or the status are not enabled for a settled flow,
\* and the others keep them.
LEMMA SettledStep == ASSUME CapInv, CapNext PROVE \A f \in FlowIDs : Final(f)
<1> USE DEF Final
<1>1. \A f \in FlowIDs : FlowOK(f)
  BY CapInvByFlow
<1>2. ASSUME Quiet PROVE \A f \in FlowIDs : Final(f)
  BY <1>2 DEF Quiet
<1>3. ASSUME NEW g \in FlowIDs, Silent(g) \/ Resolve(g) PROVE \A f \in FlowIDs : Final(f)
  <2>1. UNCHANGED rbVars
    BY <1>3 DEF Silent, RequestheadersExcluded, ReadRequestBody, Pause, Resume,
         ScriptsForward, ScriptsBlock, Upstream, ReadResponseBody, ResponseScripts,
         Resolve, Acquire
  <2> QED
    BY <2>1 DEF rbVars, Meta, Stored
<1>4. ASSUME NEW g \in FlowIDs, Request(g) \/ ScriptsRespond(g) \/ MergeResponse(g)
      PROVE  \A f \in FlowIDs : Final(f)
  BY <1>4 DEF Request, ScriptsRespond, MergeResponse, SetData, UpdateData, Meta, Stored
<1>5. ASSUME NEW g \in FlowIDs, Requestheaders(g) PROVE \A f \in FlowIDs : Final(f)
  <2>1. RBInv /\ ~Stored(g)
    BY <1>5 DEF CapInv, Requestheaders, DoAdd, RBInv, StoredUsed
  <2>2. \A f \in FlowIDs : f # g /\ Stored(f)' => Meta(f)' = Meta(f)
    BY <1>5, <2>1, AddEffect DEF Requestheaders
  <2> QED
    BY <2>1, <2>2
<1>6. ASSUME NEW g \in FlowIDs,
             SyntheticComplete(g) \/ Responseheaders(g) \/ ResponseFails(g) \/ CompleteFlow(g)
      PROVE  \A f \in FlowIDs : Final(f)
  <2>1. Stored(g) => Meta(g).state \notin {"Completed", "Failed"}
    BY <1>1, <1>6 DEF FlowOK, SyntheticComplete, Responseheaders, ResponseFails,
                      CompleteFlow, Step, At
  <2>2. \A f \in FlowIDs : f # g /\ Stored(f) => Meta(f)' = Meta(f)
    <3>1. response[g] \in StatusCodes \cup {0} /\ {"Completed", "Failed"} \subseteq FlowStates
      BY DEF CapInv, CapTypeOK, FlowStates
    <3>2. PICK fn \in [FlowMeta -> FlowMeta] :
            (\A m \in FlowMeta : fn[m].id = m.id) /\ Update(g, fn)
      BY <1>6, <3>1, WriterTypes
         DEF SyntheticComplete, Responseheaders, ResponseFails, CompleteFlow
    <3> QED
      BY <3>2, MetaStepFrame
  <2> QED
    BY <2>1, <2>2
<1>7. ASSUME NEW g \in FlowIDs, Goroutine(g) PROVE Quiet
  BY <1>7, GoroutineQuiet, CapInvByFlow
<1>8. ASSUME NEW p \in PIDs, PIDReused(p) PROVE Quiet
  BY <1>8 DEF PIDReused, rbVars, Quiet, Stored, Meta
<1>9. ASSUME NEW g \in FlowIDs, FlowStep(g) \/ Pause(g) \/ Resume(g)
      PROVE  \A f \in FlowIDs : Final(f)
  BY <1>3, <1>4, <1>5, <1>6, <1>9 DEF FlowStep, Silent
<1> QED
  BY <1>2, <1>7, <1>8, <1>9 DEF CapNext

\* A settled flow keeps its state and status while it is held.
THEOREM SettledFlowsAreFinal == CapSpec => SettledIsFinal
<1>1. CapInv /\ [CapNext]_capVars => [\A f \in FlowIDs : Final(f)]_capVars
  BY SettledStep
<1> QED
  BY <1>1, CaptureInvariant, PTL DEF CapSpec, SettledIsFinal, Final

\* An answered flow stays answered, and does not come back once evicted.
LEMMA AnsweredStays ==
  ASSUME CapInv, CapNext, NEW f \in FlowIDs, pc[f] = "answered"
  PROVE  /\ pc'[f] = "answered"
         /\ Stored(f)' => Stored(f) /\ Meta(f)'.status = Meta(f).status
<1>1. FlowOK(f) /\ RBInv /\ CapTypeOK
  BY CapInvByFlow DEF TypesOK
<1>2. pc'[f] = "answered"
  <2>1. ASSUME NEW g \in FlowIDs, FlowStep(g) \/ Pause(g) \/ Resume(g)
        PROVE  pc'[f] = "answered"
    BY <1>1, <2>1 DEF FlowStep, Pause, Resume, Step, At, CapTypeOK, RequestheadersExcluded,
       Requestheaders, Resolve, ReadRequestBody, Request, ScriptsForward, ScriptsBlock,
       ScriptsRespond, SyntheticComplete, Upstream, Responseheaders, ReadResponseBody,
       ResponseFails, ResponseScripts, MergeResponse, CompleteFlow
  <2> QED
    BY <2>1 DEF CapNext, capLocal
<1>3. Stored(f)' => Stored(f)
  <2>1. ASSUME NEW g \in FlowIDs, FlowStep(g) \/ Pause(g) \/ Resume(g), Stored(f)'
        PROVE  Stored(f)
    <3>1. CASE Requestheaders(g)
      BY <1>1, <2>1, <3>1, AddEffect DEF Requestheaders, Step, At
    <3>2. CASE ~Requestheaders(g)
      BY <2>1, <3>2 DEF FlowStep, Pause, Resume, RequestheadersExcluded, Resolve, Acquire,
         ReadRequestBody, Request, ScriptsForward, ScriptsBlock, ScriptsRespond,
         SyntheticComplete, Upstream, Responseheaders, ReadResponseBody, ResponseFails,
         ResponseScripts, MergeResponse, CompleteFlow, SetData, Update, UpdateData,
         rbVars, Stored
    <3> QED
      BY <3>1, <3>2
  <2>2. ASSUME NEW g \in FlowIDs, Goroutine(g) PROVE Stored(f)' = Stored(f)
    BY <2>2, GoroutineQuiet, CapInvByFlow DEF Quiet, Stored
  <2>3. ASSUME NEW p \in PIDs, PIDReused(p) PROVE Stored(f)' = Stored(f)
    BY <2>3 DEF PIDReused, rbVars, Stored
  <2> QED
    BY <2>1, <2>2, <2>3 DEF CapNext
<1>4. Stored(f) => Meta(f).state = "Completed"
  BY <1>1 DEF FlowOK
<1> QED
  BY <1>2, <1>3, <1>4, SettledStep DEF Final

-----------------------------------------------------------------------------
(* The outcome of a lookup. *)

\* Flow f's resolution and its entry move together: a flow without a resolution has no
\* PID; past the resolution's first write the summary has the PID found and the name used
\* for it, or the fallback and no PID; the data has a PID only once the summary has it.
LookupFollows(f) ==
  /\ f \notin used => rpc[f] = "none"
  /\ rpc[f] \in {"none", "calling", "find", "nopid"} => pidOf[f] = 0
  /\ rpc[f] \in {"named", "unnamed", "meta", "data"} => nameOf[f] # NoName
  /\ Stored(f) =>
       /\ rpc[f] \in {"nopid", "release", "done"} /\ pidOf[f] = 0 => Meta(f).process = Fallback
       /\ rpc[f] \in {"data", "release", "done"} /\ pidOf[f] # 0 =>
            Meta(f).pid = pidOf[f] /\ Meta(f).process = nameOf[f]
       /\ rpc[f] \notin {"data", "release", "done"} \/ pidOf[f] = 0 => Meta(f).pid = 0
       /\ data[f] # NoData /\ data[f].pid # 0 =>
            rpc[f] \in {"release", "done"} /\ data[f].pid = pidOf[f]

\* The tokens in the channel are those of the goroutines running, at most its capacity.
Tokens ==
  /\ sem = {f \in FlowIDs : rpc[f] \in RunPCs}
  /\ IsFiniteSet(sem) /\ Cardinality(sem) <= MaxConcurrent

LookupInv == CapInv /\ (\A f \in FlowIDs : LookupFollows(f)) /\ Tokens

\* A step that leaves flow g's resolution, its process and its PIDs alone, but may evict
\* it or take the PID out of its data.
Aside(g) ==
  /\ rpc'[g] = rpc[g] /\ pidOf'[g] = pidOf[g] /\ nameOf'[g] = nameOf[g]
  /\ g \in used => g \in used'
  /\ Stored(g)' =>
       /\ Stored(g) /\ Meta(g)'.process = Meta(g).process /\ Meta(g)'.pid = Meta(g).pid
       /\ \/ data'[g] = NoData \/ data'[g].pid = 0
          \/ data[g] # NoData /\ data'[g].pid = data[g].pid

\* Such a step keeps g's part.
LEMMA AsideFollows ==
  ASSUME NEW g \in FlowIDs, LookupFollows(g), Aside(g)
  PROVE  LookupFollows(g)'
<1>1. CASE ~Stored(g)'
  BY <1>1 DEF LookupFollows, Aside
<1>2. CASE Stored(g)'
  BY <1>2 DEF LookupFollows, Aside
<1> QED
  BY <1>1, <1>2

\* The pipeline's own steps leave what the resolver wrote, except that Request and
\* ScriptsRespond put a FlowData without a PID in the place of the old one.
LEMMA PipelineAside ==
  ASSUME CapInv, NEW f \in FlowIDs,
         FlowStep(f) \/ Pause(f) \/ Resume(f), ~Requestheaders(f), ~Resolve(f)
  PROVE  UNCHANGED resLocal /\ \A g \in FlowIDs : Aside(g)
<1> USE CapInvByFlow, NumbersAssumption DEF TypesOK
<1>1. ASSUME UNCHANGED <<rbVars, resLocal>> PROVE \A g \in FlowIDs : Aside(g)
  BY <1>1 DEF rbVars, resLocal, Aside, Stored, Meta
<1>2. CASE Silent(f)
  <2>1. UNCHANGED <<rbVars, resLocal>>
    BY <1>2 DEF Silent, RequestheadersExcluded, ReadRequestBody, Pause, Resume, ScriptsForward,
           ScriptsBlock, Upstream, ReadResponseBody, ResponseScripts
  <2> QED
    BY <1>1, <2>1
<1>3. ASSUME UNCHANGED resLocal,
             NEW d \in FlowData, d.pid = 0, SetData(f, d)
      PROVE  \A g \in FlowIDs : Aside(g)
  <2>1. /\ index' = index /\ metas' = metas /\ used' = used
        /\ \A g \in FlowIDs : g # f => data'[g] = data[g]
        /\ data'[f] = IF Stored(f) THEN d ELSE data[f]
    BY <1>3, SetDataEffect
  <2>2. \A g \in FlowIDs : Stored(g)' = Stored(g) /\ Meta(g)' = Meta(g)
    BY <2>1 DEF Stored, Meta
  <2> QED
    BY <1>3, <2>1, <2>2 DEF Aside, resLocal
<1>4. CASE Request(f)
  <2>1. RequestData \in FlowData /\ RequestData.pid = 0
    BY DEF RequestData, ZeroData, FlowData
  <2> QED
    BY <1>3, <1>4, <2>1 DEF Request
<1>5. CASE ScriptsRespond(f)
  <2>1. PICK c \in StatusCodes : SetData(f, [RequestData EXCEPT !.resp = c])
    BY <1>5 DEF ScriptsRespond
  <2>2. [RequestData EXCEPT !.resp = c] \in FlowData /\ [RequestData EXCEPT !.resp = c].pid = 0
    BY DEF RequestData, ZeroData, FlowData
  <2> QED
    BY <1>3, <1>5, <2>1, <2>2 DEF ScriptsRespond
<1>6. CASE MergeResponse(f)
  <2> DEFINE fn == SetResp(response[f])
  <2>1. response[f] \in StatusCodes \cup {0} /\ UpdateData(f, fn) /\ UNCHANGED resLocal
    BY <1>6 DEF MergeResponse, CapTypeOK
  <2>2. fn \in [FlowData -> FlowData] /\ \A d \in FlowData : fn[d].pid = d.pid
    BY <2>1, WriterTypes DEF SetResp, FlowData
  <2> HIDE DEF fn
  <2>3. /\ index' = index /\ metas' = metas /\ used' = used
        /\ \A g \in FlowIDs : g # f => data'[g] = data[g]
        /\ IF Stored(f)
           THEN data'[f] = fn[IF data[f] = NoData THEN ZeroData ELSE data[f]]
           ELSE data'[f] = data[f]
    BY <2>1, <2>2, UpdateDataEffect
  <2>4. ZeroData \in FlowData /\ ZeroData.pid = 0
    BY DEF ZeroData, FlowData
  <2>5. data[f] # NoData => data[f] \in FlowData
    BY DEF RBInv, RBTypeOK
  <2>6. \/ data'[f] = NoData \/ data'[f].pid = 0
        \/ data[f] # NoData /\ data'[f].pid = data[f].pid
    BY <2>2, <2>3, <2>4, <2>5
  <2>7. \A g \in FlowIDs : Stored(g)' = Stored(g) /\ Meta(g)' = Meta(g)
    BY <2>3 DEF Stored, Meta
  <2> QED
    BY <2>1, <2>3, <2>6, <2>7 DEF Aside, resLocal
<1>7. ASSUME UNCHANGED resLocal,
             NEW fn \in [FlowMeta -> FlowMeta], \A m \in FlowMeta : fn[m].id = m.id,
             \A m \in FlowMeta : fn[m].process = m.process /\ fn[m].pid = m.pid,
             Update(f, fn)
      PROVE  \A g \in FlowIDs : Aside(g)
  <2>1. /\ index' = index /\ data' = data /\ used' = used
        /\ \A g \in FlowIDs : Stored(g) =>
             /\ Meta(g) \in FlowMeta
             /\ Meta(g)' = IF g = f THEN fn[Meta(f)] ELSE Meta(g)
    BY <1>7, UpdateEffect
  <2>2. \A g \in FlowIDs : Stored(g)' = Stored(g)
    BY <2>1 DEF Stored
  <2>3. ASSUME NEW g \in FlowIDs PROVE Aside(g)
    BY <1>7, <2>1, <2>2 DEF Aside, resLocal
  <2> QED
    BY <2>3
<1>8. CASE SyntheticComplete(f) \/ CompleteFlow(f)
  <2> DEFINE fn == SetOutcome("Completed", response[f])
  <2>1. response[f] \in StatusCodes \cup {0} /\ "Completed" \in FlowStates
    BY DEF CapTypeOK, FlowStates
  <2>2. fn \in [FlowMeta -> FlowMeta] /\ \A m \in FlowMeta : fn[m].id = m.id
    BY <2>1, WriterTypes
  <2>3. \A m \in FlowMeta : fn[m].process = m.process /\ fn[m].pid = m.pid
    BY DEF SetOutcome, FlowMeta
  <2>4. Update(f, fn) /\ UNCHANGED resLocal
    BY <1>8 DEF SyntheticComplete, CompleteFlow
  <2> QED
    BY <1>7, <2>2, <2>3, <2>4
<1>9. CASE Responseheaders(f)
  <2> DEFINE fn == SetStatus(response[f])
  <2>1. response[f] \in StatusCodes \cup {0}
    BY DEF CapTypeOK
  <2>2. fn \in [FlowMeta -> FlowMeta] /\ \A m \in FlowMeta : fn[m].id = m.id
    BY <2>1, WriterTypes
  <2>3. \A m \in FlowMeta : fn[m].process = m.process /\ fn[m].pid = m.pid
    BY DEF SetStatus, FlowMeta
  <2>4. Update(f, fn) /\ UNCHANGED resLocal
    BY <1>9 DEF Responseheaders
  <2> QED
    BY <1>7, <2>2, <2>3, <2>4
<1>10. CASE ResponseFails(f)
  <2> DEFINE fn == SetState("Failed")
  <2>1. fn \in [FlowMeta -> FlowMeta] /\ \A m \in FlowMeta : fn[m].id = m.id
    BY WriterTypes DEF FlowStates
  <2>2. \A m \in FlowMeta : fn[m].process = m.process /\ fn[m].pid = m.pid
    BY DEF SetState, FlowMeta
  <2>3. Update(f, fn) /\ UNCHANGED resLocal
    BY <1>10 DEF ResponseFails
  <2> QED
    BY <1>7, <2>1, <2>2, <2>3
<1>11. UNCHANGED resLocal
  BY DEF FlowStep, RequestheadersExcluded, ReadRequestBody, Request, ScriptsForward,
         ScriptsBlock, ScriptsRespond, SyntheticComplete, Upstream, Responseheaders,
         ReadResponseBody, ResponseFails, ResponseScripts, MergeResponse, CompleteFlow,
         Pause, Resume
<1> QED
  BY <1>2, <1>4, <1>5, <1>6, <1>8, <1>9, <1>10, <1>11 DEF FlowStep, Silent

\* A new flow's entry has no process, no PID and no resolution that has begun.
LEMMA RequestheadersFollows ==
  ASSUME LookupInv, NEW f \in FlowIDs, Requestheaders(f)
  PROVE  (\A g \in FlowIDs : LookupFollows(g)') /\ Tokens'
<1> USE CapInvByFlow DEF TypesOK, LookupInv
<1>1. /\ used' = used \cup {f}
      /\ Stored(f)' /\ Meta(f)' = NewMeta(f) /\ data'[f] = NoData
      /\ \A g \in FlowIDs : g # f /\ Stored(g)' =>
           Stored(g) /\ Meta(g)' = Meta(g) /\ data'[g] = data[g]
  BY AddEffect DEF Requestheaders
<1>2. f \notin used /\ rpc[f] = "none"
  BY DEF Requestheaders, DoAdd, LookupFollows
<1>3. /\ pidOf' = pidOf /\ nameOf' = nameOf /\ sem' = sem
      /\ rpc'[f] \in {"none", "calling"}
      /\ \A g \in FlowIDs : g # f => rpc'[g] = rpc[g]
  BY <1>2 DEF Requestheaders, Goto, ResTypeOK
<1>4. LookupFollows(f)'
  <2>1. NewMeta(f).pid = 0
    BY DEF NewMeta, ZeroMeta
  <2> QED
    BY <1>1, <1>2, <1>3, <2>1 DEF LookupFollows
<1>5. ASSUME NEW g \in FlowIDs, g # f PROVE LookupFollows(g)'
  <2>1. Aside(g)
    BY <1>1, <1>3, <1>5 DEF Aside
  <2> QED
    BY <2>1, AsideFollows
<1>6. Tokens'
  BY <1>2, <1>3 DEF Tokens, RunPCs
<1> QED
  BY <1>4, <1>5, <1>6

\* A step of f's resolution: the others' resolutions and entries stay.
LEMMA GoroutineFollows ==
  ASSUME LookupInv, NEW f \in FlowIDs, Goroutine(f)
  PROVE  \A g \in FlowIDs : LookupFollows(g)'
<1> USE CapInvByFlow, NumbersAssumption, ResolverAssumption DEF TypesOK, LookupInv
<1>1. /\ \A g \in FlowIDs : g # f => rpc'[g] = rpc[g] /\ pidOf'[g] = pidOf[g]
                                       /\ nameOf'[g] = nameOf[g]
      /\ rpc[f] # "none" /\ f \in used
  BY DEF Goroutine, FindFails, FindPID, CacheHit, CacheMiss, LookupName, LookupFails,
         RecordFailure, ResetFailures, WriteMeta, WriteData, Release, Goto, ResTypeOK,
         LookupFollows
<1>2. ASSUME UNCHANGED rbVars PROVE /\ \A g \in FlowIDs : g # f => LookupFollows(g)'
                                    /\ Stored(f)' = Stored(f) /\ Meta(f)' = Meta(f)
                                    /\ data' = data /\ used' = used
  <2>1. \A g \in FlowIDs : g # f => Aside(g)
    BY <1>1, <1>2 DEF rbVars, Aside, Stored, Meta
  <2> QED
    BY <1>2, <2>1, AsideFollows DEF rbVars, Stored, Meta
<1>3. CASE FindPID(f)
  BY <1>1, <1>2, <1>3 DEF FindPID, Goto, LookupFollows, ResTypeOK
<1>4. CASE CacheHit(f) \/ CacheMiss(f) \/ LookupFails(f)
  BY <1>1, <1>2, <1>4 DEF CacheHit, CacheMiss, LookupFails, Goto, LookupFollows, ResTypeOK,
                          Fallback, NoName
<1>5. CASE LookupName(f)
  <2>1. pidOf[f] \in PIDs
    BY <1>5 DEF LookupName, Goto, ResolvedPID
  <2>2. owner[pidOf[f]] # NoName
    BY <2>1 DEF ResTypeOK
  <2> QED
    BY <1>1, <1>2, <1>5, <2>2 DEF LookupName, Goto, LookupFollows, ResTypeOK
<1>6. CASE RecordFailure(f) \/ ResetFailures(f) \/ Release(f)
  BY <1>1, <1>2, <1>6 DEF RecordFailure, ResetFailures, Release, Goto, LookupFollows, ResTypeOK
<1>7. CASE FindFails(f)
  <2> DEFINE fn == [m \in FlowMeta |-> [m EXCEPT !.process = Fallback]]
  <2>1. fn \in [FlowMeta -> FlowMeta] /\ \A m \in FlowMeta : fn[m].id = m.id
    BY DEF FlowMeta, ProcessNames
  <2>2. \A m \in FlowMeta : fn[m].process = Fallback /\ fn[m].pid = m.pid
    BY DEF FlowMeta
  <2>3. Update(f, fn)
    BY <1>7 DEF FindFails
  <2> HIDE DEF fn
  <2>4. /\ index' = index /\ data' = data /\ used' = used
        /\ \A g \in FlowIDs : Stored(g) =>
             /\ Meta(g) \in FlowMeta
             /\ Meta(g)' = IF g = f THEN fn[Meta(f)] ELSE Meta(g)
    BY <2>1, <2>3, UpdateEffect
  <2>5. \A g \in FlowIDs : Stored(g)' = Stored(g)
    BY <2>4 DEF Stored
  <2>6. \A g \in FlowIDs : g # f => Aside(g)
    BY <1>1, <2>4, <2>5 DEF Aside
  <2>7. LookupFollows(f)'
    BY <1>1, <1>7, <2>2, <2>4, <2>5 DEF FindFails, Goto, LookupFollows, ResTypeOK
  <2> QED
    BY <2>6, <2>7, AsideFollows
<1>8. CASE WriteMeta(f)
  <2> DEFINE fn == SetProcess(nameOf[f], pidOf[f])
  <2>1. /\ nameOf[f] \in ProcessNames /\ pidOf[f] \in PIDs /\ nameOf[f] # NoName
        /\ Update(f, fn)
    BY <1>8 DEF WriteMeta, Goto, ResTypeOK, ResolvedPID, LookupFollows
  <2>2. fn \in [FlowMeta -> FlowMeta] /\ \A m \in FlowMeta : fn[m].id = m.id
    BY <2>1, WriterTypes
  <2>3. \A m \in FlowMeta : fn[m].process = nameOf[f] /\ fn[m].pid = pidOf[f]
    BY DEF SetProcess, FlowMeta
  <2> HIDE DEF fn
  <2>4. /\ index' = index /\ data' = data /\ used' = used
        /\ \A g \in FlowIDs : Stored(g) =>
             /\ Meta(g) \in FlowMeta
             /\ Meta(g)' = IF g = f THEN fn[Meta(f)] ELSE Meta(g)
    BY <2>1, <2>2, UpdateEffect
  <2>5. \A g \in FlowIDs : Stored(g)' = Stored(g)
    BY <2>4 DEF Stored
  <2>6. \A g \in FlowIDs : g # f => Aside(g)
    BY <1>1, <2>4, <2>5 DEF Aside
  <2>7. LookupFollows(f)'
    BY <1>1, <1>8, <2>1, <2>3, <2>4, <2>5 DEF WriteMeta, Goto, LookupFollows, ResTypeOK
  <2> QED
    BY <2>6, <2>7, AsideFollows
<1>9. CASE WriteData(f)
  <2> DEFINE fn == SetPID(pidOf[f])
  <2>1. pidOf[f] \in PIDs /\ UpdateData(f, fn)
    BY <1>9 DEF WriteData, Goto, ResTypeOK, ResolvedPID
  <2>2. fn \in [FlowData -> FlowData] /\ \A d \in FlowData : fn[d].pid = pidOf[f]
    BY <2>1, WriterTypes DEF SetPID, FlowData
  <2> HIDE DEF fn
  <2>3. /\ index' = index /\ metas' = metas /\ used' = used
        /\ \A g \in FlowIDs : g # f => data'[g] = data[g]
        /\ IF Stored(f)
           THEN data'[f] = fn[IF data[f] = NoData THEN ZeroData ELSE data[f]]
           ELSE data'[f] = data[f]
    BY <2>1, <2>2, UpdateDataEffect
  <2>4. Stored(f) => data'[f].pid = pidOf[f]
    <3>1. ZeroData \in FlowData /\ (data[f] # NoData => data[f] \in FlowData)
      BY DEF ZeroData, FlowData, RBInv, RBTypeOK
    <3> QED
      BY <2>2, <2>3, <3>1
  <2>5. \A g \in FlowIDs : Stored(g)' = Stored(g) /\ Meta(g)' = Meta(g)
    BY <2>3 DEF Stored, Meta
  <2>6. \A g \in FlowIDs : g # f => Aside(g)
    BY <1>1, <2>3, <2>5 DEF Aside
  <2>7. LookupFollows(f)'
    BY <1>1, <1>9, <2>1, <2>3, <2>4, <2>5 DEF WriteData, Goto, LookupFollows, ResTypeOK
  <2> QED
    BY <2>6, <2>7, AsideFollows
<1> QED
  BY <1>3, <1>4, <1>5, <1>6, <1>7, <1>8, <1>9 DEF Goroutine

\* Goroutines that run keep their token, and the one that ends gives it back.
LEMMA GoroutineTokens ==
  ASSUME LookupInv, NEW f \in FlowIDs, Goroutine(f)
  PROVE  Tokens'
<1> USE ResolverAssumption DEF LookupInv, CapInv
<1>1. rpc \in [FlowIDs -> {"none", "calling", "done"} \cup RunPCs] /\ sem \subseteq FlowIDs
      /\ IsFiniteSet(sem)
  BY DEF ResTypeOK, Tokens
<1>2. CASE Release(f)
  <2>1. sem' = sem \ {f} /\ rpc[f] = "release" /\ rpc' = [rpc EXCEPT ![f] = "done"]
    BY <1>2 DEF Release, Goto
  <2>2. IsFiniteSet(sem') /\ Cardinality(sem') <= Cardinality(sem)
    BY <1>1, <2>1, FS_Subset
  <2>3. sem' = {g \in FlowIDs : rpc'[g] \in RunPCs}
    BY <1>1, <2>1 DEF Tokens, RunPCs
  <2> QED
    <3>1. Cardinality(sem) \in Nat /\ Cardinality(sem') \in Nat
      BY <1>1, <2>2, FS_CardinalityType
    <3> QED
      BY <2>2, <2>3, <3>1 DEF Tokens
<1>3. CASE ~Release(f)
  <2>1. sem' = sem
    BY <1>3 DEF Goroutine, FindFails, FindPID, CacheHit, CacheMiss, LookupName, LookupFails,
         RecordFailure, ResetFailures, WriteMeta, WriteData
  <2>2. rpc[f] \in RunPCs /\ \E to \in RunPCs : rpc' = [rpc EXCEPT ![f] = to]
    BY <1>3 DEF Goroutine, FindFails, FindPID, CacheHit, CacheMiss, LookupName, LookupFails,
         RecordFailure, ResetFailures, WriteMeta, WriteData, Goto, RunPCs
  <2>3. {g \in FlowIDs : rpc'[g] \in RunPCs} = {g \in FlowIDs : rpc[g] \in RunPCs}
    BY <1>1, <2>2
  <2> QED
    BY <2>1, <2>3 DEF Tokens
<1> QED
  BY <1>2, <1>3

\* Resolve takes a token when one is free.
LEMMA ResolveFollows ==
  ASSUME LookupInv, NEW f \in FlowIDs, Resolve(f)
  PROVE  (\A g \in FlowIDs : LookupFollows(g)') /\ Tokens'
<1> USE ResolverAssumption DEF LookupInv, CapInv
<1>1. UNCHANGED rbVars /\ pidOf' = pidOf /\ nameOf' = nameOf
      /\ rpc[f] = "calling" /\ rpc' = [rpc EXCEPT ![f] = "find"]
      /\ sem' = sem \cup {f} /\ Cardinality(sem) < MaxConcurrent
  BY DEF Resolve, Acquire, Goto
<1>2. rpc \in [FlowIDs -> {"none", "calling", "done"} \cup RunPCs] /\ sem \subseteq FlowIDs
      /\ IsFiniteSet(sem)
  BY DEF ResTypeOK, Tokens
<1>3. \A g \in FlowIDs : Stored(g)' = Stored(g) /\ Meta(g)' = Meta(g)
  BY <1>1 DEF rbVars, Stored, Meta
<1>4. ASSUME NEW g \in FlowIDs, g # f PROVE LookupFollows(g)'
  <2>1. Aside(g)
    BY <1>1, <1>2, <1>3, <1>4 DEF Aside, rbVars
  <2> QED
    BY <2>1, AsideFollows
<1>5. LookupFollows(f)'
  BY <1>1, <1>2, <1>3 DEF LookupFollows, rbVars
<1>6. f \notin sem
  BY <1>1 DEF Tokens, RunPCs
<1>7. IsFiniteSet(sem') /\ Cardinality(sem') = Cardinality(sem) + 1
  BY <1>1, <1>2, <1>6, FS_AddElement
<1>8. sem' = {g \in FlowIDs : rpc'[g] \in RunPCs}
  BY <1>1, <1>2 DEF Tokens, RunPCs
<1>9. Cardinality(sem') <= MaxConcurrent
  BY <1>1, <1>2, <1>7, FS_CardinalityType
<1> QED
  BY <1>4, <1>5, <1>7, <1>8, <1>9 DEF Tokens

\* Every step keeps the invariant of the lookups.
LEMMA LookupNextInv == LookupInv /\ [CapNext]_capVars => LookupInv'
<1> SUFFICES ASSUME LookupInv, [CapNext]_capVars PROVE LookupInv'
  OBVIOUS
<1>1. CapInv'
  BY CapNextInv DEF LookupInv
<1>2. ASSUME UNCHANGED <<rpc, pidOf, nameOf, sem>>, \A g \in FlowIDs : Aside(g)
      PROVE  LookupInv'
  BY <1>1, <1>2, AsideFollows DEF LookupInv, Tokens
<1>3. ASSUME UNCHANGED <<rpc, pidOf, nameOf, sem>>, UNCHANGED rbVars PROVE LookupInv'
  <2>1. \A g \in FlowIDs : Aside(g)
    BY <1>3 DEF rbVars, Aside, Stored, Meta
  <2> QED
    BY <1>2, <1>3, <2>1
<1>4. CASE UNCHANGED capVars
  BY <1>3, <1>4 DEF capVars, resLocal
<1>5. ASSUME NEW f \in FlowIDs, FlowStep(f) \/ Pause(f) \/ Resume(f) PROVE LookupInv'
  <2>1. CASE Requestheaders(f)
    BY <1>1, <2>1, RequestheadersFollows DEF LookupInv
  <2>2. CASE Resolve(f)
    BY <1>1, <2>2, ResolveFollows DEF LookupInv
  <2>3. CASE ~Requestheaders(f) /\ ~Resolve(f)
    <3>1. UNCHANGED resLocal /\ \A g \in FlowIDs : Aside(g)
      BY <1>5, <2>3, PipelineAside DEF LookupInv
    <3> QED
      BY <1>2, <3>1 DEF resLocal
  <2> QED
    BY <2>1, <2>2, <2>3
<1>6. ASSUME NEW f \in FlowIDs, Goroutine(f) PROVE LookupInv'
  BY <1>1, <1>6, GoroutineFollows, GoroutineTokens DEF LookupInv
<1>7. ASSUME NEW p \in PIDs, PIDReused(p) PROVE LookupInv'
  BY <1>3, <1>7 DEF PIDReused
<1> QED
  BY <1>4, <1>5, <1>6, <1>7 DEF CapNext

\* The pipeline starts without resolutions.
LEMMA LookupInitInv == CapInit => LookupInv
<1> SUFFICES ASSUME CapInit PROVE LookupInv
  OBVIOUS
<1>1. CapInv
  BY CapInitInv
<1>2. \A f \in FlowIDs : LookupFollows(f)
  BY DEF CapInit, RBInit, ResInit, LookupFollows, Stored
<1>3. sem = {} /\ sem = {f \in FlowIDs : rpc[f] \in RunPCs}
  BY DEF CapInit, ResInit, RunPCs
<1>4. IsFiniteSet(sem) /\ Cardinality(sem) <= MaxConcurrent
  BY <1>3, FS_EmptySet, ResolverAssumption
<1> QED
  BY <1>1, <1>2, <1>3, <1>4 DEF LookupInv, Tokens

\* The invariant of the lookups holds throughout.
THEOREM LookupInvariant == CapSpec => []LookupInv
  BY LookupInitInv, LookupNextInv, PTL DEF CapSpec

\* Whatever fails in a lookup, is evicted, or is replaced by Request between the resolver's
\* two writes: a finished resolution has left its name and its PID, or the fallback, in the
\* flow's summary, and the detail view shows that PID or none.
THEOREM SummariesShowLookups == CapSpec => []SummaryShowsLookup
<1>1. LookupInv => SummaryShowsLookup
  BY ResolverAssumption
     DEF LookupInv, LookupFollows, SummaryShowsLookup, DoneIsShown, DataPIDHasMeta
<1> QED
  BY <1>1, LookupInvariant, PTL

\* The semaphore bounds the goroutines that scan the machine's connections, for every
\* number of flows and every capacity of the channel.
THEOREM LookupsAreBounded == CapSpec => []BoundedLookups
<1>1. LookupInv => BoundedLookups
  BY DEF LookupInv, Tokens, BoundedLookups
<1> QED
  BY <1>1, LookupInvariant, PTL

-----------------------------------------------------------------------------
(* The store under the pipeline. *)

\* What a step does to the store: nothing, or one of its operations.
LEMMA StoreSteps ==
  ASSUME CapInv, CapNext
  PROVE  \/ UNCHANGED rbVars
         \/ \E id \in FlowIDs :
              \/ DoAdd(id)
              \/ \E fn \in [FlowMeta -> FlowMeta] :
                   (\A m \in FlowMeta : fn[m].id = m.id) /\ Update(id, fn)
              \/ \E d \in FlowData :
                   /\ UNCHANGED <<metas, index, head, count, used>>
                   /\ data' = IF Stored(id) THEN [data EXCEPT ![id] = d] ELSE data
<1> DEFINE Updates(id) == \E fn \in [FlowMeta -> FlowMeta] :
                            (\A m \in FlowMeta : fn[m].id = m.id) /\ Update(id, fn)
           Writes(id) == \E d \in FlowData :
                            /\ UNCHANGED <<metas, index, head, count, used>>
                            /\ data' = IF Stored(id) THEN [data EXCEPT ![id] = d] ELSE data
<1>1. /\ RBInv /\ ResTypeOK /\ ResolvedPID /\ CapTypeOK
      /\ \A f \in FlowIDs : response[f] \in StatusCodes \cup {0}
  BY DEF CapInv, CapTypeOK
<1>2. ASSUME NEW id \in FlowIDs, NEW fn \in [FlowData -> FlowData], UpdateData(id, fn)
      PROVE  Writes(id)
  <2> DEFINE d == fn[IF data[id] = NoData THEN ZeroData ELSE data[id]]
  <2>1. d \in FlowData
    BY <1>1 DEF RBInv, RBTypeOK, ZeroData, FlowData
  <2>2. /\ UNCHANGED <<metas, index, head, count, used>>
        /\ data' = IF Stored(id) THEN [data EXCEPT ![id] = d] ELSE data
    BY <1>2 DEF UpdateData
  <2> HIDE DEF d
  <2> QED
    BY <2>1, <2>2
<1>3. ASSUME NEW id \in FlowIDs, NEW d \in FlowData, SetData(id, d) PROVE Writes(id)
  BY <1>3 DEF SetData
<1>4. ASSUME NEW f \in FlowIDs, FlowStep(f) \/ Pause(f) \/ Resume(f)
      PROVE  UNCHANGED rbVars \/ DoAdd(f) \/ Updates(f) \/ Writes(f)
  <2>1. CASE Silent(f) \/ Resolve(f)
    BY <2>1 DEF Silent, RequestheadersExcluded, ReadRequestBody, Pause, Resume,
         ScriptsForward, ScriptsBlock, Upstream, ReadResponseBody, ResponseScripts,
         Resolve, Acquire
  <2>2. CASE Requestheaders(f)
    BY <2>2 DEF Requestheaders
  <2>3. CASE Request(f)
    <3>1. RequestData \in FlowData
      BY DEF RequestData, ZeroData, FlowData
    <3> QED
      BY <1>3, <2>3, <3>1 DEF Request
  <2>4. CASE ScriptsRespond(f)
    <3>1. \A c \in StatusCodes : [RequestData EXCEPT !.resp = c] \in FlowData
      BY DEF RequestData, ZeroData, FlowData
    <3> QED
      BY <1>3, <2>4, <3>1 DEF ScriptsRespond
  <2>5. CASE MergeResponse(f)
    BY <1>1, <1>2, <2>5, WriterTypes DEF MergeResponse
  <2>6. CASE SyntheticComplete(f) \/ Responseheaders(f) \/ ResponseFails(f) \/ CompleteFlow(f)
    <3>1. {"Completed", "Failed"} \subseteq FlowStates
      BY DEF FlowStates
    <3> QED
      BY <1>1, <2>6, <3>1, WriterTypes
         DEF SyntheticComplete, Responseheaders, ResponseFails, CompleteFlow
  <2> QED
    BY <1>4, <2>1, <2>2, <2>3, <2>4, <2>5, <2>6 DEF FlowStep, Silent
<1>5. ASSUME NEW f \in FlowIDs, Goroutine(f)
      PROVE  UNCHANGED rbVars \/ Updates(f) \/ Writes(f)
  <2>1. CASE FindFails(f)
    <3> DEFINE fn == [m \in FlowMeta |-> [m EXCEPT !.process = Fallback]]
    <3>1. fn \in [FlowMeta -> FlowMeta] /\ \A m \in FlowMeta : fn[m].id = m.id
      BY DEF FlowMeta, ProcessNames
    <3>2. Update(f, fn)
      BY <2>1 DEF FindFails
    <3> QED
      BY <3>1, <3>2
  <2>2. CASE WriteMeta(f)
    <3>1. nameOf[f] \in ProcessNames /\ pidOf[f] \in PIDs
          /\ Update(f, SetProcess(nameOf[f], pidOf[f]))
      BY <1>1, <2>2 DEF WriteMeta, Goto, ResTypeOK, ResolvedPID
    <3> QED
      BY <3>1, WriterTypes
  <2>3. CASE WriteData(f)
    <3>1. pidOf[f] \in PIDs /\ UpdateData(f, SetPID(pidOf[f]))
      BY <1>1, <2>3 DEF WriteData, Goto, ResTypeOK, ResolvedPID
    <3> QED
      BY <1>2, <3>1, WriterTypes
  <2>4. CASE ~FindFails(f) /\ ~WriteMeta(f) /\ ~WriteData(f)
    BY <1>5, <2>4 DEF Goroutine, FindPID, CacheHit, CacheMiss, LookupName, LookupFails,
                      RecordFailure, ResetFailures, Release
  <2> QED
    BY <2>1, <2>2, <2>3, <2>4
<1>6. ASSUME NEW p \in PIDs, PIDReused(p) PROVE UNCHANGED rbVars
  BY <1>6 DEF PIDReused
<1> QED
  BY <1>4, <1>5, <1>6 DEF CapNext

\* So it is a step of the log, or the log stays as it is.
LEMMA CaptureImplementsLog == CapInv /\ [CapNext]_capVars => [Log!LogNext]_(Log!logVars)
<1> SUFFICES ASSUME CapInv, [CapNext]_capVars
             PROVE  Log!LogNext \/ UNCHANGED <<Contents, data>>
  BY DEF Log!logVars
<1>1. RBInv
  BY DEF CapInv
<1>2. CASE UNCHANGED rbVars
  BY <1>2 DEF rbVars, Contents, SlotAt
<1>3. ASSUME NEW id \in FlowIDs, DoAdd(id) PROVE Log!LogNext
  <2>1. NewMeta(id) \in FlowMeta /\ NewMeta(id).id = id
    BY DEF NewMeta, ZeroMeta, FlowMeta, FlowStates, ProcessNames
  <2>2. Log!AppendFlow(NewMeta(id))
    BY <1>1, <1>3, <2>1, AddAppends DEF DoAdd
  <2> QED
    BY <2>1, <2>2 DEF Log!LogNext
<1>4. ASSUME NEW id \in FlowIDs, NEW fn \in [FlowMeta -> FlowMeta],
             \A m \in FlowMeta : fn[m].id = m.id, Update(id, fn)
      PROVE  Log!LogNext \/ UNCHANGED <<Contents, data>>
  BY <1>1, <1>4, UpdateAmends DEF Log!LogNext
<1>5. ASSUME NEW id \in FlowIDs, NEW d \in FlowData,
             UNCHANGED <<metas, index, head, count, used>>,
             data' = IF Stored(id) THEN [data EXCEPT ![id] = d] ELSE data
      PROVE  Log!LogNext \/ UNCHANGED <<Contents, data>>
  BY <1>1, <1>5, DataWrites DEF Log!LogNext
<1>6. UNCHANGED capVars => UNCHANGED rbVars
  BY DEF capVars
<1> QED
  BY <1>2, <1>3, <1>4, <1>5, <1>6, StoreSteps

\* With callbacks, resolvers and scripts of many flows writing to it between each other's
\* steps, the store is still a log from which only the oldest flow ever falls out.
THEOREM PipelineKeepsTheLog == CapSpec => ImplementsLog
<1>1. CapInit => Log!LogInit
  BY InitImplementsLog DEF CapInit
<1> QED
  BY <1>1, CaptureImplementsLog, CaptureInvariant, PTL DEF CapSpec, ImplementsLog, Log!LogSpec

\* No late callback or resolver brings an evicted flow, or a part of it, back.
THEOREM PipelineResurrectsNothing == CapSpec => NoResurrection
<1> DEFINE Gone(f) == ~Stored(f) => ~Stored(f)' /\ data'[f] = NoData
<1>1. ASSUME CapInv, [CapNext]_capVars PROVE UNCHANGED rbVars \/ \A f \in used : Gone(f)
  <2>1. RBInv /\ \A f \in used : f \in FlowIDs /\ (~Stored(f) => data[f] = NoData)
    BY <1>1 DEF CapInv, RBInv, RBTypeOK, NoOrphanData
  <2>2. UNCHANGED capVars => UNCHANGED rbVars
    BY DEF capVars
  <2>3. ASSUME NEW id \in FlowIDs, DoAdd(id) PROVE \A f \in used : Gone(f)
    BY <2>1, <2>3 DEF DoAdd, Add, NewMeta, ZeroMeta, Stored, RBInv, RBTypeOK
  <2>4. ASSUME index' = index, data' = data PROVE \A f \in used : Gone(f)
    BY <2>1, <2>4 DEF Stored
  <2>5. ASSUME NEW id \in FlowIDs, NEW d \in FlowData, index' = index,
               data' = IF Stored(id) THEN [data EXCEPT ![id] = d] ELSE data
        PROVE  \A f \in used : Gone(f)
    BY <2>1, <2>5 DEF Stored, RBInv, RBTypeOK
  <2> QED
    BY <1>1, <2>2, <2>3, <2>4, <2>5, StoreSteps DEF Update
<1>2. CapInv /\ [CapNext]_capVars => [\A f \in used : Gone(f)]_rbVars
  BY <1>1
<1> QED
  BY <1>2, CaptureInvariant, PTL DEF CapSpec, NoResurrection
=============================================================================
