------------------------------- MODULE Resolver -------------------------------
(***************************************************************************)
(* The process resolver (internal/procinfo): for each captured flow, a     *)
(* goroutine finds which process owns the client's connection and writes   *)
(* its name and PID into the store.  A semaphore bounds the goroutines;    *)
(* Resolve acquires it in the caller, so a full semaphore blocks the       *)
(* proxy's own callback.                                                   *)
(*                                                                         *)
(* rpc[f] is the program counter of flow f's resolution:                   *)
(*   none -> calling -> find -> name -> [lookup] -> named | unnamed        *)
(*        -> meta -> data -> release -> done                               *)
(* and find -> nopid -> release when no connection has the port.           *)
(***************************************************************************)
EXTENDS RingBuffer

CONSTANTS
  MaxConcurrent,   \* capacity of the semaphore channel (maxConcurrent)
  FailThreshold    \* consecutive failures before the warning (failThreshold)

ASSUME ResolverAssumption == /\ MaxConcurrent \in Nat \ {0}
                             /\ FailThreshold \in Nat \ {0}
                             /\ Names \cap {NoName, Fallback} = {}
                             /\ Names # {}

VARIABLES
  rpc,         \* flow ID -> program counter of its resolution
  pidOf,       \* flow ID -> the local pid
  nameOf,      \* flow ID -> the local name
  sem,         \* flows whose token is in the semaphore channel
  pidCache,    \* PID -> cached name, NoName when absent
  failCount,   \* consecutive failures
  warned,      \* warnOnce has fired
  owner        \* PID -> name of the process that has it now (the operating system)

resLocal == <<rpc, pidOf, nameOf, sem, pidCache, failCount, warned, owner>>

ResInit ==
  /\ rpc = [f \in FlowIDs |-> "none"]
  /\ pidOf = [f \in FlowIDs |-> 0]
  /\ nameOf = [f \in FlowIDs |-> NoName]
  /\ sem = {}
  /\ pidCache = [p \in PIDs |-> NoName]
  /\ failCount = 0
  /\ warned = FALSE
  /\ owner \in [PIDs -> Names]

Goto(f, from, to) == rpc[f] = from /\ rpc' = [rpc EXCEPT ![f] = to]

\* Resolve: the caller waits for a free place in the channel, then starts the
\* goroutine.
Acquire(f) ==
  /\ Cardinality(sem) < MaxConcurrent
  /\ Goto(f, "calling", "find")
  /\ sem' = sem \cup {f}
  /\ UNCHANGED <<rbVars, pidOf, nameOf, pidCache, failCount, warned, owner>>

\* findPID fails: the fallback name is stored, the PID is left alone.
FindFails(f) ==
  /\ Goto(f, "find", "nopid")
  /\ Update(f, [m \in FlowMeta |-> [m EXCEPT !.process = Fallback]])
  /\ UNCHANGED <<pidOf, nameOf, sem, pidCache, failCount, warned, owner>>

FindPID(f) ==
  /\ Goto(f, "find", "name")
  /\ \E p \in PIDs : pidOf' = [pidOf EXCEPT ![f] = p]
  /\ UNCHANGED <<rbVars, nameOf, sem, pidCache, failCount, warned, owner>>

\* cachedProcessName: pidCache.Load hits.
CacheHit(f) ==
  /\ Goto(f, "name", "named")
  /\ pidCache[pidOf[f]] # NoName
  /\ nameOf' = [nameOf EXCEPT ![f] = pidCache[pidOf[f]]]
  /\ UNCHANGED <<rbVars, pidOf, sem, pidCache, failCount, warned, owner>>

CacheMiss(f) ==
  /\ Goto(f, "name", "lookup")
  /\ pidCache[pidOf[f]] = NoName
  /\ UNCHANGED <<rbVars, pidOf, nameOf, sem, pidCache, failCount, warned, owner>>

\* processName succeeds: the name is cached and used.
LookupName(f) ==
  /\ Goto(f, "lookup", "named")
  /\ nameOf' = [nameOf EXCEPT ![f] = owner[pidOf[f]]]
  /\ pidCache' = [pidCache EXCEPT ![pidOf[f]] = owner[pidOf[f]]]
  /\ UNCHANGED <<rbVars, pidOf, sem, failCount, warned, owner>>

LookupFails(f) ==
  /\ Goto(f, "lookup", "unnamed")
  /\ nameOf' = [nameOf EXCEPT ![f] = Fallback]
  /\ UNCHANGED <<rbVars, pidOf, sem, pidCache, failCount, warned, owner>>

\* recordFailure, after a lookup error or after a failed findPID.
RecordFailure(f) ==
  /\ Goto(f, "unnamed", "meta") \/ Goto(f, "nopid", "release")
  /\ failCount' = failCount + 1
  /\ warned' = (warned \/ failCount' >= FailThreshold)
  /\ UNCHANGED <<rbVars, pidOf, nameOf, sem, pidCache, owner>>

\* failCount.Store(0)
ResetFailures(f) ==
  /\ Goto(f, "named", "meta")
  /\ failCount' = 0
  /\ UNCHANGED <<rbVars, pidOf, nameOf, sem, pidCache, warned, owner>>

\* The meta is overwritten instead of amended.
WriteMetaWhole(f) ==
  /\ Goto(f, "meta", "data")
  /\ Update(f, [m \in FlowMeta |-> [NewMeta(m.id) EXCEPT !.process = nameOf[f],
                                                        !.pid = pidOf[f]]])
  /\ UNCHANGED <<pidOf, nameOf, sem, pidCache, failCount, warned, owner>>

\* The two writes of resolve in the other order.
WriteDataFirst(f) ==
  /\ Goto(f, "meta", "data")
  /\ UpdateData(f, SetPID(pidOf[f]))
  /\ UNCHANGED <<pidOf, nameOf, sem, pidCache, failCount, warned, owner>>

\* The meta is updated first, the data after it: two critical sections.
WriteMeta(f) ==
  /\ Goto(f, "meta", "data")
  /\ Update(f, SetProcess(nameOf[f], pidOf[f]))
  /\ UNCHANGED <<pidOf, nameOf, sem, pidCache, failCount, warned, owner>>

WriteData(f) ==
  /\ Goto(f, "data", "release")
  /\ UpdateData(f, SetPID(pidOf[f]))
  /\ UNCHANGED <<pidOf, nameOf, sem, pidCache, failCount, warned, owner>>

\* The deferred release does not run after a failed findPID.
ReleaseUnlessFailed(f) ==
  /\ Goto(f, "release", "done")
  /\ sem' = IF pidOf[f] = 0 THEN sem ELSE sem \ {f}
  /\ UNCHANGED <<rbVars, pidOf, nameOf, pidCache, failCount, warned, owner>>

\* The deferred receive gives the place back.
Release(f) ==
  /\ Goto(f, "release", "done")
  /\ sem' = sem \ {f}
  /\ UNCHANGED <<rbVars, pidOf, nameOf, pidCache, failCount, warned, owner>>

\* A process exits and the operating system gives its PID to another one.
PIDReused(p) ==
  /\ \E n \in Names : n # owner[p] /\ owner' = [owner EXCEPT ![p] = n]
  /\ UNCHANGED <<rbVars, rpc, pidOf, nameOf, sem, pidCache, failCount, warned>>

\* The goroutine of flow f.
Goroutine(f) ==
  \/ FindFails(f) \/ FindPID(f) \/ CacheHit(f) \/ CacheMiss(f)
  \/ LookupName(f) \/ LookupFails(f) \/ RecordFailure(f) \/ ResetFailures(f)
  \/ WriteMeta(f) \/ WriteData(f) \/ Release(f)

-----------------------------------------------------------------------------
(* Properties *)

RunPCs == {"find", "name", "lookup", "named", "unnamed", "nopid", "meta", "data",
           "release"}

\* The resolver's variables have the types of the code's.
ResTypeOK ==
  /\ rpc \in [FlowIDs -> {"none", "calling", "done"} \cup RunPCs]
  /\ pidOf \in [FlowIDs -> PIDs \cup {0}]
  /\ nameOf \in [FlowIDs -> ProcessNames]
  /\ sem \subseteq FlowIDs
  /\ pidCache \in [PIDs -> Names \cup {NoName}]
  /\ failCount \in Nat
  /\ warned \in BOOLEAN
  /\ owner \in [PIDs -> Names]

\* A resolution past findPID has its PID.
ResolvedPID ==
  \A f \in FlowIDs : rpc[f] \in {"name", "lookup", "named", "unnamed", "meta", "data"}
                        => pidOf[f] \in PIDs

\* The semaphore bounds the running lookups (each scans every connection of the
\* machine): never more than MaxConcurrent goroutines are between start and end.
BoundedLookups == Cardinality({f \in FlowIDs : rpc[f] \in RunPCs}) <= MaxConcurrent

\* A finished resolution has left its outcome on every flow still held: the PID it found
\* with the name it used for that PID, or the fallback and no PID.
DoneIsShown ==
  \A f \in FlowIDs : rpc[f] = "done" /\ Stored(f) =>
     /\ Meta(f).pid = pidOf[f]
     /\ Meta(f).process = IF pidOf[f] = 0 THEN Fallback ELSE nameOf[f]

\* The detail view never shows a PID that the list's summary does not have: the
\* data is written after the meta, whatever is evicted in between.
DataPIDHasMeta ==
  \A f \in FlowIDs : Stored(f) /\ data[f] # NoData =>
     data[f].pid \in {0, Meta(f).pid}

\* Whatever fails in a lookup, is evicted or is written between its two critical sections
\* and after them: the summary shows the name and the PID of this flow's own lookup, and
\* the detail view that PID or none.  (None although the summary has one is what the
\* interceptor's SetData leaves, interceptor.go:171 and 430: Capture's
\* ProcessInfoPreserved.)
SummaryShowsLookup == DoneIsShown /\ DataPIDHasMeta

\* "Excess requests queued, not dropped": every call to Resolve starts its
\* goroutine and every goroutine ends, whatever fails; no place is leaked.
EveryResolutionEnds == \A f \in FlowIDs : rpc[f] = "calling" ~> rpc[f] = "done"

-----------------------------------------------------------------------------
(* What the documentation says and the code does not do: TLC refutes each  *)
(* of these (README, "Divergences").                                       *)

\* The design's "cleared periodically (PIDs can be reused)": a cached name that
\* is no longer the name of the PID's process does not stay forever.
StaleNamesExpire ==
  \A p \in PIDs : pidCache[p] \notin {NoName, owner[p]}
                    ~> pidCache[p] \in {NoName, owner[p]}
=============================================================================
