------------------------------- MODULE Capture -------------------------------
(***************************************************************************)
(* The capture pipeline (internal/proxy/interceptor.go): go-mitmproxy      *)
(* calls the interceptor's addon methods for each flow on the flow's own   *)
(* goroutine; they write to the store, start process resolutions and run   *)
(* the scripts.  Between two store calls every other flow, the resolvers   *)
(* and evictions may interleave, so each store call is a step.             *)
(*                                                                         *)
(* pc[f] is where flow f's goroutine is:                                   *)
(*   new       no callback yet                                             *)
(*   resolve   in Requestheaders, after Add                                *)
(*   body      Requestheaders returned; the library reads the request body *)
(*   request   Request is called                                           *)
(*   scripts   in Request, running the request scripts                     *)
(*   synthetic in buildSyntheticResponse, between its two store calls      *)
(*   upstream  the library has forwarded the request                       *)
(*   headers   Responseheaders is called                                   *)
(*   respbody  the library reads the response body                         *)
(*   response  in Response, running the response scripts                   *)
(*   merge     in Response, before UpdateData                              *)
(*   complete  in Response, before the last Update                         *)
(* and how it ended: answered (Response or a script's response was         *)
(* recorded), failed (markFailed), blocked (a script's 403), broken (the   *)
(* library gave up: 502), streamed (a body over StreamLargeBodies passed   *)
(* through without a Request or Response callback), tunnelled (CONNECT).   *)
(***************************************************************************)
EXTENDS Resolver

CONSTANT Forbidden   \* the status of the reply to a blocked request (403)

ASSUME ForbiddenAssumption == Forbidden \in StatusCodes

VARIABLES
  pc,         \* flow ID -> program counter
  response,   \* flow ID -> status of f.Response, 0 when it is nil
  excluded,   \* flows whose host the host filter excludes
  large,      \* flows whose request body is streamed
  paused      \* flows whose script waits at a breakpoint

capLocal == <<pc, response, excluded, large, paused>>
capVars == <<rbVars, resLocal, capLocal>>

OpenPCs == {"resolve", "body", "request", "scripts", "synthetic", "upstream",
            "headers", "respbody", "response", "merge", "complete"}
EndPCs == {"answered", "failed", "blocked", "broken", "streamed", "tunnelled"}

CapInit ==
  /\ RBInit
  /\ ResInit
  /\ pc = [f \in FlowIDs |-> "new"]
  /\ response = [f \in FlowIDs |-> 0]
  /\ excluded = {}
  /\ large = {}
  /\ paused = {}

At(f, from) == pc[f] = from /\ f \notin paused
Step(f, from, to) == At(f, from) /\ pc' = [pc EXCEPT ![f] = to]

-----------------------------------------------------------------------------
(* The request *)

\* Requestheaders without the host filter's early return.
RequestheadersUnfiltered(f) ==
  /\ Step(f, "new", "resolve")
  /\ DoAdd(f)
  /\ excluded' = excluded \cup {f}
  /\ UNCHANGED <<resLocal, response, large, paused>>

\* Requestheaders of a flow the filter excludes: nothing is recorded.
RequestheadersExcluded(f) ==
  /\ Step(f, "new", "body")
  /\ excluded' = excluded \cup {f}
  /\ UNCHANGED <<rbVars, resLocal, response, large, paused>>

\* Requestheaders up to store.Add.  Without a client port, or without a
\* resolver, there is nothing to resolve.
Requestheaders(f) ==
  /\ DoAdd(f)
  /\ \/ Step(f, "new", "resolve") /\ Goto(f, "none", "calling")
     \/ Step(f, "new", "body") /\ UNCHANGED rpc
  /\ UNCHANGED <<pidOf, nameOf, sem, pidCache, failCount, warned, owner,
                 response, excluded, large, paused>>

\* resolver.Resolve returns to Requestheaders once its goroutine is started.
Resolve(f) ==
  /\ Step(f, "resolve", "body")
  /\ Acquire(f)
  /\ UNCHANGED <<response, excluded, large, paused>>

\* Between Requestheaders and Request: a CONNECT ends here, a large body is
\* streamed without a Request callback, reading the body may fail.
ReadRequestBody(f) ==
  /\ \/ \E to \in {"request", "tunnelled", "broken"} :
          Step(f, "body", to) /\ UNCHANGED large
     \/ Step(f, "body", "upstream") /\ large' = large \cup {f}
  /\ UNCHANGED <<rbVars, resLocal, response, excluded, paused>>

\* Request up to SetData, which replaces whatever FlowData there is.
RequestData == [ZeroData EXCEPT !.req = TRUE]
Request(f) ==
  /\ Step(f, "request", "scripts")
  /\ SetData(f, RequestData)
  /\ UNCHANGED <<resLocal, response, excluded, large, paused>>

\* A script's ctx.breakpoint(): the flow's goroutine waits in Controller.Pause
\* and comes back to the script.  It waits as long as the user likes.
Pause(f) ==
  /\ At(f, "scripts") \/ At(f, "response")
  /\ paused' = paused \cup {f}
  /\ UNCHANGED <<rbVars, resLocal, pc, response, excluded, large>>

Resume(f) ==
  /\ f \in paused
  /\ paused' = paused \ {f}
  /\ UNCHANGED <<rbVars, resLocal, pc, response, excluded, large>>

\* No script answers: the request goes upstream, changed or not.  Also the
\* outcome without an engine, and after a recovered panic.
ScriptsForward(f) ==
  /\ Step(f, "scripts", "upstream")
  /\ UNCHANGED <<rbVars, resLocal, response, excluded, large, paused>>

\* ctx.Blocked: the reply is set; the store is not told.
ScriptsBlock(f) ==
  /\ Step(f, "scripts", "blocked")
  /\ response' = [response EXCEPT ![f] = Forbidden]
  /\ UNCHANGED <<rbVars, resLocal, excluded, large, paused>>

\* buildSyntheticResponse completes the flow before it stores the response.
SyntheticUnordered(f) ==
  /\ Step(f, "scripts", "synthetic")
  /\ \E c \in StatusCodes :
       /\ response' = [response EXCEPT ![f] = c]
       /\ Update(f, SetOutcome("Completed", c))
  /\ UNCHANGED <<resLocal, excluded, large, paused>>

\* ctx.Responded: buildSyntheticResponse up to SetData.
ScriptsRespond(f) ==
  /\ Step(f, "scripts", "synthetic")
  /\ \E c \in StatusCodes :
       /\ response' = [response EXCEPT ![f] = c]
       /\ SetData(f, [RequestData EXCEPT !.resp = c])
  /\ UNCHANGED <<resLocal, excluded, large, paused>>

\* The rest of buildSyntheticResponse.
SyntheticComplete(f) ==
  /\ Step(f, "synthetic", "answered")
  /\ Update(f, SetOutcome("Completed", response[f]))
  /\ UNCHANGED <<resLocal, response, excluded, large, paused>>

-----------------------------------------------------------------------------
(* The response *)

\* The library forwards the request; on an error it replies 502 itself.
Upstream(f) ==
  /\ \/ Step(f, "upstream", "broken") /\ UNCHANGED response
     \/ /\ Step(f, "upstream", "headers")
        /\ \E c \in StatusCodes : response' = [response EXCEPT ![f] = c]
  /\ UNCHANGED <<rbVars, resLocal, excluded, large, paused>>

Responseheaders(f) ==
  /\ Step(f, "headers", "respbody")
  /\ Update(f, SetStatus(response[f]))
  /\ UNCHANGED <<resLocal, response, excluded, large, paused>>

\* A response is buffered only when the request was and it is small enough.
ReadResponseBody(f) ==
  /\ \/ \E to \in {"streamed", "broken"} : Step(f, "respbody", to)
     \/ f \notin large /\ Step(f, "respbody", "response")
  /\ UNCHANGED <<rbVars, resLocal, response, excluded, large, paused>>

\* f.Response is nil, or a panic is recovered: markFailed.
ResponseFails(f) ==
  /\ Step(f, "response", "failed")
  /\ Update(f, SetState("Failed"))
  /\ UNCHANGED <<resLocal, response, excluded, large, paused>>

\* applyResponseScripts: the scripts may replace the response.
ResponseScripts(f) ==
  /\ Step(f, "response", "merge")
  /\ \E c \in StatusCodes : response' = [response EXCEPT ![f] = c]
  /\ UNCHANGED <<rbVars, resLocal, excluded, large, paused>>

\* ... stored in place of the FlowData instead of merged ...
ReplaceResponse(f) ==
  /\ Step(f, "merge", "complete")
  /\ SetData(f, [ZeroData EXCEPT !.resp = response[f]])
  /\ UNCHANGED <<resLocal, response, excluded, large, paused>>

\* The response is merged into the FlowData...
MergeResponse(f) ==
  /\ Step(f, "merge", "complete")
  /\ UpdateData(f, SetResp(response[f]))
  /\ UNCHANGED <<resLocal, response, excluded, large, paused>>

\* The final Update keeps the state set when the flow was added.
CompleteFlowKeepsState(f) ==
  /\ Step(f, "complete", "answered")
  /\ Update(f, SetStatus(response[f]))
  /\ UNCHANGED <<resLocal, response, excluded, large, paused>>

\* ... and only then the flow is Completed.
CompleteFlow(f) ==
  /\ Step(f, "complete", "answered")
  /\ Update(f, SetOutcome("Completed", response[f]))
  /\ UNCHANGED <<resLocal, response, excluded, large, paused>>

-----------------------------------------------------------------------------

\* What the goroutine of flow f does without the user.
FlowStep(f) ==
  \/ RequestheadersExcluded(f) \/ Requestheaders(f) \/ Resolve(f)
  \/ ReadRequestBody(f) \/ Request(f)
  \/ ScriptsForward(f) \/ ScriptsBlock(f) \/ ScriptsRespond(f) \/ SyntheticComplete(f)
  \/ Upstream(f) \/ Responseheaders(f) \/ ReadResponseBody(f)
  \/ ResponseFails(f) \/ ResponseScripts(f) \/ MergeResponse(f) \/ CompleteFlow(f)

CapNext ==
  \/ \E f \in FlowIDs : FlowStep(f) \/ Pause(f) \/ Resume(f)
  \/ (\E f \in FlowIDs : Goroutine(f)) /\ UNCHANGED capLocal
  \/ (\E p \in PIDs : PIDReused(p)) /\ UNCHANGED capLocal

CapSpec == CapInit /\ [][CapNext]_capVars

\* Goroutines that can run do run.  A paused flow may stay paused forever.
CapFairness ==
  \A f \in FlowIDs :
     /\ WF_capVars(Goroutine(f) /\ UNCHANGED capLocal)
     /\ SF_capVars(Resolve(f))
     /\ WF_capVars(FlowStep(f) /\ pc[f] # "new")

CapLiveSpec == CapSpec /\ CapFairness

-----------------------------------------------------------------------------
(* Properties *)

\* Program counters and locals stay in range.
CapTypeOK ==
  /\ pc \in [FlowIDs -> {"new"} \cup OpenPCs \cup EndPCs]
  /\ response \in [FlowIDs -> StatusCodes \cup {0}]
  /\ excluded \subseteq FlowIDs
  /\ large \subseteq FlowIDs
  /\ paused \subseteq FlowIDs

\* A flow the list shows as Completed has its response in the store, and it is
\* the response whose status the list shows: the detail view, HAR export and MCP
\* never find a completed flow without one, although the two are written in
\* separate critical sections.
CompletedHasResponse ==
  \A f \in FlowIDs : Stored(f) /\ Meta(f).state = "Completed" =>
     /\ data[f] # NoData
     /\ data[f].resp # 0
     /\ data[f].resp = Meta(f).status

\* The request survives everything that is written after it: the resolver's PID
\* and the response are merged, never stored in its place.
RequestKept ==
  \A f \in FlowIDs :
     /\ Stored(f) /\ f \notin large
     /\ pc[f] \in {"scripts", "synthetic", "upstream", "headers", "respbody", "response",
                   "merge", "complete", "answered", "failed", "blocked", "streamed"}
     => data[f] # NoData /\ data[f].req

\* A flow whose host is excluded leaves no trace in the store, in whichever
\* callback: the later ones do not look at the filter.
ExcludedNeverStored == \A f \in excluded : ~Stored(f) /\ data[f] = NoData

\* When Response or a script's synthetic response is done with a flow, the store
\* shows it as settled, or has evicted it.
AnsweredIsSettled ==
  \A f \in FlowIDs : Stored(f) =>
     /\ pc[f] = "answered" => Meta(f).state = "Completed"
     /\ pc[f] = "failed" => Meta(f).state = "Failed"

\* A settled flow never changes its state again while it is held.
SettledIsFinal ==
  [][\A f \in FlowIDs :
       Stored(f) /\ Meta(f).state \in {"Completed", "Failed"} /\ Stored(f)'
         => Meta(f)'.state = Meta(f).state /\ Meta(f)'.status = Meta(f).status]_capVars

\* Every flow that is not held at a breakpoint forever ends; in particular, no
\* callback is stuck behind the resolver's semaphore in Requestheaders.
FlowsEnd ==
  \A f \in FlowIDs : pc[f] # "new" ~> (pc[f] \in EndPCs \/ f \in paused)

\* The inductive invariant behind the safety properties above.  A flow's state in
\* the store and the flow's goroutine move together: ...
StateFollowsPC ==
  \A f \in FlowIDs : Stored(f) =>
     /\ Meta(f).state = "Completed" <=> pc[f] = "answered"
     /\ Meta(f).state = "Failed" <=> pc[f] = "failed"

\* ... when a flow is about to be completed, its response is already stored ...
ResponseStoredFirst ==
  \A f \in FlowIDs : pc[f] \in {"synthetic", "complete"} =>
     /\ response[f] # 0
     /\ Stored(f) => data[f] # NoData /\ data[f].resp = response[f]

\* ... the library has a response before it calls the response callbacks ...
ResponsePresent ==
  \A f \in FlowIDs : pc[f] \in {"headers", "respbody", "response", "merge"} =>
     response[f] # 0

\* ... and an excluded flow, or one not seen yet, was never given to the store.
Unstarted == \A f \in FlowIDs : (pc[f] = "new" \/ f \in excluded) => f \notin used
ExcludedStarted == \A f \in excluded : pc[f] # "new"

CapInv ==
  /\ RBInv /\ ResTypeOK /\ ResolvedPID /\ CapTypeOK
  /\ StateFollowsPC /\ ResponseStoredFirst /\ ResponsePresent
  /\ Unstarted /\ ExcludedStarted
  /\ CompletedHasResponse /\ RequestKept

-----------------------------------------------------------------------------
(* What the documentation says and the code does not do: TLC refutes each  *)
(* of these (README, "Divergences").                                       *)

\* interceptor.go: the merge "preserves request headers/body and process info set
\* earlier": an answered flow's data has the PID its summary has, once the
\* resolver is done.
ProcessInfoPreserved ==
  \A f \in FlowIDs :
     pc[f] = "answered" /\ rpc[f] = "done" /\ Stored(f) => data[f].pid = Meta(f).pid

\* The breakpoint design: "Paused flows show StateBreakpoint in list view".
PausedShowsBreakpoint ==
  \A f \in paused : Stored(f) => Meta(f).state = "Breakpoint"

\* The changelog's fix for local responses that "stayed in-progress indefinitely":
\* a flow httpmon answers by itself is completed.
LocalReplySettles ==
  \A f \in FlowIDs : pc[f] = "blocked" /\ Stored(f) => Meta(f).state # "InProgress"
=============================================================================
