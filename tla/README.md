# A verification project for httpmon

httpmon is an intercepting HTTP proxy with a terminal interface (TUI), an MCP
server, a JavaScript script engine and a breakpoint mechanism. This directory
holds TLA+ models of its stateful parts and of its hand-written algorithms, the
TLC configurations that check them on small instances, and TLAPS proofs of the
safety of every stateful part for all values of the constants.

`PROJECT.json` is the machine-readable side of this document: the components,
the runs with their properties, a mutant for each property (a definition
changed as a plausible bug would change the code, which TLC must catch), a map from
each definition to the lines it models, the hazards, and the theorems.

    tlc -workers 2 -config Capture.cfg MCCapture      # one run
    tlapm CaptureProofs.tla                           # one module of proofs

Operators that exist only to be swapped in by a mutant stand just before the
operator they distort, and their comment says what they do wrong.

## The system

A request travels as follows. go-mitmproxy accepts the connection and calls the
addon methods of `Interceptor` on a goroutine of that flow. `Requestheaders`
consults the host filter, adds a `FlowMeta` to the store and asks the resolver
for the client's process; `Request` records headers and body and runs the
scripts, which may change the request, answer or block it, or hold it at a
breakpoint; `Responseheaders` and `Response` do the same on the way back. The
TUI reads the store every 100 ms; the MCP tools read it, manage scripts and set
the throttle. Breakpoints are resumed by the TUI, and by Serve and main at the
end. Everything meets in the store, the breakpoint controller and the script
directory.

| Component | State | Operations | Talks to | What is hard | Correct when |
|---|---|---|---|---|---|
| Flow store (`internal/store`) | circular slots, ID index, bodies, one mutex | Add, Update, UpdateData, SetData, Get, List | everybody | eviction while callbacks of the flow still run; two critical sections per logical write | index and slots agree; no body outlives its flow; nothing evicted returns; pages have no gaps |
| Process resolver (`internal/procinfo`) | semaphore channel, PID cache, failure counter | Resolve, lookup goroutine | operating system, store | semaphore is taken on the proxy's goroutine; failures at each step; PID reuse | the callback always returns; lookups are bounded; each flow gets a label |
| Interceptor (`internal/proxy/interceptor.go`) | per-flow maps, the flow's own goroutine | Requestheaders, Request, Responseheaders, Response | store, resolver, scripts | interleaving with the resolver and evictions; early ends of a flow | requests are kept; completed flows have responses; settled is final; excluded is unseen |
| Proxy server (`internal/proxy/proxy.go`) | listener, context | Init, Serve, Stop | breakpoints | Stop races new pauses | nobody stays blocked by the controller |
| Breakpoint controller (`internal/breakpoint`) | pending map, per-pause channels, subscribers | Pause, Resume, ResumeAll, Pending, Subscribe | scripts, TUI, proxy server | blocked proxy goroutines; several resumers; full subscription channel | each pause gets exactly one answer; an answered pause ends |
| Breakpoint screen (`internal/tui/breakpoint.go`) | queue copy, cursor, editor | open, move, edit, resume | controller | copies that age while shown | edits reach the pause they were made for |
| Script engine (`internal/scripting/scripting.go`) | script list under a lock; a context per flow | RunOnRequest, RunOnResponse, Reload | interceptor, breakpoints | failing scripts, several scripts on one context, read-back | what failed leaves no trace; the wire body is encoded as labelled |
| Script files (`loader.go`, `manager.go`, script tools and modal) | a directory | scan with ID back-fill, toggle, create, edit, delete, reload | engine, TUI, MCP | unlocked file operations by several actors | the engine runs what the directory says; IDs name what they named |
| Patterns (`glob.go`, `hostfilter`, `host_registry.go`) | none | GlobMatchAny, ShouldIntercept, Resolve | interceptor, engine, decoders | hand-written matching | equals a reference glob |
| `--browse` (`internal/browse`, `main.go`) | the system's proxy settings, a snapshot | Start, Stop, signal goroutine | operating system | the ways a process ends | settings are put back |
| Configuration (`internal/config`, `settings.go`) | config.json, legacy token file | Load, Save, LoadOrCreateToken, the settings screen | main, TUI | crashes between system calls; several copies of one file | one token; settings are kept |
| Flow list (`app.go`, `list.go`, `tree.go`, `diffview.go`) | a copy of the listing, cursor, offset, mode, group, diff mark | tick, keys, resize, filter | store | an index into rows that are replaced under it | the cursor is visible; keys never crash from above; headers fit the grouping |
| MCP server (`mcpserver/server.go`) | listener, running flag, one mutex | Start, Stop, Running, Port | TUI, main | a shutdown of up to five seconds under the mutex the TUI asks; two goroutines stop it | the shown status is true; drawing never hangs; it has stopped before the end |
| MCP read tools (`tools_read.go`), exports (`har`, `export.go`) | none | list, search, get, count, export | store | pages of a list that moves; a pointer used after the unlock; summaries older than data | pages miss nothing that keeps matching; a completed flow is read whole |
| Throttling (`internal/throttle`, `tui/throttle.go`) | bandwidth and latency | Set, Read | proxy, TUI, MCP | pacing next to a slow server; presets set in three places | a body takes as long as the simulated network needs |
| Filter (`internal/filter`) | none | Compile, Match | TUI, MCP tools | a filter that is nothing | blank input matches all |
| Body decoding (`internal/bodydecoder`) | schema registries | decode, encode | scripts, detail view | framing and guessing on arbitrary bytes | edits keep the other frames; nothing is lost or made up |
| Diff (`internal/diff`) | none | Compare | TUI | two walks in step | it is an edit of one flow into the other |
| CA certificate (`internal/certutil`) | two files | EnsureCA, Install | main, proxy | half-written pairs over runs | clients see one CA |

The hard behaviours, each with its line, are the `hazards` of `PROJECT.json`.

## The modules

**RingBuffer** is `internal/store`. `metas`, `head` and `count` are the Go
fields; the two maps are total functions with `NoSlot` and `NoData` for absent
keys. `Add`, `Update`, `UpdateData` and `SetData` are one critical section
each. They are operators with arguments, because the pipeline uses them with
its own; `RBNext` drives them with arbitrary callers. The variable `used`
remembers the IDs handed out: the library's UUIDs are never reused.
**FlowLog** is the abstract store: a bounded sequence of flows, newest kept, and
the bodies that go with them. RingBuffer maps its slots to the sequence
(`Contents`) and states that it implements the log (`ImplementsLog`). **Paging** adds a client of
`list_requests` or `search_requests` that asks for page after page by offset,
while `Add` moves the list on between its calls, and an update makes a filter
by status or content type begin or cease to match a flow (`UpdateBetween`). What was asked for is the set of flows that match (`wanted`); `stopped` are
those that have ceased to.

**Resolver** is `internal/procinfo`, over RingBuffer. `rpc` is the program
counter of the resolution's goroutine: the semaphore send on the caller's
goroutine, the PID lookup, the cache, the name lookup, the two store writes (two
critical sections) and the release. The operating system answers anything:
failures, and PIDs handed to another process.

**Capture** is the interceptor, over Resolver. `pc` names the point between two
store calls where the flow's goroutine is; every other flow, every resolution
and every eviction may come between. The library's choices (a response, an
error, a streamed body, a connection that is given up) are nondeterministic.
Scripts appear as their four outcomes: forward, respond, block, or hold at a
breakpoint.

**Readers** puts one reader next to Capture: `get_request`, the HAR export of the
MCP server and that of the TUI. `ptr` is what `Get` returned: while it is the
store's own object it changes with `UpdateData`, after `SetData` or an eviction
it stays as it was. A flow without data is written by the TUI's export as an
entry of its summary alone (`Bare`), skipped by `export_har` if it is gone, and
panics there if it is held. `Merging` is the time in which `Response` writes the fields
of that object; a read then may see either value, or a torn slice. Readers
change nothing and do not see each other, so one that reads once stands for all.

**Breakpoints** is the controller with all its users: flows that pause, the TUI
screen, and the two calls of `Stop` (the Serve goroutine and main). Taking an
entry out of the pending map and sending the answer on its channel are separate
steps, because the lock is released in between; `held` has the answers in
transit. **Pauses** is what all this promises, without map, channels and locks: a
flow is going, open or answered, and an answer stands until the flow goes on.
Breakpoints implements it (`ImplementsPauses`): a pause is open while it is in
the pending map, and its answer is what is in a resumer's hands or in its channel.

**ScriptFiles** has every file operation and every critical section of the
manager and of `Engine.Reload` as a step, for the TUI and any number of MCP
handlers, in any interleaving: the code has a lock around the engine's slice and
nothing else. An `os.WriteFile` is two steps, and may fail before or after it
has truncated the file; a file of the directory may be unreadable (`Skip`,
`ToggleFails`, `FillFails`); `os.ReadDir` does not fail. Contents keep what the
header says (ID, enabled, whether it parses); script bodies are not told apart.
`LoadScript` is not modelled: only tests call it. Two history variables say when
the code promises nothing. `disturbed`: since the last `Reload` that began while
nobody else was midway, that is, between the read and the write of a file or
between the two critical sections of `Reload`, two managers were midway at once,
or a file could not be read or rewritten. `clashed`: two managers were writing at
once, or the editor made a lost file anew during another operation.

**Scripting** is the chain of scripts on one flow: the context the scripts share,
what is read back, when a failure discards it, and what the interceptor sends.
A value is the number of the script that wrote it, so "where does this come
from" is what the properties talk about. A script fails in its own code, and
then nothing of it is read, or while it is read back (`ReadBackFails`,
`RespondFails`), and then what was read before the failure stays, in the order
of the code (`Order`). A message on the wire has a Content-Encoding and the
encodings really applied to its body, the request as well as the reply; client
and upstream may use encodings that the interceptor does not know. Scripts leave
the Content-Encoding header alone, and the URLs they write parse.

**Queries** is the frame of the pure functions: a behaviour is one query and its
answer, so that TLC enumerates the inputs and the properties are invariants over
query and answer. **Algorithms** puts the following modules together, and
**MCAlgorithms** has their queries.

* **Patterns**: the matchers of script patterns, of the host filter and of the
  schema registry, over sequences of characters, next to a reference glob.
  `path.Match` is modelled for stars; its `?`, `[...]` and backslash are not.
  Which of several matching wildcards a body gets is Go's map order. The host
  filter's patterns are put in lower case, the schema registry's keys are taken
  as they are configured, and their reference is the glob of the key in lower case.
* **Diff**: `Compare`, with the table and the walk of the LCS, against an edit
  script's definition and the longest common subsequence by enumeration.
* **Frames**: gRPC-Web framing over bytes; a body is decoded and encoded again
  with another payload, and what arrives is compared with the frames it was
  made of.
* **ProtoWire**: decoding without a schema, with the protowire library's
  functions as the code uses them. The reference is the inverse: writing the
  decoded fields must give the bytes back.
* **Throttle**: `Reader.Read` over time in tenths of a second, with an inner
  reader that offers any bytes after any delay, and the settings as flags, tool
  and screen set them.
* **Filter**: what the three places that filter hand to the store. A Go interface
  that holds a nil pointer is not `NoFilter`.

**Browse** is one process with `--browse`: snapshot, set, open, arm the signal
goroutine, run, stop, restore, in main and in the signal goroutine, with every
way to end. The user changing the system proxy meanwhile is not modelled.
**McpServer** is the MCP server: listener, running flag and mutex, `Stop` in its
two steps around `Shutdown`, the goroutine that waits for the context, and
clients whose calls last as long as they like. **Process** is both in one
process, with the TUI's drawing, the Serve goroutine, SIGINT and main's steps
after the TUI: stop the MCP server, stop the proxy, wait for Serve, restore.

**Config** is config.json over several runs: load with its defaults, flags, token
migration, save as truncate and write, settings screen, in any number of
processes, with crashes between any two system calls. Of the configuration it
has the token and two of the fields that the settings screen edits: `port`, which
a flag overrides as well (it stands for the MCP fields, the buffer size and the
throttle too), and `mode`, which no flag does (list mode and tree grouping, which
are saved, although `NewApp` does not read them). `wanted`
is what the user saved last, field by field, only if it was edited on the screen;
`flagged` says that a token was saved with the flags since then, and `raced` that
two processes met between reading the file and writing it. **CA** adds
the start's earlier half to the same runs: `EnsureCA` with each block of each
file a step, `NewProxy` which reads the file, and `--install-ca`. A CA is the
number of its generation, so "the key and the certificate of one CA" can be said.

**FlowList** is the TUI's list: the store's flows, the copy the TUI made of
them, the rows built from it, cursor, viewport, mode, focus, filter, detail view
and diff mark. An action is one pass of the event loop, drawing included,
because drawing moves the viewport. Flat, tree and focus mode are modelled with
all their keys. Search, overlays and rendering are left out.

**Ordering** has the two operators on lists that several parts share: `InOrder`,
a set sorted by an order (the rows of the TUI's tree), and `Kept`, the sublist at
some places (the filter loops of `List`, `LoadDir`'s callers and the focused group).

`MC*` modules give TLC what a configuration cannot say itself: symmetry,
enumerated inputs, the VIEW. `*Proofs` modules are described under "The proofs".

## The runs

| Run | Instance | Properties | Shows |
|---|---|---|---|
| RingBuffer | capacity 3, 5 IDs, symmetric; pages of 1 and 2, any set of matches, which updates change | NoOrphanData PagingMissesNothing NoResurrection ImplementsLog | The store is a bounded log through fill, wrap-around and two evictions beyond, and can be paged while it moves and while flows begin and cease to match. |
| Capture | capacity 1, 2 flows, semaphore 1, symmetric | CompletedHasResponse RequestKept ExcludedNeverStored AnsweredIsSettled SummaryShowsLookup SettledIsFinal | Safety of the pipeline when each flow can evict the other at any point. |
| CaptureLive | the same, one name, one status | FlowsEnd EveryResolutionEnds | Nobody waits on the semaphore for ever and flows leave the pipeline. |
| Readers | the same with one reader | CompletedReadIsWhole | Reading without the lock, and data fetched after the summary, never give a completed flow without its response, but for the TUI's entry of a flow that was evicted. |
| Breakpoints | 2 flows, 2 pauses each, channel of 1 | OneWayOn EditsReachEditedPause ImplementsPauses AnsweredPauseEnds | Pauses are answered once, by whoever comes first, and end. |
| ScriptFiles | 2 files, TUI and one handler, 3 operations that overlap and fail | EngineMatchesDisk KnownIDsWork | Engine and directory agree from each undisturbed Reload until two managers are midway at once or a file fails; a told ID is never another script's. |
| Scripting | 2 scripts, 2 URLs, 1 header, gzip (known) and compress (unknown) | FailedLeaveNoTrace WireTruthful AnsweredStaysAnswered | What failing scripts leave, what answers withstand, and what is sent, whoever fails. |
| Algorithms | see below | WildcardIsGlob MatchIsSound HostPatternsAreGlobs DiffIsFaithful EditKeepsOtherFrames NothingIsLost PaceIsBandwidth | Each algorithm equals its reference on every query. |
| BlankFilter | three places, two flows, up to two terms | BlankMatchesAll (refuted) | A blank filter panics in the MCP tools. |
| Process | darwin, MCP on with one client, networksetup and listeners may fail | RestoredOnExit StatusTruthful QuietAtTheEnd EndingEnds ScreenDraws | The ends the code handles restore what can be restored, after the MCP server and Serve have stopped; the TUI never hangs. |
| DataDir | 5 runs of 2 processes, crashes, up to their first meeting | OneToken SettingsKept OneCA | One token, kept settings and one CA, over restarts, crashes and processes side by side. |
| FlowList | 3 flows, store of 2, heights 6 and 7 | CursorVisible PanicOnlyBelow RowsAreOfGrouping | The cursor over changing rows. |

Each module also states its types (`RBTypeOK`, `ResTypeOK`, `CapTypeOK`,
`RdTypeOK`, `BPTypeOK`, `SFTypeOK`, `SCTypeOK`, `BrTypeOK`, `McpTypeOK`,
`PrTypeOK`, `CfTypeOK`, `FLTypeOK`). What the other invariants need of them is
part of the inductive invariants proved below, as are `IndexSound` and
`LiveIndexed` of the store and `BoundedLookups` of the resolver; so the runs
spend their time on other properties.

All configurations turn deadlock checking off, since in all of them the bounded
inputs run out: all flows have ended, all calls were made, the process is gone.
The liveness properties say where stopping would be wrong.

### Why the bounds are enough

For all safety properties but `NothingIsLost` the proofs lift the bounds; the
runs show that the instances reach the interesting cases.

* *RingBuffer*: a slot is touched by an add, by its eviction, and by writes in
  between. Three slots have a head, a middle and a tail; five IDs wrap past the
  first slot.
* *Capture*: capacity 1 makes each `Add` evict, which is the hazard. A flow's
  goroutine interacts with others only through the store and the semaphore, so
  two flows show each pair of steps.
* *Readers*: a read interacts with its own flow and with the flow that evicts it.
* *Breakpoints*: two pauses per flow are needed for an answer to arrive at the
  wrong pause of the same flow, two flows for the queue to have a cursor worth
  moving; a channel of 1 (16 in the code) is full after one event.
* *ScriptFiles*: three operations, besides the load at the start, are two that
  overlap and one after them that meets what they left. Two files are one that an
  operation is about and another that its ID or its place in the engine could be
  confused with. `VIEW` drops the locals of a manager that no later step reads
  (what an ended scan has found, and of a running one all but what its end will
  use), and `asked`, which only CreatedEnabledByDefault is about; no property of
  the run reads any of it.
* *Scripting*: the first of two scripts is before the one that answers, fails or
  blocks, or the second is after it; both are in both phases. The theorems are for
  any number.
* *Algorithms*: paths of up to five characters hold a prefix, two middle parts
  and a suffix which overlap, where the greedy search could go wrong; URLs and
  hosts three and four. Bodies of up to four lines over three contents, with a
  limit of three, are on both sides of the limit and have several longest common
  subsequences. Three frames with a cut-off tail put each kind before and after
  each other. Six bytes hold a group in a group, or a field, its repetition and a
  nested message. Three reads have a slow one before and after a fast one.
* *Process*: one client is enough to keep `Shutdown` waiting, and both goroutines
  that stop the server are there. All nine settings of the user's two proxies.
* *DataDir*: five starts hold migration, a crash, a repeat, a reader and an
  install, or two pairs side by side. The properties claim nothing once two
  processes have met, so `CONSTRAINT Apart` explores nothing behind the first
  meeting. `VIEW` drops what a process in its present place will not read any
  more; processes are interchangeable (`SYMMETRY`).
* *FlowList*: three flows in a store of two give an eviction; heights 6 and 7
  leave one or two rows, so that every move scrolls. `FlatLimit` is 2 for the
  code's 50. `VIEW LiveState` drops values no later step reads.

### Fairness

Goroutines that can run do run: weak fairness on the resolver's goroutines, on
the steps of a flow that has begun, on the receive and sends of breakpoints and
on the steps of `main` and of the signal goroutine. `Resolve` has strong
fairness, because it is enabled and disabled as others take and release the
semaphore, and Go's runtime queues blocked senders of a channel in order, so
each gets its turn. Nothing is assumed of the user: a paused flow may stay
paused, no key need be pressed, traffic may stop. The library's reads end
(timeouts or errors), which `FlowStep`'s fairness expresses. In Process the
goroutines of main, Serve, the signals, the MCP server's context and the TUI's
drawing are weakly fair; that `Shutdown` returns although clients stay is its
five-second timer. The mutex needs no strong fairness there: the server is
stopped at most twice, and after that nobody holds it. Nothing is assumed of MCP
clients. The other runs have safety properties only.

## The proofs

Eight modules hold theorems. Each states its argument in its first comment and
its inductive invariant as a conjunction of named parts; one lemma per action
says that the action keeps it. The invariants were checked with TLC on the run's
instance before they were proved (`PgInv` on a store of two with four flows);
those of AlgorithmsProofs only say that an answer is that of the function asked.

| Module | About | Inductive invariant | Runs' properties it proves |
|---|---|---|---|
| CaptureProofs | RingBuffer, FlowLog, Resolver, Capture | `RBInv`, `CapInv`, `LookupInv` | NoOrphanData NoResurrection ImplementsLog CompletedHasResponse RequestKept ExcludedNeverStored AnsweredIsSettled SettledIsFinal SummaryShowsLookup |
| ReadersProofs | Readers, Paging | `RdInv`, `PgInv` | CompletedReadIsWhole PagingMissesNothing |
| BreakpointsProofs | Breakpoints, Pauses | `BPInv` | OneWayOn EditsReachEditedPause ImplementsPauses |
| ScriptingProofs | Scripting, ScriptFiles | `ScInv`, `SfInv` | FailedLeaveNoTrace WireTruthful AnsweredStaysAnswered EngineMatchesDisk KnownIDsWork |
| LifecycleProofs | Browse, McpServer, Process, Config, CA | `PrInv`, `DdInv` | RestoredOnExit StatusTruthful QuietAtTheEnd OneToken SettingsKept OneCA |
| FlowListProofs | FlowList | `FlInv` | CursorVisible PanicOnlyBelow RowsAreOfGrouping |
| AlgorithmsProofs | Throttle, Patterns, Frames, Diff | `PaceInv`, `PatInv`, `FramesInv`, `DiffInv` | PaceIsBandwidth HostPatternsAreGlobs WildcardIsGlob MatchIsSound EditKeepsOtherFrames DiffIsFaithful |
| OrderingProofs | Ordering | none | none: lists in order, sublists, least members, induction and recursive functions, for the others |

**CaptureProofs, the store**. `RBInv` is types, `IndexSound`, `LiveIndexed`,
`NoOrphanData` and `StoredUsed`. It is inductive: an `Add` into a full store
must know that the slot it takes belongs to the flow it evicts (LiveIndexed) and
that no other index points there (IndexSound), and `NoOrphanData` needs to know
which index is cleared. The lemmas on `SlotAt` do the arithmetic of a circular
buffer (`%` over consecutive slots is injective, and shifting the head shifts the
positions); then one lemma per operation, with the function passed to `Update` as
a parameter, so that the pipeline's proof can use them. `StoreIsALog` is the
refinement: the slots from the oldest on are the log, an `Add` into a full store
is the log's step that drops its head, and the other operations change one place.

**CaptureProofs, the pipeline**. `CompletedHasResponse` is not inductive: nothing in it says
that the flow that is about to be marked completed has stored its response. The
invariant `CapInv` adds what the code relies on silently: a flow's state in the
store follows its goroutine's position (`StateFollowsPC`), the response is stored
before the state (`ResponseStoredFirst`), the library has a response before the
response callbacks (`ResponsePresent`), flows not begun or excluded never reached
the store (`Unstarted`, `ExcludedStarted`), and `RequestKept`. The proof first
shows, from the store's lemmas, what each store operation does to one flow and that
it leaves all others alone or evicts them, then splits the invariant by flow, so
that each action is a claim about one flow. For the lookups, `LookupFollows` says what
each goroutine of the resolver has found and written at each of its points (the
summary's PID and name are the lookup's once it is past its first write, the data
gets the PID only in the second), which is what `SummaryShowsLookup` needs, as PID
and name reach the store in two writes; `Tokens` says that the semaphore's
holders are exactly the lookups in progress. Because every step of the
pipeline is a step of the store or leaves it alone, the refinement of FlowLog and
`NoResurrection` carry over to the whole pipeline.

**ReadersProofs**. What a reader has copied outlives the lock. `Trusted` is what
such a copy is still good for: if it shows its flow as completed, the flow is
answered, and while it is stored its status is the copied one. `PointerSound`
ties a shared pointer to the store's object, and `Reading` and `Recorded` say
what has been taken from it so far. These hold under every step of the pipeline
by one lemma from `CapInv`, and the reader's own steps build on them. For paging,
`Waiting` says that a flow that is owed and not yet seen, with no flow above it
that has ceased to match, is stored with at least `offset` matching flows before
it in the list: an `Add`, or a flow that begins to match, pushes it further down,
never up. A flow that ceases to match pulls the older ones up, behind the offset
of the next page; for those nothing is claimed. The proof that a page takes exactly the flows between two counts uses
OrderingProofs.

**BreakpointsProofs**. `PauseFollows` says where the answer to a flow's current
pause is: not given (in the map, channel empty), in exactly one resumer's hands,
or in its channel. `OneWayOn` alone is not inductive, because two resumers could
hold answers to one pause. `HoldersSend` and `OnlyTheTUI` tell who can hold
answers when. `ControllerIsPauses` maps a pending pause to an open one and a held
or sent answer to an answered one, one step of Pauses or none for each action;
`TakeAll`, which takes all entries in one critical section, is the abstract step
that answers several at once.

**ScriptingProofs**. On one flow, all that is in the context was written by a
script that has run (`Past`), and the script that runs now writes under its own
number only; so a script that fails in its own code is found nowhere, and one
that fails in the read-back only in what was read before (`halves`). The encodings
of client and upstream are arbitrary.

For the files, `SfInv` has three parts beside the types, none of which assumes
that operations take turns. `OwnIDs`: an ID, wherever it is (in a file, in a
source about to be written back, in a scan's entries, told to a client), is of
one file, since a new one comes from a counter above them all; this holds
whatever overlaps. `Firm`, unless `clashed`: a file that is being written has one
writer, and what was told of a file is on it, or is in the hands of its writer,
or the file is lost. `InStep`, unless `disturbed`: at most one manager is midway, a
load that is under way started from an empty engine and has found what is enabled
among the files it has passed, and if none is under way or due the engine has what
is enabled. That a step of one manager leaves the others' locals alone, and which
of the parts a change of one file can disturb, are lemmas (`Elsewhere`,
`FirmStep`, `DueStep`), so that each action's proof is about its own manager and
file.

**LifecycleProofs**. `PrInv` has three parts. `Restoring` says which protocols
main and the signal goroutine have each put back, so that two restorers at once
do no harm; `Server` ties the MCP server's listener and flag to who holds its
mutex; `Stopping` says how far main has come, from which `QuietAtTheEnd` follows.
`DdInv` says what the files hold whatever was interrupted (`FileKept`, `CAKept`),
and what the one process that is busy with them knows at each point (`CfFollows`,
`CaFollows`); a process that shows its flows knows nothing that matters. Crashes
are steps of the model, between any two system calls. No number of processes is
assumed: the invariant holds until two of them meet between reading the
configuration and writing it (`raced`), which is when `OneTokenAlways` fails
(Divergences).

**FlowListProofs**. `FlInv` is the three properties and types that bound the
cursor by -1 and the offset by 0 (until a panic). `CursorVisible` depends on
every pass that draws the list moving the offset; that a pass that does not draw
cannot hide the cursor is the longest part. For the rows, lemmas describe the
tree and the focused group for any listing, from what `InOrder` and `Kept` return.

**OrderingProofs**. `InOrder` lists a finite set by an order, each member once;
`Kept` is the sublist at given places. Where the models need a sorted or a
filtered list they use these two, and not a fold or a recursion: both are
specified by what they return, so that a proof can use it. The module also has the
two arguments that take the place of an induction theorem and of the theorem on
recursive definitions, whose operator parameters the provers cannot instantiate.
`UpTo`: a set of numbers that has 0, and n + 1 with n, has all up to a bound
(if not, the least one that is missing contradicts it); a claim is put as the set
of the numbers it holds for. `RecursionExists`: a function on a set with a rank,
whose value at a place is computed from its values at places of smaller rank
(`Obeys`, `LooksBack`), exists and satisfies its equation. `LoopExists` is that
for a loop that counts to a bound.

**AlgorithmsProofs**. Each loop of the code is a recursive function over a finite
domain: reads done, characters or parts consumed, bytes that remain, places in
two bodies. The *Equation* and *Loop* lemmas say that it obeys its equation; what it computes
then follows by `UpTo`. The properties are invariants over query and answer, so the
inductive invariant of each is that the answer, once there, is the algorithm's; the
work is in the lemmas.

* *Throttle*. Each read ends no later than the slowest of latency, bandwidth and
  server would have it: either the bandwidth made it wait, and the read itself is
  the witness, or it ended when the inner reader did, and the witness of the read
  before carries over.
* *Patterns*. `Glob` gives the set of ends that a prefix of the pattern can reach
  in the string. What the greedy search leaves after each middle part is the least
  end any assignment of the stars can reach (it can only be moved forward, and a
  star takes up the difference), so greedy loses nothing; that the last part is a
  suffix of *what is left* is what keeps it sound. A URL with a scheme is cut
  where the pattern's separators are, and from there `MatchIsSound` follows for
  schemes, hosts and paths each. For hosts, the ends of `"*."` and a name are those
  behind a dot.
* *Frames*. A header written by `PutUint32` reads back (arithmetic modulo 256),
  so parsing a frame in front of any bytes gives that frame and goes on behind it.
  By induction over the frames, counted from the last, the whole body parses
  back, then the re-encoded one does. A cut-off tail is the induction's base.
* *Diff*. What the walk has shown so far, together with what remains of both bodies,
  always tells both sides; each cell of the table is the length of a longest common
  subsequence of the rests (both directions: a common subsequence of that length
  exists, and none is longer), and the walk shows as many common lines as the cell
  it stands on says. For flows, `FlattenSeq` of the sections has a change exactly if
  one of them has, and a section exactly if its values differ where they show.

These theorems are about `PaceSpec`, `PatSpec`, `FramesSpec` and `DiffSpec`. The
run's `AlgSpec` is a disjunction of them, of Filter's and of ProtoWire's; ProtoWire
has RECURSIVE operators, so no module with a proof may reach it. A query's kind
never changes, and the steps of `AlgSpec` on a query of one of the four modules
are the steps of that module's specification.

The assumptions on constants are those named in the modules: a capacity of at
least one (main refuses less), a nonempty set of names that are not the fallback,
status codes and PIDs that are positive numbers, a semaphore of at least one,
sentinels that are not IDs or data, that 403 is a status code; finite sets of
flows at breakpoints and of script files, and no MCP request called "tui"; at least
one URL, and "identity" for no encoding; a platform that is darwin or linux;
page limits that are integers; start times and terminal heights that are numbers.
For the algorithms: latencies, delays and amounts read are natural numbers
(`PacedAssumption`); the characters include those with a meaning in patterns
(`CharAssumption`); URLs have a scheme, as the proxy's requests do, while script
patterns are any text (`TextAssumption`); a host pattern is a name or `*.` and a
name, as the flags document, and a host name has no colon and does not start with
a dot (`HostAssumption`; other patterns and addresses are under Divergences, as are
schema keys with upper-case letters, which the property itself leaves out);
the length of a frame fits its four bytes, as `Encode` checks, and what was cut off
is not a whole frame (`FrameAssumption`); bodies and headers are sequences and
finite maps over the same texts (`DiffAssumption`). TLC evaluates them on the run's
queries. All else is arbitrary, and sets of flows, codes and PIDs of the pipeline may be
infinite.

**Only model-checked**:

* Liveness (`FlowsEnd`, `EveryResolutionEnds`, `AnsweredPauseEnds`, `EndingEnds`,
  `ScreenDraws`), since it needs fairness and ENABLED.
* `NothingIsLost`, about ProtoWire. Its decoder goes into itself through three
  operators at once (groups, length-delimited fields, repetitions), whose RECURSIVE
  declarations take the SMT backend away. The trees it returns would need an
  induction over their structure, and the property needs an assumption besides: it
  holds of bodies whose numbers are written as short as possible.

## Divergences

While the models were written, the documentation, comments and tests of the
repository were taken at their word wherever they promise something a model can
express. These promises the code does not keep. One is a run of its own
(BlankFilter). The others are definitions at the end of their
modules (or properties of a passing run, under other constants): to reproduce
one, take the named configuration, make it the only property, and change the
constants as given. TLC finds each of them violated.

| Property | Configuration and constants | Code | What |
|---|---|---|---|
| StaleNamesExpire | CaptureLive, Names = {"curl", "wget"} (a PROPERTY) | `internal/procinfo/resolver.go:101` | pidCache is only ever added to; docs/plans/2026-02-15-process-identification-design.md:41 says "PID→name cache: cleared periodically (PIDs can be reused)". The run has a PID reused and its flows labelled with the old name for ever. |
| ProcessInfoPreserved | Capture | `internal/proxy/interceptor.go:171` | Request stores the whole FlowData with SetData, so a PID the resolver wrote before it is lost; interceptor.go:288 says "Merge response fields into existing FlowData (preserves request headers/body and process info set earlier)". The run ends with the summary knowing the PID and the data not. |
| PausedShowsBreakpoint | Capture | `internal/scripting/scripting.go:269` | ctx.breakpoint() calls Pause and nothing ever stores StateBreakpoint; docs/plans/2026-02-14-breakpoints-design.md:116 says "Paused flows show `StateBreakpoint` in list view. Returns to `StateInProgress` on resume." The run shows a paused flow listed as in progress. |
| LocalReplySettles | Capture | `internal/proxy/interceptor.go:209` | A request blocked by a script is answered with 403 and its state stays InProgress, since Response is not called for it; CHANGELOG.md:108-111 says "The proxy interceptor now correctly completes MapLocal flows during the Request phase, fixing a bug where locally-served responses stayed in-progress indefinitely." Only the respondWith branch does. |
| ShutdownResumesAll | Breakpoints | `internal/proxy/proxy.go:157` | Stop calls ResumeAll once and then waits in Shutdown; a callback that pauses after it stays blocked until the process ends. docs/plans/2026-02-14-breakpoints-design.md:113 says "TUI exit: `ResumeAll()` — all blocked goroutines resume unmodified" and :175 "Timeout \| None — auto-resume all on shutdown". |
| EnterOpensHighlighted | Breakpoints (a PROPERTY) | `internal/tui/breakpoint.go:105` | Enter reads the pending map again, in Go's changing map order, and indexes it with the cursor of the queue that was drawn; docs/plans/2026-02-14-breakpoints-design.md:143 says "Selecting a flow opens editor with correct headers/body". The run has two paused flows, and Enter opens the one that was not highlighted. |
| ReloadShowsDisk | ScriptFiles, MaxCalls = 2, without VIEW | `internal/scripting/scripting.go:586` | Reload reads the directory outside the engine's lock, so two of them interleave; scripting.go:584 says "Reload clears dir-loaded scripts and re-loads from dir." In the run a delete and its reload fall inside another reload, which then loads the deleted script. |
| DeletedStaysDeleted | ScriptFiles | `internal/scripting/loader.go:34` | The scan writes back a generated ID to a file it read earlier, also when the file was removed meanwhile; README.md:378 says "`delete_script` \| Remove a script". The run has the deleted file on disk again. |
| CreatedEnabledByDefault | ScriptFiles, MaxCalls = 1, without VIEW (a PROPERTY) | `internal/mcpserver/tools_script.go:109` | create_script writes the request's Enabled as decoded, false when it is left out; tools_script.go:76 says "enabled state (default true)". |
| NeverUnloadsEnabled | ScriptFiles, MaxCalls = 1, without VIEW (a PROPERTY) | `internal/scripting/scripting.go:594` | Reload empties the engine's list and then loads one file at a time; a request in between runs without scripts that are enabled. docs/plans/2026-02-12-scripts-design.md:62 says "each enabled script where glob matches". |
| BlockedNotForwarded | Scripting | `internal/scripting/scripting.go:174` | Every script starts with ctx.blocked false and it is read back after each of them, so the next matching script takes the block back; README.md:157 says "`ctx.blocked` \| bool \| Set to `true` to block the request". |
| ResponseIsOneCall | Scripting | `internal/scripting/scripting.go:404` | respondWith in a second script overwrites the fields it was given and keeps the others of the first; README.md:169 says "`ctx.respondWith(opts)` \| function \| Replace the response entirely". |
| DeletedHeadersGone | Scripting, N = 1 | `internal/scripting/scripting.go:467` | readBackHeaders sets the keys the object has and removes none; docs/plans/2026-02-12-scripts-design.md:19 has the example `delete ctx.headers["Authorization"];`, which has no effect. |
| KeepsEncoding | Scripting, N = 1 | `internal/proxy/interceptor.go:408` | A body in an encoding neither decoder nor recompress knows reaches the scripts still encoded, and is sent without its Content-Encoding; interceptor.go:356 says "the body is re-compressed after script processing to preserve the encoding for the client". |
| FailedIsSkipped | Scripting, N = 1 | `internal/scripting/scripting.go:126` | The recover covers the read-back too: a getter that throws there is recorded as a panic, and the fields that were read before it keep what the failed script wrote, ctx.blocked and the URL among them; docs/plans/2026-02-12-scripts-design.md:75 says "JS runtime error → log, skip script, continue others". |
| BodyIsWritable | Scripting, N = 1 | `internal/proxy/interceptor.go:225` | The scripts get a request body as the client encoded it, and what they write is sent plain under the same Content-Encoding; README.md:156 says "`ctx.body` \| string \| Request body (read/write)". |
| HostStarIsOneLabel | Algorithms | `internal/scripting/glob.go:30` | path.Match stops a star at "/", not at "."; glob.go:11-12 says "In the host part, * matches a single domain label (via path.Match)". "*.com" matches "a.b.com". |
| StarIsWildcard | Algorithms, ScriptQueries <- StarQueries | `internal/scripting/glob.go:22` | A pattern without "://" has the empty scheme, which equals no URL's; README.md:144 says "URL patterns to match — `*` wildcards supported", and the template of a new script (loader.go:159) has match "*". |
| StarAtTheEndAllows | Algorithms | `internal/hostfilter/hostfilter.go:48` | matchHost knows a leading "*." only; README.md:72 shows `httpmon --allow "api.example.*"  # Only intercept matching hosts`, which intercepts nothing. |
| OnlyPortIsStripped | Algorithms | `internal/hostfilter/hostfilter.go:24` | The text after the last colon is cut whatever it is; hostfilter.go:23 says "Strip port if present." An IPv6 address without a port loses its last group and no longer matches its own pattern. |
| SchemaKeysIgnoreCase | Algorithms | `internal/bodydecoder/host_registry.go:33` | Resolve puts the host in lower case and takes the keys as they were configured (main.go:150), so that "API.example.com" is never found; docs/plans/2026-02-27-proto-host-mapping-design.md:28 says "Host keys support wildcards (glob matching, reuse `hostfilter` logic)", and hostfilter.go:49 puts its patterns in lower case. |
| AlwaysRestored | Process, Failures = FALSE | `cmd/httpmon/main.go:237` | fatal is os.Exit, which skips the deferred Stop; main.go:205 says "Ensure system proxy is ALWAYS restored, even on crash/signal/fatal." A busy MCP port leaves the system proxy pointing at a dead process. |
| InterruptRestores | Process, Failures = FALSE | `cmd/httpmon/main.go:213` | SIGINT is not among the signals given to the restoring goroutine, and after cancel() it has its default action; main.go:211 says "Catch signals that would bypass defer (SIGTERM, second SIGINT)." |
| ExactlyRestored | Process, Failures = FALSE | `internal/browse/sysproxy_darwin.go:59` | A proxy that was switched off is restored by switching off only, and its server stays httpmon's; sysproxy_darwin.go:22-23 says "It returns a cleanup function that restores the original settings." |
| LinuxBrowses | Process, Platform = "linux", Failures = FALSE | `internal/browse/sysproxy_linux.go:9` | setSystemProxy returns an error on Linux, which main treats as fatal; CHANGELOG.md:6 says "Added Linux support for the `--browse` flag (#37)" with a documented no-op for the system proxy. |
| CreatedOnFirstRun | DataDir, Crashes = FALSE | `internal/config/config.go:53` | Load returns defaults for a missing file and nothing saves them; README.md:327 says "Persistent configuration is stored in `~/.httpmon/config.json` (created on first run)." |
| FlagsOnlyForSession | DataDir, Crashes = FALSE | `internal/config/config.go:112` | LoadOrCreateToken saves the configuration that the flags were already merged into; README.md:327 says "CLI flags override config values for that session." |
| PortKept | DataDir, Crashes = FALSE | `internal/config/config.go:112` | The same save takes back what the user had saved on the settings screen: a port saved there, then a run with --port and without a token yet, and the file has the flag's port. README.md:327 says "CLI flags override config values for that session." |
| MigrationKeepsToken | DataDir | `internal/config/config.go:101` | The legacy file is removed before config.json is saved; CHANGELOG.md:45 says "transparent MCP token migration from the legacy `mcp-token`" file. A crash in between loses the token. |
| OneTokenAlways | DataDir, Crashes = FALSE, MaxRuns = 2, without CONSTRAINT and VIEW | `internal/config/config.go:90` | Reading, generating and saving the token is not atomic across processes; README.md:358 has clients use "Bearer $(httpmon --mcp-token)", started while the server runs. Both may generate, and the client's token is refused. |
| OffsetInRange | FlowList, MaxFlows = 2, Heights = {7} | `internal/tui/app.go:470` | Page down takes min(cursor + page, n - 1), which is -1 on an empty list; list.go:151 says "Ensure offset doesn't exceed valid range." and only bounds it from above. Once flows arrive the frame or a key indexes row -1 and the program panics. |
| LastIsLast | FlowList, Capacity = 3, Heights = {6} (a PROPERTY) | `internal/tui/app.go:342` | The flat list asks the store for max(height-4, 50) flows, so older ones cannot be reached; README.md:389 says "\| `g` / `G` \| Jump to first/last \|". |
| CursorFollowsDetail | FlowList, MaxFlows = 2, Heights = {7} (a PROPERTY) | `internal/tui/app.go:760` | nextFlow stores an index into flows in selectedIdx, which indexes treeRows in the tree and focus modes; the test app_test.go:379 says "selectedIdx = %d, want 1" after "n", that is, the cursor goes to the flow shown. On Esc the cursor is on another row, or on none. |
| BlankMatchesAll | BlankFilter, a run | `internal/mcpserver/tools_read.go:154` | A filter or query of blanks compiles to a nil pointer, which inside a store.Filter is not nil: List calls Match on it and panics. quick.go:15 says "An empty input returns nil (matches all)."; advanced.go:22 says the same. The TUI alone checks the pointer before it hands it on. |
| ExportSurvivesMissingData | Readers | `internal/mcpserver/tools_read.go:317` | buildHAR reads fields of the data of a flow that has none yet (between Requestheaders and Request) and panics; docs/plans/2026-02-15-mcp-server-design.md:104 says "Impl: existing `har.Export()`", which expects it. |
| ReadsAreNotTorn | Readers | `internal/store/ringbuffer.go:99` | Get returns the store's pointer, and UpdateData writes through it while readers use it without the lock; README.md:436 says "Thread-safe ring buffer for captured flows". Only flows in progress are affected (CompletedReadIsWhole). |
| ReadableIsUTF8 | Algorithms | `internal/bodydecoder/protobuf.go:184` | Bytes and runes are counted; protobuf.go:183 says "Must be valid UTF-8." Bytes that are not UTF-8 become one rune each and are shown as text, while text with any rune outside ASCII is shown as base64. |
| PresetHasLatency | Algorithms | `internal/mcpserver/tools_sim.go:60` | A preset named by --throttle or set_throttle sets the bandwidth only; README.md:213 has the row "\| `3g` \| 750 kbps (93,750 B/s) \| 100ms \|". Only the screen sets the latency, and it marks the preset as active in both cases. |
| CertFileIsCA | DataDir | `internal/certutil/ca.go:33` | The early return asks the combined file only; ca.go:24-25 says "EnsureCA creates the CA key+cert files in dir if they don't already exist with the correct CN. Returns the path to the PEM cert file." After a crash between the two files, the certificate to install is missing, empty or another CA's, in every later run. |

## Not modelled, and why

* **go-mitmproxy, goja, protowire's and protobuf's schemas, networksetup, the
  trust store, the file system**: external. They appear as the choices the code
  has to handle: callbacks and their outcomes, script results, failures.
* **Loading of .proto files** (`protoregistry.go`, `bufcache.go`): calls of the
  compiler and of `buf` at the start; the registry it yields is read-only, and
  who gets which is in Patterns.
* **The matchers of single filter terms**: comparisons of one field with one
  value. Filter has what becomes of several terms, and of none.
* **The bearer middleware** (`auth.go`): a comparison of two strings; where the
  token comes from is in Config.
* **Highlighting, cURL, image view, the text of HAR entries**: formatting of one
  flow.
* **Rendering, search and overlays** of the TUI, and its compose and repeat
  screens; **replay_request** of the MCP server: their requests enter the proxy
  as any request does.
* **What becomes of the data directory after two processes have met** between
  reading the configuration and writing it: the properties claim nothing then
  (OneTokenAlways, Divergences). The scripts directory has one process.

## Plan

The order was: what everything shares (RingBuffer with FlowLog), what writes it
(Resolver, Capture), what can block it (Breakpoints), what runs inside it
(ScriptFiles, Scripting), what outlives the process (Browse, Config), what reads
it (FlowList, then Paging and Readers), the whole process (McpServer, Process)
and its directory (CA), an abstract specification of breakpoints (Pauses), and
the algorithms (Patterns, Diff, Frames, ProtoWire, Throttle, Filter).

What is left to model, most valuable first: an abstract flow life (in progress,
then completed or failed once) implemented by Capture; `replay_request` next to
Capture; the search of the detail view as one more reader of FlowList's copy.

What is left to prove is `NothingIsLost`. ProtoWire would be written as a
function over the spans of the body, like the table of Diff, so that
`RecursionExists` applies to it; a field's bytes would be shown to be those of its
span, and the span of a message the concatenation of its fields', as in Frames.
