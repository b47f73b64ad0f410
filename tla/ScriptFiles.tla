----------------------------- MODULE ScriptFiles -----------------------------
(***************************************************************************)
(* Script files and the script engine (internal/scripting: loader.go,      *)
(* manager.go, Engine.Reload).  The scripts directory is the truth; the    *)
(* engine holds the enabled scripts of the last load.  The TUI's script    *)
(* modal and the MCP tools change files and reload the engine, in any      *)
(* order: nothing but the engine's slice is protected by a lock.  Any      *)
(* os.WriteFile may fail, before or after it truncated the file, and any   *)
(* file of the directory may be unreadable; os.ReadDir does not fail.      *)
(*                                                                         *)
(* Every system call and every critical section is a step.  apc[a] is      *)
(* where manager a is:                                                     *)
(*   idle                                                                  *)
(*   scan       in LoadDir, about to read the next file                    *)
(*   truncate, backfill     ensureScriptID's os.WriteFile                  *)
(*   toggle, totrunc, towrite   ToggleEnabled: read, then os.WriteFile     *)
(*   remove                 DeleteScript                                   *)
(*   fill                   after os.CreateTemp, before the script's write *)
(*   edit                   the TUI waits for the user's editor            *)
(*   clear, (scan), loaded  Engine.Reload: about to clear, loading, done   *)
(* stage[a] says what a scan is for: find (ScriptByID), load (LoadFromDir) *)
(* or show (Scripts).                                                      *)
(***************************************************************************)
EXTENDS Ordering

CONSTANTS
  Files,      \* file names in the directory's order, as numbers
  Handlers,   \* MCP requests that can be in progress at a time
  MaxCalls    \* operations that are started, in all

ASSUME FilesAssumption == /\ Files \subseteq Nat /\ IsFiniteSet(Files)
                          /\ MaxCalls \in Nat
                          /\ "tui" \notin Handlers

VARIABLES
  disk,      \* file -> its content
  engine,    \* the engine's scripts: a sequence of files
  apc,       \* manager -> program counter
  op,        \* manager -> the operation in progress
  stage,     \* manager -> what its LoadDir is for
  todo,      \* manager -> directory entries still to read
  got,       \* manager -> scripts and errors so far: a sequence of Entry
  target,    \* manager -> the file its operation is about, 0 if none
  buf,       \* manager -> content read and about to be written back
  listed,    \* files in the TUI's list
  known,     \* file -> the ID an MCP client was last told for it, 0 if none
  gone,      \* files that were deleted
  asked,     \* files made by create_script with no "enabled" in the request
  lastID,    \* number of IDs generated so far
  calls,     \* number of operations started so far
  disturbed, \* TRUE: since the last Reload that began while nobody else was midway, two
             \* managers were midway at once, or a file could not be read or rewritten
  clashed    \* TRUE: two managers have been writing files at once, or a lost file was made
             \* anew in the editor, during an operation of someone else

sfVars == <<disk, engine, apc, op, stage, todo, got, target, buf, listed, known, gone,
            asked, lastID, calls, disturbed, clashed>>
marks == <<disturbed, clashed>>

Managers == Handlers \cup {"tui"}

\* A file's content, as far as the header goes: st is none (no such file), empty
\* (just created, or truncated), bad (ParseHeader fails) or good.
Content == [st : {"none", "empty", "bad", "good"}, id : Nat, enabled : BOOLEAN]
Entry == [file : Files, id : Nat, enabled : BOOLEAN]
NoFile == [st |-> "none", id |-> 0, enabled |-> FALSE]
EmptyFile == [NoFile EXCEPT !.st = "empty"]
Script(id, enabled) == [st |-> "good", id |-> id, enabled |-> enabled]

Present == {f \in Files : disk[f].st # "none"}
Least(S) == CHOOSE f \in S : \A g \in S : f <= g

\* main: LoadFromDir before anything is served; the files are the user's, with or
\* without an ID.
SFInit ==
  /\ disk \in [Files -> {NoFile, Script(0, TRUE)}]
  /\ engine = << >>
  /\ apc = [a \in Managers |-> IF a = "tui" THEN "scan" ELSE "idle"]
  /\ op = [a \in Managers |-> IF a = "tui" THEN "start" ELSE "none"]
  /\ stage = [a \in Managers |-> "load"]
  /\ todo = [a \in Managers |-> IF a = "tui" THEN Present ELSE {}]
  /\ got = [a \in Managers |-> << >>]
  /\ target = [a \in Managers |-> 0]
  /\ buf = [a \in Managers |-> NoFile]
  /\ listed = {} /\ gone = {} /\ asked = {}
  /\ known = [f \in Files |-> 0]
  /\ lastID = 0 /\ calls = 0
  /\ disturbed = FALSE /\ clashed = FALSE

Goto(a, pc) == apc' = [apc EXCEPT ![a] = pc]
Moves(a, from, to) == apc[a] = from /\ Goto(a, to)

Others(a) == Managers \ {a}

\* Between the read and the write of a file, and between Reload's two critical sections.
Writing(a) == apc[a] \in {"truncate", "backfill", "totrunc", "towrite", "fill"}
Midway(a) == Writing(a) \/ (apc[a] = "scan" /\ stage[a] = "load")

\* What the history variables remember when a starts to write.
BeginsToWrite(a) ==
  /\ disturbed' = (disturbed \/ \E b \in Others(a) : Midway(b))
  /\ clashed' = (clashed \/ \E b \in Others(a) : Writing(b))
GoesWrong == disturbed' = TRUE /\ UNCHANGED clashed

-----------------------------------------------------------------------------
(* LoadDir *)

\* os.ReadDir.
StartScan(a, for) ==
  /\ Goto(a, "scan")
  /\ stage' = [stage EXCEPT ![a] = for]
  /\ todo' = [todo EXCEPT ![a] = Present]
  /\ got' = [got EXCEPT ![a] = << >>]

Next1(a) == Least(todo[a])
Found(a, c) == got' = [got EXCEPT ![a] = Append(@, [file |-> Next1(a), id |-> c.id,
                                                    enabled |-> c.enabled])]
Drop(a) == todo' = [todo EXCEPT ![a] = @ \ {Next1(a)}]

\* Reads the next file: one that is gone or does not parse goes to the errors (an
\* entry without an ID), one without an ID gets one first.
ReadScript(a) ==
  /\ apc[a] = "scan" /\ todo[a] # {}
  /\ LET c == disk[Next1(a)] IN
       \/ /\ c.st # "good" /\ Drop(a) /\ Found(a, NoFile)
          /\ UNCHANGED <<apc, buf, marks>>
       \/ /\ c.st = "good" /\ c.id # 0 /\ Drop(a) /\ Found(a, c)
          /\ UNCHANGED <<apc, buf, marks>>
       \/ /\ c.st = "good" /\ c.id = 0 /\ Goto(a, "truncate")
          /\ buf' = [buf EXCEPT ![a] = c]
          /\ BeginsToWrite(a)
          /\ UNCHANGED <<todo, got>>
  /\ UNCHANGED <<disk, engine, op, stage, target, listed, known, gone, asked, lastID, calls>>

\* os.WriteFile opens with O_CREATE and O_TRUNC ...
Truncate(f) == disk' = [disk EXCEPT ![f] = EmptyFile]
\* ... and writes to what it opened; a file removed since then stays removed.
WriteOpen(f, c) == disk' = [disk EXCEPT ![f] = IF @.st = "none" THEN @ ELSE c]

TruncateForID(a) ==
  /\ Moves(a, "truncate", "backfill")
  /\ Truncate(Next1(a))
  /\ UNCHANGED <<engine, op, stage, todo, got, target, buf, listed, known, gone, asked,
                 lastID, calls, marks>>

\* The ID is used but the source is written back as it was read.
BackfillForgets(a) ==
  /\ Moves(a, "backfill", "scan")
  /\ lastID' = lastID + 1
  /\ WriteOpen(Next1(a), buf[a])
  /\ Found(a, [buf[a] EXCEPT !.id = lastID']) /\ Drop(a)
  /\ UNCHANGED <<engine, op, stage, target, buf, listed, known, gone, asked, calls, marks>>

Backfill(a) ==
  /\ Moves(a, "backfill", "scan")
  /\ lastID' = lastID + 1
  /\ WriteOpen(Next1(a), [buf[a] EXCEPT !.id = lastID'])
  /\ Found(a, [buf[a] EXCEPT !.id = lastID']) /\ Drop(a)
  /\ UNCHANGED <<engine, op, stage, target, buf, listed, known, gone, asked, calls, marks>>

\* A file that cannot be read, or whose ID cannot be written, goes to the errors, whether
\* it is as it was or was truncated before the write failed.
Skip(a) ==
  /\ apc[a] \in {"scan", "truncate", "backfill"} /\ todo[a] # {}
  /\ Goto(a, "scan") /\ Drop(a) /\ Found(a, NoFile)
  /\ GoesWrong
  /\ UNCHANGED <<disk, engine, op, stage, target, buf, listed, known, gone, asked, lastID,
                 calls>>

Scanned(a, for) == apc[a] = "scan" /\ todo[a] = {} /\ stage[a] = for
Entries(a) == {got[a][i] : i \in 1 .. Len(got[a])}
Valid(a) == {s \in Entries(a) : s.id # 0}

-----------------------------------------------------------------------------
(* Engine.Reload *)

\* The first critical section; dir-loaded scripts are the only ones there are,
\* since nothing but tests calls LoadScript.  LoadDir follows.
Clear(a) ==
  /\ apc[a] = "clear"
  /\ engine' = << >>
  /\ StartScan(a, "load")
  /\ disturbed' = \E b \in Others(a) : Midway(b)
  /\ UNCHANGED <<disk, op, target, buf, listed, known, gone, asked, lastID, calls, clashed>>

\* LoadFromDir's critical section: the enabled scripts are added.
AppendEnabled(a) ==
  /\ Scanned(a, "load")
  /\ LET enabled == Kept(got[a], {i \in 1 .. Len(got[a]) : got[a][i].enabled})
     IN  engine' = engine \o [i \in 1 .. Len(enabled) |-> enabled[i].file]
  /\ Goto(a, "loaded")
  /\ UNCHANGED <<disk, op, stage, todo, got, target, buf, listed, known, gone, asked,
                 lastID, calls, marks>>

Finish(a) == Goto(a, "idle") /\ UNCHANGED <<stage, todo, got>>

\* After the reload the TUI refreshes its list, create_script looks up its ID;
\* toggle_script and delete_script return, and so does the load at startup.
AfterReload(a) ==
  /\ apc[a] = "loaded"
  /\ IF op[a] = "start" \/ (a # "tui" /\ op[a] \in {"toggle", "delete"})
     THEN Finish(a)
     ELSE StartScan(a, "show")
  /\ op' = [op EXCEPT ![a] = IF @ = "start" THEN "none" ELSE @]
  /\ UNCHANGED <<disk, engine, target, buf, listed, known, gone, asked, lastID, calls, marks>>

\* Scripts returns: the TUI lists the files, those with errors too; an MCP client
\* gets the IDs.
Shown(a) ==
  /\ Scanned(a, "show")
  /\ Finish(a)
  /\ listed' = IF a = "tui" THEN {s.file : s \in Entries(a)} ELSE listed
  /\ known' = [f \in Files |->
                 IF a # "tui" /\ \E s \in Valid(a) : s.file = f
                 THEN (CHOOSE s \in Valid(a) : s.file = f).id ELSE known[f]]
  /\ UNCHANGED <<disk, engine, op, target, buf, gone, asked, lastID, calls, marks>>

-----------------------------------------------------------------------------
(* Operations *)

CanStart(a) == /\ apc[a] = "idle" /\ calls < MaxCalls
               /\ op["tui"] # "start"

Starts(a, kind) == op' = [op EXCEPT ![a] = kind] /\ calls' = calls + 1

\* The TUI opens the modal ("S"): Reload, then Scripts.
OpenModal ==
  /\ CanStart("tui") /\ Starts("tui", "open") /\ Goto("tui", "clear")
  /\ UNCHANGED <<disk, engine, stage, todo, got, target, buf, listed, known, gone, asked,
                 lastID, marks>>

\* Keys on an entry of the TUI's list, which may be out of date.
KeyOnEntry ==
  /\ CanStart("tui")
  /\ \E f \in listed : target' = [target EXCEPT !["tui"] = f]
  /\ \/ Starts("tui", "toggle") /\ Goto("tui", "toggle")
     \/ Starts("tui", "delete") /\ Goto("tui", "remove")
     \/ Starts("tui", "edit") /\ Goto("tui", "edit")
  /\ UNCHANGED <<disk, engine, stage, todo, got, buf, listed, known, gone, asked, lastID,
                 marks>>

\* os.CreateTemp: an empty file under a name that was not there before.
NewScript(a, kind) ==
  /\ CanStart(a) /\ Starts(a, kind)
  /\ \E f \in Files \ (Present \cup gone) :
       target' = [target EXCEPT ![a] = f] /\ Truncate(f)
  /\ Goto(a, "fill") /\ BeginsToWrite(a)
  /\ UNCHANGED <<engine, stage, todo, got, buf, listed, known, gone, asked, lastID>>

\* CreateNew (then the editor) and QuickAddMapLocal.
NewInTUI == NewScript("tui", "new") \/ NewScript("tui", "maplocal")

\* create_script and mock_response.
NewByTool(a) == a # "tui" /\ (NewScript(a, "create") \/ NewScript(a, "mock"))

\* The MCP tools that name a script look its ID up first; list_scripts and
\* get_script only look.
ToolCall(a) ==
  /\ a # "tui" /\ CanStart(a)
  /\ \/ Starts(a, "list") /\ StartScan(a, "show")
     \/ \E kind \in {"toggle", "delete"} : Starts(a, kind) /\ StartScan(a, "find")
  /\ UNCHANGED <<disk, engine, target, buf, listed, known, gone, asked, lastID, marks>>

\* ScriptByID found a script, or did not.
Picked(a) ==
  /\ Scanned(a, "find")
  /\ \/ \E s \in Valid(a) :
          /\ target' = [target EXCEPT ![a] = s.file]
          /\ Goto(a, IF op[a] = "toggle" THEN "toggle" ELSE "remove")
     \/ Goto(a, "idle") /\ UNCHANGED target
  /\ UNCHANGED <<disk, engine, op, stage, todo, got, buf, listed, known, gone, asked,
                 lastID, calls, marks>>

\* On an error the TUI refreshes its list; an MCP tool returns the error.
Fails(a) == IF a = "tui" THEN StartScan(a, "show") ELSE Finish(a)

\* ToggleEnabled reads and parses the file ...
ToggleRead(a) ==
  /\ apc[a] = "toggle"
  /\ LET c == disk[target[a]] IN
       \/ /\ c.st = "good"
          /\ buf' = [buf EXCEPT ![a] = [c EXCEPT !.enabled = ~@]]
          /\ Goto(a, "totrunc") /\ BeginsToWrite(a) /\ UNCHANGED <<stage, todo, got>>
       \/ c.st # "good" /\ Fails(a) /\ UNCHANGED <<buf, marks>>
  /\ UNCHANGED <<disk, engine, op, target, listed, known, gone, asked, lastID, calls>>

\* ... and rewrites it.
ToggleTruncate(a) ==
  /\ Moves(a, "totrunc", "towrite")
  /\ Truncate(target[a])
  /\ UNCHANGED <<engine, op, stage, todo, got, target, buf, listed, known, gone, asked,
                 lastID, calls, marks>>

\* Toggle forgets to reload.
ToggleNoReload(a) ==
  /\ Moves(a, "towrite", "idle")
  /\ WriteOpen(target[a], buf[a])
  /\ UNCHANGED <<engine, op, stage, todo, got, target, buf, listed, known, gone, asked,
                 lastID, calls, marks>>

ToggleWrite(a) ==
  /\ Moves(a, "towrite", "clear")
  /\ WriteOpen(target[a], buf[a])
  /\ UNCHANGED <<engine, op, stage, todo, got, target, buf, listed, known, gone, asked,
                 lastID, calls, marks>>

\* os.WriteFile failed, before or after it truncated the file: Toggle returns the error
\* and does not reload.
ToggleFails(a) ==
  /\ apc[a] \in {"totrunc", "towrite"}
  /\ Fails(a) /\ GoesWrong
  /\ UNCHANGED <<disk, engine, op, target, buf, listed, known, gone, asked, lastID, calls>>

Remove(a) ==
  /\ apc[a] = "remove"
  /\ \/ /\ disk[target[a]].st # "none"
        /\ disk' = [disk EXCEPT ![target[a]] = NoFile]
        /\ gone' = gone \cup {target[a]}
        /\ Goto(a, "clear") /\ UNCHANGED <<stage, todo, got>>
     \/ /\ disk[target[a]].st = "none"
        /\ Fails(a) /\ UNCHANGED <<disk, gone>>
  /\ UNCHANGED <<engine, op, target, buf, listed, known, asked, lastID, calls, marks>>

\* The write after os.CreateTemp; Reload follows, or the editor.
Writes(a, c, next) ==
  /\ Moves(a, "fill", next)
  /\ WriteOpen(target[a], c)
  /\ UNCHANGED <<engine, op, stage, todo, got, target, buf, listed, known, gone, calls,
                 marks>>

\* The write failed: the TUI's functions remove the new file, the MCP tools leave it
\* empty; nothing is reloaded.  QuickAddMapLocal's caller lists the scripts all the same.
FillFails(a) ==
  /\ apc[a] = "fill"
  /\ IF op[a] = "maplocal" THEN StartScan(a, "show") ELSE Finish(a)
  /\ disk' = IF a = "tui" THEN [disk EXCEPT ![target[a]] = NoFile] ELSE disk
  /\ UNCHANGED <<engine, op, target, buf, listed, known, gone, asked, lastID, calls, marks>>

\* The TUI's templates have an ID and are enabled.
FillTemplate(a) ==
  /\ op[a] \in {"new", "maplocal"}
  /\ lastID' = lastID + 1
  /\ Writes(a, Script(lastID', TRUE), IF op[a] = "new" THEN "edit" ELSE "clear")
  /\ UNCHANGED asked

\* mock_response's script is enabled and has no ID.
FillMock(a) ==
  /\ op[a] = "mock"
  /\ Writes(a, Script(0, TRUE), "clear")
  /\ UNCHANGED <<asked, lastID>>

\* create_script writes the flag it decoded, which is false when the request has none,
\* and no ID.
FillCreate(a) ==
  /\ op[a] = "create"
  /\ \E flag \in {"omitted", "true", "false"} :
       /\ Writes(a, Script(0, flag = "true"), "clear")
       /\ asked' = IF flag = "omitted" THEN asked \cup {target[a]} ELSE asked
  /\ UNCHANGED lastID

\* The user saves in the editor and leaves it: the header is kept, switched over or
\* broken; a file that is gone or empty is made anew, without an ID.
\* scriptEditorFinishedMsg reloads.
EditorExits ==
  /\ Moves("tui", "edit", "clear")
  /\ LET c == disk[target["tui"]] IN
       \E e \in BOOLEAN, s \in {"good", "bad"} :
          /\ disk' = [disk EXCEPT ![target["tui"]] = [st |-> s, id |-> c.id, enabled |-> e]]
          /\ clashed' = \/ clashed
                        \/ /\ c.st \in {"none", "empty"}
                           /\ \E b \in Others("tui") : apc[b] # "idle"
  /\ gone' = gone \ {target["tui"]}
  /\ known' = [known EXCEPT ![target["tui"]] = IF disk[target["tui"]].id = @ THEN @ ELSE 0]
  /\ UNCHANGED <<engine, op, stage, todo, got, target, buf, listed, asked, lastID, calls,
                 disturbed>>

-----------------------------------------------------------------------------

ManagerStep(a) ==
  \/ ReadScript(a) \/ TruncateForID(a) \/ Backfill(a) \/ Skip(a)
  \/ Clear(a) \/ AppendEnabled(a) \/ AfterReload(a) \/ Shown(a)
  \/ Picked(a) \/ ToggleRead(a) \/ ToggleTruncate(a) \/ ToggleWrite(a)
  \/ ToggleFails(a) \/ Remove(a)
  \/ FillTemplate(a) \/ FillMock(a) \/ FillCreate(a) \/ FillFails(a)

SFNext == \/ OpenModal \/ KeyOnEntry \/ NewInTUI \/ EditorExits
          \/ \E a \in Managers : NewByTool(a) \/ ToolCall(a) \/ ManagerStep(a)

SFSpec == SFInit /\ [][SFNext]_sfVars

-----------------------------------------------------------------------------
(* Properties *)

PCs == {"idle", "scan", "truncate", "backfill", "toggle", "totrunc", "towrite",
        "remove", "fill", "edit", "clear", "loaded"}

\* Files, buffers and program counters stay in range.
SFTypeOK ==
  /\ disk \in [Files -> Content]
  /\ engine \in Seq(Files)
  /\ apc \in [Managers -> PCs]
  /\ stage \in [Managers -> {"find", "load", "show"}]
  /\ todo \in [Managers -> SUBSET Files]
  /\ got \in [Managers -> Seq(Entry)]
  /\ target \in [Managers -> Files \cup {0}]
  /\ buf \in [Managers -> Content]
  /\ listed \subseteq Files /\ gone \subseteq Files /\ asked \subseteq Files
  /\ known \in [Files -> Nat]
  /\ lastID \in Nat /\ calls \in 0 .. MaxCalls
  /\ \A f \in Files : disk[f].id <= lastID
  /\ disturbed \in BOOLEAN /\ clashed \in BOOLEAN

Quiet == \A a \in Managers : apc[a] = "idle"
EnabledOnDisk == {f \in Files : disk[f].st = "good" /\ disk[f].enabled}
Loaded == {engine[i] : i \in 1 .. Len(engine)}

Matches == /\ Loaded = EnabledOnDisk
           /\ \A i, j \in 1 .. Len(engine) : i < j => engine[i] < engine[j]

\* "Reload clears dir-loaded scripts and re-loads from dir": whenever nothing is in
\* progress, the engine runs the scripts that are enabled on disk, each once and in
\* the directory's order, whatever was toggled, created, edited, broken or deleted and
\* whatever else was going on: unless two managers were midway at once or a file could
\* not be read or rewritten, and then from the next Reload on that has nobody beside it.
EngineMatchesDisk == Quiet /\ ~disturbed => Matches

\* The ID an MCP client was told never leads to another script (ScriptByID), whatever
\* overlaps and fails; and unless two managers were writing at once it goes on naming the
\* script, which toggling, editing and further scans keep.
KnownIDsWork ==
  \A f \in Files : known[f] # 0 =>
    /\ \A g \in Files : disk[g].id = known[f] => g = f
    /\ disk[f].st = "good" /\ ~clashed => disk[f].id = known[f]

-----------------------------------------------------------------------------
(* What the documentation says and the code does not do: TLC refutes each  *)
(* of these (README, "Divergences").                                       *)

\* "Reload clears dir-loaded scripts and re-loads from dir", whatever the order of the
\* operations and whatever failed.
ReloadShowsDisk == Quiet => Matches

\* delete_script: "Remove a script".  A deleted file does not come back.
DeletedStaysDeleted == \A f \in gone : disk[f].st = "none"

\* create_script: "enabled state (default true)".
CreatedEnabledByDefault ==
  [][\A f \in asked' \ asked : disk'[f].st = "good" => disk'[f].enabled]_sfVars

\* The design's data flow, "each enabled script where glob matches": a request, which
\* copies the engine's scripts at any moment, runs a script that is enabled, loaded
\* and not being changed.
NeverUnloadsEnabled ==
  [][Loaded \cap EnabledOnDisk \cap EnabledOnDisk' \subseteq Loaded']_sfVars
=============================================================================
