------------------------------- MODULE Config -------------------------------
(***************************************************************************)
(* config.json and the MCP bearer token (internal/config, main, the TUI's  *)
(* settings screen).  A process loads the file, lays its flags over it,    *)
(* sets up the proxy (CA), gets its token (from the file, from the legacy  *)
(* mcp-token file, or a new one, which is saved) and announces it, and     *)
(* runs; asked to print the token, it does only that.  Its settings screen *)
(* loads the file again and saves it when it is closed.  Several processes *)
(* may share the data directory, and a process may be killed between any   *)
(* two system calls.                                                       *)
(*                                                                         *)
(* Of the configuration the model keeps the token and two of the fields    *)
(* the settings screen edits: one that a flag can override as well (port,  *)
(* which stands for the MCP fields, the buffer size and the throttle too)  *)
(* and one that no flag does (mode: list mode, tree grouping).             *)
(***************************************************************************)
EXTENDS Integers

CONSTANTS
  Procs,      \* processes at a time
  MaxRuns,    \* starts, in all
  Crashes     \* whether processes may be killed and saves fail

ASSUME ConfigAssumption == MaxRuns \in Nat /\ Crashes \in BOOLEAN

VARIABLES
  file,      \* config.json: [st, token, port, mode], st none, empty or good
  legacy,    \* the token in the legacy file, 0 if there is none
  first,     \* the token the legacy file had at the beginning
  ppc,       \* process -> program counter
  job,       \* process -> what it was started for: plain, serve (--mcp), print (--mcp-token)
             \* or install (--install-ca)
  cfg,       \* process -> its configuration
  settings,  \* process -> the settings screen's configuration
  edited,    \* process -> the fields edited on the screen since it was opened
  wanted,    \* field -> what the user saved last, "any" if the user never did
  flagged,   \* a token was saved with a flag's port since the user saved a port
  raced,     \* two processes met between reading and writing the file, see Start
  saw,       \* the tokens announced so far
  made,      \* number of tokens generated or found so far
  runs       \* number of starts so far

history == <<wanted, flagged, raced>>
cfVars == <<file, legacy, first, ppc, job, cfg, settings, edited, history, saw, made, runs>>

\* port: missing (in a file of an older version), the default, chosen by the user, a flag's.
Contents == [st : {"none", "empty", "good"}, token : Nat,
             port : {"missing", "default", "chosen", "flag"}, mode : {"old", "new"}]
NoFile == [st |-> "none", token |-> 0, port |-> "default", mode |-> "old"]
EmptyFile == [NoFile EXCEPT !.st = "empty"]
Default == [NoFile EXCEPT !.st = "good"]
Older == [Default EXCEPT !.port = "missing"]

Nothing == [port |-> "any", mode |-> "any"]

CfInit ==
  /\ file \in {NoFile, Default, Older}
  /\ legacy \in {0, 1} /\ first = legacy
  /\ ppc = [a \in Procs |-> "off"]
  /\ job = [a \in Procs |-> "plain"]
  /\ cfg = [a \in Procs |-> NoFile] /\ settings = [a \in Procs |-> NoFile]
  /\ edited = [a \in Procs |-> {}]
  /\ wanted = Nothing /\ flagged = FALSE /\ raced = FALSE
  /\ saw = {} /\ made = legacy /\ runs = 0

Moves(a, from, to) == ppc[a] = from /\ ppc' = [ppc EXCEPT ![a] = to]
On(a) == ppc[a] # "off"

\* Between its start and its TUI, or on its settings screen.
Busy(a) == ppc[a] \notin {"off", "tui"}
Meets(a) == \E b \in Procs \ {a} : Busy(b)

-----------------------------------------------------------------------------

\* Load: no file gives the defaults, one that does not parse an error, and applyDefaults
\* gives a field that an older file has not its default.
Loaded(f) ==
  IF f.st = "none" THEN Default
  ELSE IF f.port = "missing" THEN [f EXCEPT !.port = "default"] ELSE f

\* main up to the token: Load, whose error is fatal, then ApplyFlags.
Start(a) ==
  /\ ~On(a) /\ runs < MaxRuns
  /\ runs' = runs + 1 /\ raced' = (raced \/ Meets(a))
  /\ \E j \in {"plain", "serve", "print", "install"}, flag \in BOOLEAN :
       /\ job' = [job EXCEPT ![a] = j]
       /\ cfg' = [cfg EXCEPT ![a] = IF flag THEN [Loaded(file) EXCEPT !.port = "flag"]
                                    ELSE Loaded(file)]
       /\ ppc' = [ppc EXCEPT ![a] = IF file.st = "empty" THEN "off"
                                    ELSE IF j = "print" THEN "token" ELSE "init"]
  /\ settings' = [settings EXCEPT ![a] = NoFile] /\ edited' = [edited EXCEPT ![a] = {}]
  /\ UNCHANGED <<file, legacy, first, wanted, flagged, saw, made>>

\* LoadOrCreateToken: the token of the file, the legacy file's, or a new one.
FindToken(a) ==
  /\ \/ /\ cfg[a].token # 0 /\ Moves(a, "token", "announce")
        /\ UNCHANGED <<cfg, made>>
     \/ /\ cfg[a].token = 0 /\ legacy # 0 /\ Moves(a, "token", "remove")
        /\ cfg' = [cfg EXCEPT ![a].token = legacy]
        /\ UNCHANGED made
     \/ /\ cfg[a].token = 0 /\ legacy = 0 /\ Moves(a, "token", "save")
        /\ made' = made + 1
        /\ cfg' = [cfg EXCEPT ![a].token = made']
  /\ UNCHANGED <<file, legacy, first, job, settings, edited, history, saw, runs>>

\* os.Remove of the legacy file, before Save.
RemoveLegacy(a) ==
  /\ Moves(a, "remove", "save")
  /\ legacy' = 0
  /\ UNCHANGED <<file, first, job, cfg, settings, edited, history, saw, made, runs>>

\* The token is not saved.
WriteTokenForgets(a) ==
  /\ Moves(a, "write", "announce")
  /\ file' = [cfg[a] EXCEPT !.token = 0]
  /\ flagged' = (flagged \/ file'.port = "flag")
  /\ UNCHANGED <<legacy, first, job, cfg, settings, edited, wanted, raced, saw, made, runs>>

\* The defaults are saved with the token.
WriteTokenDefaults(a) ==
  /\ Moves(a, "write", "announce")
  /\ file' = [Default EXCEPT !.token = cfg[a].token]
  /\ flagged' = (flagged \/ file'.port = "flag")
  /\ UNCHANGED <<legacy, first, job, cfg, settings, edited, wanted, raced, saw, made, runs>>

\* Save: os.WriteFile truncates ...
TruncateFile(a) ==
  /\ Moves(a, "save", "write") \/ Moves(a, "saveSettings", "writeSettings")
  /\ file' = EmptyFile
  /\ UNCHANGED <<legacy, first, job, cfg, settings, edited, history, saw, made, runs>>

\* ... and writes the whole configuration, flags included.
WriteToken(a) ==
  /\ Moves(a, "write", "announce")
  /\ file' = cfg[a]
  /\ flagged' = (flagged \/ file'.port = "flag")
  /\ UNCHANGED <<legacy, first, job, cfg, settings, edited, wanted, raced, saw, made, runs>>

\* The token is printed, and with --mcp-token that is all; else the server takes it.
Announce(a) ==
  /\ Moves(a, "announce", IF job[a] = "print" THEN "off" ELSE "tui")
  /\ saw' = saw \cup {cfg[a].token}
  /\ UNCHANGED <<file, legacy, first, job, cfg, settings, edited, history, made, runs>>

\* initSettings: a file that does not parse leaves what the screen had, if anything.
OpenSettings(a) ==
  /\ Moves(a, "tui", "settings")
  /\ settings' = [settings EXCEPT ![a] = IF file.st = "empty" THEN @ ELSE Loaded(file)]
  /\ edited' = [edited EXCEPT ![a] = {}]
  /\ raced' = (raced \/ Meets(a) \/ (file.st = "empty" /\ settings[a].st = "good"))
  /\ UNCHANGED <<file, legacy, first, job, cfg, wanted, flagged, saw, made, runs>>

\* updateSettings and updateSettingsInput: a field is changed, if the screen has any.
EditSetting(a) ==
  /\ Moves(a, "settings", "settings")
  /\ settings[a].st = "good"
  /\ \/ /\ \E mode \in {"old", "new"} : settings' = [settings EXCEPT ![a].mode = mode]
        /\ edited' = [edited EXCEPT ![a] = @ \cup {"mode"}]
     \/ /\ \E port \in {"default", "chosen"} : settings' = [settings EXCEPT ![a].port = port]
        /\ edited' = [edited EXCEPT ![a] = @ \cup {"port"}]
  /\ UNCHANGED <<file, legacy, first, job, cfg, history, saw, made, runs>>

\* Closing the screen saves what it has.
CloseSettings(a) ==
  /\ Moves(a, "settings", IF settings[a].st = "good" THEN "saveSettings" ELSE "tui")
  /\ UNCHANGED <<file, legacy, first, job, cfg, settings, edited, history, saw, made, runs>>

WriteSettings(a) ==
  /\ Moves(a, "writeSettings", "tui")
  /\ file' = settings[a]
  /\ wanted' = [port |-> IF "port" \in edited[a] THEN settings[a].port ELSE wanted.port,
                mode |-> IF "mode" \in edited[a] THEN settings[a].mode ELSE wanted.mode]
  /\ flagged' = (flagged /\ "port" \notin edited[a])
  /\ UNCHANGED <<legacy, first, job, cfg, settings, edited, raced, saw, made, runs>>

\* The screen does not look at Save's error, whether the file could be opened or not.  (An
\* error of the token's save ends the process: Crash.)
SaveFails(a) ==
  /\ Crashes
  /\ Moves(a, "saveSettings", "tui") \/ Moves(a, "writeSettings", "tui")
  /\ UNCHANGED <<file, legacy, first, job, cfg, settings, edited, history, saw, made, runs>>

Quit(a) ==
  /\ Moves(a, "tui", "off")
  /\ UNCHANGED <<file, legacy, first, job, cfg, settings, edited, history, saw, made, runs>>

Crash(a) ==
  /\ Crashes /\ On(a)
  /\ ppc' = [ppc EXCEPT ![a] = "off"]
  /\ UNCHANGED <<file, legacy, first, job, cfg, settings, edited, history, saw, made, runs>>

CfNext == \E a \in Procs :
  \/ Start(a) \/ FindToken(a) \/ RemoveLegacy(a) \/ TruncateFile(a) \/ WriteToken(a)
  \/ Announce(a) \/ OpenSettings(a) \/ EditSetting(a) \/ CloseSettings(a)
  \/ WriteSettings(a) \/ SaveFails(a) \/ Quit(a) \/ Crash(a)

-----------------------------------------------------------------------------
(* Properties *)

\* Files, configurations and program counters stay in range; a running process has a
\* configuration that parsed, and no file holds a token that was never made.
CfTypeOK ==
  /\ file \in Contents /\ cfg \in [Procs -> Contents] /\ settings \in [Procs -> Contents]
  /\ edited \in [Procs -> SUBSET {"port", "mode"}]
  /\ wanted \in [port : {"any", "default", "chosen"}, mode : {"any", "old", "new"}]
  /\ flagged \in BOOLEAN /\ raced \in BOOLEAN
  /\ legacy \in Nat /\ first \in Nat /\ made \in Nat
  /\ ppc \in [Procs -> {"off", "init", "create", "key", "cert", "pem", "writePem", "load",
                        "install", "token", "remove", "save", "write", "announce", "tui",
                        "settings", "saveSettings", "writeSettings"}]
  /\ job \in [Procs -> {"plain", "serve", "print", "install"}]
  /\ saw \subseteq 1 .. made /\ runs \in 0 .. MaxRuns
  /\ \A a \in Procs : On(a) => cfg[a].st = "good"
  /\ file.token <= made /\ legacy <= made

Quiet == \A a \in Procs : ~On(a)

\* The bearer token is one token: what "--mcp-token" prints, which the user puts into the
\* client's configuration, is what every MCP server accepts, before and after, whatever
\* runs beside it, whatever settings, flags, failures and crashes come in between; as long
\* as no process starts or opens its settings while another one is between reading the
\* file and writing it, or over a file that an interrupted save left empty with an older
\* copy on the screen (OneTokenAlways is without that).
OneToken == ~raced => \A t, u \in saw : t = u

\* What the user changed in the settings and saved is there at the next start: no save of
\* a token, or of the screen itself, takes it back.  Not so a field that a flag overrides,
\* once a token was saved together with the flags, nor when processes met as in OneToken
\* (PortKept is without the first condition).
SettingsKept ==
  ~raced /\ Quiet /\ file.st = "good" =>
    /\ wanted.mode # "any" => file.mode = wanted.mode
    /\ wanted.port # "any" /\ ~flagged => Loaded(file).port = wanted.port

Tokens == {file.token, legacy} \cup {cfg[a].token : a \in {b \in Procs : On(b)}}

-----------------------------------------------------------------------------
(* What the documentation says and the code does not do: TLC refutes each  *)
(* of these (README, "Divergences").                                       *)

\* "Persistent configuration is stored in config.json (created on first run)."
CreatedOnFirstRun == runs > 0 /\ Quiet => file.st # "none"

\* "--mcp-token" prints the token for a client of the server that runs meanwhile: all tokens
\* ever announced are one.
OneTokenAlways == \A t, u \in saw : t = u

\* "CLI flags override config values for that session": a port that the user saved is there
\* at the next start, even if a session with a flag saved a token in between.
PortKept ==
  ~raced /\ Quiet /\ file.st = "good" /\ wanted.port # "any" => Loaded(file).port = wanted.port

\* "CLI flags override config values for that session."
FlagsOnlyForSession == file.port # "flag"

\* The migration, whatever it is interrupted by, does not lose the token.
MigrationKeepsToken == first # 0 => first \in Tokens
=============================================================================
