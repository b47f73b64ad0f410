---------------------------- MODULE MCScriptFiles ----------------------------
(* Script files for TLC: the constants are given in the configurations.     *)
EXTENDS ScriptFiles

\* What becomes of the entries of a scan: a load keeps the enabled files, a look-up and
\* an MCP client's list the IDs, the TUI's list the files.
Yield(a) == IF stage[a] = "load" THEN {s.file : s \in {s \in Entries(a) : s.enabled}}
            ELSE IF a = "tui" THEN {s.file : s \in Entries(a)}
            ELSE {<<s.file, s.id>> : s \in Valid(a)}

\* The locals of a manager that something still reads.
Scans(a) == apc[a] \in {"scan", "truncate", "backfill"}
Locals(a) == [pc |-> apc[a],
              op |-> IF apc[a] = "idle" THEN "none" ELSE op[a],
              scan |-> IF Scans(a) THEN <<stage[a], todo[a], Yield(a)>> ELSE <<>>,
              target |-> IF apc[a] \in {"toggle", "totrunc", "towrite", "remove", "fill",
                                        "edit"} THEN target[a] ELSE 0,
              buf |-> IF apc[a] \in {"truncate", "backfill", "totrunc", "towrite"}
                      THEN buf[a] ELSE NoFile]

\* States that differ in the other locals only, or in "asked", behave alike.
View == <<disk, engine, [a \in Managers |-> Locals(a)], listed, known, gone, lastID, calls,
          marks>>
=============================================================================
