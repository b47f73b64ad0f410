------------------------------ MODULE MCDataDir ------------------------------
(* Runs of httpmon on one data directory, one after the other or side by side. *)
EXTENDS CA, TLC

\* Nothing is asked of the states after the first meeting.
Apart == ~raced

\* What of a process's memory a later step or a property reads.
Memory(a) ==
  CASE ~On(a) -> <<>>
    [] ppc[a] = "tui" -> <<settings[a]>>
    [] ppc[a] \in {"settings", "saveSettings", "writeSettings"} -> <<settings[a], edited[a]>>
    [] OTHER -> <<job[a], cfg[a], ca[a]>>

View == <<file, legacy, first, ppc, [a \in Procs |-> Memory(a)], history, saw, made, runs,
          combo, certFile, signed, trusted, madeCAs>>

Alike == Permutations(Procs)
=============================================================================
