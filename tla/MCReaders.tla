------------------------------ MODULE MCReaders ------------------------------
(* One reader next to the capture pipeline over a small store, for TLC. *)
EXTENDS Readers, TLC

Symmetric == Permutations(FlowIDs)

\* What the next steps and the properties can depend on: nothing reads the count of failed
\* lookups, and after the reader's last step nothing happens any more.
LiveState ==
  IF reader \in {"done", "panicked"} THEN <<reader, tool, got, got.whole /\ Stored(got.meta.id)>>
  ELSE <<metas, data, index, head, count, rpc, pidOf, nameOf, sem, pidCache, pc, response,
         excluded, large, paused, reader, todo, ptr, got,
         IF reader = "idle" THEN "" ELSE tool>>
=============================================================================
