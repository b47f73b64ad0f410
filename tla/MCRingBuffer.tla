---------------------------- MODULE MCRingBuffer ----------------------------
(* The flow store and a client paging through it, for TLC. *)
EXTENDS Paging, TLC

Symmetric == Permutations(FlowIDs)

\* A page depends on nothing but the flows held and their order, and the client's last step
\* ends a behaviour.
LiveState ==
  CASE pager = "idle" -> <<rbVars>>
    [] pager = "paging" -> <<head, count, used, [s \in Slots |-> metas[s].id], wanted, asked, offset,
                             seen, owed, stopped>>
    [] OTHER -> <<{i \in 1 .. count : Newest[i].id \in owed \ seen /\ Unmoved(i)}>>
=============================================================================
