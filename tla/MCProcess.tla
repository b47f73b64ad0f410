------------------------------ MODULE MCProcess ------------------------------
(* One process, from each of the nine user settings of the system's proxy. *)
EXTENDS Process
=============================================================================
