------------------------- MODULE MCTextServiceLife -------------------------
(***************************************************************************)
(* Two text services, alike, on one server.                                *)
(***************************************************************************)
EXTENDS TextServiceLife, TLC

Alike == Permutations(Service)
=============================================================================
