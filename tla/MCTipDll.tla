------------------------------ MODULE MCTipDll ------------------------------
(***************************************************************************)
(* Two threads of one application that use tip.dll, and a registration     *)
(* with two categories.                                                    *)
(***************************************************************************)
EXTENDS TipDll, TLC

MCCategories == <<"keyboard", "systray">>

Alike == Permutations(Thread)
=============================================================================
