---------------------------- MODULE MCKkcEngine ----------------------------
(***************************************************************************)
(* Small instances of KkcEngine for TLC: two pronunciations make four      *)
(* requests, which tells the request made last, the one before and an      *)
(* older one apart; two clients of the proxy.                              *)
(***************************************************************************)
EXTENDS KkcEngine

MCPron == {"ka", "ki"}

BothWays == {"pipes", "proxy"}

Directly == {"pipes"}

Either == {TRUE, FALSE}

Never == {FALSE}
=============================================================================
