----------------------------- MODULE MCExtension -----------------------------
(* Instances of Extension for TLC. *)
EXTENDS Extension

Setting(rpc, escrow, random, dials) ==
    [rpc |-> rpc, escrow |-> escrow, random |-> random, dials |-> dials]

(* Nothing set, everything right, an RPC URL that cannot be dialled, an    *)
(* address that is wrong or forgotten.                                     *)
AnySetting ==
    {Setting(FALSE, "unset", "unset", FALSE), Setting(TRUE, "good", "good", TRUE),
     Setting(TRUE, "good", "good", FALSE), Setting(TRUE, "bad", "good", TRUE),
     Setting(TRUE, "good", "unset", TRUE)}
=============================================================================
