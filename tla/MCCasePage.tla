----------------------------- MODULE MCCasePage ------------------------------
(***************************************************************************)
(* Small instances of CasePage, over the simulator's accounts of           *)
(* MCOrchestrator.                                                         *)
(***************************************************************************)
EXTENDS CasePage, TLC

MCAccount == {"refunds", "silent"}

MCBucket == ("refunds" :> 59) @@ ("silent" :> 95)

MCInput == { [account |-> a, details |-> Null, desired |-> 1999] : a \in MCAccount }

RefundOnly == { i \in MCInput : i.account = "refunds" }

RequestSymmetry == Permutations(Request)
==============================================================================
