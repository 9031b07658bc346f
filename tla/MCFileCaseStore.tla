--------------------------- MODULE MCFileCaseStore ---------------------------
(***************************************************************************)
(* Requests that save, get and list the cases of two owners, and versions  *)
(* of two lengths.                                                         *)
(***************************************************************************)
EXTENDS FileCaseStore, TLC

CONSTANTS draft, verified, hers, his, she, he

MCOwnerOf == (hers :> she) @@ (his :> he)

MCLength == (draft :> 1) @@ (verified :> 3)

ClientSymmetry == Permutations(Client)
==============================================================================
