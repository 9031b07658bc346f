---------------------------- MODULE MCDeployment ----------------------------
(***************************************************************************)
(* Environments a deployment is given: Redis under a good key and under a  *)
(* cut one (as another key, it does not decrypt what the first encrypted), *)
(* a disk, the /tmp of a serverless host with half of the variables of     *)
(* Redis, and one without a key.                                           *)
(***************************************************************************)
EXTENDS Deployment, TLC

CONSTANT k1

Env(key, kv, dir) == [key |-> key, kv |-> kv, dir |-> dir]

Both == {"url", "token"}

MCEnvironment ==
  { Env(k1, Both, "disk"), Env("malformed", Both, "tmp"), Env(k1, {}, "disk"),
    Env(k1, {"url"}, "tmp"), Env("unset", Both, "tmp") }

MCSymmetry == Permutations(Browser) \cup Permutations(Fetch) \cup Permutations(Instance)
==============================================================================
