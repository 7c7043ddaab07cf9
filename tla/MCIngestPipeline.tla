-------------------------- MODULE MCIngestPipeline --------------------------
(***************************************************************************)
(* Instances of IngestPipeline for TLC.                                    *)
(***************************************************************************)
EXTENDS IngestPipeline, TLC

CONSTANTS r1, r2, r3, x1, x2, w1, w2, s1, s2

OneSite == (x1 :> w1 @@ x2 :> w1)
OneSiteOneSession == (x1 :> w1)
OneShard == (x1 :> s1 @@ x2 :> s1)
OneShardOneSession == (x1 :> s1)
ShardEach == (x1 :> s1 @@ x2 :> s2)

RequestSymmetry == Permutations(Requests)
=============================================================================
