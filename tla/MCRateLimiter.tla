---------------------------- MODULE MCRateLimiter ----------------------------
(***************************************************************************)
(* Instances of RateLimiter for TLC.                                       *)
(***************************************************************************)
EXTENDS RateLimiter, TLC

OneThread == [limit : {0, 1, 2}, threads : {1}, evicting : {FALSE}]
TwoThreads == [limit : {1, 2}, threads : {2}, evicting : {FALSE}]
TwoThreadsEvicting == [limit : {1, 2}, threads : {2}, evicting : {TRUE}]
OneOrTwoThreads == OneThread \cup TwoThreadsEvicting

CallSymmetry == Permutations(Calls)
=============================================================================
