----------------------------- MODULE MCRetention -----------------------------
(***************************************************************************)
(* Instances of Retention for TLC.                                         *)
(***************************************************************************)
EXTENDS Retention, TLC

CONSTANTS e1, e2, x1, w1, task, admin, user, reset

OneSession == (e1 :> x1 @@ e2 :> x1)
OneSite == (x1 :> w1)
OldAndYoung == (e1 :> 0 @@ e2 :> 1)

OneOfEach ==
  (task :> "auto" @@ admin :> "admin" @@ user :> "manual" @@ reset :> "reset")
SomeDays == {-1, 1}
=============================================================================
