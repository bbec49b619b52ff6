---------------------------- MODULE MCEventLoop -----------------------------
(* Two handlers; timers of the first, of the second and of nobody.         *)
EXTENDS EventLoop, TLC

CONSTANTS h1, h2, t1, t2, t3

DonoMC == t1 :> h1 @@ t2 :> h2 @@ t3 :> Ninguem
=============================================================================
