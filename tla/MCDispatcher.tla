----------------------------- MODULE MCDispatcher -----------------------------
EXTENDS Dispatcher, TLC

CONSTANTS r1, r2, p1, p2

\* One poll in flight per runner: the runner's main loop is sequential.
OnePollEach == (p1 :> r1) @@ (p2 :> r2)
===============================================================================
