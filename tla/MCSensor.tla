------------------------------- MODULE MCSensor -------------------------------
EXTENDS Sensor, TLC

CONSTANTS c1, c2, c3, p1, p2, bad

\* Two jobs that can run, and one that fails at its last prefix, after one
\* that the first job does not watch.
MCPathsOf == (c1 :> <<p1>>) @@ (c2 :> <<p2, bad>>) @@ (c3 :> <<p2>>)
===============================================================================
