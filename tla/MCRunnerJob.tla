----------------------------- MODULE MCRunnerJob -----------------------------
EXTENDS RunnerJob

\* Two events of the first workload, so that a batch can fill up and a queue
\* overflow; one of each later workload, which may meet those left behind.
TwoThenOne == [j \in Jobs |-> IF j = 1 THEN 2 ELSE 1]
==============================================================================
