------------------------------ MODULE MCAnalysis ------------------------------
EXTENDS Analysis, TLC

CONSTANTS a, b, r1, r2, pkg

\* Batches: noise only, one fingerprint, the other, both; or one
\* fingerprint behind noise, so that its evidence is not the first event.
SmallBatches == {<<NoFP>>, <<a>>, <<b>>}
NoisyBatches == {<<NoFP, a>>, <<NoFP, b>>}
MixedBatches == {<<NoFP>>, <<a>>, <<b>>, <<a, b>>}

OnePackage == [r \in Runs |-> pkg]
OneAdHocRun == [r \in Runs |-> IF r = r2 THEN NoPkg ELSE pkg]

OnePost == [r \in Runs |-> 1]
TwoPosts == [r \in Runs |-> 2]
TwoThenOne == [r \in Runs |-> IF r = r1 THEN 2 ELSE 1]

Nothing == {}
PackageEntry == {<<pkg, a>>}

FPSymmetry == Permutations({a, b})
FaultSymmetry == Permutations({a, b}) \cup Permutations(Callers)
===============================================================================
