----------------------------- MODULE MCRuntime -----------------------------
EXTENDS Runtime, TLC

CONSTANTS r1, r2, r3, t1, t2, g1, g2

MCRuntimes == {r1, r2, r3}
MCTasks == {t1, t2}
MCGuards == {g1, g2}
Symmetric == Permutations(MCRuntimes) \union Permutations(MCTasks) \union Permutations(MCGuards)
=============================================================================
