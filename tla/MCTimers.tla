------------------------------- MODULE MCTimers -------------------------------
EXTENDS Timers, TLC

CONSTANTS s1, s2, t1, t2

MCSleeps == {s1, s2}
MCTasks == {t1, t2}
MCOneTask == {t1}

\* Sleeps are interchangeable, and so are tasks; used in safety runs only.
Symmetric == Permutations(MCSleeps)
SymmetricTasks == Permutations(MCSleeps) \union Permutations(MCTasks)
=============================================================================
