------------------------------ MODULE MCExecutor ------------------------------
EXTENDS Executor, TLC

CONSTANTS t1, t2, w1

MCTasks == {t1, t2}
MCThreads == {w1}
MCEscaping == {t1}

\* Sound where Escaping = {}: the tasks are then interchangeable.
Symmetric == Permutations(MCTasks)
=============================================================================
