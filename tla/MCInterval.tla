----------------------------- MODULE MCInterval -----------------------------
EXTENDS Interval

CONSTANTS i1, t1, t2

MCIntervals == {i1}
MCTasks == {t1, t2}
=============================================================================
