--------------------------- MODULE MCTaskSchedule ----------------------------
EXTENDS TaskSchedule

CONSTANTS t1, t2, t3, w1, w2

MCTasks == {t1, t2, t3}
MCThreads == {w1, w2}
=============================================================================
