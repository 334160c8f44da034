----------------------------- MODULE MCTimeout -----------------------------
EXTENDS Timeout

CONSTANTS s1, s2, t1, t2

MCTimeouts == {s1, s2}
MCTasks == {t1, t2}
MCPanicking == {s1}
=============================================================================
