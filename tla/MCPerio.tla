------------------------------ MODULE MCPerio ------------------------------
EXTENDS PerioReports
CONSTANTS s1, s2, p1, p2, t1, t2
MCSeids == {s1, s2}
MCUrrs == {<<s1, 1>>, <<s1, 2>>, <<s2, 1>>, <<s2, 2>>}
MCPeriods == {p1, p2}
MCTickers == {t1, t2}
=============================================================================
