----------------------------- MODULE MCScreens -----------------------------
\* A small instance of Screens for TLC: two tenants, two rows that are selected
\* alone or together, two tabs and two views.
EXTENDS Screens, TLC

CONSTANTS t1, t2, r1, r2, v1, v2, tab1, tab2

MCTenants == {t1, t2}
MCRows == {r1, r2}
MCSelections == {{r1}, {r1, r2}}
MCTabs == {tab1, tab2}
MCNames == {v1, v2}
Symmetry == Permutations(MCTenants) \cup Permutations(MCTabs) \cup Permutations(MCNames)
=============================================================================
