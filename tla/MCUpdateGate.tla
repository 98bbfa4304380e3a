---------------------------- MODULE MCUpdateGate ----------------------------
EXTENDS UpdateGate, TLC
CONSTANTS a, b, c, x, y
Symmetry == Permutations(Workbench) \cup Permutations(Helper)
Anywhere == WorkbenchStep \cup HelperStep
=============================================================================
