------------------------------- MODULE MCUndo -------------------------------
EXTENDS Undo, TLC

CONSTANTS e1, e2, s0, s1

TwoEditors   == {e1, e2}
TwoSceneries == {s0, s1}

Symmetry == Permutations(Editors)
=============================================================================
