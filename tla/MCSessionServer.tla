-------------------------- MODULE MCSessionServer --------------------------
EXTENDS SessionServer, TLC

CONSTANTS p1, p2, p3

TwoPlayers   == {p1, p2}
ThreePlayers == {p1, p2, p3}

Symmetry == Permutations(Players)

MoveToOnly == {"MOVETO"}
AllReports == {"MOVETO", "EVENT", "TRAIN_EVENT"}
=============================================================================
