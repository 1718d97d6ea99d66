------------------------------ MODULE MCLobotServo ------------------------------
EXTENDS LobotServo

\* 85 looks like a header byte.
MCGroups == {5, 85}
\* The high byte may be taken for a length of 0.
MCTimes == {1}
\* Both bytes count.
MCVoltages == {7400}
MCMoves == {1500}
\* An uninitialised byte of buf looks like a header byte, too.
MCStackBytes == {85}
=============================================================================
