---------------------------- MODULE MCTcpStreams ----------------------------
(* Instances of TcpStreams for model checking.                             *)
EXTENDS TcpStreams

\* A query of one round, with the shortest command: its frame can still be cut
\* within and between units.
StreamFrames == <<1>>
=============================================================================
