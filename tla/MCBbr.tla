-------------------------------- MODULE MCBbr -------------------------------
(* A small instance of BbrSenderV5: a three-phase gain cycle. *)
EXTENDS BbrSenderV5

MCPacingGain == [i \in 0..2 |-> <<111, 90, 100>>[i + 1]]
=============================================================================
