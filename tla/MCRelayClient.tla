---------------------------- MODULE MCRelayClient ----------------------------
(* Small instances of RelayClient for TLC.                                  *)
EXTENDS RelayClient

\* The magic cell is 9.  The last three are a message whose payload looks like a
\* message, one that is not well-formed and one that is too long.
MCMessage == {<<9, 0>>, <<9, 1, 5>>, <<9, 2, 9, 0>>, <<5, 0>>, <<9, 3, 5, 5, 5>>}
MCAnswer == {<<9, 1, 7>>}
\* A ping may carry what looks like a header.
MCPing == {<<>>, <<9, 2>>}
=============================================================================
