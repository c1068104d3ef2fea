--------------------------- MODULE MCRelayServer ---------------------------
(* Small instances of RelayServer for TLC.                                  *)
EXTENDS RelayServer, TLC

\* Requests, connections and secrets are only compared for equality.
Symmetric == Permutations(Registration) \cup Permutations(Receiver)
             \cup Permutations(Sender) \cup Permutations(Secret)
=============================================================================
