----------------------------- MODULE MCTransfer -----------------------------
(* Small instances of Transfer for TLC.                                     *)
EXTENDS Transfer

CONSTANTS j1, j2

MCPart == [n \in {"a"} |-> "a.part"]
MCSha256(s) == s
\* An empty file, and one that ends with a chunk that is not full.
MCFile == {[name |-> "a", bytes |-> <<>>], [name |-> "a", bytes |-> <<0, 1, 0>>]}
\* The same and one that is exactly a chunk.
MCFiles == MCFile \cup {[name |-> "a", bytes |-> <<0, 1>>]}
MCSize == 0 .. 4
MCDigest == {f.bytes : f \in MCFiles}
MCAltered(s) == [i \in DOMAIN s |-> 1]
MCPayload == {<<>>, <<0>>, <<1>>, <<0, 1>>, <<1, 0>>, <<1, 1>>}
=============================================================================
