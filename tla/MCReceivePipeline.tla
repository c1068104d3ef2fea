------------------------- MODULE MCReceivePipeline -------------------------
(* Small instances of ReceivePipeline for TLC.                              *)
EXTENDS ReceivePipeline

CONSTANTS j1

MCJobId == {j1}
\* A sender may call its file "a.part": the final name of that file is the
\* staging name of "a".
MCName == {"a", "a.part"}
MCFileName == {"a", "a.part", "a.part.part"}
MCPart == [n \in MCName |-> IF n = "a" THEN "a.part" ELSE "a.part.part"]
MCByte == {0, 1}
MCSize == {0, 1, 2}
MCPayload == {<<>>, <<0>>, <<1>>, <<0, 1>>}
\* The order of the bytes and their number matter, and nothing else does.
MCSha256(s) == s
MCDigest == {<<>>, <<0, 1>>}
=============================================================================
