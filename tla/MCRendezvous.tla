---------------------------- MODULE MCRendezvous ----------------------------
(* Small instances of Rendezvous for TLC.                                   *)
EXTENDS Rendezvous

\* Hosts of a common length, and of the lengths at which a limit is met: the QR code
\* (170 and 171 after https://), the prefix (244, 245) and the variable itself (247,
\* 248); "x" is not UTF-8, "p" is a path.
MCHostLength == [h |-> 12, p |-> 1, x |-> 1, d |-> 18, q170 |-> 170, q171 |-> 171,
                 u244 |-> 244, u245 |-> 245, v247 |-> 247, v248 |-> 248]
MCHost == DOMAIN MCHostLength

Slashes(n) == [i \in 1 .. n |-> "/"]

MCBase == {scheme \o Slashes(k) \o rest \o Slashes(n) \o mark :
              scheme \in {<<>>, <<"https">>, <<"http">>}, k \in {0, 2, 3},
              rest \in {<<>>, <<"h", "/", "p">>} \cup {<<h>> : h \in MCHost \ {"p", "d"}},
              n \in {0, 2}, mark \in {<<>>, <<"?">>}}
=============================================================================
