------------------------------ MODULE FileDrop ------------------------------
(***************************************************************************)
(* What the receiving computer promises about its job directory, whatever  *)
(* arrives from the network, whatever fails and whenever it is stopped:    *)
(* a file appears there whole, under a path no earlier file has, with the  *)
(* size and the SHA-256 digest that were announced for it, and from then   *)
(* on it is neither changed nor removed.                                   *)
(***************************************************************************)
EXTENDS Naturals, Sequences

CONSTANT Sha256(_)

VARIABLE box    \* the delivered files: a set of [path, size, sha256, data]

Paths(b) == {d.path : d \in b}

\* The bytes stored are the bytes announced.
Matches(d) == Len(d.data) = d.size /\ Sha256(d.data) = d.sha256

Init == box = {}

Deposit == \E d \in box' \ box :
              /\ d.path \notin Paths(box)
              /\ Matches(d)
              /\ box' = box \cup {d}

Spec == Init /\ [][Deposit]_box
=============================================================================
