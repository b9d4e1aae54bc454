------------------------------- MODULE MCFanout -------------------------------
(* Instances of Fanout for model checking. *)
EXTENDS Fanout, TLC

\* A status after a status, and a status after a targeted request.
MCPrograms == {<<t, None>> : t \in Expected \cup {None}}

\* Sound: with Expected = Node the peers differ in nothing.
Symmetry == Permutations(Node)
=============================================================================
