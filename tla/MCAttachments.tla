---------------------------- MODULE MCAttachments ----------------------------
(* Instances of Attachments for model checking.                            *)
EXTENDS Attachments, TLC

CONSTANTS a, b, l, c1, c2, c3

\* a serves models; a and b send roles; l is a client of an older release.
TwoClients == {a, b}
AllClients == {a, b, l}
WithRoles == {a, b}
Serving == {a}
TwoConns == {c1, c2}
ThreeConns == {c1, c2, c3}

\* Slots are interchangeable.
Symmetry == Permutations(Conns)

=============================================================================
