----------------------------- MODULE MCAdmission -----------------------------
(* Small trees of children for TLC. *)
EXTENDS Admission

CONSTANTS a, b, c1, g

\* a spawns b, next to c1 of the root.
NestedParent == (a :> Root) @@ (b :> a) @@ (c1 :> Root)
\* b of a, c1 of b.
ChainParent == (a :> Root) @@ (b :> a) @@ (c1 :> b)

InnerGroup == g :> {a, b}
\* What a spawns in the chain, and what that spawns.
LowerGroup == g :> {b, c1}
OneAtATime == g :> 1
=============================================================================
