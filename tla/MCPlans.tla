------------------------------ MODULE MCPlans -------------------------------
(***************************************************************************)
(* Instances of Plans: which callers come together.                        *)
(***************************************************************************)
EXTENDS Plans, TLC

CONSTANTS a1, c1, w1, x1, f1, u1, u2

\* a1, w1: control API; c1, x1: console; w1, x1 update a route.
MCConsoles == {c1, x1}
MCUpdaters == {w1, x1}
MCUpstreams == {u1, u2}
MCCasts == {{a1, c1}, {f1, w1}, {x1}, MCUpstreams}
MCSymmetry == Permutations(MCUpstreams)
=============================================================================
