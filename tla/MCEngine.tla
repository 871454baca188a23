------------------------------ MODULE MCEngine ------------------------------
(***************************************************************************)
(* Small workflows for Engine: two components A and B, objects v to z,     *)
(* shaped after those of tests/heateq and tests/smoke.                     *)
(***************************************************************************)
EXTENDS Engine

CONSTANTS A, B, x, y, z, v

Asg == [type |-> "asg", comp |-> A]
Mth(c) == [type |-> "mth", comp |-> c]
Pub(c) == [type |-> "pub", comp |-> c]
Sub(c) == [type |-> "sub", comp |-> c]

\* The configuration's CONSTANT definitions: one family per workflow.

\* Exchange: y, on A, is an assignment, a transfer from B and a method
\* (Analysis.u.2 of smoke.xc); it builds on x, which has no procedure (Left.u.0)
\* and is realized by each component for itself.  Only A signals touchpoints,
\* for x first, so that x is asked for twice.
ExchangeDeps == (x :> <<>>) @@ (y :> <<x>>)
ExchangeProc == (x :> <<>>) @@ (y :> <<Asg, Pub(B), Sub(A), Mth(A)>>)
ExchangeTouch == (A :> <<x, y>>) @@ (B :> <<>>)

\* Late: nothing but a transfer from B to A.
LateDeps == (y :> <<>>)
LateProc == (y :> <<Pub(B), Sub(A), Mth(A)>>)
LateTouch == (A :> <<y>>) @@ (B :> <<>>)

\* Crossing: each component asks for what the other one makes, so that it hears
\* of its own target from an announcement.
CrossingDeps == (x :> <<>>) @@ (z :> <<>>)
CrossingProc == (x :> <<Mth(A)>>) @@ (z :> <<Mth(B)>>)
CrossingTouch == (A :> <<z>>) @@ (B :> <<x>>)

\* Crowd: B makes z from x, which it hears of from A, and from y, which it makes
\* itself, while it also works on v for a touchpoint of its own.
CrowdDeps == (x :> <<>>) @@ (y :> <<>>) @@ (z :> <<x, y>>) @@ (v :> <<>>)
CrowdProc == (x :> <<Mth(A)>>) @@ (y :> <<Mth(B)>>) @@ (z :> <<Mth(B)>>) @@ (v :> <<Mth(B)>>)
CrowdTouch == (A :> <<z>>) @@ (B :> <<v>>)

\* Early: A asks for z, which has no procedure and stands for x and y, both
\* made by B.
EarlyDeps == (x :> <<>>) @@ (y :> <<x>>) @@ (z :> <<x, y>>)
EarlyProc == (x :> <<Mth(B)>>) @@ (y :> <<Mth(B)>>) @@ (z :> <<>>)
EarlyTouch == (A :> <<z>>) @@ (B :> <<>>)

=============================================================================
