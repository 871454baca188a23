---------------------------- MODULE MCRendezvous ----------------------------
(***************************************************************************)
(* Parts of the ranges -2 .. 4 and 1 .. 4, within them and beyond either   *)
(* end, divided among one to three ranks, with up to six points, for       *)
(* module Rendezvous; and the parts of the redev test, scaled down.        *)
(***************************************************************************)
EXTENDS Rendezvous

\* redev.xc and map_benesh_domain with a million taken to be 4: four
\* participants, which bind 4 points each from 4 * rank on, of the range
\* 0 .. 15, for two rendezvous ranks; and those two, which bind 8 points each.
\* The last point of the last part lies at the upper bound of the range.
RedevInputs ==
    LET Bind(rank, mbpr) == [glb |-> 0, gub |-> 15, ranks |-> 2, pts |-> mbpr,
                             llb |-> rank * mbpr, lub |-> rank * mbpr + mbpr]
    IN {Bind(rank, 4) : rank \in 0 .. 3} \cup {Bind(rank, 8) : rank \in 0 .. 1}

MCInputs ==
    RedevInputs \cup
    {a \in [glb : {-2, 1}, gub : {4}, ranks : 1 .. 3,
            llb : -3 .. 5, lub : -3 .. 7, pts : 1 .. 6] : a.llb <= a.lub}

=============================================================================
