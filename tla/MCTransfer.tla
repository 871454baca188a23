----------------------------- MODULE MCTransfer -----------------------------
(***************************************************************************)
(* Pairs of domains for module Transfer: all that arise from a few bounds  *)
(* and divisions of each dimension and that Transfer's conditions admit,   *)
(* and a pair laid out as the sides of heateq2d.xc that does not satisfy   *)
(* them.                                                                   *)
(***************************************************************************)
EXTENDS Transfer

\* The bounds of one dimension, and the number of ranks along it.
Axis == {<<0, 2, 1>>, <<0, 4, 2>>, <<2, 4, 2>>, <<1, 3, 1>>, <<2, 6, 2>>}

Lines2 == {<<0, 2, 1>>, <<0, 2, 2>>, <<1, 3, 2>>}

Domain(a, b) ==
    [lb |-> <<a[1], b[1]>>, ub |-> <<a[2], b[2]>>, ranks |-> <<a[3], b[3]>>]

DomainsOf(as, bs) == {Domain(a, b) : a \in as, b \in bs}

\* Regular pairs, divided along the first dimension and along the second.
RegularPairs ==
    {g \in [src : DomainsOf(Axis, Lines2), dst : DomainsOf(Axis, Lines2)] :
        CutAtOverlap(g.src, g.dst) /\ WholeLines(g.src, g.dst)}

\* Both sides of heateq2d.xc with one rank each: the source's rank begins
\* before the overlap, and the overlap is the first half of each line of the
\* destination's buffer.
SidesOfOneRank == {[src |-> Domain(<<0, 2, 1>>, <<0, 4, 1>>),
                    dst |-> Domain(<<0, 2, 1>>, <<2, 6, 1>>)]}

=============================================================================
