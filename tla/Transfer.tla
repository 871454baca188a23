------------------------------ MODULE Transfer ------------------------------
(***************************************************************************)
(* The data of one transfer `dst < src` of a target rule, for two variables *)
(* of two dimensions on domains that overlap: which part of its buffer     *)
(* each rank of the source puts under which indices (publish_var), which   *)
(* indices each rank of the destination subscribes to (sub_var), and where *)
(* the copy blends them in (matrix_copy_interp).  Module Engine models     *)
(* when these calls are made; here the source's ranks publish and the      *)
(* destination's subscribe and are notified in any order.                  *)
(*                                                                         *)
(* Positions are counted in grid points: both sides have the same pitch    *)
(* and every bound lies on the grid, so the divisions by the pitch leave   *)
(* no remainder.  A value is the set of points it was computed from, so    *)
(* that the blend of two values, with whatever weights, is their union.    *)
(***************************************************************************)
EXTENDS Integers, FiniteSets

CONSTANT Geometries     \* the pairs of domains the transfer is tried with

Dims == 1 .. 2

\* A domain of the configuration, and the number of ranks its component
\* divides each dimension among.
Domains == [lb : [Dims -> Nat], ub : [Dims -> Nat], ranks : [Dims -> Nat \ {0}]]

\* Each rank has the same, positive, number of points.
Divided(dom) ==
    \A d \in Dims : /\ dom.lb[d] < dom.ub[d]
                    /\ (dom.ub[d] - dom.lb[d]) % dom.ranks[d] = 0

ASSUME GeometryAssumption ==
    \A g \in Geometries : /\ g \in [src : Domains, dst : Domains]
                          /\ Divided(g.src) /\ Divided(g.dst)

-----------------------------------------------------------------------------
\* A box of indices, and what benesh_bind_domain stores for rank p of a
\* domain: the points per dimension (l_grid_pts), and the offset of the first
\* (l_offset), as heateq2d_benesh.c computes them.

Box(lb, ub) == (lb[1] .. ub[1]) \X (lb[2] .. ub[2])

Ranks(dom) == Box(<<0, 0>>, <<dom.ranks[1] - 1, dom.ranks[2] - 1>>)

Pts(dom, d) == (dom.ub[d] - dom.lb[d]) \div dom.ranks[d]
Offset(dom, p, d) == Pts(dom, d) * p[d]
First(dom, p, d) == dom.lb[d] + Offset(dom, p, d)
Past(dom, p, d) == First(dom, p, d) + Pts(dom, d)

\* The cells of a rank's buffer, and the point that cell n stands for.
Cells(dom) == Box(<<0, 0>>, <<Pts(dom, 1) - 1, Pts(dom, 2) - 1>>)
PointOf(dom, p, n) == [d \in Dims |-> First(dom, p, d) + n[d]]
Inside(pt, dom) == \A d \in Dims : dom.lb[d] <= pt[d] /\ pt[d] < dom.ub[d]

-----------------------------------------------------------------------------
\* The overlap of a rank's part of domain loc with domain glob.

LocalOverlap(loc, p, glob) ==
    \A d \in Dims : First(loc, p, d) < glob.ub[d] /\ Past(loc, p, d) > glob.lb[d]

OverlapLb(loc, p, glob, d) ==
    IF First(loc, p, d) < glob.lb[d] THEN glob.lb[d] ELSE First(loc, p, d)
OverlapUb(loc, p, glob, d) ==
    IF Past(loc, p, d) < glob.ub[d] THEN Past(loc, p, d) ELSE glob.ub[d]

\* Where the overlap of two domains begins, from the lower bound of loc.
OverlapOffset(loc, glob, d) ==
    IF loc.lb[d] > glob.lb[d] THEN 0 ELSE glob.lb[d] - loc.lb[d]

-----------------------------------------------------------------------------
\* publish_var: rank p of src puts its whole buffer, from this index on.

PutLb(src, dst, p, d) ==
    IF Offset(src, p, d) > OverlapOffset(src, dst, d)
    THEN Offset(src, p, d) - OverlapOffset(src, dst, d)
    ELSE 0

\* A faulty variant, which nothing uses: a put of one point too many.
PutUbPast(src, dst, p, d) == PutLb(src, dst, p, d) + Pts(src, d)

PutUb(src, dst, p, d) == PutLb(src, dst, p, d) + Pts(src, d) - 1

\* sub_var: rank p of dst asks for these indices, and will blend them into
\* these points of the destination's domain (data_sub.lb, data_sub.ub).
SubLb(src, dst, p, d) ==
    (OverlapLb(dst, p, src, d) - src.lb[d]) - OverlapOffset(src, dst, d)

\* A faulty variant, which nothing uses: one point too many is asked for.
SubUbPast(src, dst, p, d) ==
    (OverlapUb(dst, p, src, d) - src.lb[d]) - OverlapOffset(src, dst, d)

SubUb(src, dst, p, d) ==
    (OverlapUb(dst, p, src, d) - src.lb[d]) - OverlapOffset(src, dst, d) - 1

DataLb(src, dst, p, d) == OverlapLb(dst, p, src, d) - dst.lb[d]
DataUb(src, dst, p, d) == OverlapUb(dst, p, src, d) - dst.lb[d] - 1

-----------------------------------------------------------------------------
\* matrix_copy_interp: element <<i, j>> of what was received goes to this
\* byte of the buffer; the stride from one line to the next is in bytes.

ElemSize == 8

LineSize(src, dst, p) == DataUb(src, dst, p, 2) - DataLb(src, dst, p, 2) + 1
Lines(src, dst, p) == DataUb(src, dst, p, 1) - DataLb(src, dst, p, 1) + 1

\* A faulty variant, which nothing uses: the rank's offset is left out.
LinearFromDomain(dst, p, pt) == pt[1] * Pts(dst, 2) + pt[2]

\* The cell of the buffer, counted from 0, at point pt of the domain.
Linear(dst, p, pt) ==
    (pt[1] - Offset(dst, p, 1)) * Pts(dst, 2) + (pt[2] - Offset(dst, p, 2))

Stride(src, dst, p) ==
    LET first == Linear(dst, p, [d \in Dims |-> DataLb(src, dst, p, d)])
        last  == Linear(dst, p, [d \in Dims |-> DataUb(src, dst, p, d)])
    IN  (ElemSize * (last - first + 1)) \div Lines(src, dst, p)

TargetByte(src, dst, p, e) ==
    ElemSize * (Linear(dst, p, [d \in Dims |-> DataLb(src, dst, p, d)]) + e[2])
        + e[1] * Stride(src, dst, p)

Elements(src, dst, p) ==
    Box(<<0, 0>>, <<Lines(src, dst, p) - 1, LineSize(src, dst, p) - 1>>)

\* The elements of which some byte lands in cell n.
Landing(src, dst, p, n) ==
    LET cell == ElemSize * (n[1] * Pts(dst, 2) + n[2])
    IN  {e \in Elements(src, dst, p) :
            /\ TargetByte(src, dst, p, e) < cell + ElemSize
            /\ cell < TargetByte(src, dst, p, e) + ElemSize}

\* A cell that an element reaches between two cells is no number any more.
Own(pt) == [from |-> "dst", at |-> pt]
Received(pt) == [from |-> "src", at |-> pt]
Torn == [from |-> "torn", at |-> <<0, 0>>]

MatrixCopyInterp(src, dst, p, data, old) ==
    [n \in Cells(dst) |->
        LET landing == Landing(src, dst, p, n)
            base(d) == SubLb(src, dst, p, d)
        IN  old[n]
            \cup {Received(data[<<base(1) + e[1], base(2) + e[2]>>]) : e \in landing}
            \cup (IF \E e \in landing : TargetByte(src, dst, p, e) % ElemSize # 0
                  THEN {Torn} ELSE {})]

-----------------------------------------------------------------------------
VARIABLES
    geo,        \* the domains of this transfer
    published,  \* the source's ranks that have run handle_pub
    staged,     \* what DataSpaces holds: the point each index was put from
    sub,        \* sub[p]: how far rank p of the destination is
    buf         \* buf[p][n]: the points cell n of rank p was computed from

vars == <<geo, published, staged, sub, buf>>

Src == geo.src
Dst == geo.dst

SubStates == {"todo", "waiting", "none", "done"}

TypeOK ==
    /\ geo \in Geometries
    /\ published \subseteq Ranks(Src)
    /\ DOMAIN staged \subseteq Nat \X Nat
    /\ \A i \in DOMAIN staged : Inside(staged[i], Src)
    /\ sub \in [Ranks(Dst) -> SubStates]
    /\ DOMAIN buf = Ranks(Dst)
    /\ \A p \in Ranks(Dst) : DOMAIN buf[p] = Cells(Dst)

Init ==
    /\ geo \in Geometries
    /\ published = {}
    /\ staged = <<>>
    /\ sub = [p \in Ranks(geo.dst) |-> "todo"]
    /\ buf = [p \in Ranks(geo.dst) |->
                [n \in Cells(geo.dst) |-> {Own(PointOf(geo.dst, p, n))}]]

PublishVar(p) ==
    LET lb == [d \in Dims |-> PutLb(Src, Dst, p, d)]
        ub == [d \in Dims |-> PutUb(Src, Dst, p, d)]
    IN  [i \in Box(lb, ub) |->
            PointOf(Src, p, <<i[1] - lb[1], i[2] - lb[2]>>)]

\* What DataSpaces holds after a put, which replaces what its indices held.
Put(data) ==
    [i \in DOMAIN data \cup DOMAIN staged |->
        IF i \in DOMAIN data THEN data[i] ELSE staged[i]]

\* handle_pub: a rank whose part does not meet the destination's domain puts
\* nothing.
HandlePub(p) ==
    /\ p \in Ranks(Src) \ published
    /\ published' = published \cup {p}
    /\ staged' = IF LocalOverlap(Src, p, Dst)
                 THEN Put(PublishVar(p))
                 ELSE staged
    /\ UNCHANGED <<geo, sub, buf>>

\* handle_sub: a rank whose part does not meet the source's domain has
\* nothing to wait for (sub_req = 0).
HandleSub(p) ==
    /\ sub[p] = "todo"
    /\ sub' = [sub EXCEPT ![p] = IF LocalOverlap(Dst, p, Src)
                                 THEN "waiting" ELSE "none"]
    /\ UNCHANGED <<geo, published, staged, buf>>

Asked(p) == Box([d \in Dims |-> SubLb(Src, Dst, p, d)],
                [d \in Dims |-> SubUb(Src, Dst, p, d)])

\* handle_notify, which DataSpaces calls once all that was asked for is there.
HandleNotify(p) ==
    /\ sub[p] = "waiting"
    /\ Asked(p) \subseteq DOMAIN staged
    /\ sub' = [sub EXCEPT ![p] = "done"]
    /\ buf' = [buf EXCEPT ![p] = MatrixCopyInterp(Src, Dst, p, staged, @)]
    /\ UNCHANGED <<geo, published, staged>>

Publishing == \E p \in Ranks(Src) : HandlePub(p)
Subscribing == \E p \in Ranks(Dst) : HandleSub(p)
Notifying == \E p \in Ranks(Dst) : HandleNotify(p)

Next == Publishing \/ Subscribing \/ Notifying

\* The main thread of every rank goes on, and so does DataSpaces.
Spec == /\ Init /\ [][Next]_vars
        /\ WF_vars(Publishing) /\ WF_vars(Subscribing) /\ WF_vars(Notifying)

-----------------------------------------------------------------------------
\* What the code needs of a geometry to work: no rank of the source that
\* publishes begins before the overlap, and what a rank of the destination
\* receives fills whole lines of its buffer, or a single one.

CutAtOverlap(src, dst) ==
    \A p \in Ranks(src) : LocalOverlap(src, p, dst) =>
        \A d \in Dims : First(src, p, d) >= dst.lb[d]

WholeLines(src, dst) ==
    \A p \in Ranks(dst) : LocalOverlap(dst, p, src) =>
        LineSize(src, dst, p) = Pts(dst, 2) \/ Lines(src, dst, p) = 1

-----------------------------------------------------------------------------
\* Once a rank of the destination is through with the transfer, each of its
\* points inside the source's domain is the blend of its own value and the
\* source's value at the same point, and no other point has changed; whichever
\* ranks published, whatever their order.
InPlace ==
    \A p \in Ranks(Dst), n \in Cells(Dst) :
        LET pt == PointOf(Dst, p, n)
        IN  buf[p][n] = IF sub[p] \in {"none", "done"} /\ Inside(pt, Src)
                        THEN {Own(pt), Received(pt)}
                        ELSE {Own(pt)}

\* No two ranks of the source put the same index: handle_pub never puts one
\* that an earlier handle_pub has put.
PutOnce ==
    [][\A p \in published' \ published :
           LocalOverlap(Src, p, Dst) => DOMAIN PublishVar(p) \cap DOMAIN staged = {}]_vars

\* No subscription waits for an index that no rank of the source puts: every
\* rank of the destination gets through, although handle_pub and handle_sub
\* decide on the overlap from their own side only.
AllArrive ==
    <>(\A p \in Ranks(Dst) : sub[p] \in {"none", "done"})

=============================================================================
