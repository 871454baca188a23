---------------------------- MODULE Transfer_proofs ----------------------------
(***************************************************************************)
(* Proofs about module Transfer, for all domains and all ways to divide    *)
(* them among ranks.                                                       *)
(***************************************************************************)
EXTENDS Transfer, TLAPS

(***************************************************************************)
(* Arithmetic.                                                             *)
(***************************************************************************)

\* Multiplication by a natural number keeps the order.
LEMMA MulMonotone ==
    ASSUME NEW a \in Nat, NEW i \in Int, NEW j \in Int, i <= j
    PROVE  a * i <= a * j
OBVIOUS

\* Multiples of different numbers are a whole step apart.
LEMMA MulApart ==
    ASSUME NEW a \in Nat, NEW i \in Int, NEW j \in Int, i < j
    PROVE  a * i + a <= a * j
<1>1. a * (i + 1) <= a * j
  BY MulMonotone
<1>2. a * (i + 1) = a * i + a
  OBVIOUS
<1>3. a * i \in Int /\ a * j \in Int
  OBVIOUS
<1> QED
  BY <1>1, <1>2, <1>3

\* A number has one quotient and one remainder.
LEMMA OneQuotient ==
    ASSUME NEW a \in Nat, NEW i \in Int, NEW j \in Int,
           NEW r \in 0 .. a - 1, NEW s \in 0 .. a - 1, a * i + r = a * j + s
    PROVE  i = j /\ r = s
<1>1. a * i \in Int /\ a * j \in Int
  OBVIOUS
<1>2. ~(i < j)
  <2> SUFFICES ASSUME i < j PROVE FALSE
    OBVIOUS
  <2>1. a * i + a <= a * j
    BY MulApart
  <2> QED
    BY <1>1, <2>1
<1>3. ~(j < i)
  <2> SUFFICES ASSUME j < i PROVE FALSE
    OBVIOUS
  <2>1. a * j + a <= a * i
    BY MulApart
  <2> QED
    BY <1>1, <2>1
<1>4. i = j
  BY <1>2, <1>3
<1> QED
  BY <1>1, <1>4

\* A quotient without remainder.
LEMMA Exact ==
    ASSUME NEW n \in Nat \ {0}, NEW d \in Nat \ {0}, n % d = 0
    PROVE  n \div d \in Nat \ {0} /\ (n \div d) * d = n
<1> DEFINE q == n \div d
<1>1. q \in Int /\ n = d * q + (n % d)
  OBVIOUS
<1> HIDE DEF q
<1>2. d * q = n
  BY <1>1
<1>3. ~(q <= 0)
  <2> SUFFICES ASSUME q <= 0 PROVE FALSE
    OBVIOUS
  <2>1. d * q <= d * 0
    BY <1>1, MulMonotone
  <2> QED
    BY <1>2, <2>1
<1>4. q * d = n
  BY <1>1, <1>2
<1> QED
  BY <1>1, <1>3, <1>4 DEF q

\* A multiple of a positive number, divided by it.
LEMMA Cancel ==
    ASSUME NEW a \in Int, NEW d \in Nat \ {0}
    PROVE  (d * a) \div d = a
<1> DEFINE n == d * a
<1> DEFINE q == n \div d
<1>1. n \in Int
  OBVIOUS
<1>2. q \in Int /\ n % d \in 0 .. d - 1 /\ n = d * q + (n % d)
  BY <1>1
<1>3. d * a + 0 = d * q + (n % d)
  BY <1>2
<1> HIDE DEF q, n
<1>4. a = q
  BY <1>2, <1>3, OneQuotient
<1> QED
  BY <1>4 DEF q, n

-----------------------------------------------------------------------------
(***************************************************************************)
(* Domains and their ranks.                                                *)
(***************************************************************************)

\* A box holds the pairs of indices between its bounds.
LEMMA BoxMember ==
    ASSUME NEW lb, NEW ub, NEW i
    PROVE  i \in Box(lb, ub) <=>
             i = <<i[1], i[2]>> /\ i[1] \in lb[1] .. ub[1] /\ i[2] \in lb[2] .. ub[2]
BY DEF Box

\* The bounds of a domain and the parts its ranks have, along dimension d.
LEMMA DomainFields ==
    ASSUME NEW dom \in Domains, Divided(dom), NEW d \in Dims
    PROVE  /\ dom.lb[d] \in Nat /\ dom.ub[d] \in Nat /\ dom.ranks[d] \in Nat \ {0}
           /\ dom.lb[d] < dom.ub[d]
           /\ Pts(dom, d) \in Nat \ {0}
           /\ Pts(dom, d) * dom.ranks[d] = dom.ub[d] - dom.lb[d]
<1>1. /\ dom.lb[d] \in Nat /\ dom.ub[d] \in Nat /\ dom.ranks[d] \in Nat \ {0}
      /\ dom.lb[d] < dom.ub[d] /\ (dom.ub[d] - dom.lb[d]) % dom.ranks[d] = 0
  BY DEF Domains, Divided
<1>2. dom.ub[d] - dom.lb[d] \in Nat \ {0}
  BY <1>1
<1> QED
  BY <1>1, <1>2, Exact DEF Pts

\* Where the part of rank p lies.
LEMMA RankPlace ==
    ASSUME NEW dom \in Domains, Divided(dom), NEW p \in Ranks(dom), NEW d \in Dims
    PROVE  /\ p[d] \in 0 .. dom.ranks[d] - 1
           /\ Offset(dom, p, d) = Pts(dom, d) * p[d] /\ Offset(dom, p, d) \in Nat
           /\ First(dom, p, d) = dom.lb[d] + Offset(dom, p, d)
           /\ Past(dom, p, d) = First(dom, p, d) + Pts(dom, d)
           /\ Past(dom, p, d) <= dom.ub[d]
           /\ First(dom, p, d) \in Nat /\ Past(dom, p, d) \in Nat
<1>1. p[d] \in 0 .. dom.ranks[d] - 1
  BY BoxMember DEF Ranks, Dims
<1>2. /\ dom.lb[d] \in Nat /\ dom.ub[d] \in Nat /\ dom.ranks[d] \in Nat \ {0}
      /\ Pts(dom, d) \in Nat \ {0}
      /\ Pts(dom, d) * dom.ranks[d] = dom.ub[d] - dom.lb[d]
  BY DomainFields
<1>3. Pts(dom, d) * p[d] + Pts(dom, d) <= Pts(dom, d) * dom.ranks[d]
  BY <1>1, <1>2, MulApart
<1>4. Pts(dom, d) * p[d] \in Nat
  BY <1>1, <1>2
<1> QED
  BY <1>1, <1>2, <1>3, <1>4 DEF Offset, First, Past

\* A cell's indices, and the point it stands for.
LEMMA CellPlace ==
    ASSUME NEW dom \in Domains, Divided(dom), NEW p \in Ranks(dom), NEW n \in Cells(dom), NEW d \in Dims
    PROVE  /\ n[d] \in 0 .. Pts(dom, d) - 1
           /\ PointOf(dom, p, n)[d] = First(dom, p, d) + n[d]
           /\ First(dom, p, d) <= PointOf(dom, p, n)[d]
           /\ PointOf(dom, p, n)[d] < Past(dom, p, d)
<1>1. n[d] \in 0 .. Pts(dom, d) - 1
  BY BoxMember DEF Cells, Dims
<1>2. PointOf(dom, p, n)[d] = First(dom, p, d) + n[d]
  BY DEF PointOf
<1>3. First(dom, p, d) \in Nat /\ Past(dom, p, d) = First(dom, p, d) + Pts(dom, d)
  BY RankPlace
<1>4. Pts(dom, d) \in Nat
  BY DomainFields
<1> QED
  BY <1>1, <1>2, <1>3, <1>4

-----------------------------------------------------------------------------
(***************************************************************************)
(* The types.                                                              *)
(***************************************************************************)

\* The pair of domains of this transfer.
LEMMA TheDomains ==
    ASSUME geo \in Geometries
    PROVE  /\ Src \in Domains /\ Dst \in Domains
           /\ Divided(Src) /\ Divided(Dst)
BY GeometryAssumption DEF Src, Dst

\* What a rank puts are points of its own, under indices that exist.
LEMMA PutTyped ==
    ASSUME geo \in Geometries, NEW p \in Ranks(Src), NEW i \in DOMAIN PublishVar(p)
    PROVE  /\ i \in Nat \X Nat /\ i = <<i[1], i[2]>>
           /\ \A d \in Dims : i[d] \in PutLb(Src, Dst, p, d) .. PutUb(Src, Dst, p, d)
           /\ \A d \in Dims : PublishVar(p)[i][d]
                                = First(Src, p, d) + (i[d] - PutLb(Src, Dst, p, d))
           /\ PublishVar(p)[i] = [d \in Dims |-> First(Src, p, d) + (i[d] - PutLb(Src, Dst, p, d))]
           /\ Inside(PublishVar(p)[i], Src)
<1> DEFINE lb == [d \in Dims |-> PutLb(Src, Dst, p, d)]
<1> DEFINE ub == [d \in Dims |-> PutUb(Src, Dst, p, d)]
<1>1. i \in Box(lb, ub)
  BY DEF PublishVar
<1>2. PublishVar(p)[i] = PointOf(Src, p, <<i[1] - lb[1], i[2] - lb[2]>>)
  BY <1>1 DEF PublishVar
<1>3. i = <<i[1], i[2]>> /\ \A d \in Dims : i[d] \in lb[d] .. ub[d]
  <2>1. i = <<i[1], i[2]>> /\ i[1] \in lb[1] .. ub[1] /\ i[2] \in lb[2] .. ub[2]
    BY <1>1, BoxMember
  <2>2. \A d \in Dims : d = 1 \/ d = 2
    BY DEF Dims
  <2> HIDE DEF lb, ub
  <2> QED
    BY <2>1, <2>2
<1>4. \A d \in Dims : i[d] \in PutLb(Src, Dst, p, d) .. PutUb(Src, Dst, p, d)
  BY <1>3
<1>5. PublishVar(p)[i] = [d \in Dims |-> First(Src, p, d) + (i[d] - PutLb(Src, Dst, p, d))]
  BY <1>2 DEF PointOf, Dims
<1>6. ASSUME NEW d \in Dims
      PROVE  /\ PutLb(Src, Dst, p, d) \in Nat /\ i[d] \in Nat
             /\ Src.lb[d] <= PublishVar(p)[i][d] /\ PublishVar(p)[i][d] < Src.ub[d]
  <2>1. /\ Offset(Src, p, d) \in Nat /\ First(Src, p, d) \in Nat /\ Past(Src, p, d) <= Src.ub[d]
        /\ First(Src, p, d) = Src.lb[d] + Offset(Src, p, d)
        /\ Past(Src, p, d) = First(Src, p, d) + Pts(Src, d)
    BY TheDomains, RankPlace
  <2>2. /\ Src.lb[d] \in Nat /\ Dst.lb[d] \in Nat /\ Src.ub[d] \in Nat
        /\ Pts(Src, d) \in Nat
    BY TheDomains, DomainFields
  <2>3. PutLb(Src, Dst, p, d) \in Nat
    BY <2>1, <2>2 DEF PutLb, OverlapOffset
  <2>4. i[d] \in PutLb(Src, Dst, p, d) .. PutLb(Src, Dst, p, d) + Pts(Src, d) - 1
    BY <1>4 DEF PutUb
  <2>5. PublishVar(p)[i][d] = First(Src, p, d) + (i[d] - PutLb(Src, Dst, p, d))
    BY <1>5
  <2> QED
    BY <2>1, <2>2, <2>3, <2>4, <2>5
<1>7. i \in Nat \X Nat
  <2>1. i[1] \in Nat /\ i[2] \in Nat
    BY <1>6 DEF Dims
  <2> QED
    BY <1>3, <2>1
<1>8. \A d \in Dims : PublishVar(p)[i][d] = First(Src, p, d) + (i[d] - PutLb(Src, Dst, p, d))
  BY <1>5
<1>9. Inside(PublishVar(p)[i], Src)
  BY <1>6 DEF Inside
<1> QED
  BY <1>3, <1>4, <1>5, <1>7, <1>8, <1>9

\* What is staged after a publication.
LEMMA StagedAfter ==
    ASSUME NEW p, HandlePub(p)
    PROVE  \/ UNCHANGED staged
           \/ /\ LocalOverlap(Src, p, Dst)
              /\ DOMAIN staged' = DOMAIN PublishVar(p) \cup DOMAIN staged
              /\ \A i \in DOMAIN staged' :
                     staged'[i] = IF i \in DOMAIN PublishVar(p)
                                  THEN PublishVar(p)[i] ELSE staged[i]
<1> DEFINE f == PublishVar(p)
<1>1. CASE LocalOverlap(Src, p, Dst)
  <2>1. staged' = Put(f)
    BY <1>1 DEF HandlePub
  <2> HIDE DEF f
  <2>2. staged' = [i \in DOMAIN f \cup DOMAIN staged |->
                       IF i \in DOMAIN f THEN f[i] ELSE staged[i]]
    BY <2>1 DEF Put
  <2>3. /\ DOMAIN staged' = DOMAIN f \cup DOMAIN staged
        /\ \A i \in DOMAIN staged' : staged'[i] = IF i \in DOMAIN f THEN f[i] ELSE staged[i]
    BY <2>2
  <2> QED
    BY <1>1, <2>3 DEF f
<1>2. CASE ~LocalOverlap(Src, p, Dst)
  BY <1>2 DEF HandlePub
<1> QED
  BY <1>1, <1>2

\* The types are kept, for all pairs of domains: indices are natural numbers,
\* whatever publish_var subtracts from them, and what is put under one of them
\* is a point of the source.
THEOREM TypeCorrect == Spec => []TypeOK
<1>1. ASSUME Init PROVE TypeOK
  <2>1. DOMAIN staged = {}
    BY <1>1 DEF Init
  <2> QED
    BY <1>1, <2>1 DEF Init, TypeOK, Src, Dst, SubStates
<1>2. ASSUME TypeOK, [Next]_vars PROVE TypeOK'
  <2>1. CASE UNCHANGED vars
    BY <1>2, <2>1 DEF vars, TypeOK, Src, Dst
  <2>2. ASSUME NEW p \in Ranks(Src), HandlePub(p) PROVE TypeOK'
    <3>1. UNCHANGED <<geo, sub, buf>> /\ published' = published \cup {p}
      BY <2>2 DEF HandlePub
    <3>2. UNCHANGED <<Src, Dst>>
      BY <3>1 DEF Src, Dst
    <3>3. \A i \in DOMAIN PublishVar(p) : i \in Nat \X Nat /\ Inside(PublishVar(p)[i], Src)
      BY <1>2, PutTyped DEF TypeOK
    <3>4. DOMAIN staged' \subseteq Nat \X Nat /\ \A i \in DOMAIN staged' : Inside(staged'[i], Src)
      BY <1>2, <2>2, <3>3, StagedAfter DEF TypeOK
    <3> QED
      BY <1>2, <3>1, <3>2, <3>4 DEF TypeOK
  <2>3. ASSUME NEW p \in Ranks(Dst), HandleSub(p) PROVE TypeOK'
    BY <1>2, <2>3 DEF HandleSub, TypeOK, SubStates, Src, Dst
  <2>4. ASSUME NEW p \in Ranks(Dst), HandleNotify(p) PROVE TypeOK'
    <3>1. UNCHANGED <<geo, published, staged>> /\ sub' = [sub EXCEPT ![p] = "done"]
      BY <2>4 DEF HandleNotify
    <3>2. buf' = [buf EXCEPT ![p] = MatrixCopyInterp(Src, Dst, p, staged, buf[p])]
      BY <2>4 DEF HandleNotify
    <3>3. DOMAIN MatrixCopyInterp(Src, Dst, p, staged, buf[p]) = Cells(Dst)
      BY DEF MatrixCopyInterp
    <3> QED
      BY <1>2, <3>1, <3>2, <3>3 DEF TypeOK, SubStates, Src, Dst
  <2> QED
    BY <1>2, <2>1, <2>2, <2>3, <2>4 DEF Next, Publishing, Subscribing, Notifying
<1> QED
  BY <1>1, <1>2, PTL DEF Spec


-----------------------------------------------------------------------------
(***************************************************************************)
(* What is put where, when no rank that publishes begins before the        *)
(* overlap.                                                                *)
(***************************************************************************)

\* The condition on the domains under which the source puts in place.
Cut == \A g \in Geometries : CutAtOverlap(g.src, g.dst)

\* The point that an index means: indices count from the overlap's beginning.
PointAt(i) == [d \in Dims |-> Src.lb[d] + OverlapOffset(Src, Dst, d) + i[d]]

\* Where a rank's put begins.
LEMMA PutPlace ==
    ASSUME geo \in Geometries, Cut, NEW p \in Ranks(Src), LocalOverlap(Src, p, Dst), NEW d \in Dims
    PROVE  /\ PutLb(Src, Dst, p, d) = Offset(Src, p, d) - OverlapOffset(Src, Dst, d)
           /\ OverlapOffset(Src, Dst, d) \in Nat
<1>1. /\ Offset(Src, p, d) \in Nat /\ First(Src, p, d) = Src.lb[d] + Offset(Src, p, d)
  BY TheDomains, RankPlace
<1>2. Src.lb[d] \in Nat /\ Dst.lb[d] \in Nat
  BY TheDomains, DomainFields
<1>3. First(Src, p, d) >= Dst.lb[d]
  BY DEF Cut, CutAtOverlap, Src, Dst
<1> QED
  BY <1>1, <1>2, <1>3 DEF PutLb, OverlapOffset

\* A rank puts each point under the index that means it.
LEMMA PutMeans ==
    ASSUME geo \in Geometries, Cut, NEW p \in Ranks(Src), LocalOverlap(Src, p, Dst),
           NEW i \in DOMAIN PublishVar(p)
    PROVE  PublishVar(p)[i] = PointAt(i)
<1>1. PublishVar(p)[i] = [d \in Dims |-> First(Src, p, d) + (i[d] - PutLb(Src, Dst, p, d))]
  BY PutTyped
<1>2. ASSUME NEW d \in Dims
      PROVE  First(Src, p, d) + (i[d] - PutLb(Src, Dst, p, d))
               = Src.lb[d] + OverlapOffset(Src, Dst, d) + i[d]
  <2>1. /\ PutLb(Src, Dst, p, d) = Offset(Src, p, d) - OverlapOffset(Src, Dst, d)
        /\ OverlapOffset(Src, Dst, d) \in Nat
    BY PutPlace
  <2>2. Offset(Src, p, d) \in Nat /\ First(Src, p, d) = Src.lb[d] + Offset(Src, p, d)
    BY TheDomains, RankPlace
  <2>3. Src.lb[d] \in Nat
    BY TheDomains, DomainFields
  <2>4. i[d] \in Int
    <3>1. i \in Nat \X Nat
      BY PutTyped
    <3> QED
      BY <3>1 DEF Dims
  <2> QED
    BY <2>1, <2>2, <2>3, <2>4
<1> QED
  BY <1>1, <1>2 DEF PointAt

\* Two ranks never put the same index.
LEMMA PutsApart ==
    ASSUME geo \in Geometries, Cut, NEW p \in Ranks(Src), NEW q \in Ranks(Src), p # q,
           LocalOverlap(Src, p, Dst), LocalOverlap(Src, q, Dst)
    PROVE  DOMAIN PublishVar(p) \cap DOMAIN PublishVar(q) = {}
<1>1. ASSUME NEW r \in Ranks(Src), NEW s \in Ranks(Src),
             LocalOverlap(Src, r, Dst), LocalOverlap(Src, s, Dst),
             NEW d \in Dims, r[d] < s[d],
             NEW i \in DOMAIN PublishVar(r), i \in DOMAIN PublishVar(s)
      PROVE  FALSE
  <2>1. /\ PutLb(Src, Dst, r, d) = Offset(Src, r, d) - OverlapOffset(Src, Dst, d)
        /\ PutLb(Src, Dst, s, d) = Offset(Src, s, d) - OverlapOffset(Src, Dst, d)
        /\ OverlapOffset(Src, Dst, d) \in Nat
    BY <1>1, PutPlace
  <2>2. /\ i[d] \in PutLb(Src, Dst, r, d) .. PutUb(Src, Dst, r, d)
        /\ i[d] \in PutLb(Src, Dst, s, d) .. PutUb(Src, Dst, s, d)
    BY <1>1, PutTyped
  <2>3. /\ r[d] \in Int /\ s[d] \in Int
        /\ Offset(Src, r, d) = Pts(Src, d) * r[d] /\ Offset(Src, r, d) \in Nat
        /\ Offset(Src, s, d) = Pts(Src, d) * s[d] /\ Offset(Src, s, d) \in Nat
    BY <1>1, TheDomains, RankPlace
  <2>4. Pts(Src, d) \in Nat
    BY TheDomains, DomainFields
  <2>5. Offset(Src, r, d) + Pts(Src, d) <= Offset(Src, s, d)
    BY <1>1, <2>3, <2>4, MulApart
  <2> QED
    BY <2>1, <2>2, <2>3, <2>4, <2>5 DEF PutUb
<1>2. \E d \in Dims : p[d] < q[d] \/ q[d] < p[d]
  <2>1. /\ p = <<p[1], p[2]>> /\ q = <<q[1], q[2]>>
        /\ p[1] \in Int /\ p[2] \in Int /\ q[1] \in Int /\ q[2] \in Int
    BY BoxMember DEF Ranks
  <2>2. p[1] # q[1] \/ p[2] # q[2]
    BY <2>1
  <2> QED
    BY <2>1, <2>2 DEF Dims
<1> QED
  BY <1>1, <1>2

\* What is staged has been put by a rank that has published, and is the
\* point that its index means.
StagedOK ==
    \A i \in DOMAIN staged :
        /\ staged[i] = PointAt(i)
        /\ \E p \in published : LocalOverlap(Src, p, Dst) /\ i \in DOMAIN PublishVar(p)

\* Every step keeps that.
LEMMA StagedKept ==
    ASSUME Cut, TypeOK, StagedOK, [Next]_vars
    PROVE  StagedOK'
<1>1. CASE UNCHANGED <<geo, published, staged>>
  <2>1. /\ \A i : PointAt(i)' = PointAt(i)
        /\ \A q : (LocalOverlap(Src, q, Dst))' <=> LocalOverlap(Src, q, Dst)
        /\ \A q : PublishVar(q)' = PublishVar(q)
    BY <1>1 DEF PointAt, Src, Dst, PublishVar
  <2> QED
    BY <1>1, <2>1 DEF StagedOK
<1>2. ASSUME NEW p \in Ranks(Src), HandlePub(p) PROVE StagedOK'
  <2>1. published' = published \cup {p} /\ UNCHANGED geo
    BY <1>2 DEF HandlePub
  <2>2. /\ \A i : PointAt(i)' = PointAt(i)
        /\ \A q : (LocalOverlap(Src, q, Dst))' <=> LocalOverlap(Src, q, Dst)
        /\ \A q : PublishVar(q)' = PublishVar(q)
    BY <2>1 DEF PointAt, Src, Dst, PublishVar
  <2>3. ASSUME NEW i \in DOMAIN staged'
        PROVE  /\ staged'[i] = PointAt(i)
               /\ \E q \in published' : LocalOverlap(Src, q, Dst) /\ i \in DOMAIN PublishVar(q)
    <3>1. CASE i \in DOMAIN staged /\ staged'[i] = staged[i]
      BY <2>1, <3>1 DEF StagedOK
    <3>2. CASE /\ LocalOverlap(Src, p, Dst) /\ i \in DOMAIN PublishVar(p)
               /\ staged'[i] = PublishVar(p)[i]
      BY <2>1, <3>2, PutMeans DEF TypeOK
    <3> QED
      BY <1>2, <2>3, <3>1, <3>2, StagedAfter
  <2> QED
    BY <2>2, <2>3 DEF StagedOK
<1>3. ASSUME NEW p, HandleSub(p) \/ HandleNotify(p) PROVE UNCHANGED <<geo, published, staged>>
  BY <1>3 DEF HandleSub, HandleNotify
<1>4. UNCHANGED vars => UNCHANGED <<geo, published, staged>>
  BY DEF vars
<1> QED
  BY <1>1, <1>2, <1>3, <1>4 DEF Next, Publishing, Subscribing, Notifying

\* No index is put twice, on whatever ranks and in whatever order handle_pub
\* runs, for all domains in which no rank that publishes begins before the
\* overlap.
THEOREM PutsOnce ==
    ASSUME Cut
    PROVE  Spec => PutOnce
<1>1. ASSUME Init PROVE StagedOK
  <2>1. DOMAIN staged = {}
    BY <1>1 DEF Init
  <2> QED
    BY <2>1 DEF StagedOK
<1>2. ASSUME TypeOK, StagedOK, [Next]_vars
      PROVE  [\A p \in published' \ published :
                 LocalOverlap(Src, p, Dst) => DOMAIN PublishVar(p) \cap DOMAIN staged = {}]_vars
  <2>1. ASSUME NEW p \in published' \ published, LocalOverlap(Src, p, Dst),
               NEW i \in DOMAIN PublishVar(p), i \in DOMAIN staged
        PROVE  FALSE
    <3>1. p \in Ranks(Src)
      BY <1>2, <2>1 DEF Next, Publishing, Subscribing, Notifying, HandlePub, HandleSub,
         HandleNotify, vars
    <3>2. PICK q \in published : LocalOverlap(Src, q, Dst) /\ i \in DOMAIN PublishVar(q)
      BY <1>2, <2>1 DEF StagedOK
    <3>3. q \in Ranks(Src) /\ q # p
      BY <1>2, <2>1 DEF TypeOK
    <3>4. geo \in Geometries
      BY <1>2 DEF TypeOK
    <3> QED
      BY <2>1, <3>1, <3>2, <3>3, <3>4, PutsApart
  <2> QED
    BY <2>1
<1> QED
  BY <1>1, <1>2, StagedKept, TypeCorrect, PTL DEF Spec, PutOnce


-----------------------------------------------------------------------------
(***************************************************************************)
(* Where what is received goes.                                            *)
(***************************************************************************)

\* The condition on the domains under which the destination blends in place.
Whole == \A g \in Geometries : WholeLines(g.src, g.dst)

\* What rank p of the destination receives along dimension d: it begins at
\* this cell of the rank's part, and has this length.
Begins(p, d) == DataLb(Src, Dst, p, d) - Offset(Dst, p, d)
Length(p, d) == DataUb(Src, Dst, p, d) - DataLb(Src, Dst, p, d) + 1

\* That lies in the rank's part.
LEMMA DataPlace ==
    ASSUME geo \in Geometries, NEW p \in Ranks(Dst), LocalOverlap(Dst, p, Src), NEW d \in Dims
    PROVE  /\ Begins(p, d) \in 0 .. Pts(Dst, d) - 1
           /\ Length(p, d) \in 1 .. Pts(Dst, d)
           /\ Begins(p, d) + Length(p, d) <= Pts(Dst, d)
           /\ OverlapLb(Dst, p, Src, d) = First(Dst, p, d) + Begins(p, d)
           /\ OverlapUb(Dst, p, Src, d) = First(Dst, p, d) + Begins(p, d) + Length(p, d)
           /\ DataLb(Src, Dst, p, d) = Offset(Dst, p, d) + Begins(p, d)
           /\ DataUb(Src, Dst, p, d) = Offset(Dst, p, d) + Begins(p, d) + Length(p, d) - 1
<1>1. /\ Offset(Dst, p, d) \in Nat /\ First(Dst, p, d) = Dst.lb[d] + Offset(Dst, p, d)
      /\ Past(Dst, p, d) = First(Dst, p, d) + Pts(Dst, d)
  BY TheDomains, RankPlace
<1>2. /\ Src.lb[d] \in Nat /\ Src.ub[d] \in Nat /\ Src.lb[d] < Src.ub[d]
      /\ Dst.lb[d] \in Nat /\ Pts(Dst, d) \in Nat \ {0}
  BY TheDomains, DomainFields
<1>3. First(Dst, p, d) < Src.ub[d] /\ Past(Dst, p, d) > Src.lb[d]
  BY DEF LocalOverlap
<1> QED
  BY <1>1, <1>2, <1>3 DEF Begins, Length, DataLb, DataUb, OverlapLb, OverlapUb

\* The elements received, by line and by place in the line.
LEMMA ElementFields ==
    ASSUME NEW p, NEW e
    PROVE  e \in Elements(Src, Dst, p) <=>
             /\ e = <<e[1], e[2]>>
             /\ e[1] \in 0 .. Length(p, 1) - 1 /\ e[2] \in 0 .. Length(p, 2) - 1
BY BoxMember DEF Elements, Lines, LineSize, Length

\* matrix_copy_interp puts element e at the beginning of a cell: that of the
\* line and place that e has in what is received.
LEMMA TargetCell ==
    ASSUME geo \in Geometries, Whole, NEW p \in Ranks(Dst), LocalOverlap(Dst, p, Src),
           NEW e \in Elements(Src, Dst, p)
    PROVE  TargetByte(Src, Dst, p, e)
             = ElemSize * (Pts(Dst, 2) * (Begins(p, 1) + e[1]) + (Begins(p, 2) + e[2]))
<1> DEFINE a == Begins(p, 1)
<1> DEFINE b == Begins(p, 2)
<1> DEFINE m == Length(p, 1)
<1> DEFINE n == Length(p, 2)
<1> DEFINE w == Pts(Dst, 2)
<1>1. /\ a \in Nat /\ b \in Nat /\ m \in Nat \ {0} /\ n \in Nat \ {0} /\ w \in Nat \ {0}
      /\ b + n <= w
      /\ DataLb(Src, Dst, p, 1) - Offset(Dst, p, 1) = a
      /\ DataLb(Src, Dst, p, 2) - Offset(Dst, p, 2) = b
      /\ DataUb(Src, Dst, p, 1) - Offset(Dst, p, 1) = a + m - 1
      /\ DataUb(Src, Dst, p, 2) - Offset(Dst, p, 2) = b + n - 1
  <2>1. 1 \in Dims /\ 2 \in Dims
    BY DEF Dims
  <2>2. Offset(Dst, p, 1) \in Nat /\ Offset(Dst, p, 2) \in Nat
    BY <2>1, TheDomains, RankPlace
  <2>3. w \in Nat \ {0} /\ Pts(Dst, 1) \in Nat \ {0}
    BY <2>1, TheDomains, DomainFields
  <2> QED
    BY <2>1, <2>2, <2>3, DataPlace
<1>2. e[1] \in 0 .. m - 1 /\ e[2] \in 0 .. n - 1
  BY ElementFields
<1> DEFINE first == Linear(Dst, p, [d \in Dims |-> DataLb(Src, Dst, p, d)])
<1> DEFINE last == Linear(Dst, p, [d \in Dims |-> DataUb(Src, Dst, p, d)])
<1>3. first = a * w + b
  BY <1>1 DEF Linear, Dims
<1>4. last = (a + m - 1) * w + (b + n - 1)
  BY <1>1 DEF Linear, Dims
<1>5. n = w \/ m = 1
  <2>1. LineSize(Src, Dst, p) = Pts(Dst, 2) \/ Lines(Src, Dst, p) = 1
    BY DEF Whole, WholeLines, Src, Dst
  <2> QED
    BY <2>1 DEF LineSize, Lines, Length
<1>6. Stride(Src, Dst, p) = (ElemSize * (last - first + 1)) \div m
  BY DEF Stride, Lines, Length
<1>7. TargetByte(Src, Dst, p, e) = ElemSize * (first + e[2]) + e[1] * Stride(Src, Dst, p)
  BY DEF TargetByte
<1> HIDE DEF a, b, m, n, w, first, last
<1>8. CASE n = w
  <2>1. b = 0
    BY <1>1, <1>8
  <2>2. last - first + 1 = m * w
    <3>1. (a + m - 1) * w = a * w + m * w - w
      BY <1>1
    <3>2. a * w \in Int /\ m * w \in Int
      BY <1>1
    <3> QED
      BY <1>1, <1>3, <1>4, <1>8, <3>1, <3>2
  <2>3. ElemSize * (last - first + 1) = m * (ElemSize * w)
    BY <1>1, <2>2 DEF ElemSize
  <2>4. Stride(Src, Dst, p) = ElemSize * w
    <3>1. ElemSize * w \in Int
      BY <1>1 DEF ElemSize
    <3> QED
      BY <1>1, <1>6, <2>3, <3>1, Cancel
  <2>5. TargetByte(Src, Dst, p, e) = ElemSize * (w * (a + e[1]) + (b + e[2]))
    <3>1. e[1] * (ElemSize * w) = ElemSize * (w * e[1])
      BY <1>1, <1>2 DEF ElemSize
    <3>2. w * (a + e[1]) = a * w + w * e[1]
      BY <1>1, <1>2
    <3>3. a * w \in Int /\ w * e[1] \in Int
      BY <1>1, <1>2
    <3> QED
      BY <1>1, <1>2, <1>3, <1>7, <2>4, <3>1, <3>2, <3>3 DEF ElemSize
  <2> QED
    BY <2>5 DEF a, b, w
<1>9. CASE m = 1
  <2>1. e[1] = 0
    BY <1>2, <1>9
  <2>2. Stride(Src, Dst, p) \in Int
    <3>1. ElemSize * (last - first + 1) \in Int
      BY <1>1, <1>3, <1>4 DEF ElemSize
    <3> QED
      BY <1>6, <1>9, <3>1
  <2>3. e[1] * Stride(Src, Dst, p) = 0
    BY <2>1, <2>2
  <2>4. TargetByte(Src, Dst, p, e) = ElemSize * (w * (a + e[1]) + (b + e[2]))
    <3>1. w * (a + e[1]) = a * w
      BY <1>1, <2>1
    <3>2. a * w \in Int
      BY <1>1
    <3> QED
      BY <1>1, <1>2, <1>3, <1>7, <2>1, <2>3, <3>1, <3>2 DEF ElemSize
  <2> QED
    BY <2>4 DEF a, b, w
<1> QED
  BY <1>5, <1>8, <1>9

\* Hence one element at most lands in a cell, the one of its line and place.
LEMMA LandsThere ==
    ASSUME geo \in Geometries, Whole, NEW p \in Ranks(Dst), LocalOverlap(Dst, p, Src),
           NEW c \in Cells(Dst), NEW e \in Elements(Src, Dst, p)
    PROVE  e \in Landing(Src, Dst, p, c) <=>
             c[1] = Begins(p, 1) + e[1] /\ c[2] = Begins(p, 2) + e[2]
<1> DEFINE w == Pts(Dst, 2)
<1> DEFINE i == Begins(p, 1) + e[1]
<1> DEFINE j == Begins(p, 2) + e[2]
<1>1. 1 \in Dims /\ 2 \in Dims
  BY DEF Dims
<1>2. w \in Nat \ {0} /\ Pts(Dst, 1) \in Nat \ {0}
  BY <1>1, TheDomains, DomainFields
<1>3. /\ Begins(p, 1) \in Nat /\ Begins(p, 2) \in Nat
      /\ Length(p, 2) \in Nat /\ Begins(p, 2) + Length(p, 2) <= w /\ Length(p, 1) \in Nat
  BY <1>1, <1>2, DataPlace
<1>4. e[1] \in 0 .. Length(p, 1) - 1 /\ e[2] \in 0 .. Length(p, 2) - 1
  BY ElementFields
<1>5. i \in Nat /\ j \in 0 .. w - 1
  BY <1>2, <1>3, <1>4
<1>6. c[1] \in Nat /\ c[2] \in 0 .. w - 1
  <2>1. c[1] \in 0 .. Pts(Dst, 1) - 1 /\ c[2] \in 0 .. w - 1
    BY BoxMember DEF Cells
  <2> QED
    BY <2>1
<1>7. TargetByte(Src, Dst, p, e) = ElemSize * (w * i + j)
  BY TargetCell
<1>8. e \in Landing(Src, Dst, p, c) <=>
        /\ TargetByte(Src, Dst, p, e) < ElemSize * (c[1] * w + c[2]) + ElemSize
        /\ ElemSize * (c[1] * w + c[2]) < TargetByte(Src, Dst, p, e) + ElemSize
  BY DEF Landing
<1> HIDE DEF w, i, j
<1>9. e \in Landing(Src, Dst, p, c) <=> w * c[1] + c[2] = w * i + j
  <2>1. c[1] * w = w * c[1] /\ w * c[1] \in Int /\ w * i \in Int
    BY <1>2, <1>5, <1>6
  <2> QED
    BY <1>5, <1>6, <1>7, <1>8, <2>1 DEF ElemSize
<1>10. ASSUME w * c[1] + c[2] = w * i + j PROVE c[1] = i /\ c[2] = j
  <2>1. PICK k \in Int : k = c[1]
    BY <1>6
  <2>2. PICK r \in 0 .. w - 1 : r = c[2]
    BY <1>6
  <2>3. w \in Nat /\ i \in Int /\ w * k + r = w * i + j
    BY <1>2, <1>5, <1>10, <2>1, <2>2
  <2>4. k = i /\ r = j
    BY <1>5, <2>3, OneQuotient
  <2> QED
    BY <2>1, <2>2, <2>4
<1> QED
  BY <1>9, <1>10 DEF i, j


\* Along each dimension, a cell's point is in the source's domain if the cell
\* is where something is received.
LEMMA InsideAlong ==
    ASSUME geo \in Geometries, NEW p \in Ranks(Dst), LocalOverlap(Dst, p, Src),
           NEW c \in Cells(Dst), NEW d \in Dims
    PROVE  LET x == PointOf(Dst, p, c)[d]
           IN  Src.lb[d] <= x /\ x < Src.ub[d] <=> c[d] - Begins(p, d) \in 0 .. Length(p, d) - 1
<1> DEFINE x == PointOf(Dst, p, c)[d]
<1>1. /\ First(Dst, p, d) \in Nat /\ Past(Dst, p, d) = First(Dst, p, d) + Pts(Dst, d)
  BY TheDomains, RankPlace
<1>2. Src.lb[d] \in Nat /\ Src.ub[d] \in Nat /\ Pts(Dst, d) \in Nat
  BY TheDomains, DomainFields
<1>3. /\ Begins(p, d) \in Nat /\ Length(p, d) \in Nat
      /\ OverlapLb(Dst, p, Src, d) = First(Dst, p, d) + Begins(p, d)
      /\ OverlapUb(Dst, p, Src, d) = First(Dst, p, d) + Begins(p, d) + Length(p, d)
  BY <1>2, DataPlace
<1>4. c[d] \in 0 .. Pts(Dst, d) - 1 /\ x = First(Dst, p, d) + c[d]
  BY TheDomains, CellPlace
<1> HIDE DEF x
<1>5. Src.lb[d] <= x /\ x < Src.ub[d]
        <=> OverlapLb(Dst, p, Src, d) <= x /\ x < OverlapUb(Dst, p, Src, d)
  BY <1>1, <1>2, <1>4 DEF OverlapLb, OverlapUb
<1>6. Src.lb[d] <= x /\ x < Src.ub[d] <=> c[d] - Begins(p, d) \in 0 .. Length(p, d) - 1
  BY <1>1, <1>2, <1>3, <1>4, <1>5
<1> QED
  BY <1>6 DEF x

\* The index under which a rank asks for what it puts into a cell.
LEMMA AskedFor ==
    ASSUME geo \in Geometries, NEW p \in Ranks(Dst), LocalOverlap(Dst, p, Src),
           NEW c \in Cells(Dst),
           \A d \in Dims : c[d] - Begins(p, d) \in 0 .. Length(p, d) - 1
    PROVE  LET i == <<SubLb(Src, Dst, p, 1) + (c[1] - Begins(p, 1)),
                      SubLb(Src, Dst, p, 2) + (c[2] - Begins(p, 2))>>
           IN  i \in Asked(p) /\ PointAt(i) = PointOf(Dst, p, c)
<1> DEFINE i == <<SubLb(Src, Dst, p, 1) + (c[1] - Begins(p, 1)),
                  SubLb(Src, Dst, p, 2) + (c[2] - Begins(p, 2))>>
<1>1. ASSUME NEW d \in Dims
      PROVE  /\ SubLb(Src, Dst, p, d) + (c[d] - Begins(p, d))
                  \in SubLb(Src, Dst, p, d) .. SubUb(Src, Dst, p, d)
             /\ Src.lb[d] + OverlapOffset(Src, Dst, d)
                    + (SubLb(Src, Dst, p, d) + (c[d] - Begins(p, d)))
                  = First(Dst, p, d) + c[d]
  <2>1. First(Dst, p, d) \in Nat
    BY TheDomains, RankPlace
  <2>2. Src.lb[d] \in Nat /\ Dst.lb[d] \in Nat /\ Pts(Dst, d) \in Nat
    BY TheDomains, DomainFields
  <2>3. OverlapOffset(Src, Dst, d) \in Int
    BY <2>2 DEF OverlapOffset
  <2>4. /\ Begins(p, d) \in Nat /\ Length(p, d) \in Nat
        /\ OverlapLb(Dst, p, Src, d) = First(Dst, p, d) + Begins(p, d)
        /\ OverlapUb(Dst, p, Src, d) = First(Dst, p, d) + Begins(p, d) + Length(p, d)
    BY <2>2, DataPlace
  <2>5. c[d] \in Int
    BY TheDomains, CellPlace
  <2> QED
    BY <2>1, <2>2, <2>3, <2>4, <2>5 DEF SubLb, SubUb
<1>2. 1 \in Dims /\ 2 \in Dims /\ \A d \in Dims : d = 1 \/ d = 2
  BY DEF Dims
<1>3. i[1] = SubLb(Src, Dst, p, 1) + (c[1] - Begins(p, 1))
      /\ i[2] = SubLb(Src, Dst, p, 2) + (c[2] - Begins(p, 2)) /\ i = <<i[1], i[2]>>
  OBVIOUS
<1> HIDE DEF i
<1>4. i \in Asked(p)
  <2> DEFINE lb == [d \in Dims |-> SubLb(Src, Dst, p, d)]
  <2> DEFINE ub == [d \in Dims |-> SubUb(Src, Dst, p, d)]
  <2>1. /\ lb[1] = SubLb(Src, Dst, p, 1) /\ ub[1] = SubUb(Src, Dst, p, 1)
        /\ lb[2] = SubLb(Src, Dst, p, 2) /\ ub[2] = SubUb(Src, Dst, p, 2)
    BY <1>2
  <2>2. Asked(p) = Box(lb, ub)
    BY DEF Asked
  <2> HIDE DEF lb, ub
  <2> QED
    BY <1>1, <1>2, <1>3, <2>1, <2>2, BoxMember
<1>5. \A d \in Dims : Src.lb[d] + OverlapOffset(Src, Dst, d) + i[d] = First(Dst, p, d) + c[d]
  BY <1>1, <1>2, <1>3
<1>6. PointAt(i) = PointOf(Dst, p, c)
  BY <1>5 DEF PointAt, PointOf
<1> QED
  BY <1>4, <1>6 DEF i

\* matrix_copy_interp blends into each cell whose point is in the source's
\* domain the value of that point, and into no other.
LEMMA Blended ==
    ASSUME geo \in Geometries, Whole, NEW p \in Ranks(Dst), LocalOverlap(Dst, p, Src),
           NEW data, \A i \in Asked(p) : data[i] = PointAt(i),
           NEW c \in Cells(Dst), NEW old, old[c] = {Own(PointOf(Dst, p, c))}
    PROVE  LET pt == PointOf(Dst, p, c)
           IN  MatrixCopyInterp(Src, Dst, p, data, old)[c]
                 = IF Inside(pt, Src) THEN {Own(pt), Received(pt)} ELSE {Own(pt)}
<1> DEFINE pt == PointOf(Dst, p, c)
<1> DEFINE it == <<c[1] - Begins(p, 1), c[2] - Begins(p, 2)>>
<1> DEFINE landing == Landing(Src, Dst, p, c)
<1> DEFINE at(e) == <<SubLb(Src, Dst, p, 1) + e[1], SubLb(Src, Dst, p, 2) + e[2]>>
<1> DEFINE torn == \E e \in landing : TargetByte(Src, Dst, p, e) % ElemSize # 0
<1>1. 1 \in Dims /\ 2 \in Dims /\ \A d \in Dims : d = 1 \/ d = 2
  BY DEF Dims
<1>2. /\ c[1] \in Int /\ c[2] \in Int /\ Begins(p, 1) \in Int /\ Begins(p, 2) \in Int
      /\ Length(p, 1) \in Int /\ Length(p, 2) \in Int /\ Pts(Dst, 2) \in Nat
  <2>1. Pts(Dst, 1) \in Nat /\ Pts(Dst, 2) \in Nat
    BY <1>1, TheDomains, DomainFields
  <2>2. c[1] \in Int /\ c[2] \in Int
    BY <1>1, TheDomains, CellPlace
  <2> QED
    BY <1>1, <2>1, <2>2, DataPlace
<1>3. it[1] = c[1] - Begins(p, 1) /\ it[2] = c[2] - Begins(p, 2) /\ it = <<it[1], it[2]>>
  OBVIOUS
<1>4. MatrixCopyInterp(Src, Dst, p, data, old)[c]
        = old[c] \cup {Received(data[at(e)]) : e \in landing}
                 \cup (IF torn THEN {Torn} ELSE {})
  BY DEF MatrixCopyInterp
<1>5. landing \subseteq Elements(Src, Dst, p)
  BY DEF Landing
<1>6. ~torn
  <2> SUFFICES ASSUME NEW e \in landing PROVE TargetByte(Src, Dst, p, e) % ElemSize = 0
    OBVIOUS
  <2>1. e[1] \in Int /\ e[2] \in Int
    BY <1>2, <1>5, ElementFields
  <2> DEFINE k == Pts(Dst, 2) * (Begins(p, 1) + e[1]) + (Begins(p, 2) + e[2])
  <2>2. k \in Int
    BY <1>2, <2>1
  <2>3. TargetByte(Src, Dst, p, e) = ElemSize * k
    BY <1>5, TargetCell
  <2> HIDE DEF k
  <2> QED
    BY <2>2, <2>3 DEF ElemSize
<1>7. \A e \in landing : e = it
  <2> SUFFICES ASSUME NEW e \in landing PROVE e = it
    OBVIOUS
  <2>1. /\ e = <<e[1], e[2]>> /\ e[1] \in Int /\ e[2] \in Int
        /\ c[1] = Begins(p, 1) + e[1] /\ c[2] = Begins(p, 2) + e[2]
    BY <1>2, <1>5, ElementFields, LandsThere
  <2> QED
    BY <1>2, <1>3, <2>1
<1>8. it \in Elements(Src, Dst, p) <=> Inside(pt, Src)
  <2>1. it \in Elements(Src, Dst, p) <=>
          \A d \in Dims : c[d] - Begins(p, d) \in 0 .. Length(p, d) - 1
    BY <1>1, <1>3, ElementFields
  <2>2. \A d \in Dims : Src.lb[d] <= pt[d] /\ pt[d] < Src.ub[d]
          <=> c[d] - Begins(p, d) \in 0 .. Length(p, d) - 1
    BY InsideAlong
  <2> QED
    BY <2>1, <2>2 DEF Inside
<1>9. it \in Elements(Src, Dst, p) => it \in landing
  BY <1>2, <1>3, LandsThere
<1>10. Inside(pt, Src) => data[at(it)] = pt
  <2> SUFFICES ASSUME Inside(pt, Src) PROVE data[at(it)] = pt
    OBVIOUS
  <2>1. \A d \in Dims : c[d] - Begins(p, d) \in 0 .. Length(p, d) - 1
    BY InsideAlong DEF Inside
  <2>2. at(it) \in Asked(p) /\ PointAt(at(it)) = pt
    BY <2>1, AskedFor
  <2> QED
    BY <2>2
<1>11. landing = IF Inside(pt, Src) THEN {it} ELSE {}
  <2> HIDE DEF landing, it, pt
  <2> QED
    BY <1>5, <1>7, <1>8, <1>9
<1> HIDE DEF landing, it, torn, at, pt
<1>12. {Received(data[at(e)]) : e \in landing}
         = IF Inside(pt, Src) THEN {Received(pt)} ELSE {}
  BY <1>10, <1>11
<1>13. MatrixCopyInterp(Src, Dst, p, data, old)[c]
         = IF Inside(pt, Src) THEN {Own(pt), Received(pt)} ELSE {Own(pt)}
  BY <1>4, <1>6, <1>12 DEF pt
<1> QED
  BY <1>13 DEF pt


\* A rank whose part does not meet the source's domain has no point in it.
LEMMA NoneInside ==
    ASSUME geo \in Geometries, NEW p \in Ranks(Dst), ~LocalOverlap(Dst, p, Src),
           NEW n \in Cells(Dst)
    PROVE  ~Inside(PointOf(Dst, p, n), Src)
<1>1. PICK d \in Dims : ~(First(Dst, p, d) < Src.ub[d] /\ Past(Dst, p, d) > Src.lb[d])
  BY DEF LocalOverlap
<1> DEFINE x == PointOf(Dst, p, n)[d]
<1>2. /\ First(Dst, p, d) \in Nat /\ Past(Dst, p, d) \in Nat
      /\ n[d] \in Int /\ x = First(Dst, p, d) + n[d]
      /\ First(Dst, p, d) <= x /\ x < Past(Dst, p, d)
  BY TheDomains, RankPlace, CellPlace
<1>3. Src.lb[d] \in Nat /\ Src.ub[d] \in Nat
  BY TheDomains, DomainFields
<1> HIDE DEF x
<1>4. ~(Src.lb[d] <= x /\ x < Src.ub[d])
  BY <1>1, <1>2, <1>3
<1> QED
  BY <1>4 DEF x, Inside

\* Who waits, or has been notified, has something to wait for.
Asking ==
    \A p \in Ranks(Dst) :
        /\ sub[p] \in {"waiting", "done"} => LocalOverlap(Dst, p, Src)
        /\ sub[p] = "none" => ~LocalOverlap(Dst, p, Src)

\* Every step leaves the buffers as they should be.
LEMMA InPlaceKept ==
    ASSUME Whole, TypeOK, StagedOK, Asking, InPlace, [Next]_vars
    PROVE  Asking' /\ InPlace'
<1> DEFINE Right(p, n, s) ==
             LET pt == PointOf(Dst, p, n)
             IN  IF s \in {"none", "done"} /\ Inside(pt, Src)
                 THEN {Own(pt), Received(pt)} ELSE {Own(pt)}
<1>1. InPlace <=> \A p \in Ranks(Dst), n \in Cells(Dst) : buf[p][n] = Right(p, n, sub[p])
  BY DEF InPlace
<1>2. UNCHANGED geo
  BY DEF Next, Publishing, Subscribing, Notifying, HandlePub, HandleSub, HandleNotify, vars
<1>3. UNCHANGED <<Src, Dst>>
  BY <1>2 DEF Src, Dst
<1>4. /\ (\A p \in Ranks(Dst), n \in Cells(Dst) : buf'[p][n] = Right(p, n, sub'[p])) => InPlace'
      /\ (\A p \in Ranks(Dst) :
             /\ sub'[p] \in {"waiting", "done"} => LocalOverlap(Dst, p, Src)
             /\ sub'[p] = "none" => ~LocalOverlap(Dst, p, Src)) => Asking'
  BY <1>3 DEF InPlace, Asking
<1>5. CASE UNCHANGED <<sub, buf>>
  BY <1>1, <1>4, <1>5 DEF Asking
<1>6. ASSUME NEW p \in Ranks(Dst), HandleSub(p) PROVE Asking' /\ InPlace'
  <2>1. /\ sub[p] = "todo" /\ UNCHANGED buf
        /\ sub' = [sub EXCEPT ![p] = IF LocalOverlap(Dst, p, Src) THEN "waiting" ELSE "none"]
    BY <1>6 DEF HandleSub
  <2>2. sub \in [Ranks(Dst) -> SubStates]
    BY DEF TypeOK
  <2>3. /\ sub'[p] = IF LocalOverlap(Dst, p, Src) THEN "waiting" ELSE "none"
        /\ \A q \in Ranks(Dst) : q # p => sub'[q] = sub[q]
    BY <2>1, <2>2
  <2>4. ASSUME NEW n \in Cells(Dst) PROVE Right(p, n, sub'[p]) = Right(p, n, sub[p])
    <3>1. CASE LocalOverlap(Dst, p, Src)
      BY <2>1, <2>3, <3>1
    <3>2. CASE ~LocalOverlap(Dst, p, Src)
      <4>1. ~Inside(PointOf(Dst, p, n), Src)
        BY <3>2, NoneInside DEF TypeOK
      <4> QED
        BY <4>1
    <3> QED
      BY <3>1, <3>2
  <2> HIDE DEF Right
  <2>5. \A q \in Ranks(Dst), n \in Cells(Dst) : buf'[q][n] = Right(q, n, sub'[q])
    BY <1>1, <2>1, <2>3, <2>4
  <2>6. \A q \in Ranks(Dst) :
          /\ sub'[q] \in {"waiting", "done"} => LocalOverlap(Dst, q, Src)
          /\ sub'[q] = "none" => ~LocalOverlap(Dst, q, Src)
    BY <2>3 DEF Asking
  <2> QED
    BY <1>4, <2>5, <2>6
<1>7. ASSUME NEW p \in Ranks(Dst), HandleNotify(p) PROVE Asking' /\ InPlace'
  <2>1. /\ sub[p] = "waiting" /\ Asked(p) \subseteq DOMAIN staged
        /\ sub' = [sub EXCEPT ![p] = "done"]
        /\ buf' = [buf EXCEPT ![p] = MatrixCopyInterp(Src, Dst, p, staged, buf[p])]
    BY <1>7 DEF HandleNotify
  <2>2. sub \in [Ranks(Dst) -> SubStates] /\ DOMAIN buf = Ranks(Dst) /\ geo \in Geometries
    BY DEF TypeOK
  <2>3. /\ sub'[p] = "done" /\ \A q \in Ranks(Dst) : q # p => sub'[q] = sub[q]
        /\ buf'[p] = MatrixCopyInterp(Src, Dst, p, staged, buf[p])
        /\ \A q \in Ranks(Dst) : q # p => buf'[q] = buf[q]
    BY <2>1, <2>2
  <2>4. LocalOverlap(Dst, p, Src) /\ \A i \in Asked(p) : staged[i] = PointAt(i)
    BY <2>1 DEF Asking, StagedOK
  <2>5. ASSUME NEW n \in Cells(Dst) PROVE buf'[p][n] = Right(p, n, sub'[p])
    <3>1. buf[p][n] = {Own(PointOf(Dst, p, n))}
      BY <1>1, <2>1
    <3>2. MatrixCopyInterp(Src, Dst, p, staged, buf[p])[n]
            = IF Inside(PointOf(Dst, p, n), Src)
              THEN {Own(PointOf(Dst, p, n)), Received(PointOf(Dst, p, n))}
              ELSE {Own(PointOf(Dst, p, n))}
      BY <2>2, <2>4, <3>1, Blended
    <3> QED
      BY <2>3, <3>2
  <2> HIDE DEF Right
  <2>6. \A q \in Ranks(Dst), n \in Cells(Dst) : buf'[q][n] = Right(q, n, sub'[q])
    BY <1>1, <2>3, <2>5
  <2>7. \A q \in Ranks(Dst) :
          /\ sub'[q] \in {"waiting", "done"} => LocalOverlap(Dst, q, Src)
          /\ sub'[q] = "none" => ~LocalOverlap(Dst, q, Src)
    BY <2>3, <2>4 DEF Asking
  <2> QED
    BY <1>4, <2>6, <2>7
<1>8. (\E p : HandlePub(p)) \/ UNCHANGED vars => UNCHANGED <<sub, buf>>
  BY DEF HandlePub, vars
<1> QED
  BY <1>5, <1>6, <1>7, <1>8 DEF Next, Publishing, Subscribing, Notifying

\* A transfer leaves each point of the destination that the source has, too,
\* with the blend of the two values at that point, and all others with their
\* own: for all domains, and all numbers of ranks, that satisfy the two
\* conditions, in whatever order the ranks publish, subscribe and are
\* notified.
THEOREM BlendsInPlace ==
    ASSUME Cut, Whole
    PROVE  Spec => []InPlace
<1>1. ASSUME Init PROVE StagedOK /\ Asking /\ InPlace
  <2>1. DOMAIN staged = {}
    BY <1>1 DEF Init
  <2>2. StagedOK
    BY <2>1 DEF StagedOK
  <2>3. \A p \in Ranks(Dst) : sub[p] = "todo"
    BY <1>1 DEF Init, Dst
  <2>4. \A p \in Ranks(Dst), n \in Cells(Dst) : buf[p][n] = {Own(PointOf(Dst, p, n))}
    BY <1>1 DEF Init, Dst
  <2>5. Asking
    BY <2>3 DEF Asking
  <2>6. InPlace
    BY <2>3, <2>4 DEF InPlace
  <2> QED
    BY <2>2, <2>5, <2>6
<1>2. TypeOK /\ StagedOK /\ Asking /\ InPlace /\ [Next]_vars => Asking' /\ InPlace'
  BY InPlaceKept
<1>3. TypeOK /\ StagedOK /\ [Next]_vars => StagedOK'
  BY StagedKept
<1> QED
  BY <1>1, <1>2, <1>3, TypeCorrect, PTL DEF Spec


=============================================================================
