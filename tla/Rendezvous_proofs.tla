-------------------------- MODULE Rendezvous_proofs --------------------------
(***************************************************************************)
(* Proofs about module Rendezvous, for every set of arguments.  Both loops *)
(* are related to the set of cuts, the points after which the rank         *)
(* changes: the first one counts them, the second one enters a segment for *)
(* each.                                                                   *)
(***************************************************************************)
EXTENDS Rendezvous, FiniteSetTheorems, TLAPS

\* The cuts among the first n points and their successors.
Cuts(a, n) == {k \in 0 .. n - 1 : Rank(a, k) # Rank(a, k + 1)}

\* A finite set, whose cardinality is a number.
LEMMA CutsFinite ==
    ASSUME NEW a, NEW n \in Nat
    PROVE  IsFiniteSet(Cuts(a, n)) /\ Cardinality(Cuts(a, n)) \in Nat
<1>1. Cuts(a, n) \subseteq 0 .. n - 1
  BY DEF Cuts
<1>2. IsFiniteSet(0 .. n - 1)
  BY FS_Interval
<1> QED
  BY <1>1, <1>2, FS_Subset, FS_CardinalityType

\* No points, no cuts.
LEMMA NoCuts == ASSUME NEW a PROVE Cardinality(Cuts(a, 0)) = 0
<1>1. Cuts(a, 0) = {}
  BY DEF Cuts
<1> QED
  BY <1>1, FS_EmptySet

\* One more point makes one more cut, if the rank changes there.
LEMMA NextCut ==
    ASSUME NEW a, NEW n \in Nat
    PROVE  Cardinality(Cuts(a, n + 1)) =
             Cardinality(Cuts(a, n)) + (IF Rank(a, n) # Rank(a, n + 1) THEN 1 ELSE 0)
<1>1. CASE Rank(a, n) # Rank(a, n + 1)
  <2>1. Cuts(a, n + 1) = Cuts(a, n) \cup {n}
    BY <1>1 DEF Cuts
  <2>2. n \notin Cuts(a, n)
    BY DEF Cuts
  <2> QED
    BY <1>1, <2>1, <2>2, CutsFinite, FS_AddElement
<1>2. CASE Rank(a, n) = Rank(a, n + 1)
  <2>1. Cuts(a, n + 1) = Cuts(a, n)
    BY <1>2 DEF Cuts
  <2> QED
    BY <1>2, <2>1, CutsFinite
<1> QED
  BY <1>1, <1>2

\* Fewer points have no more cuts.
LEMMA FewerCuts ==
    ASSUME NEW a, NEW m \in Nat, NEW n \in Nat, m <= n
    PROVE  Cardinality(Cuts(a, m)) <= Cardinality(Cuts(a, n))
<1>1. Cuts(a, m) \subseteq Cuts(a, n)
  BY DEF Cuts
<1> QED
  BY <1>1, CutsFinite, FS_Subset

-----------------------------------------------------------------------------
\* The segments before the one being filled are as they should be; the last
\* one, begun at offset[pos - 1], so far belongs to dest[pos - 1].
Segments(last) ==
    /\ DOMAIN dest = 0 .. pos - 1
    /\ \A s \in 0 .. pos - 1 : dest[s] \in Int
    /\ \A s \in 0 .. last : offset[s] \in Nat
    /\ offset[0] = 0
    /\ \A s \in 0 .. last - 1 :
          /\ offset[s] < offset[s + 1]
          /\ \A k \in offset[s] .. offset[s + 1] - 1 : Rank(arg, k) = dest[s]

Counting ==
    /\ i \in 0 .. arg.pts - 1
    /\ count = 1 + Cardinality(Cuts(arg, i))

Filling ==
    /\ i \in 1 .. arg.pts
    /\ count = 1 + Cardinality(Cuts(arg, arg.pts - 1))
    /\ pos = 1 + Cardinality(Cuts(arg, i - 1))
    /\ dest[pos - 1] = Rank(arg, i - 1)
    /\ DOMAIN offset = 0 .. pos - 1
    /\ Segments(pos - 1)
    /\ offset[pos - 1] < i
    /\ \A k \in offset[pos - 1] .. i - 1 : Rank(arg, k) = dest[pos - 1]

Closed ==
    /\ i = arg.pts
    /\ pos = count
    /\ DOMAIN offset = 0 .. count
    /\ offset[count] = arg.pts
    /\ Segments(count)

\* The inductive invariant: what each loop has established.
IInv ==
    /\ arg \in Inputs
    /\ pc \in {"count", "fill", "done"}
    /\ i \in Nat /\ count \in Nat \ {0} /\ pos \in Nat
    /\ pc = "count" => Counting /\ dest = <<>> /\ offset = <<>>
    /\ pc = "fill" => Filling
    /\ pc = "done" => Closed

\* What the proofs need of the arguments: some points, a range to divide by,
\* and whole numbers for the points and their ranks.
LEMMA Arguments ==
    ASSUME NEW a \in Inputs
    PROVE  /\ a.pts \in Nat \ {0} /\ a.ranks \in Nat \ {0}
           /\ a.glb \in Int /\ a.gub \in Int /\ a.llb \in Int /\ a.lub \in Int
           /\ a.llb <= a.lub
           /\ a.pts * (a.gub - a.glb) \in Nat \ {0}
           /\ \A k \in Nat : Point(a, k) \in Int
           /\ \A k \in Nat : Rank(a, k) \in Int
<1>1. /\ a \in [glb : Int, gub : Int, ranks : Nat \ {0},
                llb : Int, lub : Int, pts : Nat \ {0}]
      /\ a.glb < a.gub /\ a.llb <= a.lub
  BY InputAssumption
<1>2. /\ a.pts \in Nat \ {0} /\ a.ranks \in Nat \ {0} /\ a.gub \in Int
      /\ a.glb \in Int /\ a.llb \in Int /\ a.lub \in Int
  BY <1>1
<1>3. a.gub - a.glb \in Nat \ {0}
  BY <1>1, <1>2
<1>4. a.pts * (a.gub - a.glb) \in Nat \ {0}
  BY <1>2, <1>3
<1>5. ASSUME NEW k \in Nat PROVE Point(a, k) \in Int
  BY <1>2 DEF Point
<1>6. ASSUME NEW k \in Nat PROVE Rank(a, k) \in Int
  <2> DEFINE d == a.pts * (a.gub - a.glb)
  <2> DEFINE n == a.ranks * (Point(a, k) - a.glb * a.pts)
  <2>1. a.glb * a.pts \in Int
    BY <1>2
  <2>2. n \in Int /\ -n \in Int /\ d \in Nat \ {0}
    BY <1>2, <1>4, <1>5, <2>1
  <2> HIDE DEF n, d
  <2>3. n \div d \in Int /\ (-n) \div d \in Int
    BY <2>2
  <2> QED
    BY <2>3 DEF Rank, Truncate, n, d
<1> QED
  BY <1>1, <1>2, <1>4, <1>5, <1>6

\* The invariant holds at the start.
LEMMA InitInv == Init => IInv
<1> SUFFICES ASSUME Init PROVE IInv
  OBVIOUS
<1>1. arg.pts \in Nat \ {0}
  BY Arguments DEF Init
<1>2. Cardinality(Cuts(arg, 0)) = 0
  BY NoCuts
<1> QED
  BY <1>1, <1>2 DEF Init, IInv, Counting

\* The first loop counts the cut after its point.
LEMMA CountCutInv == IInv /\ CountCut => IInv'
<1> SUFFICES ASSUME IInv, CountCut PROVE IInv'
  OBVIOUS
<1>1. /\ arg \in Inputs /\ arg' = arg /\ pc = "count" /\ pc' = "count"
      /\ i' = i + 1 /\ i < arg.pts - 1 /\ Counting
      /\ pos \in Nat /\ pos' = pos
      /\ dest' = <<>> /\ offset' = <<>>
  BY DEF IInv, CountCut, CountWhile
<1>2. arg.pts \in Nat \ {0}
  BY <1>1, Arguments
<1>3. i \in Nat /\ Cardinality(Cuts(arg, i)) \in Nat
  BY <1>1, CutsFinite DEF Counting
<1>4. count' = 1 + Cardinality(Cuts(arg, i + 1))
  BY <1>1, <1>3, NextCut DEF Counting, CountCut
<1>5. Cardinality(Cuts(arg, i + 1)) \in Nat
  BY <1>3, CutsFinite
<1>6. Counting'
  BY <1>1, <1>2, <1>3, <1>4 DEF Counting
<1>7. count' \in Nat \ {0}
  BY <1>4, <1>5
<1> QED
  BY <1>1, <1>3, <1>6, <1>7 DEF IInv

\* Between the loops: the first segment begins at the first point.
LEMMA AllocateInv == IInv /\ Allocate => IInv'
<1> SUFFICES ASSUME IInv, Allocate PROVE IInv'
  OBVIOUS
<1>1. /\ arg \in Inputs /\ arg' = arg /\ pc = "count" /\ pc' = "fill"
      /\ i' = 1 /\ pos' = 1 /\ count \in Nat \ {0} /\ count' = count
      /\ Counting /\ ~(i < arg.pts - 1)
      /\ dest = <<>> /\ offset = <<>>
      /\ dest' = Write(dest, 0, Rank(arg, 0)) /\ offset' = Write(offset, 0, 0)
  BY DEF IInv, Allocate, CountWhile
<1>2. arg.pts \in Nat \ {0} /\ Rank(arg, 0) \in Int
  BY <1>1, Arguments
<1>3. i = arg.pts - 1
  BY <1>1, <1>2 DEF Counting
<1>4. /\ DOMAIN dest' = {0} /\ dest'[0] = Rank(arg, 0)
      /\ DOMAIN offset' = {0} /\ offset'[0] = 0
  BY <1>1 DEF Write
<1>5. Cardinality(Cuts(arg, 0)) = 0
  BY NoCuts
<1>6. {0} = 0 .. 0
  OBVIOUS
<1>7. Filling'
  <2>1. /\ i' \in 1 .. arg'.pts
        /\ count' = 1 + Cardinality(Cuts(arg', arg'.pts - 1))
    BY <1>1, <1>2, <1>3 DEF Counting
  <2>2. pos' = 1 + Cardinality(Cuts(arg', i' - 1))
    BY <1>1, <1>5
  <2>3. Segments(pos - 1)'
    BY <1>1, <1>2, <1>4, <1>6 DEF Segments
  <2>4. /\ dest'[pos' - 1] = Rank(arg', i' - 1)
        /\ DOMAIN offset' = 0 .. pos' - 1
        /\ offset'[pos' - 1] < i'
        /\ \A k \in offset'[pos' - 1] .. i' - 1 : Rank(arg', k) = dest'[pos' - 1]
    BY <1>1, <1>4, <1>6
  <2> QED
    BY <2>1, <2>2, <2>3, <2>4 DEF Filling
<1> QED
  BY <1>1, <1>7 DEF IInv

\* The second loop begins a segment exactly at a cut.
LEMMA FillInv == IInv /\ Fill => IInv'
<1> SUFFICES ASSUME IInv, Fill PROVE IInv'
  OBVIOUS
<1>1. /\ arg \in Inputs /\ arg' = arg /\ pc = "fill" /\ pc' = "fill"
      /\ i \in Nat /\ i' = i + 1 /\ i < arg.pts
      /\ pos \in Nat /\ count \in Nat \ {0} /\ count' = count /\ Filling
  BY DEF IInv, Fill, FillWhile
<1>2. arg.pts \in Nat \ {0} /\ Rank(arg, i) \in Int
  BY <1>1, Arguments
<1>3. i \in 1 .. arg.pts - 1 /\ i - 1 \in Nat
  BY <1>1, <1>2 DEF Filling
<1>4. Cardinality(Cuts(arg, i - 1)) \in Nat
  BY <1>3, CutsFinite
<1>5. pos \in Nat \ {0} /\ pos = 1 + Cardinality(Cuts(arg, i - 1))
  BY <1>4 , <1>1 DEF Filling
<1>6. Cardinality(Cuts(arg, i)) =
        Cardinality(Cuts(arg, i - 1)) + (IF Rank(arg, i - 1) # Rank(arg, i) THEN 1 ELSE 0)
  BY <1>3, NextCut
<1>7. dest[pos - 1] = Rank(arg, i - 1)
  BY <1>1 DEF Filling
<1>8. CASE Rank(arg, i) = dest[pos - 1]
  <2>1. dest' = dest /\ offset' = offset /\ pos' = pos
    BY <1>8 DEF Fill
  <2>2. pos' = 1 + Cardinality(Cuts(arg', i' - 1))
    BY <1>1, <1>3, <1>4, <1>5, <1>6, <1>7, <1>8, <2>1
  <2>3. Segments(pos - 1)'
    BY <1>1, <2>1 DEF Filling, Segments
  <2>4. /\ dest'[pos' - 1] = Rank(arg', i' - 1)
        /\ offset'[pos' - 1] < i'
        /\ \A k \in offset'[pos' - 1] .. i' - 1 : Rank(arg', k) = dest'[pos' - 1]
    <3>1. offset[pos - 1] \in Nat
      BY <1>1, <1>5 DEF Filling, Segments
    <3> QED
      BY <1>1, <1>3, <1>5, <1>8, <2>1, <3>1 DEF Filling
  <2>5. Filling'
    BY <1>1, <1>2, <1>3, <2>1, <2>2, <2>3, <2>4 DEF Filling
  <2> QED
    BY <1>1, <2>1, <2>5 DEF IInv
<1>9. CASE Rank(arg, i) # dest[pos - 1]
  <2>1. /\ dest' = Write(dest, pos, Rank(arg, i))
        /\ offset' = Write(offset, pos, i) /\ pos' = pos + 1
    BY <1>9 DEF Fill
  <2>2. DOMAIN dest = 0 .. pos - 1 /\ DOMAIN offset = 0 .. pos - 1
    BY <1>1 DEF Filling, Segments
  <2>3. (0 .. pos - 1) \cup {pos} = 0 .. pos
    BY <1>5
  <2>4. /\ DOMAIN dest' = 0 .. pos /\ DOMAIN offset' = 0 .. pos
        /\ dest'[pos] = Rank(arg, i) /\ offset'[pos] = i
        /\ \A s \in 0 .. pos - 1 : dest'[s] = dest[s] /\ offset'[s] = offset[s]
    BY <1>5, <2>1, <2>2, <2>3 DEF Write
  <2>5. pos' = 1 + Cardinality(Cuts(arg', i' - 1))
    BY <1>1, <1>3, <1>4, <1>5, <1>6, <1>7, <1>9, <2>1
  <2>6. Segments(pos - 1)'
    <3>1. ASSUME NEW s \in 0 .. pos - 1
          PROVE  /\ offset'[s] < offset'[s + 1]
                 /\ \A k \in offset'[s] .. offset'[s + 1] - 1 : Rank(arg, k) = dest'[s]
      <4>1. CASE s = pos - 1
        <5>1. offset'[s] = offset[pos - 1] /\ offset'[s + 1] = i /\ dest'[s] = dest[pos - 1]
          BY <1>5, <2>4, <4>1
        <5> QED
          BY <1>1, <5>1 DEF Filling
      <4>2. CASE s # pos - 1
        <5>1. s \in 0 .. (pos - 1) - 1 /\ s + 1 \in 0 .. pos - 1
          BY <1>5, <4>2
        <5>2. offset'[s] = offset[s] /\ offset'[s + 1] = offset[s + 1] /\ dest'[s] = dest[s]
          BY <2>4, <5>1
        <5> QED
          BY <1>1, <5>1, <5>2 DEF Filling, Segments
      <4> QED
        BY <4>1, <4>2
    <3>2. /\ \A s \in 0 .. pos : dest'[s] \in Int /\ offset'[s] \in Nat
          /\ offset'[0] = 0
      <4>1. \A s \in 0 .. pos - 1 : dest[s] \in Int /\ offset[s] \in Nat
        BY <1>1 DEF Filling, Segments
      <4>2. offset[0] = 0
        BY <1>1 DEF Filling, Segments
      <4> QED
        BY <1>2, <1>1, <1>5, <2>4, <4>1, <4>2
    <3>3. pos' - 1 = pos
      BY <1>5, <2>1
    <3> QED
      BY <1>1, <2>4, <3>1, <3>2, <3>3 DEF Segments
  <2>7. /\ dest'[pos' - 1] = Rank(arg', i' - 1)
        /\ DOMAIN offset' = 0 .. pos' - 1
        /\ offset'[pos' - 1] < i'
        /\ \A k \in offset'[pos' - 1] .. i' - 1 : Rank(arg', k) = dest'[pos' - 1]
    BY <1>1, <1>3, <1>5, <2>1, <2>4
  <2>8. Filling'
    BY <1>1, <1>2, <1>3, <2>5, <2>6, <2>7 DEF Filling
  <2> QED
    BY <1>1, <1>5, <2>1, <2>8 DEF IInv
<1> QED
  BY <1>8, <1>9

\* After the second loop, as many segments are entered as were counted.
LEMMA CloseInv == IInv /\ Close => IInv'
<1> SUFFICES ASSUME IInv, Close PROVE IInv'
  OBVIOUS
<1>1. /\ arg \in Inputs /\ arg' = arg /\ pc = "fill" /\ pc' = "done"
      /\ i \in Nat /\ i' = i /\ ~(i < arg.pts) /\ pos \in Nat /\ pos' = pos
      /\ count \in Nat \ {0} /\ count' = count /\ dest' = dest /\ Filling
      /\ offset' = Write(offset, pos, arg.pts)
  BY DEF IInv, Close, FillWhile
<1>2. arg.pts \in Nat \ {0}
  BY <1>1, Arguments
<1>3. i = arg.pts
  BY <1>1, <1>2 DEF Filling
<1>4. pos = count
  BY <1>1, <1>3 DEF Filling
<1>5. (0 .. pos - 1) \cup {pos} = 0 .. pos
  BY <1>1
<1>6. /\ DOMAIN offset' = 0 .. pos /\ offset'[pos] = arg.pts
      /\ \A s \in 0 .. pos - 1 : offset'[s] = offset[s]
  BY <1>1, <1>5 DEF Write, Filling
<1>7. Segments(count)'
  <2>1. ASSUME NEW s \in 0 .. pos - 1
        PROVE  /\ offset'[s] < offset'[s + 1]
               /\ \A k \in offset'[s] .. offset'[s + 1] - 1 : Rank(arg, k) = dest[s]
    <3>1. CASE s = pos - 1
      <4>1. offset'[s] = offset[pos - 1] /\ offset'[s + 1] = arg.pts
        BY <1>1, <1>6, <3>1
      <4> QED
        BY <1>1, <1>3, <3>1, <4>1 DEF Filling
    <3>2. CASE s # pos - 1
      <4>1. s \in 0 .. (pos - 1) - 1 /\ s + 1 \in 0 .. pos - 1
        BY <1>1, <3>2
      <4>2. offset'[s] = offset[s] /\ offset'[s + 1] = offset[s + 1]
        BY <1>6, <4>1
      <4> QED
        BY <1>1, <4>1, <4>2 DEF Filling, Segments
    <3> QED
      BY <3>1, <3>2
  <2>2. /\ \A s \in 0 .. pos : offset'[s] \in Nat
        /\ offset'[0] = 0
    <3>1. (\A s \in 0 .. pos - 1 : offset[s] \in Nat) /\ offset[0] = 0
      BY <1>1 DEF Filling, Segments
    <3> QED
      BY <1>1, <1>2, <1>4, <1>6, <3>1
  <2> QED
    BY <1>1, <1>4, <2>1, <2>2 DEF Filling, Segments
<1> QED
  BY <1>1, <1>3, <1>4, <1>6, <1>7 DEF IInv, Closed

\* Every step keeps the invariant.
LEMMA StepInv == IInv /\ [Next]_vars => IInv'
<1> SUFFICES ASSUME IInv, UNCHANGED vars PROVE IInv'
  BY CountCutInv, AllocateInv, FillInv, CloseInv DEF Next
<1> QED
  BY DEF vars, IInv, Counting, Filling, Closed, Segments

\* The invariant of get_rdv_dests holds throughout.
LEMMA Invariant == Spec => []IInv
  BY InitInv, StepInv, PTL DEF Spec

-----------------------------------------------------------------------------

\* The second loop of get_rdv_dests never writes beyond what the first loop
\* made it allocate, whatever the bounds, the points and the ranks.
THEOREM WritesFit == Spec => []InBounds
<1>1. IInv => InBounds
  <2> SUFFICES ASSUME IInv, pc # "count" PROVE InBounds
    BY DEF InBounds
  <2>1. count \in Nat \ {0} /\ pos \in Nat
    BY DEF IInv
  <2>2. CASE pc = "done"
    BY <2>1, <2>2 DEF IInv, Closed, Segments, InBounds
  <2>3. CASE pc = "fill"
    <3>1. Filling /\ arg.pts \in Nat \ {0}
      BY <2>3, Arguments DEF IInv
    <3>2. /\ i - 1 \in Nat /\ arg.pts - 1 \in Nat /\ i - 1 <= arg.pts - 1
      BY <3>1 DEF Filling
    <3>3. Cardinality(Cuts(arg, i - 1)) <= Cardinality(Cuts(arg, arg.pts - 1))
      BY <3>2, FewerCuts
    <3>4. pos <= count
      BY <3>1, <3>2, <3>3, CutsFinite DEF Filling
    <3> QED
      BY <2>1, <3>1, <3>4 DEF Filling, Segments, InBounds
  <2> QED
    BY <2>2, <2>3 DEF IInv
<1> QED
  BY <1>1, Invariant, PTL

\* In the end dest and offset divide all the points into segments, each of
\* points of the rank it is sent to.
THEOREM PartitionCorrect == Spec => []Partitioned
<1>1. IInv => Partitioned
  <2> SUFFICES ASSUME IInv, pc = "done" PROVE Partitioned
    BY DEF Partitioned
  <2>1. Closed /\ count \in Nat \ {0}
    BY DEF IInv
  <2> QED
    BY <2>1 DEF Closed, Segments, Partitioned
<1> QED
  BY <1>1, Invariant, PTL

\* The loops' variables keep their types.
THEOREM TypeCorrect == Spec => []TypeOK
<1>1. IInv => TypeOK
  <2> SUFFICES ASSUME IInv PROVE TypeOK
    OBVIOUS
  <2>1. arg.pts \in Nat \ {0}
    BY Arguments DEF IInv
  <2> QED
    BY <2>1 DEF IInv, Counting, Filling, Closed, Segments, TypeOK
<1> QED
  BY <1>1, Invariant, PTL

-----------------------------------------------------------------------------
\* The quotient by a positive number, between two products.
LEMMA DivBounds ==
    ASSUME NEW n \in Int, NEW d \in Nat \ {0}
    PROVE  /\ n \div d \in Int
           /\ d * (n \div d) <= n
           /\ n < d * (n \div d) + d
<1> DEFINE q == n \div d
<1>1. q \in Int /\ n % d \in 0 .. d - 1
  OBVIOUS
<1>2. n = d * q + (n % d)
  OBVIOUS
<1> QED
  BY <1>1, <1>2

\* Multiplication by a natural number keeps the order.
LEMMA MulMonotone ==
    ASSUME NEW d \in Nat, NEW p \in Int, NEW q \in Int, p <= q
    PROVE  d * p <= d * q
  OBVIOUS

\* So does division by a positive number.
LEMMA DivMonotone ==
    ASSUME NEW m \in Int, NEW n \in Int, NEW d \in Nat \ {0}, m <= n
    PROVE  m \div d <= n \div d
<1> DEFINE p == m \div d
<1> DEFINE q == n \div d
<1>1. /\ p \in Int /\ q \in Int
      /\ d * p <= m /\ n < d * q + d
  BY DivBounds
<1>2. ASSUME q + 1 <= p PROVE FALSE
  <2>1. d * (q + 1) <= d * p
    BY <1>1, <1>2, MulMonotone
  <2>2. d * (q + 1) = d * q + d
    BY <1>1
  <2>3. d * p \in Int /\ d * q \in Int
    BY <1>1
  <2> QED
    BY <1>1, <2>1, <2>2, <2>3
<1> QED
  BY <1>1, <1>2

\* Towards zero as well.
LEMMA TruncateMonotone ==
    ASSUME NEW m \in Int, NEW n \in Int, NEW d \in Nat \ {0}, m <= n
    PROVE  Truncate(m, d) <= Truncate(n, d)
<1>1. /\ m \div d \in Int /\ n \div d \in Int
      /\ (-m) \div d \in Int /\ (-n) \div d \in Int
  OBVIOUS
<1>2. CASE m >= 0
  BY <1>2, DivMonotone DEF Truncate
<1>3. CASE n < 0
  <2>1. (-n) \div d <= (-m) \div d
    BY DivMonotone
  <2> QED
    BY <1>1, <1>3, <2>1 DEF Truncate
<1>4. CASE m < 0 /\ n >= 0
  <2>1. 0 \div d = 0
    OBVIOUS
  <2>2. 0 <= (-m) \div d
    BY <1>4, <2>1, DivMonotone
  <2>3. 0 <= n \div d
    BY <1>4, <2>1, DivMonotone
  <2> QED
    BY <1>1, <1>4, <2>2, <2>3 DEF Truncate
<1> QED
  BY <1>2, <1>3, <1>4

\* A number below d, r times and divided by d, stays below r; no other does;
\* and one that is not negative does not become so.
LEMMA TruncateScaled ==
    ASSUME NEW r \in Nat \ {0}, NEW x \in Int, NEW d \in Nat \ {0}
    PROVE  /\ Truncate(r * x, d) < r <=> x < d
           /\ x >= 0 => Truncate(r * x, d) >= 0
<1> DEFINE n == r * x
<1>1. n \in Int /\ -n \in Int
  OBVIOUS
<1>2. 0 \div d = 0
  OBVIOUS
<1>3. CASE x < 0
  <2>1. r * x <= r * 0
    BY <1>3, MulMonotone
  <2>2. n <= 0
    BY <2>1
  <2>3. Truncate(n, d) <= Truncate(0, d)
    BY <1>1, <2>2, TruncateMonotone
  <2>4. Truncate(0, d) = 0
    BY <1>2 DEF Truncate
  <2>5. Truncate(n, d) \in Int
    <3> HIDE DEF n
    <3>1. n \div d \in Int /\ (-n) \div d \in Int
      BY <1>1
    <3> QED
      BY <3>1 DEF Truncate
  <2> QED
    BY <1>3, <2>3, <2>4, <2>5
<1>4. CASE x >= 0
  <2> DEFINE q == n \div d
  <2>1. r * 0 <= r * x
    BY <1>4, MulMonotone
  <2>2. n >= 0
    BY <2>1
  <2>3. Truncate(n, d) = q
    BY <2>2 DEF Truncate
  <2> HIDE DEF n
  <2>4. q \in Int /\ d * q <= n /\ n < d * q + d
    BY <1>1, DivBounds
  <2>5. 0 <= q
    BY <1>1, <1>2, <2>2, DivMonotone
  <2> HIDE DEF q
  <2>6. d * q \in Int /\ d * r \in Int /\ r * d = d * r
    BY <2>4
  <2>7. ASSUME x < d PROVE q < r
    <3>1. ASSUME r <= q PROVE FALSE
      <4>1. d * r <= d * q
        BY <2>4, <3>1, MulMonotone
      <4>2. r * (x + 1) <= r * d
        BY <2>7, MulMonotone
      <4>3. r * (x + 1) = n + r
        BY DEF n
      <4> QED
        BY <1>1, <2>4, <2>6, <4>1, <4>2, <4>3
    <3> QED
      BY <2>4, <3>1
  <2>8. ASSUME d <= x PROVE r <= q
    <3>1. ASSUME q + 1 <= r PROVE FALSE
      <4>1. d * (q + 1) <= d * r
        BY <2>4, <3>1, MulMonotone
      <4>2. r * d <= r * x
        BY <2>8, MulMonotone
      <4>3. d * (q + 1) = d * q + d
        BY <2>4
      <4> QED
        BY <1>1, <2>4, <2>6, <4>1, <4>2, <4>3 DEF n
    <3> QED
      BY <2>4, <3>1
  <2> QED
    BY <1>4, <2>3, <2>4, <2>5, <2>7, <2>8 DEF n
<1> QED
  BY <1>3, <1>4

\* The ranks of two points are in the points' order.
LEMMA RankMonotone ==
    ASSUME NEW a \in Inputs, NEW k \in Nat, NEW l \in Nat, k <= l
    PROVE  Rank(a, k) <= Rank(a, l)
<1> DEFINE d == a.pts * (a.gub - a.glb)
<1> DEFINE from(n) == Point(a, n) - a.glb * a.pts
<1>1. /\ a.llb \in Int /\ a.lub \in Int /\ a.llb <= a.lub /\ a.pts \in Nat
      /\ a.ranks \in Nat /\ a.glb \in Int /\ d \in Nat \ {0}
      /\ Point(a, k) \in Int /\ Point(a, l) \in Int
  BY Arguments
<1>2. (a.lub - a.llb) * k <= (a.lub - a.llb) * l
  BY <1>1, MulMonotone
<1>3. Point(a, k) <= Point(a, l)
  BY <1>1, <1>2 DEF Point
<1>4. a.glb * a.pts \in Int
  BY <1>1
<1>5. from(k) \in Int /\ from(l) \in Int /\ from(k) <= from(l)
  BY <1>1, <1>3, <1>4
<1> HIDE DEF d, from
<1>6. a.ranks * from(k) <= a.ranks * from(l)
  BY <1>1, <1>5, MulMonotone
<1>7. a.ranks * from(k) \in Int /\ a.ranks * from(l) \in Int
  BY <1>1, <1>5
<1>8. Truncate(a.ranks * from(k), d) <= Truncate(a.ranks * from(l), d)
  BY <1>1, <1>6, <1>7, TruncateMonotone
<1> QED
  BY <1>8 DEF Rank, d, from

\* The rank of a point exists exactly if the point lies before the end of the
\* range, and is not negative unless it lies before the beginning.
LEMMA RankRange ==
    ASSUME NEW a \in Inputs, NEW k \in Nat
    PROVE  /\ Rank(a, k) < a.ranks <=> Point(a, k) < a.gub * a.pts
           /\ Point(a, k) >= a.glb * a.pts => Rank(a, k) >= 0
<1> DEFINE d == a.pts * (a.gub - a.glb)
<1> DEFINE x == Point(a, k) - a.glb * a.pts
<1>1. /\ a.pts \in Nat /\ a.ranks \in Nat \ {0} /\ a.glb \in Int /\ a.gub \in Int
      /\ d \in Nat \ {0} /\ Point(a, k) \in Int
  BY Arguments
<1>2. /\ a.glb * a.pts \in Int /\ a.gub * a.pts \in Int
      /\ d = a.gub * a.pts - a.glb * a.pts
  BY <1>1
<1>3. x \in Int
  BY <1>1, <1>2
<1>4. x < d <=> Point(a, k) < a.gub * a.pts
  <2> HIDE DEF d
  <2> QED
    BY <1>1, <1>2
<1>5. x >= 0 <=> Point(a, k) >= a.glb * a.pts
  BY <1>1, <1>2
<1>6. Rank(a, k) = Truncate(a.ranks * x, d)
  BY DEF Rank
<1> HIDE DEF d, x
<1>7. /\ Truncate(a.ranks * x, d) < a.ranks <=> x < d
      /\ x >= 0 => Truncate(a.ranks * x, d) >= 0
  BY <1>1, <1>3, TruncateScaled
<1> QED
  BY <1>4, <1>5, <1>6, <1>7

\* The segments entered so far go to ranks in ascending order.
Ascending ==
    pc # "count" => \A s, t \in DOMAIN dest : s < t => dest[s] < dest[t]

\* A new segment goes to a higher rank than the last one.
LEMMA AscendingKept == IInv /\ Ascending /\ [Next]_vars => Ascending'
<1> SUFFICES ASSUME IInv, Ascending, [Next]_vars PROVE Ascending'
  OBVIOUS
<1>1. arg \in Inputs /\ arg.pts \in Nat \ {0}
  BY Arguments DEF IInv
<1>2. CASE Allocate
  <2>1. dest = <<>> /\ dest' = Write(dest, 0, Rank(arg, 0))
    BY <1>2 DEF IInv, Allocate
  <2>2. DOMAIN dest' = {0}
    BY <2>1 DEF Write
  <2> QED
    BY <2>2 DEF Ascending
<1>3. CASE Fill
  <2>1. /\ pc = "fill" /\ pc' = "fill" /\ arg' = arg /\ i < arg.pts /\ Filling
        /\ pos \in Nat
    BY <1>3 DEF IInv, Fill, FillWhile
  <2>2. i \in 1 .. arg.pts - 1
    BY <1>1, <2>1 DEF Filling
  <2>3. CASE Rank(arg, i) = dest[pos - 1]
    BY <1>3, <2>1, <2>3 DEF Fill, Ascending
  <2>4. CASE Rank(arg, i) # dest[pos - 1]
    <3>1. /\ dest[pos - 1] = Rank(arg, i - 1) /\ DOMAIN dest = 0 .. pos - 1
          /\ pos \in Nat \ {0}
      <4>1. i - 1 \in Nat
        BY <2>2
      <4> QED
        BY <2>1, <4>1, CutsFinite DEF Filling, Segments
    <3>2. /\ Rank(arg, i) \in Int
          /\ \A s \in 0 .. pos - 1 : dest[s] \in Int
      BY <1>1, <2>1, <2>2, Arguments DEF Filling, Segments
    <3>3. Rank(arg, i - 1) < Rank(arg, i)
      <4>1. Rank(arg, i - 1) <= Rank(arg, i)
        BY <1>1, <2>2, RankMonotone
      <4>2. Rank(arg, i - 1) \in Int
        BY <1>1, <2>2, Arguments
      <4> QED
        BY <2>4, <3>1, <3>2, <4>1, <4>2
    <3>4. /\ DOMAIN dest' = (0 .. pos - 1) \cup {pos}
          /\ dest'[pos] = Rank(arg, i)
          /\ \A s \in 0 .. pos - 1 : dest'[s] = dest[s]
      BY <1>3, <2>4, <3>1 DEF Fill, Write
    <3>5. \A s, t \in 0 .. pos - 1 : s < t => dest[s] < dest[t]
      BY <2>1, <3>1 DEF Ascending
    <3>6. \A s \in 0 .. pos - 1 : dest[s] < Rank(arg, i)
      <4>1. TAKE s \in 0 .. pos - 1
      <4>2. dest[s] \in Int /\ dest[pos - 1] \in Int
        BY <3>1, <3>2
      <4>3. s = pos - 1 \/ dest[s] < dest[pos - 1]
        BY <3>1, <3>5
      <4> QED
        BY <3>1, <3>2, <3>3, <4>2, <4>3
    <3>7. ASSUME NEW s \in DOMAIN dest', NEW t \in DOMAIN dest', s < t
          PROVE  dest'[s] < dest'[t]
      <4>1. s \in 0 .. pos - 1
        BY <3>1, <3>4, <3>7
      <4>2. CASE t = pos
        BY <3>4, <3>6, <4>1, <4>2
      <4>3. CASE t \in 0 .. pos - 1
        BY <3>4, <3>5, <3>7, <4>1, <4>3
      <4> QED
        BY <3>4, <4>2, <4>3
    <3> QED
      BY <3>7 DEF Ascending
  <2> QED
    BY <2>3, <2>4
<1>4. CASE CountCut
  BY <1>4 DEF CountCut, CountWhile, Ascending
<1>5. CASE Close
  BY <1>5 DEF Close, Ascending
<1>6. CASE UNCHANGED vars
  BY <1>6 DEF vars, Ascending
<1> QED
  BY <1>2, <1>3, <1>4, <1>5, <1>6 DEF Next

\* A send of rdv_send has at most one message for a rendezvous rank, and a
\* message is for a rank that exists exactly if its points lie before the end
\* of the range, unless they lie before its beginning.
THEOREM OneMessage == Spec => []OneMessagePerRank
<1>1. Init => Ascending
  BY DEF Init, Ascending
<1>2. IInv /\ Ascending => OneMessagePerRank
  <2> SUFFICES ASSUME IInv, Ascending, pc = "done" PROVE OneMessagePerRank
    BY DEF OneMessagePerRank
  <2>1. Closed /\ arg \in Inputs /\ count \in Nat \ {0} /\ pos = count
    BY DEF IInv, Closed
  <2>2. ASSUME NEW s \in DOMAIN dest, NEW k \in offset[s] .. offset[s + 1] - 1
        PROVE  /\ dest[s] < arg.ranks <=> Point(arg, k) < arg.gub * arg.pts
               /\ Point(arg, k) >= arg.glb * arg.pts => dest[s] >= 0
    <3>1. /\ s \in 0 .. count - 1 /\ offset[s] \in Nat
          /\ Rank(arg, k) = dest[s]
      BY <2>1 DEF Closed, Segments
    <3>2. k \in Nat
      <4>1. offset[s + 1] \in Nat
        BY <2>1, <3>1 DEF Closed, Segments
      <4> QED
        BY <3>1, <4>1
    <3> QED
      BY <2>1, <3>1, <3>2, RankRange
  <2> QED
    BY <2>2 DEF Ascending, OneMessagePerRank
<1> QED
  BY <1>1, <1>2, AscendingKept, Invariant, PTL DEF Spec

=============================================================================
