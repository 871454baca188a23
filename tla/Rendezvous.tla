----------------------------- MODULE Rendezvous -----------------------------
(***************************************************************************)
(* How a rank finds the rendezvous ranks that its grid points belong to    *)
(* (get_rdv_dests, called by benesh_bind_domain): a first loop counts the  *)
(* segments of consecutive points with the same rank, to allocate dest and *)
(* offset, and a second loop, with another test, fills them.  Bounds are   *)
(* integers, and the position of a point is an exact fraction: the         *)
(* rounding of doubles is not modelled.  Nothing keeps a part within the   *)
(* range it is a part of: benesh_bind_domain takes any part.               *)
(***************************************************************************)
EXTENDS Integers

CONSTANT Inputs     \* the arguments get_rdv_dests is tried with

\* The range glb .. gub is divided among ranks rendezvous ranks; this rank
\* has pts points, evenly spaced from llb on and, unless they coincide, before
\* lub.  A range without extent would be divided by, and without points pts - 1
\* is the greatest 64-bit number.
ASSUME InputAssumption ==
    \A a \in Inputs :
        /\ a \in [glb : Int, gub : Int, ranks : Nat \ {0},
                  llb : Int, lub : Int, pts : Nat \ {0}]
        /\ a.glb < a.gub /\ a.llb <= a.lub

VARIABLES
    arg,      \* the arguments
    pc,       \* "count", "fill" or "done"
    i,        \* the point a loop is at
    count,    \* *count: the segments found by the first loop
    pos,      \* the segments entered by the second loop
    dest,     \* the entries of *dest written so far
    offset    \* the entries of *offset written so far

vars == <<arg, pc, i, count, pos, dest, offset>>

\* Point k, llb + pitch * k, times pts.
Point(a, k) == a.llb * a.pts + (a.lub - a.llb) * k

\* The cast to int, of the quotient by a positive number: towards zero.
Truncate(n, d) == IF n >= 0 THEN n \div d ELSE -((-n) \div d)

\* A faulty variant, which nothing uses: a range taken to begin at 0.
RankFromZero(a, k) ==
    Truncate(a.ranks * Point(a, k), a.pts * (a.gub - a.glb))

\* get_rank of point k.
Rank(a, k) ==
    Truncate(a.ranks * (Point(a, k) - a.glb * a.pts), a.pts * (a.gub - a.glb))

TypeOK ==
    /\ arg \in Inputs
    /\ pc \in {"count", "fill", "done"}
    /\ i \in 0 .. arg.pts /\ count \in Nat /\ pos \in Nat
    /\ DOMAIN dest \subseteq Nat /\ \A s \in DOMAIN dest : dest[s] \in Int
    /\ DOMAIN offset \subseteq Nat /\ \A s \in DOMAIN offset : offset[s] \in Nat

Init ==
    /\ arg \in Inputs
    /\ pc = "count"
    /\ i = 0 /\ count = 1 /\ pos = 0
    /\ dest = <<>> /\ offset = <<>>

\* Faulty variants, which nothing uses: loops that stop one point early, and
\* one that stops one point late.
CountWhileEarly == pc = "count" /\ i < arg.pts - 2
FillWhileEarly == pc = "fill" /\ i < arg.pts - 1
FillWhileLate == pc = "fill" /\ i <= arg.pts

CountWhile == pc = "count" /\ i < arg.pts - 1
FillWhile == pc = "fill" /\ i < arg.pts

CountCut ==
    /\ CountWhile
    /\ count' = IF Rank(arg, i) # Rank(arg, i + 1) THEN count + 1 ELSE count
    /\ i' = i + 1
    /\ UNCHANGED <<arg, pc, pos, dest, offset>>

\* An array of which entry s is written.
Write(array, s, value) ==
    [t \in DOMAIN array \cup {s} |-> IF t = s THEN value ELSE array[t]]

\* dest gets room for count entries, offset for one more.
Allocate ==
    /\ pc = "count" /\ ~CountWhile
    /\ pc' = "fill"
    /\ offset' = Write(offset, 0, 0)
    /\ dest' = Write(dest, 0, Rank(arg, 0))
    /\ pos' = 1 /\ i' = 1
    /\ UNCHANGED <<arg, count>>

Fill ==
    /\ FillWhile
    /\ IF Rank(arg, i) # dest[pos - 1]
       THEN /\ dest' = Write(dest, pos, Rank(arg, i))
            /\ offset' = Write(offset, pos, i)
            /\ pos' = pos + 1
       ELSE UNCHANGED <<dest, offset, pos>>
    /\ i' = i + 1
    /\ UNCHANGED <<arg, pc, count>>

Close ==
    /\ pc = "fill" /\ ~FillWhile
    /\ pc' = "done"
    /\ offset' = Write(offset, pos, arg.pts)
    /\ UNCHANGED <<arg, i, count, pos, dest>>

Next == CountCut \/ Allocate \/ Fill \/ Close

Spec == Init /\ [][Next]_vars

-----------------------------------------------------------------------------
\* The second loop writes nothing beyond what the first one had allocated,
\* although it compares with the last entry of dest and not with the point
\* before.
InBounds ==
    pc # "count" => /\ DOMAIN dest \subseteq 0 .. count - 1
                    /\ DOMAIN offset \subseteq 0 .. count

\* In the end all of dest and offset is written, the segments are not empty
\* and follow one another up to the last point, and every point of a segment
\* belongs to the rank the segment is sent to.
Partitioned ==
    pc = "done" =>
        /\ DOMAIN dest = 0 .. count - 1 /\ DOMAIN offset = 0 .. count
        /\ offset[0] = 0 /\ offset[count] = arg.pts
        /\ \A s \in 0 .. count - 1 :
              /\ offset[s] < offset[s + 1]
              /\ \A k \in offset[s] .. offset[s + 1] - 1 : Rank(arg, k) = dest[s]

\* The segments go to ranks in ascending order, so that no rank gets two
\* messages for one send (rdv_send packs one message per segment); and a
\* segment goes to a rank that exists exactly if its points lie before the end
\* of the range, gub itself excluded, at least if they do not lie before the
\* beginning.
OneMessagePerRank ==
    pc = "done" =>
        /\ \A s, t \in DOMAIN dest : s < t => dest[s] < dest[t]
        /\ \A s \in DOMAIN dest : \A k \in offset[s] .. offset[s + 1] - 1 :
              /\ dest[s] < arg.ranks <=> Point(arg, k) < arg.gub * arg.pts
              /\ Point(arg, k) >= arg.glb * arg.pts => dest[s] >= 0

=============================================================================
