--------------------------- MODULE Matching_proofs ---------------------------
(***************************************************************************)
(* Proofs about modules Config and Matching, for every set of              *)
(* configuration files: what the parser keeps, in which order the rules    *)
(* are tried, and what becomes of a touchpoint.                            *)
(***************************************************************************)
EXTENDS Matching, SequenceTheorems, FiniteSetTheorems, WellFoundedInduction, TLAPS

-----------------------------------------------------------------------------
(***************************************************************************)
(* Induction, least elements, and the places of a sequence in a set.       *)
(***************************************************************************)

\* A set with a natural number has a least one.
LEMMA FirstIs ==
    ASSUME NEW S, S \subseteq Nat, S # {}
    PROVE  FirstOf(S) \in S /\ \A m \in S : FirstOf(S) <= m
<1> DEFINE Less == OpToRel(<, Nat)
<1>1. IsWellFoundedOn(Less, Nat)
  BY NatLessThanWellFounded
<1>2. \A x, y \in Nat : x < y => <<x, y>> \in Less
  BY DEF OpToRel
<1> HIDE DEF Less
<1>3. PICK x \in S : \A y \in S : ~(<<y, x>> \in Less)
  BY <1>1, WFMin
<1>4. x \in Nat /\ \A y \in S : y \in Nat /\ ~(y < x)
  BY <1>2, <1>3
<1>5. x \in S /\ \A y \in S : x <= y
  BY <1>4
<1> QED
  BY <1>5 DEF FirstOf

\* A set with 0 that is closed under successor has all natural numbers.
LEMMA Induction ==
    ASSUME NEW S, 0 \in S, \A n \in Nat : n \in S => n + 1 \in S
    PROVE  \A n \in Nat : n \in S
<1> DEFINE Others == Nat \ S
           x == FirstOf(Others)
<1> SUFFICES ASSUME Others # {} PROVE FALSE
  OBVIOUS
<1>1. x \in Others /\ \A y \in Others : x <= y
  BY FirstIs
<1> HIDE DEF x
<1>2. x \in Nat /\ x # 0 /\ x - 1 \in Nat /\ x - 1 \in S
  BY <1>1
<1> QED
  BY <1>1, <1>2

\* The numbers from 1 to n that are in S, in order.
IsAscending(a, S, n) ==
    /\ a \in Seq(1 .. n)
    /\ \A j \in 1 .. Len(a) : a[j] \in S
    /\ \A j, k \in 1 .. Len(a) : j < k => a[j] < a[k]
    /\ \A i \in 1 .. n : i \in S => \E j \in 1 .. Len(a) : a[j] = i

\* One number more.
LEMMA AscendingNext ==
    ASSUME NEW S, NEW n \in Nat, NEW a, IsAscending(a, S, n)
    PROVE  /\ n + 1 \in S => IsAscending(Append(a, n + 1), S, n + 1)
           /\ n + 1 \notin S => IsAscending(a, S, n + 1)
<1>1. a \in Seq(1 .. n + 1) /\ Len(a) \in Nat /\ \A j \in 1 .. Len(a) : a[j] \in 1 .. n
  BY LenProperties DEF IsAscending
<1>2. ASSUME n + 1 \in S PROVE IsAscending(Append(a, n + 1), S, n + 1)
  <2> DEFINE b == Append(a, n + 1)
  <2>1. /\ b \in Seq(1 .. n + 1) /\ Len(b) = Len(a) + 1
        /\ b[Len(a) + 1] = n + 1
        /\ \A j \in 1 .. Len(a) : b[j] = a[j]
    BY <1>1, AppendProperties
  <2> HIDE DEF b
  <2>2. ASSUME NEW j \in 1 .. Len(b) PROVE b[j] \in S
    <3>1. CASE j = Len(a) + 1
      BY <1>2, <2>1, <3>1
    <3>2. CASE j \in 1 .. Len(a)
      BY <2>1, <3>2 DEF IsAscending
    <3> QED
      BY <1>1, <2>1, <3>1, <3>2
  <2>3. ASSUME NEW j \in 1 .. Len(b), NEW k \in 1 .. Len(b), j < k PROVE b[j] < b[k]
    <3>1. j \in 1 .. Len(a) /\ b[j] = a[j] /\ a[j] \in 1 .. n
      <4>1. j \in 1 .. Len(a)
        BY <1>1, <2>1, <2>3
      <4> QED
        BY <1>1, <2>1, <4>1
    <3>2. CASE k = Len(a) + 1
      <4>1. b[k] = n + 1
        BY <2>1, <3>2
      <4> QED
        BY <3>1, <4>1
    <3>3. CASE k \in 1 .. Len(a)
      BY <2>1, <2>3, <3>1, <3>3 DEF IsAscending
    <3> QED
      BY <1>1, <2>1, <3>2, <3>3
  <2>4. ASSUME NEW i \in 1 .. n + 1, i \in S PROVE \E j \in 1 .. Len(b) : b[j] = i
    <3>1. CASE i = n + 1
      <4>1. Len(a) + 1 \in 1 .. Len(b)
        BY <1>1, <2>1
      <4> QED
        BY <2>1, <3>1, <4>1
    <3>2. CASE i # n + 1
      <4>1. i \in 1 .. n
        BY <3>2
      <4>2. PICK j \in 1 .. Len(a) : a[j] = i
        BY <2>4, <4>1 DEF IsAscending
      <4>3. j \in 1 .. Len(b) /\ b[j] = i
        BY <1>1, <2>1, <4>2
      <4> QED
        BY <4>3
    <3> QED
      BY <3>1, <3>2
  <2>5. IsAscending(b, S, n + 1)
    BY <2>1, <2>2, <2>3, <2>4 DEF IsAscending
  <2> QED
    BY <2>5 DEF b
<1>3. ASSUME n + 1 \notin S PROVE IsAscending(a, S, n + 1)
  <2>1. ASSUME NEW i \in 1 .. n + 1, i \in S PROVE \E j \in 1 .. Len(a) : a[j] = i
    <3>1. i \in 1 .. n
      BY <1>3, <2>1
    <3> QED
      BY <2>1, <3>1 DEF IsAscending
  <2> QED
    BY <1>1, <2>1 DEF IsAscending
<1> QED
  BY <1>2, <1>3

\* The recursive function behind Ascending exists, and goes from number to
\* number.
LEMMA AscendingIs ==
    ASSUME NEW S, NEW n \in Nat
    PROVE  IsAscending(Ascending(S, n), S, n)
<1> DEFINE Upto(m, g) ==
               g = [k \in 0 .. m |->
                       IF k = 0 THEN <<>>
                       ELSE IF k \in S THEN Append(g[k - 1], k) ELSE g[k - 1]]
           M == {m \in Nat : \E g : Upto(m, g)}
<1>1. 0 \in M
  <2> DEFINE g == [k \in 0 .. 0 |-> <<>>]
  <2>1. Upto(0, g)
    OBVIOUS
  <2> QED
    BY <2>1
<1>2. ASSUME NEW m \in Nat, m \in M PROVE m + 1 \in M
  <2>1. PICK g : Upto(m, g)
    BY <1>2
  <2> DEFINE h == [k \in 0 .. m + 1 |->
                      IF k = 0 THEN <<>>
                      ELSE IF k \in S THEN Append(g[k - 1], k) ELSE g[k - 1]]
  <2>2. ASSUME NEW k \in 0 .. m PROVE h[k] = g[k]
    <3>1. k \in 0 .. m + 1
      OBVIOUS
    <3>2. g[k] = IF k = 0 THEN <<>>
                 ELSE IF k \in S THEN Append(g[k - 1], k) ELSE g[k - 1]
      BY <2>1
    <3> QED
      BY <3>1, <3>2
  <2>3. \A k \in 0 .. m + 1 : k # 0 => k - 1 \in 0 .. m
    OBVIOUS
  <2>4. \A k \in 0 .. m + 1 :
            h[k] = IF k = 0 THEN <<>>
                   ELSE IF k \in S THEN Append(h[k - 1], k) ELSE h[k - 1]
    BY <2>2, <2>3
  <2>5. Upto(m + 1, h)
    BY <2>4
  <2> HIDE DEF h, Upto
  <2> QED
    BY <2>5
<1> HIDE DEF M
<1>3. n \in M
  BY <1>1, <1>2, Induction
<1> DEFINE up == CHOOSE g : Upto(n, g)
<1>4. Upto(n, up)
  BY <1>3 DEF M
<1>5. Ascending(S, n) = up[n]
  BY DEF Ascending
<1>6. /\ up[0] = <<>>
      /\ \A k \in 0 .. n : k # 0 => up[k] = IF k \in S THEN Append(up[k - 1], k) ELSE up[k - 1]
  <2> HIDE DEF up
  <2>1. \A k \in 0 .. n :
            up[k] = IF k = 0 THEN <<>>
                    ELSE IF k \in S THEN Append(up[k - 1], k) ELSE up[k - 1]
    BY <1>4
  <2>2. 0 \in 0 .. n
    OBVIOUS
  <2> QED
    BY <2>1, <2>2, Zenon
<1> HIDE DEF up, Upto
<1> DEFINE K == {k \in Nat : k <= n => IsAscending(up[k], S, k)}
<1>7. 0 \in K
  <2> DEFINE a == up[0]
  <2>1. a \in Seq(1 .. 0) /\ Len(a) = 0
    BY <1>6, EmptySeq
  <2> HIDE DEF a
  <2>2. IsAscending(a, S, 0)
    BY <2>1 DEF IsAscending
  <2> QED
    BY <2>2 DEF a
<1>8. ASSUME NEW k \in Nat, k \in K PROVE k + 1 \in K
  <2> SUFFICES ASSUME k + 1 <= n PROVE IsAscending(up[k + 1], S, k + 1)
    OBVIOUS
  <2>1. IsAscending(up[k], S, k)
    BY <1>8
  <2>2. k + 1 \in 0 .. n /\ k + 1 # 0 /\ (k + 1) - 1 = k
    OBVIOUS
  <2>3. up[k + 1] = IF k + 1 \in S THEN Append(up[k], k + 1) ELSE up[k]
    BY <1>6, <2>2
  <2> QED
    BY <2>1, <2>3, AscendingNext
<1> HIDE DEF K
<1>9. n \in K
  BY <1>7, <1>8, Induction
<1> QED
  BY <1>5, <1>9 DEF K

\* What Selection leaves of a sequence.
LEMMA SelectionIs ==
    ASSUME NEW T, NEW s \in Seq(T), NEW S
    PROVE  LET t  == Selection(s, S)
               at == Ascending(S, Len(s))
           IN  /\ t \in Seq(T) /\ Len(t) = Len(at) /\ IsAscending(at, S, Len(s))
               /\ \A j \in 1 .. Len(t) : at[j] \in 1 .. Len(s) /\ t[j] = s[at[j]]
<1> DEFINE at == Ascending(S, Len(s))
           t == Selection(s, S)
<1>1. Len(s) \in Nat /\ \A i \in 1 .. Len(s) : s[i] \in T
  BY LenProperties
<1>2. IsAscending(at, S, Len(s))
  BY <1>1, AscendingIs
<1>3. t = [j \in DOMAIN at |-> s[at[j]]]
  BY DEF Selection
<1> HIDE DEF at, t
<1>4. DOMAIN at = 1 .. Len(at) /\ Len(at) \in Nat /\ \A j \in 1 .. Len(at) : at[j] \in 1 .. Len(s)
  BY <1>2, LenProperties DEF IsAscending
<1>5. t = [j \in 1 .. Len(at) |-> s[at[j]]] /\ \A j \in 1 .. Len(at) : s[at[j]] \in T
  BY <1>1, <1>3, <1>4
<1>6. t \in Seq(T) /\ Len(t) = Len(at)
  BY <1>4, <1>5, IsASeq, LenProperties
<1> QED
  BY <1>2, <1>4, <1>5, <1>6 DEF at, t

-----------------------------------------------------------------------------
(***************************************************************************)
(* The list the parser makes, block by block.                              *)
(***************************************************************************)

\* Block i of a file is kept, and as what.
Taken(blocks, i) ==
    /\ Known(Parse(blocks, i - 1), blocks[i])
    /\ ~InList(Parse(blocks, i - 1), blocks[i])

Entry(blocks, i) == Kept(Parse(blocks, i - 1), blocks[i])

\* What a block does to a list.
Goes(blocks, list, k) ==
    IF Known(list, blocks[k]) /\ ~InList(list, blocks[k])
    THEN Insert(list, Kept(list, blocks[k]), k = Len(blocks))
    ELSE list

\* g has the lists after the first blocks, up to m.
Lists(blocks, m, g) ==
    g = [k \in 0 .. m |-> IF k = 0 THEN <<>> ELSE Goes(blocks, g[k - 1], k)]

\* How they follow from each other.
LEMMA ListsFollow ==
    ASSUME NEW blocks, NEW m \in Nat, NEW g, Lists(blocks, m, g)
    PROVE  /\ g[0] = <<>>
           /\ \A k \in Nat : k < m => g[k + 1] = Goes(blocks, g[k], k + 1)
<1>1. \A k \in 0 .. m : g[k] = IF k = 0 THEN <<>> ELSE Goes(blocks, g[k - 1], k)
  BY DEF Lists
<1>2. 0 \in 0 .. m
  OBVIOUS
<1>3. ASSUME NEW k \in Nat, k < m PROVE g[k + 1] = Goes(blocks, g[k], k + 1)
  <2>1. k + 1 \in 0 .. m /\ k + 1 # 0 /\ (k + 1) - 1 = k
    BY <1>3
  <2> QED
    BY <1>1, <2>1
<1> QED
  BY <1>1, <1>2, <1>3

\* They exist.
LEMMA ListsExist ==
    ASSUME NEW blocks, NEW n \in Nat
    PROVE  \E g : Lists(blocks, n, g)
<1> DEFINE M == {m \in Nat : \E g : Lists(blocks, m, g)}
<1>1. 0 \in M
  <2> DEFINE g == [k \in 0 .. 0 |-> <<>>]
  <2>1. Lists(blocks, 0, g)
    BY DEF Lists
  <2> QED
    BY <2>1
<1>2. ASSUME NEW m \in Nat, m \in M PROVE m + 1 \in M
  <2>1. PICK g : Lists(blocks, m, g)
    BY <1>2
  <2> DEFINE h == [k \in 0 .. m + 1 |-> IF k = 0 THEN <<>> ELSE Goes(blocks, g[k - 1], k)]
  <2>2. ASSUME NEW k \in 0 .. m PROVE h[k] = g[k]
    <3>1. k \in 0 .. m + 1
      OBVIOUS
    <3>2. g[k] = IF k = 0 THEN <<>> ELSE Goes(blocks, g[k - 1], k)
      BY <2>1 DEF Lists
    <3> QED
      BY <3>1, <3>2
  <2>3. \A k \in 0 .. m + 1 : k # 0 => k - 1 \in 0 .. m
    OBVIOUS
  <2>4. \A k \in 0 .. m + 1 : h[k] = IF k = 0 THEN <<>> ELSE Goes(blocks, h[k - 1], k)
    BY <2>2, <2>3
  <2>5. Lists(blocks, m + 1, h)
    BY <2>4 DEF Lists
  <2> HIDE DEF h
  <2> QED
    BY <2>5
<1> HIDE DEF M
<1>3. n \in M
  BY <1>1, <1>2, Induction
<1> QED
  BY <1>3 DEF M

\* They do not depend on how many there are.
LEMMA ListsAgree ==
    ASSUME NEW blocks, NEW m \in Nat, NEW n \in Nat, m <= n, NEW g, NEW h,
           Lists(blocks, m, g), Lists(blocks, n, h)
    PROVE  g[m] = h[m]
<1> DEFINE K == {k \in Nat : k <= m => g[k] = h[k]}
<1>1. g[0] = <<>> /\ \A k \in Nat : k < m => g[k + 1] = Goes(blocks, g[k], k + 1)
  BY ListsFollow
<1>2. h[0] = <<>> /\ \A k \in Nat : k < n => h[k + 1] = Goes(blocks, h[k], k + 1)
  BY ListsFollow
<1>3. 0 \in K
  BY <1>1, <1>2
<1>4. ASSUME NEW k \in Nat, k \in K PROVE k + 1 \in K
  <2> SUFFICES ASSUME k + 1 <= m PROVE g[k + 1] = h[k + 1]
    OBVIOUS
  <2>1. g[k] = h[k] /\ k < m /\ k < n
    BY <1>4
  <2> QED
    BY <1>1, <1>2, <2>1
<1> HIDE DEF K
<1>5. m \in K
  BY <1>3, <1>4, Induction
<1> QED
  BY <1>5 DEF K

\* Parse goes block by block.
LEMMA ParseIs ==
    ASSUME NEW blocks
    PROVE  /\ Parse(blocks, 0) = <<>>
           /\ \A n \in Nat :
                  Parse(blocks, n + 1) =
                      IF Taken(blocks, n + 1)
                      THEN Insert(Parse(blocks, n), Entry(blocks, n + 1), n + 1 = Len(blocks))
                      ELSE Parse(blocks, n)
<1>1. ASSUME NEW n \in Nat
      PROVE  \E g : Lists(blocks, n, g) /\ Parse(blocks, n) = g[n]
  <2> DEFINE g == CHOOSE x : Lists(blocks, n, x)
  <2>1. Lists(blocks, n, g)
    BY ListsExist
  <2>2. Parse(blocks, n) = g[n]
    BY DEF Parse, Lists, Goes
  <2> HIDE DEF g
  <2> QED
    BY <2>1, <2>2
<1>2. Parse(blocks, 0) = <<>>
  BY <1>1, ListsFollow
<1>3. ASSUME NEW n \in Nat
      PROVE  Parse(blocks, n + 1) =
                 IF Taken(blocks, n + 1)
                 THEN Insert(Parse(blocks, n), Entry(blocks, n + 1), n + 1 = Len(blocks))
                 ELSE Parse(blocks, n)
  <2>1. PICK g : Lists(blocks, n, g) /\ Parse(blocks, n) = g[n]
    BY <1>1
  <2>2. PICK h : Lists(blocks, n + 1, h) /\ Parse(blocks, n + 1) = h[n + 1]
    BY <1>1
  <2>3. g[n] = h[n]
    BY <2>1, <2>2, ListsAgree
  <2>4. h[n + 1] = Goes(blocks, h[n], n + 1)
    BY <2>2, ListsFollow
  <2>5. Parse(blocks, n + 1) = Goes(blocks, Parse(blocks, n), n + 1)
    BY <2>1, <2>2, <2>3, <2>4
  <2>6. (n + 1) - 1 = n
    OBVIOUS
  <2> QED
    BY <2>5, <2>6 DEF Goes, Taken, Entry
<1> QED
  BY <1>2, <1>3

-----------------------------------------------------------------------------
(***************************************************************************)
(* Where the blocks of the list come from.                                 *)
(***************************************************************************)

Accepted(blocks) == {i \in 1 .. Len(blocks) : Taken(blocks, i)}

Entries(blocks) == {Entry(blocks, i) : i \in 1 .. Len(blocks)}

\* The list after the first n blocks has those that are kept, at these places
\* of the file.
Traced(blocks, n, at) ==
    /\ IsAscending(at, Accepted(blocks), n)
    /\ Parse(blocks, n) \in Seq(Entries(blocks))
    /\ Len(Parse(blocks, n)) = Len(at)
    /\ \A j \in 1 .. Len(at) : Parse(blocks, n)[j] = Entry(blocks, at[j])

\* The blocks but the last are in the order in which they are written.
LEMMA InOrder ==
    ASSUME NEW blocks, Len(blocks) \in Nat, NEW m \in Nat, m < Len(blocks)
    PROVE  \E at : Traced(blocks, m, at)
<1> DEFINE M == {n \in Nat : n < Len(blocks) => \E at : Traced(blocks, n, at)}
<1>1. 0 \in M
  <2> DEFINE e == Parse(blocks, 0)
  <2>1. e = <<>>
    BY ParseIs
  <2>2. e \in Seq(Entries(blocks)) /\ e \in Seq(1 .. 0) /\ Len(e) = 0
    BY <2>1, EmptySeq
  <2>3. IsAscending(e, Accepted(blocks), 0)
    BY <2>2 DEF IsAscending
  <2>4. \A j \in 1 .. Len(e) : e[j] = Entry(blocks, e[j])
    BY <2>2
  <2>5. Traced(blocks, 0, e)
    BY <2>2, <2>3, <2>4 DEF Traced
  <2> QED
    BY <2>5
<1>2. ASSUME NEW n \in Nat, n \in M PROVE n + 1 \in M
  <2> SUFFICES ASSUME n + 1 < Len(blocks) PROVE \E at : Traced(blocks, n + 1, at)
    OBVIOUS
  <2>1. PICK at : Traced(blocks, n, at)
    BY <1>2
  <2> DEFINE list == Parse(blocks, n)
             next == Parse(blocks, n + 1)
             block == Entry(blocks, n + 1)
  <2>2. next = IF Taken(blocks, n + 1) THEN Insert(list, block, n + 1 = Len(blocks)) ELSE list
    BY ParseIs
  <2>3. n + 1 \in 1 .. Len(blocks) /\ n + 1 # Len(blocks)
    OBVIOUS
  <2>4. n + 1 \in Accepted(blocks) <=> Taken(blocks, n + 1)
    BY <2>3 DEF Accepted
  <2>5. /\ IsAscending(at, Accepted(blocks), n) /\ list \in Seq(Entries(blocks))
        /\ Len(list) = Len(at)
        /\ \A j \in 1 .. Len(at) : list[j] = Entry(blocks, at[j])
    BY <2>1 DEF Traced
  <2>6. at \in Seq(1 .. n) /\ Len(at) \in Nat
    BY <2>5, LenProperties DEF IsAscending
  <2> HIDE DEF list
  <2>7. CASE Taken(blocks, n + 1)
    <3> DEFINE b == Append(at, n + 1)
    <3>1. IsAscending(b, Accepted(blocks), n + 1)
      BY <2>4, <2>5, <2>7, AscendingNext
    <3>2. /\ Len(b) = Len(at) + 1 /\ b[Len(at) + 1] = n + 1
          /\ \A j \in 1 .. Len(at) : b[j] = at[j]
      BY <2>6, AppendProperties
    <3>3. next = Append(list, block)
      BY <2>2, <2>3, <2>7 DEF Insert
    <3>4. block \in Entries(blocks)
      BY <2>3 DEF Entries
    <3> HIDE DEF block, next
    <3>5. /\ next \in Seq(Entries(blocks)) /\ Len(next) = Len(at) + 1
          /\ next[Len(at) + 1] = block
          /\ \A j \in 1 .. Len(at) : next[j] = list[j]
      BY <2>5, <3>3, <3>4, AppendProperties
    <3> HIDE DEF b
    <3>6. ASSUME NEW j \in 1 .. Len(b) PROVE next[j] = Entry(blocks, b[j])
      <4>1. CASE j = Len(at) + 1
        BY <3>2, <3>5, <4>1 DEF block
      <4>2. CASE j \in 1 .. Len(at)
        BY <2>5, <3>2, <3>5, <4>2
      <4> QED
        BY <2>6, <3>2, <4>1, <4>2
    <3>7. Traced(blocks, n + 1, b)
      BY <3>1, <3>2, <3>5, <3>6 DEF Traced, next
    <3> QED
      BY <3>7
  <2>8. CASE ~Taken(blocks, n + 1)
    <3>1. next = list
      BY <2>2, <2>8
    <3>2. IsAscending(at, Accepted(blocks), n + 1)
      BY <2>4, <2>5, <2>8, AscendingNext
    <3>3. Traced(blocks, n + 1, at)
      BY <2>5, <3>1, <3>2 DEF Traced
    <3> QED
      BY <3>3
  <2> QED
    BY <2>7, <2>8
<1> HIDE DEF M
<1>3. m \in M
  BY <1>1, <1>2, Induction
<1> QED
  BY <1>3 DEF M

\* The whole list: the block the file ends with, if it is kept, comes first,
\* the others in the order in which they are written.
Whole(blocks, at) ==
    LET list == Parse(blocks, Len(blocks))
    IN  /\ list \in Seq(Entries(blocks)) /\ at \in Seq(Accepted(blocks))
        /\ Len(list) = Len(at)
        /\ \A j \in 1 .. Len(at) : list[j] = Entry(blocks, at[j])
        /\ \A j, k \in 1 .. Len(at) :
              j < k => at[k] # Len(blocks) /\ (at[j] = Len(blocks) \/ at[j] < at[k])
        /\ \A i \in Accepted(blocks) : \E j \in 1 .. Len(at) : at[j] = i

LEMMA WholeList ==
    ASSUME NEW blocks, Len(blocks) \in Nat
    PROVE  \E at : Whole(blocks, at)
<1> DEFINE N == Len(blocks)
           A == Accepted(blocks)
           list == Parse(blocks, N)
<1>1. A \subseteq 1 .. N
  BY DEF Accepted
<1>2. CASE N = 0
  <2>1. list = <<>>
    BY <1>2, ParseIs
  <2>2. list \in Seq(Entries(blocks)) /\ list \in Seq(A) /\ Len(list) = 0
    BY <2>1, EmptySeq
  <2>3. A = {}
    BY <1>1, <1>2
  <2>4. /\ \A j \in 1 .. Len(list) : list[j] = Entry(blocks, list[j])
        /\ \A j, k \in 1 .. Len(list) :
              j < k => list[k] # N /\ (list[j] = N \/ list[j] < list[k])
        /\ \A i \in A : \E j \in 1 .. Len(list) : list[j] = i
    BY <2>2, <2>3
  <2>5. Whole(blocks, list)
    BY <2>2, <2>4 DEF Whole
  <2> QED
    BY <2>5
<1>3. CASE N # 0
  <2> DEFINE n == N - 1
             before == Parse(blocks, n)
             block == Entry(blocks, N)
  <2>1. n \in Nat /\ n < N /\ n + 1 = N /\ N \in 1 .. N
    BY <1>3
  <2>2. PICK at : Traced(blocks, n, at)
    BY <2>1, InOrder
  <2>3. list = IF Taken(blocks, N) THEN Insert(before, block, TRUE) ELSE before
    BY <2>1, ParseIs
  <2>4. N \in A <=> Taken(blocks, N)
    BY <2>1 DEF Accepted
  <2>5. /\ at \in Seq(1 .. n) /\ Len(at) \in Nat /\ before \in Seq(Entries(blocks))
        /\ Len(before) = Len(at)
        /\ \A j \in 1 .. Len(at) :
              at[j] \in 1 .. n /\ at[j] \in A /\ before[j] = Entry(blocks, at[j])
        /\ \A j, k \in 1 .. Len(at) : j < k => at[j] < at[k]
        /\ \A i \in 1 .. n : i \in A => \E j \in 1 .. Len(at) : at[j] = i
    BY <2>2, LenProperties DEF Traced, IsAscending
  <2> HIDE DEF before, list
  <2>6. at \in Seq(A)
    <3>1. DOMAIN at = 1 .. Len(at) /\ at = [j \in 1 .. Len(at) |-> at[j]]
      BY <2>5, LenProperties
    <3>2. Len(at) \in Nat /\ \A j \in 1 .. Len(at) : at[j] \in A
      BY <2>5
    <3> HIDE DEF A
    <3>3. [j \in 1 .. Len(at) |-> at[j]] \in Seq(A)
      BY <3>2, IsASeq
    <3> QED
      BY <3>1, <3>3
  <2>7. CASE ~Taken(blocks, N)
    <3>1. list = before
      BY <2>3, <2>7
    <3>2. ASSUME NEW i \in A PROVE \E j \in 1 .. Len(at) : at[j] = i
      <4>1. i \in 1 .. n
        BY <1>1, <2>1, <2>4, <2>7
      <4> QED
        BY <2>5, <4>1
    <3>3. \A j \in 1 .. Len(at) : at[j] # N
      BY <2>1, <2>5
    <3>4. Whole(blocks, at)
      BY <2>5, <2>6, <3>1, <3>2, <3>3 DEF Whole, list
    <3> QED
      BY <3>4
  <2>8. CASE Taken(blocks, N)
    <3> DEFINE b == <<N>> \o at
               m == Len(at)
    <3>1. list = <<block>> \o before
      BY <2>3, <2>8 DEF Insert
    <3>2. block \in Entries(blocks) /\ N \in A
      BY <2>1, <2>4, <2>8 DEF Entries
    <3>3. <<block>> \in Seq(Entries(blocks)) /\ Len(<<block>>) = 1 /\ <<block>>[1] = block
      BY <3>2
    <3>4. <<N>> \in Seq(A) /\ Len(<<N>>) = 1 /\ <<N>>[1] = N
      BY <3>2
    <3> HIDE DEF block
    <3>5. /\ list \in Seq(Entries(blocks)) /\ Len(list) = 1 + m
          /\ \A j \in 1 .. 1 + m : list[j] = IF j <= 1 THEN <<block>>[j] ELSE before[j - 1]
      BY <2>5, <3>1, <3>3, ConcatProperties
    <3>6. /\ b \in Seq(A) /\ Len(b) = 1 + m
          /\ \A j \in 1 .. 1 + m : b[j] = IF j <= 1 THEN <<N>>[j] ELSE at[j - 1]
      BY <2>6, <3>4, ConcatProperties
    <3> HIDE DEF b
    <3>7. 1 \in 1 .. 1 + m /\ list[1] = block /\ b[1] = N
      <4>1. 1 \in 1 .. 1 + m /\ 1 <= 1
        BY <2>5
      <4> QED
        BY <3>3, <3>4, <3>5, <3>6, <4>1
    <3>8. ASSUME NEW j \in 1 .. 1 + m, j # 1
          PROVE  j - 1 \in 1 .. m /\ list[j] = before[j - 1] /\ b[j] = at[j - 1]
      <4>1. j - 1 \in 1 .. m /\ ~(j <= 1)
        BY <2>5, <3>8
      <4> QED
        BY <3>5, <3>6, <4>1
    <3>9. ASSUME NEW j \in 1 .. Len(b) PROVE list[j] = Entry(blocks, b[j])
      <4>1. CASE j = 1
        BY <3>7, <4>1 DEF block
      <4>2. CASE j # 1
        BY <2>5, <3>6, <3>8, <4>2
      <4> QED
        BY <4>1, <4>2
    <3>10. ASSUME NEW j \in 1 .. Len(b), NEW k \in 1 .. Len(b), j < k
           PROVE  b[k] # N /\ (b[j] = N \/ b[j] < b[k])
      <4>1. k # 1 /\ k \in 1 .. 1 + m /\ j \in 1 .. 1 + m
        BY <2>5, <3>6, <3>10
      <4>2. k - 1 \in 1 .. m /\ b[k] = at[k - 1] /\ at[k - 1] \in 1 .. n
        BY <2>5, <3>8, <4>1
      <4>3. b[k] # N
        BY <2>1, <4>2
      <4>4. CASE j = 1
        BY <3>7, <4>3, <4>4
      <4>5. CASE j # 1
        <5>1. j - 1 \in 1 .. m /\ b[j] = at[j - 1]
          BY <3>8, <4>1, <4>5
        <5>2. j - 1 < k - 1
          BY <3>10, <4>1
        <5>3. at[j - 1] < at[k - 1]
          BY <2>5, <4>2, <5>1, <5>2
        <5> QED
          BY <4>2, <4>3, <5>1, <5>3
      <4> QED
        BY <4>4, <4>5
    <3>11. ASSUME NEW i \in A PROVE \E j \in 1 .. Len(b) : b[j] = i
      <4>1. CASE i = N
        BY <3>6, <3>7, <4>1
      <4>2. CASE i # N
        <5>1. i \in 1 .. n
          BY <1>1, <2>1, <4>2
        <5>2. PICK j \in 1 .. m : at[j] = i
          BY <2>5, <5>1
        <5>3. j + 1 \in 1 .. 1 + m /\ j + 1 # 1 /\ (j + 1) - 1 = j
          BY <2>5
        <5>4. b[j + 1] = i
          BY <3>8, <5>2, <5>3
        <5> QED
          BY <3>6, <5>3, <5>4
      <4> QED
        BY <4>1, <4>2
    <3>12. Whole(blocks, b)
      BY <3>5, <3>6, <3>9, <3>10, <3>11 DEF Whole, list
    <3> QED
      BY <3>12
  <2> QED
    BY <2>7, <2>8
<1> QED
  BY <1>2, <1>3

-----------------------------------------------------------------------------
(***************************************************************************)
(* What blocks are, and that the list has one of each key.                 *)
(***************************************************************************)

\* What FilesAssumption says of a file's blocks.
FileOK(blocks) ==
    /\ IsSequence(blocks)
    /\ \A i \in DOMAIN blocks : IsBlock(blocks[i]) /\ WellMade(blocks[i], Parse(blocks, i - 1))

\* All files are such.
LEMMA FilesOK ==
    ASSUME NEW f \in DOMAIN Files
    PROVE  /\ FileOK(Files[f].blocks)
           /\ \A c \in DOMAIN Files[f].signals : Files[f].signals[c] \in Seq(Seq(Concrete))
BY FilesAssumption DEF FileOK

LEMMA FileIs ==
    ASSUME NEW blocks, FileOK(blocks)
    PROVE  /\ Len(blocks) \in Nat /\ DOMAIN blocks = 1 .. Len(blocks)
           /\ \A i \in 1 .. Len(blocks) :
                  IsBlock(blocks[i]) /\ WellMade(blocks[i], Parse(blocks, i - 1))
BY DEF FileOK, IsSequence

\* The blocks that have names, or other fields, by their kinds.
LEMMA BlockIs ==
    ASSUME NEW b, IsBlock(b)
    PROVE  /\ b.kind = "tprule" =>
                  b \in [kind : {"tprule"}, comp : STRING, rule : Seq(Token),
                         tgts : Seq(Seq(Token))]
           /\ b.kind = "tgtrule" =>
                  b \in [kind : {"tgtrule"}, name : Seq(Token), deps : Seq(Seq(Token))]
BY DEF IsBlock

\* Only the targets of a touchpoint rule change when it is put into the list.
LEMMA KeptIs ==
    ASSUME NEW b, IsBlock(b), NEW list
    PROVE  /\ Kept(list, b).kind = b.kind
           /\ Key(Kept(list, b)) = Key(b)
           /\ b.kind # "tprule" => Kept(list, b) = b
           /\ b.kind = "tprule" =>
                  /\ Kept(list, b).comp = b.comp /\ Kept(list, b).rule = b.rule
                  /\ Kept(list, b).tgts =
                         Selection(b.tgts, {j \in DOMAIN b.tgts : CheckUnity(list, b.tgts[j])})
<1>1. CASE b.kind = "tprule"
  <2> DEFINE tgts == Selection(b.tgts, {j \in DOMAIN b.tgts : CheckUnity(list, b.tgts[j])})
             k == Kept(list, b)
  <2>1. b \in [kind : {"tprule"}, comp : STRING, rule : Seq(Token), tgts : Seq(Seq(Token))]
    BY <1>1, BlockIs
  <2>2. k = [b EXCEPT !.tgts = tgts]
    BY <1>1 DEF Kept
  <2> HIDE DEF tgts, k
  <2>3. k.kind = b.kind /\ k.comp = b.comp /\ k.rule = b.rule /\ k.tgts = tgts
    BY <2>1, <2>2
  <2>4. Key(k) = Key(b)
    BY <1>1, <2>3 DEF Key
  <2> QED
    BY <1>1, <2>3, <2>4 DEF k, tgts
<1>2. CASE b.kind # "tprule"
  BY <1>2 DEF Kept
<1> QED
  BY <1>1, <1>2

\* What there is in the list after n blocks.
LEMMA PrefixIs ==
    ASSUME NEW blocks, Len(blocks) \in Nat, NEW n \in 0 .. Len(blocks)
    PROVE  /\ DOMAIN Parse(blocks, n) \subseteq Nat
           /\ \A j \in DOMAIN Parse(blocks, n) :
                  \E i \in Accepted(blocks) : i <= n /\ Parse(blocks, n)[j] = Entry(blocks, i)
           /\ \A i \in Accepted(blocks) :
                  i <= n => \E j \in DOMAIN Parse(blocks, n) : Parse(blocks, n)[j] = Entry(blocks, i)
<1> DEFINE list == Parse(blocks, n)
<1>1. Accepted(blocks) \subseteq 1 .. Len(blocks)
  BY DEF Accepted
<1>2. CASE n = Len(blocks)
  <2>1. PICK at : Whole(blocks, at)
    BY WholeList
  <2>2. /\ list \in Seq(Entries(blocks)) /\ at \in Seq(Accepted(blocks)) /\ Len(list) = Len(at)
        /\ \A j \in 1 .. Len(at) : list[j] = Entry(blocks, at[j])
        /\ \A i \in Accepted(blocks) : \E j \in 1 .. Len(at) : at[j] = i
    BY <1>2, <2>1 DEF Whole
  <2> HIDE DEF list
  <2>3. /\ DOMAIN list = 1 .. Len(at) /\ Len(at) \in Nat
        /\ \A j \in 1 .. Len(at) : at[j] \in Accepted(blocks) /\ at[j] <= n
    BY <1>1, <1>2, <2>2, LenProperties
  <2>4. ASSUME NEW j \in DOMAIN list
        PROVE  \E i \in Accepted(blocks) : i <= n /\ list[j] = Entry(blocks, i)
    BY <2>2, <2>3
  <2>5. ASSUME NEW i \in Accepted(blocks)
        PROVE  \E j \in DOMAIN list : list[j] = Entry(blocks, i)
    BY <2>2, <2>3
  <2>6. DOMAIN list \subseteq Nat
    BY <2>3
  <2> QED
    BY <2>4, <2>5, <2>6 DEF list
<1>3. CASE n # Len(blocks)
  <2>1. n \in Nat /\ n < Len(blocks)
    BY <1>3
  <2>2. PICK at : Traced(blocks, n, at)
    BY <2>1, InOrder
  <2>3. /\ list \in Seq(Entries(blocks)) /\ at \in Seq(1 .. n) /\ Len(list) = Len(at)
        /\ \A j \in 1 .. Len(at) : at[j] \in Accepted(blocks) /\ list[j] = Entry(blocks, at[j])
        /\ \A i \in 1 .. n : i \in Accepted(blocks) => \E j \in 1 .. Len(at) : at[j] = i
    BY <2>2 DEF Traced, IsAscending
  <2> HIDE DEF list
  <2>4. /\ DOMAIN list = 1 .. Len(at) /\ Len(at) \in Nat
        /\ \A j \in 1 .. Len(at) : at[j] <= n
    BY <2>1, <2>3, LenProperties
  <2>5. \A i \in Accepted(blocks) : i <= n => i \in 1 .. n
    BY <1>1, <2>1
  <2>6. ASSUME NEW j \in DOMAIN list
        PROVE  \E i \in Accepted(blocks) : i <= n /\ list[j] = Entry(blocks, i)
    BY <2>3, <2>4
  <2>7. ASSUME NEW i \in Accepted(blocks), i <= n
        PROVE  \E j \in DOMAIN list : list[j] = Entry(blocks, i)
    <3>1. PICK j \in 1 .. Len(at) : at[j] = i
      BY <2>3, <2>5, <2>7
    <3> QED
      BY <2>3, <2>4, <3>1
  <2> QED
    BY <2>4, <2>6, <2>7 DEF list
<1> QED
  BY <1>2, <1>3

\* An entry has its block's kind and key.
LEMMA EntryIs ==
    ASSUME NEW blocks, NEW i, IsBlock(blocks[i])
    PROVE  /\ Entry(blocks, i).kind = blocks[i].kind
           /\ Key(Entry(blocks, i)) = Key(blocks[i])
           /\ blocks[i].kind # "tprule" => Entry(blocks, i) = blocks[i]
<1> DEFINE b == blocks[i]
           list == Parse(blocks, i - 1)
<1>1. IsBlock(b)
  OBVIOUS
<1>2. Entry(blocks, i) = Kept(list, b)
  BY DEF Entry
<1> HIDE DEF b, list
<1>3. /\ Kept(list, b).kind = b.kind /\ Key(Kept(list, b)) = Key(b)
      /\ b.kind # "tprule" => Kept(list, b) = b
  BY <1>1, KeptIs, Zenon
<1> QED
  BY <1>2, <1>3 DEF b

\* Two blocks of a kind are kept only if they have different keys.
LEMMA KeysDiffer ==
    ASSUME NEW blocks, FileOK(blocks), NEW i \in Accepted(blocks), NEW j \in Accepted(blocks),
           blocks[i].kind = blocks[j].kind, Key(blocks[i]) = Key(blocks[j])
    PROVE  i = j
<1>1. /\ Len(blocks) \in Nat /\ i \in 1 .. Len(blocks) /\ j \in 1 .. Len(blocks)
      /\ IsBlock(blocks[i]) /\ IsBlock(blocks[j])
  BY FileIs DEF Accepted
<1>2. ASSUME NEW x \in Accepted(blocks), NEW y \in Accepted(blocks), x < y,
             blocks[x].kind = blocks[y].kind, Key(blocks[x]) = Key(blocks[y])
      PROVE  FALSE
  <2> DEFINE list == Parse(blocks, y - 1)
  <2>1. x \in 1 .. Len(blocks) /\ y \in 1 .. Len(blocks) /\ IsBlock(blocks[x])
    BY FileIs DEF Accepted
  <2>2. y - 1 \in 0 .. Len(blocks) /\ x <= y - 1
    BY <1>1, <1>2, <2>1
  <2>3. PICK p \in DOMAIN list : list[p] = Entry(blocks, x)
    BY <1>1, <2>2, PrefixIs
  <2>4. list[p].kind = blocks[x].kind /\ Key(list[p]) = Key(blocks[x])
    BY <2>1, <2>3, EntryIs
  <2>5. InList(list, blocks[y])
    BY <1>2, <2>4 DEF InList
  <2>6. ~InList(list, blocks[y])
    BY DEF Accepted, Taken
  <2> QED
    BY <2>5, <2>6
<1>3. i < j \/ j < i \/ i = j
  BY <1>1
<1> QED
  BY <1>2, <1>3

\* A search by name finds the one block there is of that name, and finds it
\* in all longer lists.
LEMMA SearchIs ==
    ASSUME NEW blocks, FileOK(blocks), NEW n \in 0 .. Len(blocks),
           NEW kind \in {"iface", "comp", "dom", "var"}, NEW name,
           Named(Parse(blocks, n), kind, name)
    PROVE  \E i \in Accepted(blocks) :
               /\ i <= n
               /\ blocks[i].kind = kind /\ blocks[i].name = name
               /\ Entry(blocks, i) = blocks[i]
               /\ Search(Parse(blocks, n), kind, name) = blocks[i]
<1> DEFINE list == Parse(blocks, n)
           places == Places(list, kind, name)
           p == FirstOf(places)
<1>1. Len(blocks) \in Nat
  BY FileIs
<1>2. places # {} /\ places \subseteq DOMAIN list /\ DOMAIN list \subseteq Nat
  BY <1>1, PrefixIs DEF Named, Places
<1>3. p \in places
  BY <1>2, FirstIs
<1>4. p \in DOMAIN list /\ list[p].kind = kind /\ list[p].name = name
  BY <1>3 DEF Places
<1>5. Search(list, kind, name) = list[p]
  BY DEF Search
<1> HIDE DEF p, places
<1>6. PICK i \in Accepted(blocks) : i <= n /\ list[p] = Entry(blocks, i)
  BY <1>1, <1>4, PrefixIs
<1>7. IsBlock(blocks[i])
  BY FileIs DEF Accepted
<1>8. blocks[i].kind = kind /\ blocks[i].kind # "tprule"
  BY <1>4, <1>6, <1>7, EntryIs
<1>9. Entry(blocks, i) = blocks[i]
  BY <1>7, <1>8, EntryIs
<1> QED
  BY <1>4, <1>5, <1>6, <1>8, <1>9

LEMMA FoundAgain ==
    ASSUME NEW blocks, FileOK(blocks), NEW n \in 0 .. Len(blocks),
           NEW kind \in {"iface", "comp", "dom", "var"}, NEW name,
           Named(Parse(blocks, n), kind, name)
    PROVE  /\ Named(Parse(blocks, Len(blocks)), kind, name)
           /\ Search(Parse(blocks, Len(blocks)), kind, name) = Search(Parse(blocks, n), kind, name)
<1> DEFINE N == Len(blocks)
<1>1. N \in Nat /\ N \in 0 .. N
  BY FileIs
<1>2. PICK i \in Accepted(blocks) :
          /\ blocks[i].kind = kind /\ blocks[i].name = name /\ Entry(blocks, i) = blocks[i]
          /\ Search(Parse(blocks, n), kind, name) = blocks[i]
  BY SearchIs
<1>3. i <= N
  BY <1>1 DEF Accepted
<1>4. PICK p \in DOMAIN Parse(blocks, N) : Parse(blocks, N)[p] = blocks[i]
  BY <1>1, <1>2, <1>3, PrefixIs
<1>5. Named(Parse(blocks, N), kind, name)
  BY <1>2, <1>4 DEF Named, Places
<1>6. PICK j \in Accepted(blocks) :
          /\ blocks[j].kind = kind /\ blocks[j].name = name
          /\ Search(Parse(blocks, N), kind, name) = blocks[j]
  BY <1>1, <1>5, SearchIs
<1>7. Key(blocks[i]) = name /\ Key(blocks[j]) = name
  BY <1>2, <1>6 DEF Key
<1>8. i = j
  BY <1>2, <1>6, <1>7, KeysDiffer
<1> QED
  BY <1>2, <1>5, <1>6, <1>8

-----------------------------------------------------------------------------
(***************************************************************************)
(* The tables of a file.                                                   *)
(***************************************************************************)

\* Where the entries of the table of one kind are in the file: they are in
\* the order in which they are written, but for the file's last block.
TableAt(blocks, kind, at) ==
    LET table == GetAll(Parse(blocks, Len(blocks)), kind)
    IN  /\ at \in [1 .. Len(table) -> Accepted(blocks)]
        /\ \A j \in 1 .. Len(table) :
              blocks[at[j]].kind = kind /\ table[j] = Entry(blocks, at[j])
        /\ \A j, k \in 1 .. Len(table) :
              j < k => at[k] # Len(blocks) /\ (at[j] = Len(blocks) \/ at[j] < at[k])
        /\ \A i \in Accepted(blocks) :
              blocks[i].kind = kind => \E j \in 1 .. Len(table) : at[j] = i

LEMMA TableIs ==
    ASSUME NEW blocks, FileOK(blocks), NEW kind
    PROVE  LET table == GetAll(Parse(blocks, Len(blocks)), kind)
           IN  /\ Len(table) \in Nat /\ DOMAIN table = 1 .. Len(table)
               /\ \E at : TableAt(blocks, kind, at)
<1> DEFINE N == Len(blocks)
           list == Parse(blocks, N)
           S == {p \in DOMAIN list : list[p].kind = kind}
           table == GetAll(list, kind)
           up == Ascending(S, Len(list))
<1>1. N \in Nat /\ \A i \in Accepted(blocks) : i \in 1 .. N /\ IsBlock(blocks[i])
  BY FileIs DEF Accepted
<1>2. PICK from : Whole(blocks, from)
  BY <1>1, WholeList
<1>3. /\ list \in Seq(Entries(blocks)) /\ from \in Seq(Accepted(blocks))
      /\ Len(list) = Len(from)
      /\ \A j \in 1 .. Len(from) : list[j] = Entry(blocks, from[j])
      /\ \A j, k \in 1 .. Len(from) : j < k => from[k] # N /\ (from[j] = N \/ from[j] < from[k])
      /\ \A i \in Accepted(blocks) : \E j \in 1 .. Len(from) : from[j] = i
  BY <1>2 DEF Whole
<1>4. table = Selection(list, S)
  BY DEF GetAll
<1>5. /\ table \in Seq(Entries(blocks)) /\ Len(table) = Len(up)
      /\ IsAscending(up, S, Len(list))
      /\ \A j \in 1 .. Len(table) : up[j] \in 1 .. Len(list) /\ table[j] = list[up[j]]
  BY <1>3, <1>4, SelectionIs
<1> HIDE DEF list, table, up
<1>6. /\ \A j \in 1 .. Len(table) : up[j] \in S
      /\ \A j, k \in 1 .. Len(table) : j < k => up[j] < up[k]
      /\ \A p \in 1 .. Len(list) : p \in S => \E j \in 1 .. Len(table) : up[j] = p
  BY <1>5 DEF IsAscending
<1>7. /\ Len(table) \in Nat /\ DOMAIN table = 1 .. Len(table)
      /\ DOMAIN list = 1 .. Len(list)
      /\ \A p \in 1 .. Len(list) : from[p] \in Accepted(blocks)
  BY <1>3, <1>5, LenProperties
<1> DEFINE at == [j \in 1 .. Len(table) |-> from[up[j]]]
<1>8. at \in [1 .. Len(table) -> Accepted(blocks)]
  BY <1>5, <1>7
<1>9. \A j \in 1 .. Len(table) : at[j] = from[up[j]]
  OBVIOUS
<1> HIDE DEF at
<1>10. ASSUME NEW j \in 1 .. Len(table)
       PROVE  blocks[at[j]].kind = kind /\ table[j] = Entry(blocks, at[j])
  <2>1. table[j] = Entry(blocks, at[j])
    BY <1>3, <1>5, <1>9
  <2>2. list[up[j]].kind = kind
    BY <1>6
  <2>3. at[j] \in Accepted(blocks)
    BY <1>8
  <2>4. Entry(blocks, at[j]).kind = blocks[at[j]].kind
    BY <1>1, <2>3, EntryIs
  <2> QED
    BY <1>5, <2>1, <2>2, <2>4
<1>11. ASSUME NEW j \in 1 .. Len(table), NEW k \in 1 .. Len(table), j < k
       PROVE  at[k] # N /\ (at[j] = N \/ at[j] < at[k])
  <2>1. up[j] < up[k] /\ up[j] \in 1 .. Len(from) /\ up[k] \in 1 .. Len(from)
    BY <1>3, <1>5, <1>6, <1>11
  <2>2. from[up[k]] # N /\ (from[up[j]] = N \/ from[up[j]] < from[up[k]])
    BY <1>3, <2>1
  <2> QED
    BY <1>9, <2>2
<1>12. ASSUME NEW i \in Accepted(blocks), blocks[i].kind = kind
       PROVE  \E j \in 1 .. Len(table) : at[j] = i
  <2>1. PICK p \in 1 .. Len(list) : from[p] = i
    BY <1>3
  <2>2. list[p] = Entry(blocks, i)
    BY <1>3, <2>1
  <2>3. list[p].kind = kind
    BY <1>1, <1>12, <2>2, EntryIs
  <2>4. p \in S
    BY <1>7, <2>3
  <2>5. PICK j \in 1 .. Len(table) : up[j] = p
    BY <1>6, <2>4
  <2> QED
    BY <1>9, <2>1, <2>5
<1>13. TableAt(blocks, kind, at)
  BY <1>8, <1>10, <1>11, <1>12 DEF TableAt, table, list
<1> QED
  BY <1>7, <1>13 DEF table, list

\* A component's variables are the same in all lists that have the component.
LEMMA MembersAgain ==
    ASSUME NEW blocks, FileOK(blocks), NEW n \in 0 .. Len(blocks), NEW comp,
           Named(Parse(blocks, n), "comp", comp)
    PROVE  Members(Parse(blocks, Len(blocks)), comp) = Members(Parse(blocks, n), comp)
<1> DEFINE N == Len(blocks)
           list == Parse(blocks, n)
           all == Parse(blocks, N)
           b == Search(list, "comp", comp)
<1>1. PICK i \in Accepted(blocks) :
          i <= n /\ blocks[i].kind = "comp" /\ b = blocks[i]
  BY SearchIs
<1>2. Search(all, "comp", comp) = b
  BY FoundAgain
<1>3. N \in Nat /\ i \in 1 .. N /\ i - 1 \in 0 .. N
  BY FileIs DEF Accepted
<1>4. Known(Parse(blocks, i - 1), blocks[i])
  BY DEF Accepted, Taken
<1>5. Named(Parse(blocks, i - 1), "iface", b.iface)
  BY <1>1, <1>4 DEF Known
<1>6. PICK x \in Accepted(blocks) :
          /\ x <= i - 1 /\ blocks[x].kind = "iface" /\ blocks[x].name = b.iface
          /\ Entry(blocks, x) = blocks[x]
  BY <1>3, <1>5, SearchIs
<1>7. x <= n /\ x \in 1 .. N
  BY <1>1, <1>3, <1>6 DEF Accepted
<1>8. PICK p \in DOMAIN list : list[p] = blocks[x]
  <2>1. \A j \in Accepted(blocks) :
            j <= n => \E p \in DOMAIN list : list[p] = Entry(blocks, j)
    BY <1>3, PrefixIs
  <2> QED
    BY <1>6, <1>7, <2>1
<1>9. Named(list, "iface", b.iface)
  BY <1>6, <1>8 DEF Named, Places
<1>10. Search(all, "iface", b.iface) = Search(list, "iface", b.iface)
  BY <1>9, FoundAgain
<1> QED
  BY <1>2, <1>10 DEF Members

\* Where an assignment that is kept leads.
LEMMA LedSomewhere ==
    ASSUME NEW f, FileOK(f.blocks), conf = Loaded(f)
    PROVE  AssignmentsLead
<1> DEFINE blocks == f.blocks
           N == Len(blocks)
           all == Parse(blocks, N)
<1>1. N \in Nat /\ N \in 0 .. N /\ \A i \in Accepted(blocks) : i \in 1 .. N /\ IsBlock(blocks[i])
  BY FileIs DEF Accepted
<1>2. /\ conf.dmaps = GetAll(all, "dmap")
      /\ conf.members = [c \in {all[i].name : i \in {j \in DOMAIN all : all[j].kind = "comp"}} |->
                            Members(all, c)]
      /\ conf.paths = UNION {all[i].paths : i \in {j \in DOMAIN all : all[j].kind = "dom"}}
  BY DEF Loaded
<1> SUFFICES ASSUME NEW i \in DOMAIN conf.dmaps
             PROVE  LET comp == conf.dmaps[i].obj[1][2]
                        var  == conf.dmaps[i].obj[2][2]
                    IN  /\ comp \in DOMAIN conf.members /\ var \in conf.members[comp]
                        /\ conf.dmaps[i].dom \in conf.paths
  BY DEF AssignmentsLead
<1>3. PICK at : TableAt(blocks, "dmap", at)
  BY TableIs
<1>4. i \in 1 .. Len(GetAll(all, "dmap"))
  BY <1>2, TableIs
<1> DEFINE d == blocks[at[i]]
           list == Parse(blocks, at[i] - 1)
           comp == d.obj[1][2]
<1>5. at[i] \in Accepted(blocks) /\ d.kind = "dmap" /\ conf.dmaps[i] = Entry(blocks, at[i])
  BY <1>2, <1>3, <1>4 DEF TableAt
<1>6. at[i] \in 1 .. N /\ at[i] - 1 \in 0 .. N /\ IsBlock(d)
  BY <1>1, <1>5
<1>7. conf.dmaps[i] = d
  BY <1>5, <1>6, EntryIs
<1>8. Len(d.obj) = 2
  BY <1>5, <1>6, FileIs DEF WellMade
<1>9. Known(list, d)
  BY <1>5 DEF Accepted, Taken
<1> HIDE DEF d, list, blocks, all
<1>10. /\ FindDom(list, d.dom)
       /\ FindComp(list, d.obj) \/ FindVar(list, d.obj)
  BY <1>5, <1>9 DEF Known
<1>11. Named(list, "comp", comp) /\ d.obj[2][2] \in Members(list, comp)
  BY <1>8, <1>10 DEF FindComp, FindVar
<1>12. Named(all, "comp", comp) /\ Members(all, comp) = Members(list, comp)
  BY <1>6, <1>11, FoundAgain, MembersAgain DEF list, all, blocks
<1>13. comp \in DOMAIN conf.members /\ conf.members[comp] = Members(all, comp)
  BY <1>2, <1>12 DEF Named, Places
<1>14. d.dom \in conf.paths
  <2>1. Named(list, "dom", d.dom[1]) /\ d.dom \in Search(list, "dom", d.dom[1]).paths
    BY <1>10 DEF FindDom
  <2>2. PICK x \in Accepted(blocks) :
            /\ blocks[x].kind = "dom" /\ Entry(blocks, x) = blocks[x]
            /\ Search(list, "dom", d.dom[1]) = blocks[x]
    BY <1>6, <2>1, SearchIs DEF list, blocks
  <2>3. x <= N
    BY <1>1
  <2>4. PICK p \in DOMAIN all : all[p] = blocks[x]
    BY <1>1, <2>2, <2>3, PrefixIs DEF all
  <2>5. all[p].kind = "dom" /\ d.dom \in all[p].paths
    BY <2>1, <2>2, <2>4
  <2> QED
    BY <1>2, <2>5
<1> QED
  BY <1>7, <1>11, <1>12, <1>13, <1>14

-----------------------------------------------------------------------------
(***************************************************************************)
(* Patterns, and what is resolved with them.                               *)
(***************************************************************************)

LEMMA TokenIs ==
    ASSUME NEW t \in Token
    PROVE  /\ t[1] \in {"id", "num", "var", "expr"}
           /\ Literal(t) => t \in Concrete
           /\ t[1] = "expr" => t[3] \in Int
           /\ t[1] = "num" => t[2] \in Int
BY DEF Token, Concrete, Literal

LEMMA ConcreteIs ==
    ASSUME NEW t \in Concrete
    PROVE  t \in Token /\ Literal(t) /\ t[1] \in {"id", "num"} /\ ValueOf(t) \in Int
BY DEF Token, Concrete, Literal, ValueOf

\* atoi gives a number, whatever it reads.
LEMMA ValueIs == \A t \in Token : ValueOf(t) \in Int
<1> SUFFICES ASSUME NEW t \in Token, t[1] = "num" PROVE t[2] \in Int
  BY DEF ValueOf
<1>1. t \in {"num"} \X Int
  BY DEF Token, Concrete
<1> QED
  BY <1>1

LEMMA NumIs == \A n \in Int : Num(n) \in Concrete
BY DEF Num, Concrete

\* Where a pattern's variables are.
LEMMA LocsIs ==
    ASSUME NEW p \in Seq(Token)
    PROVE  /\ LocsOf(p) \in Seq(1 .. Len(p)) /\ Len(LocsOf(p)) \in Nat
           /\ DOMAIN LocsOf(p) = 1 .. Len(LocsOf(p))
           /\ \A j \in 1 .. Len(LocsOf(p)) :
                  LocsOf(p)[j] \in 1 .. Len(p) /\ p[LocsOf(p)[j]][1] = "var"
           /\ \A j, k \in 1 .. Len(LocsOf(p)) : j < k => LocsOf(p)[j] < LocsOf(p)[k]
           /\ \A i \in 1 .. Len(p) :
                  p[i][1] = "var" => \E j \in 1 .. Len(LocsOf(p)) : LocsOf(p)[j] = i
<1> DEFINE S == {i \in DOMAIN p : p[i][1] = "var"}
           locs == LocsOf(p)
<1>1. Len(p) \in Nat /\ DOMAIN p = 1 .. Len(p)
  BY LenProperties
<1>2. IsAscending(locs, S, Len(p))
  BY <1>1, AscendingIs DEF LocsOf
<1> HIDE DEF locs
<1>3. /\ locs \in Seq(1 .. Len(p)) /\ \A j \in 1 .. Len(locs) : locs[j] \in S
      /\ \A j, k \in 1 .. Len(locs) : j < k => locs[j] < locs[k]
      /\ \A i \in 1 .. Len(p) : i \in S => \E j \in 1 .. Len(locs) : locs[j] = i
  BY <1>2 DEF IsAscending
<1>4. Len(locs) \in Nat /\ DOMAIN locs = 1 .. Len(locs)
  BY <1>3, LenProperties
<1> QED
  BY <1>1, <1>3, <1>4 DEF locs

\* Which they are.
LEMMA VarsIs ==
    ASSUME NEW p \in Seq(Token)
    PROVE  /\ VarsOf(p) = [j \in 1 .. Len(LocsOf(p)) |-> p[LocsOf(p)[j]][2]]
           /\ DOMAIN VarsOf(p) = 1 .. Len(LocsOf(p)) /\ Len(VarsOf(p)) = Len(LocsOf(p))
<1>1. DOMAIN LocsOf(p) = 1 .. Len(LocsOf(p)) /\ Len(LocsOf(p)) \in Nat
  BY LocsIs
<1>2. VarsOf(p) = [j \in 1 .. Len(LocsOf(p)) |-> p[LocsOf(p)[j]][2]]
  BY <1>1 DEF VarsOf
<1> HIDE DEF VarsOf
<1> QED
  BY <1>1, <1>2

\* The values of a name at a pattern's variables.
LEMMA ValuesIs ==
    ASSUME NEW p \in Seq(Token), NEW name \in Seq(Concrete), Len(name) = Len(p)
    PROVE  /\ ValuesAt(name, LocsOf(p)) \in Seq(Int)
           /\ DOMAIN ValuesAt(name, LocsOf(p)) = 1 .. Len(LocsOf(p))
           /\ \A j \in 1 .. Len(LocsOf(p)) :
                  ValuesAt(name, LocsOf(p))[j] = ValueOf(name[LocsOf(p)[j]])
<1> DEFINE locs == LocsOf(p)
           vals == ValuesAt(name, locs)
<1>1. /\ DOMAIN locs = 1 .. Len(locs) /\ Len(locs) \in Nat
      /\ \A j \in 1 .. Len(locs) : locs[j] \in 1 .. Len(name)
  BY LocsIs
<1>2. vals = [j \in 1 .. Len(locs) |-> ValueOf(name[locs[j]])]
  BY <1>1 DEF ValuesAt
<1> HIDE DEF vals, locs
<1>3. \A i \in 1 .. Len(name) : name[i] \in Concrete
  BY LenProperties
<1>4. \A j \in 1 .. Len(locs) : ValueOf(name[locs[j]]) \in Int
  BY <1>1, <1>3, ConcreteIs
<1>5. vals \in Seq(Int)
  BY <1>1, <1>2, <1>4, IsASeq
<1> QED
  BY <1>2, <1>5 DEF vals, locs

\* resolve_obj makes a concrete name of a pattern whose variables have values:
\* its identifiers and numbers stay, the rest become numbers.
LEMMA ResolveIs ==
    ASSUME NEW p \in Seq(Token), NEW by \in Seq(Token), Mentioned(p) \subseteq RangeOf(VarsOf(by)),
           NEW vals \in Seq(Int), DOMAIN vals = 1 .. Len(LocsOf(by))
    PROVE  LET obj == ResolveObj(p, VarsOf(by), vals)
           IN  /\ obj \in Seq(Concrete) /\ Len(obj) = Len(p)
               /\ \A i \in 1 .. Len(p) :
                      IF Literal(p[i]) THEN obj[i] = p[i] ELSE obj[i][1] = "num"
<1> DEFINE vs == VarsOf(by)
           obj == ResolveObj(p, vs, vals)
<1>1. /\ Len(p) \in Nat /\ DOMAIN p = 1 .. Len(p)
      /\ \A i \in 1 .. Len(p) : p[i] \in Token
  BY LenProperties
<1>2. DOMAIN vs = 1 .. Len(LocsOf(by))
  BY VarsIs
<1>3. \A j \in DOMAIN vs : j \in Nat /\ vals[j] \in Int
  BY <1>2, LenProperties
<1>4. ASSUME NEW v \in RangeOf(vs) PROVE Mapped(vs, vals, v) \in Int
  <2> DEFINE S == {j \in DOMAIN vs : vs[j] = v}
  <2>1. S \subseteq Nat /\ S # {}
    BY <1>3, <1>4 DEF RangeOf
  <2>2. FirstOf(S) \in S
    BY <2>1, FirstIs
  <2> HIDE DEF vs
  <2> QED
    BY <1>3, <2>2 DEF Mapped, IndexOf
<1> HIDE DEF vs
<1>5. obj = [i \in 1 .. Len(p) |->
                IF Literal(p[i]) THEN p[i]
                ELSE IF p[i][1] = "var" THEN Num(Mapped(vs, vals, p[i][2]))
                ELSE Num(PqxVal(vs, vals, p[i]))]
  BY <1>1 DEF ResolveObj
<1> HIDE DEF obj
<1>6. ASSUME NEW i \in 1 .. Len(p)
      PROVE  obj[i] \in Concrete /\ IF Literal(p[i]) THEN obj[i] = p[i] ELSE obj[i][1] = "num"
  <2>1. CASE Literal(p[i])
    BY <1>1, <1>5, <2>1, TokenIs
  <2>2. CASE ~Literal(p[i])
    <3>1. p[i][2] \in Mentioned(p)
      BY <1>1, <2>2 DEF Mentioned
    <3>2. Mapped(vs, vals, p[i][2]) \in Int
      BY <1>4, <3>1 DEF vs
    <3>3. p[i][1] \in {"var", "expr"} /\ (p[i][1] = "expr" => p[i][3] \in Int)
      BY <1>1, <2>2, TokenIs DEF Literal
    <3>4. PICK n \in Int : obj[i] = Num(n)
      BY <1>5, <2>2, <3>2, <3>3 DEF PqxVal
    <3> QED
      BY <2>2, <3>4, NumIs DEF Num
  <2> QED
    BY <2>1, <2>2
<1>7. obj \in Seq(Concrete) /\ Len(obj) = Len(p)
  <2>1. obj = [i \in 1 .. Len(p) |-> obj[i]] /\ \A i \in 1 .. Len(p) : obj[i] \in Concrete
    BY <1>5, <1>6
  <2> QED
    BY <1>1, <2>1, IsASeq, LenProperties
<1> QED
  BY <1>6, <1>7 DEF obj, vs

-----------------------------------------------------------------------------
(***************************************************************************)
(* Types: names that are scheduled are concrete, and an entry is the one   *)
(* its names are found under.                                              *)
(***************************************************************************)

\* Patterns that can be resolved with the variables of another.
Resolvable(by) == {p \in Seq(Token) : Mentioned(p) \subseteq RangeOf(VarsOf(by))}

\* The rules of the tables.
LEMMA RulesAre ==
    ASSUME NEW f, FileOK(f.blocks), conf = Loaded(f)
    PROVE  /\ Len(conf.tgts) \in Nat /\ DOMAIN conf.tgts = 1 .. Len(conf.tgts)
           /\ Len(conf.tprules) \in Nat /\ DOMAIN conf.tprules = 1 .. Len(conf.tprules)
           /\ \A n \in DOMAIN conf.tgts :
                  /\ conf.tgts[n].name \in Seq(Token)
                  /\ conf.tgts[n].deps \in Seq(Resolvable(conf.tgts[n].name))
           /\ \A n \in DOMAIN conf.tprules :
                  /\ conf.tprules[n].rule \in Seq(Token)
                  /\ conf.tprules[n].tgts \in Seq(Resolvable(conf.tprules[n].rule))
<1> DEFINE blocks == f.blocks
           all == Parse(blocks, Len(blocks))
<1>1. conf.tgts = GetAll(all, "tgtrule") /\ conf.tprules = GetAll(all, "tprule")
  BY DEF Loaded
<1>2. PICK at : TableAt(blocks, "tgtrule", at)
  BY TableIs
<1>3. PICK to : TableAt(blocks, "tprule", to)
  BY TableIs
<1>4. /\ Len(conf.tgts) \in Nat /\ DOMAIN conf.tgts = 1 .. Len(conf.tgts)
      /\ Len(conf.tprules) \in Nat /\ DOMAIN conf.tprules = 1 .. Len(conf.tprules)
  BY <1>1, TableIs
<1>5. \A i \in Accepted(blocks) :
          IsBlock(blocks[i]) /\ WellMade(blocks[i], Parse(blocks, i - 1))
  BY FileIs DEF Accepted
<1>6. ASSUME NEW n \in DOMAIN conf.tgts
      PROVE  conf.tgts[n].name \in Seq(Token) /\ conf.tgts[n].deps \in Seq(Resolvable(conf.tgts[n].name))
  <2> DEFINE b == blocks[at[n]]
  <2>1. at[n] \in Accepted(blocks) /\ b.kind = "tgtrule" /\ conf.tgts[n] = Entry(blocks, at[n])
    BY <1>1, <1>2, <1>4 DEF TableAt
  <2>2. IsBlock(b) /\ WellMade(b, Parse(blocks, at[n] - 1))
    BY <1>5, <2>1
  <2>3. conf.tgts[n] = b
    BY <2>1, <2>2, EntryIs
  <2> HIDE DEF b
  <2>4. b \in [kind : {"tgtrule"}, name : Seq(Token), deps : Seq(Seq(Token))]
    BY <2>1, <2>2, BlockIs
  <2>5. \A d \in DOMAIN b.deps : Mentioned(b.deps[d]) \subseteq RangeOf(VarsOf(b.name))
    BY <2>1, <2>2 DEF WellMade
  <2>6. b.name \in Seq(Token) /\ b.deps \in Seq(Seq(Token))
    BY <2>4
  <2>7. /\ Len(b.deps) \in Nat /\ DOMAIN b.deps = 1 .. Len(b.deps)
        /\ b.deps = [d \in 1 .. Len(b.deps) |-> b.deps[d]]
        /\ \A d \in 1 .. Len(b.deps) : b.deps[d] \in Seq(Token)
    BY <2>6, LenProperties
  <2>8. \A d \in 1 .. Len(b.deps) : b.deps[d] \in Resolvable(b.name)
    BY <2>5, <2>7 DEF Resolvable
  <2>9. b.deps \in Seq(Resolvable(b.name))
    BY <2>7, <2>8, IsASeq
  <2> QED
    BY <2>3, <2>6, <2>9
<1>7. ASSUME NEW n \in DOMAIN conf.tprules
      PROVE  conf.tprules[n].rule \in Seq(Token) /\ conf.tprules[n].tgts \in Seq(Resolvable(conf.tprules[n].rule))
  <2> DEFINE b == blocks[to[n]]
             list == Parse(blocks, to[n] - 1)
             S == {j \in DOMAIN b.tgts : CheckUnity(list, b.tgts[j])}
             r == conf.tprules[n]
  <2>1. to[n] \in Accepted(blocks) /\ b.kind = "tprule" /\ r = Entry(blocks, to[n])
    BY <1>1, <1>3, <1>4 DEF TableAt
  <2>2. IsBlock(b) /\ WellMade(b, list)
    BY <1>5, <2>1
  <2>3. r.rule = b.rule /\ r.tgts = Selection(b.tgts, S)
    BY <2>1, <2>2, KeptIs DEF Entry
  <2> HIDE DEF b, list, r
  <2>4. b \in [kind : {"tprule"}, comp : STRING, rule : Seq(Token), tgts : Seq(Seq(Token))]
    BY <2>1, <2>2, BlockIs
  <2>5. \A j \in DOMAIN b.tgts : Mentioned(b.tgts[j]) \subseteq RangeOf(VarsOf(b.rule))
    BY <2>1, <2>2 DEF WellMade
  <2>6. b.rule \in Seq(Token) /\ b.tgts \in Seq(Seq(Token))
    BY <2>4
  <2>7. /\ Len(b.tgts) \in Nat /\ DOMAIN b.tgts = 1 .. Len(b.tgts)
        /\ b.tgts = [d \in 1 .. Len(b.tgts) |-> b.tgts[d]]
        /\ \A d \in 1 .. Len(b.tgts) : b.tgts[d] \in Seq(Token)
    BY <2>6, LenProperties
  <2>8. \A d \in 1 .. Len(b.tgts) : b.tgts[d] \in Resolvable(b.rule)
    BY <2>5, <2>7 DEF Resolvable
  <2>9. b.tgts \in Seq(Resolvable(b.rule))
    BY <2>7, <2>8, IsASeq
  <2> HIDE DEF S
  <2>10. Selection(b.tgts, S) \in Seq(Resolvable(b.rule))
    BY <2>9, SelectionIs
  <2> QED
    BY <2>3, <2>6, <2>10 DEF r
<1> QED
  BY <1>4, <1>6, <1>7

\* The targets of a touchpoint and the dependencies of an entry are concrete.
LEMMA ResolvedAre ==
    ASSUME NEW by \in Seq(Token), NEW patterns \in Seq(Resolvable(by)),
           NEW vals \in Seq(Int), DOMAIN vals = 1 .. Len(LocsOf(by))
    PROVE  [j \in DOMAIN patterns |-> ResolveObj(patterns[j], VarsOf(by), vals)]
               \in Seq(Seq(Concrete))
<1>1. /\ Len(patterns) \in Nat /\ DOMAIN patterns = 1 .. Len(patterns)
      /\ \A j \in 1 .. Len(patterns) : patterns[j] \in Resolvable(by)
  BY LenProperties
<1>2. ASSUME NEW j \in 1 .. Len(patterns)
      PROVE  ResolveObj(patterns[j], VarsOf(by), vals) \in Seq(Concrete)
  <2>1. patterns[j] \in Seq(Token) /\ Mentioned(patterns[j]) \subseteq RangeOf(VarsOf(by))
    BY <1>1 DEF Resolvable
  <2> QED
    BY <2>1, ResolveIs
<1> QED
  BY <1>1, <1>2, IsASeq

\* A name that some rule matches has an entry.
LEMMA EntryFound ==
    ASSUME NEW f, FileOK(f.blocks), conf = Loaded(f),
           NEW obj \in Seq(Concrete), Matches(conf.tgts, obj) # {}
    PROVE  LET e == EntryOf(conf.tgts, obj)
               r == conf.tgts[e.rule]
           IN  /\ e = [rule |-> e.rule, vals |-> e.vals]
               /\ e.rule \in DOMAIN conf.tgts /\ e.rule = FirstOf(Matches(conf.tgts, obj))
               /\ MatchTargetRule(obj, r)
               /\ \A n \in DOMAIN conf.tgts : MatchTargetRule(obj, conf.tgts[n]) => e.rule <= n
               /\ e.vals = ValuesAt(obj, LocsOf(r.name))
               /\ e.vals \in Seq(Int) /\ DOMAIN e.vals = 1 .. Len(LocsOf(r.name))
               /\ DepsOf(conf.tgts, e) \in Seq(Seq(Concrete))
<1> DEFINE n == FirstOf(Matches(conf.tgts, obj))
           r == conf.tgts[n]
           v == ValuesAt(obj, LocsOf(r.name))
           e == EntryOf(conf.tgts, obj)
<1>1. Matches(conf.tgts, obj) \subseteq DOMAIN conf.tgts /\ DOMAIN conf.tgts \subseteq Nat
  BY RulesAre DEF Matches
<1>2. n \in Matches(conf.tgts, obj) /\ \A m \in Matches(conf.tgts, obj) : n <= m
  BY <1>1, FirstIs
<1>3. e = [rule |-> n, vals |-> v]
  BY DEF EntryOf, FindTargetRule
<1> HIDE DEF n, v, e
<1>4. e.rule = n /\ e.vals = v
  BY <1>3
<1>5. n \in DOMAIN conf.tgts /\ MatchTargetRule(obj, r)
  BY <1>2 DEF Matches
<1>6. r.name \in Seq(Token) /\ r.deps \in Seq(Resolvable(r.name)) /\ Len(r.name) = Len(obj)
  BY <1>5, RulesAre DEF MatchTargetRule
<1> HIDE DEF r
<1>7. v = ValuesAt(obj, LocsOf(r.name))
  BY DEF v, r
<1>8. v \in Seq(Int) /\ DOMAIN v = 1 .. Len(LocsOf(r.name))
  BY <1>6, <1>7, ValuesIs
<1>9. DepsOf(conf.tgts, e) \in Seq(Seq(Concrete))
  BY <1>4, <1>6, <1>8, ResolvedAre DEF DepsOf, r
<1>10. \A m \in DOMAIN conf.tgts : MatchTargetRule(obj, conf.tgts[m]) => n <= m
  BY <1>2 DEF Matches
<1>11. r = conf.tgts[e.rule]
  BY <1>4 DEF r
<1>12. e = [rule |-> e.rule, vals |-> e.vals] /\ e.rule = FirstOf(Matches(conf.tgts, obj))
  BY <1>3, <1>4 DEF n
<1> QED
  BY <1>4, <1>5, <1>7, <1>8, <1>9, <1>10, <1>11, <1>12 DEF e

-----------------------------------------------------------------------------
(***************************************************************************)
(* The tables do not change.                                               *)
(***************************************************************************)

FromFile == \E f \in DOMAIN Files : file = Files[f] /\ conf = Loaded(Files[f])

\* The file and its tables stay those the components were started with.
LEMMA AlwaysFromFile == Spec => []FromFile
<1>1. Init => FromFile
  BY DEF Init, FromFile
<1>2. FromFile /\ [Next]_vars => FromFile'
  BY DEF Next, BeneshTpoint, TpointWatch, ScheduleTarget, vars, FromFile
<1> QED
  BY <1>1, <1>2, PTL DEF Spec

\* Whatever the file declares, in whichever order: each assignment of a domain
\* that the parser keeps leads to a variable and a domain of the tables
\* (benesh_init_comps and benesh_init_doms follow no null pointer).
THEOREM AllAssignmentsLead == Spec => []AssignmentsLead
<1>1. FromFile => AssignmentsLead
  BY FilesOK, LedSomewhere DEF FromFile
<1> QED
  BY <1>1, AlwaysFromFile, PTL

-----------------------------------------------------------------------------
\* What a touchpoint is announced with.
Announced(msg) ==
    /\ msg.rule \in DOMAIN conf.tprules
    /\ msg.vals \in Seq(Int)
    /\ DOMAIN msg.vals = 1 .. Len(LocsOf(conf.tprules[msg.rule].rule))

\* An object is known by its entry.
Entered(e, obj) ==
    obj \in Seq(Concrete) /\ Matches(conf.tgts, obj) # {} /\ e = EntryOf(conf.tgts, obj)

Typed ==
    /\ FromFile
    /\ DOMAIN passed = DOMAIN conf.signals
    /\ \A c \in DOMAIN conf.signals :
          conf.signals[c] \in Seq(Seq(Concrete)) /\ passed[c] \in 0 .. Len(conf.signals[c])
    /\ \A msg \in told : Announced(msg)
    /\ todo \in Seq(Seq(Concrete))
    /\ \A e \in DOMAIN names : e.rule \in DOMAIN conf.tgts /\ \A obj \in names[e] : Entered(e, obj)

LEMMA TypedInit == Init => Typed
<1> SUFFICES ASSUME Init PROVE Typed
  OBVIOUS
<1>1. PICK f \in DOMAIN Files : file = Files[f] /\ conf = Loaded(Files[f])
  BY DEF Init
<1>2. FromFile
  BY <1>1 DEF FromFile
<1>3. conf.signals = Files[f].signals
  BY <1>1 DEF Loaded
<1>4. \A c \in DOMAIN conf.signals : conf.signals[c] \in Seq(Seq(Concrete)) /\ Len(conf.signals[c]) \in Nat
  BY <1>3, FilesOK, LenProperties
<1>5. DOMAIN passed = DOMAIN conf.signals /\ \A c \in DOMAIN conf.signals : passed[c] = 0
  BY DEF Init
<1>6. \A c \in DOMAIN conf.signals : passed[c] \in 0 .. Len(conf.signals[c])
  BY <1>4, <1>5
<1>7. told = {} /\ todo \in Seq(Seq(Concrete)) /\ DOMAIN names = {}
  BY EmptySeq DEF Init
<1> QED
  BY <1>2, <1>4, <1>5, <1>6, <1>7 DEF Typed

\* match_rule compares names of the same length only.
LEMMA MatchedLen ==
    \A r, c, name : MatchRule(r, c, name) => Len(r.rule) = Len(name)
BY DEF MatchRule

\* A touchpoint that a rule matches is announced with the first one.
LEMMA TpointTold ==
    ASSUME NEW f, FileOK(f.blocks), conf = Loaded(f), NEW c, NEW tpoint \in Seq(Concrete),
           NEW matched, matched = {n \in DOMAIN conf.tprules : MatchRule(conf.tprules[n], c, tpoint)},
           matched # {}
    PROVE  LET n == FirstOf(matched)
               r == conf.tprules[n]
           IN  /\ n \in matched /\ \A m \in matched : n <= m
               /\ Len(r.rule) = Len(tpoint)
               /\ Announced([rule |-> n, vals |-> ValuesAt(tpoint, LocsOf(r.rule))])
<1> DEFINE n == FirstOf(matched)
           r == conf.tprules[n]
           v == ValuesAt(tpoint, LocsOf(r.rule))
<1>1. matched \subseteq Nat
  BY RulesAre
<1>2. n \in matched /\ \A m \in matched : n <= m
  BY <1>1, FirstIs
<1>3. n \in DOMAIN conf.tprules /\ Len(r.rule) = Len(tpoint)
  <2>1. n \in DOMAIN conf.tprules /\ MatchRule(conf.tprules[n], c, tpoint)
    <3> HIDE DEF n
    <3>1. n \in {m \in DOMAIN conf.tprules : MatchRule(conf.tprules[m], c, tpoint)}
      BY <1>2
    <3> QED
      BY <3>1, Zenon
  <2> QED
    BY <2>1, MatchedLen
<1> HIDE DEF n
<1>4. r.rule \in Seq(Token)
  BY <1>3, RulesAre
<1> HIDE DEF r
<1>5. v \in Seq(Int) /\ DOMAIN v = 1 .. Len(LocsOf(r.rule))
  BY <1>3, <1>4, ValuesIs
<1> HIDE DEF v
<1>6. Announced([rule |-> n, vals |-> v])
  BY <1>3, <1>5 DEF Announced, r
<1> QED
  BY <1>2, <1>3, <1>6 DEF n, r, v

LEMMA TypedTpoint ==
    ASSUME Typed, NEW c \in DOMAIN conf.signals, BeneshTpoint(c)
    PROVE  Typed'
<1> DEFINE tpoint == conf.signals[c][passed[c] + 1]
           matched == {n \in DOMAIN conf.tprules : MatchRule(conf.tprules[n], c, tpoint)}
           msg == [rule |-> FirstOf(matched),
                   vals |-> ValuesAt(tpoint, LocsOf(conf.tprules[FirstOf(matched)].rule))]
<1>1. PICK f \in DOMAIN Files : file = Files[f] /\ conf = Loaded(Files[f])
  BY DEF Typed, FromFile
<1>2. FileOK(Files[f].blocks)
  BY FilesOK
<1>3. /\ passed[c] < Len(conf.signals[c]) /\ passed' = [passed EXCEPT ![c] = @ + 1]
      /\ UNCHANGED <<file, conf, todo, names>>
      /\ told' = IF matched = {} THEN told ELSE told \cup {msg}
  BY DEF BeneshTpoint
<1> HIDE DEF msg
<1>4. /\ DOMAIN passed = DOMAIN conf.signals
      /\ \A d \in DOMAIN conf.signals :
            /\ conf.signals[d] \in Seq(Seq(Concrete)) /\ passed[d] \in 0 .. Len(conf.signals[d])
            /\ Len(conf.signals[d]) \in Nat
  BY LenProperties DEF Typed
<1>5. DOMAIN passed' = DOMAIN conf.signals
  BY <1>3, <1>4
<1>6. \A d \in DOMAIN conf.signals : passed'[d] \in 0 .. Len(conf.signals[d])
  BY <1>3, <1>4
<1>7. tpoint \in Seq(Concrete)
  <2>1. passed[c] + 1 \in 1 .. Len(conf.signals[c])
    BY <1>3, <1>4
  <2> QED
    BY <1>4, <2>1, LenProperties
<1> HIDE DEF tpoint
<1>8. matched # {} => Announced(msg)
  BY <1>1, <1>2, <1>7, TpointTold DEF msg
<1> HIDE DEF matched
<1>9. \A m \in told' : Announced(m)
  BY <1>3, <1>8 DEF Typed
<1> QED
  BY <1>3, <1>4, <1>5, <1>6, <1>9 DEF Typed, FromFile, Announced, Entered

LEMMA TypedWatch ==
    ASSUME Typed, NEW msg \in told, TpointWatch(msg)
    PROVE  Typed'
<1>1. PICK f \in DOMAIN Files : file = Files[f] /\ conf = Loaded(Files[f])
  BY DEF Typed, FromFile
<1>2. FileOK(Files[f].blocks)
  BY FilesOK
<1> DEFINE r == conf.tprules[msg.rule]
<1>3. r.rule \in Seq(Token) /\ r.tgts \in Seq(Resolvable(r.rule))
  BY <1>1, <1>2, RulesAre DEF Typed, Announced
<1>4. msg.vals \in Seq(Int) /\ DOMAIN msg.vals = 1 .. Len(LocsOf(r.rule))
  BY DEF Typed, Announced
<1> HIDE DEF r
<1>5. TargetsOf(r, msg.vals) \in Seq(Seq(Concrete))
  BY <1>3, <1>4, ResolvedAre DEF TargetsOf
<1>6. todo' \in Seq(Seq(Concrete)) /\ told' \subseteq told /\ UNCHANGED <<file, conf, passed, names>>
  BY <1>5 DEF TpointWatch, r
<1> QED
  BY <1>6 DEF Typed, FromFile, Announced, Entered

LEMMA TypedSchedule ==
    ASSUME Typed, ScheduleTarget
    PROVE  Typed'
<1>1. PICK f \in DOMAIN Files : file = Files[f] /\ conf = Loaded(Files[f])
  BY DEF Typed, FromFile
<1>2. FileOK(Files[f].blocks)
  BY FilesOK
<1> DEFINE obj == Head(todo)
           e == EntryOf(conf.tgts, obj)
           deps == DepsOf(conf.tgts, e)
<1>3. todo \in Seq(Seq(Concrete)) /\ todo # <<>>
  BY DEF Typed, ScheduleTarget
<1>4. obj \in Seq(Concrete) /\ Tail(todo) \in Seq(Seq(Concrete))
  BY <1>3, HeadTailProperties
<1>5. Matches(conf.tgts, obj) # {}
  BY DEF ScheduleTarget
<1>6. UNCHANGED <<file, conf, passed, told>>
  BY DEF ScheduleTarget
<1>7. e.rule \in DOMAIN conf.tgts /\ deps \in Seq(Seq(Concrete)) /\ Entered(e, obj)
  <2> HIDE DEF obj
  <2> QED
    BY <1>1, <1>2, <1>4, <1>5, EntryFound DEF Entered
<1>8. \/ /\ e \in DOMAIN names
         /\ names' = [names EXCEPT ![e] = @ \cup {obj}] /\ todo' = Tail(todo)
      \/ /\ e \notin DOMAIN names
         /\ names' = [x \in DOMAIN names \cup {e} |-> IF x = e THEN {obj} ELSE names[x]]
         /\ todo' = deps \o Tail(todo)
  BY DEF ScheduleTarget
<1> HIDE DEF obj, e, deps
<1>9. todo' \in Seq(Seq(Concrete))
  <2>1. deps \o Tail(todo) \in Seq(Seq(Concrete))
    BY <1>4, <1>7, ConcatProperties
  <2> QED
    BY <1>4, <1>8, <2>1
<1>10. \A x \in DOMAIN names : x.rule \in DOMAIN conf.tgts /\ \A o \in names[x] : Entered(x, o)
  BY DEF Typed
<1>11. ASSUME NEW x \in DOMAIN names'
       PROVE  x.rule \in DOMAIN conf.tgts /\ \A o \in names'[x] : Entered(x, o)
  BY <1>7, <1>8, <1>10
<1> QED
  BY <1>6, <1>9, <1>11 DEF Typed, FromFile, Announced, Entered

LEMMA AlwaysTyped == Spec => []Typed
<1>1. ASSUME Typed, [Next]_vars PROVE Typed'
  <2>1. CASE UNCHANGED vars
    BY <1>1, <2>1 DEF vars, Typed, FromFile, Announced, Entered
  <2>2. ASSUME NEW c \in DOMAIN conf.signals, BeneshTpoint(c) PROVE Typed'
    BY <1>1, <2>2, TypedTpoint
  <2>3. ASSUME NEW msg \in told, TpointWatch(msg) PROVE Typed'
    BY <1>1, <2>3, TypedWatch
  <2>4. CASE ScheduleTarget
    BY <1>1, <2>4, TypedSchedule
  <2> QED
    BY <1>1, <2>1, <2>2, <2>3, <2>4 DEF Next
<1> QED
  BY <1>1, TypedInit, PTL DEF Spec

\* Types: each rule a message or an entry names exists, and what is scheduled
\* are concrete names, whatever they are resolved from (resolve_obj leaves no
\* variable without a value).
THEOREM TypeCorrect == Spec => []TypeOK
<1>1. ASSUME Typed PROVE TypeOK
  <2>1. ASSUME NEW obj \in RangeOf(todo), NEW i \in DOMAIN obj PROVE Literal(obj[i])
    <3>1. PICK j \in DOMAIN todo : obj = todo[j]
      BY <2>1 DEF RangeOf
    <3>2. obj \in Seq(Concrete)
      BY <1>1, <3>1, LenProperties DEF Typed
    <3>3. obj[i] \in Concrete
      BY <3>2, LenProperties
    <3> QED
      BY <3>3, ConcreteIs
  <2> QED
    BY <1>1, <2>1 DEF Typed, TypeOK, Announced
<1> QED
  BY <1>1, AlwaysTyped, PTL

-----------------------------------------------------------------------------
(***************************************************************************)
(* The order of the target rules.                                          *)
(***************************************************************************)

\* A pattern prints as long as it is, its identifiers and numbers as they are.
LEMMA PrintedIs ==
    ASSUME NEW p
    PROVE  DOMAIN Printed(p) = DOMAIN p /\ \A i \in DOMAIN p : Literal(p[i]) => Printed(p)[i] = p[i]
<1> DEFINE g == [i \in DOMAIN p |->
                    CASE p[i][1] = "var" -> Id(p[i][2])
                      [] p[i][1] = "expr" -> Id("")
                      [] OTHER -> p[i]]
<1>1. Printed(p) = g
  BY DEF Printed
<1>2. DOMAIN g = DOMAIN p
  BY Zenon
<1>3. ASSUME NEW i \in DOMAIN p, Literal(p[i]) PROVE g[i] = p[i]
  <2>1. p[i][1] # "var" /\ p[i][1] # "expr"
    BY <1>3 DEF Literal
  <2> QED
    BY <2>1
<1> HIDE DEF g
<1> QED
  BY <1>1, <1>2, <1>3

\* Patterns that print alike, and have their variables at the same places,
\* match the same names.
LEMMA AlikeCover ==
    ASSUME NEW p \in Seq(Token), NEW q \in Seq(Token), Printed(p) = Printed(q),
           \A k \in DOMAIN p : Literal(p[k]) <=> Literal(q[k]),
           NEW obj \in Seq(Concrete), Len(q) = Len(obj),
           \A i \in DOMAIN obj : Literal(q[i]) => q[i] = obj[i]
    PROVE  Len(p) = Len(obj) /\ \A i \in DOMAIN obj : Literal(p[i]) => p[i] = obj[i]
<1>1. /\ DOMAIN p = 1 .. Len(p) /\ DOMAIN q = 1 .. Len(q) /\ DOMAIN obj = 1 .. Len(obj)
      /\ Len(p) \in Nat /\ Len(q) \in Nat
  BY LenProperties
<1>2. Len(q) = Len(obj) /\ \A i \in DOMAIN obj : Literal(q[i]) => q[i] = obj[i]
  OBVIOUS
<1>3. Printed(p) = Printed(q) /\ \A k \in DOMAIN p : Literal(p[k]) <=> Literal(q[k])
  OBVIOUS
<1>4. DOMAIN p = DOMAIN q
  BY <1>3, PrintedIs, Zenon
<1>5. Len(p) = Len(q)
  <2>1. \A a, b \in Nat : 1 .. a = 1 .. b => a = b
    OBVIOUS
  <2>2. 1 .. Len(p) = 1 .. Len(q)
    BY <1>1, <1>4, Zenon
  <2> QED
    BY <1>1, <2>1, <2>2, Zenon
<1>6. ASSUME NEW i \in DOMAIN obj, Literal(p[i]) PROVE p[i] = obj[i]
  <2>1. i \in DOMAIN p /\ i \in DOMAIN q /\ Literal(q[i])
    BY <1>1, <1>2, <1>3, <1>5, <1>6
  <2>2. Printed(p)[i] = p[i] /\ Printed(q)[i] = q[i]
    BY <1>6, <2>1, PrintedIs, Zenon
  <2> QED
    BY <1>2, <1>3, <2>1, <2>2
<1> QED
  BY <1>2, <1>5, <1>6

LEMMA AlikeMatch ==
    ASSUME NEW r, NEW s, r.name \in Seq(Token), s.name \in Seq(Token),
           Printed(r.name) = Printed(s.name),
           \A k \in DOMAIN r.name : Literal(r.name[k]) <=> Literal(s.name[k]),
           NEW obj \in Seq(Concrete), MatchTargetRule(obj, s)
    PROVE  MatchTargetRule(obj, r)
BY AlikeCover DEF MatchTargetRule

LEMMA AlikeTouch ==
    ASSUME NEW r, NEW s, r.rule \in Seq(Token), s.rule \in Seq(Token), r.comp = s.comp,
           Printed(r.rule) = Printed(s.rule),
           \A k \in DOMAIN r.rule : Literal(r.rule[k]) <=> Literal(s.rule[k]),
           NEW c, NEW tpoint \in Seq(Concrete), MatchRule(s, c, tpoint)
    PROVE  MatchRule(r, c, tpoint)
<1> DEFINE p == r.rule
           q == s.rule
<1>1. Len(q) = Len(tpoint) /\ \A i \in DOMAIN tpoint : Literal(q[i]) => q[i] = tpoint[i]
  BY DEF MatchRule
<1>2. Len(p) = Len(tpoint) /\ \A i \in DOMAIN tpoint : Literal(p[i]) => p[i] = tpoint[i]
  BY <1>1, AlikeCover
<1> QED
  BY <1>2 DEF MatchRule

\* What the hypothesis says of target rules, and of touchpoint rules.
LEMMA ApartIs ==
    ASSUME PrintedApart, NEW f \in DOMAIN Files, NEW blocks, blocks = Files[f].blocks,
           NEW i \in DOMAIN blocks, NEW j \in DOMAIN blocks,
           blocks[i].kind = "tgtrule", blocks[j].kind = "tgtrule", Key(blocks[i]) = Key(blocks[j])
    PROVE  \A k \in DOMAIN blocks[i].name : Literal(blocks[i].name[k]) <=> Literal(blocks[j].name[k])
BY DEF PrintedApart

LEMMA ApartTouch ==
    ASSUME PrintedApart, NEW f \in DOMAIN Files, NEW blocks, blocks = Files[f].blocks,
           NEW i \in DOMAIN blocks, NEW j \in DOMAIN blocks,
           blocks[i].kind = "tprule", blocks[j].kind = "tprule", Key(blocks[i]) = Key(blocks[j])
    PROVE  \A k \in DOMAIN blocks[i].rule : Literal(blocks[i].rule[k]) <=> Literal(blocks[j].rule[k])
BY DEF PrintedApart

LEMMA FirstFound ==
    ASSUME PrintedApart, Typed
    PROVE  FirstWritten
<1>1. PICK f \in DOMAIN Files : file = Files[f] /\ conf = Loaded(file)
  BY DEF Typed, FromFile
<1> DEFINE blocks == file.blocks
           N == Len(blocks)
           written == {i \in DOMAIN blocks : blocks[i].kind = "tgtrule"}
           matching(obj) == {i \in written : MatchTargetRule(obj, blocks[i])}
<1>2. FileOK(blocks)
  BY <1>1, FilesOK
<1>3. /\ N \in Nat /\ DOMAIN blocks = 1 .. N
      /\ \A i \in 1 .. N : IsBlock(blocks[i])
  BY <1>2, FileIs
<1>4. \A i, j \in DOMAIN blocks :
          blocks[i].kind = "tgtrule" /\ blocks[j].kind = "tgtrule" /\ Key(blocks[i]) = Key(blocks[j]) =>
              \A k \in DOMAIN blocks[i].name : Literal(blocks[i].name[k]) <=> Literal(blocks[j].name[k])
  <2>1. blocks = Files[f].blocks
    BY <1>1
  <2> HIDE DEF blocks
  <2> QED
    BY <2>1, ApartIs
<1> SUFFICES ASSUME N \notin written, NEW e \in DOMAIN names, NEW obj \in names[e]
             PROVE  conf.tgts[e.rule] = blocks[FirstOf(matching(obj))]
  BY Zenon DEF FirstWritten
<1> DEFINE n == e.rule
           m == FirstOf(matching(obj))
<1>5. obj \in Seq(Concrete) /\ Matches(conf.tgts, obj) # {} /\ e = EntryOf(conf.tgts, obj)
  BY DEF Typed, Entered
<1>6. /\ n \in DOMAIN conf.tgts /\ MatchTargetRule(obj, conf.tgts[n])
      /\ \A j \in DOMAIN conf.tgts : MatchTargetRule(obj, conf.tgts[j]) => n <= j
  BY <1>1, <1>2, <1>5, EntryFound
<1>7. PICK at : TableAt(blocks, "tgtrule", at)
  BY <1>2, TableIs
<1>8. conf.tgts = GetAll(Parse(blocks, N), "tgtrule")
  BY <1>1 DEF Loaded
<1>9. Len(conf.tgts) \in Nat /\ DOMAIN conf.tgts = 1 .. Len(conf.tgts)
  BY <1>2, <1>8, TableIs
<1>10. ASSUME NEW j \in DOMAIN conf.tgts
       PROVE  at[j] \in Accepted(blocks) /\ at[j] \in written /\ conf.tgts[j] = blocks[at[j]]
  <2>1. at[j] \in Accepted(blocks) /\ blocks[at[j]].kind = "tgtrule" /\ conf.tgts[j] = Entry(blocks, at[j])
    BY <1>7, <1>8, <1>9 DEF TableAt
  <2>2. at[j] \in 1 .. N
    BY <2>1 DEF Accepted
  <2> QED
    BY <1>3, <2>1, <2>2, EntryIs
<1>11. at[n] \in matching(obj)
  BY <1>6, <1>10
<1>12. matching(obj) \subseteq Nat
  BY <1>3
<1>13. m \in matching(obj) /\ \A i \in matching(obj) : m <= i
  BY <1>11, <1>12, FirstIs
<1> HIDE DEF m, n
<1>14. m \in 1 .. N /\ blocks[m].kind = "tgtrule" /\ MatchTargetRule(obj, blocks[m]) /\ m <= at[n]
  BY <1>3, <1>11, <1>13
<1>15. CASE Taken(blocks, m)
  <2>1. m \in Accepted(blocks)
    BY <1>14, <1>15 DEF Accepted
  <2>2. PICK j \in DOMAIN conf.tgts : at[j] = m
    BY <1>7, <1>8, <1>9, <1>14, <2>1 DEF TableAt
  <2>3. n <= j
    BY <1>6, <1>10, <1>14, <2>2
  <2>4. ASSUME n < j PROVE FALSE
    <3>1. at[n] = N \/ at[n] < at[j]
      BY <1>6, <1>7, <1>8, <1>9, <2>4 DEF TableAt
    <3>2. at[n] # N /\ at[n] \in 1 .. N
      BY <1>3, <1>6, <1>10
    <3> QED
      BY <1>14, <2>2, <3>1, <3>2
  <2>5. n = j
    BY <1>6, <1>9, <2>3, <2>4
  <2> QED
    BY <1>6, <1>10, <2>2, <2>5 DEF m, n
<1>16. CASE ~Taken(blocks, m)
  <2> DEFINE list == Parse(blocks, m - 1)
             b == blocks[m]
  <2>1. Known(list, b)
    BY <1>14 DEF Known
  <2>2. PICK p \in DOMAIN list : list[p].kind = b.kind /\ Key(list[p]) = Key(b)
    BY <1>16, <2>1 DEF Taken, InList
  <2>3. m - 1 \in 0 .. N
    BY <1>14
  <2>4. PICK i \in Accepted(blocks) : i <= m - 1 /\ list[p] = Entry(blocks, i)
    BY <1>3, <2>3, PrefixIs
  <2>5. i \in 1 .. N
    BY DEF Accepted
  <2>6. blocks[i].kind = "tgtrule" /\ Key(blocks[i]) = Key(b)
    BY <1>3, <1>14, <2>2, <2>4, <2>5, EntryIs
  <2>7. Printed(blocks[i].name) = Printed(b.name)
    BY <1>14, <2>6 DEF Key
  <2>8. \A k \in DOMAIN blocks[i].name : Literal(blocks[i].name[k]) <=> Literal(b.name[k])
    BY <1>3, <1>4, <1>14, <2>5, <2>6
  <2>9. blocks[i].name \in Seq(Token) /\ b.name \in Seq(Token)
    BY <1>3, <1>14, <2>5, <2>6, BlockIs
  <2>10. MatchTargetRule(obj, blocks[i])
    BY <1>5, <1>14, <2>7, <2>8, <2>9, AlikeMatch
  <2>11. i \in matching(obj)
    BY <1>3, <2>5, <2>6, <2>10
  <2>12. m <= i
    BY <1>13, <2>11
  <2> QED
    BY <1>14, <2>4, <2>5, <2>12
<1> QED
  BY <1>15, <1>16 DEF m, n

\* For all files in which rules that print alike match the same names: a
\* target has the rule that is written first among those that match it,
\* whatever xc_in_list drops, unless the file ends with a target block.
THEOREM RulesInOrder ==
    ASSUME PrintedApart
    PROVE  Spec => []FirstWritten
<1>1. Typed => FirstWritten
  BY FirstFound
<1> QED
  BY <1>1, AlwaysTyped, PTL

-----------------------------------------------------------------------------
(***************************************************************************)
(* One name per entry: a name has its numbers where the patterns of its    *)
(* length have numbers or variables, so that nothing is lost in the values *)
(* it is kept under.                                                       *)
(***************************************************************************)

\* The patterns for names of objects in a file.
Patterns(blocks) == UNION {NamesOf(blocks[i]) : i \in DOMAIN blocks}

\* What a name resolved from a pattern looks like.
InstanceOf(p, obj) ==
    /\ Len(p) = Len(obj)
    /\ \A k \in DOMAIN p : IF Literal(p[k]) THEN obj[k] = p[k] ELSE obj[k][1] = "num"

Shaped(blocks) == {obj \in Seq(Concrete) : \E p \in Patterns(blocks) : InstanceOf(p, obj)}

\* All that the tables' rules have are patterns of the file.
LEMMA PatternsAre ==
    ASSUME NEW f, FileOK(f.blocks), conf = Loaded(f)
    PROVE  /\ \A n \in DOMAIN conf.tgts :
                  /\ conf.tgts[n].name \in Patterns(f.blocks)
                  /\ \A d \in DOMAIN conf.tgts[n].deps : conf.tgts[n].deps[d] \in Patterns(f.blocks)
                  /\ \E i \in DOMAIN f.blocks :
                        f.blocks[i].kind = "tgtrule" /\ conf.tgts[n] = f.blocks[i]
           /\ \A n \in DOMAIN conf.tprules : \A j \in DOMAIN conf.tprules[n].tgts :
                  /\ conf.tprules[n].tgts[j] \in Patterns(f.blocks)
                  /\ \E i \in DOMAIN f.blocks :
                        f.blocks[i].kind = "tprule" /\ conf.tprules[n].tgts[j] \in NamesOf(f.blocks[i])
<1> DEFINE blocks == f.blocks
           all == Parse(blocks, Len(blocks))
<1>1. conf.tgts = GetAll(all, "tgtrule") /\ conf.tprules = GetAll(all, "tprule")
  BY DEF Loaded
<1>2. PICK at : TableAt(blocks, "tgtrule", at)
  BY TableIs
<1>3. PICK to : TableAt(blocks, "tprule", to)
  BY TableIs
<1>4. DOMAIN conf.tgts = 1 .. Len(conf.tgts) /\ DOMAIN conf.tprules = 1 .. Len(conf.tprules)
  BY <1>1, TableIs
<1>5. \A i \in Accepted(blocks) : i \in DOMAIN blocks /\ IsBlock(blocks[i])
  BY FileIs DEF Accepted
<1>6. \A i \in DOMAIN blocks : NamesOf(blocks[i]) \subseteq Patterns(blocks)
  BY DEF Patterns
<1>7. ASSUME NEW n \in DOMAIN conf.tgts
      PROVE  /\ conf.tgts[n].name \in Patterns(blocks)
             /\ \A d \in DOMAIN conf.tgts[n].deps : conf.tgts[n].deps[d] \in Patterns(blocks)
             /\ \E i \in DOMAIN blocks : blocks[i].kind = "tgtrule" /\ conf.tgts[n] = blocks[i]
  <2> DEFINE b == blocks[at[n]]
  <2>1. at[n] \in Accepted(blocks) /\ b.kind = "tgtrule" /\ conf.tgts[n] = Entry(blocks, at[n])
    BY <1>1, <1>2, <1>4 DEF TableAt
  <2>2. conf.tgts[n] = b
    BY <1>5, <2>1, EntryIs
  <2>3. NamesOf(b) = {b.name} \cup RangeOf(b.deps)
    BY <2>1 DEF NamesOf
  <2>4. NamesOf(b) \subseteq Patterns(blocks) /\ at[n] \in DOMAIN blocks
    BY <1>5, <1>6, <2>1
  <2>5. \E i \in DOMAIN blocks : blocks[i].kind = "tgtrule" /\ conf.tgts[n] = blocks[i]
    BY <2>1, <2>2, <2>4
  <2> HIDE DEF b
  <2>6. b.name \in Patterns(blocks) /\ \A d \in DOMAIN b.deps : b.deps[d] \in Patterns(blocks)
    BY <2>3, <2>4 DEF RangeOf
  <2> QED
    BY <2>2, <2>5, <2>6
<1>8. ASSUME NEW n \in DOMAIN conf.tprules, NEW j \in DOMAIN conf.tprules[n].tgts
      PROVE  /\ conf.tprules[n].tgts[j] \in Patterns(blocks)
             /\ \E i \in DOMAIN blocks :
                   blocks[i].kind = "tprule" /\ conf.tprules[n].tgts[j] \in NamesOf(blocks[i])
  <2> DEFINE b == blocks[to[n]]
             list == Parse(blocks, to[n] - 1)
             S == {k \in DOMAIN b.tgts : CheckUnity(list, b.tgts[k])}
             r == conf.tprules[n]
  <2>1. to[n] \in Accepted(blocks) /\ b.kind = "tprule" /\ r = Entry(blocks, to[n])
    BY <1>1, <1>3, <1>4 DEF TableAt
  <2>2. r.tgts = Selection(b.tgts, S)
    BY <1>5, <2>1, KeptIs DEF Entry
  <2>3. b.tgts \in Seq(Seq(Token))
    BY <1>5, <2>1, BlockIs
  <2>4. NamesOf(b) = RangeOf(b.tgts)
    BY <2>1 DEF NamesOf
  <2>5. NamesOf(b) \subseteq Patterns(blocks)
    BY <1>5, <1>6, <2>1
  <2> HIDE DEF b, S
  <2>6. DOMAIN b.tgts = 1 .. Len(b.tgts)
    BY <2>3, LenProperties
  <2>7. \A k \in DOMAIN b.tgts : b.tgts[k] \in NamesOf(b)
    BY <2>4 DEF RangeOf
  <2> DEFINE up == Ascending(S, Len(b.tgts))
  <2>8. /\ \A k \in 1 .. Len(r.tgts) : up[k] \in 1 .. Len(b.tgts) /\ r.tgts[k] = b.tgts[up[k]]
        /\ r.tgts \in Seq(Seq(Token))
    <3> HIDE DEF r
    <3> QED
      BY <2>2, <2>3, SelectionIs
  <2> HIDE DEF r, up
  <2>9. DOMAIN r.tgts = 1 .. Len(r.tgts)
    BY <2>8, LenProperties
  <2>10. r.tgts[j] \in NamesOf(b)
    BY <2>6, <2>7, <2>8, <2>9 DEF r
  <2>11. to[n] \in DOMAIN blocks
    BY <1>5, <2>1
  <2> QED
    BY <2>1, <2>5, <2>10, <2>11 DEF r, b
<1> QED
  BY <1>7, <1>8

\* Patterns are names.
LEMMA PatternsTyped ==
    ASSUME NEW blocks, FileOK(blocks), NEW p \in Patterns(blocks)
    PROVE  p \in Seq(Token)
<1>1. PICK i \in DOMAIN blocks : p \in NamesOf(blocks[i])
  BY DEF Patterns
<1> DEFINE b == blocks[i]
<1>2. IsBlock(b) /\ p \in NamesOf(b)
  BY <1>1, FileIs
<1> HIDE DEF b
<1>3. CASE b.kind = "tgtrule"
  <2>1. b.name \in Seq(Token) /\ b.deps \in Seq(Seq(Token))
    BY <1>2, <1>3, BlockIs
  <2>2. p = b.name \/ \E d \in DOMAIN b.deps : p = b.deps[d]
    BY <1>2, <1>3 DEF NamesOf, RangeOf
  <2> QED
    BY <2>1, <2>2, LenProperties
<1>4. CASE b.kind = "tprule"
  <2>1. b.tgts \in Seq(Seq(Token))
    BY <1>2, <1>4, BlockIs
  <2>2. \E d \in DOMAIN b.tgts : p = b.tgts[d]
    BY <1>2, <1>4 DEF NamesOf, RangeOf
  <2> QED
    BY <2>1, <2>2, LenProperties
<1> QED
  BY <1>2, <1>3, <1>4 DEF NamesOf

\* A name has identifiers where its pattern has.
LEMMA SameIds ==
    ASSUME NEW p \in Seq(Token), NEW obj, InstanceOf(p, obj)
    PROVE  \A k \in DOMAIN p : p[k][1] = "id" <=> obj[k][1] = "id"
BY DEF InstanceOf, Literal

\* What the patterns of the tables are resolved to.
LEMMA ResolvedShape ==
    ASSUME NEW blocks, NEW by \in Seq(Token), NEW patterns \in Seq(Resolvable(by)),
           NEW vals \in Seq(Int), DOMAIN vals = 1 .. Len(LocsOf(by)),
           \A j \in DOMAIN patterns : patterns[j] \in Patterns(blocks)
    PROVE  [j \in DOMAIN patterns |-> ResolveObj(patterns[j], VarsOf(by), vals)]
               \in Seq(Shaped(blocks))
<1>1. /\ Len(patterns) \in Nat /\ DOMAIN patterns = 1 .. Len(patterns)
      /\ \A j \in 1 .. Len(patterns) : patterns[j] \in Resolvable(by)
  BY LenProperties
<1>2. ASSUME NEW j \in 1 .. Len(patterns)
      PROVE  ResolveObj(patterns[j], VarsOf(by), vals) \in Shaped(blocks)
  <2> DEFINE p == patterns[j]
             obj == ResolveObj(p, VarsOf(by), vals)
  <2>1. p \in Seq(Token) /\ Mentioned(p) \subseteq RangeOf(VarsOf(by)) /\ p \in Patterns(blocks)
    BY <1>1 DEF Resolvable
  <2> HIDE DEF p
  <2>2. /\ obj \in Seq(Concrete) /\ Len(obj) = Len(p)
        /\ \A i \in 1 .. Len(p) : IF Literal(p[i]) THEN obj[i] = p[i] ELSE obj[i][1] = "num"
    BY <2>1, ResolveIs
  <2> HIDE DEF obj
  <2>3. DOMAIN p = 1 .. Len(p)
    BY <2>1, LenProperties
  <2>4. InstanceOf(p, obj)
    BY <2>2, <2>3 DEF InstanceOf
  <2>5. obj \in Shaped(blocks)
    BY <2>1, <2>2, <2>4 DEF Shaped
  <2> QED
    BY <2>5 DEF obj, p
<1> QED
  BY <1>1, <1>2, IsASeq

\* A name in the database is not empty-handed, and has the shape of a pattern.
NamesShaped ==
    /\ Typed
    /\ todo \in Seq(Shaped(file.blocks))
    /\ \A e \in DOMAIN names : names[e] # {} /\ names[e] \subseteq Shaped(file.blocks)

LEMMA ShapedWatch ==
    ASSUME NamesShaped, NEW msg \in told, TpointWatch(msg)
    PROVE  todo' \in Seq(Shaped(file.blocks))
<1>1. PICK f \in DOMAIN Files : file = Files[f] /\ conf = Loaded(file)
  BY DEF NamesShaped, Typed, FromFile
<1>2. FileOK(file.blocks)
  BY <1>1, FilesOK
<1> DEFINE r == conf.tprules[msg.rule]
<1>3. msg.rule \in DOMAIN conf.tprules
  BY DEF NamesShaped, Typed, Announced
<1>4. r.rule \in Seq(Token) /\ r.tgts \in Seq(Resolvable(r.rule))
  BY <1>1, <1>2, <1>3, RulesAre
<1>5. msg.vals \in Seq(Int) /\ DOMAIN msg.vals = 1 .. Len(LocsOf(r.rule))
  BY DEF NamesShaped, Typed, Announced
<1>6. \A j \in DOMAIN r.tgts : r.tgts[j] \in Patterns(file.blocks)
  BY <1>1, <1>2, <1>3, PatternsAre
<1> HIDE DEF r
<1>7. TargetsOf(r, msg.vals) \in Seq(Shaped(file.blocks))
  BY <1>4, <1>5, <1>6, ResolvedShape DEF TargetsOf
<1> QED
  BY <1>7 DEF TpointWatch, r

LEMMA ShapedDeps ==
    ASSUME Typed, NEW obj \in Seq(Concrete), Matches(conf.tgts, obj) # {}
    PROVE  DepsOf(conf.tgts, EntryOf(conf.tgts, obj)) \in Seq(Shaped(file.blocks))
<1>1. PICK f \in DOMAIN Files : file = Files[f] /\ conf = Loaded(file)
  BY DEF Typed, FromFile
<1>2. FileOK(file.blocks)
  BY <1>1, FilesOK
<1> DEFINE e == EntryOf(conf.tgts, obj)
           r == conf.tgts[e.rule]
<1>3. e.rule \in DOMAIN conf.tgts /\ e.vals \in Seq(Int) /\ DOMAIN e.vals = 1 .. Len(LocsOf(r.name))
  BY <1>1, <1>2, EntryFound
<1> HIDE DEF e
<1>4. r.name \in Seq(Token) /\ r.deps \in Seq(Resolvable(r.name))
  BY <1>1, <1>2, <1>3, RulesAre
<1>5. \A j \in DOMAIN r.deps : r.deps[j] \in Patterns(file.blocks)
  BY <1>1, <1>2, <1>3, PatternsAre
<1> HIDE DEF r
<1>6. [d \in DOMAIN r.deps |-> ResolveObj(r.deps[d], VarsOf(r.name), e.vals)] \in Seq(Shaped(file.blocks))
  BY <1>3, <1>4, <1>5, ResolvedShape
<1>7. DepsOf(conf.tgts, e) \in Seq(Shaped(file.blocks))
  BY <1>6 DEF DepsOf, r
<1> QED
  BY <1>7 DEF e

LEMMA ShapedSchedule ==
    ASSUME NamesShaped, ScheduleTarget
    PROVE  NamesShaped'
<1> DEFINE obj == Head(todo)
           e == EntryOf(conf.tgts, obj)
           deps == DepsOf(conf.tgts, e)
           T == Shaped(file.blocks)
<1>1. Typed' /\ file' = file
  BY TypedSchedule DEF NamesShaped, ScheduleTarget
<1>2. todo \in Seq(T) /\ todo # <<>>
  BY DEF NamesShaped, ScheduleTarget
<1>3. obj \in T /\ obj \in Seq(Concrete) /\ Tail(todo) \in Seq(T)
  <2>1. obj \in T /\ Tail(todo) \in Seq(T)
    <3> HIDE DEF T
    <3> QED
      BY <1>2, HeadTailProperties
  <2> QED
    BY <2>1 DEF Shaped
<1>4. Matches(conf.tgts, obj) # {}
  BY DEF ScheduleTarget
<1>5. deps \in Seq(T)
  <2> HIDE DEF obj
  <2> QED
    BY <1>3, <1>4, ShapedDeps DEF NamesShaped
<1>6. \/ /\ e \in DOMAIN names
         /\ names' = [names EXCEPT ![e] = @ \cup {obj}] /\ todo' = Tail(todo)
      \/ /\ e \notin DOMAIN names
         /\ names' = [x \in DOMAIN names \cup {e} |-> IF x = e THEN {obj} ELSE names[x]]
         /\ todo' = deps \o Tail(todo)
  BY DEF ScheduleTarget
<1>7. \A x \in DOMAIN names : names[x] # {} /\ names[x] \subseteq T
  BY DEF NamesShaped
<1> HIDE DEF obj, e, deps, T
<1>8. todo' \in Seq(T)
  <2>1. deps \o Tail(todo) \in Seq(T)
    BY <1>3, <1>5, ConcatProperties
  <2> QED
    BY <1>3, <1>6, <2>1
<1>9. \A x \in DOMAIN names' : names'[x] # {} /\ names'[x] \subseteq T
  BY <1>3, <1>6, <1>7
<1> QED
  BY <1>1, <1>8, <1>9 DEF NamesShaped, T

LEMMA AlwaysShaped == Spec => []NamesShaped
<1>1. Init => NamesShaped
  <2>1. Init => todo \in Seq(Shaped(file.blocks)) /\ DOMAIN names = {}
    BY EmptySeq DEF Init
  <2> QED
    BY <2>1, TypedInit DEF NamesShaped
<1>2. ASSUME NamesShaped, [Next]_vars PROVE NamesShaped'
  <2>1. CASE UNCHANGED vars
    BY <1>2, <2>1 DEF vars, NamesShaped, Typed, FromFile, Announced, Entered
  <2>2. ASSUME NEW c \in DOMAIN conf.signals, BeneshTpoint(c) PROVE NamesShaped'
    <3>1. Typed'
      BY <1>2, <2>2, TypedTpoint DEF NamesShaped
    <3>2. UNCHANGED <<file, todo, names>>
      BY <2>2 DEF BeneshTpoint
    <3> QED
      BY <1>2, <3>1, <3>2 DEF NamesShaped
  <2>3. ASSUME NEW msg \in told, TpointWatch(msg) PROVE NamesShaped'
    <3>1. Typed' /\ todo' \in Seq(Shaped(file.blocks))
      BY <1>2, <2>3, TypedWatch, ShapedWatch DEF NamesShaped
    <3>2. UNCHANGED <<file, names>>
      BY <2>3 DEF TpointWatch
    <3> QED
      BY <1>2, <3>1, <3>2 DEF NamesShaped
  <2>4. CASE ScheduleTarget
    BY <1>2, <2>4, ShapedSchedule
  <2> QED
    BY <1>2, <2>1, <2>2, <2>3, <2>4 DEF Next
<1> QED
  BY <1>1, <1>2, PTL DEF Spec

\* What the hypothesis says of a name with the shape of a pattern.
LEMMA CoveredIs ==
    ASSUME NEW f, FileOK(f.blocks), conf = Loaded(f), Covering(f),
           NEW obj \in Shaped(f.blocks)
    PROVE  Matches(conf.tgts, obj) # {}
<1>1. PICK p \in Patterns(f.blocks) : InstanceOf(p, obj)
  BY DEF Shaped
<1>2. PICK i \in DOMAIN f.blocks : p \in NamesOf(f.blocks[i])
  BY DEF Patterns
<1> DEFINE q(n) == conf.tgts[n].name
<1>3. PICK n \in DOMAIN conf.tgts :
          Len(q(n)) = Len(p) /\ \A k \in DOMAIN q(n) : Literal(q(n)[k]) => q(n)[k] = p[k]
  BY <1>2 DEF Covering
<1> DEFINE name == q(n)
<1>4. Len(name) = Len(p) /\ \A k \in DOMAIN name : Literal(name[k]) => name[k] = p[k]
  BY <1>3
<1>5. name \in Seq(Token) /\ p \in Seq(Token) /\ obj \in Seq(Concrete)
  BY <1>3, RulesAre, PatternsTyped DEF Shaped
<1> HIDE DEF name
<1>6. DOMAIN name = 1 .. Len(name) /\ DOMAIN p = 1 .. Len(p) /\ DOMAIN obj = 1 .. Len(obj)
  BY <1>5, LenProperties
<1>7. Len(p) = Len(obj) /\ \A k \in DOMAIN p : Literal(p[k]) => obj[k] = p[k]
  BY <1>1 DEF InstanceOf
<1>8. Len(name) = Len(obj) /\ \A k \in DOMAIN obj : Literal(name[k]) => name[k] = obj[k]
  <2>1. ASSUME NEW k \in DOMAIN obj, Literal(name[k]) PROVE name[k] = obj[k]
    <3>1. k \in DOMAIN name /\ k \in DOMAIN p /\ name[k] = p[k]
      BY <1>4, <1>6, <1>7, <2>1
    <3>2. Literal(p[k])
      BY <2>1, <3>1, Zenon
    <3> QED
      BY <1>7, <3>1, <3>2, Zenon
  <2> QED
    BY <1>4, <1>7, <2>1
<1>9. MatchTargetRule(obj, conf.tgts[n])
  BY <1>8 DEF MatchTargetRule, name
<1> QED
  BY <1>9 DEF Matches

\* In a file whose rules cover its names, each name that is scheduled has a
\* rule: find_target_rule never returns NULL to schedule_target.
THEOREM CoveredMatch == Spec => [](Covering(file) => AllMatched)
<1>1. ASSUME NamesShaped, Covering(file) PROVE AllMatched
  <2>1. PICK f \in DOMAIN Files : file = Files[f] /\ conf = Loaded(file)
    BY <1>1 DEF NamesShaped, Typed, FromFile
  <2>2. FileOK(file.blocks)
    BY <2>1, FilesOK
  <2>3. ASSUME NEW s \in DOMAIN todo PROVE todo[s] \in Shaped(file.blocks)
    BY <1>1, LenProperties DEF NamesShaped
  <2>4. \A s \in DOMAIN todo : Matches(conf.tgts, todo[s]) # {}
    BY <1>1, <2>1, <2>2, <2>3, CoveredIs
  <2> QED
    BY <2>4 DEF AllMatched
<1>2. NamesShaped => (Covering(file) => AllMatched)
  BY <1>1
<1> QED
  BY <1>2, AlwaysShaped, PTL

\* What the hypothesis says of two patterns.
LEMMA NumbersOnlyIs ==
    ASSUME NumbersOnly, NEW f \in DOMAIN Files, NEW blocks, blocks = Files[f].blocks
    PROVE  \A p, q \in Patterns(blocks) :
               Len(p) = Len(q) => \A k \in DOMAIN p : p[k][1] = "id" <=> q[k][1] = "id"
<1>1. \A i, j \in DOMAIN blocks : \A p \in NamesOf(blocks[i]), q \in NamesOf(blocks[j]) :
          Len(p) = Len(q) => \A k \in DOMAIN p : p[k][1] = "id" <=> q[k][1] = "id"
  BY DEF NumbersOnly
<1> QED
  BY <1>1 DEF Patterns

\* Names of one entry are the same at each place.
LEMMA SamePlace ==
    ASSUME NEW P \in Seq(Token), NEW a \in Seq(Concrete), NEW b \in Seq(Concrete),
           Len(a) = Len(P), Len(b) = Len(P), NEW k \in 1 .. Len(P),
           Literal(P[k]) => P[k] = a[k] /\ P[k] = b[k],
           P[k][1] # "expr",
           P[k][1] # "id" => a[k][1] # "id" /\ b[k][1] # "id",
           ValuesAt(a, LocsOf(P)) = ValuesAt(b, LocsOf(P))
    PROVE  a[k] = b[k]
<1>1. P[k] \in Token /\ a[k] \in Concrete /\ b[k] \in Concrete
  BY LenProperties
<1>2. CASE Literal(P[k])
  BY <1>2
<1>3. CASE ~Literal(P[k])
  <2>1. P[k][1] = "var"
    BY <1>1, <1>3, TokenIs DEF Literal
  <2>2. PICK j \in 1 .. Len(LocsOf(P)) : LocsOf(P)[j] = k
    BY <2>1, LocsIs
  <2>3. ValueOf(a[k]) = ValueOf(b[k])
    BY <2>2, ValuesIs
  <2>4. a[k][1] = "num" /\ b[k][1] = "num"
    BY <1>1, <2>1, ConcreteIs
  <2>5. a[k] \in {"num"} \X Int /\ b[k] \in {"num"} \X Int
    BY <1>1, <2>4 DEF Concrete
  <2>6. a[k][2] = b[k][2]
    BY <2>3, <2>4 DEF ValueOf
  <2> QED
    BY <2>4, <2>5, <2>6
<1> QED
  BY <1>2, <1>3

\* A name has no identifier where the rule it is found under has none.
LEMMA NumbersStay ==
    ASSUME NumbersOnly, NEW f \in DOMAIN Files, NEW blocks, blocks = Files[f].blocks,
           FileOK(blocks), NEW P \in Patterns(blocks), NEW o \in Shaped(blocks), Len(P) = Len(o)
    PROVE  \A k \in 1 .. Len(P) : P[k][1] # "id" => o[k][1] # "id"
<1>1. PICK p \in Patterns(blocks) : InstanceOf(p, o)
  BY DEF Shaped
<1>2. p \in Seq(Token) /\ P \in Seq(Token)
  BY <1>1, PatternsTyped
<1>3. Len(p) = Len(o) /\ \A k \in DOMAIN p : p[k][1] = "id" <=> o[k][1] = "id"
  BY <1>1, <1>2, SameIds DEF InstanceOf
<1>4. \A k \in DOMAIN P : P[k][1] = "id" <=> p[k][1] = "id"
  BY <1>3, NumbersOnlyIs
<1>5. DOMAIN P = 1 .. Len(P) /\ DOMAIN p = 1 .. Len(P)
  BY <1>2, <1>3, LenProperties
<1> QED
  BY <1>3, <1>4, <1>5

LEMMA SameName ==
    ASSUME NumbersOnly, NamesShaped, NEW e \in DOMAIN names, NEW a \in names[e], NEW b \in names[e]
    PROVE  a = b
<1>1. PICK f \in DOMAIN Files : file = Files[f] /\ conf = Loaded(file)
  BY DEF NamesShaped, Typed, FromFile
<1> DEFINE blocks == file.blocks
           P == conf.tgts[e.rule].name
<1>2. FileOK(blocks) /\ blocks = Files[f].blocks
  BY <1>1, FilesOK
<1>3. \A o \in {a, b} : Entered(e, o) /\ o \in Shaped(blocks)
  BY DEF NamesShaped, Typed
<1>4. e.rule \in DOMAIN conf.tgts
  BY DEF NamesShaped, Typed
<1>5. /\ P \in Seq(Token) /\ P \in Patterns(blocks)
      /\ \E i \in DOMAIN blocks : blocks[i].kind = "tgtrule" /\ conf.tgts[e.rule] = blocks[i]
  BY <1>1, <1>2, <1>4, RulesAre, PatternsAre
<1>6. \A i \in DOMAIN blocks : blocks[i].kind = "tgtrule" =>
          \A k \in DOMAIN blocks[i].name : blocks[i].name[k][1] # "expr"
  <2> HIDE DEF blocks
  <2>1. ASSUME NEW i \in DOMAIN blocks, blocks[i].kind = "tgtrule"
        PROVE  NoExpression(blocks[i].name)
    BY <1>2, <2>1, FileIs DEF WellMade
  <2> QED
    BY <2>1 DEF NoExpression
<1>7. \A k \in DOMAIN P : P[k][1] # "expr"
  BY <1>5, <1>6
<1> HIDE DEF P, blocks
<1>8. ASSUME NEW o \in {a, b}
      PROVE  /\ o \in Seq(Concrete) /\ Len(o) = Len(P) /\ e.vals = ValuesAt(o, LocsOf(P))
             /\ \A k \in 1 .. Len(P) : Literal(P[k]) => P[k] = o[k]
             /\ \A k \in 1 .. Len(P) : P[k][1] # "id" => o[k][1] # "id"
  <2>1. o \in Seq(Concrete) /\ Matches(conf.tgts, o) # {} /\ e = EntryOf(conf.tgts, o)
    BY <1>3 DEF Entered
  <2>2. MatchTargetRule(o, conf.tgts[e.rule]) /\ e.vals = ValuesAt(o, LocsOf(P))
    BY <1>1, <1>2, <2>1, EntryFound DEF P, blocks
  <2>3. Len(P) = Len(o) /\ \A k \in DOMAIN o : Literal(P[k]) => P[k] = o[k]
    BY <2>2 DEF MatchTargetRule, P
  <2>4. DOMAIN o = 1 .. Len(o)
    BY <2>1, LenProperties
  <2>5. \A k \in 1 .. Len(P) : P[k][1] # "id" => o[k][1] # "id"
    BY <1>2, <1>3, <1>5, <2>3, NumbersStay
  <2> QED
    BY <2>1, <2>2, <2>3, <2>4, <2>5
<1>9. \A k \in 1 .. Len(P) : a[k] = b[k]
  BY <1>5, <1>7, <1>8, SamePlace, LenProperties
<1>10. a = [k \in 1 .. Len(P) |-> a[k]] /\ b = [k \in 1 .. Len(P) |-> b[k]]
  BY <1>8, LenProperties
<1> QED
  BY <1>9, <1>10

\* For all files in which variables stand for numbers only: names that differ
\* differ in their rule or in the values they are kept under, so that no two
\* objects share an entry of the database (get_object_entry).
THEOREM NamesKeptApart ==
    ASSUME NumbersOnly
    PROVE  Spec => []OneNamePerEntry
<1>1. ASSUME NamesShaped, NEW e \in DOMAIN names PROVE Cardinality(names[e]) = 1
  <2>1. names[e] # {} /\ \A a, b \in names[e] : a = b
    BY <1>1, SameName DEF NamesShaped
  <2>2. PICK o : names[e] = {o}
    BY <2>1
  <2> QED
    BY <2>2, FS_Singleton
<1>2. NamesShaped => OneNamePerEntry
  BY <1>1 DEF OneNamePerEntry
<1> QED
  BY <1>2, AlwaysShaped, PTL

-----------------------------------------------------------------------------
(***************************************************************************)
(* What becomes of a touchpoint: it is announced, its target waits to be   *)
(* scheduled, or it has been.                                              *)
(***************************************************************************)

WrittenFor(blocks, c, tpoint) ==
    {i \in DOMAIN blocks : blocks[i].kind = "tprule" /\ MatchRule(blocks[i], c, tpoint)}

ObjFor(blocks, c, tpoint) ==
    LET b == blocks[FirstOf(WrittenFor(blocks, c, tpoint))]
    IN  TargetsOf(b, ValuesAt(tpoint, LocsOf(b.rule)))[1]

MatchedFor(rules, c, tpoint) == {n \in DOMAIN rules : MatchRule(rules[n], c, tpoint)}

MessageFor(rules, c, tpoint) ==
    LET n == FirstOf(MatchedFor(rules, c, tpoint))
    IN  [rule |-> n, vals |-> ValuesAt(tpoint, LocsOf(rules[n].rule))]

UnderWay(c, tpoint) ==
    \/ MatchedFor(conf.tprules, c, tpoint) # {} /\ MessageFor(conf.tprules, c, tpoint) \in told
    \/ ObjFor(file.blocks, c, tpoint) \in RangeOf(todo) \cup UNION RangeOf(names)

Led ==
    /\ Typed
    /\ \A c \in DOMAIN conf.signals : \A n \in 1 .. passed[c] :
          WrittenFor(file.blocks, c, conf.signals[c][n]) # {} => UnderWay(c, conf.signals[c][n])

\* What the hypothesis says.
LEMMA ClearIs ==
    ASSUME TouchpointsClear, NEW f \in DOMAIN Files, NEW blocks, blocks = Files[f].blocks
    PROVE  /\ \A i \in DOMAIN blocks :
                  blocks[i].kind = "tprule" =>
                      Len(blocks[i].tgts) = 1 /\ CheckUnity(Parse(blocks, i - 1), blocks[i].tgts[1])
           /\ \A c \in DOMAIN Files[f].signals : \A n \in DOMAIN Files[f].signals[c] :
                  \A i, j \in WrittenFor(blocks, c, Files[f].signals[c][n]) : i = j
BY DEF TouchpointsClear, WrittenFor

\* The targets of a touchpoint rule that can be variables of what is before
\* it.
Possible(blocks, i) ==
    {j \in DOMAIN blocks[i].tgts : CheckUnity(Parse(blocks, i - 1), blocks[i].tgts[j])}

\* What is kept of a touchpoint rule.
LEMMA EntryRule ==
    ASSUME NEW blocks, NEW i, IsBlock(blocks[i]), blocks[i].kind = "tprule"
    PROVE  /\ Entry(blocks, i).comp = blocks[i].comp
           /\ Entry(blocks, i).rule = blocks[i].rule
           /\ Entry(blocks, i).tgts = Selection(blocks[i].tgts, Possible(blocks, i))
<1> DEFINE b == blocks[i]
           list == Parse(blocks, i - 1)
<1>1. IsBlock(b) /\ b.kind = "tprule"
  OBVIOUS
<1>2. Entry(blocks, i) = Kept(list, b)
  BY DEF Entry
<1> HIDE DEF b, list
<1>3. /\ Kept(list, b).comp = b.comp /\ Kept(list, b).rule = b.rule
      /\ Kept(list, b).tgts = Selection(b.tgts, {j \in DOMAIN b.tgts : CheckUnity(list, b.tgts[j])})
  BY <1>1, KeptIs, Zenon
<1> QED
  BY <1>2, <1>3, Zenon DEF b, list, Possible

\* The first target is kept if it can be a variable.
LEMMA FirstSelected ==
    ASSUME NEW T, NEW s \in Seq(T), NEW S, 1 \in S, 1 <= Len(s)
    PROVE  DOMAIN Selection(s, S) = 1 .. Len(Selection(s, S)) /\ 1 \in DOMAIN Selection(s, S)
           /\ Selection(s, S)[1] = s[1]
<1> DEFINE t  == Selection(s, S)
           at == Ascending(S, Len(s))
<1>1. /\ t \in Seq(T) /\ Len(t) = Len(at) /\ IsAscending(at, S, Len(s))
      /\ \A j \in 1 .. Len(t) : at[j] \in 1 .. Len(s) /\ t[j] = s[at[j]]
  BY SelectionIs
<1> HIDE DEF t, at
<1>2. DOMAIN t = 1 .. Len(t) /\ Len(t) \in Nat
  BY <1>1, LenProperties
<1>3. Len(s) \in Nat /\ 1 \in 1 .. Len(s)
  BY LenProperties
<1>4. PICK j \in 1 .. Len(at) : at[j] = 1
  BY <1>1, <1>3 DEF IsAscending
<1>5. 1 \in 1 .. Len(t)
  BY <1>1, <1>2, <1>4
<1>6. at[1] = 1
  <2>1. ASSUME 1 < j PROVE at[1] < at[j]
    BY <1>1, <1>5, <2>1 DEF IsAscending
  <2>2. at[1] \in 1 .. Len(s)
    BY <1>1, <1>5
  <2> QED
    BY <1>2, <1>4, <2>1, <2>2
<1>7. t[1] = s[1]
  BY <1>1, <1>5, <1>6
<1> QED
  BY <1>2, <1>5, <1>7 DEF t

\* The one rule written for a touchpoint is kept, and the only one that
\* matches: it is announced with its target.
LEMMA RuleFor ==
    ASSUME PrintedApart, TouchpointsClear, Typed,
           NEW c \in DOMAIN conf.signals, NEW k \in DOMAIN conf.signals[c],
           NEW tpoint, tpoint = conf.signals[c][k], WrittenFor(file.blocks, c, tpoint) # {}
    PROVE  /\ MatchedFor(conf.tprules, c, tpoint) # {}
           /\ LET msg == MessageFor(conf.tprules, c, tpoint)
              IN  ObjFor(file.blocks, c, tpoint)
                      \in RangeOf(TargetsOf(conf.tprules[msg.rule], msg.vals))
<1>1. PICK f \in DOMAIN Files : file = Files[f] /\ conf = Loaded(file)
  BY DEF Typed, FromFile
<1> DEFINE blocks == file.blocks
           N == Len(blocks)
           W == WrittenFor(blocks, c, tpoint)
           M == MatchedFor(conf.tprules, c, tpoint)
           i == FirstOf(W)
           b == blocks[i]
           list == Parse(blocks, i - 1)
<1>2. FileOK(blocks)
  BY <1>1, FilesOK
<1>3. N \in Nat /\ DOMAIN blocks = 1 .. N /\ \A x \in 1 .. N : IsBlock(blocks[x])
  BY <1>2, FileIs
<1>4. tpoint \in Seq(Concrete)
  BY LenProperties DEF Typed
<1>5. /\ \A x \in DOMAIN blocks :
            blocks[x].kind = "tprule" =>
                Len(blocks[x].tgts) = 1 /\ CheckUnity(Parse(blocks, x - 1), blocks[x].tgts[1])
      /\ \A x, y \in W : x = y
  <2>1. blocks = Files[f].blocks
    BY <1>1
  <2>2. conf.signals = Files[f].signals
    BY <1>1 DEF Loaded
  <2> HIDE DEF blocks, W
  <2>3. /\ \A x \in DOMAIN blocks :
              blocks[x].kind = "tprule" =>
                  Len(blocks[x].tgts) = 1 /\ CheckUnity(Parse(blocks, x - 1), blocks[x].tgts[1])
        /\ \A d \in DOMAIN conf.signals : \A n \in DOMAIN conf.signals[d] :
              \A x, y \in WrittenFor(blocks, d, conf.signals[d][n]) : x = y
    BY <2>1, <2>2, ClearIs
  <2> QED
    BY <2>3 DEF W
<1>6. \A x \in W : x \in 1 .. N /\ blocks[x].kind = "tprule" /\ MatchRule(blocks[x], c, tpoint)
  BY <1>3 DEF WrittenFor
<1>7. \A x \in 1 .. N : blocks[x].kind = "tprule" /\ MatchRule(blocks[x], c, tpoint) => x \in W
  BY <1>3 DEF WrittenFor
<1>8. ASSUME NEW x \in DOMAIN blocks, NEW y \in DOMAIN blocks, blocks[x].kind = "tprule",
             blocks[y].kind = "tprule", Key(blocks[x]) = Key(blocks[y])
      PROVE  \A n \in DOMAIN blocks[x].rule : Literal(blocks[x].rule[n]) <=> Literal(blocks[y].rule[n])
  <2>1. blocks = Files[f].blocks
    BY <1>1
  <2> HIDE DEF blocks
  <2> QED
    BY <1>8, <2>1, ApartTouch
<1> HIDE DEF W
<1>9. i \in W
  <2>1. W \subseteq Nat
    BY <1>3, <1>6
  <2> QED
    BY <2>1, FirstIs DEF W
<1> HIDE DEF i
<1>10. i \in 1 .. N /\ b.kind = "tprule" /\ MatchRule(b, c, tpoint) /\ IsBlock(b)
  BY <1>3, <1>6, <1>9
<1>11. b \in [kind : {"tprule"}, comp : STRING, rule : Seq(Token), tgts : Seq(Seq(Token))]
  BY <1>10, BlockIs
<1>12. Taken(blocks, i)
  <2>1. Known(list, b)
    BY <1>10 DEF Known
  <2> SUFFICES ASSUME InList(list, b) PROVE FALSE
    BY <2>1 DEF Taken
  <2>2. PICK p \in DOMAIN list : list[p].kind = b.kind /\ Key(list[p]) = Key(b)
    BY DEF InList
  <2>3. i - 1 \in 0 .. N
    BY <1>3, <1>10
  <2>4. PICK x \in Accepted(blocks) : x <= i - 1 /\ list[p] = Entry(blocks, x)
    BY <1>3, <2>3, PrefixIs
  <2>5. x \in 1 .. N
    BY DEF Accepted
  <2>6. blocks[x].kind = "tprule" /\ Key(blocks[x]) = Key(b)
    BY <1>3, <1>10, <2>2, <2>4, <2>5, EntryIs
  <2>7. blocks[x].comp = b.comp /\ Printed(blocks[x].rule) = Printed(b.rule)
    BY <1>10, <2>6 DEF Key
  <2>8. \A n \in DOMAIN blocks[x].rule : Literal(blocks[x].rule[n]) <=> Literal(b.rule[n])
    BY <1>3, <1>8, <1>10, <2>5, <2>6
  <2>9. blocks[x].rule \in Seq(Token) /\ b.rule \in Seq(Token)
    BY <1>3, <1>11, <2>5, <2>6, BlockIs
  <2>10. MatchRule(blocks[x], c, tpoint)
    BY <1>4, <1>10, <2>7, <2>8, <2>9, AlikeTouch
  <2>11. x \in W
    BY <1>7, <2>5, <2>6, <2>10
  <2>12. x = i
    BY <1>5, <1>9, <2>11
  <2> QED
    BY <1>10, <2>4, <2>5, <2>12
<1>13. PICK to : TableAt(blocks, "tprule", to)
  BY <1>2, TableIs
<1>14. conf.tprules = GetAll(Parse(blocks, N), "tprule")
  BY <1>1 DEF Loaded
<1>15. Len(conf.tprules) \in Nat /\ DOMAIN conf.tprules = 1 .. Len(conf.tprules)
  BY <1>2, <1>14, TableIs
<1>16. ASSUME NEW n \in DOMAIN conf.tprules
       PROVE  /\ to[n] \in 1 .. N /\ blocks[to[n]].kind = "tprule"
              /\ conf.tprules[n].comp = blocks[to[n]].comp
              /\ conf.tprules[n].rule = blocks[to[n]].rule
              /\ conf.tprules[n] = Entry(blocks, to[n])
  <2>1. to[n] \in Accepted(blocks) /\ blocks[to[n]].kind = "tprule" /\ conf.tprules[n] = Entry(blocks, to[n])
    BY <1>13, <1>14, <1>15 DEF TableAt
  <2>2. to[n] \in 1 .. N
    BY <2>1 DEF Accepted
  <2>3. IsBlock(blocks[to[n]])
    BY <1>3, <2>2
  <2> QED
    BY <2>1, <2>2, <2>3, EntryRule
<1>17. PICK m \in DOMAIN conf.tprules : to[m] = i
  <2>1. i \in Accepted(blocks)
    BY <1>10, <1>12 DEF Accepted
  <2> QED
    BY <1>10, <1>13, <1>14, <1>15, <2>1 DEF TableAt
<1>18. m \in M
  <2>1. conf.tprules[m].comp = b.comp /\ conf.tprules[m].rule = b.rule
    BY <1>16, <1>17
  <2>2. MatchRule(conf.tprules[m], c, tpoint)
    BY <1>10, <2>1 DEF MatchRule
  <2> QED
    BY <2>2 DEF MatchedFor
<1> DEFINE n == FirstOf(M)
           r == conf.tprules[n]
           vals == ValuesAt(tpoint, LocsOf(r.rule))
<1>19. n \in DOMAIN conf.tprules /\ MatchRule(r, c, tpoint)
  <2>1. M \subseteq Nat
    BY <1>15 DEF MatchedFor
  <2>2. n \in M
    BY <1>18, <2>1, FirstIs
  <2> HIDE DEF n
  <2> QED
    BY <2>2 DEF MatchedFor
<1>20. MessageFor(conf.tprules, c, tpoint) = [rule |-> n, vals |-> vals]
  BY DEF MessageFor
<1> HIDE DEF n
<1>21. to[n] = i
  <2>1. MatchRule(blocks[to[n]], c, tpoint)
    BY <1>16, <1>19 DEF MatchRule
  <2>2. to[n] \in W
    BY <1>7, <1>16, <1>19, <2>1
  <2> QED
    BY <1>5, <1>9, <2>2
<1>22. r.rule = b.rule /\ r = Entry(blocks, i)
  BY <1>16, <1>19, <1>21
<1>23. r.tgts = Selection(b.tgts, Possible(blocks, i))
  BY <1>10, <1>22, EntryRule
<1>24. Len(b.tgts) = 1 /\ CheckUnity(list, b.tgts[1])
  BY <1>3, <1>5, <1>10
<1> HIDE DEF b, list, r
<1>25. 1 \in DOMAIN r.tgts /\ r.tgts[1] = b.tgts[1] /\ 1 \in DOMAIN b.tgts
  <2>1. b.tgts \in Seq(Seq(Token))
    BY <1>11
  <2>2. 1 \in DOMAIN b.tgts
    BY <1>24, <2>1, LenProperties
  <2>3. 1 \in Possible(blocks, i)
    BY <1>24, <2>2 DEF Possible, b, list
  <2>4. 1 <= Len(b.tgts)
    BY <1>24
  <2> QED
    BY <1>23, <2>1, <2>2, <2>3, <2>4, FirstSelected
<1>26. TargetsOf(r, vals)[1] = ResolveObj(r.tgts[1], VarsOf(r.rule), vals) /\ 1 \in DOMAIN TargetsOf(r, vals)
  BY <1>25 DEF TargetsOf
<1>27. TargetsOf(b, vals)[1] = ResolveObj(b.tgts[1], VarsOf(b.rule), vals)
  BY <1>25 DEF TargetsOf
<1>28. TargetsOf(b, vals)[1] \in RangeOf(TargetsOf(r, vals))
  BY <1>22, <1>25, <1>26, <1>27 DEF RangeOf
<1>29. ObjFor(blocks, c, tpoint) = TargetsOf(b, ValuesAt(tpoint, LocsOf(b.rule)))[1]
  BY DEF ObjFor, b, i, W
<1>30. ObjFor(blocks, c, tpoint) \in RangeOf(TargetsOf(r, vals))
  BY <1>22, <1>28, <1>29
<1> QED
  BY <1>18, <1>20, <1>30 DEF r

\* What a sequence has.
LEMMA HeadOrTail ==
    ASSUME NEW T, NEW s \in Seq(T), s # <<>>
    PROVE  \A x \in RangeOf(s) : x = Head(s) \/ x \in RangeOf(Tail(s))
<1> SUFFICES ASSUME NEW x \in RangeOf(s), x # Head(s) PROVE x \in RangeOf(Tail(s))
  OBVIOUS
<1>1. /\ DOMAIN s = 1 .. Len(s) /\ Len(s) \in Nat
      /\ Head(s) = s[1] /\ Tail(s) \in Seq(T) /\ Len(Tail(s)) = Len(s) - 1
      /\ \A i \in 1 .. Len(Tail(s)) : Tail(s)[i] = s[i + 1]
  BY HeadTailProperties, LenProperties
<1>2. PICK i \in 1 .. Len(s) : x = s[i]
  BY <1>1 DEF RangeOf
<1>3. i # 1
  BY <1>1, <1>2
<1>4. i - 1 \in 1 .. Len(Tail(s)) /\ (i - 1) + 1 = i
  BY <1>1, <1>3
<1>5. Tail(s)[i - 1] = x /\ DOMAIN Tail(s) = 1 .. Len(Tail(s))
  BY <1>1, <1>2, <1>4, LenProperties
<1> QED
  BY <1>4, <1>5 DEF RangeOf

LEMMA TailStays ==
    ASSUME NEW T, NEW s \in Seq(T), NEW t \in Seq(T)
    PROVE  RangeOf(t) \subseteq RangeOf(s \o t)
<1>1. /\ DOMAIN t = 1 .. Len(t) /\ Len(t) \in Nat /\ Len(s) \in Nat
      /\ s \o t \in Seq(T) /\ Len(s \o t) = Len(s) + Len(t)
      /\ \A i \in 1 .. Len(s) + Len(t) :
            (s \o t)[i] = IF i <= Len(s) THEN s[i] ELSE t[i - Len(s)]
  BY ConcatProperties, LenProperties
<1>2. DOMAIN (s \o t) = 1 .. Len(s) + Len(t)
  BY <1>1, LenProperties
<1>3. ASSUME NEW j \in 1 .. Len(t) PROVE t[j] \in RangeOf(s \o t)
  <2>1. /\ j + Len(s) \in 1 .. Len(s) + Len(t) /\ ~(j + Len(s) <= Len(s))
        /\ (j + Len(s)) - Len(s) = j
    BY <1>1
  <2>2. (s \o t)[j + Len(s)] = t[j]
    BY <1>1, <2>1
  <2> QED
    BY <1>2, <2>1, <2>2 DEF RangeOf
<1> QED
  BY <1>1, <1>3 DEF RangeOf

LEMMA FrontStays ==
    ASSUME NEW T, NEW s \in Seq(T), NEW t \in Seq(T)
    PROVE  RangeOf(s) \subseteq RangeOf(s \o t)
<1>1. /\ DOMAIN s = 1 .. Len(s) /\ Len(t) \in Nat /\ Len(s) \in Nat
      /\ s \o t \in Seq(T) /\ Len(s \o t) = Len(s) + Len(t)
      /\ \A i \in 1 .. Len(s) + Len(t) :
            (s \o t)[i] = IF i <= Len(s) THEN s[i] ELSE t[i - Len(s)]
  BY ConcatProperties, LenProperties
<1>2. DOMAIN (s \o t) = 1 .. Len(s) + Len(t)
  BY <1>1, LenProperties
<1>3. ASSUME NEW j \in 1 .. Len(s) PROVE s[j] \in RangeOf(s \o t)
  <2>1. j \in 1 .. Len(s) + Len(t) /\ j <= Len(s)
    BY <1>1
  <2>2. (s \o t)[j] = s[j]
    BY <1>1, <2>1
  <2> QED
    BY <1>2, <2>1, <2>2 DEF RangeOf
<1> QED
  BY <1>1, <1>3 DEF RangeOf

LEMMA LedTpoint ==
    ASSUME Led, NEW d \in DOMAIN conf.signals, BeneshTpoint(d),
           PrintedApart, TouchpointsClear
    PROVE  Led'
<1>1. Typed /\ Typed'
  BY TypedTpoint DEF Led
<1> DEFINE next == conf.signals[d][passed[d] + 1]
<1>2. /\ UNCHANGED <<file, conf, todo, names>> /\ told \subseteq told'
      /\ MatchedFor(conf.tprules, d, next) # {} => MessageFor(conf.tprules, d, next) \in told'
      /\ passed' = [passed EXCEPT ![d] = @ + 1] /\ passed[d] < Len(conf.signals[d])
  <2>1. told' = IF MatchedFor(conf.tprules, d, next) = {} THEN told
                ELSE told \cup {MessageFor(conf.tprules, d, next)}
    BY Zenon DEF BeneshTpoint, MatchedFor, MessageFor
  <2>2. UNCHANGED <<file, conf, todo, names>>
    BY DEF BeneshTpoint
  <2>3. passed' = [passed EXCEPT ![d] = @ + 1] /\ passed[d] < Len(conf.signals[d])
    BY DEF BeneshTpoint
  <2> HIDE DEF next
  <2> QED
    BY <2>1, <2>2, <2>3
<1>3. /\ DOMAIN passed = DOMAIN conf.signals
      /\ \A c \in DOMAIN conf.signals :
            passed[c] \in Nat /\ conf.signals[c] \in Seq(Seq(Concrete)) /\ Len(conf.signals[c]) \in Nat
  BY <1>1, LenProperties DEF Typed
<1> SUFFICES ASSUME NEW c \in DOMAIN conf.signals, NEW n \in 1 .. passed'[c],
                    WrittenFor(file.blocks, c, conf.signals[c][n]) # {}
             PROVE  UnderWay(c, conf.signals[c][n])'
  BY <1>1, <1>2 DEF Led
<1>4. CASE n \in 1 .. passed[c]
  <2>1. UnderWay(c, conf.signals[c][n])
    BY <1>4 DEF Led
  <2> QED
    BY <1>2, <2>1 DEF UnderWay
<1>5. CASE n \notin 1 .. passed[c]
  <2>1. c = d /\ n = passed[d] + 1
    BY <1>2, <1>3, <1>5
  <2>2. n \in DOMAIN conf.signals[d]
    BY <1>2, <1>3, <2>1, LenProperties
  <2>3. MatchedFor(conf.tprules, d, next) # {}
    BY <1>1, <2>1, <2>2, RuleFor
  <2> QED
    BY <1>2, <2>1, <2>3 DEF UnderWay
<1> QED
  BY <1>4, <1>5

LEMMA LedWatch ==
    ASSUME Led, NEW msg \in told, TpointWatch(msg), PrintedApart, TouchpointsClear
    PROVE  Led'
<1>1. Typed /\ Typed'
  BY TypedWatch DEF Led
<1>2. /\ UNCHANGED <<file, conf, passed, names>> /\ todo = <<>> /\ told' = told \ {msg}
      /\ todo' = TargetsOf(conf.tprules[msg.rule], msg.vals)
  BY DEF TpointWatch
<1> SUFFICES ASSUME NEW c \in DOMAIN conf.signals, NEW n \in 1 .. passed[c],
                    WrittenFor(file.blocks, c, conf.signals[c][n]) # {}
             PROVE  UnderWay(c, conf.signals[c][n])'
  BY <1>1, <1>2 DEF Led
<1> DEFINE tpoint == conf.signals[c][n]
<1>3. n \in DOMAIN conf.signals[c]
  <2>1. conf.signals[c] \in Seq(Seq(Concrete)) /\ passed[c] \in 0 .. Len(conf.signals[c])
    BY <1>1 DEF Typed
  <2> QED
    BY <2>1, LenProperties
<1>4. RangeOf(todo) = {}
  BY <1>2 DEF RangeOf
<1>5. CASE MatchedFor(conf.tprules, c, tpoint) # {} /\ MessageFor(conf.tprules, c, tpoint) = msg
  <2>1. ObjFor(file.blocks, c, tpoint) \in RangeOf(TargetsOf(conf.tprules[msg.rule], msg.vals))
    BY <1>1, <1>3, <1>5, RuleFor
  <2> HIDE DEF tpoint
  <2> QED
    BY <1>2, <2>1 DEF UnderWay, tpoint
<1>6. CASE MatchedFor(conf.tprules, c, tpoint) = {} \/ MessageFor(conf.tprules, c, tpoint) # msg
  <2>1. UnderWay(c, tpoint)
    BY DEF Led
  <2> HIDE DEF tpoint
  <2> QED
    BY <1>2, <1>4, <1>6, <2>1 DEF UnderWay, tpoint
<1> QED
  BY <1>5, <1>6

\* No name is lost between todo and the database, and those a new entry
\* depends on are added.
LEMMA ScheduleKeeps ==
    ASSUME Typed, ScheduleTarget
    PROVE  LET e == EntryOf(conf.tgts, Head(todo))
           IN  /\ RangeOf(todo) \cup UNION RangeOf(names)
                      \subseteq RangeOf(todo') \cup UNION RangeOf(names')
               /\ DOMAIN names' = DOMAIN names \cup {e}
               /\ e \notin DOMAIN names => RangeOf(DepsOf(conf.tgts, e)) \subseteq RangeOf(todo')
               /\ names'[e] \subseteq {Head(todo)} \cup IF e \in DOMAIN names THEN names[e] ELSE {}
               /\ \A x \in DOMAIN names : x # e => names'[x] = names[x]
<1>1. Typed /\ Typed'
  BY TypedSchedule
<1> DEFINE obj == Head(todo)
           e == EntryOf(conf.tgts, obj)
           deps == DepsOf(conf.tgts, e)
<1>2. todo \in Seq(Seq(Concrete)) /\ todo # <<>>
  BY <1>1 DEF Typed, ScheduleTarget
<1>3. deps \in Seq(Seq(Concrete))
  <2>1. PICK f \in DOMAIN Files : file = Files[f] /\ conf = Loaded(file)
    BY <1>1 DEF Typed, FromFile
  <2>2. FileOK(file.blocks)
    BY <2>1, FilesOK
  <2>3. obj \in Seq(Concrete) /\ Matches(conf.tgts, obj) # {}
    BY <1>2, HeadTailProperties DEF ScheduleTarget
  <2> HIDE DEF obj
  <2> QED
    BY <2>1, <2>2, <2>3, EntryFound
<1>4. \/ /\ e \in DOMAIN names
         /\ names' = [names EXCEPT ![e] = @ \cup {obj}] /\ todo' = Tail(todo)
      \/ /\ e \notin DOMAIN names
         /\ names' = [x \in DOMAIN names \cup {e} |-> IF x = e THEN {obj} ELSE names[x]]
         /\ todo' = deps \o Tail(todo)
  BY DEF ScheduleTarget
<1> HIDE DEF e, deps
<1>5. \A o \in RangeOf(todo) : o = obj \/ o \in RangeOf(Tail(todo))
  BY <1>2, HeadOrTail
<1> HIDE DEF obj
<1>6. RangeOf(Tail(todo)) \subseteq RangeOf(todo')
  <2>1. RangeOf(Tail(todo)) \subseteq RangeOf(deps \o Tail(todo))
    BY <1>2, <1>3, HeadTailProperties, TailStays
  <2> QED
    BY <1>4, <2>1
<1>7. obj \in UNION RangeOf(names') /\ UNION RangeOf(names) \subseteq UNION RangeOf(names')
  <2>1. e \in DOMAIN names' /\ obj \in names'[e]
    BY <1>4
  <2>2. \A x \in DOMAIN names : x \in DOMAIN names' /\ names[x] \subseteq names'[x]
    BY <1>4
  <2> QED
    BY <2>1, <2>2 DEF RangeOf
<1>8. RangeOf(todo) \cup UNION RangeOf(names) \subseteq RangeOf(todo') \cup UNION RangeOf(names')
  BY <1>5, <1>6, <1>7
<1>9. e \notin DOMAIN names => RangeOf(deps) \subseteq RangeOf(todo')
  <2>1. RangeOf(deps) \subseteq RangeOf(deps \o Tail(todo))
    BY <1>2, <1>3, HeadTailProperties, FrontStays
  <2> QED
    BY <1>4, <2>1
<1>10. /\ DOMAIN names' = DOMAIN names \cup {e}
       /\ names'[e] \subseteq {obj} \cup IF e \in DOMAIN names THEN names[e] ELSE {}
       /\ \A x \in DOMAIN names : x # e => names'[x] = names[x]
  BY <1>4
<1> QED
  BY <1>8, <1>9, <1>10 DEF e, deps, obj

LEMMA LedSchedule ==
    ASSUME Led, ScheduleTarget
    PROVE  Led'
<1>1. Typed /\ Typed'
  BY TypedSchedule DEF Led
<1>2. UNCHANGED <<file, conf, passed, told>>
  BY DEF ScheduleTarget
<1>3. RangeOf(todo) \cup UNION RangeOf(names) \subseteq RangeOf(todo') \cup UNION RangeOf(names')
  BY <1>1, ScheduleKeeps
<1> SUFFICES ASSUME NEW c \in DOMAIN conf.signals, NEW n \in 1 .. passed[c],
                    WrittenFor(file.blocks, c, conf.signals[c][n]) # {}
             PROVE  UnderWay(c, conf.signals[c][n])'
  BY <1>1, <1>2 DEF Led
<1>4. UnderWay(c, conf.signals[c][n])
  BY DEF Led
<1> QED
  BY <1>2, <1>3, <1>4 DEF UnderWay

LEMMA AlwaysLed ==
    ASSUME PrintedApart, TouchpointsClear
    PROVE  Spec => []Led
<1>1. Init => Led
  <2>1. ASSUME Init PROVE \A c \in DOMAIN conf.signals : 1 .. passed[c] = {}
    BY <2>1 DEF Init
  <2> QED
    BY <2>1, TypedInit DEF Led
<1>2. ASSUME Led, [Next]_vars PROVE Led'
  <2>1. CASE UNCHANGED vars
    <3>1. Typed'
      BY <1>2, <2>1 DEF vars, Led, Typed, FromFile, Announced, Entered
    <3> QED
      BY <1>2, <2>1, <3>1 DEF vars, Led, UnderWay
  <2>2. ASSUME NEW c \in DOMAIN conf.signals, BeneshTpoint(c) PROVE Led'
    BY <1>2, <2>2, LedTpoint
  <2>3. ASSUME NEW msg \in told, TpointWatch(msg) PROVE Led'
    BY <1>2, <2>3, LedWatch
  <2>4. CASE ScheduleTarget
    BY <1>2, <2>4, LedSchedule
  <2> QED
    BY <1>2, <2>1, <2>2, <2>3, <2>4 DEF Next
<1> QED
  BY <1>1, <1>2, PTL DEF Spec

\* For all files in which rules that print alike match the same names, each
\* touchpoint rule has a target that can be a variable, and no touchpoint has
\* two rules: once nothing is under way, what the file says for each
\* touchpoint that was signalled has been scheduled (benesh_tpoint and
\* tpoint_watch lose none, in whichever order they and the components go).
THEOREM TouchpointsLead ==
    ASSUME PrintedApart, TouchpointsClear
    PROVE  Spec => []TouchpointsCount
<1>1. ASSUME Led PROVE TouchpointsCount
  <2> SUFFICES ASSUME told = {}, todo = <<>>,
                      NEW c \in DOMAIN passed, NEW n \in 1 .. passed[c],
                      WrittenFor(file.blocks, c, conf.signals[c][n]) # {}
               PROVE  ObjFor(file.blocks, c, conf.signals[c][n]) \in UNION RangeOf(names)
    BY Zenon DEF TouchpointsCount, WrittenFor, ObjFor
  <2>1. c \in DOMAIN conf.signals
    BY <1>1 DEF Led, Typed
  <2>2. UnderWay(c, conf.signals[c][n])
    BY <1>1, <2>1 DEF Led
  <2>3. RangeOf(todo) = {}
    BY DEF RangeOf
  <2> QED
    BY <2>2, <2>3 DEF UnderWay
<1> QED
  BY <1>1, AlwaysLed, PTL

-----------------------------------------------------------------------------
(***************************************************************************)
(* No version before the first: a dependency counts down from a number     *)
(* that its rule's variable has, and a variable has no number for which an *)
(* earlier rule is written.                                                *)
(***************************************************************************)

Positive == {obj \in Seq(Concrete) : \A k \in DOMAIN obj : ValueOf(obj[k]) >= 0}

\* The value a name keeps at a variable is not negative if the name's numbers
\* are not.
LEMMA PositiveValues ==
    ASSUME NEW p \in Seq(Token), NEW obj \in Positive, Len(obj) = Len(p)
    PROVE  \A j \in DOMAIN ValuesAt(obj, LocsOf(p)) : ValuesAt(obj, LocsOf(p))[j] >= 0
<1>1. obj \in Seq(Concrete) /\ DOMAIN obj = 1 .. Len(obj) /\ \A k \in DOMAIN obj : ValueOf(obj[k]) >= 0
  BY LenProperties DEF Positive
<1>2. \A j \in 1 .. Len(LocsOf(p)) : LocsOf(p)[j] \in DOMAIN obj
  BY <1>1, LocsIs
<1>3. /\ DOMAIN ValuesAt(obj, LocsOf(p)) = 1 .. Len(LocsOf(p))
      /\ \A j \in 1 .. Len(LocsOf(p)) : ValuesAt(obj, LocsOf(p))[j] = ValueOf(obj[LocsOf(p)[j]])
  BY <1>1, ValuesIs
<1> QED
  BY <1>1, <1>2, <1>3

\* What resolve_obj makes of a variable or an expression.
LEMMA ResolvedAt ==
    ASSUME NEW p \in Seq(Token), NEW by \in Seq(Token), Mentioned(p) \subseteq RangeOf(VarsOf(by)),
           NEW vals \in Seq(Int), DOMAIN vals = 1 .. Len(LocsOf(by)),
           NEW i \in 1 .. Len(p), ~Literal(p[i])
    PROVE  LET j   == IndexOf(VarsOf(by), p[i][2])
               obj == ResolveObj(p, VarsOf(by), vals)
           IN  /\ j \in 1 .. Len(LocsOf(by)) /\ vals[j] \in Int
               /\ p[i][1] = "var" => ValueOf(obj[i]) = vals[j]
               /\ p[i][1] = "expr" => p[i][3] \in Int /\ ValueOf(obj[i]) = vals[j] + p[i][3]
               /\ p[i][1] \in {"var", "expr"}
<1> DEFINE vs == VarsOf(by)
           v == p[i][2]
           S == {j \in DOMAIN vs : vs[j] = v}
           j == IndexOf(vs, v)
           obj == ResolveObj(p, vs, vals)
<1>1. DOMAIN p = 1 .. Len(p) /\ p[i] \in Token
  BY LenProperties
<1>2. DOMAIN vs = 1 .. Len(LocsOf(by)) /\ Len(LocsOf(by)) \in Nat
  BY VarsIs, LocsIs
<1>3. v \in Mentioned(p)
  BY <1>1 DEF Mentioned
<1>4. v \in RangeOf(vs)
  BY <1>3
<1> HIDE DEF vs, v
<1>5. S # {} /\ S \subseteq Nat
  BY <1>2, <1>4 DEF RangeOf
<1>6. j \in S
  BY <1>5, FirstIs DEF IndexOf
<1> HIDE DEF j
<1>7. j \in 1 .. Len(LocsOf(by)) /\ vals[j] \in Int
  BY <1>2, <1>6, LenProperties
<1>8. p[i][1] \in {"var", "expr"} /\ (p[i][1] = "expr" => p[i][3] \in Int)
  BY <1>1, TokenIs DEF Literal
<1>9. obj[i] = IF p[i][1] = "var" THEN Num(vals[j]) ELSE Num(vals[j] + p[i][3])
  BY <1>1, <1>8 DEF ResolveObj, PqxVal, Mapped, j, v
<1>10. \A n : ValueOf(Num(n)) = n
  BY DEF ValueOf, Num
<1> HIDE DEF obj
<1> QED
  BY <1>7, <1>8, <1>9, <1>10 DEF obj, vs, j, v

\* What the hypothesis says of the tables of a file.
LEMMA BasesFirstIs ==
    ASSUME BasesFirst, NEW f \in DOMAIN Files, NEW blocks, blocks = Files[f].blocks,
           conf = Loaded(Files[f])
    PROVE  /\ \A c \in DOMAIN conf.signals : \A n \in DOMAIN conf.signals[c] :
                  \A k \in DOMAIN conf.signals[c][n] : ValueOf(conf.signals[c][n][k]) >= 0
           /\ \A p \in Patterns(blocks) : \A k \in DOMAIN p : ValueOf(p[k]) >= 0
           /\ \A i \in DOMAIN blocks : blocks[i].kind = "tprule" =>
                  \A p \in NamesOf(blocks[i]) : \A k \in DOMAIN p : p[k][1] = "expr" => p[k][3] >= 0
           /\ \A n \in DOMAIN conf.tgts : \A d \in DOMAIN conf.tgts[n].deps :
                  \A k \in DOMAIN conf.tgts[n].deps[d] :
                      conf.tgts[n].deps[d][k][1] = "expr" =>
                          \A x \in 0 .. -conf.tgts[n].deps[d][k][3] - 1 : \E m \in 1 .. n - 1 :
                              MatchesWith(conf.tgts[m].name, conf.tgts[n].name,
                                          PlaceOf(conf.tgts[n].name, conf.tgts[n].deps[d][k][2]), x)
<1>1. conf.signals = Files[f].signals
  BY DEF Loaded
<1>2. /\ \A c \in DOMAIN conf.signals : \A n \in DOMAIN conf.signals[c] :
            \A k \in DOMAIN conf.signals[c][n] : ValueOf(conf.signals[c][n][k]) >= 0
      /\ \A i \in DOMAIN blocks : \A p \in NamesOf(blocks[i]) : \A k \in DOMAIN p :
            /\ ValueOf(p[k]) >= 0
            /\ blocks[i].kind = "tprule" /\ p[k][1] = "expr" => p[k][3] >= 0
  BY <1>1 DEF BasesFirst
<1>3. \A n \in DOMAIN conf.tgts : \A d \in DOMAIN conf.tgts[n].deps :
          \A k \in DOMAIN conf.tgts[n].deps[d] :
              conf.tgts[n].deps[d][k][1] = "expr" =>
                  \A x \in 0 .. -conf.tgts[n].deps[d][k][3] - 1 : \E m \in 1 .. n - 1 :
                      MatchesWith(conf.tgts[m].name, conf.tgts[n].name,
                                  PlaceOf(conf.tgts[n].name, conf.tgts[n].deps[d][k][2]), x)
  BY DEF BasesFirst
<1> QED
  BY <1>2, <1>3 DEF Patterns

\* A name of which a rule with one number matches all is not found under the
\* later rule with a variable.
LEMMA EarlierRule ==
    ASSUME NEW obj \in Seq(Concrete), NEW p \in Seq(Token), NEW r, r.name \in Seq(Token),
           Len(p) = Len(obj), \A k \in DOMAIN obj : Literal(p[k]) => p[k] = obj[k],
           NEW l \in 1 .. Len(p), NEW x \in Int, obj[l][1] = "num", ValueOf(obj[l]) = x,
           MatchesWith(r.name, p, l, x)
    PROVE  MatchTargetRule(obj, r)
<1> DEFINE q == r.name
<1>1. Len(q) = Len(p) /\ \A k \in DOMAIN q : Literal(q[k]) => q[k] = IF k = l THEN Num(x) ELSE p[k]
  BY DEF MatchesWith
<1>2. q \in Seq(Token)
  OBVIOUS
<1> HIDE DEF q
<1>3. DOMAIN q = 1 .. Len(p) /\ DOMAIN obj = 1 .. Len(p)
  BY <1>1, <1>2, LenProperties
<1>4. obj[l] \in {"num"} \X Int
  BY <1>3, LenProperties DEF Concrete
<1>5. obj[l] = Num(x)
  BY <1>4 DEF Num, ValueOf
<1>6. ASSUME NEW k \in DOMAIN obj, Literal(q[k]) PROVE q[k] = obj[k]
  <2>1. CASE k = l
    BY <1>1, <1>3, <1>5, <1>6, <2>1
  <2>2. CASE k # l
    <3>1. q[k] = p[k]
      BY <1>1, <1>3, <1>6, <2>2
    <3>2. Literal(p[k])
      BY <1>6, <3>1, Zenon
    <3> QED
      BY <3>1, <3>2
  <2> QED
    BY <2>1, <2>2
<1> QED
  BY <1>1, <1>6 DEF MatchTargetRule, q

\* A dependency of an entry whose name is not negative is not either.
LEMMA DepPositive ==
    ASSUME NEW P \in Seq(Token), NEW obj \in Positive, Len(P) = Len(obj),
           \A k \in DOMAIN obj : Literal(P[k]) => P[k] = obj[k],
           \A k \in 1 .. Len(P) : P[k][1] # "id" => obj[k][1] # "id",
           NEW vals, vals = ValuesAt(obj, LocsOf(P)),
           NEW tgts, NEW n \in Nat,
           \A m \in 1 .. n - 1 : tgts[m].name \in Seq(Token) /\ ~MatchTargetRule(obj, tgts[m]),
           NEW p \in Resolvable(P), \A k \in DOMAIN p : ValueOf(p[k]) >= 0,
           \A k \in DOMAIN p : p[k][1] = "expr" =>
               \A x \in 0 .. -p[k][3] - 1 : \E m \in 1 .. n - 1 :
                   MatchesWith(tgts[m].name, P, PlaceOf(P, p[k][2]), x)
    PROVE  ResolveObj(p, VarsOf(P), vals) \in Positive
<1> DEFINE o == ResolveObj(p, VarsOf(P), vals)
<1>1. obj \in Seq(Concrete) /\ DOMAIN obj = 1 .. Len(P)
  BY LenProperties DEF Positive
<1>2. /\ vals \in Seq(Int) /\ DOMAIN vals = 1 .. Len(LocsOf(P))
      /\ \A j \in 1 .. Len(LocsOf(P)) : vals[j] = ValueOf(obj[LocsOf(P)[j]])
  BY <1>1, ValuesIs
<1>3. \A j \in 1 .. Len(LocsOf(P)) : vals[j] >= 0
  BY <1>2, PositiveValues
<1>4. p \in Seq(Token) /\ Mentioned(p) \subseteq RangeOf(VarsOf(P))
  BY DEF Resolvable
<1>5. /\ o \in Seq(Concrete) /\ Len(o) = Len(p)
      /\ \A i \in 1 .. Len(p) : Literal(p[i]) => o[i] = p[i]
  BY <1>2, <1>4, ResolveIs
<1>6. ASSUME NEW k \in 1 .. Len(p), ~Literal(p[k])
      PROVE  LET j == IndexOf(VarsOf(P), p[k][2])
             IN  /\ j \in 1 .. Len(LocsOf(P)) /\ vals[j] \in Int
                 /\ p[k][1] = "var" => ValueOf(o[k]) = vals[j]
                 /\ p[k][1] = "expr" => p[k][3] \in Int /\ ValueOf(o[k]) = vals[j] + p[k][3]
                 /\ p[k][1] \in {"var", "expr"}
  BY <1>2, <1>4, <1>6, ResolvedAt
<1> HIDE DEF o
<1>7. DOMAIN o = 1 .. Len(p) /\ DOMAIN p = 1 .. Len(p)
  BY <1>4, <1>5, LenProperties
<1>8. ASSUME NEW k \in 1 .. Len(p) PROVE ValueOf(o[k]) >= 0
  <2>1. CASE Literal(p[k])
    <3>1. o[k] = p[k] /\ ValueOf(p[k]) >= 0
      BY <1>5, <1>7, <2>1
    <3> QED
      BY <3>1
  <2>2. CASE ~Literal(p[k])
    <3> DEFINE v == p[k][2]
               j == IndexOf(VarsOf(P), v)
    <3>1. /\ j \in 1 .. Len(LocsOf(P)) /\ vals[j] \in Int
          /\ p[k][1] = "var" => ValueOf(o[k]) = vals[j]
          /\ p[k][1] = "expr" => p[k][3] \in Int /\ ValueOf(o[k]) = vals[j] + p[k][3]
          /\ p[k][1] \in {"var", "expr"}
      BY <1>6, <2>2
    <3> DEFINE l == LocsOf(P)[j]
    <3>2. l = PlaceOf(P, v)
      BY DEF PlaceOf
    <3> HIDE DEF j
    <3>3. CASE p[k][1] = "var"
      BY <1>3, <3>1, <3>3
    <3>4. CASE p[k][1] = "expr"
      <4> SUFFICES ASSUME vals[j] + p[k][3] < 0 PROVE FALSE
        BY <3>1, <3>4
      <4> DEFINE x == vals[j]
      <4>1. x \in 0 .. -p[k][3] - 1
        BY <1>3, <3>1, <3>4
      <4>2. PICK m \in 1 .. n - 1 : MatchesWith(tgts[m].name, P, PlaceOf(P, v), x)
        BY <1>7, <3>4, <4>1
      <4>3. l \in 1 .. Len(P) /\ P[l][1] = "var"
        BY <3>1, LocsIs
      <4>4. obj[l][1] # "id" /\ ValueOf(obj[l]) = x
        BY <1>2, <3>1, <4>3
      <4>5. obj[l][1] = "num"
        <5>1. obj[l] \in Concrete
          BY <1>1, <4>3, LenProperties
        <5> QED
          BY <4>4, <5>1, ConcreteIs
      <4> DEFINE s == tgts[m]
      <4>6. s.name \in Seq(Token) /\ x \in Int /\ ~MatchTargetRule(obj, s)
        BY <3>1
      <4>7. MatchesWith(s.name, P, l, x)
        BY <3>2, <4>2
      <4> HIDE DEF s, l, x
      <4>8. MatchTargetRule(obj, s)
        BY <1>1, <4>3, <4>4, <4>5, <4>6, <4>7, EarlierRule
      <4> QED
        BY <4>6, <4>8
    <3> QED
      BY <3>1, <3>3, <3>4
  <2> QED
    BY <2>1, <2>2
<1>9. o \in Positive
  BY <1>5, <1>7, <1>8 DEF Positive
<1> QED
  BY <1>9 DEF o

LEMMA DepsPositive ==
    ASSUME NumbersOnly, BasesFirst, Typed,
           NEW obj \in Positive, obj \in Shaped(file.blocks), Matches(conf.tgts, obj) # {}
    PROVE  DepsOf(conf.tgts, EntryOf(conf.tgts, obj)) \in Seq(Positive)
<1>1. PICK f \in DOMAIN Files : file = Files[f] /\ conf = Loaded(file)
  BY DEF Typed, FromFile
<1> DEFINE blocks == file.blocks
           e == EntryOf(conf.tgts, obj)
           n == e.rule
           r == conf.tgts[n]
           P == r.name
           vals == e.vals
<1>2. FileOK(blocks) /\ blocks = Files[f].blocks /\ conf = Loaded(Files[f])
  BY <1>1, FilesOK
<1>3. obj \in Seq(Concrete)
  BY DEF Positive
<1>4. /\ n \in DOMAIN conf.tgts /\ MatchTargetRule(obj, r)
      /\ \A m \in DOMAIN conf.tgts : MatchTargetRule(obj, conf.tgts[m]) => n <= m
      /\ vals = ValuesAt(obj, LocsOf(P))
  BY <1>1, <1>2, <1>3, EntryFound
<1>5. DepsOf(conf.tgts, e) = [d \in DOMAIN r.deps |-> ResolveObj(r.deps[d], VarsOf(P), vals)]
  BY DEF DepsOf
<1> HIDE DEF e, n
<1>6. /\ DOMAIN conf.tgts = 1 .. Len(conf.tgts) /\ Len(conf.tgts) \in Nat
      /\ P \in Seq(Token) /\ r.deps \in Seq(Resolvable(P))
      /\ \A m \in DOMAIN conf.tgts : conf.tgts[m].name \in Seq(Token)
  BY <1>1, <1>2, <1>4, RulesAre
<1>7. P \in Patterns(blocks) /\ \A d \in DOMAIN r.deps : r.deps[d] \in Patterns(blocks)
  BY <1>1, <1>2, <1>4, PatternsAre
<1>8. \A p \in Patterns(blocks) : \A k \in DOMAIN p : ValueOf(p[k]) >= 0
  <2> HIDE DEF blocks
  <2> QED
    BY <1>2, BasesFirstIs
<1>9. \A d \in DOMAIN r.deps : \A k \in DOMAIN r.deps[d] :
          r.deps[d][k][1] = "expr" =>
              \A x \in 0 .. -r.deps[d][k][3] - 1 : \E m \in 1 .. n - 1 :
                  MatchesWith(conf.tgts[m].name, P, PlaceOf(P, r.deps[d][k][2]), x)
  <2> HIDE DEF blocks
  <2> QED
    BY <1>2, <1>4, BasesFirstIs
<1>10. Len(P) = Len(obj) /\ \A k \in DOMAIN obj : Literal(P[k]) => P[k] = obj[k]
  BY <1>4 DEF MatchTargetRule
<1>11. \A k \in 1 .. Len(P) : P[k][1] # "id" => obj[k][1] # "id"
  <2>1. obj \in Shaped(blocks)
    OBVIOUS
  <2> HIDE DEF blocks, P
  <2> QED
    BY <1>2, <1>7, <1>10, <2>1, NumbersStay
<1>12. n \in Nat /\ \A m \in 1 .. n - 1 :
           conf.tgts[m].name \in Seq(Token) /\ ~MatchTargetRule(obj, conf.tgts[m])
  <2>1. n \in 1 .. Len(conf.tgts)
    BY <1>4, <1>6
  <2>2. ASSUME NEW m \in 1 .. n - 1
        PROVE  conf.tgts[m].name \in Seq(Token) /\ ~MatchTargetRule(obj, conf.tgts[m])
    <3>1. m \in DOMAIN conf.tgts /\ ~(n <= m)
      BY <1>6, <2>1
    <3> QED
      BY <1>4, <1>6, <3>1
  <2> QED
    BY <2>1, <2>2
<1> HIDE DEF r, P, vals, blocks
<1>13. /\ Len(r.deps) \in Nat /\ DOMAIN r.deps = 1 .. Len(r.deps)
       /\ \A d \in DOMAIN r.deps : r.deps[d] \in Resolvable(P)
  BY <1>6, LenProperties
<1>14. ASSUME NEW d \in DOMAIN r.deps
       PROVE  ResolveObj(r.deps[d], VarsOf(P), vals) \in Positive
  <2> DEFINE p == r.deps[d]
  <2>1. p \in Resolvable(P) /\ \A k \in DOMAIN p : ValueOf(p[k]) >= 0
    BY <1>7, <1>8, <1>13
  <2>2. \A k \in DOMAIN p : p[k][1] = "expr" =>
            \A x \in 0 .. -p[k][3] - 1 : \E m \in 1 .. n - 1 :
                MatchesWith(conf.tgts[m].name, P, PlaceOf(P, p[k][2]), x)
    BY <1>9 DEF P
  <2> HIDE DEF p
  <2>3. P \in Seq(Token) /\ vals = ValuesAt(obj, LocsOf(P))
    BY <1>4, <1>6 DEF P
  <2>4. ResolveObj(p, VarsOf(P), vals) \in Positive
    BY <1>10, <1>11, <1>12, <2>1, <2>2, <2>3, DepPositive DEF P
  <2> QED
    BY <2>4 DEF p
<1>15. [d \in DOMAIN r.deps |-> ResolveObj(r.deps[d], VarsOf(P), vals)] \in Seq(Positive)
  BY <1>13, <1>14, IsASeq
<1> QED
  BY <1>5, <1>15 DEF P, vals, r, e, n

LEMMA TargetsPositive ==
    ASSUME BasesFirst, Typed, NEW msg \in told, \A j \in DOMAIN msg.vals : msg.vals[j] >= 0
    PROVE  TargetsOf(conf.tprules[msg.rule], msg.vals) \in Seq(Positive)
<1>1. PICK f \in DOMAIN Files : file = Files[f] /\ conf = Loaded(file)
  BY DEF Typed, FromFile
<1> DEFINE blocks == file.blocks
           r == conf.tprules[msg.rule]
           P == r.rule
           vals == msg.vals
<1>2. FileOK(blocks) /\ blocks = Files[f].blocks /\ conf = Loaded(Files[f])
  BY <1>1, FilesOK
<1>3. /\ msg.rule \in DOMAIN conf.tprules
      /\ vals \in Seq(Int) /\ DOMAIN vals = 1 .. Len(LocsOf(P))
  BY DEF Typed, Announced
<1>4. P \in Seq(Token) /\ r.tgts \in Seq(Resolvable(P))
  BY <1>1, <1>2, <1>3, RulesAre
<1>5. \A j \in DOMAIN r.tgts :
          /\ r.tgts[j] \in Patterns(blocks)
          /\ \E i \in DOMAIN blocks : blocks[i].kind = "tprule" /\ r.tgts[j] \in NamesOf(blocks[i])
  BY <1>1, <1>2, <1>3, PatternsAre
<1>6. /\ \A p \in Patterns(blocks) : \A k \in DOMAIN p : ValueOf(p[k]) >= 0
      /\ \A i \in DOMAIN blocks : blocks[i].kind = "tprule" =>
            \A p \in NamesOf(blocks[i]) : \A k \in DOMAIN p : p[k][1] = "expr" => p[k][3] >= 0
  <2> HIDE DEF blocks
  <2> QED
    BY <1>2, BasesFirstIs
<1>7. \A j \in DOMAIN vals : vals[j] >= 0
  OBVIOUS
<1>8. TargetsOf(r, vals) = [j \in DOMAIN r.tgts |-> ResolveObj(r.tgts[j], VarsOf(P), vals)]
  BY DEF TargetsOf
<1> HIDE DEF r, vals, blocks
<1>9. /\ Len(r.tgts) \in Nat /\ DOMAIN r.tgts = 1 .. Len(r.tgts)
      /\ \A j \in DOMAIN r.tgts : r.tgts[j] \in Resolvable(P)
  BY <1>4, LenProperties
<1> HIDE DEF P
<1>10. ASSUME NEW j \in DOMAIN r.tgts
       PROVE  ResolveObj(r.tgts[j], VarsOf(P), vals) \in Positive
  <2> DEFINE p == r.tgts[j]
             o == ResolveObj(p, VarsOf(P), vals)
  <2>1. p \in Seq(Token) /\ Mentioned(p) \subseteq RangeOf(VarsOf(P))
    BY <1>9 DEF Resolvable
  <2>2. \A k \in DOMAIN p : ValueOf(p[k]) >= 0 /\ (p[k][1] = "expr" => p[k][3] >= 0)
    BY <1>5, <1>6
  <2> HIDE DEF p
  <2>3. /\ o \in Seq(Concrete) /\ Len(o) = Len(p)
        /\ \A i \in 1 .. Len(p) : Literal(p[i]) => o[i] = p[i]
    BY <1>3, <1>4, <2>1, ResolveIs
  <2>4. ASSUME NEW k \in 1 .. Len(p), ~Literal(p[k])
        PROVE  LET i == IndexOf(VarsOf(P), p[k][2])
               IN  /\ i \in 1 .. Len(LocsOf(P)) /\ vals[i] \in Int
                   /\ p[k][1] = "var" => ValueOf(o[k]) = vals[i]
                   /\ p[k][1] = "expr" => p[k][3] \in Int /\ ValueOf(o[k]) = vals[i] + p[k][3]
                   /\ p[k][1] \in {"var", "expr"}
    BY <1>3, <1>4, <2>1, <2>4, ResolvedAt
  <2> HIDE DEF o
  <2>5. DOMAIN o = 1 .. Len(p) /\ DOMAIN p = 1 .. Len(p)
    BY <2>1, <2>3, LenProperties
  <2>6. ASSUME NEW k \in 1 .. Len(p) PROVE ValueOf(o[k]) >= 0
    <3>1. CASE Literal(p[k])
      <4>1. o[k] = p[k] /\ ValueOf(p[k]) >= 0
        BY <2>2, <2>3, <2>5, <3>1
      <4> QED
        BY <4>1
    <3>2. CASE ~Literal(p[k])
      <4> DEFINE i == IndexOf(VarsOf(P), p[k][2])
      <4>1. /\ i \in 1 .. Len(LocsOf(P)) /\ vals[i] \in Int
            /\ p[k][1] = "var" => ValueOf(o[k]) = vals[i]
            /\ p[k][1] = "expr" => p[k][3] \in Int /\ ValueOf(o[k]) = vals[i] + p[k][3]
            /\ p[k][1] \in {"var", "expr"}
        BY <2>4, <3>2
      <4> HIDE DEF i
      <4>2. vals[i] >= 0 /\ (p[k][1] = "expr" => p[k][3] >= 0)
        BY <1>3, <1>7, <2>2, <2>5, <4>1
      <4>3. CASE p[k][1] = "var"
        <5>1. ValueOf(o[k]) = vals[i]
          BY <4>1, <4>3
        <5> QED
          BY <4>2, <5>1
      <4>4. CASE p[k][1] = "expr"
        <5>1. p[k][3] \in Int /\ p[k][3] >= 0 /\ ValueOf(o[k]) = vals[i] + p[k][3]
          BY <4>1, <4>2, <4>4
        <5> QED
          BY <4>1, <4>2, <5>1
      <4> QED
        BY <4>1, <4>3, <4>4
    <3> QED
      BY <3>1, <3>2
  <2>7. o \in Positive
    BY <2>3, <2>5, <2>6 DEF Positive
  <2> QED
    BY <2>7 DEF o, p
<1>11. [j \in DOMAIN r.tgts |-> ResolveObj(r.tgts[j], VarsOf(P), vals)] \in Seq(Positive)
  BY <1>9, <1>10, IsASeq
<1> QED
  BY <1>8, <1>11 DEF P, vals, r

\* Nothing under way has a negative number, nor has an entry.
Counted ==
    /\ NamesShaped
    /\ \A msg \in told : \A j \in DOMAIN msg.vals : msg.vals[j] >= 0
    /\ todo \in Seq(Positive)
    /\ EndsAtBase

LEMMA CountedTpoint ==
    ASSUME BasesFirst, Typed, NEW c \in DOMAIN conf.signals, BeneshTpoint(c),
           \A msg \in told : \A j \in DOMAIN msg.vals : msg.vals[j] >= 0
    PROVE  \A msg \in told' : \A j \in DOMAIN msg.vals : msg.vals[j] >= 0
<1> DEFINE tpoint == conf.signals[c][passed[c] + 1]
           matched == MatchedFor(conf.tprules, c, tpoint)
           n == FirstOf(matched)
           r == conf.tprules[n]
           v == ValuesAt(tpoint, LocsOf(r.rule))
           m == [rule |-> n, vals |-> v]
<1>1. PICK f \in DOMAIN Files : file = Files[f] /\ conf = Loaded(Files[f])
  BY DEF Typed, FromFile
<1>2. FileOK(Files[f].blocks)
  BY FilesOK
<1>3. told' = IF matched = {} THEN told ELSE told \cup {m}
  BY Zenon DEF BeneshTpoint, MatchedFor
<1>4. passed[c] + 1 \in DOMAIN conf.signals[c] /\ conf.signals[c] \in Seq(Seq(Concrete))
  <2>1. /\ conf.signals[c] \in Seq(Seq(Concrete)) /\ passed[c] \in 0 .. Len(conf.signals[c])
        /\ Len(conf.signals[c]) \in Nat /\ passed[c] < Len(conf.signals[c])
    BY LenProperties DEF Typed, BeneshTpoint
  <2> QED
    BY <2>1, LenProperties
<1>5. tpoint \in Positive
  <2>1. tpoint \in Seq(Concrete)
    BY <1>4, LenProperties
  <2>2. \A k \in DOMAIN tpoint : ValueOf(tpoint[k]) >= 0
    <3> DEFINE blocks == Files[f].blocks
    <3>1. \A d \in DOMAIN conf.signals : \A i \in DOMAIN conf.signals[d] :
              \A k \in DOMAIN conf.signals[d][i] : ValueOf(conf.signals[d][i][k]) >= 0
      <4>1. blocks = Files[f].blocks
        OBVIOUS
      <4> HIDE DEF blocks
      <4> QED
        BY <1>1, <4>1, BasesFirstIs
    <3> QED
      BY <1>4, <3>1
  <2> QED
    BY <2>1, <2>2 DEF Positive
<1> HIDE DEF tpoint
<1>6. ASSUME matched # {} PROVE \A j \in DOMAIN v : v[j] >= 0
  <2>1. tpoint \in Seq(Concrete)
    BY <1>5 DEF Positive
  <2>2. matched \subseteq Nat
    BY <1>1, <1>2, RulesAre DEF MatchedFor
  <2>3. n \in matched
    BY <1>6, <2>2, FirstIs
  <2> HIDE DEF n
  <2>4. n \in DOMAIN conf.tprules /\ MatchRule(r, c, tpoint)
    BY <2>3 DEF MatchedFor
  <2>5. r.rule \in Seq(Token)
    BY <1>1, <1>2, <2>4, RulesAre
  <2> HIDE DEF r
  <2>6. Len(r.rule) = Len(tpoint)
    BY <2>4, MatchedLen
  <2> QED
    BY <1>5, <2>5, <2>6, PositiveValues
<1> HIDE DEF v, matched, n
<1> QED
  BY <1>3, <1>6

LEMMA CountedSchedule ==
    ASSUME NumbersOnly, BasesFirst, Counted, ScheduleTarget
    PROVE  todo' \in Seq(Positive) /\ EndsAtBase'
<1> DEFINE obj == Head(todo)
           e == EntryOf(conf.tgts, obj)
           deps == DepsOf(conf.tgts, e)
<1>1. PICK f \in DOMAIN Files : file = Files[f] /\ conf = Loaded(file)
  BY DEF Counted, NamesShaped, Typed, FromFile
<1>2. FileOK(file.blocks)
  BY <1>1, FilesOK
<1>3. todo \in Seq(Positive) /\ todo \in Seq(Shaped(file.blocks)) /\ todo # <<>>
  BY DEF Counted, NamesShaped, ScheduleTarget
<1>4. obj \in Positive /\ obj \in Shaped(file.blocks) /\ Tail(todo) \in Seq(Positive)
  <2>1. Head(todo) \in Positive /\ Tail(todo) \in Seq(Positive)
    BY <1>3, HeadTailProperties
  <2>2. Head(todo) \in Shaped(file.blocks)
    BY <1>3, HeadTailProperties
  <2> QED
    BY <2>1, <2>2
<1>5. Matches(conf.tgts, obj) # {}
  BY DEF ScheduleTarget
<1>6. deps \in Seq(Positive)
  <2> HIDE DEF obj
  <2> QED
    BY <1>4, <1>5, DepsPositive DEF Counted, NamesShaped
<1>7. \A j \in DOMAIN e.vals : e.vals[j] >= 0
  <2> DEFINE r == conf.tgts[e.rule]
  <2> HIDE DEF obj
  <2>1. obj \in Seq(Concrete)
    BY <1>4 DEF Positive
  <2>2. /\ e.rule \in DOMAIN conf.tgts /\ MatchTargetRule(obj, r)
        /\ e.vals = ValuesAt(obj, LocsOf(r.name))
    BY <1>1, <1>2, <1>5, <2>1, EntryFound
  <2> HIDE DEF e
  <2>3. r.name \in Seq(Token) /\ Len(obj) = Len(r.name)
    BY <1>1, <1>2, <2>2, RulesAre DEF MatchTargetRule
  <2> QED
    BY <1>4, <2>2, <2>3, PositiveValues
<1>8. \/ /\ e \in DOMAIN names
         /\ names' = [names EXCEPT ![e] = @ \cup {obj}] /\ todo' = Tail(todo)
      \/ /\ e \notin DOMAIN names
         /\ names' = [x \in DOMAIN names \cup {e} |-> IF x = e THEN {obj} ELSE names[x]]
         /\ todo' = deps \o Tail(todo)
  BY DEF ScheduleTarget
<1> HIDE DEF obj, e, deps
<1>9. todo' \in Seq(Positive)
  <2>1. deps \o Tail(todo) \in Seq(Positive)
    BY <1>4, <1>6, ConcatProperties
  <2> QED
    BY <1>4, <1>8, <2>1
<1>10. DOMAIN names' \subseteq DOMAIN names \cup {e}
  BY <1>8
<1>11. EndsAtBase'
  BY <1>7, <1>10 DEF EndsAtBase, Counted
<1> QED
  BY <1>9, <1>11

LEMMA AlwaysCounted ==
    ASSUME NumbersOnly, BasesFirst
    PROVE  Spec => []Counted
<1>1. Init => Counted
  <2>1. Init => told = {} /\ todo \in Seq(Positive) /\ DOMAIN names = {}
    BY EmptySeq DEF Init
  <2>2. Init => NamesShaped
    <3>1. Init => todo \in Seq(Shaped(file.blocks))
      BY EmptySeq DEF Init
    <3> QED
      BY <2>1, <3>1, TypedInit DEF NamesShaped
  <2> QED
    BY <2>1, <2>2 DEF Counted, EndsAtBase
<1>2. ASSUME NamesShaped, NamesShaped', Counted, [Next]_vars PROVE Counted'
  <2>1. CASE UNCHANGED vars
    BY <1>2, <2>1 DEF vars, Counted, EndsAtBase
  <2>2. ASSUME NEW c \in DOMAIN conf.signals, BeneshTpoint(c) PROVE Counted'
    <3>1. \A msg \in told' : \A j \in DOMAIN msg.vals : msg.vals[j] >= 0
      BY <1>2, <2>2, CountedTpoint DEF Counted, NamesShaped
    <3>2. UNCHANGED <<todo, names>>
      BY <2>2 DEF BeneshTpoint
    <3> QED
      BY <1>2, <3>1, <3>2 DEF Counted, EndsAtBase
  <2>3. ASSUME NEW msg \in told, TpointWatch(msg) PROVE Counted'
    <3>1. todo' \in Seq(Positive)
      BY <1>2, <2>3, TargetsPositive DEF Counted, NamesShaped, TpointWatch
    <3>2. told' \subseteq told /\ UNCHANGED names
      BY <2>3 DEF TpointWatch
    <3> QED
      BY <1>2, <3>1, <3>2 DEF Counted, EndsAtBase
  <2>4. CASE ScheduleTarget
    <3>1. todo' \in Seq(Positive) /\ EndsAtBase'
      BY <1>2, <2>4, CountedSchedule
    <3>2. UNCHANGED told
      BY <2>4 DEF ScheduleTarget
    <3> QED
      BY <1>2, <3>1, <3>2 DEF Counted
  <2> QED
    BY <1>2, <2>1, <2>2, <2>3, <2>4 DEF Next
<1> QED
  BY <1>1, <1>2, AlwaysShaped, PTL DEF Spec

\* For all files in which variables stand for numbers and an expression that
\* would count below 0 has an earlier rule to stop at: the recursion of
\* schedule_target never names a version of an object before the first, since
\* find_target_rule takes the rules in the order of the file.
THEOREM RecursionEnds ==
    ASSUME NumbersOnly, BasesFirst
    PROVE  Spec => []EndsAtBase
<1>1. Counted => EndsAtBase
  BY DEF Counted
<1> QED
  BY <1>1, AlwaysCounted, PTL

-----------------------------------------------------------------------------
(***************************************************************************)
(* No object waits for itself: with every dependency the rank falls.       *)
(***************************************************************************)

\* One round: unless all of S is built, something that was not before is now.
LEMMA BuiltNext ==
    ASSUME NEW S, NEW needs, NEW rank \in [S -> Nat],
           \A e \in S : \A x \in needs[e] \cap S : rank[x] < rank[e],
           NEW B, B \subseteq S, B # S
    PROVE  \E e \in S \ B : needs[e] \cap S \subseteq B
<1> DEFINE Left == {n \in Nat : \E e \in S \ B : rank[e] = n}
           least == FirstOf(Left)
<1>1. Left # {} /\ Left \subseteq Nat
  <2>1. PICK e \in S \ B : TRUE
    OBVIOUS
  <2>2. rank[e] \in Left
    BY <2>1
  <2> QED
    BY <2>2
<1>2. least \in Left /\ \A n \in Left : least <= n
  <2> HIDE DEF Left
  <2> QED
    BY <1>1, FirstIs
<1> HIDE DEF least
<1>3. PICK e \in S \ B : rank[e] = least
  BY <1>2
<1>4. ASSUME NEW x \in needs[e] \cap S, x \notin B PROVE FALSE
  <2>1. rank[x] \in Left /\ rank[x] < rank[e] /\ rank[x] \in Nat /\ rank[e] \in Nat
    BY <1>3, <1>4
  <2> HIDE DEF Left
  <2>2. least <= rank[x]
    BY <1>2, <2>1
  <2> QED
    BY <1>3, <2>1, <2>2
<1> QED
  BY <1>4

\* The recursive function behind BuiltUp.
Rounds(S, needs, n, g) ==
    g = [k \in 0 .. n |->
            IF k = 0 THEN {} ELSE {e \in S : needs[e] \cap S \subseteq g[k - 1]}]

LEMMA RoundsExist ==
    ASSUME NEW S, NEW needs, NEW n \in Nat
    PROVE  \E g : Rounds(S, needs, n, g)
<1> DEFINE M == {m \in Nat : \E g : Rounds(S, needs, m, g)}
<1>1. 0 \in M
  <2> DEFINE g == [k \in 0 .. 0 |-> {}]
  <2>1. Rounds(S, needs, 0, g)
    BY DEF Rounds
  <2> QED
    BY <2>1
<1>2. ASSUME NEW m \in Nat, m \in M PROVE m + 1 \in M
  <2>1. PICK g : Rounds(S, needs, m, g)
    BY <1>2
  <2> DEFINE next(h, k) == {e \in S : needs[e] \cap S \subseteq h[k - 1]}
             h == [k \in 0 .. m + 1 |-> IF k = 0 THEN {} ELSE next(g, k)]
  <2>2. ASSUME NEW k \in 0 .. m PROVE h[k] = g[k]
    <3>1. k \in 0 .. m + 1
      OBVIOUS
    <3>2. g[k] = IF k = 0 THEN {} ELSE next(g, k)
      BY <2>1 DEF Rounds
    <3> QED
      BY <3>1, <3>2
  <2>3. \A k \in 0 .. m + 1 : k # 0 => k - 1 \in 0 .. m
    OBVIOUS
  <2>4. ASSUME NEW k \in 0 .. m + 1 PROVE h[k] = IF k = 0 THEN {} ELSE next(h, k)
    <3>1. CASE k = 0
      BY <3>1
    <3>2. CASE k # 0
      <4>1. h[k - 1] = g[k - 1]
        BY <2>2, <2>3, <3>2
      <4>2. h[k] = next(g, k)
        BY <3>2
      <4> QED
        BY <3>2, <4>1, <4>2
    <3> QED
      BY <3>1, <3>2
  <2>5. h = [k \in 0 .. m + 1 |-> h[k]]
    OBVIOUS
  <2> HIDE DEF h
  <2>6. Rounds(S, needs, m + 1, h)
    BY <2>4, <2>5 DEF Rounds
  <2> QED
    BY <2>6
<1> HIDE DEF M
<1>3. n \in M
  BY <1>1, <1>2, Induction
<1> QED
  BY <1>3 DEF M

\* A finite set whose needs have lower ranks is built up in as many rounds as
\* it has members.
LEMMA AllBuilt ==
    ASSUME NEW S, IsFiniteSet(S), NEW needs, NEW rank \in [S -> Nat],
           \A e \in S : \A x \in needs[e] \cap S : rank[x] < rank[e]
    PROVE  BuiltUp(S, needs) = S
<1> DEFINE N == Cardinality(S)
           b == CHOOSE g : Rounds(S, needs, N, g)
<1>1. N \in Nat
  BY FS_CardinalityType
<1>2. Rounds(S, needs, N, b)
  <2> HIDE DEF N
  <2> QED
    BY <1>1, RoundsExist
<1>3. BuiltUp(S, needs) = b[N]
  BY DEF BuiltUp, Rounds
<1> HIDE DEF N, b
<1>4. /\ b[0] = {}
      /\ \A k \in 0 .. N : k # 0 => b[k] = {e \in S : needs[e] \cap S \subseteq b[k - 1]}
  <2>1. \A k \in 0 .. N :
            b[k] = IF k = 0 THEN {} ELSE {e \in S : needs[e] \cap S \subseteq b[k - 1]}
    BY <1>2 DEF Rounds
  <2>2. 0 \in 0 .. N
    BY <1>1
  <2> QED
    BY <2>1, <2>2, Zenon
<1> DEFINE Good(n) ==
               /\ b[n] \subseteq S
               /\ n # 0 => b[n - 1] \subseteq b[n]
               /\ b[n] = S \/ Cardinality(b[n]) >= n
           K == {n \in Nat : n <= N => Good(n)}
<1>5. 0 \in K
  BY <1>4, FS_EmptySet
<1>6. ASSUME NEW n \in Nat, n \in K PROVE n + 1 \in K
  <2> SUFFICES ASSUME n + 1 <= N PROVE Good(n + 1)
    OBVIOUS
  <2> DEFINE B == b[n]
             C == b[n + 1]
  <2>1. n \in 0 .. N /\ n + 1 \in 0 .. N /\ n + 1 # 0 /\ (n + 1) - 1 = n
    BY <1>1
  <2>2. Good(n)
    BY <1>1, <1>6, <2>1
  <2>3. C = {e \in S : needs[e] \cap S \subseteq B}
    BY <1>4, <2>1
  <2>4. B \subseteq C
    <3>1. CASE n = 0
      BY <1>4, <3>1
    <3>2. CASE n # 0
      <4>1. B = {e \in S : needs[e] \cap S \subseteq b[n - 1]} /\ b[n - 1] \subseteq B
        BY <1>4, <2>1, <2>2, <3>2
      <4> QED
        BY <2>3, <4>1
    <3> QED
      BY <3>1, <3>2
  <2>5. B \subseteq S /\ C \subseteq S /\ (B = S \/ Cardinality(B) >= n)
    BY <2>2, <2>3
  <2> HIDE DEF B, C
  <2>6. C = S \/ Cardinality(C) >= n + 1
    <3>1. CASE B = S
      BY <2>4, <2>5, <3>1
    <3>2. CASE B # S
      <4>1. PICK e \in S \ B : needs[e] \cap S \subseteq B
        BY <2>5, <3>2, BuiltNext
      <4>2. B \cup {e} \subseteq C
        BY <2>3, <2>4, <4>1
      <4>3. IsFiniteSet(B) /\ IsFiniteSet(C) /\ Cardinality(B) \in Nat /\ Cardinality(C) \in Nat
        BY <2>5, FS_Subset, FS_CardinalityType
      <4>4. Cardinality(B \cup {e}) = Cardinality(B) + 1
        BY <4>1, <4>3, FS_AddElement
      <4>5. Cardinality(B \cup {e}) <= Cardinality(C)
        BY <4>2, <4>3, FS_Subset
      <4> QED
        BY <2>5, <3>2, <4>3, <4>4, <4>5
    <3> QED
      BY <3>1, <3>2
  <2> QED
    BY <2>1, <2>4, <2>5, <2>6 DEF B, C
<1>7. N \in K
  <2> HIDE DEF K
  <2> QED
    BY <1>1, <1>5, <1>6, Induction
<1>8. b[N] \subseteq S /\ (b[N] = S \/ Cardinality(b[N]) >= N)
  BY <1>1, <1>7
<1>9. Cardinality(b[N]) >= N => b[N] = S
  <2>1. IsFiniteSet(b[N]) /\ Cardinality(b[N]) <= N /\ Cardinality(b[N]) \in Nat
        /\ (N = Cardinality(b[N]) => S = b[N])
    BY <1>8, FS_Subset, FS_CardinalityType DEF N
  <2> QED
    BY <1>1, <2>1
<1> QED
  BY <1>3, <1>8, <1>9

\* The version of a name.
Version(obj) == ValueOf(obj[Len(obj)])

\* What the hypothesis says of the tables of a file.
LEMMA RankedIs ==
    ASSUME NEW scale, NEW rank, Ranked(scale, rank), NEW f \in DOMAIN Files, conf = Loaded(Files[f]),
           NEW n \in DOMAIN conf.tgts
    PROVE  /\ rank[f][n] \in Nat /\ conf.tgts[n].name # <<>>
           /\ \A d \in DOMAIN conf.tgts[n].deps, m \in DOMAIN conf.tgts :
                 LET p == conf.tgts[n].deps[d]
                     P == conf.tgts[n].name
                     q == conf.tgts[m].name
                 IN  (Len(q) = Len(p) /\ \A k \in DOMAIN q : Literal(q[k]) /\ Literal(p[k]) => q[k] = p[k])
                     => /\ Literal(p[Len(p)]) \/ PlaceOf(P, p[Len(p)][2]) = Len(P)
                        /\ scale * Ahead(p, P) + rank[f][m] < rank[f][n]
<1> DEFINE T == Loaded(Files[f]).tgts
<1>1. conf.tgts = T
  OBVIOUS
<1>2. ASSUME NEW d \in DOMAIN T[n].deps, NEW m \in DOMAIN T,
             Len(T[m].name) = Len(T[n].deps[d]),
             \A k \in DOMAIN T[m].name :
                 Literal(T[m].name[k]) /\ Literal(T[n].deps[d][k]) => T[m].name[k] = T[n].deps[d][k]
      PROVE  /\ \/ Literal(T[n].deps[d][Len(T[n].deps[d])])
                \/ PlaceOf(T[n].name, T[n].deps[d][Len(T[n].deps[d])][2]) = Len(T[n].name)
             /\ scale * Ahead(T[n].deps[d], T[n].name) + rank[f][m] < rank[f][n]
  BY <1>1, <1>2, Zenon DEF Ranked
<1>3. rank[f][n] \in Nat /\ T[n].name # <<>>
  BY <1>1, Zenon DEF Ranked
<1> QED
  BY <1>1, <1>2, <1>3

\* The arithmetic of ranks.
LEMMA RankSteps ==
    ASSUME NEW c \in Nat, NEW x \in Int, NEW s \in Int, NEW t \in Int
    PROVE  /\ \A k \in Int : c * k + t < s => c * (x + k) + t < c * x + s
           /\ \A u, v \in Int : c * (u - v) + t < s /\ v <= x => c * u + t < c * x + s
<1>1. ASSUME NEW k \in Int PROVE c * (x + k) = c * x + c * k
  OBVIOUS
<1>2. ASSUME NEW u \in Int, NEW v \in Int, v <= x
      PROVE  c * (u - v) = c * u - c * v /\ c * v <= c * x
  <2>1. x - v \in Nat /\ c * (x - v) >= 0 /\ c * (x - v) = c * x - c * v
    BY <1>2
  <2>2. c * v \in Int /\ c * x \in Int
    OBVIOUS
  <2>3. c * v <= c * x
    BY <2>1, <2>2
  <2> QED
    BY <2>3
<1>3. ASSUME NEW k \in Int, c * k + t < s PROVE c * (x + k) + t < c * x + s
  <2>1. c * k \in Int /\ c * x \in Int
    OBVIOUS
  <2> QED
    BY <1>1, <1>3, <2>1
<1>4. ASSUME NEW u \in Int, NEW v \in Int, c * (u - v) + t < s, v <= x
      PROVE  c * u + t < c * x + s
  <2>1. c * u \in Int /\ c * v \in Int /\ c * x \in Int
    OBVIOUS
  <2> QED
    BY <1>2, <1>4, <2>1
<1> QED
  BY <1>3, <1>4

\* A name is at most as early as the pattern it matches says, and exactly
\* where the version is a variable: a dependency has a lower rank.
LEMMA RankFalls ==
    ASSUME Typed, NEW scale \in Nat, NEW rank, Ranked(scale, rank),
           NEW f \in DOMAIN Files, file = Files[f], conf = Loaded(file),
           NEW obj \in Positive, Matches(conf.tgts, obj) # {},
           NEW to \in RangeOf(DepsOf(conf.tgts, EntryOf(conf.tgts, obj))),
           to \in Seq(Concrete), Matches(conf.tgts, to) # {}
    PROVE  scale * Version(to) + rank[f][EntryOf(conf.tgts, to).rule]
               < scale * Version(obj) + rank[f][EntryOf(conf.tgts, obj).rule]
<1> DEFINE e == EntryOf(conf.tgts, obj)
           n == e.rule
           m == EntryOf(conf.tgts, to).rule
           r == conf.tgts[n]
           P == r.name
           q == conf.tgts[m].name
           vals == e.vals
<1>1. FileOK(file.blocks)
  BY FilesOK
<1>2. obj \in Seq(Concrete) /\ DOMAIN obj = 1 .. Len(obj) /\ \A k \in DOMAIN obj : ValueOf(obj[k]) >= 0
  BY LenProperties DEF Positive
<1>3. n \in DOMAIN conf.tgts /\ MatchTargetRule(obj, r) /\ vals = ValuesAt(obj, LocsOf(P))
  BY <1>1, <1>2, EntryFound
<1>4. m \in DOMAIN conf.tgts /\ MatchTargetRule(to, conf.tgts[m])
  BY <1>1, EntryFound
<1>5. DepsOf(conf.tgts, e) = [d \in DOMAIN r.deps |-> ResolveObj(r.deps[d], VarsOf(P), vals)]
  BY DEF DepsOf
<1>6. PICK d \in DOMAIN r.deps : to = ResolveObj(r.deps[d], VarsOf(P), vals)
  <2> HIDE DEF e, r
  <2> QED
    BY <1>5 DEF RangeOf, e
<1> HIDE DEF e, n, m
<1>7. P \in Seq(Token) /\ r.deps \in Seq(Resolvable(P)) /\ q \in Seq(Token)
  BY <1>1, <1>3, <1>4, RulesAre
<1> DEFINE p == r.deps[d]
<1>8. p \in Seq(Token) /\ Mentioned(p) \subseteq RangeOf(VarsOf(P))
  <2>1. p \in Resolvable(P)
    BY <1>6, <1>7, LenProperties
  <2> QED
    BY <2>1 DEF Resolvable
<1>9. /\ rank[f][n] \in Nat /\ rank[f][m] \in Nat /\ P # <<>> /\ q # <<>>
      /\ Len(q) = Len(p) /\ (\A k \in DOMAIN q : Literal(q[k]) /\ Literal(p[k]) => q[k] = p[k])
         => /\ Literal(p[Len(p)]) \/ PlaceOf(P, p[Len(p)][2]) = Len(P)
            /\ scale * Ahead(p, P) + rank[f][m] < rank[f][n]
  <2>1. /\ rank[f][n] \in Nat /\ P # <<>>
        /\ \A c \in DOMAIN r.deps :
              Len(q) = Len(r.deps[c])
              /\ (\A k \in DOMAIN q : Literal(q[k]) /\ Literal(r.deps[c][k]) => q[k] = r.deps[c][k])
              => /\ Literal(r.deps[c][Len(r.deps[c])]) \/ PlaceOf(P, r.deps[c][Len(r.deps[c])][2]) = Len(P)
                 /\ scale * Ahead(r.deps[c], P) + rank[f][m] < rank[f][n]
    BY <1>3, <1>4, RankedIs
  <2>2. rank[f][m] \in Nat /\ q # <<>>
    BY <1>4, RankedIs
  <2> HIDE DEF r, P, q
  <2> QED
    BY <1>6, <2>1, <2>2
<1>10. Len(P) = Len(obj) /\ \A k \in DOMAIN obj : Literal(P[k]) => P[k] = obj[k]
  BY <1>3 DEF MatchTargetRule
<1>11. Len(q) = Len(to) /\ \A k \in DOMAIN to : Literal(q[k]) => q[k] = to[k]
  BY <1>4 DEF MatchTargetRule
<1> HIDE DEF r, P, q, vals, p
<1>12. /\ vals \in Seq(Int) /\ DOMAIN vals = 1 .. Len(LocsOf(P))
       /\ \A j \in 1 .. Len(LocsOf(P)) : vals[j] = ValueOf(obj[LocsOf(P)[j]])
  <2>1. /\ ValuesAt(obj, LocsOf(P)) \in Seq(Int)
        /\ DOMAIN ValuesAt(obj, LocsOf(P)) = 1 .. Len(LocsOf(P))
        /\ \A j \in 1 .. Len(LocsOf(P)) : ValuesAt(obj, LocsOf(P))[j] = ValueOf(obj[LocsOf(P)[j]])
    BY <1>2, <1>7, <1>10, ValuesIs
  <2>2. vals = ValuesAt(obj, LocsOf(P))
    BY <1>3 DEF P
  <2> QED
    BY <2>1, <2>2
<1>13. to = ResolveObj(p, VarsOf(P), vals)
  BY <1>6 DEF p
<1>14. Len(to) = Len(p) /\ \A i \in 1 .. Len(p) : Literal(p[i]) => to[i] = p[i]
  BY <1>7, <1>8, <1>12, <1>13, ResolveIs
<1>15. /\ DOMAIN to = 1 .. Len(p) /\ DOMAIN q = 1 .. Len(p) /\ DOMAIN obj = 1 .. Len(P)
       /\ Len(p) \in Nat /\ Len(P) \in Nat
  BY <1>2, <1>7, <1>8, <1>10, <1>11, <1>14, LenProperties
<1>16. \A k \in DOMAIN q : Literal(q[k]) /\ Literal(p[k]) => q[k] = p[k]
  BY <1>11, <1>14, <1>15
<1>17. /\ Literal(p[Len(p)]) \/ PlaceOf(P, p[Len(p)][2]) = Len(P)
       /\ scale * Ahead(p, P) + rank[f][m] < rank[f][n]
  BY <1>9, <1>11, <1>14, <1>16
<1>18. Len(p) \in 1 .. Len(p) /\ Len(P) \in 1 .. Len(P)
  BY <1>7, <1>9, <1>11, <1>14, <1>15, EmptySeq
<1>19. Version(to) = ValueOf(to[Len(p)]) /\ Version(obj) = ValueOf(obj[Len(P)])
  BY <1>10, <1>14 DEF Version
<1>20. ValueOf(obj[Len(P)]) \in Int /\ ValueOf(obj[Len(P)]) >= 0
  BY <1>2, <1>15, <1>18, LenProperties, ConcreteIs
<1>21. CASE Literal(p[Len(p)])
  <2>1. ValueOf(p[Len(p)]) \in Int /\ ValueOf(P[Len(P)]) \in Int
    BY <1>7, <1>8, <1>18, LenProperties, ValueIs
  <2>2. ValueOf(P[Len(P)]) <= ValueOf(obj[Len(P)])
    <3>1. CASE Literal(P[Len(P)])
      <4>1. P[Len(P)] = obj[Len(P)]
        BY <1>10, <1>15, <1>18, <3>1
      <4> QED
        BY <1>20, <4>1
    <3>2. CASE ~Literal(P[Len(P)])
      <4>1. ValueOf(P[Len(P)]) = 0
        BY <3>2, Zenon DEF ValueOf, Literal
      <4> QED
        BY <1>20, <4>1
    <3> QED
      BY <3>1, <3>2
  <2>3. Ahead(p, P) = ValueOf(p[Len(p)]) - ValueOf(P[Len(P)])
    BY <1>21 DEF Ahead
  <2>4. Version(to) = ValueOf(p[Len(p)])
    BY <1>14, <1>18, <1>19, <1>21
  <2> QED
    <3>1. scale * Version(to) + rank[f][m] < scale * Version(obj) + rank[f][n]
      <4>1. scale * (ValueOf(p[Len(p)]) - ValueOf(P[Len(P)])) + rank[f][m] < rank[f][n]
        BY <1>17, <2>3
      <4>2. rank[f][n] \in Int /\ rank[f][m] \in Int
        BY <1>9
      <4> HIDE DEF p, P
      <4>3. scale * ValueOf(p[Len(p)]) + rank[f][m] < scale * ValueOf(obj[Len(P)]) + rank[f][n]
        BY <1>20, <2>1, <2>2, <4>1, <4>2, RankSteps
      <4> QED
        BY <1>19, <2>4, <4>3
    <3> QED
      BY <3>1 DEF n, m, e
<1>22. CASE ~Literal(p[Len(p)])
  <2> DEFINE v == p[Len(p)][2]
             j == IndexOf(VarsOf(P), v)
  <2>1. /\ j \in 1 .. Len(LocsOf(P)) /\ vals[j] \in Int
        /\ p[Len(p)][1] = "var" => ValueOf(to[Len(p)]) = vals[j]
        /\ p[Len(p)][1] = "expr" =>
              p[Len(p)][3] \in Int /\ ValueOf(to[Len(p)]) = vals[j] + p[Len(p)][3]
        /\ p[Len(p)][1] \in {"var", "expr"}
    BY <1>7, <1>8, <1>12, <1>13, <1>18, <1>22, ResolvedAt
  <2>2. LocsOf(P)[j] = Len(P)
    BY <1>17, <1>22 DEF PlaceOf
  <2> HIDE DEF j
  <2>3. vals[j] = Version(obj)
    BY <1>12, <1>19, <2>1, <2>2
  <2>4. Ahead(p, P) \in Int /\ Version(to) = Version(obj) + Ahead(p, P)
    <3>1. CASE p[Len(p)][1] = "var"
      <4>1. Ahead(p, P) = 0
        BY <1>22, <3>1 DEF Ahead
      <4>2. Version(to) = Version(obj)
        BY <1>19, <2>1, <2>3, <3>1
      <4> QED
        BY <1>19, <1>20, <4>1, <4>2
    <3>2. CASE p[Len(p)][1] = "expr"
      <4>1. Ahead(p, P) = p[Len(p)][3]
        BY <1>22, <3>2 DEF Ahead
      <4> QED
        BY <1>19, <2>1, <2>3, <3>2, <4>1
    <3> QED
      BY <2>1, <3>1, <3>2
  <2> QED
    <3>1. scale * Version(to) + rank[f][m] < scale * Version(obj) + rank[f][n]
      <4>1. scale * Ahead(p, P) + rank[f][m] < rank[f][n] /\ rank[f][n] \in Int /\ rank[f][m] \in Int
        BY <1>9, <1>17
      <4>2. Version(obj) \in Int
        BY <1>19, <1>20
      <4>3. scale * (Version(obj) + Ahead(p, P)) + rank[f][m] < scale * Version(obj) + rank[f][n]
        BY <2>4, <4>1, <4>2, RankSteps
      <4> QED
        BY <2>4, <4>3
    <3> QED
      BY <3>1 DEF n, m, e
<1> QED
  BY <1>21, <1>22

\* What an entry's rule mentions is on its way or has an entry.
DepsFollow ==
    \A e \in DOMAIN names :
        RangeOf(DepsOf(conf.tgts, e)) \subseteq RangeOf(todo) \cup UNION RangeOf(names)

Followed ==
    /\ Counted
    /\ IsFiniteSet(DOMAIN names)
    /\ \A e \in DOMAIN names : names[e] \subseteq Positive
    /\ DepsFollow

LEMMA FollowedSchedule ==
    ASSUME Followed, Counted', ScheduleTarget
    PROVE  Followed'
<1> DEFINE obj == Head(todo)
           e == EntryOf(conf.tgts, obj)
<1>1. /\ RangeOf(todo) \cup UNION RangeOf(names) \subseteq RangeOf(todo') \cup UNION RangeOf(names')
      /\ DOMAIN names' = DOMAIN names \cup {e}
      /\ e \notin DOMAIN names => RangeOf(DepsOf(conf.tgts, e)) \subseteq RangeOf(todo')
      /\ names'[e] \subseteq {obj} \cup IF e \in DOMAIN names THEN names[e] ELSE {}
      /\ \A x \in DOMAIN names : x # e => names'[x] = names[x]
  BY ScheduleKeeps DEF Followed, Counted, NamesShaped
<1>2. conf' = conf /\ todo # <<>>
  BY DEF ScheduleTarget
<1>3. obj \in Positive
  BY <1>2, HeadTailProperties DEF Followed, Counted
<1> HIDE DEF obj, e
<1>4. IsFiniteSet(DOMAIN names')
  BY <1>1, FS_AddElement DEF Followed
<1>5. \A x \in DOMAIN names' : names'[x] \subseteq Positive
  BY <1>1, <1>3 DEF Followed
<1>6. \A x \in DOMAIN names' :
          RangeOf(DepsOf(conf.tgts, x)) \subseteq RangeOf(todo') \cup UNION RangeOf(names')
  BY <1>1 DEF Followed, DepsFollow
<1>7. DepsFollow'
  BY <1>2, <1>6 DEF DepsFollow
<1> QED
  BY <1>4, <1>5, <1>7 DEF Followed

LEMMA AlwaysFollowed ==
    ASSUME NumbersOnly, BasesFirst
    PROVE  Spec => []Followed
<1>1. Init /\ Counted => Followed
  <2>1. Init => DOMAIN names = {}
    BY EmptySeq DEF Init
  <2> QED
    BY <2>1, FS_EmptySet DEF Followed, DepsFollow
<1>2. ASSUME Followed, Counted', [Next]_vars PROVE Followed'
  <2>1. CASE UNCHANGED vars
    BY <1>2, <2>1 DEF vars, Followed, DepsFollow
  <2>2. ASSUME NEW c \in DOMAIN conf.signals, BeneshTpoint(c) PROVE Followed'
    <3>1. UNCHANGED <<conf, todo, names>>
      BY <2>2 DEF BeneshTpoint
    <3> QED
      BY <1>2, <3>1 DEF Followed, DepsFollow
  <2>3. ASSUME NEW msg \in told, TpointWatch(msg) PROVE Followed'
    <3>1. todo = <<>> /\ UNCHANGED <<conf, names>>
      BY <2>3 DEF TpointWatch
    <3>2. RangeOf(todo) = {}
      BY <3>1, EmptySeq DEF RangeOf
    <3>3. \A e \in DOMAIN names : RangeOf(DepsOf(conf.tgts, e)) \subseteq UNION RangeOf(names)
      BY <1>2, <3>2 DEF Followed, DepsFollow
    <3>4. DepsFollow'
      BY <3>1, <3>3 DEF DepsFollow
    <3> QED
      BY <1>2, <3>1, <3>4 DEF Followed
  <2>4. CASE ScheduleTarget
    BY <1>2, <2>4, FollowedSchedule
  <2> QED
    BY <1>2, <2>1, <2>2, <2>3, <2>4 DEF Next
<1> QED
  BY <1>1, <1>2, AlwaysCounted, PTL DEF Spec

\* The ranks of the entries: an entry has one name, and the ranks of what it
\* needs are lower.
LEMMA FollowedFalls ==
    ASSUME NumbersOnly, Followed, todo = <<>>, NEW scale \in Nat, NEW rank, Ranked(scale, rank),
           NEW f \in DOMAIN Files, file = Files[f], conf = Loaded(file)
    PROVE  LET height(e) == scale * Version(CHOOSE obj \in names[e] : TRUE) + rank[f][e.rule]
           IN  \A e \in DOMAIN names :
                   /\ height(e) \in Nat
                   /\ \A to \in RangeOf(DepsOf(conf.tgts, e)) :
                          /\ EntryOf(conf.tgts, to) \in DOMAIN names
                          /\ height(EntryOf(conf.tgts, to)) < height(e)
<1> DEFINE NameOf(e) == CHOOSE obj \in names[e] : TRUE
           height(e) == scale * Version(NameOf(e)) + rank[f][e.rule]
<1>1. \A e \in DOMAIN names :
          NameOf(e) \in names[e] /\ NameOf(e) \in Positive /\ Entered(e, NameOf(e))
          /\ e.rule \in DOMAIN conf.tgts
  BY DEF Followed, Counted, NamesShaped, Typed
<1>2. \A e \in DOMAIN names : \A obj \in names[e] : obj = NameOf(e)
  BY <1>1, SameName DEF Followed, Counted
<1> HIDE DEF NameOf
<1>3. ASSUME NEW e \in DOMAIN names PROVE height(e) \in Nat
  <2> DEFINE obj == NameOf(e)
  <2>1. /\ obj \in Seq(Concrete) /\ Matches(conf.tgts, obj) # {}
        /\ e.rule = EntryOf(conf.tgts, obj).rule /\ e.rule \in DOMAIN conf.tgts
    BY <1>1 DEF Entered
  <2>2. MatchTargetRule(obj, conf.tgts[e.rule])
    BY <2>1, FilesOK, EntryFound
  <2>3. rank[f][e.rule] \in Nat /\ conf.tgts[e.rule].name # <<>>
    BY <2>1, RankedIs
  <2>4. Len(obj) = Len(conf.tgts[e.rule].name) /\ conf.tgts[e.rule].name \in Seq(Token)
    BY <2>1, <2>2, FilesOK, RulesAre DEF MatchTargetRule
  <2> HIDE DEF obj
  <2>5. Len(obj) \in 1 .. Len(obj) /\ DOMAIN obj = 1 .. Len(obj)
    BY <2>1, <2>3, <2>4, LenProperties, EmptySeq
  <2>6. obj[Len(obj)] \in Concrete /\ ValueOf(obj[Len(obj)]) >= 0
    BY <1>1, <2>1, <2>5, LenProperties DEF Positive, obj
  <2>7. Version(obj) \in Nat
    BY <2>6, ConcreteIs DEF Version
  <2> QED
    BY <2>3, <2>7 DEF obj
<1>4. ASSUME NEW e \in DOMAIN names, NEW to \in RangeOf(DepsOf(conf.tgts, e))
      PROVE  EntryOf(conf.tgts, to) \in DOMAIN names /\ height(EntryOf(conf.tgts, to)) < height(e)
  <2>1. RangeOf(todo) = {}
    BY EmptySeq DEF RangeOf
  <2>2. PICK x \in DOMAIN names : to \in names[x]
    <3>1. to \in UNION RangeOf(names)
      BY <2>1 DEF Followed, DepsFollow
    <3> QED
      BY <3>1 DEF RangeOf
  <2>3. Entered(x, to) /\ to = NameOf(x)
    BY <1>2, <2>2 DEF Followed, Counted, NamesShaped, Typed
  <2>4. x = EntryOf(conf.tgts, to) /\ to \in Seq(Concrete) /\ Matches(conf.tgts, to) # {}
    BY <2>3 DEF Entered
  <2>5. e = EntryOf(conf.tgts, NameOf(e)) /\ NameOf(e) \in Positive /\ Matches(conf.tgts, NameOf(e)) # {}
    BY <1>1 DEF Entered
  <2>6. scale * Version(to) + rank[f][EntryOf(conf.tgts, to).rule]
            < scale * Version(NameOf(e)) + rank[f][EntryOf(conf.tgts, NameOf(e)).rule]
    <3>1. to \in RangeOf(DepsOf(conf.tgts, EntryOf(conf.tgts, NameOf(e))))
      BY <2>5
    <3>2. Typed
      BY DEF Followed, Counted, NamesShaped
    <3> DEFINE obj == NameOf(e)
    <3> HIDE DEF obj
    <3>3. /\ obj \in Positive /\ Matches(conf.tgts, obj) # {}
          /\ to \in RangeOf(DepsOf(conf.tgts, EntryOf(conf.tgts, obj)))
      BY <2>5, <3>1 DEF obj
    <3>4. scale * Version(to) + rank[f][EntryOf(conf.tgts, to).rule]
              < scale * Version(obj) + rank[f][EntryOf(conf.tgts, obj).rule]
      BY <2>4, <3>2, <3>3, RankFalls
    <3> QED
      BY <3>4 DEF obj
  <2> QED
    BY <2>2, <2>3, <2>4, <2>5, <2>6
<1> QED
  BY <1>3, <1>4 DEF NameOf

\* For all files in which variables stand for numbers, an expression that
\* would count below 0 has an earlier rule to stop at, and the rules have
\* ranks: when schedule_target has returned, the known objects can be built up
\* from those without dependencies, so that none waits, through objects that
\* it needs, for itself.
THEOREM NothingWaitsForItself ==
    ASSUME NumbersOnly, BasesFirst, NEW scale \in Nat, NEW rank, Ranked(scale, rank)
    PROVE  Spec => []Grounded
<1>1. ASSUME Followed PROVE Grounded
  <2> SUFFICES ASSUME todo = <<>>
               PROVE  LET needs == [e \in DOMAIN names |->
                                       {EntryOf(conf.tgts, obj) : obj \in RangeOf(DepsOf(conf.tgts, e))}]
                      IN  BuiltUp(DOMAIN names, needs) = DOMAIN names
    BY DEF Grounded
  <2>1. PICK f \in DOMAIN Files : file = Files[f] /\ conf = Loaded(file)
    BY <1>1 DEF Followed, Counted, NamesShaped, Typed, FromFile
  <2> DEFINE needs == [e \in DOMAIN names |->
                          {EntryOf(conf.tgts, obj) : obj \in RangeOf(DepsOf(conf.tgts, e))}]
             height(e) == scale * Version(CHOOSE obj \in names[e] : TRUE) + rank[f][e.rule]
             heights == [e \in DOMAIN names |-> height(e)]
  <2>2. \A e \in DOMAIN names :
            /\ height(e) \in Nat
            /\ \A to \in RangeOf(DepsOf(conf.tgts, e)) :
                   height(EntryOf(conf.tgts, to)) < height(e)
    BY <1>1, <2>1, FollowedFalls
  <2> HIDE DEF height
  <2>3. heights \in [DOMAIN names -> Nat]
    BY <2>2
  <2>4. \A e \in DOMAIN names : \A x \in needs[e] \cap DOMAIN names : heights[x] < heights[e]
    BY <2>2
  <2>5. IsFiniteSet(DOMAIN names)
    BY <1>1 DEF Followed
  <2> HIDE DEF needs, heights
  <2>6. BuiltUp(DOMAIN names, needs) = DOMAIN names
    BY <2>3, <2>4, <2>5, AllBuilt
  <2> QED
    BY <2>6 DEF needs
<1> QED
  BY <1>1, AlwaysFollowed, PTL

=============================================================================
