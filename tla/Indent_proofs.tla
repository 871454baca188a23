--------------------------- MODULE Indent_proofs -----------------------------
(***************************************************************************)
(* Proofs about module Indent, for every set of files: the stack of levels *)
(* is never popped below the left margin, whatever the layout of the file  *)
(* and whatever the lexer has made up in its input; every line is returned *)
(* once, and as deep in the blocks as it is written; and all blocks are    *)
(* closed at the end.                                                      *)
(*                                                                         *)
(* A text is followed with the column of each of its characters.  What the *)
(* lexer has still to scan differs from what is left of the file by white  *)
(* space and by the made-up line only, and the columns at which the lines  *)
(* of the file are do not change when it writes back into its input.       *)
(***************************************************************************)
EXTENDS Indent, SequenceTheorems, FiniteSetTheorems, WellFoundedInduction, TLAPS

\* A stack of levels: they get smaller towards the bottom, which is the
\* left margin.
Stack(s) ==
    /\ s \in Seq(Nat) /\ s # <<>>
    /\ s[Len(s)] = 0
    /\ \A i \in DOMAIN s : i > 1 => s[i] < s[i - 1]

IInv == TypeOK /\ Stack(levels)

\* The first stack is the left margin alone.
LEMMA Margin == Stack(<<0>>) /\ Last(<<0>>) = 0
<1>1. <<0>> \in Seq(Nat) /\ Len(<<0>>) = 1 /\ <<0>>[1] = 0 /\ <<0>> # <<>>
  OBVIOUS
<1>2. DOMAIN <<0>> = 1 .. 1
  BY <1>1, LenProperties
<1> QED
  BY <1>1, <1>2 DEF Stack, Last

\* What module Indent says of levels is said of a stack.
LEMMA StackTyped ==
    ASSUME NEW s, Stack(s)
    PROVE  /\ s # <<>> /\ Last(s) = 0
           /\ \A i \in DOMAIN s : s[i] \in Nat /\ (i > 1 => s[i] < s[i - 1])
<1>1. DOMAIN s = 1 .. Len(s) /\ s \in [1 .. Len(s) -> Nat]
  BY LenProperties DEF Stack
<1> QED
  BY <1>1 DEF Stack, Last

\* A deeper level may be put on top.
LEMMA Pushed ==
    ASSUME NEW s, Stack(s), NEW n \in Nat, n > Head(s)
    PROVE  Stack(<<n>> \o s)
<1>1. <<n>> \in Seq(Nat) /\ Len(<<n>>) = 1 /\ <<n>>[1] = n
  OBVIOUS
<1>2. s \in Seq(Nat) /\ s # <<>> /\ s[Len(s)] = 0
  BY DEF Stack
<1>3. Len(s) \in Nat /\ Len(s) >= 1 /\ DOMAIN s = 1 .. Len(s) /\ Head(s) = s[1]
  BY <1>2, LenProperties, EmptySeq
<1> DEFINE t == <<n>> \o s
<1>4. /\ t \in Seq(Nat) /\ Len(t) = 1 + Len(s)
      /\ \A i \in 1 .. 1 + Len(s) : t[i] = IF i <= 1 THEN <<n>>[i] ELSE s[i - 1]
  BY <1>1, <1>2, ConcatProperties
<1> HIDE DEF t
<1>5. DOMAIN t = 1 .. Len(t) /\ t # <<>>
  BY <1>3, <1>4, LenProperties, EmptySeq
<1>6. t[Len(t)] = 0
  <2>1. 1 + Len(s) \in 1 .. 1 + Len(s) /\ ~(1 + Len(s) <= 1) /\ (1 + Len(s)) - 1 = Len(s)
    BY <1>3
  <2>2. t[1 + Len(s)] = s[(1 + Len(s)) - 1]
    BY <1>4, <2>1
  <2> QED
    BY <1>2, <1>4, <2>1, <2>2
<1>7. ASSUME NEW i \in DOMAIN t, i > 1 PROVE t[i] < t[i - 1]
  <2>1. i \in 2 .. 1 + Len(s) /\ t[i] = s[i - 1]
    BY <1>3, <1>4, <1>5, <1>7
  <2>2. CASE i = 2
    <3>1. 1 \in 1 .. 1 + Len(s) /\ 1 <= 1 /\ i - 1 = 1
      BY <1>3, <2>2
    <3>2. t[i - 1] = n
      BY <1>1, <1>4, <3>1
    <3>3. t[i] = s[1]
      BY <2>1, <3>1
    <3> QED
      BY <1>3, <3>2, <3>3
  <2>3. CASE i > 2
    <3>3. /\ i - 1 \in 1 .. 1 + Len(s) /\ ~(i - 1 <= 1) /\ (i - 1) - 1 = i - 2
          /\ i - 1 \in DOMAIN s
      BY <1>3, <2>1, <2>3
    <3>1. t[i - 1] = s[i - 2] /\ i - 1 \in DOMAIN s
      BY <1>4, <3>3
    <3>2. s[i - 1] < s[(i - 1) - 1]
      BY <2>1, <2>3, <3>1 DEF Stack
    <3> QED
      BY <2>1, <3>1, <3>2
  <2> QED
    BY <2>1, <2>2, <2>3
<1>8. Stack(t)
  BY <1>4, <1>5, <1>6, <1>7 DEF Stack
<1> QED
  BY <1>8 DEF t

\* There is a level under one that is not the left margin, and what is left
\* without the top is a stack.
LEMMA Popped ==
    ASSUME NEW s, Stack(s), Head(s) > 0
    PROVE  Stack(Tail(s)) /\ s[2] \in Nat
<1>1. s \in Seq(Nat) /\ s # <<>> /\ s[Len(s)] = 0
  BY DEF Stack
<1>2. Len(s) \in Nat /\ Len(s) >= 1 /\ DOMAIN s = 1 .. Len(s) /\ Head(s) = s[1]
  BY <1>1, LenProperties, EmptySeq
<1>3. Len(s) > 1
  BY <1>1, <1>2
<1> DEFINE t == Tail(s)
<1>4. /\ t \in Seq(Nat) /\ Len(t) = Len(s) - 1
      /\ \A i \in 1 .. Len(t) : t[i] = s[i + 1]
  BY <1>1, HeadTailProperties
<1> HIDE DEF t
<1>5. DOMAIN t = 1 .. Len(t) /\ t # <<>>
  BY <1>2, <1>3, <1>4, LenProperties, EmptySeq
<1>6. t[Len(t)] = 0
  BY <1>1, <1>2, <1>3, <1>4
<1>7. ASSUME NEW i \in DOMAIN t, i > 1 PROVE t[i] < t[i - 1]
  <2>1. t[i] = s[i + 1] /\ t[i - 1] = s[i] /\ i + 1 \in DOMAIN s
    BY <1>2, <1>3, <1>4, <1>5, <1>7
  <2>2. s[i + 1] < s[(i + 1) - 1]
    BY <1>5, <1>7, <2>1 DEF Stack
  <2> QED
    BY <1>5, <1>7, <2>1, <2>2
<1>8. Stack(t)
  BY <1>4, <1>5, <1>6, <1>7 DEF Stack
<1>9. s[2] \in Nat
  BY <1>1, <1>3, ElementOfSeq
<1> QED
  BY <1>8, <1>9 DEF t

\* Each step keeps it.
LEMMA TypeKept ==
    ASSUME IInv, [Next]_vars
    PROVE  IInv'
<1>1. /\ Stack(levels) /\ cond \in {"start", "indent", "normal"} /\ current \in Nat
      /\ fake \in BOOLEAN /\ over \in BOOLEAN
  BY DEF IInv, TypeOK
<1>2. Head(levels) \in Nat
  BY <1>1, HeadTailProperties DEF Stack
<1>3. fake' \in BOOLEAN /\ over' \in BOOLEAN
  BY <1>1, Zenon DEF Next, Begin, Measure, Deeper, Shallower, AsDeep, AtEnd, Text,
     EndLine, EndOfFile, vars
<1>4. cond' \in {"start", "indent", "normal"}
  BY <1>1 DEF Next, Begin, Measure, Deeper, Shallower, AsDeep, AtEnd, Text,
     EndLine, EndOfFile, vars
<1>5. current' \in Nat
  <2>1. NextTab(current) \in Nat
    BY <1>1 DEF NextTab, TAB_WIDTH
  <2> QED
    BY <1>1, <2>1 DEF Next, Begin, Measure, Deeper, Shallower, AsDeep, AtEnd, Text,
       EndLine, EndOfFile, vars
<1>6. Stack(levels')
  <2>1. CASE Deeper
    BY <1>1, <2>1, Pushed DEF Deeper, Top
  <2>2. CASE Shallower
    <3>1. Head(levels) > 0 /\ levels' = Tail(levels)
      BY <1>1, <1>2, <2>2 DEF Shallower, Top
    <3> QED
      BY <1>1, <3>1, Popped
  <2>3. CASE AtEnd
    <3>1. levels' = levels \/ (Head(levels) > 0 /\ levels' = Tail(levels))
      BY <1>2, <2>3 DEF AtEnd, Top
    <3> QED
      BY <1>1, <3>1, Popped
  <2>4. CASE Begin \/ Measure \/ AsDeep \/ Text \/ EndLine \/ EndOfFile \/ UNCHANGED vars
    <3>1. levels' = levels
      BY <2>4 DEF Begin, Measure, AsDeep, Text, EndLine, EndOfFile, vars
    <3> QED
      BY <1>1, <3>1
  <2> QED
    BY <2>1, <2>2, <2>3, <2>4 DEF Next
<1> QED
  BY <1>3, <1>4, <1>5, <1>6, StackTyped DEF IInv, TypeOK

\* The lexer never takes the left margin off g_indent_levels, so that xc_ipop
\* and xc_itop always find a level and the one under it is there when the
\* rules look at it; and the levels are in order, for all files.
THEOREM TypeCorrect == Spec => []TypeOK
<1>1. ASSUME Init PROVE IInv
  <2>1. Stack(levels)
    BY <1>1, Margin DEF Init
  <2>2. fake \in BOOLEAN /\ over \in BOOLEAN
    BY <1>1, Zenon DEF Init
  <2>3. cond = "start" /\ current = 0
    BY <1>1 DEF Init
  <2> QED
    BY <2>1, <2>2, <2>3, StackTyped DEF IInv, TypeOK
<1>2. IInv /\ [Next]_vars => IInv'
  BY TypeKept
<1>3. IInv => TypeOK
  BY DEF IInv
<1> QED
  BY <1>1, <1>2, <1>3, PTL DEF Spec

-----------------------------------------------------------------------------
(***************************************************************************)
(* Induction, and what the two recursive definitions compute.  A set of    *)
(* numbers stands for the formula that is proved of each of them.          *)
(***************************************************************************)

\* A set with 0 that is closed under successor has all natural numbers:
\* otherwise there were a first one it has not.
LEMMA Induction ==
    ASSUME NEW S, 0 \in S, \A n \in Nat : n \in S => n + 1 \in S
    PROVE  \A n \in Nat : n \in S
<1> DEFINE Others == Nat \ S
           Less == OpToRel(<, Nat)
<1> SUFFICES ASSUME Others # {} PROVE FALSE
  OBVIOUS
<1>2. IsWellFoundedOn(Less, Nat) /\ Others \subseteq Nat
  BY NatLessThanWellFounded
<1>3. \A x, y \in Nat : x < y => <<x, y>> \in Less
  BY DEF OpToRel
<1> HIDE DEF Others, Less
<1>4. PICK x \in Others : \A y \in Others : ~(<<y, x>> \in Less)
  BY <1>2, WFMin
<1>5. \A y \in Others : ~(y < x)
  BY <1>2, <1>3, <1>4
<1>6. x \in Nat /\ x # 0 /\ x - 1 \in Nat /\ x - 1 \in S
  BY <1>2, <1>5 DEF Others
<1> QED
  BY <1>6 DEF Others

\* The sequence flatten that FlattenSeq is defined by.
Flatten(seqs) ==
    CHOOSE flat : flat = [i \in 1 .. Len(seqs) |->
                              IF i = 1 THEN seqs[i] ELSE flat[i - 1] \o seqs[i]]

\* The library's definition is an instance of such a recursion.
LEMMA FlattenSeqIs ==
    ASSUME NEW seqs, Len(seqs) \in Nat, Len(seqs) # 0
    PROVE  FlattenSeq(seqs) = Flatten(seqs)[Len(seqs)]
BY DEF FlattenSeq, Flatten

\* It puts one sequence after another.
LEMMA FlattenOf ==
    ASSUME NEW seqs, Len(seqs) \in Nat, Len(seqs) # 0
    PROVE  /\ FlattenSeq(seqs) = Flatten(seqs)[Len(seqs)]
           /\ Flatten(seqs)[1] = seqs[1]
           /\ \A i \in 1 .. Len(seqs) :
                  i > 1 => Flatten(seqs)[i] = Flatten(seqs)[i - 1] \o seqs[i]
<1> DEFINE IsFlat(n, g) == g = [i \in 1 .. n |-> IF i = 1 THEN seqs[i] ELSE g[i - 1] \o seqs[i]]
           S == {n \in Nat : \E g : IsFlat(n, g)}
<1>1. 0 \in S
  <2> DEFINE g == [i \in 1 .. 0 |-> seqs[i]]
  <2>1. IsFlat(0, g)
    OBVIOUS
  <2> QED
    BY <2>1
<1>2. ASSUME NEW n \in Nat, n \in S PROVE n + 1 \in S
  <2>1. PICK g : IsFlat(n, g)
    BY <1>2
  <2> DEFINE h == [i \in 1 .. n + 1 |-> IF i = 1 THEN seqs[i] ELSE g[i - 1] \o seqs[i]]
  <2>2. ASSUME NEW i \in 1 .. n PROVE h[i] = g[i]
    <3>1. i \in 1 .. n + 1
      OBVIOUS
    <3>2. g[i] = IF i = 1 THEN seqs[i] ELSE g[i - 1] \o seqs[i]
      BY <2>1
    <3> QED
      BY <3>1, <3>2
  <2>3. \A i \in 1 .. n + 1 : i # 1 => i - 1 \in 1 .. n
    OBVIOUS
  <2>4. \A i \in 1 .. n + 1 :
            h[i] = IF i = 1 THEN seqs[i] ELSE h[i - 1] \o seqs[i]
    BY <2>2, <2>3
  <2>5. IsFlat(n + 1, h)
    BY <2>4
  <2> HIDE DEF h, IsFlat
  <2> QED
    BY <2>5
<1> HIDE DEF S
<1>3. Len(seqs) \in S
  BY <1>1, <1>2, Induction
<1>4. \E g : IsFlat(Len(seqs), g)
  BY <1>3 DEF S
<1>5. IsFlat(Len(seqs), Flatten(seqs))
  BY <1>4 DEF Flatten
<1>6. FlattenSeq(seqs) = Flatten(seqs)[Len(seqs)]
  BY FlattenSeqIs
<1>7. \A i \in 1 .. Len(seqs) :
          Flatten(seqs)[i] = IF i = 1 THEN seqs[i] ELSE Flatten(seqs)[i - 1] \o seqs[i]
  BY <1>5
<1>8. 1 \in 1 .. Len(seqs) /\ \A i \in 1 .. Len(seqs) : i > 1 => i # 1
  OBVIOUS
<1>9. Flatten(seqs)[1] = seqs[1]
  BY <1>7, <1>8
<1>10. \A i \in 1 .. Len(seqs) : i > 1 => Flatten(seqs)[i] = Flatten(seqs)[i - 1] \o seqs[i]
  BY <1>7, <1>8
<1> QED
  BY <1>6, <1>9, <1>10

\* What a character does to the column.
Step(n, ch) ==
    CASE ch = Tab -> NextTab(n)
      [] ch = Space -> n + 1
      [] ch = Newline -> 0
      [] OTHER -> n

\* How each kind of character moves the column.
LEMMA Steps ==
    /\ \A n : Step(n, Space) = n + 1 /\ Step(n, Tab) = NextTab(n) /\ Step(n, Newline) = 0
    /\ \A n, ch : ch \notin {Space, Tab, Newline} => Step(n, ch) = n
<1>1. Space # Tab /\ Space # Newline /\ Tab # Newline
  BY DEF Space, Tab, Newline
<1> QED
  BY <1>1 DEF Step

\* A column is a natural number.
LEMMA StepTyped ==
    ASSUME NEW n \in Nat, NEW ch
    PROVE  Step(n, ch) \in Nat
BY DEF Step, NextTab, TAB_WIDTH, Space, Tab, Newline

\* Column goes character by character.
LEMMA ColumnOf ==
    ASSUME NEW white \in Seq({Space, Tab})
    PROVE  /\ Column(white) \in [0 .. Len(white) -> Nat]
           /\ Column(white)[0] = 0
           /\ \A i \in 1 .. Len(white) : Column(white)[i] = Step(Column(white)[i - 1], white[i])
<1>1. Len(white) \in Nat /\ \A i \in 1 .. Len(white) : white[i] \in {Space, Tab}
  BY LenProperties
<1> DEFINE IsCol(n, g) ==
               g = [i \in 0 .. n |-> IF i = 0 THEN 0
                                     ELSE IF white[i] = Tab THEN NextTab(g[i - 1])
                                                            ELSE g[i - 1] + 1]
           S == {n \in Nat : \E g : IsCol(n, g)}
<1>2. 0 \in S
  <2> DEFINE g == [i \in 0 .. 0 |-> 0]
  <2>1. IsCol(0, g)
    OBVIOUS
  <2> QED
    BY <2>1
<1>3. ASSUME NEW n \in Nat, n \in S PROVE n + 1 \in S
  <2>1. PICK g : IsCol(n, g)
    BY <1>3
  <2> DEFINE h == [i \in 0 .. n + 1 |-> IF i = 0 THEN 0
                                        ELSE IF white[i] = Tab THEN NextTab(g[i - 1])
                                                               ELSE g[i - 1] + 1]
  <2>2. \A i \in 0 .. n : h[i] = g[i]
    BY <2>1
  <2>3. \A i \in 0 .. n + 1 : i # 0 => i - 1 \in 0 .. n
    OBVIOUS
  <2>4. \A i \in 0 .. n + 1 : h[i] = IF i = 0 THEN 0
                                     ELSE IF white[i] = Tab THEN NextTab(h[i - 1])
                                                            ELSE h[i - 1] + 1
    BY <2>2, <2>3
  <2>5. IsCol(n + 1, h)
    BY <2>4
  <2> HIDE DEF h, IsCol
  <2> QED
    BY <2>5
<1> HIDE DEF S
<1>4. Len(white) \in S
  BY <1>1, <1>2, <1>3, Induction
<1>5. \E g : IsCol(Len(white), g)
  BY <1>4 DEF S
<1> DEFINE c == Column(white)
<1>6. IsCol(Len(white), c)
  BY <1>5 DEF Column
<1> HIDE DEF c
<1>7. c[0] = 0 /\ DOMAIN c = 0 .. Len(white) /\ c = [i \in 0 .. Len(white) |-> c[i]]
  BY <1>1, <1>6
<1>8. ASSUME NEW i \in 1 .. Len(white) PROVE c[i] = Step(c[i - 1], white[i])
  <2>1. i \in 0 .. Len(white) /\ i # 0 /\ white[i] \in {Space, Tab}
    BY <1>1
  <2>2. c[i] = IF i = 0 THEN 0 ELSE IF white[i] = Tab THEN NextTab(c[i - 1])
                                                      ELSE c[i - 1] + 1
    BY <1>6, <2>1
  <2>3. c[i] = IF white[i] = Tab THEN NextTab(c[i - 1]) ELSE c[i - 1] + 1
    BY <2>1, <2>2
  <2>4. Step(c[i - 1], Tab) = NextTab(c[i - 1]) /\ Step(c[i - 1], Space) = c[i - 1] + 1
    BY Steps
  <2>5. Tab # Space
    BY DEF Space, Tab
  <2> QED
    BY <2>1, <2>3, <2>4, <2>5
<1>9. ASSUME NEW i \in 0 .. Len(white) PROVE c[i] \in Nat
  <2> DEFINE R == {n \in Nat : n <= Len(white) => c[n] \in Nat}
  <2>1. 0 \in R
    BY <1>7
  <2>2. ASSUME NEW n \in Nat, n \in R PROVE n + 1 \in R
    <3>1. CASE n + 1 <= Len(white)
      <4>1. c[n] \in Nat /\ n + 1 \in 1 .. Len(white) /\ (n + 1) - 1 = n
        BY <1>1, <2>2, <3>1
      <4>2. c[n + 1] = Step(c[n], white[n + 1])
        BY <1>8, <4>1
      <4> QED
        BY <4>1, <4>2, StepTyped
    <3> QED
      BY <1>1, <3>1
  <2> HIDE DEF R
  <2>3. i \in R
    BY <1>1, <2>1, <2>2, Induction
  <2> QED
    BY <1>1, <2>3 DEF R
<1>10. c \in [0 .. Len(white) -> Nat]
  BY <1>7, <1>9
<1> QED
  BY <1>7, <1>8, <1>10 DEF c

-----------------------------------------------------------------------------
(***************************************************************************)
(* Columns, and the characters of a file.                                  *)
(***************************************************************************)

\* col is the column each character of s is at, and the one behind the last.
Columns(s, col) ==
    /\ col \in [1 .. Len(s) + 1 -> Nat]
    /\ \A i \in 1 .. Len(s) : col[i + 1] = Step(col[i], s[i])

\* The columns of two texts, one behind the other.
Join(s, t, a, b) ==
    [i \in 1 .. Len(s) + Len(t) + 1 |-> IF i <= Len(s) THEN a[i] ELSE b[i - Len(s)]]

\* They are columns of the whole, if the second text begins where the first
\* ends.
LEMMA JoinColumns ==
    ASSUME NEW s \in Seq(Int), NEW t \in Seq(Int), NEW a, NEW b,
           Columns(s, a), Columns(t, b), a[Len(s) + 1] = b[1]
    PROVE  /\ Columns(s \o t, Join(s, t, a, b))
           /\ \A i \in 1 .. Len(s) + 1 : Join(s, t, a, b)[i] = a[i]
           /\ \A i \in 1 .. Len(t) + 1 : Join(s, t, a, b)[Len(s) + i] = b[i]
<1> DEFINE c == Join(s, t, a, b)
           m == Len(s)
           n == Len(t)
<1>1. m \in Nat /\ n \in Nat
  BY LenProperties
<1>2. Len(s \o t) = m + n /\ \A i \in 1 .. m + n : (s \o t)[i] = IF i <= m THEN s[i] ELSE t[i - m]
  BY ConcatProperties
<1>3. /\ a \in [1 .. m + 1 -> Nat] /\ b \in [1 .. n + 1 -> Nat] /\ a[m + 1] = b[1]
      /\ \A i \in 1 .. m : a[i + 1] = Step(a[i], s[i])
      /\ \A i \in 1 .. n : b[i + 1] = Step(b[i], t[i])
  BY DEF Columns
<1>4. \A i \in 1 .. m + n + 1 : c[i] = IF i <= m THEN a[i] ELSE b[i - m]
  BY DEF Join
<1>5. DOMAIN c = 1 .. m + n + 1 /\ c = [i \in 1 .. m + n + 1 |-> c[i]]
  BY DEF Join
<1> HIDE DEF c, m, n
<1>6. \A i \in 1 .. m + 1 : c[i] = a[i]
  <2>1. c[m + 1] = b[1]
    <3>1. m + 1 \in 1 .. m + n + 1 /\ ~(m + 1 <= m) /\ (m + 1) - m = 1
      BY <1>1
    <3> QED
      BY <1>4, <3>1
  <2>2. ASSUME NEW i \in 1 .. m + 1 PROVE c[i] = a[i]
    <3>1. CASE i = m + 1
      BY <1>3, <2>1, <3>1
    <3>2. CASE i # m + 1
      <4>1. i \in 1 .. m + n + 1 /\ i <= m
        BY <1>1, <3>2
      <4> QED
        BY <1>4, <4>1
    <3> QED
      BY <3>1, <3>2
  <2> QED
    BY <2>2
<1>7. ASSUME NEW i \in 1 .. n + 1 PROVE c[m + i] = b[i]
  <2>1. m + i \in 1 .. m + n + 1 /\ ~(m + i <= m) /\ (m + i) - m = i
    BY <1>1
  <2> QED
    BY <1>4, <2>1
<1>8. ASSUME NEW i \in 1 .. m + n + 1 PROVE c[i] \in Nat
  <2>1. CASE i <= m
    <3>1. i \in 1 .. m + 1
      BY <1>1, <2>1
    <3> QED
      BY <1>3, <1>6, <3>1
  <2>2. CASE ~(i <= m)
    <3>1. i - m \in 1 .. n + 1
      BY <1>1, <2>2
    <3> QED
      BY <1>3, <1>4, <2>2, <3>1
  <2> QED
    BY <2>1, <2>2
<1>9. ASSUME NEW i \in 1 .. m + n PROVE c[i + 1] = Step(c[i], (s \o t)[i])
  <2>1. CASE i <= m
    <3>1. i \in 1 .. m /\ i \in 1 .. m + 1 /\ i + 1 \in 1 .. m + 1
      BY <1>1, <2>1
    <3> QED
      BY <1>2, <1>3, <1>6, <2>1, <3>1
  <2>2. CASE ~(i <= m)
    <3>1. i - m \in 1 .. n /\ i \in 1 .. m + n + 1 /\ i + 1 \in 1 .. m + n + 1
          /\ ~(i + 1 <= m) /\ (i + 1) - m = (i - m) + 1
      BY <1>1, <2>2
    <3>2. c[i] = b[i - m] /\ c[i + 1] = b[(i - m) + 1]
      BY <1>4, <2>2, <3>1
    <3> QED
      BY <1>2, <1>3, <2>2, <3>1, <3>2
  <2> QED
    BY <2>1, <2>2
<1>10. Columns(s \o t, c)
  BY <1>2, <1>5, <1>8, <1>9 DEF Columns, m, n
<1> QED
  BY <1>6, <1>7, <1>10 DEF c, m, n

\* The columns behind the first character.
Shift(s, col) == [i \in 1 .. Len(s) |-> col[i + 1]]

\* A text without its first character begins one step further on.
LEMMA TailColumns ==
    ASSUME NEW s \in Seq(Int), s # <<>>, NEW col, Columns(s, col)
    PROVE  /\ Columns(Tail(s), Shift(s, col))
           /\ \A i \in 1 .. Len(s) : Shift(s, col)[i] = col[i + 1]
           /\ Shift(s, col)[1] = Step(col[1], Head(s))
<1> DEFINE c == Shift(s, col)
<1>1. Len(s) \in Nat /\ Len(s) # 0 /\ Head(s) = s[1]
  BY LenProperties, EmptySeq
<1>2. Len(Tail(s)) = Len(s) - 1 /\ \A i \in 1 .. Len(Tail(s)) : Tail(s)[i] = s[i + 1]
  BY HeadTailProperties
<1>3. \A i \in 1 .. Len(s) : c[i] = col[i + 1]
  BY DEF Shift
<1>4. DOMAIN c = 1 .. Len(s) /\ c = [i \in 1 .. Len(s) |-> c[i]]
  BY DEF Shift
<1> HIDE DEF c
<1>5. col \in [1 .. Len(s) + 1 -> Nat] /\ \A i \in 1 .. Len(s) : col[i + 1] = Step(col[i], s[i])
  BY DEF Columns
<1>6. \A i \in 1 .. Len(s) : i + 1 \in 1 .. Len(s) + 1
  BY <1>1
<1>7. \A i \in 1 .. Len(s) : c[i] \in Nat
  BY <1>3, <1>5, <1>6
<1>8. ASSUME NEW i \in 1 .. Len(Tail(s)) PROVE c[i + 1] = Step(c[i], Tail(s)[i])
  <2>1. i \in 1 .. Len(s) /\ i + 1 \in 1 .. Len(s)
    BY <1>1, <1>2
  <2> QED
    BY <1>2, <1>3, <1>5, <2>1
<1>9. Len(Tail(s)) + 1 = Len(s)
  BY <1>1, <1>2
<1>10. Columns(Tail(s), c)
  BY <1>4, <1>7, <1>8, <1>9 DEF Columns
<1>11. c[1] = Step(col[1], Head(s))
  BY <1>1, <1>3, <1>5
<1> QED
  BY <1>3, <1>10, <1>11 DEF c

\* Spaces count by one, from wherever they begin.
LEMMA SpacesColumns ==
    ASSUME NEW n \in Nat, NEW from \in Nat
    PROVE  /\ Spaces(n) \in Seq(Int) /\ Len(Spaces(n)) = n
           /\ \A i \in 1 .. n : Spaces(n)[i] = Space
           /\ Columns(Spaces(n), [i \in 1 .. n + 1 |-> from + i - 1])
<1>1. Spaces(n) = [i \in 1 .. n |-> 0]
  BY DEF Spaces, Space
<1>2. Spaces(n) \in [1 .. n -> Int]
  BY <1>1
<1>3. Spaces(n) \in Seq(Int) /\ Len(Spaces(n)) = n
  BY <1>2
<1>4. \A i \in 1 .. n : Spaces(n)[i] = Space
  BY DEF Spaces
<1> DEFINE c == [i \in 1 .. n + 1 |-> from + i - 1]
<1>5. c \in [1 .. n + 1 -> Nat]
  OBVIOUS
<1>6. ASSUME NEW i \in 1 .. n PROVE c[i + 1] = Step(c[i], Space)
  <2>1. c[i] = from + i - 1 /\ c[i + 1] = from + (i + 1) - 1
    OBVIOUS
  <2>2. Step(c[i], Space) = c[i] + 1
    BY Steps
  <2> QED
    BY <2>1, <2>2
<1> HIDE DEF c
<1>7. Columns(Spaces(n), c)
  BY <1>3, <1>4, <1>5, <1>6 DEF Columns
<1> QED
  BY <1>3, <1>4, <1>7 DEF c

\* One character.
One(ch, from) == [i \in 1 .. 2 |-> IF i = 1 THEN from ELSE Step(from, ch)]

\* A text of one character.
LEMMA OneColumn ==
    ASSUME NEW ch \in Int, NEW from \in Nat
    PROVE  /\ <<ch>> \in Seq(Int) /\ Len(<<ch>>) = 1 /\ <<ch>>[1] = ch
           /\ Columns(<<ch>>, One(ch, from))
           /\ One(ch, from)[1] = from /\ One(ch, from)[2] = Step(from, ch)
<1>1. <<ch>> \in Seq(Int) /\ Len(<<ch>>) = 1 /\ <<ch>>[1] = ch
  OBVIOUS
<1>2. Step(from, ch) \in Nat
  BY StepTyped
<1>3. One(ch, from)[1] = from /\ One(ch, from)[2] = Step(from, ch)
  BY DEF One
<1>4. One(ch, from) \in [1 .. 2 -> Nat]
  BY <1>2 DEF One
<1>5. \A i \in 1 .. 1 : i = 1 /\ i + 1 = 2
  OBVIOUS
<1> QED
  BY <1>1, <1>3, <1>4, <1>5 DEF Columns

-----------------------------------------------------------------------------
\* A file ends its lines, the last one excepted if it says otherwise.
Ended(f, k) == k < Len(f.lines) \/ f.ended

\* The characters of a file: what lines say, and white space.
White == {Space, Tab, Newline}
Legible(ch) == ch > 0 \/ ch \in White

\* s is lines a to b of f, and col its columns from the left margin on.
Written(f, a, b, s, col) ==
    /\ s \in Seq(Int) /\ Columns(s, col) /\ col[1] = 0
    /\ \A i \in 1 .. Len(s) : Legible(s[i])
    /\ \A i \in 1 .. Len(s) : s[i] > 0 =>
           /\ s[i] \in Said(f) /\ s[i] \in a .. b
           /\ col[i] = Width(f, s[i])
           /\ i < Len(s) => s[i + 1] = Newline
    /\ \A i, j \in 1 .. Len(s) : i < j /\ s[i] > 0 /\ s[j] > 0 => s[i] < s[j]
    /\ \A m \in Said(f) : m \in a .. b => \E i \in 1 .. Len(s) : s[i] = m
    /\ IF Ended(f, b)
         THEN s # <<>> /\ s[Len(s)] = Newline /\ col[Len(s) + 1] = 0
         ELSE s # <<>> /\ s[Len(s)] > 0 <=> b \in Said(f)

\* The lines of a file.
LEMMA FileLines ==
    ASSUME NEW f \in Files
    PROVE  /\ Len(f.lines) \in Nat \ {0} /\ DOMAIN f.lines = 1 .. Len(f.lines)
           /\ f.ended \in BOOLEAN
           /\ Said(f) \subseteq 1 .. Len(f.lines)
           /\ \A k \in 1 .. Len(f.lines) :
                  /\ f.lines[k].white \in Seq({Space, Tab})
                  /\ f.lines[k].blank \in BOOLEAN
                  /\ Width(f, k) \in Nat
                  /\ Width(f, k) = Column(f.lines[k].white)[Len(f.lines[k].white)]
           /\ Width(f, 0) = 0
<1> DEFINE Line == [white : Seq({Space, Tab}), blank : BOOLEAN]
<1>1. f.lines \in Seq(Line) /\ f.lines # <<>> /\ f.ended \in BOOLEAN
  BY FilesAssumption
<1> HIDE DEF Line
<1>2. Len(f.lines) \in Nat \ {0} /\ DOMAIN f.lines = 1 .. Len(f.lines)
  BY <1>1, LenProperties, EmptySeq
<1>3. \A k \in 1 .. Len(f.lines) : f.lines[k] \in Line
  BY <1>1, ElementOfSeq
<1>4. ASSUME NEW k \in 1 .. Len(f.lines)
      PROVE  /\ f.lines[k].white \in Seq({Space, Tab})
             /\ f.lines[k].blank \in BOOLEAN
             /\ Width(f, k) \in Nat
             /\ Width(f, k) = Column(f.lines[k].white)[Len(f.lines[k].white)]
  <2>1. f.lines[k].white \in Seq({Space, Tab}) /\ f.lines[k].blank \in BOOLEAN
    BY <1>3 DEF Line
  <2>2. Width(f, k) = Column(f.lines[k].white)[Len(f.lines[k].white)]
    BY DEF Width
  <2>3. Len(f.lines[k].white) \in 0 .. Len(f.lines[k].white)
    BY <2>1, LenProperties
  <2>4. Column(f.lines[k].white)[Len(f.lines[k].white)] \in Nat
    BY <2>1, <2>3, ColumnOf
  <2> QED
    BY <2>1, <2>2, <2>4
<1>5. Said(f) \subseteq 1 .. Len(f.lines) /\ Width(f, 0) = 0
  BY <1>2 DEF Said, Width
<1> QED
  BY <1>1, <1>2, <1>4, <1>5

\* One line, character by character.
LEMMA LineIs ==
    ASSUME NEW f \in Files, NEW k \in 1 .. Len(f.lines)
    PROVE  LET white == f.lines[k].white
               blank == f.lines[k].blank
               s     == LineChars(f, k)
           IN  /\ s \in Seq(Int)
               /\ Len(s) = Len(white) + (IF blank THEN 0 ELSE 1) + (IF Ended(f, k) THEN 1 ELSE 0)
               /\ \A i \in 1 .. Len(white) : s[i] = white[i]
               /\ ~blank => s[Len(white) + 1] = k
               /\ Ended(f, k) => s[Len(s)] = Newline
<1> DEFINE white == f.lines[k].white
           blank == f.lines[k].blank
           text == IF blank THEN <<>> ELSE <<k>>
           end == IF Ended(f, k) THEN <<Newline>> ELSE <<>>
<1>1. k \in Int /\ Newline \in Int /\ Space \in Int /\ Tab \in Int
  BY FileLines DEF Newline, Space, Tab
<1>2. white \in Seq({Space, Tab}) /\ {Space, Tab} \subseteq Int
  BY <1>1, FileLines
<1>3. white \in Seq(Int)
  BY <1>2, SeqMonotonic
<1>4. text \in Seq(Int) /\ Len(text) = (IF blank THEN 0 ELSE 1) /\ (~blank => text[1] = k)
  BY <1>1, EmptySeq
<1>5. /\ end \in Seq(Int) /\ Len(end) = (IF Ended(f, k) THEN 1 ELSE 0)
      /\ Ended(f, k) => end[1] = Newline
  BY <1>1, EmptySeq
<1>6. LineChars(f, k) = (white \o text) \o end
  BY DEF LineChars, Ended
<1> DEFINE w == Len(white)
<1>7. w \in Nat
  BY <1>3, LenProperties
<1> HIDE DEF white, blank, text, end
<1>8. /\ white \o text \in Seq(Int) /\ Len(white \o text) = w + Len(text)
      /\ \A i \in 1 .. w + Len(text) : (white \o text)[i] = IF i <= w THEN white[i] ELSE text[i - w]
  BY <1>3, <1>4, ConcatProperties
<1> DEFINE head == white \o text
           s == head \o end
           l == Len(head)
<1> HIDE DEF head
<1>9. /\ s \in Seq(Int) /\ Len(s) = l + Len(end)
      /\ \A i \in 1 .. l + Len(end) : s[i] = IF i <= l THEN head[i] ELSE end[i - l]
  <2>1. head \in Seq(Int)
    BY <1>8 DEF head
  <2> QED
    BY <1>5, <2>1, ConcatProperties
<1> HIDE DEF s, w, l
<1>10. Len(text) \in Nat /\ Len(end) \in Nat /\ l = w + Len(text)
  BY <1>4, <1>5, <1>8, LenProperties DEF head, l
<1>11. \A i \in 1 .. l : s[i] = head[i]
  BY <1>7, <1>9, <1>10
<1>12. ASSUME NEW i \in 1 .. w PROVE s[i] = white[i]
  <2>1. i \in 1 .. l /\ i \in 1 .. w + Len(text) /\ i <= w
    BY <1>7, <1>10
  <2> QED
    BY <1>8, <1>11, <2>1 DEF head
<1>13. ASSUME ~blank PROVE s[w + 1] = k
  <2>1. Len(text) = 1 /\ text[1] = k
    BY <1>4, <1>13
  <2>2. w + 1 \in 1 .. l /\ w + 1 \in 1 .. w + Len(text) /\ ~(w + 1 <= w) /\ (w + 1) - w = 1
    BY <1>7, <1>10, <2>1
  <2> QED
    BY <1>8, <1>11, <2>1, <2>2 DEF head
<1>14. ASSUME Ended(f, k) PROVE s[Len(s)] = Newline
  <2>1. Len(end) = 1 /\ end[1] = Newline
    BY <1>5, <1>14
  <2>2. Len(s) = l + 1 /\ l + 1 \in 1 .. l + Len(end) /\ ~(l + 1 <= l) /\ (l + 1) - l = 1
    BY <1>7, <1>9, <1>10, <2>1
  <2> QED
    BY <1>9, <2>1, <2>2
<1>15. Len(s) = w + (IF blank THEN 0 ELSE 1) + (IF Ended(f, k) THEN 1 ELSE 0)
  BY <1>4, <1>5, <1>7, <1>9, <1>10
<1>16. LineChars(f, k) = s
  BY <1>6 DEF s, head
<1> QED
  BY <1>9, <1>12, <1>13, <1>14, <1>15, <1>16 DEF w, white, blank

\* One line, from the left margin on.
LEMMA LineWritten ==
    ASSUME NEW f \in Files, NEW k \in 1 .. Len(f.lines)
    PROVE  \E col : Written(f, k, k, LineChars(f, k), col)
<1> DEFINE white == f.lines[k].white
           blank == f.lines[k].blank
           s == LineChars(f, k)
           w == Len(white)
           C == Column(white)
           e == IF Ended(f, k) THEN 1 ELSE 0
           t == IF blank THEN 0 ELSE 1
<1>1. /\ s \in Seq(Int) /\ Len(s) = w + t + e
      /\ \A i \in 1 .. w : s[i] = white[i]
      /\ ~blank => s[w + 1] = k
      /\ Ended(f, k) => s[Len(s)] = Newline
  BY LineIs
<1>2. /\ white \in Seq({Space, Tab}) /\ blank \in BOOLEAN
      /\ Width(f, k) \in Nat /\ Width(f, k) = C[w]
      /\ Said(f) \subseteq Nat /\ k \in Nat /\ k > 0
      /\ k \in Said(f) <=> ~blank
  <2>1. DOMAIN f.lines = 1 .. Len(f.lines) /\ Len(f.lines) \in Nat
    BY FileLines
  <2>2. k \in Said(f) <=> ~blank
    BY <2>1 DEF Said
  <2>3. Said(f) \subseteq Nat
    BY FileLines
  <2> QED
    BY <2>1, <2>2, <2>3, FileLines
<1>3. w \in Nat /\ \A i \in 1 .. w : white[i] \in {Space, Tab}
  BY <1>2, LenProperties, ElementOfSeq
<1>4. /\ C \in [0 .. w -> Nat] /\ C[0] = 0
      /\ \A i \in 1 .. w : C[i] = Step(C[i - 1], white[i])
  BY <1>2, ColumnOf
<1>5. e \in {0, 1} /\ t \in {0, 1} /\ (e = 1 <=> Ended(f, k)) /\ (t = 1 <=> ~blank)
  BY <1>2
<1> DEFINE col == [i \in 1 .. w + t + e + 1 |->
                      IF i <= w + 1 THEN C[i - 1] ELSE IF i <= w + t + 1 THEN C[w] ELSE 0]
<1>6. \A i \in 1 .. w + t + e + 1 :
          col[i] = IF i <= w + 1 THEN C[i - 1] ELSE IF i <= w + t + 1 THEN C[w] ELSE 0
  OBVIOUS
<1>7. DOMAIN col = 1 .. w + t + e + 1 /\ col = [i \in 1 .. w + t + e + 1 |-> col[i]]
  OBVIOUS
<1> HIDE DEF white, blank, s, w, C, e, t, col
<1>8. ASSUME NEW i \in 1 .. w + t + e
      PROVE  \/ i \in 1 .. w /\ s[i] \in {Space, Tab}
             \/ i = w + 1 /\ t = 1 /\ s[i] = k
             \/ i = w + t + 1 /\ e = 1 /\ s[i] = Newline
  <2>1. CASE i <= w
    BY <1>1, <1>3, <2>1
  <2>2. CASE i = w + 1 /\ t = 1
    BY <1>1, <1>5, <2>2
  <2>3. CASE ~(i <= w) /\ ~(i = w + 1 /\ t = 1)
    <3>1. i = w + t + 1 /\ e = 1
      BY <1>3, <1>5, <2>3
    <3>2. i = Len(s)
      BY <1>1, <3>1
    <3> QED
      BY <1>1, <1>5, <3>1, <3>2
  <2> QED
    BY <2>1, <2>2, <2>3
<1>9. col[1] = 0
  BY <1>3, <1>4, <1>5, <1>6
<1>10. ASSUME NEW i \in 1 .. w + t + e + 1 PROVE col[i] \in Nat
  <2>1. w \in 0 .. w /\ C[w] \in Nat
    BY <1>3, <1>4
  <2>2. CASE i <= w + 1
    <3>1. i - 1 \in 0 .. w
      BY <1>3, <2>2
    <3> QED
      BY <1>4, <1>6, <2>2, <3>1
  <2>3. CASE ~(i <= w + 1)
    BY <1>6, <2>1, <2>3
  <2> QED
    BY <2>2, <2>3
<1>11. /\ Newline \notin {Space, Tab} /\ k \notin {Space, Tab, Newline}
       /\ ~(Space > 0) /\ ~(Tab > 0) /\ ~(Newline > 0)
  BY <1>2 DEF Space, Tab, Newline
<1>12. ASSUME NEW i \in 1 .. w + t + e PROVE col[i + 1] = Step(col[i], s[i])
  <2>1. CASE i \in 1 .. w
    <3>1. /\ i \in 1 .. w + t + e + 1 /\ i + 1 \in 1 .. w + t + e + 1
          /\ i <= w + 1 /\ i + 1 <= w + 1 /\ (i + 1) - 1 = i
      BY <1>3, <1>5, <2>1
    <3>2. col[i] = C[i - 1] /\ col[i + 1] = C[i]
      BY <1>6, <3>1
    <3> QED
      BY <1>1, <1>4, <2>1, <3>2
  <2>2. CASE i = w + 1 /\ t = 1 /\ s[i] = k
    <3>1. /\ w + 1 \in 1 .. w + t + e + 1 /\ w + 2 \in 1 .. w + t + e + 1
          /\ w + 1 <= w + 1 /\ ~(w + 2 <= w + 1) /\ w + 2 <= w + t + 1 /\ (w + 1) - 1 = w
      BY <1>3, <1>5, <2>2
    <3>2. col[w + 1] = C[w] /\ col[w + 2] = C[w]
      BY <1>6, <3>1
    <3>3. Step(col[i], s[i]) = col[i]
      BY <1>11, <2>2, Steps
    <3>4. i + 1 = w + 2
      BY <1>3, <2>2
    <3> QED
      BY <2>2, <3>2, <3>3, <3>4
  <2>3. CASE i = w + t + 1 /\ e = 1 /\ s[i] = Newline
    <3>1. i + 1 \in 1 .. w + t + e + 1 /\ ~(i + 1 <= w + 1) /\ ~(i + 1 <= w + t + 1)
      BY <1>3, <1>5, <2>3
    <3> QED
      BY <1>6, <2>3, <3>1, Steps
  <2> QED
    BY <1>8, <2>1, <2>2, <2>3
<1>13. Len(s) = w + t + e /\ Len(s) + 1 = w + t + e + 1
  BY <1>1
<1>14. Columns(s, col)
  BY <1>7, <1>10, <1>12, <1>13 DEF Columns
<1>15. ASSUME NEW i \in 1 .. Len(s), s[i] > 0
       PROVE  i = w + 1 /\ s[i] = k /\ ~blank
  BY <1>5, <1>8, <1>11, <1>13, <1>15
<1>16. ASSUME NEW i \in 1 .. Len(s) PROVE Legible(s[i])
  BY <1>2, <1>8, <1>13 DEF Legible, White
<1>17. ASSUME NEW i \in 1 .. Len(s), s[i] > 0
       PROVE  /\ s[i] \in Said(f) /\ s[i] \in k .. k
              /\ col[i] = Width(f, s[i])
              /\ i < Len(s) => s[i + 1] = Newline
  <2>1. i = w + 1 /\ s[i] = k /\ ~blank
    BY <1>15, <1>17
  <2>2. w + 1 \in 1 .. w + t + e + 1 /\ w + 1 <= w + 1 /\ (w + 1) - 1 = w
    BY <1>3, <1>5
  <2>3. col[i] = C[w]
    BY <1>6, <2>1, <2>2
  <2>4. ASSUME i < Len(s) PROVE s[i + 1] = Newline
    <3>1. i + 1 \in 1 .. w + t + e /\ ~(i + 1 \in 1 .. w) /\ i + 1 # w + 1
      BY <1>3, <1>5, <1>13, <2>1, <2>4
    <3> QED
      BY <1>8, <3>1
  <2> QED
    BY <1>2, <2>1, <2>3, <2>4
<1>18. \A i, j \in 1 .. Len(s) : i < j /\ s[i] > 0 /\ s[j] > 0 => s[i] < s[j]
  BY <1>3, <1>15
<1>19. ASSUME NEW m \in Said(f), m \in k .. k PROVE \E i \in 1 .. Len(s) : s[i] = m
  <2>1. m = k /\ ~blank
    BY <1>2, <1>19
  <2>2. w + 1 \in 1 .. Len(s) /\ s[w + 1] = k
    BY <1>1, <1>3, <1>5, <1>13, <2>1
  <2> QED
    BY <2>1, <2>2
<1>20. CASE Ended(f, k)
  <2>1. Len(s) # 0 /\ s[Len(s)] = Newline /\ s # <<>>
    BY <1>1, <1>3, <1>5, <1>20, EmptySeq
  <2>2. Len(s) + 1 \in 1 .. w + t + e + 1 /\ ~(Len(s) + 1 <= w + 1) /\ ~(Len(s) + 1 <= w + t + 1)
    BY <1>3, <1>5, <1>13, <1>20
  <2>3. col[Len(s) + 1] = 0
    BY <1>6, <2>2
  <2>4. Written(f, k, k, s, col)
    BY <1>1, <1>9, <1>14, <1>16, <1>17, <1>18, <1>19, <1>20, <2>1, <2>3 DEF Written
  <2> QED
    BY <2>4 DEF s
<1>21. CASE ~Ended(f, k)
  <2>1. s # <<>> /\ s[Len(s)] > 0 <=> k \in Said(f)
    <3>1. CASE blank
      <4>1. ASSUME s # <<>>, s[Len(s)] > 0 PROVE FALSE
        <5>1. Len(s) \in 1 .. Len(s)
          BY <1>1, <4>1, LenProperties, EmptySeq
        <5> QED
          BY <1>15, <3>1, <4>1, <5>1
      <4> QED
        BY <1>2, <3>1, <4>1
    <3>2. CASE ~blank
      <4>1. Len(s) = w + 1 /\ Len(s) # 0
        BY <1>3, <1>5, <1>13, <1>21, <3>2
      <4>2. s # <<>> /\ s[Len(s)] = k
        BY <1>1, <3>2, <4>1, EmptySeq
      <4> QED
        BY <1>2, <3>2, <4>2
    <3> QED
      BY <3>1, <3>2
  <2>2. Written(f, k, k, s, col)
    BY <1>1, <1>9, <1>14, <1>16, <1>17, <1>18, <1>19, <1>21, <2>1 DEF Written
  <2> QED
    BY <2>2 DEF s
<1> QED
  BY <1>20, <1>21


\* A line is added to those before it.
LEMMA WrittenMore ==
    ASSUME NEW f \in Files, NEW b \in 1 .. Len(f.lines), b < Len(f.lines),
           NEW s, NEW t, NEW a, NEW c,
           Written(f, 1, b, s, a), Written(f, b + 1, b + 1, t, c)
    PROVE  \E col : Written(f, 1, b + 1, s \o t, col)
<1> DEFINE m == Len(s)
           n == Len(t)
           u == s \o t
           col == Join(s, t, a, c)
<1>1. /\ b \in Nat /\ b > 0 /\ Ended(f, b)
      /\ Said(f) \subseteq Nat
  BY FileLines DEF Ended
<1>2. /\ s \in Seq(Int) /\ Columns(s, a) /\ a[1] = 0
      /\ \A i \in 1 .. m : Legible(s[i])
      /\ \A i \in 1 .. m : s[i] > 0 =>
             /\ s[i] \in Said(f) /\ s[i] \in 1 .. b
             /\ a[i] = Width(f, s[i])
             /\ i < m => s[i + 1] = Newline
      /\ \A i, j \in 1 .. m : i < j /\ s[i] > 0 /\ s[j] > 0 => s[i] < s[j]
      /\ \A k \in Said(f) : k \in 1 .. b => \E i \in 1 .. m : s[i] = k
      /\ s # <<>> /\ s[m] = Newline /\ a[m + 1] = 0
  BY <1>1 DEF Written
<1>3. /\ t \in Seq(Int) /\ Columns(t, c) /\ c[1] = 0
      /\ \A i \in 1 .. n : Legible(t[i])
      /\ \A i \in 1 .. n : t[i] > 0 =>
             /\ t[i] \in Said(f) /\ t[i] \in b + 1 .. b + 1
             /\ c[i] = Width(f, t[i])
             /\ i < n => t[i + 1] = Newline
      /\ \A i, j \in 1 .. n : i < j /\ t[i] > 0 /\ t[j] > 0 => t[i] < t[j]
      /\ \A k \in Said(f) : k \in b + 1 .. b + 1 => \E i \in 1 .. n : t[i] = k
      /\ IF Ended(f, b + 1)
           THEN t # <<>> /\ t[n] = Newline /\ c[n + 1] = 0
           ELSE t # <<>> /\ t[n] > 0 <=> b + 1 \in Said(f)
  BY DEF Written
<1>4. m \in Nat /\ n \in Nat /\ m > 0 /\ (n = 0 <=> t = <<>>)
  <2>1. s \in Seq(Int) /\ t \in Seq(Int) /\ s # <<>>
    BY <1>2, <1>3
  <2> QED
    BY <2>1, LenProperties, EmptySeq
<1>5. /\ Columns(u, col)
      /\ \A i \in 1 .. m + 1 : col[i] = a[i]
      /\ \A i \in 1 .. n + 1 : col[m + i] = c[i]
  <2>1. /\ s \in Seq(Int) /\ t \in Seq(Int) /\ Columns(s, a) /\ Columns(t, c)
        /\ a[Len(s) + 1] = c[1]
    BY <1>2, <1>3
  <2> QED
    BY <2>1, JoinColumns
<1>6. /\ u \in Seq(Int) /\ Len(u) = m + n
      /\ \A i \in 1 .. m + n : u[i] = IF i <= m THEN s[i] ELSE t[i - m]
  BY <1>2, <1>3, ConcatProperties
<1> HIDE DEF m, n, u, col
<1>7. \A i \in 1 .. m : i \in 1 .. m + n /\ u[i] = s[i] /\ col[i] = a[i]
  BY <1>4, <1>5, <1>6
<1>8. ASSUME NEW i \in 1 .. n PROVE m + i \in 1 .. m + n /\ u[m + i] = t[i] /\ col[m + i] = c[i]
  <2>1. m + i \in 1 .. m + n /\ ~(m + i <= m) /\ (m + i) - m = i /\ i \in 1 .. n + 1
    BY <1>4
  <2> QED
    BY <1>5, <1>6, <2>1
<1>9. ASSUME NEW i \in 1 .. m + n PROVE i \in 1 .. m \/ \E j \in 1 .. n : i = m + j
  <2>1. CASE i > m
    <3>1. i - m \in 1 .. n /\ i = m + (i - m)
      BY <1>4, <2>1
    <3> QED
      BY <3>1
  <2> QED
    BY <1>4, <2>1
<1>10. ~(Newline > 0)
  BY DEF Newline
<1>11. ASSUME NEW i \in 1 .. m + n PROVE Legible(u[i])
  <2>1. CASE i \in 1 .. m
    BY <1>2, <1>7, <2>1
  <2>2. ASSUME NEW j \in 1 .. n, i = m + j PROVE Legible(u[i])
    BY <1>3, <1>8, <2>2
  <2> QED
    BY <1>9, <2>1, <2>2
<1> DEFINE AsWritten(i) ==
               /\ u[i] \in Said(f) /\ u[i] \in 1 .. b + 1
               /\ col[i] = Width(f, u[i])
               /\ i < m + n => u[i + 1] = Newline
<1>12. ASSUME NEW i \in 1 .. m + n, u[i] > 0
       PROVE  AsWritten(i)
  <2>1. CASE i \in 1 .. m
    <3>1. s[i] > 0 /\ s[i] \in Said(f) /\ s[i] \in 1 .. b /\ a[i] = Width(f, s[i])
          /\ (i < m => s[i + 1] = Newline)
      BY <1>2, <1>7, <1>12, <2>1
    <3>2. i + 1 \in 1 .. m
      BY <1>2, <1>4, <1>10, <2>1, <3>1
    <3>3. u[i] \in 1 .. b + 1 /\ u[i] \in Said(f) /\ col[i] = Width(f, u[i])
      BY <1>1, <1>7, <2>1, <3>1
    <3>4. i < m
      BY <1>4, <2>1, <3>2
    <3>5. u[i + 1] = Newline
      BY <1>7, <3>1, <3>2, <3>4
    <3> QED
      BY <3>3, <3>5
  <2>2. ASSUME NEW j \in 1 .. n, i = m + j PROVE AsWritten(i)
    <3>1. t[j] > 0 /\ t[j] \in Said(f) /\ t[j] \in b + 1 .. b + 1 /\ c[j] = Width(f, t[j])
          /\ (j < n => t[j + 1] = Newline)
      BY <1>3, <1>8, <1>12, <2>2
    <3>2. ASSUME i < m + n PROVE u[i + 1] = Newline
      <4>1. j < n /\ j + 1 \in 1 .. n /\ i + 1 = m + (j + 1)
        BY <1>4, <2>2, <3>2
      <4> QED
        BY <1>8, <3>1, <4>1
    <3>3. u[i] \in 1 .. b + 1 /\ u[i] \in Said(f) /\ col[i] = Width(f, u[i])
      BY <1>1, <1>8, <2>2, <3>1
    <3> QED
      BY <3>2, <3>3
  <2> QED
    BY <1>9, <2>1, <2>2
<1>13. ASSUME NEW i \in 1 .. m + n, NEW j \in 1 .. m + n, i < j, u[i] > 0, u[j] > 0
       PROVE  u[i] < u[j]
  <2>1. CASE i \in 1 .. m /\ j \in 1 .. m
    BY <1>2, <1>7, <1>13, <2>1
  <2>2. ASSUME i \in 1 .. m, NEW k \in 1 .. n, j = m + k PROVE u[i] < u[j]
    <3>1. u[i] \in 1 .. b /\ u[j] \in b + 1 .. b + 1
      BY <1>2, <1>3, <1>7, <1>8, <1>13, <2>2
    <3> QED
      BY <1>1, <3>1
  <2>3. ASSUME NEW h \in 1 .. n, i = m + h, NEW k \in 1 .. n, j = m + k PROVE u[i] < u[j]
    <3>1. h < k
      BY <1>4, <1>13, <2>3
    <3> QED
      BY <1>3, <1>8, <1>13, <2>3, <3>1
  <2>4. ASSUME NEW h \in 1 .. n, i = m + h PROVE j \notin 1 .. m
    BY <1>4, <1>13, <2>4
  <2> QED
    BY <1>9, <2>1, <2>2, <2>3, <2>4
<1>14. ASSUME NEW k \in Said(f), k \in 1 .. b + 1 PROVE \E i \in 1 .. m + n : u[i] = k
  <2>1. CASE k \in 1 .. b
    BY <1>2, <1>7, <2>1
  <2>2. CASE k = b + 1
    <3>1. k \in b + 1 .. b + 1
      BY <1>1, <2>2
    <3>2. PICK i \in 1 .. n : t[i] = k
      BY <1>3, <3>1
    <3> QED
      BY <1>8, <3>2
  <2> QED
    BY <1>1, <1>14, <2>1, <2>2
<1>15. u # <<>>
  BY <1>4, <1>6, EmptySeq
<1>16. n > 0 => u[m + n] = t[n] /\ n \in 1 .. n
  BY <1>4, <1>8
<1>17. IF Ended(f, b + 1)
         THEN u # <<>> /\ u[m + n] = Newline /\ col[m + n + 1] = 0
         ELSE u # <<>> /\ u[m + n] > 0 <=> b + 1 \in Said(f)
  <2>1. CASE Ended(f, b + 1)
    <3>1. n > 0 /\ t[n] = Newline /\ c[n + 1] = 0 /\ n + 1 \in 1 .. n + 1
      BY <1>3, <1>4, <2>1
    <3>2. col[m + n + 1] = 0
      <4>1. m + n + 1 = m + (n + 1)
        BY <1>4
      <4> QED
        BY <1>5, <3>1, <4>1
    <3> QED
      BY <1>15, <1>16, <2>1, <3>1, <3>2
  <2>2. CASE ~Ended(f, b + 1) /\ n = 0
    <3>1. b + 1 \notin Said(f)
      BY <1>3, <1>4, <2>2
    <3>2. u[m + n] = Newline
      <4>1. m + n = m /\ m \in 1 .. m
        BY <1>4, <2>2
      <4> QED
        BY <1>2, <1>7, <4>1
    <3> QED
      BY <1>10, <2>2, <3>1, <3>2
  <2>3. CASE ~Ended(f, b + 1) /\ n # 0
    BY <1>3, <1>4, <1>15, <1>16, <2>3
  <2> QED
    BY <2>1, <2>2, <2>3
<1>18. col[1] = 0
  BY <1>2, <1>4, <1>7
<1>19. Written(f, 1, b + 1, u, col)
  BY <1>5, <1>6, <1>11, <1>12, <1>13, <1>14, <1>17, <1>18 DEF Written
<1> QED
  BY <1>19 DEF u

\* What is scanned is what the file says.
LEMMA CharsWritten ==
    ASSUME NEW f \in Files
    PROVE  \E col : Written(f, 1, Len(f.lines), Chars(f), col)
<1> DEFINE seqs == [k \in DOMAIN f.lines |-> LineChars(f, k)]
           L == Len(f.lines)
<1>1. L \in Nat \ {0} /\ DOMAIN f.lines = 1 .. L
  BY FileLines
<1>2. \A k \in 1 .. L : LineChars(f, k) \in Seq(Int)
  BY LineIs
<1>3. seqs \in [1 .. L -> Seq(Int)]
  BY <1>1, <1>2
<1>4. Len(seqs) = L
  BY <1>1, <1>3
<1>5. \A k \in 1 .. L : seqs[k] = LineChars(f, k)
  BY <1>1
<1>6. Chars(f) = FlattenSeq(seqs)
  BY DEF Chars
<1> HIDE DEF seqs, L
<1>7. /\ FlattenSeq(seqs) = Flatten(seqs)[L]
      /\ Flatten(seqs)[1] = seqs[1]
      /\ \A i \in 1 .. L : i > 1 => Flatten(seqs)[i] = Flatten(seqs)[i - 1] \o seqs[i]
  BY <1>1, <1>4, FlattenOf
<1> DEFINE S == {n \in Nat : n \in 1 .. L => \E col : Written(f, 1, n, Flatten(seqs)[n], col)}
<1>8. 0 \in S
  OBVIOUS
<1>9. ASSUME NEW n \in Nat, n \in S PROVE n + 1 \in S
  <2>1. CASE n = 0
    <3>1. 1 \in 1 .. L
      BY <1>1
    <3>2. \E col : Written(f, 1, 1, Flatten(seqs)[1], col)
      BY <1>5, <1>7, <3>1, LineWritten DEF L
    <3> QED
      BY <2>1, <3>2
  <2>2. CASE n # 0 /\ n < L
    <3>1. n \in 1 .. L /\ n + 1 \in 1 .. L /\ n + 1 > 1 /\ (n + 1) - 1 = n
      BY <1>1, <2>2
    <3>2. PICK a : Written(f, 1, n, Flatten(seqs)[n], a)
      BY <1>9, <3>1
    <3>3. PICK c : Written(f, n + 1, n + 1, LineChars(f, n + 1), c)
      BY <3>1, LineWritten DEF L
    <3>4. Flatten(seqs)[n + 1] = Flatten(seqs)[n] \o LineChars(f, n + 1)
      BY <1>5, <1>7, <3>1
    <3>5. \E col : Written(f, 1, n + 1, Flatten(seqs)[n] \o LineChars(f, n + 1), col)
      BY <2>2, <3>1, <3>2, <3>3, WrittenMore DEF L
    <3>6. \E col : Written(f, 1, n + 1, Flatten(seqs)[n + 1], col)
      BY <3>4, <3>5
    <3> QED
      BY <3>6
  <2>3. CASE ~(n < L)
    BY <1>1, <2>3
  <2> QED
    BY <2>1, <2>2, <2>3
<1> HIDE DEF S
<1>10. L \in S /\ L \in 1 .. L
  BY <1>1, <1>8, <1>9, Induction
<1>11. \E col : Written(f, 1, L, Flatten(seqs)[L], col)
  BY <1>10 DEF S
<1> QED
  BY <1>6, <1>7, <1>11 DEF L

-----------------------------------------------------------------------------
(***************************************************************************)
(* The levels of a stack, and the depths of the blocks a line is in.       *)
(***************************************************************************)

Entries(s) == {s[i] : i \in 1 .. Len(s)}

\* What the other lemmas ask of a stack's members.
LEMMA StackLen ==
    ASSUME NEW s, Stack(s)
    PROVE  /\ s \in Seq(Nat) /\ s # <<>> /\ Len(s) \in Nat \ {0} /\ DOMAIN s = 1 .. Len(s)
           /\ Head(s) = s[1] /\ \A i \in 1 .. Len(s) : s[i] \in Nat
           /\ Entries(s) \subseteq Nat /\ Head(s) \in Entries(s) /\ Head(s) \in Nat
<1>1. s \in Seq(Nat) /\ s # <<>>
  BY DEF Stack
<1>2. Len(s) \in Nat \ {0} /\ DOMAIN s = 1 .. Len(s) /\ Head(s) = s[1]
  BY <1>1, LenProperties, EmptySeq
<1>3. \A i \in 1 .. Len(s) : s[i] \in Nat
  BY <1>1, ElementOfSeq
<1>4. 1 \in 1 .. Len(s)
  BY <1>2
<1> QED
  BY <1>1, <1>2, <1>3, <1>4 DEF Entries

\* A stack decreases from any level to any level under it.
LEMMA StackDecreases ==
    ASSUME NEW s, Stack(s)
    PROVE  \A i, j \in 1 .. Len(s) : i < j => s[j] < s[i]
<1> DEFINE S == {n \in Nat : n \in 1 .. Len(s) => \A i \in 1 .. Len(s) : i < n => s[n] < s[i]}
<1>1. /\ Len(s) \in Nat /\ \A i \in 1 .. Len(s) : s[i] \in Nat
      /\ \A i \in 1 .. Len(s) : i > 1 => s[i] < s[i - 1]
  BY StackLen DEF Stack
<1>2. 0 \in S
  OBVIOUS
<1>3. ASSUME NEW n \in Nat, n \in S PROVE n + 1 \in S
  <2> SUFFICES ASSUME n + 1 \in 1 .. Len(s), NEW i \in 1 .. Len(s), i < n + 1
              PROVE  s[n + 1] < s[i]
    OBVIOUS
  <2>2. n \in 1 .. Len(s) /\ n + 1 > 1 /\ (n + 1) - 1 = n
    OBVIOUS
  <2>3. s[n + 1] < s[n]
    BY <1>1, <2>2
  <2>4. CASE i = n
    BY <2>3, <2>4
  <2>5. CASE i < n
    <3>1. s[n] < s[i]
      BY <1>3, <2>2, <2>5
    <3>2. s[n] \in Nat /\ s[n + 1] \in Nat /\ s[i] \in Nat
      BY <1>1, <2>2
    <3> QED
      BY <2>3, <3>1, <3>2
  <2> QED
    BY <2>4, <2>5
<1> HIDE DEF S
<1>4. \A n \in Nat : n \in S
  BY <1>2, <1>3, Induction
<1> QED
  BY <1>1, <1>4 DEF S

\* The topmost level is the deepest.
LEMMA TopDeepest ==
    ASSUME NEW s, Stack(s)
    PROVE  \A x \in Entries(s) : x <= Head(s)
<1> SUFFICES ASSUME NEW i \in 1 .. Len(s) PROVE s[i] <= s[1]
  BY StackLen DEF Entries
<1>2. 1 \in 1 .. Len(s) /\ s[1] \in Nat /\ s[i] \in Nat /\ (i = 1 \/ 1 < i)
  BY StackLen
<1> QED
  BY <1>2, StackDecreases

\* With the left margin on top there is nothing else.
LEMMA OnlyMargin ==
    ASSUME NEW s, Stack(s)
    PROVE  /\ Head(s) = 0 => s = <<0>>
           /\ Len(s) = 1 <=> s = <<0>>
<1>1. s \in Seq(Nat) /\ s[Len(s)] = 0 /\ Len(s) \in Nat \ {0} /\ Head(s) = s[1]
  BY StackLen DEF Stack
<1>2. ASSUME Len(s) = 1 PROVE s = <<0>>
  <2>1. <<0>> \in Seq(Nat) /\ Len(<<0>>) = 1 /\ <<0>>[1] = 0
    OBVIOUS
  <2>2. \A i \in 1 .. Len(s) : s[i] = <<0>>[i]
    BY <1>1, <1>2, <2>1
  <2> QED
    BY <1>1, <1>2, <2>1, <2>2, SeqEqual
<1>3. ASSUME Head(s) = 0 PROVE Len(s) = 1
  <2>1. ASSUME Len(s) # 1 PROVE FALSE
    <3>1. 1 \in 1 .. Len(s) /\ Len(s) \in 1 .. Len(s) /\ 1 < Len(s)
      <4> DEFINE l == Len(s)
      <4>1. l \in Nat \ {0} /\ l # 1
        BY <1>1, <2>1
      <4> HIDE DEF l
      <4>2. 1 \in 1 .. l /\ l \in 1 .. l /\ 1 < l
        BY <4>1
      <4> QED
        BY <4>2 DEF l
    <3>2. s[Len(s)] < s[1]
      BY <3>1, StackDecreases
    <3> QED
      BY <1>1, <1>3, <3>2
  <2> QED
    BY <2>1
<1>4. s = <<0>> => Len(s) = 1
  OBVIOUS
<1> QED
  BY <1>2, <1>3, <1>4

\* What is put on top, and what is left without the top.
LEMMA PushedEntries ==
    ASSUME NEW s, Stack(s), NEW n \in Nat
    PROVE  /\ Len(<<n>> \o s) = Len(s) + 1
           /\ Entries(<<n>> \o s) = Entries(s) \cup {n}
<1> DEFINE t == <<n>> \o s
<1>1. <<n>> \in Seq(Nat) /\ Len(<<n>>) = 1 /\ <<n>>[1] = n
  OBVIOUS
<1>2. s \in Seq(Nat) /\ Len(s) \in Nat
  BY StackLen
<1>3. /\ Len(t) = 1 + Len(s)
      /\ \A i \in 1 .. 1 + Len(s) : t[i] = IF i <= 1 THEN <<n>>[1] ELSE s[i - 1]
  <2>1. \A i \in 1 .. 1 + Len(s) : i <= 1 => i = 1
    BY <1>2
  <2> QED
    BY <1>1, <1>2, <2>1, ConcatProperties
<1> HIDE DEF t
<1>4. ASSUME NEW x \in Entries(t) PROVE x \in Entries(s) \cup {n}
  <2>1. PICK i \in 1 .. 1 + Len(s) : x = t[i]
    BY <1>2, <1>3, <1>4 DEF Entries
  <2>2. CASE i <= 1
    BY <1>1, <1>3, <2>1, <2>2
  <2>3. CASE ~(i <= 1)
    <3>1. i - 1 \in 1 .. Len(s) /\ x = s[i - 1]
      BY <1>2, <1>3, <2>1, <2>3
    <3> QED
      BY <3>1 DEF Entries
  <2> QED
    BY <2>2, <2>3
<1>5. n \in Entries(t)
  <2>1. 1 \in 1 .. Len(t) /\ t[1] = n
    BY <1>1, <1>2, <1>3
  <2> QED
    BY <2>1 DEF Entries
<1>6. ASSUME NEW i \in 1 .. Len(s) PROVE s[i] \in Entries(t)
  <2>1. i + 1 \in 1 .. 1 + Len(s) /\ ~(i + 1 <= 1) /\ (i + 1) - 1 = i
    BY <1>2
  <2>2. t[i + 1] = s[i] /\ i + 1 \in 1 .. Len(t)
    BY <1>3, <2>1
  <2> QED
    BY <2>2 DEF Entries
<1>7. Entries(s) \subseteq Entries(t)
  BY <1>6 DEF Entries
<1>8. Len(t) = Len(s) + 1
  BY <1>2, <1>3
<1>9. Entries(t) = Entries(s) \cup {n}
  BY <1>4, <1>5, <1>7
<1> QED
  BY <1>8, <1>9 DEF t

\* Popping takes away the topmost entry, and there is one below it.
LEMMA PoppedEntries ==
    ASSUME NEW s, Stack(s), Head(s) > 0
    PROVE  /\ Stack(Tail(s)) /\ s[2] \in Nat /\ Head(Tail(s)) = s[2]
           /\ Len(Tail(s)) = Len(s) - 1
           /\ Entries(Tail(s)) = Entries(s) \ {Head(s)}
           /\ s[2] < Head(s)
<1> DEFINE t == Tail(s)
<1>1. /\ s \in Seq(Nat) /\ s # <<>> /\ Len(s) \in Nat \ {0} /\ Head(s) = s[1]
      /\ \A i \in 1 .. Len(s) : s[i] \in Nat
  BY StackLen
<1>2. Stack(t) /\ s[2] \in Nat
  BY Popped
<1>3. Len(t) = Len(s) - 1 /\ \A i \in 1 .. Len(t) : t[i] = s[i + 1]
  BY <1>1, HeadTailProperties
<1>4. Len(t) \in Nat \ {0} /\ Head(t) = t[1]
  BY <1>2, StackLen
<1> HIDE DEF t
<1>5. Head(t) = s[2]
  BY <1>3, <1>4
<1>6. s[2] < s[1]
  <2>1. 1 \in 1 .. Len(s) /\ 2 \in 1 .. Len(s)
    BY <1>1, <1>3, <1>4
  <2> QED
    BY <2>1, StackDecreases
<1>7. ASSUME NEW i \in 1 .. Len(t) PROVE t[i] \in Entries(s) \ {s[1]}
  <2>1. i + 1 \in 1 .. Len(s) /\ 1 \in 1 .. Len(s) /\ 1 < i + 1
    BY <1>1, <1>3
  <2>2. s[i + 1] < s[1] /\ s[i + 1] \in Nat /\ s[1] \in Nat
    BY <1>1, <2>1, StackDecreases
  <2> QED
    BY <1>3, <2>1, <2>2 DEF Entries
<1>8. ASSUME NEW i \in 1 .. Len(s), s[i] # s[1] PROVE s[i] \in Entries(t)
  <2>1. i - 1 \in 1 .. Len(t) /\ (i - 1) + 1 = i
    BY <1>1, <1>3, <1>8
  <2>2. t[i - 1] = s[i]
    BY <1>3, <2>1
  <2> QED
    BY <2>1, <2>2 DEF Entries
<1>9. Entries(t) = Entries(s) \ {s[1]}
  <2>1. Entries(t) \subseteq Entries(s) \ {s[1]}
    BY <1>7 DEF Entries
  <2>2. Entries(s) \ {s[1]} \subseteq Entries(t)
    BY <1>8 DEF Entries
  <2> QED
    BY <2>1, <2>2
<1> QED
  BY <1>1, <1>2, <1>3, <1>5, <1>6, <1>9 DEF t

\* The depths of line k and of the blocks it is in.
Depths(f, k) == {Width(f, j) : j \in Around(f, k) \cup {k}}

\* Line m is the first after k to say something.
Follows(f, k, m) == m \in Said(f) /\ k < m /\ \A j \in Said(f) : ~(k < j /\ j < m)

\* Lines that say something, and the margin, are at natural columns.
LEMMA WidthTyped ==
    ASSUME NEW f \in Files, NEW k \in Said(f) \cup {0}
    PROVE  k \in Nat /\ k <= Len(f.lines) /\ Width(f, k) \in Nat
           /\ Around(f, k) \subseteq Said(f) \cup {0} /\ Around(f, k) \subseteq Nat
           /\ Depths(f, k) \subseteq Nat
<1>1. /\ Len(f.lines) \in Nat /\ Said(f) \subseteq 1 .. Len(f.lines) /\ Width(f, 0) \in Nat
      /\ \A j \in 1 .. Len(f.lines) : Width(f, j) \in Nat
  BY FileLines
<1>2. \A j \in Said(f) \cup {0} : j \in Nat /\ Width(f, j) \in Nat /\ j <= Len(f.lines)
  BY <1>1
<1>3. Around(f, k) \subseteq Said(f) \cup {0}
  BY DEF Around
<1> QED
  BY <1>2, <1>3 DEF Depths

\* Before the first line there is only the margin.
LEMMA DepthsOfMargin ==
    ASSUME NEW f \in Files
    PROVE  Depths(f, 0) = {0}
<1>1. Said(f) \subseteq Nat /\ Width(f, 0) = 0
  BY FileLines
<1>2. Around(f, 0) = {}
  BY <1>1 DEF Around
<1> QED
  BY <1>1, <1>2 DEF Depths

\* The next line is in those blocks of k, and in that of k itself, that begin
\* to the left of it.
LEMMA DepthsOfNext ==
    ASSUME NEW f \in Files, NEW k \in Said(f) \cup {0}, NEW m, Follows(f, k, m)
    PROVE  Depths(f, m) = {x \in Depths(f, k) : x < Width(f, m)} \cup {Width(f, m)}
<1>1. /\ \A j \in Said(f) \cup {0} : j \in Nat /\ Width(f, j) \in Nat
      /\ 0 \notin Said(f)
  BY WidthTyped, FileLines
<1>2. m \in Said(f) /\ k < m /\ \A j \in Said(f) : ~(k < j /\ j < m)
  BY DEF Follows
<1>3. m \in Nat /\ k \in Nat
  BY <1>1, <1>2
<1>4. ASSUME NEW j \in Said(f) \cup {0}
      PROVE  j \in Around(f, m) <=> j \in Around(f, k) \cup {k} /\ Width(f, j) < Width(f, m)
  <2>1. j \in Nat
    BY <1>1
  <2>2. ASSUME j \in Around(f, m) PROVE j \in Around(f, k) \cup {k} /\ Width(f, j) < Width(f, m)
    <3>1. /\ j < m /\ Width(f, j) < Width(f, m)
          /\ \A i \in Said(f) : j < i /\ i < m => Width(f, j) < Width(f, i)
      BY <2>2 DEF Around
    <3>2. j = k \/ j < k
      BY <1>1, <1>2, <1>3, <2>1, <3>1
    <3>3. ASSUME j < k PROVE j \in Around(f, k)
      <4>1. k \in Said(f)
        BY <1>3, <2>1, <3>3
      <4>2. Width(f, j) < Width(f, k)
        BY <1>2, <3>1, <3>3, <4>1
      <4>3. ASSUME NEW i \in Said(f), j < i, i < k PROVE Width(f, j) < Width(f, i)
        <5>1. i < m
          BY <1>1, <1>2, <1>3, <4>3
        <5> QED
          BY <3>1, <4>3, <5>1
      <4> QED
        BY <3>3, <4>2, <4>3 DEF Around
    <3> QED
      BY <3>1, <3>2, <3>3
  <2>3. ASSUME j \in Around(f, k) \cup {k}, Width(f, j) < Width(f, m)
        PROVE  j \in Around(f, m)
    <3>1. CASE j = k
      BY <1>2, <2>3, <3>1 DEF Around
    <3>2. CASE j \in Around(f, k)
      <4>1. /\ j < k /\ Width(f, j) < Width(f, k)
            /\ \A i \in Said(f) : j < i /\ i < k => Width(f, j) < Width(f, i)
        BY <3>2 DEF Around
      <4>2. j < m
        BY <1>2, <1>3, <2>1, <4>1
      <4>3. ASSUME NEW i \in Said(f), j < i, i < m PROVE Width(f, j) < Width(f, i)
        <5>1. i < k \/ i = k
          BY <1>1, <1>2, <1>3, <4>3
        <5> QED
          BY <4>1, <4>3, <5>1
      <4> QED
        BY <2>3, <4>2, <4>3 DEF Around
    <3> QED
      BY <2>3, <3>1, <3>2
  <2> QED
    BY <2>2, <2>3
<1>5. Around(f, m) = {j \in Around(f, k) \cup {k} : Width(f, j) < Width(f, m)}
  <2>1. Around(f, m) \subseteq Said(f) \cup {0} /\ Around(f, k) \subseteq Said(f) \cup {0}
    BY DEF Around
  <2> QED
    BY <1>4, <2>1
<1> QED
  BY <1>5 DEF Depths

\* A bijection keeps the size.
LEMMA SameSize ==
    ASSUME NEW A, NEW T, NEW g \in [A -> T], IsFiniteSet(A),
           \A x, y \in A : g[x] = g[y] => x = y,
           \A y \in T : \E x \in A : g[x] = y
    PROVE  Cardinality(T) = Cardinality(A)
<1>1. g \in Bijection(A, T)
  BY DEF Bijection, Injection, Surjection, IsInjective
<1>2. ExistsBijection(A, T)
  BY <1>1 DEF ExistsBijection
<1> QED
  BY <1>2, FS_Bijection

\* If the levels are the depths of a line, there is one for each block it is in
\* and one for the line.
LEMMA BlocksCounted ==
    ASSUME NEW f \in Files, NEW k \in Said(f) \cup {0},
           NEW s, Stack(s), Entries(s) = Depths(f, k)
    PROVE  Cardinality(Around(f, k)) = Len(s) - 1 /\ IsFiniteSet(Around(f, k))
<1> DEFINE A == Around(f, k)
           T == Entries(s) \ {Width(f, k)}
           n == Len(s)
<1>1. /\ \A j \in Said(f) \cup {0} : j \in Nat /\ Width(f, j) \in Nat /\ j <= Len(f.lines)
      /\ A \subseteq Said(f) \cup {0} /\ A \subseteq Nat /\ Len(f.lines) \in Nat
      /\ 0 \notin Said(f)
  BY WidthTyped, FileLines
<1>2. IsFiniteSet(A)
  BY <1>1, FS_BoundedSetOfNaturals
<1>3. ASSUME NEW j \in A
      PROVE  j < k /\ Width(f, j) < Width(f, k)
             /\ \A i \in Said(f) : j < i /\ i < k => Width(f, j) < Width(f, i)
  BY DEF Around
<1>4. n \in Nat \ {0} /\ s[1] = Head(s) /\ \A i \in 1 .. n : s[i] \in Nat
  BY StackLen
<1> HIDE DEF A, n
<1>5. s[1] = Width(f, k)
  <2>1. Width(f, k) \in Depths(f, k)
    BY DEF Depths
  <2>2. Width(f, k) <= s[1]
    BY <1>4, <2>1, TopDeepest
  <2>3. s[1] \in Depths(f, k)
    BY <1>4, StackLen
  <2>4. PICK j \in A \cup {k} : s[1] = Width(f, j)
    BY <2>3 DEF Depths, A
  <2>5. Width(f, j) <= Width(f, k)
    BY <1>1, <1>3, <2>4
  <2> QED
    BY <1>1, <2>2, <2>4, <2>5
<1>6. Cardinality(T) = Cardinality(A)
  <2> DEFINE g == [j \in A |-> Width(f, j)]
  <2>1. \A j \in A : Width(f, j) \in T
    <3>1. \A j \in A : Width(f, j) \in Depths(f, k)
      BY DEF Depths, A
    <3>2. \A j \in A : Width(f, j) # Width(f, k)
      BY <1>1, <1>3
    <3> QED
      BY <3>1, <3>2
  <2>2. g \in [A -> T]
    BY <2>1
  <2>3. ASSUME NEW i \in A, NEW j \in A, i < j PROVE Width(f, i) < Width(f, j)
    <3>1. j \in Said(f)
      BY <1>1, <2>3
    <3> QED
      BY <1>3, <2>3, <3>1
  <2>4. \A i, j \in A : i = j \/ i < j \/ j < i
    BY <1>1
  <2>5. \A i, j \in A : Width(f, i) = Width(f, j) => i = j
    BY <1>1, <2>3, <2>4
  <2>6. \A i, j \in A : g[i] = g[j] => i = j
    BY <2>5
  <2>7. \A y \in T : \E j \in A : g[j] = y
    <3>1. \A y \in T : \E j \in A : Width(f, j) = y
      BY DEF Depths, A
    <3> QED
      BY <3>1
  <2> HIDE DEF g, T
  <2> QED
    BY <1>2, <2>2, <2>6, <2>7, SameSize
<1>7. Cardinality(T) = Cardinality(2 .. n)
  <2> DEFINE h == [i \in 2 .. n |-> s[i]]
  <2>1. ASSUME NEW i \in 2 .. n PROVE i \in 1 .. n /\ s[i] \in T
    <3>1. i \in 1 .. n /\ 1 \in 1 .. n /\ 1 < i
      BY <1>4
    <3>2. s[i] < s[1] /\ s[i] \in Nat /\ s[1] \in Nat
      BY <1>4, <3>1, StackDecreases DEF n
    <3>3. s[i] \in Entries(s)
      BY <3>1 DEF Entries, n
    <3> QED
      BY <1>5, <3>1, <3>2, <3>3
  <2>2. h \in [2 .. n -> T]
    BY <2>1
  <2>3. ASSUME NEW i \in 2 .. n, NEW j \in 2 .. n, s[i] = s[j] PROVE i = j
    <3>1. i \in 1 .. n /\ j \in 1 .. n /\ s[i] \in Nat /\ s[j] \in Nat
      BY <1>4, <2>1
    <3>2. ~(i < j) /\ ~(j < i)
      BY <2>3, <3>1, StackDecreases DEF n
    <3> QED
      BY <3>1, <3>2
  <2>4. \A i, j \in 2 .. n : h[i] = h[j] => i = j
    BY <2>3
  <2>5. ASSUME NEW y \in T PROVE \E i \in 2 .. n : h[i] = y
    <3>1. PICK i \in 1 .. n : y = s[i]
      BY DEF Entries, n
    <3>2. i # 1
      BY <1>5, <3>1
    <3>3. i \in 2 .. n
      BY <1>4, <3>1, <3>2
    <3> QED
      BY <3>1, <3>3
  <2>6. IsFiniteSet(2 .. n)
    BY <1>4, FS_Interval
  <2>7. \A y \in T : \E i \in 2 .. n : h[i] = y
    BY <2>5
  <2> DEFINE B == 2 .. n
  <2> HIDE DEF h, T
  <2>8. h \in [B -> T] /\ IsFiniteSet(B)
    BY <2>2, <2>6
  <2>9. \A i, j \in B : h[i] = h[j] => i = j
    BY <2>4
  <2>10. \A y \in T : \E i \in B : h[i] = y
    BY <2>7
  <2> HIDE DEF B
  <2>11. Cardinality(T) = Cardinality(B)
    BY <2>8, <2>9, <2>10, SameSize
  <2> QED
    BY <2>11 DEF B
<1>8. Cardinality(2 .. n) = n - 1
  BY <1>4, FS_Interval
<1> QED
  BY <1>2, <1>6, <1>7, <1>8 DEF A, n

-----------------------------------------------------------------------------
(***************************************************************************)
(* The invariant: how much of the file has been returned, what of it is    *)
(* still to be scanned and at which columns, and what the levels have to   *)
(* do with both.  k is the last line that has been returned.               *)
(***************************************************************************)

\* What follows line k of f in s: the lines that say something, in their order,
\* each at the column it is written at.
Coming(f, k, s, col) ==
    /\ \A i \in 1 .. Len(s) : s[i] > 0 =>
           /\ s[i] \in Said(f) /\ s[i] > k
           /\ col[i] = Width(f, s[i])
           /\ i < Len(s) => s[i + 1] = Newline
    /\ \A i, j \in 1 .. Len(s) : i < j /\ s[i] > 0 /\ s[j] > 0 => s[i] < s[j]
    /\ \A m \in Said(f) : m > k => \E i \in 1 .. Len(s) : s[i] = m

\* The made-up line, if there is one, is the first, and as deep as the topmost
\* level.
MadeUpAhead(s, col, top) ==
    \E d \in 1 .. Len(s) :
        /\ s[d] = Dot /\ col[d] = top
        /\ \A i \in 1 .. Len(s) : i # d => Legible(s[i])
        /\ \A i \in 1 .. d - 1 : s[i] \in White

\* A file that ends in the middle of a line.
Unended(f) == ~f.ended /\ Len(f.lines) \in Said(f)

\* The last character is such a line, unless it has been returned.
Ending(f, s, c) ==
    /\ s # <<>> /\ s[Len(s)] > 0 => Unended(f) /\ s[Len(s)] = Len(f.lines)
    /\ Unended(f) => IF s = <<>> THEN c = "normal" ELSE s[Len(s)] > 0

InputOK(f, k, s, col, c, now, mark, top) ==
    /\ Columns(s, col) /\ col[1] = now
    /\ Coming(f, k, s, col)
    /\ Ending(f, s, c)
    /\ IF mark THEN MadeUpAhead(s, col, top) ELSE \A i \in 1 .. Len(s) : Legible(s[i])

\* The tokens are the lines up to k, each with a NEWLINE, and what opens and
\* closes blocks between them.
Returned(f, k, ts) ==
    /\ \A i \in 1 .. Len(ts) :
           /\ ts[i] \in {INDENT, OUTDENT, NEWLINE} \/ (ts[i] \in Said(f) /\ ts[i] <= k)
           /\ ts[i] = NEWLINE <=> i > 1 /\ ts[i - 1] > 0
           /\ i > 1 /\ ts[i] \in {INDENT, OUTDENT} => ts[i - 1] \in {NEWLINE, OUTDENT}
    /\ \A i, j \in 1 .. Len(ts) : i < j /\ ts[i] > 0 /\ ts[j] > 0 => ts[i] < ts[j]
    /\ \A m \in Said(f) : m <= k => \E i \in 1 .. Len(ts) : ts[i] = m

\* The last token is a line; or it is one after which a line may begin.
LineLast(ts) == ts # <<>> /\ ts[Len(ts)] > 0
OutLast(ts) == ts # <<>> => ts[Len(ts)] \in {NEWLINE, OUTDENT}

\* Before a line, the levels to its left are those of the line before.
Shared(f, k, lv) ==
    \A m : Follows(f, k, m) =>
        {x \in Entries(lv) : x < Width(f, m)} = {x \in Depths(f, k) : x < Width(f, m)}

\* In the middle of a line: before what it says, after it, at the end of the
\* file, and behind the last line.
InLine(f, k, s, ts, lv) ==
    \/ s # <<>> /\ Head(s) > 0 /\ ~LineLast(ts) /\ Entries(lv) = Depths(f, Head(s))
    \/ s # <<>> /\ Head(s) = Newline /\ LineLast(ts) /\ Entries(lv) = Depths(f, k)
    \/ s = <<>> /\ Unended(f) /\ k = Len(f.lines) /\ Entries(lv) = Depths(f, k)
    \/ s = <<>> /\ ~Unended(f) /\ ~LineLast(ts) /\ lv = <<0>>

PhaseOK(f, k, s, ts, lv, c, mark) ==
    /\ c = "start" => ts = <<>> /\ k = 0 /\ lv = <<0>> /\ ~mark
    /\ c = "indent" => OutLast(ts) /\ Shared(f, k, lv)
    /\ c = "normal" => ~mark /\ InLine(f, k, s, ts, lv)

Typed ==
    /\ file \in Files /\ input \in Seq(Int) /\ tokens \in Seq(Int)
    /\ cond \in {"start", "indent", "normal"} /\ current \in Nat
    /\ fake \in BOOLEAN /\ over \in BOOLEAN
    /\ Stack(levels)

Progress(k, col) ==
    /\ k \in Said(file) \cup {0}
    /\ InputOK(file, k, input, col, cond, current, fake, Head(levels))
    /\ Returned(file, k, tokens)
    /\ PhaseOK(file, k, input, tokens, levels, cond, fake)

LexInv ==
    /\ Typed
    /\ Depth = Len(levels) - 1
    /\ over => cond # "indent" /\ input = <<>>
    /\ \E k, col : Progress(k, col)

\* The kinds of characters and of tokens.
LEMMA Kinds ==
    /\ ~(Space > 0) /\ ~(Tab > 0) /\ ~(Newline > 0) /\ ~(Dot > 0)
    /\ {Space, Tab, Newline, Dot} \subseteq Int
    /\ Dot \notin White /\ ~Legible(Dot)
    /\ Space # Tab /\ Space # Newline /\ Tab # Newline
    /\ ~(INDENT > 0) /\ ~(OUTDENT > 0) /\ ~(NEWLINE > 0)
    /\ INDENT # OUTDENT /\ INDENT # NEWLINE /\ OUTDENT # NEWLINE
    /\ {INDENT, OUTDENT, NEWLINE} \subseteq Int
BY DEF Space, Tab, Newline, Dot, White, Legible, INDENT, OUTDENT, NEWLINE

-----------------------------------------------------------------------------
(***************************************************************************)
(* What is scanned.                                                        *)
(***************************************************************************)

\* A text, its first character, and the rest.
LEMMA HeadTail ==
    ASSUME NEW s \in Seq(Int), s # <<>>
    PROVE  /\ Len(s) \in Nat \ {0} /\ Head(s) = s[1] /\ Head(s) \in Int
           /\ Tail(s) \in Seq(Int) /\ Len(Tail(s)) = Len(s) - 1
           /\ \A i \in 1 .. Len(Tail(s)) : Tail(s)[i] = s[i + 1] /\ i + 1 \in 1 .. Len(s)
           /\ Len(Tail(s)) \in Nat
           /\ Tail(s) = <<>> <=> Len(s) = 1
           /\ Tail(s) # <<>> => Tail(s)[Len(Tail(s))] = s[Len(s)] /\ Head(Tail(s)) = s[2]
<1>1. Len(s) \in Nat \ {0} /\ Head(s) = s[1]
  BY LenProperties, EmptySeq
<1>2. /\ Head(s) \in Int /\ Tail(s) \in Seq(Int) /\ Len(Tail(s)) = Len(s) - 1
      /\ \A i \in 1 .. Len(Tail(s)) : Tail(s)[i] = s[i + 1]
  BY HeadTailProperties
<1> DEFINE t == Tail(s)
           n == Len(s)
<1> HIDE DEF t, n
<1>3. t \in Seq(Int) /\ n \in Nat \ {0} /\ Len(t) = n - 1 /\ \A i \in 1 .. n - 1 : t[i] = s[i + 1]
  BY <1>1, <1>2 DEF t, n
<1>4. t = <<>> <=> n = 1
  <2>1. t = <<>> <=> Len(t) = 0
    BY <1>3, EmptySeq
  <2> QED
    BY <1>3, <2>1
<1>5. ASSUME t # <<>> PROVE t[n - 1] = s[n] /\ Head(t) = s[2]
  <2>1. n - 1 \in 1 .. n - 1 /\ (n - 1) + 1 = n /\ 1 \in 1 .. n - 1
    BY <1>3, <1>4, <1>5
  <2>2. Head(t) = t[1]
    BY <1>3, <1>5, LenProperties, EmptySeq
  <2> QED
    BY <1>3, <2>1, <2>2
<1>6. \A i \in 1 .. n - 1 : i + 1 \in 1 .. n
  BY <1>3
<1>7. Len(t) \in Nat
  BY <1>3
<1> QED
  BY <1>1, <1>2, <1>3, <1>4, <1>5, <1>6, <1>7 DEF t, n

\* Without a character that is not a line, the same is coming.
LEMMA ComingTail ==
    ASSUME NEW f, NEW k, NEW s \in Seq(Int), s # <<>>, NEW col,
           Coming(f, k, s, col), ~(Head(s) > 0), Said(f) \subseteq Nat \ {0}
    PROVE  Coming(f, k, Tail(s), Shift(s, col))
<1> DEFINE t == Tail(s)
           c == Shift(s, col)
           n == Len(s)
<1>1. /\ n \in Nat \ {0} /\ Head(s) = s[1] /\ Len(t) = n - 1
      /\ \A i \in 1 .. Len(t) : t[i] = s[i + 1] /\ i + 1 \in 1 .. n
  BY HeadTail
<1>2. \A i \in 1 .. n : c[i] = col[i + 1]
  BY DEF Shift
<1>3. /\ \A i \in 1 .. n : s[i] > 0 =>
             /\ s[i] \in Said(f) /\ s[i] > k
             /\ col[i] = Width(f, s[i])
             /\ i < n => s[i + 1] = Newline
      /\ \A i, j \in 1 .. n : i < j /\ s[i] > 0 /\ s[j] > 0 => s[i] < s[j]
      /\ \A m \in Said(f) : m > k => \E i \in 1 .. n : s[i] = m
  BY DEF Coming
<1> HIDE DEF t, c, n
<1>4. ASSUME NEW i \in 1 .. Len(t), t[i] > 0
      PROVE  /\ t[i] \in Said(f) /\ t[i] > k /\ c[i] = Width(f, t[i])
             /\ i < Len(t) => t[i + 1] = Newline
  <2>1. i + 1 \in 1 .. n /\ s[i + 1] > 0 /\ t[i] = s[i + 1] /\ c[i] = col[i + 1]
    <3>1. i + 1 \in 1 .. n /\ t[i] = s[i + 1] /\ i \in 1 .. n
      BY <1>1
    <3> QED
      BY <1>2, <1>4, <3>1
  <2>2. ASSUME i < Len(t) PROVE t[i + 1] = Newline
    <3>1. i + 1 < n /\ i + 1 \in 1 .. Len(t)
      BY <1>1, <2>2
    <3>2. s[(i + 1) + 1] = Newline
      BY <1>3, <2>1, <3>1
    <3> QED
      BY <1>1, <3>1, <3>2
  <2> QED
    BY <1>3, <2>1, <2>2
<1>5. ASSUME NEW i \in 1 .. Len(t), NEW j \in 1 .. Len(t), i < j, t[i] > 0, t[j] > 0
      PROVE  t[i] < t[j]
  <2>1. i + 1 \in 1 .. n /\ j + 1 \in 1 .. n /\ i + 1 < j + 1 /\ t[i] = s[i + 1] /\ t[j] = s[j + 1]
    BY <1>1, <1>5
  <2> QED
    BY <1>3, <1>5, <2>1
<1>6. ASSUME NEW m \in Said(f), m > k PROVE \E i \in 1 .. Len(t) : t[i] = m
  <2>1. PICK i \in 1 .. n : s[i] = m
    BY <1>3, <1>6
  <2>2. i # 1
    BY <1>1, <2>1
  <2>3. i - 1 \in 1 .. Len(t) /\ (i - 1) + 1 = i
    BY <1>1, <2>1, <2>2
  <2> QED
    BY <1>1, <2>1, <2>3
<1>7. Coming(f, k, t, c)
  BY <1>4, <1>5, <1>6 DEF Coming
<1> QED
  BY <1>7 DEF t, c

\* The line that is at the head of what is scanned is the next one; behind it
\* comes what follows it.
LEMMA ComingNext ==
    ASSUME NEW f, NEW k \in Nat, NEW s \in Seq(Int), s # <<>>, NEW col,
           Said(f) \subseteq Nat \ {0}, Columns(s, col), Coming(f, k, s, col), Head(s) > 0
    PROVE  /\ Follows(f, k, Head(s)) /\ Head(s) \in Said(f)
           /\ col[1] = Width(f, Head(s))
           /\ Coming(f, Head(s), Tail(s), Shift(s, col))
           /\ Tail(s) # <<>> => Head(Tail(s)) = Newline
<1> DEFINE t == Tail(s)
           c == Shift(s, col)
           n == Len(s)
<1>1. /\ n \in Nat \ {0} /\ Head(s) = s[1] /\ Len(t) = n - 1
      /\ \A i \in 1 .. Len(t) : t[i] = s[i + 1] /\ i + 1 \in 1 .. n
      /\ t # <<>> => Head(t) = s[2]
      /\ t = <<>> <=> n = 1
  BY HeadTail
<1>2. \A i \in 1 .. n : c[i] = col[i + 1]
  BY DEF Shift
<1>3. /\ \A i \in 1 .. n : s[i] > 0 =>
             /\ s[i] \in Said(f) /\ s[i] > k
             /\ col[i] = Width(f, s[i])
             /\ i < n => s[i + 1] = Newline
      /\ \A i, j \in 1 .. n : i < j /\ s[i] > 0 /\ s[j] > 0 => s[i] < s[j]
      /\ \A m \in Said(f) : m > k => \E i \in 1 .. n : s[i] = m
  BY DEF Coming
<1>5. Said(f) \subseteq Nat \ {0} /\ k \in Nat
  OBVIOUS
<1> DEFINE h == s[1]
<1> HIDE DEF t, c, n, h
<1>4. 1 \in 1 .. n /\ (t # <<>> => 1 < n)
  BY <1>1
<1>6. h \in Said(f) /\ h > k /\ col[1] = Width(f, h) /\ (t # <<>> => s[2] = Newline) /\ h > 0
  BY <1>1, <1>3, <1>4 DEF h
<1>7. ASSUME NEW j \in Said(f), k < j, j < h PROVE FALSE
  <2>1. PICK i \in 1 .. n : s[i] = j
    BY <1>3, <1>5, <1>7
  <2>2. i = 1 \/ 1 < i
    BY <1>1, <2>1
  <2>3. s[i] > 0 /\ s[1] > 0
    BY <1>5, <1>6, <2>1 DEF h
  <2>4. s[1] <= s[i]
    <3>1. 1 < i => s[1] < s[i]
      BY <1>3, <1>4, <2>3
    <3>2. s[1] \in Nat /\ s[i] \in Nat
      BY <1>5, <1>6, <2>1 DEF h
    <3> QED
      BY <2>2, <3>1, <3>2
  <2> QED
    BY <1>5, <1>6, <1>7, <2>1, <2>4 DEF h
<1>8. Follows(f, k, h)
  BY <1>5, <1>6, <1>7 DEF Follows
<1>9. ASSUME NEW i \in 1 .. Len(t), t[i] > 0
      PROVE  /\ t[i] \in Said(f) /\ t[i] > h /\ c[i] = Width(f, t[i])
             /\ i < Len(t) => t[i + 1] = Newline
  <2>1. i + 1 \in 1 .. n /\ s[i + 1] > 0 /\ t[i] = s[i + 1] /\ c[i] = col[i + 1] /\ 1 < i + 1
    <3>1. i + 1 \in 1 .. n /\ t[i] = s[i + 1]
      BY <1>1
    <3>2. i \in 1 .. n /\ 1 < i + 1
      BY <1>1
    <3> QED
      BY <1>2, <1>9, <3>1, <3>2
  <2>2. ASSUME i < Len(t) PROVE t[i + 1] = Newline
    <3>1. i + 1 < n /\ i + 1 \in 1 .. Len(t)
      BY <1>1, <2>2
    <3>2. s[(i + 1) + 1] = Newline
      BY <1>3, <2>1, <3>1
    <3> QED
      BY <1>1, <3>1, <3>2
  <2>3. h < t[i]
    BY <1>3, <1>4, <1>6, <2>1 DEF h
  <2>4. t[i] \in Said(f) /\ c[i] = Width(f, t[i])
    BY <1>3, <2>1
  <2>5. t[i] > h
    BY <1>5, <1>6, <2>3, <2>4
  <2> QED
    BY <2>2, <2>4, <2>5
<1>10. ASSUME NEW i \in 1 .. Len(t), NEW j \in 1 .. Len(t), i < j, t[i] > 0, t[j] > 0
       PROVE  t[i] < t[j]
  <2>1. i + 1 \in 1 .. n /\ j + 1 \in 1 .. n /\ i + 1 < j + 1 /\ t[i] = s[i + 1] /\ t[j] = s[j + 1]
    BY <1>1, <1>10
  <2> QED
    BY <1>3, <1>10, <2>1
<1>11. ASSUME NEW m \in Said(f), m > h PROVE \E i \in 1 .. Len(t) : t[i] = m
  <2>1. m > k
    BY <1>5, <1>6, <1>11
  <2>2. PICK i \in 1 .. n : s[i] = m
    BY <1>3, <2>1
  <2>3. i # 1
    BY <1>5, <1>6, <1>11, <2>2 DEF h
  <2>4. i - 1 \in 1 .. Len(t) /\ (i - 1) + 1 = i
    BY <1>1, <2>2, <2>3
  <2> QED
    BY <1>1, <2>2, <2>4
<1>12. Coming(f, h, t, c)
  BY <1>9, <1>10, <1>11 DEF Coming
<1>13. h = Head(s)
  BY <1>1 DEF h
<1> QED
  BY <1>1, <1>6, <1>8, <1>12, <1>13 DEF t, c


\* What is put back before s says nothing.
LEMMA ComingBehind ==
    ASSUME NEW f, NEW k, NEW p \in Seq(Int), NEW s \in Seq(Int), NEW a, NEW col,
           Coming(f, k, s, col),
           \A i \in 1 .. Len(p) : ~(p[i] > 0),
           Columns(p, a), Columns(s, col), a[Len(p) + 1] = col[1]
    PROVE  Coming(f, k, p \o s, Join(p, s, a, col))
<1> DEFINE u == p \o s
           c == Join(p, s, a, col)
           m == Len(p)
           n == Len(s)
<1>1. m \in Nat /\ n \in Nat
  BY LenProperties
<1>2. /\ u \in Seq(Int) /\ Len(u) = m + n
      /\ \A i \in 1 .. m + n : u[i] = IF i <= m THEN p[i] ELSE s[i - m]
  BY ConcatProperties
<1>3. \A i \in 1 .. n + 1 : c[m + i] = col[i]
  BY JoinColumns
<1>4. /\ \A i \in 1 .. n : s[i] > 0 =>
             /\ s[i] \in Said(f) /\ s[i] > k
             /\ col[i] = Width(f, s[i])
             /\ i < n => s[i + 1] = Newline
      /\ \A i, j \in 1 .. n : i < j /\ s[i] > 0 /\ s[j] > 0 => s[i] < s[j]
      /\ \A x \in Said(f) : x > k => \E i \in 1 .. n : s[i] = x
  BY DEF Coming
<1> HIDE DEF u, c, m, n
<1>5. ASSUME NEW i \in 1 .. n
      PROVE  m + i \in 1 .. m + n /\ u[m + i] = s[i] /\ c[m + i] = col[i]
  <2>1. m + i \in 1 .. m + n /\ ~(m + i <= m) /\ (m + i) - m = i /\ i \in 1 .. n + 1
    BY <1>1
  <2> QED
    BY <1>2, <1>3, <2>1
<1>6. ASSUME NEW i \in 1 .. m + n, u[i] > 0
      PROVE  \E j \in 1 .. n : i = m + j
  <2>1. ~(i <= m)
    <3>1. ASSUME i <= m PROVE FALSE
      <4>1. i \in 1 .. m
        BY <1>1, <3>1
      <4> QED
        BY <1>2, <1>6, <3>1, <4>1 DEF m
    <3> QED
      BY <3>1
  <2>2. i - m \in 1 .. n /\ i = m + (i - m)
    BY <1>1, <2>1
  <2> QED
    BY <2>2
<1> DEFINE AsWritten(i) ==
             /\ u[i] \in Said(f) /\ u[i] > k /\ c[i] = Width(f, u[i])
             /\ i < m + n => u[i + 1] = Newline
<1>7. ASSUME NEW i \in 1 .. m + n, u[i] > 0 PROVE AsWritten(i)
  <2>1. PICK j \in 1 .. n : i = m + j
    BY <1>6, <1>7
  <2>2. u[i] = s[j] /\ c[i] = col[j]
    BY <1>5, <2>1
  <2>3. ASSUME i < m + n PROVE u[i + 1] = Newline
    <3>1. j < n /\ j + 1 \in 1 .. n /\ i + 1 = m + (j + 1)
      BY <1>1, <2>1, <2>3
    <3>2. s[j + 1] = Newline
      BY <1>4, <1>7, <2>2, <3>1
    <3> QED
      BY <1>5, <3>1, <3>2
  <2> QED
    BY <1>4, <1>7, <2>2, <2>3
<1>8. ASSUME NEW i \in 1 .. m + n, NEW j \in 1 .. m + n, i < j, u[i] > 0, u[j] > 0
      PROVE  u[i] < u[j]
  <2>1. PICK x \in 1 .. n : i = m + x
    BY <1>6, <1>8
  <2>2. PICK y \in 1 .. n : j = m + y
    BY <1>6, <1>8
  <2>3. x < y
    BY <1>1, <1>8, <2>1, <2>2
  <2>4. u[i] = s[x] /\ u[j] = s[y]
    BY <1>5, <2>1, <2>2
  <2> QED
    BY <1>4, <1>8, <2>3, <2>4
<1>9. ASSUME NEW x \in Said(f), x > k PROVE \E i \in 1 .. m + n : u[i] = x
  <2>1. PICK i \in 1 .. n : s[i] = x
    BY <1>4, <1>9
  <2> QED
    BY <1>5, <2>1
<1>10. Coming(f, k, u, c)
  BY <1>2, <1>7, <1>8, <1>9 DEF Coming
<1> QED
  BY <1>10 DEF u, c

\* Two texts, one behind the other.
LEMMA Glue ==
    ASSUME NEW s \in Seq(Int), NEW t \in Seq(Int)
    PROVE  /\ s \o t \in Seq(Int) /\ Len(s \o t) = Len(s) + Len(t)
           /\ \A i \in 1 .. Len(s) : (s \o t)[i] = s[i]
           /\ \A i \in 1 .. Len(t) : (s \o t)[Len(s) + i] = t[i]
<1> DEFINE u == s \o t
           m == Len(s)
           n == Len(t)
<1>1. /\ u \in Seq(Int) /\ Len(u) = m + n
      /\ \A i \in 1 .. m + n : u[i] = IF i <= m THEN s[i] ELSE t[i - m]
  BY ConcatProperties
<1>2. m \in Nat /\ n \in Nat
  BY LenProperties
<1> HIDE DEF u, m, n
<1>3. \A i \in 1 .. m : i \in 1 .. m + n /\ i <= m
  BY <1>2
<1>4. \A i \in 1 .. n : m + i \in 1 .. m + n /\ ~(m + i <= m) /\ (m + i) - m = i
  BY <1>2
<1>5. \A i \in 1 .. m : u[i] = s[i]
  BY <1>1, <1>3
<1>6. \A i \in 1 .. n : u[m + i] = t[i]
  BY <1>1, <1>4
<1> QED
  BY <1>1, <1>5, <1>6 DEF u, m, n

\* The end of a line, and the white space behind it.
LEMMA NewLine ==
    ASSUME NEW n \in Nat, NEW from \in Nat
    PROVE  LET s == <<Newline>> \o Spaces(n)
           IN  /\ s \in Seq(Int) /\ Len(s) = 1 + n
               /\ \A i \in 1 .. 1 + n : s[i] \in White
               /\ \E a : Columns(s, a) /\ a[1] = from /\ a[n + 2] = n
<1> DEFINE nl == <<Newline>>
           sp == Spaces(n)
           s == nl \o sp
           a == One(Newline, from)
           b == [i \in 1 .. n + 1 |-> 0 + i - 1]
<1>1. /\ nl \in Seq(Int) /\ Len(nl) = 1 /\ nl[1] = Newline
      /\ Columns(nl, a) /\ a[1] = from /\ a[2] = 0
  BY Kinds, OneColumn, Steps
<1>2. /\ sp \in Seq(Int) /\ Len(sp) = n /\ \A i \in 1 .. n : sp[i] = Space
      /\ Columns(sp, b)
  BY SpacesColumns
<1>3. b[1] = 0 /\ b[n + 1] = n
  OBVIOUS
<1> HIDE DEF nl, sp, a, b
<1>4. /\ s \in Seq(Int) /\ Len(s) = 1 + n
      /\ \A i \in 1 .. 1 : s[i] = nl[i]
      /\ \A i \in 1 .. n : s[1 + i] = sp[i]
  <2>1. /\ s \in Seq(Int) /\ Len(s) = Len(nl) + Len(sp)
        /\ \A i \in 1 .. Len(nl) : s[i] = nl[i]
        /\ \A i \in 1 .. Len(sp) : s[Len(nl) + i] = sp[i]
    BY <1>1, <1>2, Glue
  <2> HIDE DEF s
  <2> QED
    BY <1>1, <1>2, <2>1
<1>5. a[Len(nl) + 1] = b[1]
  BY <1>1, <1>3
<1>6. PICK c : /\ Columns(s, c)
               /\ \A i \in 1 .. 1 + 1 : c[i] = a[i]
               /\ \A i \in 1 .. n + 1 : c[1 + i] = b[i]
  <2> DEFINE j == Join(nl, sp, a, b)
  <2>1. /\ Columns(s, j)
        /\ \A i \in 1 .. Len(nl) + 1 : j[i] = a[i]
        /\ \A i \in 1 .. Len(sp) + 1 : j[Len(nl) + i] = b[i]
    <3>1. /\ nl \in Seq(Int) /\ sp \in Seq(Int) /\ Columns(nl, a) /\ Columns(sp, b)
          /\ a[Len(nl) + 1] = b[1]
      BY <1>1, <1>2, <1>5
    <3> QED
      BY <3>1, JoinColumns
  <2> HIDE DEF s, j
  <2>2. /\ Columns(s, j)
        /\ \A i \in 1 .. 1 + 1 : j[i] = a[i]
        /\ \A i \in 1 .. n + 1 : j[1 + i] = b[i]
    BY <1>1, <1>2, <2>1
  <2> QED
    BY <2>2
<1>7. c[1] = from /\ c[n + 2] = n
  <2>1. 1 \in 1 .. 1 + 1 /\ n + 1 \in 1 .. n + 1 /\ 1 + (n + 1) = n + 2
    OBVIOUS
  <2>2. c[1] = a[1] /\ c[1 + (n + 1)] = b[n + 1]
    BY <1>6, <2>1
  <2> QED
    BY <1>1, <1>3, <2>1, <2>2
<1>8. ASSUME NEW i \in 1 .. 1 + n PROVE s[i] \in White
  <2>1. CASE i = 1
    BY <1>1, <1>4, <2>1 DEF White
  <2>2. CASE i # 1
    <3>1. i - 1 \in 1 .. n /\ 1 + (i - 1) = i
      BY <2>2
    <3> QED
      BY <1>2, <1>4, <3>1 DEF White
  <2> QED
    BY <2>1, <2>2
<1> HIDE DEF s
<1>9. s \in Seq(Int) /\ Len(s) = 1 + n /\ (\A i \in 1 .. 1 + n : s[i] \in White)
      /\ \E x : Columns(s, x) /\ x[1] = from /\ x[n + 2] = n
  BY <1>4, <1>6, <1>7, <1>8
<1> QED
  BY <1>9 DEF s, nl, sp

\* What Shallower puts before a line: a line that is as deep as the level top,
\* and the white space of the line itself, which begins at column now.
Before(top, now) == MadeUp(top) \o <<Newline>> \o Spaces(now)

\* All of it is white space but the one character of the made-up line.
LEMMA BeforeIs ==
    ASSUME NEW top \in Nat, NEW now \in Nat
    PROVE  /\ Before(top, now) \in Seq(Int) /\ Len(Before(top, now)) = top + now + 3
           /\ Before(top, now)[top + 2] = Dot
           /\ \A i \in 1 .. top + now + 3 : i # top + 2 => Before(top, now)[i] \in White
           /\ \E a : /\ Columns(Before(top, now), a)
                     /\ a[1] = now /\ a[top + 2] = top /\ a[top + now + 4] = now
<1> DEFINE dot == <<Dot>>
           s1 == <<Newline>> \o Spaces(top)
           s2 == s1 \o dot
           s3 == <<Newline>> \o Spaces(now)
           s4 == s2 \o s3
<1>1. Before(top, now) = s4
  <2>1. /\ <<Newline>> \in Seq(Int) /\ dot \in Seq(Int) /\ Spaces(now) \in Seq(Int)
        /\ Spaces(top) \in Seq(Int)
    <3>1. Newline \in Int /\ Dot \in Int
      BY Kinds
    <3>2. Spaces(now) \in Seq(Int) /\ Spaces(top) \in Seq(Int)
      BY SpacesColumns
    <3> QED
      BY <3>1, <3>2
  <2>2. s2 \in Seq(Int)
    BY <2>1, ConcatProperties
  <2> DEFINE nl == <<Newline>>
             sp == Spaces(now)
  <2> HIDE DEF nl, sp, s2
  <2>5. s2 \in Seq(Int) /\ nl \in Seq(Int) /\ sp \in Seq(Int)
    BY <2>1, <2>2 DEF nl, sp
  <2>6. (s2 \o nl) \o sp = s2 \o (nl \o sp)
    BY <2>5, ConcatAssociative, SMTT(20)
  <2>3. (s2 \o <<Newline>>) \o Spaces(now) = s4
    BY <2>6 DEF nl, sp
  <2>4. MadeUp(top) = s2
    BY DEF MadeUp, s2
  <2> QED
    BY <2>3, <2>4 DEF Before
<1>2. /\ s1 \in Seq(Int) /\ Len(s1) = 1 + top /\ \A i \in 1 .. 1 + top : s1[i] \in White
      /\ \E a : Columns(s1, a) /\ a[1] = now /\ a[top + 2] = top
  BY NewLine
<1>3. /\ s3 \in Seq(Int) /\ Len(s3) = 1 + now /\ \A i \in 1 .. 1 + now : s3[i] \in White
      /\ \E a : Columns(s3, a) /\ a[1] = top /\ a[now + 2] = now
  BY NewLine
<1> DEFINE ad == One(Dot, top)
<1>4. /\ dot \in Seq(Int) /\ Len(dot) = 1 /\ dot[1] = Dot
      /\ Columns(dot, ad) /\ ad[1] = top /\ ad[2] = top
  <2>1. Dot \notin {Space, Tab, Newline} /\ Dot \in Int
    BY Kinds DEF White
  <2> QED
    BY <2>1, OneColumn, Steps
<1> HIDE DEF s1, s3, dot, ad
<1>5. PICK a1 : Columns(s1, a1) /\ a1[1] = now /\ a1[top + 2] = top
  BY <1>2
<1>6. PICK a3 : Columns(s3, a3) /\ a3[1] = top /\ a3[now + 2] = now
  BY <1>3
<1>7. 1 + top \in Nat /\ 1 + now \in Nat /\ top + 2 \in Nat /\ (1 + top) + 1 = top + 2
      /\ (top + 2) + (1 + now) = top + now + 3
  OBVIOUS
<1>8. /\ s2 \in Seq(Int) /\ Len(s2) = top + 2
      /\ \A i \in 1 .. 1 + top : s2[i] = s1[i]
      /\ \A i \in 1 .. 1 : s2[(1 + top) + i] = dot[i]
  <2>1. /\ s2 \in Seq(Int) /\ Len(s2) = Len(s1) + Len(dot)
        /\ \A i \in 1 .. Len(s1) : s2[i] = s1[i]
        /\ \A i \in 1 .. Len(dot) : s2[Len(s1) + i] = dot[i]
    BY <1>2, <1>4, Glue
  <2> HIDE DEF s2
  <2> QED
    BY <1>2, <1>4, <1>7, <2>1
<1>9. PICK a2 : /\ Columns(s2, a2)
                /\ \A i \in 1 .. (1 + top) + 1 : a2[i] = a1[i]
                /\ \A i \in 1 .. 1 + 1 : a2[(1 + top) + i] = ad[i]
  <2>1. a1[Len(s1) + 1] = ad[1]
    BY <1>2, <1>4, <1>5, <1>7
  <2> DEFINE j == Join(s1, dot, a1, ad)
  <2>2. /\ Columns(s2, j)
        /\ \A i \in 1 .. Len(s1) + 1 : j[i] = a1[i]
        /\ \A i \in 1 .. Len(dot) + 1 : j[Len(s1) + i] = ad[i]
    <3>1. /\ s1 \in Seq(Int) /\ dot \in Seq(Int) /\ Columns(s1, a1) /\ Columns(dot, ad)
          /\ a1[Len(s1) + 1] = ad[1]
      BY <1>2, <1>4, <1>5, <2>1
    <3> QED
      BY <3>1, JoinColumns
  <2> HIDE DEF s2, j
  <2>3. /\ Columns(s2, j)
        /\ \A i \in 1 .. (1 + top) + 1 : j[i] = a1[i]
        /\ \A i \in 1 .. 1 + 1 : j[(1 + top) + i] = ad[i]
    BY <1>2, <1>4, <2>2
  <2> QED
    BY <2>3
<1> HIDE DEF s2
<1>10. a2[1] = now /\ a2[top + 2] = top /\ a2[top + 3] = top
  <2>1. 1 \in 1 .. (1 + top) + 1 /\ top + 2 \in 1 .. (1 + top) + 1 /\ 2 \in 1 .. 1 + 1
        /\ (1 + top) + 2 = top + 3
    OBVIOUS
  <2> QED
    BY <1>4, <1>5, <1>9, <2>1
<1>11. /\ s4 \in Seq(Int) /\ Len(s4) = top + now + 3
       /\ \A i \in 1 .. top + 2 : s4[i] = s2[i]
       /\ \A i \in 1 .. 1 + now : s4[(top + 2) + i] = s3[i]
  <2>1. /\ s4 \in Seq(Int) /\ Len(s4) = Len(s2) + Len(s3)
        /\ \A i \in 1 .. Len(s2) : s4[i] = s2[i]
        /\ \A i \in 1 .. Len(s3) : s4[Len(s2) + i] = s3[i]
    BY <1>3, <1>8, Glue
  <2> HIDE DEF s4
  <2> QED
    BY <1>3, <1>7, <1>8, <2>1
<1>12. PICK a4 : /\ Columns(s4, a4)
                 /\ \A i \in 1 .. (top + 2) + 1 : a4[i] = a2[i]
                 /\ \A i \in 1 .. (1 + now) + 1 : a4[(top + 2) + i] = a3[i]
  <2>1. a2[Len(s2) + 1] = a3[1]
    <3>1. (top + 2) + 1 = top + 3
      OBVIOUS
    <3> QED
      BY <1>6, <1>8, <1>10, <3>1
  <2> DEFINE j == Join(s2, s3, a2, a3)
  <2>2. /\ Columns(s4, j)
        /\ \A i \in 1 .. Len(s2) + 1 : j[i] = a2[i]
        /\ \A i \in 1 .. Len(s3) + 1 : j[Len(s2) + i] = a3[i]
    <3>1. /\ s2 \in Seq(Int) /\ s3 \in Seq(Int) /\ Columns(s2, a2) /\ Columns(s3, a3)
          /\ a2[Len(s2) + 1] = a3[1]
      BY <1>3, <1>6, <1>8, <1>9, <2>1
    <3> QED
      BY <3>1, JoinColumns
  <2> HIDE DEF s4, j
  <2>3. /\ Columns(s4, j)
        /\ \A i \in 1 .. (top + 2) + 1 : j[i] = a2[i]
        /\ \A i \in 1 .. (1 + now) + 1 : j[(top + 2) + i] = a3[i]
    BY <1>3, <1>8, <2>2
  <2> QED
    BY <2>3
<1> HIDE DEF s4
<1>13. a4[1] = now /\ a4[top + 2] = top /\ a4[top + now + 4] = now
  <2>1. 1 \in 1 .. (top + 2) + 1 /\ top + 2 \in 1 .. (top + 2) + 1 /\ now + 2 \in 1 .. (1 + now) + 1
        /\ (top + 2) + (now + 2) = top + now + 4
    OBVIOUS
  <2> QED
    BY <1>6, <1>10, <1>12, <2>1
<1>14. s4[top + 2] = Dot
  <2>1. top + 2 \in 1 .. top + 2 /\ (1 + top) + 1 = top + 2 /\ 1 \in 1 .. 1
    OBVIOUS
  <2> QED
    BY <1>4, <1>8, <1>11, <2>1
<1>15. ASSUME NEW i \in 1 .. top + now + 3, i # top + 2 PROVE s4[i] \in White
  <2>1. CASE i < top + 2
    <3>1. i \in 1 .. top + 2 /\ i \in 1 .. 1 + top
      BY <2>1
    <3> QED
      BY <1>2, <1>8, <1>11, <3>1
  <2>2. CASE i > top + 2
    <3>1. i - (top + 2) \in 1 .. 1 + now /\ (top + 2) + (i - (top + 2)) = i
      BY <2>2
    <3> QED
      BY <1>3, <1>11, <3>1
  <2> QED
    BY <1>15, <2>1, <2>2
<1> QED
  BY <1>1, <1>11, <1>12, <1>13, <1>14, <1>15

-----------------------------------------------------------------------------
(***************************************************************************)
(* What is returned.                                                       *)
(***************************************************************************)

\* A token more.
LEMMA Appended ==
    ASSUME NEW t \in Seq(Int), NEW x \in Int
    PROVE  /\ Append(t, x) \in Seq(Int) /\ Append(t, x) # <<>>
           /\ Len(t) \in Nat /\ Len(Append(t, x)) = Len(t) + 1
           /\ \A i \in 1 .. Len(t) : Append(t, x)[i] = t[i]
           /\ Append(t, x)[Len(t) + 1] = x
           /\ \A i \in 1 .. Len(t) : t[i] \in Int
           /\ t = <<>> <=> Len(t) = 0
<1>1. Len(t) \in Nat /\ (\A i \in 1 .. Len(t) : t[i] \in Int) /\ (t = <<>> <=> Len(t) = 0)
  BY LenProperties, ElementOfSeq, EmptySeq
<1> QED
  BY <1>1, AppendProperties

\* How often a token is returned.
LEMMA Counted ==
    ASSUME NEW t \in Seq(Int), NEW x \in Int, NEW v \in Int
    PROVE  LET n == Cardinality({i \in DOMAIN t : t[i] = v})
               u == Append(t, x)
           IN  /\ n \in Nat
               /\ Cardinality({i \in DOMAIN u : u[i] = v}) = IF x = v THEN n + 1 ELSE n
<1> DEFINE u == Append(t, x)
           m == Len(t)
           A == {i \in DOMAIN t : t[i] = v}
           B == {i \in DOMAIN u : u[i] = v}
<1>1. /\ u \in Seq(Int) /\ m \in Nat /\ Len(u) = m + 1
      /\ \A i \in 1 .. m : u[i] = t[i]
      /\ u[m + 1] = x
  BY Appended
<1>2. DOMAIN t = 1 .. m /\ DOMAIN u = 1 .. m + 1
  BY <1>1, LenProperties
<1> HIDE DEF u, m
<1>3. 1 .. m + 1 = (1 .. m) \cup {m + 1} /\ m + 1 \notin 1 .. m
  BY <1>1
<1>4. A \subseteq 1 .. m /\ m + 1 \notin A
  BY <1>2, <1>3
<1>5. B = IF x = v THEN A \cup {m + 1} ELSE A
  BY <1>1, <1>2, <1>3
<1>6. IsFiniteSet(1 .. m)
  BY <1>1, FS_Interval
<1> HIDE DEF A, B
<1>7. IsFiniteSet(A)
  BY <1>4, <1>6, FS_Subset
<1>8. Cardinality(A) \in Nat
  BY <1>7, FS_CardinalityType
<1>9. Cardinality(A \cup {m + 1}) = Cardinality(A) + 1
  BY <1>4, <1>7, FS_AddElement
<1> QED
  BY <1>5, <1>8, <1>9 DEF A, B, u

\* How the depth changes with what is returned.
LEMMA DepthReturned ==
    ASSUME NEW x \in Int, tokens \in Seq(Int), tokens' = Append(tokens, x)
    PROVE  /\ x = INDENT => Depth' = Depth + 1
           /\ x = OUTDENT => Depth' = Depth - 1
           /\ x \notin {INDENT, OUTDENT} => Depth' = Depth
<1>1. INDENT \in Int /\ OUTDENT \in Int /\ INDENT # OUTDENT
  BY Kinds
<1> HIDE DEF INDENT, OUTDENT
<1> DEFINE N(t, v) == Cardinality({i \in DOMAIN t : t[i] = v})
<1>4. \A v \in Int : /\ N(tokens, v) \in Nat
                     /\ N(Append(tokens, x), v) = IF x = v THEN N(tokens, v) + 1 ELSE N(tokens, v)
  BY Counted
<1>5. /\ Times(INDENT) = N(tokens, INDENT) /\ Times(OUTDENT) = N(tokens, OUTDENT)
      /\ Times(INDENT)' = N(tokens', INDENT) /\ Times(OUTDENT)' = N(tokens', OUTDENT)
  BY DEF Times
<1> HIDE DEF N
<1>2. /\ Times(INDENT) \in Nat
      /\ Times(INDENT)' = IF x = INDENT THEN Times(INDENT) + 1 ELSE Times(INDENT)
  BY <1>1, <1>4, <1>5
<1>3. /\ Times(OUTDENT) \in Nat
      /\ Times(OUTDENT)' = IF x = OUTDENT THEN Times(OUTDENT) + 1 ELSE Times(OUTDENT)
  BY <1>1, <1>4, <1>5
<1> QED
  BY <1>1, <1>2, <1>3 DEF Depth

\* A block is opened or closed where a line may begin.
LEMMA ReturnedBlock ==
    ASSUME NEW f, NEW k, NEW t \in Seq(Int), NEW x \in {INDENT, OUTDENT},
           Said(f) \subseteq Nat \ {0}, Returned(f, k, t), OutLast(t)
    PROVE  /\ Returned(f, k, Append(t, x)) /\ ~LineLast(Append(t, x))
           /\ x = OUTDENT => OutLast(Append(t, x))
<1> DEFINE u == Append(t, x)
           n == Len(t)
<1>1. x \in Int /\ ~(x > 0) /\ x # NEWLINE /\ ~(NEWLINE > 0) /\ ~(OUTDENT > 0)
  BY Kinds
<1>2. /\ u # <<>> /\ n \in Nat /\ Len(u) = n + 1
      /\ \A i \in 1 .. n : u[i] = t[i]
      /\ u[n + 1] = x
      /\ t = <<>> <=> n = 0
  BY <1>1, Appended
<1>3. /\ \A i \in 1 .. n :
             /\ t[i] \in {INDENT, OUTDENT, NEWLINE} \/ (t[i] \in Said(f) /\ t[i] <= k)
             /\ t[i] = NEWLINE <=> i > 1 /\ t[i - 1] > 0
             /\ i > 1 /\ t[i] \in {INDENT, OUTDENT} => t[i - 1] \in {NEWLINE, OUTDENT}
      /\ \A i, j \in 1 .. n : i < j /\ t[i] > 0 /\ t[j] > 0 => t[i] < t[j]
      /\ \A m \in Said(f) : m <= k => \E i \in 1 .. n : t[i] = m
  BY DEF Returned
<1>4. n > 0 => t[n] \in {NEWLINE, OUTDENT}
  BY <1>2 DEF OutLast
<1> HIDE DEF u, n
<1>5. \A i \in 1 .. n + 1 : i \in 1 .. n \/ i = n + 1
  BY <1>2
<1>6. \A i \in 1 .. n : i > 1 => i - 1 \in 1 .. n
  BY <1>2
<1>7. ASSUME NEW i \in 1 .. n + 1
      PROVE  /\ u[i] \in {INDENT, OUTDENT, NEWLINE} \/ (u[i] \in Said(f) /\ u[i] <= k)
             /\ u[i] = NEWLINE <=> i > 1 /\ u[i - 1] > 0
             /\ i > 1 /\ u[i] \in {INDENT, OUTDENT} => u[i - 1] \in {NEWLINE, OUTDENT}
  <2>1. CASE i \in 1 .. n
    BY <1>2, <1>3, <1>6, <2>1
  <2>2. CASE i = n + 1
    <3>1. i > 1 => n > 0 /\ n \in 1 .. n /\ i - 1 = n
      BY <1>2, <2>2
    <3>2. i > 1 => u[i - 1] \in {NEWLINE, OUTDENT}
      BY <1>2, <1>4, <3>1
    <3> QED
      BY <1>1, <1>2, <2>2, <3>2
  <2> QED
    BY <1>5, <2>1, <2>2
<1>8. \A i \in 1 .. n + 1 : u[i] > 0 => i \in 1 .. n
  BY <1>1, <1>2, <1>5
<1>9. \A i, j \in 1 .. n + 1 : i < j /\ u[i] > 0 /\ u[j] > 0 => u[i] < u[j]
  BY <1>2, <1>3, <1>8
<1>10. \A m \in Said(f) : m <= k => \E i \in 1 .. n + 1 : u[i] = m
  <2>1. \A i \in 1 .. n : i \in 1 .. n + 1
    BY <1>2
  <2> QED
    BY <1>2, <1>3, <2>1
<1>11. Returned(f, k, u)
  BY <1>2, <1>7, <1>9, <1>10 DEF Returned
<1>12. ~LineLast(u)
  BY <1>1, <1>2 DEF LineLast
<1>13. x = OUTDENT => OutLast(u)
  BY <1>2 DEF OutLast
<1> QED
  BY <1>11, <1>12, <1>13 DEF u

\* A line is returned after those before it.
LEMMA ReturnedLine ==
    ASSUME NEW f \in Files, NEW k \in Said(f) \cup {0}, NEW t \in Seq(Int), NEW x,
           Follows(f, k, x), Returned(f, k, t), ~LineLast(t)
    PROVE  Returned(f, x, Append(t, x)) /\ LineLast(Append(t, x))
<1> DEFINE u == Append(t, x)
           n == Len(t)
<1>1. Said(f) \subseteq Nat \ {0} /\ k \in Nat
  BY FileLines, WidthTyped
<1>2. x \in Said(f) /\ k < x /\ (\A j \in Said(f) : ~(k < j /\ j < x))
  BY DEF Follows
<1>3. x \in Int /\ x > 0
  BY <1>1, <1>2
<1>4. /\ u # <<>> /\ n \in Nat /\ Len(u) = n + 1
      /\ \A i \in 1 .. n : u[i] = t[i] /\ t[i] \in Int
      /\ u[n + 1] = x
      /\ t = <<>> <=> n = 0
  BY <1>3, Appended
<1>5. /\ \A i \in 1 .. n :
             /\ t[i] \in {INDENT, OUTDENT, NEWLINE} \/ (t[i] \in Said(f) /\ t[i] <= k)
             /\ t[i] = NEWLINE <=> i > 1 /\ t[i - 1] > 0
             /\ i > 1 /\ t[i] \in {INDENT, OUTDENT} => t[i - 1] \in {NEWLINE, OUTDENT}
      /\ \A i, j \in 1 .. n : i < j /\ t[i] > 0 /\ t[j] > 0 => t[i] < t[j]
      /\ \A m \in Said(f) : m <= k => \E i \in 1 .. n : t[i] = m
  BY DEF Returned
<1>6. n > 0 => ~(t[n] > 0)
  BY <1>4 DEF LineLast
<1>7. ~(INDENT > 0) /\ ~(OUTDENT > 0) /\ ~(NEWLINE > 0)
  BY Kinds
<1> HIDE DEF u, n
<1>8. \A i \in 1 .. n + 1 : i \in 1 .. n \/ i = n + 1
  BY <1>4
<1>9. \A i \in 1 .. n : i > 1 => i - 1 \in 1 .. n
  BY <1>4
<1>10. \A i \in 1 .. n : t[i] > 0 => t[i] \in Said(f) /\ t[i] <= k /\ t[i] < x
  <2>1. \A i \in 1 .. n : t[i] > 0 => t[i] \in Said(f) /\ t[i] <= k
    BY <1>5, <1>7
  <2> QED
    BY <1>1, <1>2, <1>3, <1>4, <2>1
<1>11. ASSUME NEW i \in 1 .. n + 1
       PROVE  /\ u[i] \in {INDENT, OUTDENT, NEWLINE} \/ (u[i] \in Said(f) /\ u[i] <= x)
              /\ u[i] = NEWLINE <=> i > 1 /\ u[i - 1] > 0
              /\ i > 1 /\ u[i] \in {INDENT, OUTDENT} => u[i - 1] \in {NEWLINE, OUTDENT}
  <2>1. CASE i \in 1 .. n
    <3>1. u[i] \in {INDENT, OUTDENT, NEWLINE} \/ (u[i] \in Said(f) /\ u[i] <= x)
      <4>1. u[i] = t[i] /\ t[i] \in Int
        BY <1>4, <2>1
      <4>2. t[i] <= k => t[i] <= x
        BY <1>1, <1>2, <1>3, <4>1
      <4> QED
        BY <1>5, <2>1, <4>1, <4>2
    <3> QED
      BY <1>4, <1>5, <1>9, <2>1, <3>1
  <2>2. CASE i = n + 1
    <3>1. i > 1 => n > 0 /\ n \in 1 .. n /\ i - 1 = n
      BY <1>4, <2>2
    <3>2. i > 1 => ~(u[i - 1] > 0)
      BY <1>4, <1>6, <3>1
    <3>3. u[i] = x /\ x \notin {INDENT, OUTDENT, NEWLINE} /\ x <= x
      BY <1>3, <1>4, <1>7, <2>2
    <3> QED
      BY <1>2, <3>2, <3>3
  <2> QED
    BY <1>8, <2>1, <2>2
<1>12. ASSUME NEW i \in 1 .. n + 1, NEW j \in 1 .. n + 1, i < j, u[i] > 0, u[j] > 0
       PROVE  u[i] < u[j]
  <2>1. i \in 1 .. n
    BY <1>4, <1>12
  <2>2. CASE j \in 1 .. n
    BY <1>4, <1>5, <1>12, <2>1, <2>2
  <2>3. CASE j = n + 1
    BY <1>4, <1>10, <1>12, <2>1, <2>3
  <2> QED
    BY <1>8, <2>2, <2>3
<1>13. ASSUME NEW m \in Said(f), m <= x PROVE \E i \in 1 .. n + 1 : u[i] = m
  <2>1. m <= k \/ m = x
    <3>1. m \in Nat /\ x \in Nat /\ k \in Nat
      BY <1>1, <1>2
    <3> QED
      BY <1>2, <1>13, <3>1
  <2>2. CASE m <= k
    <3>1. PICK i \in 1 .. n : t[i] = m
      BY <1>5, <2>2
    <3>2. i \in 1 .. n + 1
      BY <1>4
    <3> QED
      BY <1>4, <3>1, <3>2
  <2>3. CASE m = x
    <3>1. n + 1 \in 1 .. n + 1
      BY <1>4
    <3> QED
      BY <1>4, <2>3, <3>1
  <2> QED
    BY <2>1, <2>2, <2>3
<1>14. Returned(f, x, u)
  BY <1>4, <1>11, <1>12, <1>13 DEF Returned
<1>15. LineLast(u)
  BY <1>3, <1>4 DEF LineLast
<1> QED
  BY <1>14, <1>15 DEF u

\* The end of a line is returned after the line.
LEMMA ReturnedEnd ==
    ASSUME NEW f, NEW k, NEW t \in Seq(Int), Returned(f, k, t), LineLast(t)
    PROVE  /\ Returned(f, k, Append(t, NEWLINE)) /\ OutLast(Append(t, NEWLINE))
<1> DEFINE x == NEWLINE
           u == Append(t, x)
           n == Len(t)
<1>1. x \in Int /\ ~(x > 0) /\ x \notin {INDENT, OUTDENT}
  BY Kinds
<1>2. /\ u # <<>> /\ n \in Nat /\ Len(u) = n + 1
      /\ \A i \in 1 .. n : u[i] = t[i]
      /\ u[n + 1] = x
      /\ t = <<>> <=> n = 0
  BY <1>1, Appended
<1>3. /\ \A i \in 1 .. n :
             /\ t[i] \in {INDENT, OUTDENT, x} \/ (t[i] \in Said(f) /\ t[i] <= k)
             /\ t[i] = x <=> i > 1 /\ t[i - 1] > 0
             /\ i > 1 /\ t[i] \in {INDENT, OUTDENT} => t[i - 1] \in {x, OUTDENT}
      /\ \A i, j \in 1 .. n : i < j /\ t[i] > 0 /\ t[j] > 0 => t[i] < t[j]
      /\ \A m \in Said(f) : m <= k => \E i \in 1 .. n : t[i] = m
  BY DEF Returned
<1>4. n > 0 /\ t[n] > 0
  BY <1>2 DEF LineLast
<1> HIDE DEF u, n, x
<1>5. \A i \in 1 .. n + 1 : i \in 1 .. n \/ i = n + 1
  BY <1>2
<1>6. \A i \in 1 .. n : i > 1 => i - 1 \in 1 .. n
  BY <1>2
<1>7. ASSUME NEW i \in 1 .. n + 1
      PROVE  /\ u[i] \in {INDENT, OUTDENT, x} \/ (u[i] \in Said(f) /\ u[i] <= k)
             /\ u[i] = x <=> i > 1 /\ u[i - 1] > 0
             /\ i > 1 /\ u[i] \in {INDENT, OUTDENT} => u[i - 1] \in {x, OUTDENT}
  <2>1. CASE i \in 1 .. n
    BY <1>2, <1>3, <1>6, <2>1
  <2>2. CASE i = n + 1
    <3>1. i > 1 /\ n \in 1 .. n /\ i - 1 = n
      BY <1>2, <1>4, <2>2
    <3>2. u[i - 1] > 0
      BY <1>2, <1>4, <3>1
    <3> QED
      BY <1>1, <1>2, <2>2, <3>1, <3>2
  <2> QED
    BY <1>5, <2>1, <2>2
<1>8. \A i \in 1 .. n + 1 : u[i] > 0 => i \in 1 .. n
  BY <1>1, <1>2, <1>5
<1>9. \A i, j \in 1 .. n + 1 : i < j /\ u[i] > 0 /\ u[j] > 0 => u[i] < u[j]
  BY <1>2, <1>3, <1>8
<1>10. \A m \in Said(f) : m <= k => \E i \in 1 .. n + 1 : u[i] = m
  <2>1. \A i \in 1 .. n : i \in 1 .. n + 1
    BY <1>2
  <2> QED
    BY <1>2, <1>3, <2>1
<1>11. Returned(f, k, u)
  BY <1>2, <1>7, <1>9, <1>10 DEF Returned, x
<1>12. OutLast(u)
  BY <1>2 DEF OutLast, x
<1> QED
  BY <1>11, <1>12 DEF u, x

\* After a NEWLINE or an OUTDENT no line is open.
LEMMA OutNoLine ==
    ASSUME NEW t, OutLast(t)
    PROVE  ~LineLast(t)
BY Kinds DEF OutLast, LineLast

\* Nothing has been returned yet.
LEMMA ReturnedNothing ==
    ASSUME NEW f, Said(f) \subseteq Nat \ {0}
    PROVE  Returned(f, 0, <<>>) /\ OutLast(<<>>)
<1>1. Len(<<>>) = 0 /\ 1 .. 0 = {}
  OBVIOUS
<1>2. \A m \in Said(f) : ~(m <= 0)
  OBVIOUS
<1> QED
  BY <1>1, <1>2 DEF Returned, OutLast

-----------------------------------------------------------------------------
(***************************************************************************)
(* What is left of the input when the lexer consumes or puts back.         *)
(***************************************************************************)

\* How the file ends is seen at the last character, and consuming another does
\* not change it.
LEMMA EndingTail ==
    ASSUME NEW f, NEW s \in Seq(Int), s # <<>>, NEW c, NEW c2, Ending(f, s, c),
           ~(Head(s) > 0) \/ c2 = "normal"
    PROVE  Ending(f, Tail(s), c2)
<1>1. /\ Len(s) \in Nat \ {0} /\ Head(s) = s[1]
      /\ Tail(s) = <<>> <=> Len(s) = 1
      /\ Tail(s) # <<>> => Tail(s)[Len(Tail(s))] = s[Len(s)]
  BY HeadTail
<1>2. /\ s[Len(s)] > 0 => Unended(f) /\ s[Len(s)] = Len(f.lines)
      /\ Unended(f) => s[Len(s)] > 0
  BY DEF Ending
<1>3. CASE Tail(s) = <<>>
  <2>1. Unended(f) => c2 = "normal"
    BY <1>1, <1>2, <1>3
  <2> QED
    BY <1>3, <2>1 DEF Ending
<1>4. CASE Tail(s) # <<>>
  BY <1>1, <1>2, <1>4 DEF Ending
<1> QED
  BY <1>3, <1>4

\* The columns begin one character further on.
LEMMA Moved ==
    ASSUME NEW s \in Seq(Int), s # <<>>, NEW col, Columns(s, col)
    PROVE  /\ Columns(Tail(s), Shift(s, col)) /\ Shift(s, col)[1] = Step(col[1], Head(s))
           /\ \A i \in 1 .. Len(Tail(s)) :
                  /\ i + 1 \in 1 .. Len(s) /\ Tail(s)[i] = s[i + 1]
                  /\ Shift(s, col)[i] = col[i + 1]
<1>1. Len(s) \in Nat /\ Len(Tail(s)) = Len(s) - 1
  BY HeadTail
<1>2. \A i \in 1 .. Len(Tail(s)) : i \in 1 .. Len(s)
  BY <1>1
<1> QED
  BY <1>2, HeadTail, TailColumns

\* White space before a line, made up or not.
LEMMA Consumed ==
    ASSUME NEW f, NEW k, NEW s \in Seq(Int), s # <<>>, NEW col, NEW c, NEW c2,
           NEW now, NEW mark, NEW top, Said(f) \subseteq Nat \ {0},
           InputOK(f, k, s, col, c, now, mark, top), Head(s) \in White
    PROVE  InputOK(f, k, Tail(s), Shift(s, col), c2, Step(now, Head(s)), mark, top)
<1> DEFINE t == Tail(s)
           a == Shift(s, col)
<1>1. /\ Columns(s, col) /\ col[1] = now /\ Coming(f, k, s, col) /\ Ending(f, s, c)
      /\ IF mark THEN MadeUpAhead(s, col, top) ELSE \A i \in 1 .. Len(s) : Legible(s[i])
  BY DEF InputOK
<1>2. ~(Head(s) > 0) /\ Head(s) # Dot
  BY Kinds DEF White
<1>3. /\ Columns(t, a) /\ a[1] = Step(now, Head(s))
      /\ \A i \in 1 .. Len(t) : i + 1 \in 1 .. Len(s) /\ t[i] = s[i + 1] /\ a[i] = col[i + 1]
  BY <1>1, Moved
<1>4. Coming(f, k, t, a)
  BY <1>1, <1>2, ComingTail
<1>5. Ending(f, t, c2)
  BY <1>1, <1>2, EndingTail
<1>6. ASSUME ~mark, NEW i \in 1 .. Len(t) PROVE Legible(t[i])
  BY <1>1, <1>3, <1>6
<1>7. ASSUME mark PROVE MadeUpAhead(t, a, top)
  <2>1. PICK d \in 1 .. Len(s) :
            /\ s[d] = Dot /\ col[d] = top
            /\ \A i \in 1 .. Len(s) : i # d => Legible(s[i])
            /\ \A i \in 1 .. d - 1 : s[i] \in White
    BY <1>1, <1>7 DEF MadeUpAhead
  <2>2. /\ Len(s) \in Nat \ {0} /\ Head(s) = s[1] /\ Len(t) = Len(s) - 1
    BY HeadTail
  <2> HIDE DEF t, a
  <2>3. d # 1
    BY <1>2, <2>1, <2>2
  <2>4. d - 1 \in 1 .. Len(t) /\ (d - 1) + 1 = d
    BY <2>2, <2>3
  <2>5. t[d - 1] = Dot /\ a[d - 1] = top
    BY <1>3, <2>1, <2>4
  <2>6. ASSUME NEW i \in 1 .. Len(t), i # d - 1 PROVE Legible(t[i])
    <3>1. i + 1 \in 1 .. Len(s) /\ i + 1 # d /\ t[i] = s[i + 1]
      BY <1>3, <2>4, <2>6
    <3> QED
      BY <2>1, <3>1
  <2>7. ASSUME NEW i \in 1 .. (d - 1) - 1 PROVE t[i] \in White
    <3>1. i + 1 \in 1 .. d - 1 /\ i \in 1 .. Len(t)
      BY <2>2, <2>4, <2>7
    <3> QED
      BY <1>3, <2>1, <3>1
  <2> QED
    BY <2>4, <2>5, <2>6, <2>7 DEF MadeUpAhead
<1> QED
  BY <1>3, <1>4, <1>5, <1>6, <1>7 DEF InputOK

\* Where a line begins: a made-up one, which is as deep as the topmost level,
\* or one of the file, the next.
LEMMA AtLine ==
    ASSUME NEW s \in Seq(Int), s # <<>>, NEW col, NEW top,
           MadeUpAhead(s, col, top), Head(s) \notin White
    PROVE  /\ Head(s) = Dot /\ col[1] = top
           /\ \A i \in 1 .. Len(Tail(s)) : Legible(Tail(s)[i])
<1>1. PICK d \in 1 .. Len(s) :
          /\ s[d] = Dot /\ col[d] = top
          /\ \A i \in 1 .. Len(s) : i # d => Legible(s[i])
          /\ \A i \in 1 .. d - 1 : s[i] \in White
  BY DEF MadeUpAhead
<1>2. /\ Len(s) \in Nat \ {0} /\ Head(s) = s[1]
      /\ \A i \in 1 .. Len(Tail(s)) : Tail(s)[i] = s[i + 1] /\ i + 1 \in 1 .. Len(s)
  BY HeadTail
<1>3. d = 1
  <2>1. d # 1 => 1 \in 1 .. d - 1
    BY <1>2
  <2> QED
    BY <1>1, <1>2, <2>1
<1>4. \A i \in 1 .. Len(Tail(s)) : i + 1 # 1
  OBVIOUS
<1> QED
  BY <1>1, <1>2, <1>3, <1>4

\* The made-up line.
LEMMA ConsumedDot ==
    ASSUME NEW f, NEW k, NEW s \in Seq(Int), s # <<>>, NEW col, NEW c, NEW c2,
           NEW now, NEW top, NEW top2, Said(f) \subseteq Nat \ {0},
           InputOK(f, k, s, col, c, now, TRUE, top), Head(s) \notin White
    PROVE  /\ InputOK(f, k, Tail(s), Shift(s, col), c2, now, FALSE, top2)
           /\ now = top /\ Head(s) = Dot
<1>1. /\ Columns(s, col) /\ col[1] = now /\ Coming(f, k, s, col) /\ Ending(f, s, c)
      /\ MadeUpAhead(s, col, top)
  BY DEF InputOK
<1>2. /\ Head(s) = Dot /\ col[1] = top
      /\ \A i \in 1 .. Len(Tail(s)) : Legible(Tail(s)[i])
  BY <1>1, AtLine
<1>3. ~(Head(s) > 0)
  BY <1>2, Kinds
<1>4. Columns(Tail(s), Shift(s, col)) /\ Shift(s, col)[1] = Step(now, Head(s))
  BY <1>1, Moved
<1>5. Step(now, Head(s)) = now
  BY <1>2, Kinds, Steps DEF White
<1>6. Coming(f, k, Tail(s), Shift(s, col))
  BY <1>1, <1>3, ComingTail
<1>7. Ending(f, Tail(s), c2)
  BY <1>1, <1>3, EndingTail
<1> QED
  BY <1>1, <1>2, <1>4, <1>5, <1>6, <1>7 DEF InputOK

\* A line of the file.
LEMMA ConsumedLine ==
    ASSUME NEW f \in Files, NEW k \in Said(f) \cup {0}, NEW s \in Seq(Int), s # <<>>,
           NEW col, NEW c, NEW now, NEW top, NEW top2,
           InputOK(f, k, s, col, c, now, FALSE, top), Head(s) > 0
    PROVE  InputOK(f, Head(s), Tail(s), Shift(s, col), "normal", now, FALSE, top2)
<1>1. /\ Columns(s, col) /\ col[1] = now /\ Coming(f, k, s, col) /\ Ending(f, s, c)
      /\ \A i \in 1 .. Len(s) : Legible(s[i])
  BY DEF InputOK
<1>2. Columns(Tail(s), Shift(s, col)) /\ Shift(s, col)[1] = Step(now, Head(s))
  BY <1>1, Moved
<1>3. Step(now, Head(s)) = now
  <2>1. Head(s) \notin {Space, Tab, Newline}
    BY Kinds
  <2> QED
    BY <2>1, Steps
<1>4. Coming(f, Head(s), Tail(s), Shift(s, col))
  <2>1. k \in Nat /\ Said(f) \subseteq Nat \ {0}
    BY FileLines, WidthTyped
  <2> QED
    BY <1>1, <2>1, ComingNext
<1>5. Ending(f, Tail(s), "normal")
  BY <1>1, EndingTail
<1>6. \A i \in 1 .. Len(Tail(s)) : Legible(Tail(s)[i])
  BY <1>1, HeadTail
<1> QED
  BY <1>2, <1>3, <1>4, <1>5, <1>6 DEF InputOK

\* Nothing.
LEMMA Stayed ==
    ASSUME NEW f, NEW k, NEW s, s # <<>>, NEW col, NEW c, NEW c2, NEW now, NEW top, NEW top2,
           InputOK(f, k, s, col, c, now, FALSE, top)
    PROVE  InputOK(f, k, s, col, c2, now, FALSE, top2)
BY DEF InputOK, Ending

\* A line that is made up before one of the file.
LEMMA PutBack ==
    ASSUME NEW f, NEW k, NEW s \in Seq(Int), s # <<>>, NEW col, NEW c, NEW c2,
           NEW now \in Nat, NEW top, NEW top2 \in Nat,
           InputOK(f, k, s, col, c, now, FALSE, top)
    PROVE  /\ Before(top2, now) \o s \in Seq(Int)
           /\ \E col2 : InputOK(f, k, Before(top2, now) \o s, col2, c2, now, TRUE, top2)
<1> DEFINE p == Before(top2, now)
           u == p \o s
           m == top2 + now + 3
           d == top2 + 2
           n == Len(s)
<1>1. /\ Columns(s, col) /\ col[1] = now /\ Coming(f, k, s, col) /\ Ending(f, s, c)
      /\ \A i \in 1 .. Len(s) : Legible(s[i])
  BY DEF InputOK
<1>2. /\ p \in Seq(Int) /\ Len(p) = m /\ p[d] = Dot
      /\ \A i \in 1 .. m : i # d => p[i] \in White
      /\ \E a : Columns(p, a) /\ a[1] = now /\ a[d] = top2 /\ a[top2 + now + 4] = now
  <2> DEFINE Is(x, y) ==
                 /\ Before(x, y) \in Seq(Int) /\ Len(Before(x, y)) = x + y + 3
                 /\ Before(x, y)[x + 2] = Dot
                 /\ \A i \in 1 .. x + y + 3 : i # x + 2 => Before(x, y)[i] \in White
                 /\ \E a : /\ Columns(Before(x, y), a)
                           /\ a[1] = y /\ a[x + 2] = x /\ a[x + y + 4] = y
  <2>1. \A x, y \in Nat : Is(x, y)
    BY BeforeIs
  <2> HIDE DEF Is
  <2>2. Is(top2, now)
    BY <2>1
  <2> QED
    BY <2>2 DEF Is
<1>3. PICK a : Columns(p, a) /\ a[1] = now /\ a[d] = top2 /\ a[top2 + now + 4] = now
  BY <1>2
<1>4. /\ m \in Nat /\ d \in 1 .. m /\ m + 1 = top2 + now + 4 /\ 1 \in 1 .. m + 1 /\ d \in 1 .. m + 1
      /\ \A i \in 1 .. d - 1 : i \in 1 .. m /\ i # d
  OBVIOUS
<1>5. n \in Nat \ {0}
  BY HeadTail
<1> DEFINE b == Join(p, s, a, col)
<1> HIDE DEF p, m, d, n
<1>6. /\ u \in Seq(Int) /\ Len(u) = m + n
      /\ \A i \in 1 .. m : u[i] = p[i]
      /\ \A i \in 1 .. n : u[m + i] = s[i]
  <2>1. /\ u \in Seq(Int) /\ Len(u) = Len(p) + Len(s)
        /\ \A i \in 1 .. Len(p) : u[i] = p[i]
        /\ \A i \in 1 .. Len(s) : u[Len(p) + i] = s[i]
    BY <1>2, Glue
  <2> HIDE DEF u
  <2> QED
    BY <1>2, <2>1 DEF n
<1>7. a[Len(p) + 1] = col[1]
  BY <1>1, <1>2, <1>3, <1>4
<1>8. /\ Columns(u, b) /\ \A i \in 1 .. m + 1 : b[i] = a[i]
  <2>1. Columns(u, b) /\ \A i \in 1 .. Len(p) + 1 : b[i] = a[i]
    <3>1. p \in Seq(Int) /\ Columns(p, a) /\ Columns(s, col) /\ a[Len(p) + 1] = col[1]
      BY <1>1, <1>2, <1>3, <1>7
    <3> QED
      BY <3>1, JoinColumns
  <2> HIDE DEF u, b
  <2> QED
    BY <1>2, <2>1
<1>9. Coming(f, k, u, b)
  <2>1. \A i \in 1 .. Len(p) : ~(p[i] > 0)
    <3>1. \A i \in 1 .. m : ~(p[i] > 0)
      BY <1>2, Kinds DEF White
    <3> QED
      BY <1>2, <3>1
  <2>2. Columns(p, a) /\ Columns(s, col) /\ Coming(f, k, s, col) /\ p \in Seq(Int)
    BY <1>1, <1>2, <1>3
  <2> QED
    BY <1>7, <2>1, <2>2, ComingBehind
<1> HIDE DEF u, b
<1>10. u # <<>> /\ u[Len(u)] = s[Len(s)]
  <2>1. n \in 1 .. n /\ Len(u) = m + n /\ m + n # 0
    BY <1>4, <1>5, <1>6
  <2>2. u[m + n] = s[n]
    BY <1>6, <2>1
  <2>3. u # <<>>
    BY <1>6, <2>1, EmptySeq
  <2> QED
    BY <2>1, <2>2, <2>3 DEF n
<1>11. Ending(f, u, c2)
  BY <1>1, <1>10 DEF Ending
<1>12. b[1] = now /\ b[d] = top2 /\ u[d] = Dot
  BY <1>2, <1>3, <1>4, <1>6, <1>8
<1>13. ASSUME NEW i \in 1 .. m + n, i # d PROVE Legible(u[i])
  <2>1. CASE i \in 1 .. m
    BY <1>2, <1>6, <1>13, <2>1 DEF Legible
  <2>2. CASE i \notin 1 .. m
    <3>1. i - m \in 1 .. n /\ m + (i - m) = i
      BY <1>4, <1>5, <2>2
    <3>2. u[i] = s[i - m]
      BY <1>6, <3>1
    <3> QED
      BY <1>1, <3>1, <3>2 DEF n
  <2> QED
    BY <2>1, <2>2
<1>14. MadeUpAhead(u, b, top2)
  <2>1. d \in 1 .. Len(u)
    BY <1>4, <1>5, <1>6
  <2>2. \A i \in 1 .. Len(u) : i # d => Legible(u[i])
    BY <1>6, <1>13
  <2>3. \A i \in 1 .. d - 1 : u[i] \in White
    BY <1>2, <1>4, <1>6
  <2> QED
    BY <1>12, <2>1, <2>2, <2>3 DEF MadeUpAhead
<1>15. InputOK(f, k, u, b, c2, now, TRUE, top2)
  BY <1>8, <1>9, <1>11, <1>12, <1>14 DEF InputOK
<1> QED
  BY <1>6, <1>15 DEF u, p

\* At the end of a file nothing is made up any more, and no line is to come.
LEMMA AtLast ==
    ASSUME NEW f, NEW k, NEW col, NEW now, NEW mark, NEW top, NEW c,
           InputOK(f, k, <<>>, col, c, now, mark, top)
    PROVE  /\ ~mark /\ \A m \in Said(f) : ~(m > k)
           /\ c # "normal" => ~Unended(f)
<1>1. Len(<<>>) = 0 /\ 1 .. 0 = {}
  OBVIOUS
<1> QED
  BY <1>1 DEF InputOK, MadeUpAhead, Coming, Ending

\* The blank line that is made up there.
LEMMA BlankBehind ==
    ASSUME NEW f, NEW k, NEW now \in Nat, NEW n \in Nat, NEW top2, NEW c2, ~Unended(f),
           \A m \in Said(f) : ~(m > k)
    PROVE  /\ Spaces(n) \o <<Newline>> \in Seq(Int)
           /\ \E col2 : InputOK(f, k, Spaces(n) \o <<Newline>>, col2, c2, now, FALSE, top2)
<1> DEFINE p == Spaces(n)
           q == <<Newline>>
           u == p \o q
           a == [i \in 1 .. n + 1 |-> now + i - 1]
           e == One(Newline, now + n)
           b == Join(p, q, a, e)
<1>1. /\ p \in Seq(Int) /\ Len(p) = n /\ \A i \in 1 .. n : p[i] = Space
      /\ Columns(p, a)
  BY SpacesColumns
<1>2. a[n + 1] = now + n /\ a[1] = now /\ now + n \in Nat
  BY SMTT(30)
<1>3. /\ q \in Seq(Int) /\ Len(q) = 1 /\ q[1] = Newline
      /\ Columns(q, e) /\ e[1] = now + n
  BY <1>2, Kinds, OneColumn
<1> HIDE DEF p, q, a, e
<1>4. /\ u \in Seq(Int) /\ Len(u) = n + 1
      /\ \A i \in 1 .. n : u[i] = Space
      /\ u[n + 1] = Newline
  <2>1. /\ u \in Seq(Int) /\ Len(u) = Len(p) + Len(q)
        /\ \A i \in 1 .. Len(p) : u[i] = p[i]
        /\ \A i \in 1 .. Len(q) : u[Len(p) + i] = q[i]
    BY <1>1, <1>3, Glue
  <2> HIDE DEF u
  <2>2. 1 \in 1 .. 1
    OBVIOUS
  <2> QED
    BY <1>1, <1>3, <2>1, <2>2
<1>5. Columns(u, b) /\ b[1] = now
  <2>1. a[Len(p) + 1] = e[1]
    BY <1>1, <1>2, <1>3
  <2>2. Columns(u, b) /\ \A i \in 1 .. Len(p) + 1 : b[i] = a[i]
    <3>1. p \in Seq(Int) /\ q \in Seq(Int) /\ Columns(p, a) /\ Columns(q, e)
      BY <1>1, <1>3
    <3> QED
      BY <2>1, <3>1, JoinColumns
  <2>3. 1 \in 1 .. Len(p) + 1
    BY <1>1
  <2> HIDE DEF u, b
  <2> QED
    BY <1>2, <2>2, <2>3
<1> HIDE DEF u, b
<1>6. \A i \in 1 .. n + 1 : ~(u[i] > 0) /\ Legible(u[i])
  <2>1. \A i \in 1 .. n + 1 : i \in 1 .. n \/ i = n + 1
    OBVIOUS
  <2> QED
    BY <1>4, <2>1, Kinds DEF Legible, White
<1>7. Coming(f, k, u, b)
  BY <1>4, <1>6 DEF Coming
<1>8. u # <<>> /\ ~(u[Len(u)] > 0)
  BY <1>4, EmptySeq, Kinds
<1>9. Ending(f, u, c2)
  BY <1>8 DEF Ending
<1>10. InputOK(f, k, u, b, c2, now, FALSE, top2)
  BY <1>4, <1>5, <1>6, <1>7, <1>9 DEF InputOK
<1> QED
  BY <1>4, <1>10 DEF u, p, q

-----------------------------------------------------------------------------
(***************************************************************************)
(* The levels at the beginning of a line.                                  *)
(***************************************************************************)

\* A line that opens a block, continues one, or closes one.
LEMMA LevelsAtLine ==
    ASSUME NEW f \in Files, NEW k \in Said(f) \cup {0}, NEW m, Follows(f, k, m),
           NEW lv, Stack(lv), Shared(f, k, lv)
    PROVE  /\ Width(f, m) \in Nat
           /\ Width(f, m) > Head(lv) => Entries(<<Width(f, m)>> \o lv) = Depths(f, m)
           /\ Width(f, m) = Head(lv) => Entries(lv) = Depths(f, m)
           /\ Width(f, m) < Head(lv) => Shared(f, k, Tail(lv))
<1> DEFINE w == Width(f, m)
<1>1. m \in Said(f) /\ k < m /\ (\A j \in Said(f) : ~(k < j /\ j < m))
  BY DEF Follows
<1>2. w \in Nat /\ Depths(f, k) \subseteq Nat
  BY <1>1, WidthTyped
<1>3. Depths(f, m) = {x \in Depths(f, k) : x < w} \cup {w}
  BY DepthsOfNext
<1>4. {x \in Entries(lv) : x < w} = {x \in Depths(f, k) : x < w}
  BY DEF Shared
<1>5. /\ Entries(lv) \subseteq Nat /\ Head(lv) \in Entries(lv) /\ Head(lv) \in Nat
      /\ \A x \in Entries(lv) : x <= Head(lv)
  BY StackLen, TopDeepest
<1> HIDE DEF w
<1>6. ASSUME w > Head(lv) PROVE Entries(<<w>> \o lv) = Depths(f, m)
  <2>1. Entries(<<w>> \o lv) = Entries(lv) \cup {w}
    BY <1>2, PushedEntries
  <2>2. \A x \in Entries(lv) : x < w
    BY <1>2, <1>5, <1>6
  <2> QED
    BY <1>3, <1>4, <2>1, <2>2
<1>7. ASSUME w = Head(lv) PROVE Entries(lv) = Depths(f, m)
  <2>1. \A x \in Entries(lv) : x < w \/ x = w
    BY <1>2, <1>5, <1>7
  <2>2. w \in Entries(lv)
    BY <1>5, <1>7
  <2>3. Entries(lv) = {x \in Entries(lv) : x < w} \cup {w}
    BY <2>1, <2>2
  <2> QED
    BY <1>3, <1>4, <2>3
<1>8. ASSUME w < Head(lv) PROVE Shared(f, k, Tail(lv))
  <2>1. Head(lv) > 0
    BY <1>2, <1>5, <1>8
  <2>2. Entries(Tail(lv)) = Entries(lv) \ {Head(lv)}
    BY <2>1, PoppedEntries
  <2>3. ~(Head(lv) < w)
    BY <1>2, <1>5, <1>8
  <2>4. {x \in Entries(Tail(lv)) : x < w} = {x \in Depths(f, k) : x < w}
    BY <1>4, <2>2, <2>3
  <2>5. ASSUME NEW y, Follows(f, k, y) PROVE y = m
    <3>1. y \in Said(f) /\ k < y /\ (\A j \in Said(f) : ~(k < j /\ j < y))
      BY <2>5 DEF Follows
    <3>2. y \in Nat /\ m \in Nat
      BY <1>1, <3>1, WidthTyped
    <3>3. ~(y < m) /\ ~(m < y)
      BY <1>1, <3>1
    <3> QED
      BY <3>2, <3>3
  <2> QED
    BY <2>4, <2>5 DEF Shared, w
<1> QED
  BY <1>2, <1>6, <1>7, <1>8 DEF w

-----------------------------------------------------------------------------
(***************************************************************************)
(* The steps of the lexer.                                                 *)
(***************************************************************************)

\* The types are kept, if input and tokens stay texts.
LEMMA TypedKept ==
    ASSUME Typed, [Next]_vars, input' \in Seq(Int), tokens' \in Seq(Int)
    PROVE  Typed'
<1>1. IInv
  BY StackTyped DEF IInv, TypeOK, Typed
<1>2. IInv'
  BY <1>1, TypeKept
<1>3. file' \in Files
  BY DEF Typed, Next, Begin, Measure, Deeper, Shallower, AsDeep, AtEnd, Text, EndLine,
     EndOfFile, vars
<1> QED
  BY <1>2, <1>3 DEF IInv, TypeOK, Typed

\* What is at the head of the input where a line begins.
LEMMA Beginning ==
    ASSUME Typed, NEW k, NEW col, Progress(k, col), AtText
    PROVE  /\ fake => Head(input) = Dot /\ current = Head(levels)
           /\ ~fake => /\ Head(input) > 0 /\ Follows(file, k, Head(input))
                       /\ current = Width(file, Head(input))
<1>1. /\ file \in Files /\ input \in Seq(Int) /\ k \in Said(file) \cup {0}
      /\ input # <<>> /\ Head(input) \notin White
      /\ InputOK(file, k, input, col, cond, current, fake, Head(levels))
  BY DEF Typed, Progress, AtText, White
<1>2. Columns(input, col) /\ col[1] = current /\ Coming(file, k, input, col)
  BY <1>1 DEF InputOK
<1>3. ASSUME fake PROVE Head(input) = Dot /\ current = Head(levels)
  <2>1. MadeUpAhead(input, col, Head(levels))
    BY <1>1, <1>3 DEF InputOK
  <2> QED
    BY <1>1, <1>2, <2>1, AtLine
<1>4. ASSUME ~fake
      PROVE  /\ Head(input) > 0 /\ Follows(file, k, Head(input))
             /\ current = Width(file, Head(input))
  <2>1. \A i \in 1 .. Len(input) : Legible(input[i])
    BY <1>1, <1>4 DEF InputOK
  <2>2. Len(input) \in Nat \ {0} /\ Head(input) = input[1]
    BY <1>1, HeadTail
  <2>3. Head(input) > 0
    BY <1>1, <2>1, <2>2 DEF Legible
  <2>4. /\ input \in Seq(Int) /\ input # <<>>
        /\ k \in Nat /\ Said(file) \subseteq Nat \ {0}
    BY <1>1, FileLines, WidthTyped
  <2>5. Follows(file, k, Head(input)) /\ col[1] = Width(file, Head(input))
    BY <1>2, <2>3, <2>4, ComingNext
  <2> QED
    BY <1>2, <2>3, <2>5
<1> QED
  BY <1>3, <1>4

\* A block is opened: the levels become the depths of the line.
LEMMA KeepDeeper ==
    ASSUME LexInv, Deeper
    PROVE  LexInv'
<1>1. PICK k, col : Progress(k, col)
  BY DEF LexInv
<1>2. /\ file \in Files /\ input \in Seq(Int) /\ tokens \in Seq(Int) /\ current \in Nat
      /\ Stack(levels) /\ Typed /\ Depth = Len(levels) - 1
  BY DEF LexInv, Typed
<1>3. /\ AtText /\ current > Head(levels) /\ cond = "indent" /\ input # <<>>
      /\ levels' = <<current>> \o levels /\ tokens' = Append(tokens, INDENT)
      /\ cond' = "normal" /\ input' = Rest
      /\ file' = file /\ current' = current /\ fake' = fake /\ over' = over
  BY DEF Deeper, Top, AtText
<1>4. ~fake /\ Head(input) > 0 /\ Follows(file, k, Head(input))
      /\ current = Width(file, Head(input))
  <2>1. Head(levels) \in Nat
    BY <1>2, StackLen
  <2>2. ~fake
    BY <1>1, <1>2, <1>3, <2>1, Beginning
  <2> QED
    BY <1>1, <1>2, <1>3, <2>2, Beginning
<1>5. input' = input /\ ~fake'
  BY <1>3, <1>4 DEF Rest
<1>6. /\ k \in Said(file) \cup {0} /\ Returned(file, k, tokens)
      /\ InputOK(file, k, input, col, cond, current, fake, Head(levels))
      /\ OutLast(tokens) /\ Shared(file, k, levels)
  BY <1>1, <1>3 DEF Progress, PhaseOK
<1>7. Entries(levels') = Depths(file, Head(input))
  BY <1>2, <1>3, <1>4, <1>6, LevelsAtLine
<1>8. INDENT \in Int /\ INDENT \in {INDENT, OUTDENT}
  BY Kinds
<1>9. Said(file) \subseteq Nat \ {0}
  BY <1>2, FileLines
<1>10. Returned(file, k, tokens') /\ ~LineLast(tokens')
  BY <1>2, <1>3, <1>6, <1>8, <1>9, ReturnedBlock
<1>11. InputOK(file, k, input, col, "normal", current, FALSE, Head(levels'))
  <2>1. InputOK(file, k, input, col, cond, current, FALSE, Head(levels))
    BY <1>4, <1>6 DEF InputOK
  <2> QED
    BY <1>3, <2>1, Stayed
<1>12. InLine(file, k, input, tokens', levels')
  BY <1>3, <1>4, <1>7, <1>10 DEF InLine
<1>13. PhaseOK(file, k, input, tokens', levels', "normal", fake)
  BY <1>4, <1>12 DEF PhaseOK
<1>14. Progress(k, col)'
  <2>1. InputOK(file, k, input, col, "normal", current, fake, Head(levels'))
    BY <1>4, <1>11 DEF InputOK
  <2> QED
    BY <1>3, <1>5, <1>6, <1>10, <1>13, <2>1 DEF Progress
<1>15. Typed'
  <2>1. tokens' \in Seq(Int) /\ input' \in Seq(Int)
    BY <1>2, <1>3, <1>5, <1>8, Appended
  <2>2. [Next]_vars
    BY DEF Next
  <2> QED
    BY <1>2, <2>1, <2>2, TypedKept
<1>16. Depth' = Len(levels') - 1
  <2>1. Depth' = Depth + 1
    BY <1>2, <1>3, <1>8, DepthReturned
  <2>2. Len(levels') = Len(levels) + 1 /\ Len(levels) \in Nat
    BY <1>2, <1>3, PushedEntries, StackLen
  <2> QED
    BY <1>2, <2>1, <2>2
<1>17. ~over'
  BY <1>3 DEF LexInv
<1> QED
  BY <1>14, <1>15, <1>16, <1>17 DEF LexInv

\* A line as deep as the block before it; a made-up one is dropped.
LEMMA KeepAsDeep ==
    ASSUME LexInv, AsDeep
    PROVE  LexInv'
<1>1. PICK k, col : Progress(k, col)
  BY DEF LexInv
<1>2. /\ file \in Files /\ input \in Seq(Int) /\ tokens \in Seq(Int) /\ current \in Nat
      /\ Stack(levels) /\ Typed /\ Depth = Len(levels) - 1
  BY DEF LexInv, Typed
<1>3. /\ AtText /\ current = Head(levels) /\ cond = "indent" /\ input # <<>>
      /\ Head(input) \notin White
      /\ levels' = levels /\ tokens' = tokens
      /\ cond' = (IF fake THEN "indent" ELSE "normal") /\ input' = Rest
      /\ file' = file /\ current' = current /\ over' = over
  BY DEF AsDeep, Top, AtText, White
<1>4. ~fake'
  BY DEF AsDeep
<1>5. /\ k \in Said(file) \cup {0} /\ Returned(file, k, tokens)
      /\ InputOK(file, k, input, col, cond, current, fake, Head(levels))
      /\ OutLast(tokens) /\ Shared(file, k, levels)
  BY <1>1, <1>3 DEF Progress, PhaseOK
<1>6. Said(file) \subseteq Nat \ {0}
  BY <1>2, FileLines
<1>7. Depth' = Len(levels') - 1
  BY <1>2, <1>3 DEF Depth, Times
<1>8. ~over'
  BY <1>3 DEF LexInv
<1>9. [Next]_vars
  BY DEF Next
<1>10. CASE fake
  <2>1. cond' = "indent" /\ input' = Tail(input)
    BY <1>3, <1>10 DEF Rest
  <2>2. InputOK(file, k, input, col, cond, current, TRUE, Head(levels))
    BY <1>5, <1>10 DEF InputOK
  <2>3. InputOK(file, k, Tail(input), Shift(input, col), "indent", current, FALSE, Head(levels))
    BY <1>2, <1>3, <1>6, <2>2, ConsumedDot
  <2>4. PICK c : InputOK(file, k, Tail(input), c, "indent", current, fake', Head(levels))
    BY <1>4, <2>3 DEF InputOK
  <2>5. PhaseOK(file, k, Tail(input), tokens, levels, "indent", fake')
    BY <1>5 DEF PhaseOK
  <2>6. Progress(k, c)'
    BY <1>3, <1>5, <2>1, <2>4, <2>5 DEF Progress
  <2>7. Typed'
    <3>1. Tail(input) \in Seq(Int)
      BY <1>2, <1>3, HeadTail
    <3> QED
      BY <1>2, <1>3, <1>9, <2>1, <3>1, TypedKept
  <2> QED
    BY <1>7, <1>8, <2>6, <2>7 DEF LexInv
<1>11. CASE ~fake
  <2>1. cond' = "normal" /\ input' = input
    BY <1>3, <1>11 DEF Rest
  <2>2. Head(input) > 0 /\ Follows(file, k, Head(input)) /\ current = Width(file, Head(input))
    BY <1>1, <1>2, <1>3, <1>11, Beginning
  <2>3. Entries(levels) = Depths(file, Head(input))
    BY <1>2, <1>3, <1>5, <2>2, LevelsAtLine
  <2>4. ~LineLast(tokens)
    BY <1>5, OutNoLine
  <2>5. InLine(file, k, input, tokens, levels)
    BY <1>3, <2>2, <2>3, <2>4 DEF InLine
  <2>6. InputOK(file, k, input, col, "normal", current, FALSE, Head(levels))
    <3>1. InputOK(file, k, input, col, cond, current, FALSE, Head(levels))
      BY <1>5, <1>11 DEF InputOK
    <3> QED
      BY <1>3, <3>1, Stayed
  <2>7. InputOK(file, k, input, col, "normal", current, fake', Head(levels))
    BY <1>4, <2>6 DEF InputOK
  <2>8. PhaseOK(file, k, input, tokens, levels, "normal", fake')
    BY <1>4, <2>5 DEF PhaseOK
  <2>9. Progress(k, col)'
    BY <1>3, <1>5, <2>1, <2>7, <2>8 DEF Progress
  <2>10. Typed'
    BY <1>2, <1>3, <1>9, <2>1, TypedKept
  <2> QED
    BY <1>7, <1>8, <2>9, <2>10 DEF LexInv
<1> QED
  BY <1>10, <1>11

\* A block is closed: the line is as deep as the one under it, or is put back
\* behind a line that is.
LEMMA KeepShallower ==
    ASSUME LexInv, Shallower
    PROVE  LexInv'
<1>1. PICK k, col : Progress(k, col)
  BY DEF LexInv
<1>2. /\ file \in Files /\ input \in Seq(Int) /\ tokens \in Seq(Int) /\ current \in Nat
      /\ Stack(levels) /\ Typed /\ Depth = Len(levels) - 1
  BY DEF LexInv, Typed
<1>3. /\ AtText /\ current < Head(levels) /\ cond = "indent" /\ input # <<>>
      /\ levels' = Tail(levels) /\ tokens' = Append(tokens, OUTDENT)
      /\ file' = file /\ current' = current /\ over' = over
  BY DEF Shallower, Top, AtText
<1>4. Head(levels) \in Nat /\ Head(levels) > 0 /\ Len(levels) \in Nat
  BY <1>2, <1>3, StackLen
<1>5. /\ ~fake /\ Head(input) > 0 /\ Follows(file, k, Head(input))
      /\ current = Width(file, Head(input))
  <2>1. ~fake
    BY <1>1, <1>2, <1>3, <1>4, Beginning
  <2> QED
    BY <1>1, <1>2, <1>3, <2>1, Beginning
<1>6. Rest = input
  BY <1>5 DEF Rest
<1>7. /\ k \in Said(file) \cup {0} /\ Returned(file, k, tokens)
      /\ InputOK(file, k, input, col, cond, current, fake, Head(levels))
      /\ OutLast(tokens) /\ Shared(file, k, levels)
  BY <1>1, <1>3 DEF Progress, PhaseOK
<1>8. /\ Stack(Tail(levels)) /\ levels[2] \in Nat /\ Head(Tail(levels)) = levels[2]
      /\ Len(Tail(levels)) = Len(levels) - 1
  BY <1>2, <1>4, PoppedEntries
<1>9. Shared(file, k, Tail(levels))
  BY <1>2, <1>3, <1>5, <1>7, LevelsAtLine
<1>10. OUTDENT \in Int /\ OUTDENT \in {INDENT, OUTDENT}
  BY Kinds
<1>11. Said(file) \subseteq Nat \ {0}
  BY <1>2, FileLines
<1>12. /\ Returned(file, k, tokens') /\ ~LineLast(tokens') /\ OutLast(tokens')
  BY <1>2, <1>3, <1>7, <1>10, <1>11, ReturnedBlock
<1>13. InputOK(file, k, input, col, cond, current, FALSE, Head(levels))
  BY <1>5, <1>7 DEF InputOK
<1>14. Depth' = Len(levels') - 1
  <2>1. Depth' = Depth - 1
    BY <1>2, <1>3, <1>10, DepthReturned
  <2> QED
    BY <1>2, <1>3, <1>4, <1>8, <2>1
<1>15. ~over'
  BY <1>3 DEF LexInv
<1>16. [Next]_vars /\ tokens' \in Seq(Int)
  BY <1>2, <1>3, <1>10, Appended DEF Next
<1>17. CASE current = levels[2]
  <2>1. cond' = "normal" /\ input' = input /\ fake' = fake
    BY <1>6, <1>17 DEF Shallower
  <2>2. Entries(levels') = Depths(file, Head(input))
    <3>1. Width(file, Head(input)) = Head(Tail(levels))
      BY <1>5, <1>8, <1>17
    <3>2. file \in Files /\ k \in Said(file) \cup {0} /\ Follows(file, k, Head(input))
      BY <1>2, <1>5, <1>7
    <3>3. Stack(Tail(levels)) /\ Shared(file, k, Tail(levels))
      BY <1>8, <1>9
    <3>4. Entries(Tail(levels)) = Depths(file, Head(input))
      BY <3>1, <3>2, <3>3, LevelsAtLine
    <3> QED
      BY <1>3, <3>4
  <2>3. InLine(file, k, input, tokens', levels')
    BY <1>3, <1>5, <1>12, <2>2 DEF InLine
  <2>4. InputOK(file, k, input, col, "normal", current, FALSE, Head(levels'))
    BY <1>3, <1>13, Stayed
  <2>5. InputOK(file, k, input, col, "normal", current, fake, Head(levels'))
    BY <1>5, <2>4 DEF InputOK
  <2>6. PhaseOK(file, k, input, tokens', levels', "normal", fake)
    BY <1>5, <2>3 DEF PhaseOK
  <2>7. Progress(k, col)'
    BY <1>3, <1>7, <1>12, <2>1, <2>5, <2>6 DEF Progress
  <2>8. Typed'
    BY <1>2, <1>16, <2>1, TypedKept
  <2> QED
    BY <1>14, <1>15, <2>7, <2>8 DEF LexInv
<1>18. CASE current # levels[2]
  <2> DEFINE u == Before(levels[2], current) \o input
  <2>1. cond' = "indent" /\ input' = u
    BY <1>3, <1>6, <1>18 DEF Shallower, Before
  <2>2. fake'
    BY <1>18 DEF Shallower
  <2>3. u \in Seq(Int) /\ \E c : InputOK(file, k, u, c, "indent", current, TRUE, levels[2])
    BY <1>2, <1>3, <1>8, <1>13, PutBack
  <2> HIDE DEF u
  <2>4. PICK c : InputOK(file, k, u, c, "indent", current, TRUE, levels[2])
    BY <2>3
  <2>5. InputOK(file, k, u, c, "indent", current, fake', Head(levels'))
    BY <1>3, <1>8, <2>2, <2>4 DEF InputOK
  <2>6. PhaseOK(file, k, u, tokens', levels', "indent", fake')
    BY <1>3, <1>9, <1>12 DEF PhaseOK
  <2>7. Progress(k, c)'
    BY <1>3, <1>7, <1>12, <2>1, <2>5, <2>6 DEF Progress
  <2>8. Typed'
    BY <1>2, <1>16, <2>1, <2>3, TypedKept
  <2> QED
    BY <1>14, <1>15, <2>7, <2>8 DEF LexInv
<1> QED
  BY <1>17, <1>18

\* White space.
LEMMA KeepMeasure ==
    ASSUME LexInv, Measure
    PROVE  LexInv'
<1>1. PICK k, col : Progress(k, col)
  BY DEF LexInv
<1>2. /\ file \in Files /\ input \in Seq(Int) /\ tokens \in Seq(Int) /\ current \in Nat
      /\ Typed /\ Depth = Len(levels) - 1
  BY DEF LexInv, Typed
<1>3. /\ cond = "indent" /\ input # <<>> /\ Head(input) \in White
      /\ input' = Tail(input) /\ levels' = levels /\ tokens' = tokens
      /\ cond' = cond /\ file' = file /\ over' = over
  BY DEF Measure, Ahead, White
<1>4. fake' = fake
  BY DEF Measure
<1>5. current' = Step(current, Head(input))
  BY Kinds DEF Measure, Ahead, Step
<1>6. /\ k \in Said(file) \cup {0} /\ Returned(file, k, tokens)
      /\ InputOK(file, k, input, col, cond, current, fake, Head(levels))
      /\ OutLast(tokens) /\ Shared(file, k, levels)
  BY <1>1, <1>3 DEF Progress, PhaseOK
<1>7. Said(file) \subseteq Nat \ {0}
  BY <1>2, FileLines
<1>8. PICK c : InputOK(file, k, Tail(input), c, "indent", current', fake, Head(levels))
  BY <1>2, <1>3, <1>5, <1>6, <1>7, Consumed
<1>9. PhaseOK(file, k, Tail(input), tokens, levels, "indent", fake)
  BY <1>6 DEF PhaseOK
<1>10. Progress(k, c)'
  BY <1>3, <1>4, <1>6, <1>8, <1>9 DEF Progress
<1>11. Typed'
  <2>1. Tail(input) \in Seq(Int) /\ [Next]_vars
    BY <1>2, <1>3, HeadTail DEF Next
  <2> QED
    BY <1>2, <1>3, <2>1, TypedKept
<1>12. Depth' = Len(levels') - 1 /\ ~over'
  BY <1>2, <1>3 DEF Depth, Times, LexInv
<1> QED
  BY <1>10, <1>11, <1>12 DEF LexInv

\* The first character.
LEMMA KeepBegin ==
    ASSUME LexInv, Begin
    PROVE  LexInv'
<1>1. PICK k, col : Progress(k, col)
  BY DEF LexInv
<1>2. /\ file \in Files /\ input \in Seq(Int) /\ tokens \in Seq(Int)
      /\ Typed /\ Depth = Len(levels) - 1
  BY DEF LexInv, Typed
<1>3. /\ cond = "start" /\ input # <<>> /\ cond' = "indent"
      /\ input' = input /\ levels' = levels /\ tokens' = tokens
      /\ file' = file /\ current' = current
  BY DEF Begin
<1>4. fake' = fake /\ over' = over
  BY DEF Begin
<1>5. /\ k \in Said(file) \cup {0} /\ Returned(file, k, tokens)
      /\ InputOK(file, k, input, col, cond, current, fake, Head(levels))
      /\ tokens = <<>> /\ k = 0 /\ levels = <<0>> /\ ~fake
  BY <1>1, <1>3 DEF Progress, PhaseOK
<1>6. Depths(file, 0) = {0} /\ Entries(<<0>>) = {0}
  <2>1. Len(<<0>>) = 1 /\ <<0>>[1] = 0 /\ 1 .. 1 = {1}
    OBVIOUS
  <2> QED
    BY <1>2, <2>1, DepthsOfMargin DEF Entries
<1>7. OutLast(tokens) /\ Shared(file, k, levels)
  BY <1>5, <1>6 DEF OutLast, Shared
<1>8. PhaseOK(file, k, input, tokens, levels, "indent", fake)
  BY <1>7 DEF PhaseOK
<1>9. InputOK(file, k, input, col, "indent", current, fake, Head(levels))
  BY <1>3, <1>5 DEF InputOK, Ending
<1>10. Progress(k, col)'
  BY <1>3, <1>4, <1>5, <1>8, <1>9 DEF Progress
<1>11. Typed'
  <2>1. [Next]_vars
    BY DEF Next
  <2> QED
    BY <1>2, <1>3, <2>1, TypedKept
<1>12. Depth' = Len(levels') - 1
  BY <1>2, <1>3 DEF Depth, Times
<1>13. ~over'
  BY <1>3, <1>4 DEF LexInv
<1> QED
  BY <1>10, <1>11, <1>12, <1>13 DEF LexInv

\* The end of the file closes a block.
LEMMA KeepAtEnd ==
    ASSUME LexInv, AtEnd
    PROVE  LexInv'
<1>1. PICK k, col : Progress(k, col)
  BY DEF LexInv
<1>2. /\ file \in Files /\ input \in Seq(Int) /\ tokens \in Seq(Int) /\ current \in Nat
      /\ Stack(levels) /\ Typed /\ Depth = Len(levels) - 1
  BY DEF LexInv, Typed
<1>3. /\ cond = "indent" /\ input = <<>>
      /\ file' = file /\ current' = current /\ over' = over
  BY DEF AtEnd
<1>4. /\ k \in Said(file) \cup {0} /\ Returned(file, k, tokens)
      /\ InputOK(file, k, input, col, cond, current, fake, Head(levels))
      /\ OutLast(tokens) /\ Shared(file, k, levels)
  BY <1>1, <1>3 DEF Progress, PhaseOK
<1>5. ~fake /\ ~Unended(file) /\ \A m \in Said(file) : ~(m > k)
  BY <1>3, <1>4, AtLast
<1>6. ~fake'
  BY <1>5 DEF AtEnd
<1>7. Head(levels) \in Nat /\ Len(levels) \in Nat
  BY <1>2, StackLen
<1>8. OUTDENT \in Int /\ OUTDENT \in {INDENT, OUTDENT}
  BY Kinds
<1>9. Said(file) \subseteq Nat \ {0} /\ k \in Nat
  BY <1>2, <1>4, FileLines, WidthTyped
<1>10. [Next]_vars /\ ~over'
  BY <1>3 DEF Next, LexInv
<1>11. /\ Returned(file, k, tokens') /\ OutLast(tokens') /\ tokens' \in Seq(Int)
       /\ Depth' = Len(levels') - 1
  <2>1. CASE Head(levels) = 0
    <3>1. levels' = levels /\ tokens' = tokens
      BY <2>1 DEF AtEnd, Top
    <3> QED
      BY <1>2, <1>4, <3>1 DEF Depth, Times
  <2>2. CASE Head(levels) # 0
    <3>1. levels' = Tail(levels) /\ tokens' = Append(tokens, OUTDENT)
      BY <2>2 DEF AtEnd, Top
    <3>2. Depth' = Depth - 1
      BY <1>2, <1>8, <3>1, DepthReturned
    <3>3. Len(Tail(levels)) = Len(levels) - 1
      BY <1>2, <1>7, <2>2, PoppedEntries
    <3>4. Depth' = Len(levels') - 1
      BY <1>2, <1>7, <3>1, <3>2, <3>3
    <3>5. tokens' \in Seq(Int)
      BY <1>2, <1>8, <3>1, Appended
    <3> QED
      BY <1>2, <1>4, <1>8, <1>9, <3>1, <3>4, <3>5, ReturnedBlock
  <2> QED
    BY <2>1, <2>2
<1>12. CASE Head(levels) # 0 /\ levels[2] # 0
  <2>1. levels' = Tail(levels) /\ input' = Spaces(levels[2]) \o <<Newline>> /\ cond' = "indent"
    BY <1>3, <1>12 DEF AtEnd, Top
  <2>2. levels[2] \in Nat
    <3>1. Head(levels) > 0
      BY <1>7, <1>12
    <3> QED
      BY <1>2, <3>1, PoppedEntries
  <2> DEFINE u == Spaces(levels[2]) \o <<Newline>>
  <2>3. u \in Seq(Int) /\ \E c : InputOK(file, k, u, c, "indent", current, FALSE, Head(levels'))
    BY <1>2, <1>5, <2>2, BlankBehind
  <2>4. input' = u
    BY <2>1
  <2> HIDE DEF u
  <2>5. PICK c : InputOK(file, k, u, c, "indent", current, FALSE, Head(levels'))
    BY <2>3
  <2>6. InputOK(file, k, u, c, "indent", current, fake', Head(levels'))
    BY <1>6, <2>5 DEF InputOK
  <2>7. Shared(file, k, levels')
    <3>1. ASSUME NEW m, Follows(file, k, m) PROVE FALSE
      <4>1. m \in Said(file) /\ k < m
        BY <3>1 DEF Follows
      <4>2. m \in Nat
        BY <1>9, <4>1
      <4> QED
        BY <1>5, <1>9, <4>1, <4>2
    <3> QED
      BY <3>1 DEF Shared
  <2>8. PhaseOK(file, k, u, tokens', levels', "indent", fake')
    BY <1>11, <2>7 DEF PhaseOK
  <2>9. Progress(k, c)'
    BY <1>3, <1>4, <1>11, <2>1, <2>4, <2>6, <2>8 DEF Progress
  <2>10. Typed'
    BY <1>2, <1>10, <1>11, <2>3, <2>4, TypedKept
  <2> QED
    BY <1>10, <1>11, <2>9, <2>10 DEF LexInv
<1>13. CASE ~(Head(levels) # 0 /\ levels[2] # 0)
  <2>1. input' = <<>> /\ cond' = "normal"
    BY <1>3, <1>13 DEF AtEnd, Top
  <2>2. levels' = <<0>>
    <3>1. CASE Head(levels) = 0
      <4>1. levels' = levels
        BY <3>1 DEF AtEnd, Top
      <4> QED
        BY <1>2, <3>1, <4>1, OnlyMargin
    <3>2. CASE Head(levels) # 0
      <4>1. levels' = Tail(levels) /\ levels[2] = 0
        BY <1>13, <3>2 DEF AtEnd, Top
      <4>2. Stack(Tail(levels)) /\ Head(Tail(levels)) = levels[2]
        <5>1. Head(levels) > 0
          BY <1>7, <3>2
        <5> QED
          BY <1>2, <5>1, PoppedEntries
      <4> QED
        BY <4>1, <4>2, OnlyMargin
    <3> QED
      BY <3>1, <3>2
  <2>3. ~LineLast(tokens')
    BY <1>11, OutNoLine
  <2>4. InLine(file, k, input, tokens', levels')
    BY <1>3, <1>5, <2>2, <2>3 DEF InLine
  <2>5. PhaseOK(file, k, input, tokens', levels', "normal", fake')
    BY <1>6, <2>4 DEF PhaseOK
  <2>6. InputOK(file, k, input, col, "normal", current, fake', Head(levels'))
    BY <1>3, <1>4, <1>5, <1>6 DEF InputOK, Ending
  <2>7. Progress(k, col)'
    BY <1>3, <1>4, <1>11, <2>1, <2>5, <2>6 DEF Progress
  <2>8. Typed'
    BY <1>2, <1>3, <1>10, <1>11, <2>1, TypedKept
  <2>9. over' => cond' # "indent" /\ input' = <<>>
    BY <1>10
  <2> QED
    BY <1>11, <2>7, <2>8, <2>9 DEF LexInv
<1> QED
  BY <1>12, <1>13

\* What a line says.
LEMMA KeepText ==
    ASSUME LexInv, Text
    PROVE  LexInv'
<1>1. PICK k, col : Progress(k, col)
  BY DEF LexInv
<1>2. /\ file \in Files /\ input \in Seq(Int) /\ tokens \in Seq(Int)
      /\ Typed /\ Depth = Len(levels) - 1
  BY DEF LexInv, Typed
<1>3. /\ cond = "normal" /\ input # <<>> /\ Head(input) # Newline
      /\ tokens' = Append(tokens, Head(input)) /\ input' = Tail(input)
      /\ file' = file /\ cond' = cond /\ levels' = levels /\ current' = current
  BY DEF Text
<1>4. fake' = fake /\ over' = over
  BY DEF Text
<1>5. /\ k \in Said(file) \cup {0} /\ Returned(file, k, tokens)
      /\ InputOK(file, k, input, col, cond, current, fake, Head(levels))
      /\ ~fake /\ InLine(file, k, input, tokens, levels)
  BY <1>1, <1>3 DEF Progress, PhaseOK
<1> DEFINE m == Head(input)
<1>6. m > 0 /\ ~LineLast(tokens) /\ Entries(levels) = Depths(file, m)
  BY <1>3, <1>5 DEF InLine
<1>7. InputOK(file, k, input, col, cond, current, FALSE, Head(levels))
  BY <1>5 DEF InputOK
<1>8. Columns(input, col) /\ Coming(file, k, input, col) /\ Ending(file, input, cond)
  BY <1>5 DEF InputOK
<1>9. /\ Follows(file, k, m) /\ m \in Said(file)
      /\ Tail(input) # <<>> => Head(Tail(input)) = Newline
  <2>1. k \in Nat /\ Said(file) \subseteq Nat \ {0}
    BY <1>2, <1>5, FileLines, WidthTyped
  <2> QED
    BY <1>2, <1>3, <1>6, <1>8, <2>1, ComingNext
<1>10. PICK c : InputOK(file, m, Tail(input), c, "normal", current, FALSE, Head(levels))
  BY <1>2, <1>3, <1>5, <1>6, <1>7, ConsumedLine
<1>11. Returned(file, m, tokens') /\ LineLast(tokens')
  BY <1>2, <1>3, <1>5, <1>6, <1>9, ReturnedLine
<1>12. InLine(file, m, Tail(input), tokens', levels)
  <2>1. CASE Tail(input) # <<>>
    BY <1>6, <1>9, <1>11, <2>1 DEF InLine
  <2>2. CASE Tail(input) = <<>>
    <3>1. Len(input) = 1 /\ Head(input) = input[1]
      BY <1>2, <1>3, <2>2, HeadTail
    <3>2. Unended(file) /\ m = Len(file.lines)
      BY <1>3, <1>6, <1>8, <3>1 DEF Ending
    <3> QED
      BY <1>6, <2>2, <3>2 DEF InLine
  <2> QED
    BY <2>1, <2>2
<1>13. PhaseOK(file, m, Tail(input), tokens', levels, "normal", fake)
  BY <1>5, <1>12 DEF PhaseOK
<1>14. InputOK(file, m, Tail(input), c, "normal", current, fake, Head(levels))
  BY <1>5, <1>10 DEF InputOK
<1>15. m \in Said(file) \cup {0}
  BY <1>9
<1>16. \E x, y : Progress(x, y)'
  <2> HIDE DEF m
  <2>1. PICK x : x = m
    OBVIOUS
  <2>2. Progress(x, c)'
    BY <1>3, <1>4, <1>11, <1>13, <1>14, <1>15, <2>1 DEF Progress
  <2> QED
    BY <2>2
<1>17. m \in Int /\ m \notin {INDENT, OUTDENT}
  <2>1. m \in Int
    BY <1>2, <1>3, HeadTail
  <2> QED
    BY <1>6, <2>1, Kinds
<1>18. Typed'
  <2>1. Tail(input) \in Seq(Int) /\ tokens' \in Seq(Int) /\ [Next]_vars
    BY <1>2, <1>3, <1>17, HeadTail, Appended DEF Next
  <2> QED
    BY <1>2, <1>3, <2>1, TypedKept
<1>19. Depth' = Len(levels') - 1
  BY <1>2, <1>3, <1>17, DepthReturned
<1>20. ~over'
  BY <1>3, <1>4 DEF LexInv
<1> QED
  BY <1>16, <1>18, <1>19, <1>20 DEF LexInv

\* The end of a line.
LEMMA KeepEndLine ==
    ASSUME LexInv, EndLine
    PROVE  LexInv'
<1>1. PICK k, col : Progress(k, col)
  BY DEF LexInv
<1>2. /\ file \in Files /\ input \in Seq(Int) /\ tokens \in Seq(Int)
      /\ Typed /\ Depth = Len(levels) - 1
  BY DEF LexInv, Typed
<1>3. /\ cond = "normal" /\ input # <<>> /\ Head(input) = Newline
      /\ current' = 0 /\ cond' = "indent"
      /\ tokens' = Append(tokens, NEWLINE) /\ input' = Tail(input)
      /\ file' = file /\ levels' = levels
  BY DEF EndLine, Ahead
<1>4. fake' = fake /\ over' = over
  BY DEF EndLine
<1>5. /\ k \in Said(file) \cup {0} /\ Returned(file, k, tokens)
      /\ InputOK(file, k, input, col, cond, current, fake, Head(levels))
      /\ ~fake /\ InLine(file, k, input, tokens, levels)
  BY <1>1, <1>3 DEF Progress, PhaseOK
<1>6. LineLast(tokens) /\ Entries(levels) = Depths(file, k)
  BY <1>3, <1>5, Kinds DEF InLine
<1>7. Said(file) \subseteq Nat \ {0}
  BY <1>2, FileLines
<1>8. PICK c : InputOK(file, k, Tail(input), c, "indent", 0, fake, Head(levels))
  <2>1. Head(input) \in White
    BY <1>3 DEF White
  <2>2. Step(current, Head(input)) = 0
    BY <1>3, Steps
  <2> QED
    BY <1>2, <1>3, <1>5, <1>7, <2>1, <2>2, Consumed
<1>9. Returned(file, k, tokens') /\ OutLast(tokens')
  BY <1>2, <1>3, <1>5, <1>6, ReturnedEnd
<1>10. Shared(file, k, levels)
  BY <1>6 DEF Shared
<1>11. PhaseOK(file, k, Tail(input), tokens', levels, "indent", fake)
  BY <1>9, <1>10 DEF PhaseOK
<1>12. Progress(k, c)'
  BY <1>3, <1>4, <1>5, <1>8, <1>9, <1>11 DEF Progress
<1>13. NEWLINE \in Int /\ NEWLINE \notin {INDENT, OUTDENT}
  BY Kinds
<1>14. Typed'
  <2>1. Tail(input) \in Seq(Int) /\ tokens' \in Seq(Int) /\ [Next]_vars
    BY <1>2, <1>3, <1>13, HeadTail, Appended DEF Next
  <2> QED
    BY <1>2, <1>3, <2>1, TypedKept
<1>15. Depth' = Len(levels') - 1
  BY <1>2, <1>3, <1>13, DepthReturned
<1>16. ~over'
  BY <1>3, <1>4 DEF LexInv
<1> QED
  BY <1>12, <1>14, <1>15, <1>16 DEF LexInv

\* The end of the file, and no step.
LEMMA KeepEndOfFile ==
    ASSUME LexInv, EndOfFile
    PROVE  LexInv'
<1>1. PICK k, col : Progress(k, col)
  BY DEF LexInv
<1>2. /\ file' = file /\ input' = input /\ cond' = cond /\ levels' = levels
      /\ current' = current /\ tokens' = tokens
      /\ cond # "indent" /\ input = <<>>
  BY DEF EndOfFile
<1>3. fake' = fake
  BY DEF EndOfFile
<1>4. Progress(k, col)'
  BY <1>1, <1>2, <1>3 DEF Progress
<1>5. Typed'
  <2>1. [Next]_vars
    BY DEF Next
  <2> QED
    BY <1>2, <2>1, TypedKept DEF LexInv, Typed
<1>6. Depth' = Len(levels') - 1
  BY <1>2 DEF Depth, Times, LexInv
<1> QED
  BY <1>2, <1>4, <1>5, <1>6 DEF LexInv

\* No step.
LEMMA KeepStill ==
    ASSUME LexInv, UNCHANGED vars
    PROVE  LexInv'
<1>1. PICK k, col : Progress(k, col)
  BY DEF LexInv
<1>2. /\ file' = file /\ input' = input /\ cond' = cond /\ levels' = levels
      /\ current' = current /\ tokens' = tokens
  BY DEF vars
<1>3. fake' = fake /\ over' = over
  BY DEF vars
<1>4. Progress(k, col)'
  BY <1>1, <1>2, <1>3 DEF Progress
<1>5. Typed'
  BY <1>2, TypedKept DEF LexInv, Typed
<1>6. Depth' = Len(levels') - 1
  BY <1>2 DEF Depth, Times, LexInv
<1>7. over' => cond' # "indent" /\ input' = <<>>
  BY <1>2, <1>3 DEF LexInv
<1> QED
  BY <1>4, <1>5, <1>6, <1>7 DEF LexInv

\* Before the first step.
LEMMA LexBegins ==
    ASSUME Init
    PROVE  LexInv
<1>1. /\ file \in Files /\ input = Chars(file) /\ cond = "start" /\ levels = <<0>>
      /\ current = 0 /\ tokens = <<>>
  BY DEF Init
<1>2. fake \in BOOLEAN /\ over \in BOOLEAN /\ ~fake /\ ~over
  BY Zenon DEF Init
<1> DEFINE L == Len(file.lines)
<1>3. L \in Nat \ {0} /\ Said(file) \subseteq 1 .. L /\ file.ended \in BOOLEAN
  BY <1>1, FileLines
<1>4. PICK col : Written(file, 1, L, input, col)
  BY <1>1, CharsWritten
<1>5. /\ input \in Seq(Int) /\ Columns(input, col) /\ col[1] = 0
      /\ \A i \in 1 .. Len(input) : Legible(input[i])
      /\ \A i \in 1 .. Len(input) : input[i] > 0 =>
             /\ input[i] \in Said(file) /\ input[i] \in 1 .. L
             /\ col[i] = Width(file, input[i])
             /\ i < Len(input) => input[i + 1] = Newline
      /\ \A i, j \in 1 .. Len(input) : i < j /\ input[i] > 0 /\ input[j] > 0
             => input[i] < input[j]
      /\ \A m \in Said(file) : m \in 1 .. L => \E i \in 1 .. Len(input) : input[i] = m
      /\ IF Ended(file, L)
           THEN input # <<>> /\ input[Len(input)] = Newline /\ col[Len(input) + 1] = 0
           ELSE input # <<>> /\ input[Len(input)] > 0 <=> L \in Said(file)
  BY <1>4 DEF Written
<1>6. Coming(file, 0, input, col)
  BY <1>3, <1>5 DEF Coming
<1>7. Ended(file, L) <=> file.ended
  BY <1>3 DEF Ended
<1>8. Ending(file, input, cond)
  <2>1. Unended(file) <=> ~Ended(file, L) /\ L \in Said(file)
    BY <1>7 DEF Unended
  <2>2. ASSUME input # <<>>, input[Len(input)] > 0
        PROVE  Unended(file) /\ input[Len(input)] = L
    <3>1. ~Ended(file, L) /\ L \in Said(file)
      BY <1>5, <2>2, Kinds
    <3>2. PICK i \in 1 .. Len(input) : input[i] = L
      BY <1>3, <1>5, <3>1
    <3>3. Len(input) \in Nat \ {0} /\ Len(input) \in 1 .. Len(input)
      BY <1>5, <2>2, HeadTail
    <3>4. input[Len(input)] \in 1 .. L
      BY <1>5, <2>2, <3>3
    <3>5. ~(i < Len(input))
      <4>1. i < Len(input) => L < input[Len(input)]
        BY <1>3, <1>5, <2>2, <3>2, <3>3
      <4> QED
        BY <1>3, <3>4, <4>1
    <3>6. i = Len(input)
      BY <3>3, <3>5
    <3> QED
      BY <2>1, <3>1, <3>2, <3>6
  <2>3. Unended(file) => input # <<>> /\ input[Len(input)] > 0
    BY <1>5, <2>1
  <2> QED
    BY <2>2, <2>3 DEF Ending
<1>9. InputOK(file, 0, input, col, cond, current, fake, Head(levels))
  BY <1>1, <1>2, <1>5, <1>6, <1>8 DEF InputOK
<1>10. Returned(file, 0, tokens)
  <2>1. Said(file) \subseteq Nat \ {0}
    BY <1>3
  <2> QED
    BY <1>1, <2>1, ReturnedNothing
<1>11. PhaseOK(file, 0, input, tokens, levels, cond, fake)
  BY <1>1, <1>2 DEF PhaseOK
<1>12. Progress(0, col)
  BY <1>9, <1>10, <1>11 DEF Progress
<1>13. Typed
  <2>1. tokens \in Seq(Int)
    BY <1>1
  <2> QED
    BY <1>1, <1>2, <1>5, <2>1, Margin DEF Typed
<1>14. Depth = Len(levels) - 1
  <2>1. DOMAIN tokens = {} /\ Len(levels) = 1
    BY <1>1
  <2>2. Times(INDENT) = Cardinality({}) /\ Times(OUTDENT) = Cardinality({})
    BY <2>1 DEF Times
  <2>3. Cardinality({}) = 0
    BY FS_EmptySet
  <2> QED
    BY <2>1, <2>2, <2>3 DEF Depth
<1> QED
  BY <1>2, <1>12, <1>13, <1>14 DEF LexInv

\* The inductive invariant holds of every run of the lexer.
LEMMA Lexing == Spec => []LexInv
<1>1. Init => LexInv
  BY LexBegins
<1>2. LexInv /\ [Next]_vars => LexInv'
  BY KeepBegin, KeepMeasure, KeepDeeper, KeepShallower, KeepAsDeep, KeepAtEnd, KeepText,
     KeepEndLine, KeepEndOfFile, KeepStill DEF Next
<1> QED
  BY <1>1, <1>2, PTL DEF Spec

-----------------------------------------------------------------------------
(***************************************************************************)
(* What the invariant is for.                                              *)
(***************************************************************************)

\* What is neither INDENT nor OUTDENT nor NEWLINE is a line.
LEMMA LineTokens ==
    ASSUME NEW k, Typed, Returned(file, k, tokens), k \in Said(file) \cup {0}
    PROVE  /\ DOMAIN tokens = 1 .. Len(tokens) /\ Len(tokens) \in Nat
           /\ \A i \in 1 .. Len(tokens) :
                  /\ tokens[i] \in Int
                  /\ tokens[i] \notin {INDENT, OUTDENT, NEWLINE} <=> tokens[i] > 0
                  /\ tokens[i] > 0 => tokens[i] \in Said(file) /\ tokens[i] <= k
<1>1. tokens \in Seq(Int) /\ file \in Files
  BY DEF Typed
<1>2. /\ DOMAIN tokens = 1 .. Len(tokens) /\ Len(tokens) \in Nat
      /\ \A i \in 1 .. Len(tokens) : tokens[i] \in Int
  BY <1>1, LenProperties, ElementOfSeq
<1>3. \A i \in 1 .. Len(tokens) :
          tokens[i] \in {INDENT, OUTDENT, NEWLINE} \/ (tokens[i] \in Said(file) /\ tokens[i] <= k)
  BY DEF Returned
<1>4. Said(file) \subseteq Nat \ {0}
  BY <1>1, FileLines
<1>5. \A x \in Said(file) : x > 0
  BY <1>4
<1>6. \A x \in {INDENT, OUTDENT, NEWLINE} : ~(x > 0)
  BY Kinds
<1> QED
  BY <1>2, <1>3, <1>5, <1>6

\* With nothing left to scan, no line is to come.
LEMMA AllReturned ==
    ASSUME LexInv, over, NEW k, NEW col, Progress(k, col)
    PROVE  /\ \A m \in Said(file) : m <= k
           /\ IF Unended(file) THEN k = Len(file.lines) /\ Entries(levels) = Depths(file, k)
                               ELSE levels = <<0>>
<1>1. /\ cond # "indent" /\ input = <<>> /\ file \in Files
      /\ cond \in {"start", "indent", "normal"}
  BY DEF LexInv, Typed
<1>2. /\ InputOK(file, k, <<>>, col, cond, current, fake, Head(levels))
      /\ PhaseOK(file, k, <<>>, tokens, levels, cond, fake) /\ k \in Said(file) \cup {0}
  BY <1>1 DEF Progress
<1>3. /\ \A m \in Said(file) : ~(m > k)
      /\ cond # "normal" => ~Unended(file)
  BY <1>2, AtLast
<1>4. \A m \in Said(file) : m <= k
  <2>1. \A m \in Said(file) : m \in Nat
    BY <1>1, WidthTyped
  <2>2. k \in Nat
    BY <1>1, <1>2, WidthTyped
  <2> QED
    BY <1>3, <2>1, <2>2
<1>5. CASE cond = "start"
  BY <1>2, <1>3, <1>4, <1>5 DEF PhaseOK
<1>6. CASE cond = "normal"
  <2>1. InLine(file, k, <<>>, tokens, levels)
    BY <1>2, <1>6 DEF PhaseOK
  <2> QED
    BY <1>4, <2>1 DEF InLine
<1> QED
  BY <1>1, <1>5, <1>6

\* Whatever is made up and put back, each line of every file is returned once,
\* in its order, with a NEWLINE of its own, and nothing that was made up is.
THEOREM LinesOnce == Spec => []LinesReturnedOnce
<1>1. ASSUME LexInv PROVE LinesReturnedOnce
  <2>1. PICK k, col : Progress(k, col)
    BY <1>1 DEF LexInv
  <2>2. /\ Typed /\ Returned(file, k, tokens) /\ k \in Said(file) \cup {0} /\ file \in Files
    BY <1>1, <2>1 DEF LexInv, Progress, Typed
  <2> DEFINE n == Len(tokens)
             said == {i \in DOMAIN tokens : tokens[i] \notin {INDENT, OUTDENT, NEWLINE}}
  <2>3. /\ DOMAIN tokens = 1 .. n /\ n \in Nat
        /\ \A i \in 1 .. n :
               /\ tokens[i] \in Int
               /\ tokens[i] \notin {INDENT, OUTDENT, NEWLINE} <=> tokens[i] > 0
               /\ tokens[i] > 0 => tokens[i] \in Said(file) /\ tokens[i] <= k
    BY <2>2, LineTokens
  <2>4. said = {i \in 1 .. n : tokens[i] > 0}
    BY <2>3
  <2>5. /\ \A i \in 1 .. n : tokens[i] = NEWLINE <=> i > 1 /\ tokens[i - 1] > 0
        /\ \A i, j \in 1 .. n : i < j /\ tokens[i] > 0 /\ tokens[j] > 0 => tokens[i] < tokens[j]
        /\ \A m \in Said(file) : m <= k => \E i \in 1 .. n : tokens[i] = m
    BY <2>2 DEF Returned
  <2> HIDE DEF said, n
  <2>6. \A i, j \in said : i < j => tokens[i] < tokens[j]
    BY <2>4, <2>5
  <2>7. ASSUME NEW i \in DOMAIN tokens PROVE tokens[i] = NEWLINE <=> i - 1 \in said
    <3>1. i \in 1 .. n
      BY <2>3
    <3>2. i - 1 \in said <=> i > 1 /\ tokens[i - 1] > 0
      BY <2>3, <2>4, <3>1
    <3> QED
      BY <2>5, <3>1, <3>2
  <2>8. ASSUME over PROVE {tokens[i] : i \in said} = Said(file)
    <3>1. \A m \in Said(file) : m <= k
      BY <1>1, <2>1, <2>8, AllReturned
    <3>2. \A m \in Said(file) : m > 0
      BY <2>2, FileLines
    <3>3. ASSUME NEW m \in Said(file) PROVE m \in {tokens[i] : i \in said}
      <4>1. PICK i \in 1 .. n : tokens[i] = m
        BY <2>5, <3>1
      <4> QED
        BY <2>4, <3>2, <4>1
    <3>4. \A i \in said : tokens[i] \in Said(file)
      BY <2>3, <2>4
    <3> QED
      BY <3>3, <3>4
  <2> QED
    BY <2>6, <2>7, <2>8 DEF LinesReturnedOnce, said
<1> QED
  BY <1>1, Lexing, PTL

\* Every line of every file is returned as deep in the blocks as the layout has
\* it: the stack of levels, which is popped one level at a time and reads lines
\* again, finds the lines whose blocks a line is in.
THEOREM Nested == Spec => []NestedAsWritten
<1>1. ASSUME LexInv PROVE NestedAsWritten
  <2> SUFFICES ASSUME tokens # <<>>, Last(tokens) > 0
              PROVE  Depth = Cardinality(Around(file, Last(tokens)))
    BY DEF NestedAsWritten
  <2>2. PICK k, col : Progress(k, col)
    BY <1>1 DEF LexInv
  <2>3. /\ Typed /\ Returned(file, k, tokens) /\ k \in Said(file) \cup {0} /\ file \in Files
        /\ Stack(levels) /\ tokens \in Seq(Int) /\ Depth = Len(levels) - 1
        /\ cond \in {"start", "indent", "normal"}
        /\ PhaseOK(file, k, input, tokens, levels, cond, fake)
    BY <1>1, <2>2 DEF LexInv, Progress, Typed
  <2> DEFINE n == Len(tokens)
  <2>4. Last(tokens) = tokens[n]
    BY DEF Last
  <2>5. LineLast(tokens)
    BY <2>4 DEF LineLast
  <2>6. cond = "normal"
    <3>1. cond # "start"
      BY <2>3 DEF PhaseOK
    <3>2. cond # "indent"
      BY <2>3, <2>5, OutNoLine DEF PhaseOK
    <3> QED
      BY <2>3, <3>1, <3>2
  <2>7. Entries(levels) = Depths(file, k)
    BY <2>3, <2>5, <2>6 DEF PhaseOK, InLine
  <2>8. tokens[n] = k
    <3>1. /\ n \in Nat /\ n # 0
          /\ \A i \in 1 .. n :
                 /\ tokens[i] \in Int
                 /\ tokens[i] > 0 => tokens[i] \in Said(file) /\ tokens[i] <= k
      <4>1. n # 0
        BY <2>3, EmptySeq
      <4> QED
        BY <2>3, <4>1, LineTokens
    <3>2. /\ \A i, j \in 1 .. n : i < j /\ tokens[i] > 0 /\ tokens[j] > 0 => tokens[i] < tokens[j]
          /\ \A m \in Said(file) : m <= k => \E i \in 1 .. n : tokens[i] = m
      BY <2>3 DEF Returned
    <3>3. k \in Nat
      BY <2>3, WidthTyped
    <3> HIDE DEF n
    <3>4. n \in 1 .. n /\ tokens[n] \in Int /\ tokens[n] > 0 /\ tokens[n] <= k
      BY <2>4, <3>1
    <3>5. k > 0 /\ k \in Said(file) /\ k <= k
      BY <2>3, <3>3, <3>4
    <3>6. PICK i \in 1 .. n : tokens[i] = k
      BY <3>2, <3>5
    <3>7. ~(i < n)
      BY <3>2, <3>3, <3>4, <3>5, <3>6
    <3>8. i = n
      BY <3>1, <3>7
    <3> QED
      BY <3>6, <3>8
  <2>9. Cardinality(Around(file, k)) = Len(levels) - 1
    BY <2>3, <2>7, BlocksCounted
  <2> QED
    BY <2>3, <2>4, <2>8, <2>9
<1> QED
  BY <1>1, Lexing, PTL

\* The last line that says something.
LEMMA LastLine ==
    ASSUME NEW f \in Files, NEW k \in Said(f) \cup {0}, \A m \in Said(f) : m <= k
    PROVE  Max(Said(f) \cup {0}) = k
<1> DEFINE S == Said(f) \cup {0}
<1>1. \A m \in S : m \in Nat
  BY WidthTyped
<1>2. k \in S /\ \A m \in S : k >= m
  BY <1>1
<1>3. \A x \in S : (\A m \in S : x >= m) => x = k
  BY <1>1, <1>2
<1>4. Max(S) = CHOOSE x \in S : \A m \in S : x >= m
  BY DEF Max
<1> HIDE DEF S
<1>5. Max(S) = k
  BY <1>2, <1>3, <1>4
<1> QED
  BY <1>5 DEF S

\* In every file, blocks are opened and closed at the start of lines only, and
\* at the end all are closed, unless the file is cut off in a line inside one.
THEOREM BlocksClosed == Spec => []Closed
<1>1. ASSUME LexInv PROVE Closed
  <2>1. PICK k, col : Progress(k, col)
    BY <1>1 DEF LexInv
  <2>2. /\ Typed /\ Returned(file, k, tokens) /\ k \in Said(file) \cup {0} /\ file \in Files
        /\ Stack(levels) /\ Depth = Len(levels) - 1
    BY <1>1, <2>1 DEF LexInv, Progress, Typed
  <2> DEFINE last  == Max(Said(file) \cup {0})
             cut   == /\ ~file.ended /\ last = Len(file.lines)
                      /\ Around(file, last) # {}
             final == Len(tokens)
  <2>3. final > 1 /\ tokens[final] \in {INDENT, OUTDENT}
            => tokens[final - 1] \in {NEWLINE, OUTDENT}
    <3>1. final \in Nat
      BY <2>2, LineTokens
    <3>2. final > 1 => final \in 1 .. final
      BY <3>1
    <3> QED
      BY <2>2, <3>2 DEF Returned
  <2>4. ASSUME over PROVE Depth = 0 <=> ~cut
    <3>1. /\ \A m \in Said(file) : m <= k
          /\ IF Unended(file) THEN k = Len(file.lines) /\ Entries(levels) = Depths(file, k)
                              ELSE levels = <<0>>
      BY <1>1, <2>1, <2>4, AllReturned
    <3>2. last = k
      BY <2>2, <3>1, LastLine
    <3>3. Len(file.lines) \in Nat \ {0} /\ Len(levels) \in Nat
      BY <2>2, FileLines, StackLen
    <3> HIDE DEF last
    <3>4. CASE Unended(file)
      <4>1. Cardinality(Around(file, k)) = Len(levels) - 1 /\ IsFiniteSet(Around(file, k))
        BY <2>2, <3>1, <3>4, BlocksCounted
      <4>2. Cardinality(Around(file, k)) = 0 <=> Around(file, k) = {}
        BY <4>1, FS_EmptySet
      <4>3. ~file.ended /\ last = Len(file.lines)
        BY <3>1, <3>2, <3>4 DEF Unended
      <4> QED
        BY <2>2, <3>2, <4>1, <4>2, <4>3
    <3>5. CASE ~Unended(file)
      <4>1. Depth = 0
        <5>1. Len(levels) = 1
          BY <2>2, <3>1, <3>5, OnlyMargin
        <5> QED
          BY <2>2, <5>1
      <4>2. ~(~file.ended /\ last = Len(file.lines))
        BY <2>2, <3>2, <3>3, <3>5 DEF Unended
      <4> QED
        BY <4>1, <4>2
    <3> QED
      BY <3>4, <3>5
  <2> QED
    BY <2>3, <2>4 DEF Closed
<1> QED
  BY <1>1, Lexing, PTL

=============================================================================
