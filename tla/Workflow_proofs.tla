--------------------------- MODULE Workflow_proofs ---------------------------
(***************************************************************************)
(* Proofs about module Workflow, for every set of components and objects   *)
(* and every procedure, dependency and touchpoint list.                    *)
(***************************************************************************)
EXTENDS Workflow, TLAPS

\* Every step keeps the types.
LEMMA TypeKept == TypeOK /\ [Next]_vars => TypeOK'
<1> SUFFICES ASSUME TypeOK, [Next]_vars PROVE TypeOK'
  OBVIOUS
<1> USE DEF TypeOK
<1>1. CASE UNCHANGED vars
  BY <1>1 DEF vars
<1>2. ASSUME NEW c \in Comp, NEW o \in Obj, NEW k \in Steps(o),
             RunSubrule(c, o, k)
      PROVE  TypeOK'
  <2>1. Steps(o) \subseteq Nat
    BY ProcAssumption DEF Steps
  <2> QED
    BY <1>2, <2>1 DEF RunSubrule
<1>3. ASSUME NEW c \in Comp, NEW o \in Obj, Realize(c, o) \/ Learn(c, o)
      PROVE  TypeOK'
  BY <1>3 DEF Realize, Learn
<1> QED
  BY <1>1, <1>2, <1>3 DEF Next

\* ran and known have their types, in every workflow.
THEOREM TypeCorrect == Spec => []TypeOK
<1>1. Init => TypeOK
  BY DEF Init, TypeOK
<1> QED
  BY <1>1, TypeKept, PTL DEF Spec

-----------------------------------------------------------------------------

\* Nothing is ever taken back: what has run has run, what is known is known.
Growing ==
    /\ \A o \in Obj : ran[o] \subseteq ran'[o]
    /\ \A c \in Comp : known[c] \subseteq known'[c]

\* Every step is of that kind.
LEMMA StepsGrow == TypeOK /\ [Next]_vars => Growing
<1> SUFFICES ASSUME TypeOK, [Next]_vars PROVE Growing
  OBVIOUS
<1>1. CASE UNCHANGED vars
  BY <1>1 DEF vars, Growing
<1>2. ASSUME NEW c \in Comp, NEW o \in Obj, NEW k \in Steps(o),
             RunSubrule(c, o, k)
      PROVE  Growing
  BY <1>2 DEF RunSubrule, Growing, TypeOK
<1>3. ASSUME NEW c \in Comp, NEW o \in Obj, Realize(c, o) \/ Learn(c, o)
      PROVE  Growing
  BY <1>3 DEF Realize, Learn, Growing, TypeOK
<1> QED
  BY <1>1, <1>2, <1>3 DEF Next

\* So a dependency that has been met stays met.
LEMMA ReadyStays ==
    ASSUME Growing, NEW o \in Obj, Ready(o)
    PROVE  Ready(o)'
BY DEF Growing, Ready, Made

-----------------------------------------------------------------------------

\* The two invariants lean on each other only through Ready, which grows: the
\* first is inductive by itself, the second with the first.
LEMMA OrderKept ==
    ASSUME TypeOK, InProcedureOrder, [Next]_vars
    PROVE  InProcedureOrder'
<1>1. Growing
  BY StepsGrow
<1> SUFFICES ASSUME NEW o \in Obj, NEW k \in ran'[o]
             PROVE  /\ \A j \in 1 .. k : j \in ran'[o]
                    /\ Ready(o)'
  BY DEF InProcedureOrder
<1>2. CASE k \in ran[o]
  <2>1. (\A j \in 1 .. k : j \in ran[o]) /\ Ready(o)
    BY <1>2 DEF InProcedureOrder
  <2> QED
    BY <2>1, <1>1, ReadyStays DEF Growing
<1>3. CASE k \notin ran[o]
  <2>1. PICK c \in Comp : k \in Steps(o) /\ RunSubrule(c, o, k)
    <3>1. \E c \in Comp, p \in Obj : \E j \in Steps(p) : RunSubrule(c, p, j)
      BY <1>3 DEF Next, vars, Realize, Learn
    <3>2. PICK c \in Comp, p \in Obj :
              \E j \in Steps(p) : RunSubrule(c, p, j)
      BY <3>1
    <3>3. PICK j \in Steps(p) : RunSubrule(c, p, j)
      BY <3>2
    <3>4. p = o /\ j = k
      BY <3>3, <1>3 DEF RunSubrule, TypeOK
    <3> QED
      BY <3>3, <3>4
  <2>2. k \in Nat \ {0} /\ ran'[o] = ran[o] \cup {k}
    BY <2>1, ProcAssumption DEF RunSubrule, Steps, TypeOK
  <2>3. CASE k = 1
    <3>1. Ready(o)
      BY <2>1, <2>3 DEF RunSubrule, Startable
    <3> QED
      BY <3>1, <2>2, <2>3, <1>1, ReadyStays
  <2>4. CASE k # 1
    <3>1. k - 1 \in ran[o]
      BY <2>1, <2>4 DEF RunSubrule, Startable
    <3>2. (\A j \in 1 .. k - 1 : j \in ran[o]) /\ Ready(o)
      BY <3>1 DEF InProcedureOrder
    <3>3. \A j \in 1 .. k : j = k \/ j \in 1 .. k - 1
      BY <2>2
    <3> QED
      BY <3>2, <3>3, <2>2, <1>1, ReadyStays
  <2> QED
    BY <2>3, <2>4
<1> QED
  BY <1>2, <1>3

\* A procedure whose last subrule has run has run altogether.
LEMMA CompleteMeansAll ==
    ASSUME TypeOK, InProcedureOrder, NEW o \in Obj, Complete(o)
    PROVE  Steps(o) \subseteq ran[o] /\ Ready(o)
<1>1. CASE Proc[o] = <<>>
  BY <1>1 DEF Complete, Steps
<1>2. CASE Proc[o] # <<>>
  <2>1. Len(Proc[o]) \in ran[o]
    BY <1>2 DEF Complete
  <2> QED
    BY <2>1 DEF InProcedureOrder, Steps
<1> QED
  BY <1>1, <1>2

\* Every step keeps realized objects complete.
LEMMA CompletenessKept ==
    ASSUME TypeOK, InProcedureOrder, RealizedIsComplete, [Next]_vars
    PROVE  RealizedIsComplete'
<1>1. Growing
  BY StepsGrow
<1> SUFFICES ASSUME NEW o \in Made'
             PROVE  Steps(o) \subseteq ran'[o] /\ Ready(o)'
  BY DEF RealizedIsComplete, Steps
<1>2. o \in Obj
  <2>1. TypeOK'
    BY TypeKept
  <2> QED
    BY <2>1 DEF TypeOK, Made
<1>3. Steps(o) \subseteq ran[o] /\ Ready(o)
  <2>1. CASE o \in Made
    BY <2>1 DEF RealizedIsComplete
  <2>2. CASE o \notin Made
    <3>1. \E c \in Comp : Realize(c, o)
      BY <2>2, <1>2 DEF Next, vars, RunSubrule, Realize, Learn, Made, TypeOK
    <3>2. Complete(o)
      BY <3>1 DEF Realize
    <3> QED
      BY <3>2, <1>2, CompleteMeansAll
  <2> QED
    BY <2>1, <2>2
<1> QED
  BY <1>1, <1>2, <1>3, ReadyStays DEF Growing

\* In every workflow, subrules run in the order of their procedure and after
\* their object's dependencies.
THEOREM Ordered == Spec => []InProcedureOrder
<1>1. Init => InProcedureOrder
  BY DEF Init, InProcedureOrder
<1>2. TypeOK /\ InProcedureOrder /\ [Next]_vars => InProcedureOrder'
  BY OrderKept
<1> QED
  BY <1>1, <1>2, TypeCorrect, PTL DEF Spec

\* In every workflow, an object some component holds for realized has been
\* through its procedure, and all it is made from has been realized.
THEOREM Completed == Spec => []RealizedIsComplete
<1>1. Init => RealizedIsComplete
  BY DEF Init, RealizedIsComplete, Made
<1>2. TypeOK /\ InProcedureOrder /\ RealizedIsComplete /\ [Next]_vars
          => RealizedIsComplete'
  BY CompletenessKept
<1> QED
  BY <1>1, <1>2, TypeCorrect, Ordered, PTL DEF Spec

=============================================================================
