----------------------- MODULE EngineRefinement_proofs -----------------------
(***************************************************************************)
(* Module Engine implements module Workflow, and touchpoints return when   *)
(* their targets are complete, for every value of the constants in which   *)
(* objects without a procedure depend on one other object at most.         *)
(***************************************************************************)
EXTENDS Engine_proofs

-----------------------------------------------------------------------------
(***************************************************************************)
(* The state of the abstract specification, seen from the engine.          *)
(***************************************************************************)

\* An object that has no procedure depends on one other at most: handle_work
\* does not look at the dependencies of such an object's initiation.
Plain == \A o \in Obj : Proc[o] = <<>> => Len(Deps[o]) <= 1

HasRun(o, k) ==
    \E c \in Comp : \E p \in 1 .. MaxPass : RuleNode(o, k, p) \in ran[c]

Made(o) == \E c \in Comp : ObjectRealized(c, o)

Ready(o) == \A i \in DOMAIN Deps[o] : Made(Deps[o][i])

Startable(o, k) == IF k = 1 THEN Ready(o) ELSE HasRun(o, k - 1)

\* What an entry stands for.
There(o, k) ==
    /\ k = -1 => Ready(o)
    /\ k = 0 => Made(o)
    /\ k >= 1 => HasRun(o, k)

-----------------------------------------------------------------------------
(***************************************************************************)
(* The invariant: everything that makes a component run a subrule, realize *)
(* an object or tell others of it, is justified by what has happened.      *)
(***************************************************************************)

\* Subrules have run in order, objects have been realized when all had.
HistoryOK ==
    \A o \in Obj :
        /\ \A k \in Steps(o) : HasRun(o, k) => Ready(o) /\ \A j \in 1 .. k : HasRun(o, j)
        /\ Made(o) => Ready(o) /\ \A k \in Steps(o) : HasRun(o, k)

\* Entries, announcements, activations and publications are about what is
\* there.
EntriesOK ==
    \A c \in Comp : \A o \in Obj : \A k \in Steps(o) :
        <<o, k>> \in realized[c] => HasRun(o, k)

NewsOK == \A m \in workNet : There(m.obj, m.at)

CallsOK == \A c \in Comp : \A a \in act[c] : There(a.obj, a.at)

DataOK ==
    /\ \A e \in published : HasRun(e[1], e[2])
    /\ \A c \in Comp : \A n \in SubNode :
           xfer[c][n] \in {"running", "claimed"} => HasRun(n.obj, n.at - 1)

\* What a node subscribes to is all it needs, or one of its dependencies.
WaitsFor(c, n, e) ==
    /\ n.kind = "chain" => ChainStart(c, n.obj, n.at) /\ e = ChainEntry(n.obj, n.at)
    /\ n.kind = "fini" => Finisher(c, n.obj) /\ e = FiniEntry(n.obj)
    /\ n.kind = "init" => \E i \in DOMAIN Deps[n.obj] : e = <<Deps[n.obj][i], 0>>

WaitsOK ==
    \A c \in Comp : \A e \in Entry : \A i \in DOMAIN subs[c][e] :
        WaitsFor(c, subs[c][e][i].node, e)

\* A node that is queued or in hand may be worked on.
NodeOK(c, n) ==
    /\ n.kind = "chain" => ChainStart(c, n.obj, n.at) /\ Startable(n.obj, n.at)
    /\ n.kind = "rule" => Mine(c, n.obj, n.at) /\ Startable(n.obj, n.at)
    /\ n.kind = "fini" => Finisher(c, n.obj) /\ HasRun(n.obj, Len(Proc[n.obj]))
    /\ n.kind = "init" /\ n.at = 0 => Ready(n.obj)

NodesOK == \A c \in Comp : NodeOK(c, work[c]) /\ \A n \in Range(wq[c]) : NodeOK(c, n)

\* So may the link a chain has got to; and what is to be announced is there.
MainAt(c, p, n, l) ==
    /\ p \in {"handle", "blocked"} /\ n.kind = "chain" => Mine(c, n.obj, l) /\ Startable(n.obj, l)
    /\ p = "finish" => n.kind = "rule" /\ HasRun(n.obj, n.at)
    /\ p \in {"activate", "announce"} => There(n.obj, n.at)

HandOK == \A c \in Comp : MainAt(c, pc[c], work[c], link[c])

\* schedule_target's note that all dependencies so far are met is right.
MetOK(c, f) ==
    /\ f.pc = "chain" => ChainStart(c, f.obj, f.i)
    /\ f.met /\ f.pc # "claim" =>
           \A j \in DOMAIN Deps[f.obj] :
               (f.pc \in {"deps", "sub"} => j < f.i) => Made(Deps[f.obj][j])

FramesOK == \A c \in Comp : \A f \in Range(sched[c]) : MetOK(c, f)

Justified ==
    /\ HistoryOK /\ EntriesOK /\ NewsOK /\ CallsOK /\ DataOK
    /\ WaitsOK /\ NodesOK /\ HandOK /\ FramesOK

\* A component has its touchpoints' targets behind it.
TargetsRealized ==
    \A c \in Comp : \A n \in 1 .. Len(Touch[c]) :
        n < tp[c] \/ (n = tp[c] /\ pc[c] = "app") => ObjectRealized(c, Touch[c][n])

-----------------------------------------------------------------------------
(***************************************************************************)
(* The steps as the abstract specification sees them.                      *)
(***************************************************************************)

Quiet == UNCHANGED <<realized, ran>>

\* Component c carries out subrule k of o, ...
Does(c, o, k) ==
    /\ k \in Steps(o) /\ Mine(c, o, k) /\ Startable(o, k)
    /\ \E p \in 1 .. MaxPass : ran' = [ran EXCEPT ![c] = @ \cup {RuleNode(o, k, p)}]
    /\ UNCHANGED realized

\* ... realizes o, ...
Realizes(c, o) ==
    /\ Proc[o] = <<>> \/ Finisher(c, o)
    /\ IF Proc[o] = <<>> THEN Ready(o) ELSE HasRun(o, Len(Proc[o]))
    /\ realized' = [realized EXCEPT ![c] = @ \cup {<<o, 0>>}]
    /\ UNCHANGED ran

\* ... or marks an entry of what is there.
Marks(c, o, k) ==
    /\ There(o, k)
    /\ realized' = [realized EXCEPT ![c] = @ \cup {<<o, k>>}]
    /\ UNCHANGED ran

Visible ==
    \/ Quiet
    \/ \E c \in Comp, o \in Obj :
           Realizes(c, o) \/ \E k \in -1 .. Len(Proc[o]) : Does(c, o, k) \/ Marks(c, o, k)

\* What has run or been made stays.
Grows ==
    /\ \A o \in Obj : Made(o) => Made(o)'
    /\ \A o \in Obj : \A k \in Int : HasRun(o, k) => HasRun(o, k)'

\* No step unmakes an object or takes back a subrule that has run.
LEMMA VisibleGrows ==
    ASSUME IInv, Visible
    PROVE  Grows
<1> USE DEF IInv, TypeOK, DbTypeOK, DataTypeOK
<1>1. ASSUME NEW d \in Comp
      PROVE  realized[d] \subseteq realized'[d] /\ ran[d] \subseteq ran'[d]
  BY DEF Visible, Quiet, Does, Realizes, Marks
<1> QED
  BY <1>1 DEF Grows, Made, HasRun, ObjectRealized

\* The dependencies of an object are objects.
LEMMA DepsAreObjects ==
    ASSUME NEW o \in Obj, NEW i \in DOMAIN Deps[o]
    PROVE  Deps[o][i] \in Obj
<1>1. Deps[o] \in Seq(Obj)
  BY DepsAssumption
<1> QED
  BY <1>1, ElementOfSeq, LenProperties

\* So does what follows from it.
LEMMA Stays ==
    ASSUME Grows, NEW o \in Obj
    PROVE  /\ Ready(o) => Ready(o)'
           /\ \A k \in Int : Startable(o, k) => Startable(o, k)'
           /\ \A k \in Int : There(o, k) => There(o, k)'
<1>1. Ready(o) => Ready(o)'
  BY DepsAreObjects DEF Grows, Ready
<1>2. ASSUME NEW k \in Int, Startable(o, k) PROVE Startable(o, k)'
  <2>1. k - 1 \in Int
    OBVIOUS
  <2> QED
    BY <1>1, <1>2, <2>1 DEF Startable, Grows
<1>3. ASSUME NEW k \in Int, There(o, k) PROVE There(o, k)'
  BY <1>1, <1>3 DEF There, Grows
<1> QED
  BY <1>1, <1>2, <1>3

\* What lets a node be worked on goes on letting it.
LEMMA NodeStays ==
    ASSUME Grows, NEW c \in Comp, NEW n \in Node \cup {NoNode}, NodeOK(c, n)
    PROVE  NodeOK(c, n)'
<1>1. CASE n = NoNode
  BY <1>1 DEF NodeOK, NoNode
<1>2. CASE n \in Node
  <2>0. n.obj \in Obj /\ n.at \in Int
    BY <1>2, NodeFields
  <2>1. n.obj \in Obj /\ n.at \in Int /\ Len(Proc[n.obj]) \in Int
    <3>1. Proc[n.obj] \in Seq(Subrule)
      BY <2>0, ProcAssumption
    <3>2. Len(Proc[n.obj]) \in Nat
      BY <3>1, LenProperties
    <3> QED
      BY <2>0, <3>2
  <2> QED
    BY <2>1, Stays DEF NodeOK, Grows
<1> QED
  BY <1>1, <1>2

\* A dependency that schedule_target found realized stays realized.
LEMMA MetStays ==
    ASSUME Grows, NEW c \in Comp, NEW f \in Frame, MetOK(c, f)
    PROVE  MetOK(c, f)'
<1>1. f.obj \in Obj
  BY DEF Frame
<1> QED
  BY <1>1, DepsAreObjects DEF MetOK, Grows

-----------------------------------------------------------------------------
(***************************************************************************)
(* History.                                                                *)
(***************************************************************************)

\* What one visible step adds.
LEMMA DoesAdds ==
    ASSUME IInv, NEW c \in Comp, NEW o \in Obj, NEW k, Does(c, o, k)
    PROVE  /\ \A q \in Obj : Made(q)' <=> Made(q)
           /\ \A q \in Obj : \A j : HasRun(q, j)' <=> HasRun(q, j) \/ (q = o /\ j = k)
<1> USE DEF IInv, TypeOK, DataTypeOK
<1>1. PICK p \in 1 .. MaxPass : ran' = [ran EXCEPT ![c] = @ \cup {RuleNode(o, k, p)}]
  BY DEF Does
<1>2. \A q, j, r : RuleNode(q, j, r) = RuleNode(o, k, p) <=> q = o /\ j = k /\ r = p
  BY DEF RuleNode, NodeOf
<1>3. ASSUME NEW q \in Obj, NEW j, HasRun(q, j)' PROVE HasRun(q, j) \/ (q = o /\ j = k)
  <2>1. PICK d \in Comp, r \in 1 .. MaxPass : RuleNode(q, j, r) \in ran'[d]
    BY <1>3 DEF HasRun
  <2>2. RuleNode(q, j, r) \in ran[d] \/ RuleNode(q, j, r) = RuleNode(o, k, p)
    BY <1>1, <2>1
  <2> QED
    BY <1>2, <2>2 DEF HasRun
<1>4. ASSUME NEW q \in Obj, NEW j, HasRun(q, j) PROVE HasRun(q, j)'
  <2>1. PICK d \in Comp, r \in 1 .. MaxPass : RuleNode(q, j, r) \in ran[d]
    BY <1>4 DEF HasRun
  <2>2. RuleNode(q, j, r) \in ran'[d]
    BY <1>1, <2>1
  <2> QED
    BY <2>2 DEF HasRun
<1>5. HasRun(o, k)'
  <2>1. RuleNode(o, k, p) \in ran'[c]
    BY <1>1
  <2> QED
    BY <2>1 DEF HasRun
<1>6. \A q \in Obj : Made(q)' <=> Made(q)
  BY DEF Does, Made, ObjectRealized
<1> QED
  BY <1>3, <1>4, <1>5, <1>6

\* An entry put into one component's database makes at most that one object.
LEMMA EntryAdds ==
    ASSUME IInv, NEW c \in Comp, NEW o \in Obj, NEW k, UNCHANGED ran,
           realized' = [realized EXCEPT ![c] = @ \cup {<<o, k>>}]
    PROVE  /\ \A q \in Obj : Made(q)' <=> Made(q) \/ (q = o /\ k = 0)
           /\ \A q \in Obj : \A j : HasRun(q, j)' <=> HasRun(q, j)
<1>1. realized \in [Comp -> SUBSET Entry]
  BY DEF IInv, TypeOK, DbTypeOK
<1>2. \A q, j : \A d \in Comp :
          <<q, j>> \in realized'[d] <=> <<q, j>> \in realized[d] \/ (d = c /\ q = o /\ j = k)
  BY <1>1
<1> QED
  BY <1>2 DEF Made, HasRun, ObjectRealized

\* Running, realizing and marking keep the order of the history.
LEMMA HistoryKept ==
    ASSUME IInv, HistoryOK, EntriesOK, Visible
    PROVE  HistoryOK' /\ EntriesOK'
<1>1. Grows
  BY VisibleGrows
<1>2. \A q \in Obj : Steps(q) \subseteq Nat \ {0} /\ (Proc[q] # <<>> => Len(Proc[q]) \in Steps(q))
  BY ProcAssumption, EmptySeq DEF Steps
<1>3. CASE Quiet
  BY <1>3 DEF Quiet, HistoryOK, EntriesOK, HasRun, Made, Ready, ObjectRealized
<1>4. ASSUME NEW c \in Comp, NEW o \in Obj, NEW k, Does(c, o, k)
      PROVE  HistoryOK' /\ EntriesOK'
  <2>1. /\ k \in Steps(o) /\ Startable(o, k) /\ UNCHANGED realized
        /\ \A q \in Obj : Made(q)' <=> Made(q)
        /\ \A q \in Obj : \A j : HasRun(q, j)' <=> HasRun(q, j) \/ (q = o /\ j = k)
    BY <1>4, DoesAdds DEF Does
  <2>2. Ready(o) /\ \A j \in 1 .. k - 1 : HasRun(o, j)
    <3>1. CASE k = 1
      BY <2>1, <3>1 DEF Startable
    <3>2. CASE k # 1
      <4>1. k - 1 \in Steps(o) /\ HasRun(o, k - 1)
        BY <2>1, <3>2, ProcAssumption DEF Startable, Steps
      <4> QED
        BY <4>1 DEF HistoryOK
    <3> QED
      BY <3>1, <3>2
  <2>3. EntriesOK'
    BY <2>1 DEF EntriesOK
  <2>4. ASSUME NEW q \in Obj, NEW i \in Steps(q), HasRun(q, i)'
        PROVE  Ready(q)' /\ \A j \in 1 .. i : HasRun(q, j)'
    <3>1. CASE HasRun(q, i)
      BY <1>1, <2>1, <3>1, Stays DEF HistoryOK
    <3>2. CASE q = o /\ i = k
      BY <1>1, <1>2, <2>1, <2>2, <3>2, Stays
    <3> QED
      BY <2>1, <2>4, <3>1, <3>2
  <2>5. ASSUME NEW q \in Obj, Made(q)'
        PROVE  Ready(q)' /\ \A j \in Steps(q) : HasRun(q, j)'
    BY <1>1, <2>1, <2>5, Stays DEF HistoryOK
  <2> QED
    BY <2>3, <2>4, <2>5 DEF HistoryOK
<1>5. ASSUME NEW c \in Comp, NEW o \in Obj, NEW k \in -1 .. Len(Proc[o]),
             Marks(c, o, k) \/ (Realizes(c, o) /\ k = 0)
      PROVE  HistoryOK' /\ EntriesOK'
  <2>1. /\ realized' = [realized EXCEPT ![c] = @ \cup {<<o, k>>}]
        /\ UNCHANGED ran
    BY <1>5 DEF Marks, Realizes
  <2>2. /\ \A q \in Obj : Made(q)' <=> Made(q) \/ (q = o /\ k = 0)
        /\ \A q \in Obj : \A j : HasRun(q, j)' <=> HasRun(q, j)
    BY <2>1, EntryAdds
  <2>3. k = 0 => Ready(o) /\ \A j \in Steps(o) : HasRun(o, j)
    <3>1. CASE k = 0 /\ Marks(c, o, k)
      BY <3>1 DEF Marks, There, HistoryOK
    <3>2. CASE Realizes(c, o) /\ Proc[o] = <<>>
      <4>1. Steps(o) = {}
        BY <3>2, EmptySeq DEF Steps
      <4> QED
        BY <3>2, <4>1 DEF Realizes
    <3>3. CASE Realizes(c, o) /\ Proc[o] # <<>>
      BY <1>2, <3>3 DEF Realizes, HistoryOK, Steps
    <3> QED
      BY <1>5, <3>1, <3>2, <3>3
  <2>4. k \in Steps(o) => HasRun(o, k)
    BY <1>2, <1>5 DEF Marks, There
  <2>5. EntriesOK'
    <3>1. realized \in [Comp -> SUBSET Entry]
      BY DEF IInv, TypeOK, DbTypeOK
    <3>2. ASSUME NEW d \in Comp, NEW q \in Obj, NEW j \in Steps(q), <<q, j>> \in realized'[d]
          PROVE  HasRun(q, j)
      BY <2>1, <2>4, <3>1, <3>2 DEF EntriesOK
    <3> QED
      BY <2>2, <3>2 DEF EntriesOK
  <2>6. ASSUME NEW q \in Obj, NEW i \in Steps(q), HasRun(q, i)'
        PROVE  Ready(q)' /\ \A j \in 1 .. i : HasRun(q, j)'
    BY <1>1, <2>2, <2>6, Stays DEF HistoryOK
  <2>7. ASSUME NEW q \in Obj, Made(q)'
        PROVE  Ready(q)' /\ \A j \in Steps(q) : HasRun(q, j)'
    BY <1>1, <2>2, <2>3, <2>7, Stays DEF HistoryOK
  <2> QED
    BY <2>5, <2>6, <2>7 DEF HistoryOK
<1>6. \A o \in Obj : 0 \in -1 .. Len(Proc[o])
  BY ProcAssumption
<1> QED
  BY <1>3, <1>4, <1>5, <1>6 DEF Visible

-----------------------------------------------------------------------------
(***************************************************************************)
(* Every step of the engine is visible, or quiet.                          *)
(***************************************************************************)

\* The object and the number of a database entry are in range.
LEMMA EntryFields ==
    ASSUME NEW o, NEW k, <<o, k>> \in Entry
    PROVE  o \in Obj /\ k \in -1 .. Len(Proc[o]) /\ k \in Int
<1>1. PICK q \in Obj : <<o, k>> \in {q} \X (-1 .. Len(Proc[q]))
  BY DEF Entry
<1>2. Len(Proc[q]) \in Nat
  BY ProcAssumption, LenProperties
<1> QED
  BY <1>1, <1>2

\* An initiation has the number its object's procedure gives it.
LEMMA InitNodeAt ==
    ASSUME NEW n \in Node, n.kind = "init"
    PROVE  n.at = InitAt(n.obj)
BY DEF Node, InitNode, FiniNode, ChainNode, RuleNode, NodeOf

\* A receipt comes after its publication.
LEMMA SubNodeFields ==
    ASSUME NEW n \in SubNode
    PROVE  /\ n \in Node /\ n.obj \in Obj /\ n.at \in Steps(n.obj) /\ n.at > 1
           /\ n.at - 1 \in Steps(n.obj) /\ n.at - 1 >= 1 /\ n.at - 1 \in Int
<1>1. n \in Node /\ n.obj \in Obj /\ n.at \in Steps(n.obj)
  BY NodeFields DEF SubNode
<1>2. Proc[n.obj] \in Seq(Subrule) /\ Proc[n.obj][n.at].type = "sub"
  BY <1>1, ProcAssumption DEF SubNode
<1>3. n.at \in DOMAIN Proc[n.obj] /\ Len(Proc[n.obj]) \in Nat
  BY <1>1, <1>2, LenProperties DEF Steps
<1>4. n.at > 1
  BY <1>1, <1>2, <1>3, TransferAssumption
<1> QED
  BY <1>1, <1>3, <1>4 DEF Steps

\* What the main thread has in hand may be carried out.
LEMMA AtHand ==
    ASSUME IInv, NodesOK, HandOK, NEW c \in Comp, pc[c] \in {"handle", "blocked"},
           work[c].kind \in {"rule", "chain"}
    PROVE  Mine(c, work[c].obj, Current(c)) /\ Startable(work[c].obj, Current(c))
BY DEF NodesOK, NodeOK, HandOK, MainAt, Current

\* The main thread ends a subrule that may run, its own, in handle_work.
LEMMA DoneDoes ==
    ASSUME IInv, NodesOK, HandOK, NEW c \in Comp, pc[c] \in {"handle", "blocked"},
           work[c].kind \in {"rule", "chain"}, SubruleDone(c), UNCHANGED realized
    PROVE  Does(c, work[c].obj, Current(c)) /\ Visible
<1> DEFINE o == work[c].obj
           k == Current(c)
<1>1. work[c] \in Node /\ o \in Obj /\ k \in Steps(o) /\ Mine(c, o, k) /\ Startable(o, k)
  BY AtHand, SubruleInHand
<1>2. work[c].pass \in 1 .. MaxPass
  BY <1>1, NodeFields
<1>3. ran' = [ran EXCEPT ![c] = @ \cup {RuleNode(o, k, work[c].pass)}]
  BY DEF SubruleDone, CurrentRule
<1>4. Does(c, o, k)
  BY <1>1, <1>2, <1>3 DEF Does
<1>5. Len(Proc[o]) \in Nat
  BY <1>1, ProcAssumption, LenProperties
<1>6. k \in -1 .. Len(Proc[o])
  BY <1>1, <1>5 DEF Steps
<1> QED
  BY <1>1, <1>4, <1>6 DEF Visible

\* A message handler marks what its message is rightly about.
LEMMA HandlersVisible ==
    ASSUME IInv, Justified, NEW c \in Comp, Receiving(c) \/ Transferring(c)
    PROVE  Visible
<1>1. ASSUME NEW m \in workNet, RecvWork(c, m) PROVE Visible
  <2>1. <<m.obj, m.at>> \in Entry /\ There(m.obj, m.at)
    BY DEF Justified, NewsOK, IInv, NetOK
  <2>2. Marks(c, m.obj, m.at)
    BY <1>1, <2>1 DEF Marks, RecvWork
  <2> QED
    BY <2>1, <2>2, EntryFields DEF Visible
<1>2. ASSUME NEW n \in SubNode, HandleNotify(c, n) PROVE Visible
  <2>1. n.obj \in Obj /\ n.at - 1 \in Steps(n.obj) /\ n.at - 1 >= 1 /\ n.at - 1 \in Int
    BY SubNodeFields
  <2>2. HasRun(n.obj, n.at - 1)
    BY <1>2 DEF HandleNotify, Justified, DataOK
  <2>3. Marks(c, n.obj, n.at - 1)
    BY <1>2, <2>1, <2>2 DEF Marks, There, HandleNotify
  <2>4. n.at - 1 \in -1 .. Len(Proc[n.obj])
    BY <2>1 DEF Steps
  <2> QED
    BY <2>1, <2>3, <2>4 DEF Visible
<1>3. ASSUME NEW m, RecvTpoint(c, m) \/ RecvFini(c, m) \/ Notify(c, m) PROVE Visible
  BY <1>3 DEF RecvTpoint, RecvFini, Notify, dbVars, Visible, Quiet
<1> QED
  BY <1>1, <1>2, <1>3 DEF Receiving, Transferring

\* A main thread runs, realizes and marks only what is justified.
LEMMA WorkingVisible ==
    ASSUME IInv, Justified, NEW c \in Comp, Working(c)
    PROVE  Visible
<1> USE DEF Justified
<1>1. CASE RealizeObject(c)
  <2> DEFINE o == work[c].obj
  <2>1. work[c] \in Node /\ work[c].kind \in {"init", "fini"} /\ work[c].at = 0
    BY <1>1 DEF RealizeObject, IInv, MainOK
  <2>2. o \in Obj /\ NodeOK(c, work[c])
    BY <2>1, NodeFields DEF NodesOK
  <2>3. CASE work[c].kind = "init"
    <3>1. Proc[o] = <<>>
      BY <2>1, <2>3, InitNodeAt DEF InitAt
    <3> QED
      BY <1>1, <2>1, <2>2, <2>3, <3>1 DEF Realizes, RealizeObject, NodeOK, Visible
  <2>4. CASE work[c].kind = "fini"
    BY <1>1, <2>1, <2>2, <2>4 DEF Realizes, RealizeObject, NodeOK, Visible, Finisher
  <2> QED
    BY <2>1, <2>3, <2>4
<1>2. CASE FinishSubrule(c)
  <2> DEFINE o == work[c].obj
             k == work[c].at
  <2>1. work[c] \in Node /\ work[c].kind = "rule" /\ HasRun(o, k)
    BY <1>2 DEF FinishSubrule, IInv, MainOK, HandOK, MainAt
  <2>2. o \in Obj /\ k \in Steps(o) /\ <<o, k>> \in Entry
    BY <2>1, NodeFields
  <2>3. k >= 1
    BY <2>2 DEF Steps
  <2>4. Marks(c, o, k)
    BY <1>2, <2>1, <2>3 DEF Marks, There, FinishSubrule
  <2> QED
    BY <2>2, <2>4, EntryFields DEF Visible
<1>3. CASE RunSubrule(c)
  BY <1>3, DoneDoes DEF RunSubrule, AtSubrule, dbVars
<1>4. CASE CheckSubDone(c)
  <2>1. pc[c] \in {"handle", "blocked"} /\ work[c].kind \in {"rule", "chain"}
    BY <1>4 DEF CheckSubDone, AtSubrule, IInv, MainOK
  <2> QED
    BY <1>4, <2>1, DoneDoes DEF CheckSubDone, dbVars
<1>5. CASE \/ EnterIdle(c) \/ Leave(c) \/ Take(c) \/ Initiate(c) \/ CheckSubRunning(c)
           \/ CheckSubFails(c) \/ QueueLastLink(c) \/ Requeue(c) \/ Announce(c)
           \/ Tpoint(c) \/ PollTpoint(c) \/ Fini(c) \/ PollFini(c)
  BY <1>5 DEF EnterIdle, Leave, Take, Initiate, CheckSubRunning, CheckSubFails, QueueLastLink,
     Requeue, Announce, Tpoint, PollTpoint, Fini, PollFini, dbVars, Visible, Quiet
<1> QED
  BY <1>1, <1>2, <1>3, <1>4, <1>5 DEF Working

\* Every step of the engine is one the abstract specification can see as its own.
LEMMA VisibleSteps ==
    ASSUME IInv, Justified, [Next]_vars
    PROVE  Visible
<1>1. CASE UNCHANGED vars
  BY <1>1 DEF vars, dbVars, Visible, Quiet
<1>2. ASSUME NEW c \in Comp, Scheduling(c) \/ Activating(c) PROVE Visible
  BY <1>2 DEF Scheduling, FindPending, Claim, CheckDep, SubDep, CheckChain, SubChain, SubFini,
     EndSchedule, Activating, ScanHit, Push, ScanEnd, dbVars, Visible, Quiet
<1> QED
  BY <1>1, <1>2, HandlersVisible, WorkingVisible DEF Next, Over

-----------------------------------------------------------------------------
(***************************************************************************)
(* Announcements and activations.                                          *)
(***************************************************************************)

\* The main thread activates the subscribers of an entry that is there.
LEMMA Started ==
    ASSUME IInv, Justified, Grows, NEW c \in Comp, NEW o, NEW k,
           o = work[c].obj, k = work[c].at,
           (Initiate(c) /\ DepsMet(c, o)) \/ RealizeObject(c) \/ FinishSubrule(c)
    PROVE  /\ o \in Obj /\ k \in Int /\ There(o, k)' /\ UNCHANGED <<work, link, wq>>
           /\ act' = [act EXCEPT ![c] = @ \cup {NewActivation("main", c, o, k, work[c].pass)}]
           /\ pc' = [pc EXCEPT ![c] = "activate"]
<1>1. work[c] \in Node /\ o \in Obj /\ k \in Int
  <2>1. work[c] \in Node
    BY DEF Initiate, RealizeObject, FinishSubrule, IInv, MainOK
  <2> QED
    BY <2>1, NodeFields
<1>2. StartActivation(c) /\ UNCHANGED <<work, link, wq>>
  BY DEF Initiate, RealizeObject, FinishSubrule
<1>3. There(o, k)'
  <2>1. CASE Initiate(c) /\ DepsMet(c, o)
    <3>1. k = -1 /\ Ready(o)
      BY <2>1 DEF Initiate, DepsMet, Ready, Made
    <3>2. There(o, k)
      BY <3>1 DEF There
    <3> QED
      BY <1>1, <3>2, Stays
  <2>2. CASE RealizeObject(c)
    <3>1. k = 0 /\ realized' = [realized EXCEPT ![c] = @ \cup {<<o, 0>>}]
      BY <2>2 DEF RealizeObject
    <3>2. <<o, 0>> \in realized'[c]
      BY <3>1 DEF IInv, TypeOK, DbTypeOK
    <3> QED
      BY <3>1, <3>2 DEF There, Made, ObjectRealized
  <2>3. CASE FinishSubrule(c)
    <3>1. HasRun(o, k) /\ k >= 1
      <4>1. work[c].kind = "rule" /\ HasRun(o, k)
        BY <2>3 DEF FinishSubrule, Justified, HandOK, MainAt
      <4>2. k \in Steps(o)
        BY <4>1, <1>1, NodeFields
      <4> QED
        BY <4>1, <4>2 DEF Steps
    <3>2. There(o, k)
      BY <1>1, <3>1 DEF There
    <3> QED
      BY <1>1, <3>2, Stays
  <2> QED
    BY <2>1, <2>2, <2>3
<1> QED
  BY <1>1, <1>2, <1>3 DEF StartActivation

\* What is announced through the EKT has happened, whoever announces it.
LEMMA NewsKept ==
    ASSUME IInv, Justified, Grows, [Next]_vars
    PROVE  NewsOK'
<1> SUFFICES ASSUME NEW m \in workNet' PROVE There(m.obj, m.at)'
  BY DEF NewsOK
<1>1. ASSUME NEW c \in Comp, Announce(c), m \notin workNet PROVE There(m.obj, m.at)'
  <2>1. m.obj = work[c].obj /\ m.at = work[c].at
    BY <1>1 DEF Announce
  <2>2. There(m.obj, m.at)
    BY <1>1, <2>1 DEF Announce, Justified, HandOK, MainAt
  <2>3. m.obj \in Obj /\ m.at \in Int
    BY <1>1, <2>1, NodeFields DEF Announce, IInv, MainOK
  <2> QED
    BY <2>2, <2>3, Stays
<1>2. CASE m \in workNet
  <2>1. There(m.obj, m.at) /\ m.obj \in Obj /\ m.at \in Int
    BY <1>2 DEF Justified, NewsOK, IInv, TypeOK, DataTypeOK, WorkMsg
  <2> QED
    BY <2>1, Stays
<1>3. ASSUME NEW c \in Comp, Scheduling(c) \/ Activating(c) \/ Receiving(c) \/ Transferring(c)
      PROVE  m \in workNet
  BY <1>3 DEF Scheduling, FindPending, Claim, CheckDep, SubDep, CheckChain, SubChain, SubFini,
     EndSchedule, Activating, ScanHit, Push, ScanEnd, Receiving, RecvTpoint, RecvWork, RecvFini,
     Transferring, Notify, HandleNotify, netVars
<1>4. ASSUME NEW c \in Comp, Working(c), ~Announce(c) PROVE m \in workNet
  BY <1>4 DEF Working, EnterIdle, Leave, Take, Initiate, RealizeObject, RunSubrule,
     CheckSubRunning, CheckSubDone, CheckSubFails, QueueLastLink, FinishSubrule, Requeue,
     Tpoint, PollTpoint, Fini, PollFini, netVars
<1>5. CASE UNCHANGED vars
  BY <1>2, <1>5 DEF vars, netVars
<1> QED
  BY <1>1, <1>2, <1>3, <1>4, <1>5 DEF Next, Over

\* The calls of a component after a step: those there were, where they were,
\* and new ones about what is there.
CallsGrow(c) ==
    \A d \in Comp : \A a \in act'[d] :
        \/ \E b \in act[d] : a.obj = b.obj /\ a.at = b.at
        \/ a.obj \in Obj /\ a.at \in Int /\ There(a.obj, a.at)'

\* A handler calls activate_subs only for what is there.
LEMMA HandlersCall ==
    ASSUME IInv, Justified, Grows, NEW c \in Comp, Receiving(c) \/ Transferring(c)
    PROVE  CallsGrow(c)
<1> USE DEF IInv, TypeOK, ThreadTypeOK
<1>1. ASSUME NEW o \in Obj, NEW k \in Int, There(o, k), NEW by, NEW f, NEW p,
             act' = [act EXCEPT ![c] = @ \cup {NewActivation(by, f, o, k, p)}]
      PROVE  CallsGrow(c)
  <2>1. NewActivation(by, f, o, k, p).obj = o /\ NewActivation(by, f, o, k, p).at = k
    BY DEF NewActivation
  <2>2. There(o, k)'
    BY <1>1, Stays
  <2>3. ASSUME NEW d \in Comp, NEW a \in act'[d]
        PROVE  a \in act[d] \/ a = NewActivation(by, f, o, k, p)
    BY <1>1
  <2> QED
    BY <2>1, <2>2, <2>3 DEF CallsGrow
<1>2. ASSUME NEW m \in workNet, RecvWork(c, m) PROVE CallsGrow(c)
  <2>1. m.obj \in Obj /\ m.at \in Int /\ There(m.obj, m.at)
    BY DEF Justified, NewsOK, DataTypeOK, WorkMsg
  <2> QED
    BY <1>1, <1>2, <2>1 DEF RecvWork
<1>3. ASSUME NEW n \in SubNode, HandleNotify(c, n) PROVE CallsGrow(c)
  <2>1. n.obj \in Obj /\ n.at - 1 \in Int /\ There(n.obj, n.at - 1)
    BY <1>3, SubNodeFields DEF HandleNotify, Justified, DataOK, There
  <2> QED
    BY <1>1, <1>3, <2>1 DEF HandleNotify
<1>4. ASSUME NEW m, RecvTpoint(c, m) \/ RecvFini(c, m) \/ Notify(c, m) PROVE CallsGrow(c)
  BY <1>4 DEF RecvTpoint, RecvFini, Notify, CallsGrow
<1> QED
  BY <1>2, <1>3, <1>4 DEF Receiving, Transferring

\* activate_subs goes on with the entry it was called for.
LEMMA ActivatingCalls ==
    ASSUME IInv, NEW c \in Comp, Activating(c)
    PROVE  CallsGrow(c)
<1> USE DEF IInv, TypeOK, ThreadTypeOK
<1>1. PICK a \in act[c] : (\E i : ScanHit(c, a, i)) \/ Push(c, a) \/ ScanEnd(c, a)
  BY DEF Activating
<1>2. act' = [act EXCEPT ![c] = @ \ {a}]
      \/ \E b : b.obj = a.obj /\ b.at = a.at /\ act' = [act EXCEPT ![c] = (@ \ {a}) \cup {b}]
  <2>1. ASSUME NEW i
        PROVE  /\ [a EXCEPT !.pos = i, !.push = TRUE].obj = a.obj
               /\ [a EXCEPT !.pos = i, !.push = TRUE].at = a.at
               /\ [a EXCEPT !.pos = @ + 1, !.push = FALSE].obj = a.obj
               /\ [a EXCEPT !.pos = @ + 1, !.push = FALSE].at = a.at
    BY DEF Activation
  <2> QED
    BY <1>1, <2>1 DEF ScanHit, Push, ScanEnd
<1> QED
  BY <1>2 DEF CallsGrow

\* A main thread calls activate_subs only for what is there.
LEMMA WorkingCalls ==
    ASSUME IInv, Justified, Grows, NEW c \in Comp, Working(c)
    PROVE  CallsGrow(c)
<1> USE DEF IInv, TypeOK, ThreadTypeOK
<1> DEFINE o == work[c].obj
           k == work[c].at
<1>1. CASE (Initiate(c) /\ DepsMet(c, o)) \/ RealizeObject(c) \/ FinishSubrule(c)
  <2> DEFINE new == NewActivation("main", c, o, k, work[c].pass)
  <2>1. \A q, j : q = o /\ j = k => q \in Obj /\ j \in Int /\ There(q, j)'
    BY <1>1, Started
  <2>2. act' = [act EXCEPT ![c] = @ \cup {new}]
    BY <1>1, Started
  <2>3. new.obj = o /\ new.at = k
    BY DEF NewActivation
  <2> HIDE DEF new, o, k
  <2>4. ASSUME NEW d \in Comp, NEW a \in act'[d] PROVE a \in act[d] \/ a = new
    BY <2>2
  <2> QED
    BY <2>1, <2>3, <2>4 DEF CallsGrow
<1>2. CASE UNCHANGED act
  BY <1>2 DEF CallsGrow
<1> QED
  BY <1>1, <1>2 DEF Working, EnterIdle, Leave, Take, Initiate, RunSubrule, CheckSubRunning,
     CheckSubDone, CheckSubFails, QueueLastLink, Requeue, Announce, Tpoint, PollTpoint, Fini,
     PollFini

\* All calls of activate_subs stay about what is there.
LEMMA CallsKept ==
    ASSUME IInv, Justified, Grows, [Next]_vars
    PROVE  CallsOK'
<1> USE DEF IInv, TypeOK, ThreadTypeOK
<1>1. ASSUME NEW c \in Comp, CallsGrow(c) PROVE CallsOK'
  <2> SUFFICES ASSUME NEW d \in Comp, NEW a \in act'[d] PROVE There(a.obj, a.at)'
    BY DEF CallsOK
  <2>1. CASE \E b \in act[d] : a.obj = b.obj /\ a.at = b.at
    <3>1. There(a.obj, a.at) /\ a.obj \in Obj /\ a.at \in Int
      BY <2>1 DEF Justified, CallsOK, Activation
    <3> QED
      BY <3>1, Stays
  <2> QED
    BY <1>1, <2>1 DEF CallsGrow
<1>2. ASSUME NEW c \in Comp, UNCHANGED act PROVE CallsGrow(c)
  BY <1>2 DEF CallsGrow
<1>3. ASSUME NEW c \in Comp, Scheduling(c) PROVE UNCHANGED act
  BY <1>3 DEF Scheduling, FindPending, Claim, CheckDep, SubDep, CheckChain, SubChain, SubFini,
     EndSchedule
<1>4. CASE Comp = {}
  BY <1>4 DEF CallsOK
<1> QED
  BY <1>1, <1>2, <1>3, <1>4, HandlersCall, ActivatingCalls, WorkingCalls DEF Next, Over, vars

-----------------------------------------------------------------------------
(***************************************************************************)
(* Publications and subscriptions.                                         *)
(***************************************************************************)

\* What has been published, its publish subrule has run for.
LEMMA PublishedKept ==
    ASSUME IInv, Justified, Grows, [Next]_vars, NEW e \in published'
    PROVE  HasRun(e[1], e[2])'
<1>1. CASE e \in published
  <2>1. HasRun(e[1], e[2]) /\ e[1] \in Obj /\ e[2] \in Int
    BY <1>1 DEF Justified, DataOK, IInv, TypeOK, DataTypeOK
  <2> QED
    BY <2>1 DEF Grows
<1>2. ASSUME NEW c \in Comp, RunSubrule(c), e \notin published PROVE HasRun(e[1], e[2])'
  <2>1. pc[c] = "handle" /\ work[c].kind \in {"rule", "chain"} /\ SubruleDone(c)
        /\ UNCHANGED realized /\ e = <<work[c].obj, Current(c)>>
    BY <1>2 DEF RunSubrule, AtSubrule, dbVars
  <2>2. Does(c, e[1], e[2]) /\ e[1] \in Obj
    BY <2>1, DoneDoes, SubruleInHand DEF Justified
  <2> QED
    BY <2>2, DoesAdds
<1>3. ASSUME NEW c \in Comp, Scheduling(c) \/ Activating(c) \/ Receiving(c) \/ Transferring(c)
      PROVE  e \in published
  BY <1>3 DEF Scheduling, FindPending, Claim, CheckDep, SubDep, CheckChain, SubChain, SubFini,
     EndSchedule, Activating, ScanHit, Push, ScanEnd, Receiving, RecvTpoint, RecvWork, RecvFini,
     Transferring, Notify, HandleNotify, dataVars
<1>4. ASSUME NEW c \in Comp, Working(c), ~RunSubrule(c) PROVE e \in published
  BY <1>4 DEF Working, EnterIdle, Leave, Take, Initiate, RealizeObject, CheckSubRunning,
     CheckSubDone, CheckSubFails, QueueLastLink, FinishSubrule, Requeue, Announce,
     Tpoint, PollTpoint, Fini, PollFini, dataVars
<1>5. CASE UNCHANGED vars
  BY <1>1, <1>5 DEF vars, dataVars
<1> QED
  BY <1>1, <1>2, <1>3, <1>4, <1>5 DEF Next, Over

\* A transfer runs only when its data have been published.
Underway == {"running", "claimed"}

\* A receipt gets under way only when its data have been published.
LEMMA TransferKept ==
    ASSUME IInv, [Next]_vars, NEW d \in Comp, NEW n \in SubNode, xfer'[d][n] \in Underway
    PROVE  xfer[d][n] \in Underway \/ <<n.obj, n.at - 1>> \in published
<1> USE DEF IInv, TypeOK, DataTypeOK
<1>1. CASE UNCHANGED xfer
  BY <1>1
<1>2. ASSUME NEW c \in Comp, NEW o, NEW k, NEW p, Subscribe(c, o, k, p)
      PROVE  xfer[d][n] \in Underway
  BY <1>2 DEF Subscribe, Underway
<1>3. ASSUME NEW c \in Comp, Scheduling(c)
      PROVE  UNCHANGED xfer \/ \E o, k, p : Subscribe(c, o, k, p)
  BY <1>3 DEF Scheduling, FindPending, Claim, CheckDep, SubDep, CheckChain, SubChain, SubFini,
     EndSchedule, dataVars
<1>4. ASSUME NEW c \in Comp, Activating(c) PROVE xfer[d][n] \in Underway
  <2>1. UNCHANGED xfer \/ \E m : xfer' = [xfer EXCEPT ![c][m] = "done"]
    BY <1>4 DEF Activating, ScanHit, Push, ScanEnd, dataVars
  <2>2. ASSUME NEW m, xfer' = [xfer EXCEPT ![c][m] = "done"] PROVE xfer'[d][n] \in {"done", xfer[d][n]}
    BY <2>2
  <2> QED
    BY <2>1, <2>2 DEF Underway
<1>5. ASSUME NEW c \in Comp, Receiving(c) PROVE UNCHANGED xfer
  BY <1>5 DEF Receiving, RecvTpoint, RecvWork, RecvFini, dataVars
<1>6. ASSUME NEW c \in Comp, NEW m \in SubNode, Notify(c, m) \/ HandleNotify(c, m)
      PROVE  xfer[d][n] \in Underway \/ <<n.obj, n.at - 1>> \in published
  <2>1. ASSUME NEW s, xfer' = [xfer EXCEPT ![c][m] = s]
        PROVE  xfer'[d][n] = xfer[d][n] \/ (n = m /\ xfer'[d][n] = s)
    BY <2>1
  <2>2. CASE Notify(c, m)
    <3>1. xfer' = [xfer EXCEPT ![c][m] = "running"] /\ <<m.obj, m.at - 1>> \in published
      BY <2>2 DEF Notify
    <3> QED
      BY <2>1, <3>1
  <2>3. CASE HandleNotify(c, m)
    <3>1. xfer' = [xfer EXCEPT ![c][m] = "copied"]
      BY <2>3 DEF HandleNotify
    <3> QED
      BY <2>1, <3>1 DEF Underway
  <2> QED
    BY <1>6, <2>2, <2>3
<1>7. ASSUME NEW c \in Comp, CheckSubRunning(c) PROVE xfer[d][n] \in Underway
  BY <1>7 DEF CheckSubRunning, Underway
<1>8. ASSUME NEW c \in Comp, Working(c), ~CheckSubRunning(c) PROVE UNCHANGED xfer
  BY <1>8 DEF Working, EnterIdle, Leave, Take, Initiate, RealizeObject, RunSubrule,
     CheckSubDone, CheckSubFails, QueueLastLink, FinishSubrule, Requeue, Announce,
     Tpoint, PollTpoint, Fini, PollFini, dataVars
<1> QED
  BY <1>1, <1>2, <1>3, <1>4, <1>5, <1>6, <1>7, <1>8 DEF Next, Over, vars, dataVars, Transferring

\* Publications and receipts under way stay justified.
LEMMA DataKept ==
    ASSUME IInv, Justified, Grows, [Next]_vars
    PROVE  DataOK'
<1>1. ASSUME NEW c \in Comp, NEW n \in SubNode, xfer'[c][n] \in Underway
      PROVE  HasRun(n.obj, n.at - 1)'
  <2>1. n.obj \in Obj /\ n.at - 1 \in Int
    BY SubNodeFields
  <2>2. xfer[c][n] \in Underway \/ <<n.obj, n.at - 1>> \in published
    BY <1>1, TransferKept
  <2>3. HasRun(n.obj, n.at - 1)
    BY <2>2 DEF Justified, DataOK, Underway
  <2> QED
    BY <2>1, <2>3 DEF Grows
<1> QED
  BY <1>1, PublishedKept DEF DataOK, Underway

-----------------------------------------------------------------------------
(***************************************************************************)
(* Waiting nodes.                                                          *)
(***************************************************************************)

\* The frame schedule_target is executing is sound.
LEMMA TopMet ==
    ASSUME IInv, FramesOK, NEW c \in Comp, ~LockFree(c)
    PROVE  /\ Top(c) \in Frame /\ Top(c).obj \in Obj
           /\ FrameOK(pass[c], Top(c)) /\ MetOK(c, Top(c))
<1>1. /\ Len(sched[c]) \in DOMAIN sched[c] /\ Top(c) = sched[c][Len(sched[c])]
      /\ Top(c) \in Frame /\ FrameOK(pass[c], Top(c))
  BY TopFrame DEF IInv, TypeOK
<1>2. Top(c) \in Range(sched[c])
  BY <1>1 DEF Range
<1> QED
  BY <1>1, <1>2 DEF FramesOK, Frame

\* sub_target keeps the subscriptions right when the new one is.
LEMMA SubTargetWaits ==
    ASSUME IInv, WaitsOK, NEW c \in Comp, NEW e \in Entry, NEW n \in Waiter,
           WaitsFor(c, n, e), SubTarget(c, e, n)
    PROVE  WaitsOK'
<1> USE DEF IInv, TypeOK, DbTypeOK
<1> DEFINE s == subs[c][e]
           x == [node |-> n, done |-> FALSE]
<1>1. subs' = [subs EXCEPT ![c][e] = Append(s, x)] /\ x.node = n
  BY DEF SubTarget
<1>2. s \in Seq([node : Waiter, done : BOOLEAN])
  OBVIOUS
<1>3. DOMAIN s = 1 .. Len(s) /\ Len(s) \in Nat
  BY <1>2, LenProperties
<1> HIDE DEF x
<1>4. ASSUME NEW i \in DOMAIN Append(s, x)
      PROVE  (i \in DOMAIN s /\ Append(s, x)[i] = s[i]) \/ Append(s, x)[i] = x
  <2> DEFINE S == [node : Waiter, done : BOOLEAN]
  <2>1. s \in Seq(S) /\ x \in S
    BY <1>2 DEF x
  <2> HIDE DEF S, s
  <2>2. /\ Append(s, x) \in Seq(S) /\ Len(Append(s, x)) = Len(s) + 1
        /\ Append(s, x)[Len(s) + 1] = x
        /\ \A j \in 1 .. Len(s) : Append(s, x)[j] = s[j]
    BY <2>1, AppendProperties
  <2>3. DOMAIN Append(s, x) = 1 .. Len(s) + 1
    BY <2>2, LenProperties
  <2> QED
    BY <1>3, <2>2, <2>3
<1> SUFFICES ASSUME NEW d \in Comp, NEW g \in Entry, NEW i \in DOMAIN subs'[d][g]
             PROVE  WaitsFor(d, subs'[d][g][i].node, g)
  BY DEF WaitsOK, WaitsFor
<1>5. CASE d = c /\ g = e
  <2>1. subs'[d][g] = Append(s, x)
    BY <1>1, <1>5
  <2>2. (i \in DOMAIN s /\ subs'[d][g][i] = s[i]) \/ subs'[d][g][i] = x
    BY <1>4, <2>1
  <2> QED
    BY <1>1, <1>5, <2>2 DEF WaitsOK
<1>6. CASE ~(d = c /\ g = e)
  <2>1. subs'[d][g] = subs[d][g]
    BY <1>1, <1>6
  <2> QED
    BY <2>1 DEF WaitsOK
<1> QED
  BY <1>5, <1>6

\* activate_subs leaves only subscriptions that were there.
LEMMA ScanHitWaits ==
    ASSUME IInv, WaitsOK, NEW c \in Comp, NEW a \in act[c], NEW i, ScanHit(c, a, i)
    PROVE  WaitsOK'
<1> USE DEF IInv, TypeOK, DbTypeOK
<1> DEFINE e == <<a.obj, a.at>>
<1>1. e \in Entry /\ i \in DOMAIN subs[c][e]
      /\ subs' = [subs EXCEPT ![c][e][i].done = TRUE]
  BY DEF ScanHit, Due, Open, ActOK
<1>2. subs[c][e] \in Seq([node : Waiter, done : BOOLEAN])
  BY <1>1
<1>3. subs[c][e][i] \in [node : Waiter, done : BOOLEAN]
  BY <1>1, <1>2, ElementOfSeq, LenProperties
<1> HIDE DEF e
<1>4. ASSUME NEW d \in Comp, NEW g \in Entry
      PROVE  /\ DOMAIN subs'[d][g] = DOMAIN subs[d][g]
             /\ \A j \in DOMAIN subs[d][g] : subs'[d][g][j].node = subs[d][g][j].node
  BY <1>1, <1>3
<1> SUFFICES ASSUME NEW d \in Comp, NEW g \in Entry, NEW j \in DOMAIN subs'[d][g]
             PROVE  WaitsFor(d, subs'[d][g][j].node, g)
  BY DEF WaitsOK, WaitsFor
<1>5. j \in DOMAIN subs[d][g] /\ subs'[d][g][j].node = subs[d][g][j].node
  BY <1>4
<1> QED
  BY <1>5 DEF WaitsOK

\* No step subscribes a node to an entry that is not the one it needs.
LEMMA WaitsKept ==
    ASSUME IInv, Justified, [Next]_vars
    PROVE  WaitsOK'
<1>1. CASE UNCHANGED subs
  BY <1>1 DEF Justified, WaitsOK, WaitsFor
<1>2. ASSUME NEW c \in Comp, SubDep(c) PROVE WaitsOK'
  <2> DEFINE f == Top(c)
             e == <<Deps[f.obj][f.i], 0>>
             n == InitNode(f.obj, pass[c][f.obj])
  <2>1. ~LockFree(c) /\ f.pc = "sub" /\ SubTarget(c, e, n)
    BY <1>2 DEF SubDep
  <2>2. f \in Frame /\ FrameOK(pass[c], f) /\ f.obj \in Obj /\ f.i \in DOMAIN Deps[f.obj]
    BY <2>1, TopMet DEF Justified, FrameOK
  <2>3. e \in Entry
    <3>1. Deps[f.obj][f.i] \in Obj
      BY <2>2, DepsAreObjects
    <3> QED
      BY <3>1, ProcAssumption DEF Entry
  <2>4. n.kind = "init" /\ n.obj = f.obj /\ n \in Waiter
    BY <2>1, <2>2, NodesMade DEF InitNode, NodeOf, FrameOK
  <2> HIDE DEF n, f
  <2>5. WaitsFor(c, n, e)
    BY <2>2, <2>4 DEF WaitsFor
  <2> HIDE DEF e
  <2> QED
    BY <2>1, <2>3, <2>4, <2>5, SubTargetWaits DEF Justified
<1>3. ASSUME NEW c \in Comp, SubChain(c) PROVE WaitsOK'
  <2> DEFINE f == Top(c)
             e == ChainEntry(f.obj, f.i)
             n == ChainNode(f.obj, f.i, pass[c][f.obj])
  <2>1. ~LockFree(c) /\ f.pc = "chain" /\ SubTarget(c, e, n)
    BY <1>3 DEF SubChain
  <2>2. f.obj \in Obj /\ ChainStart(c, f.obj, f.i) /\ pass[c][f.obj] \in 1 .. MaxPass
    BY <2>1, TopMet DEF Justified, MetOK, FrameOK
  <2> HIDE DEF f
  <2>3. e \in Entry
    <3>1. Len(Proc[f.obj]) \in Nat /\ f.i \in Steps(f.obj)
      BY <2>2, ProcAssumption, LenProperties DEF ChainStart
    <3>2. (IF f.i = 1 THEN -1 ELSE f.i - 1) \in -1 .. Len(Proc[f.obj])
      BY <3>1 DEF Steps
    <3> QED
      BY <2>2, <3>2 DEF ChainEntry, Entry
  <2>4. n.kind = "chain" /\ n.obj = f.obj /\ n.at = f.i /\ n \in Waiter
    BY <2>2, NodesMade DEF ChainNode, NodeOf, ChainStart
  <2> HIDE DEF n
  <2>5. WaitsFor(c, n, e)
    BY <2>2, <2>4 DEF WaitsFor
  <2> HIDE DEF e
  <2> QED
    BY <2>1, <2>3, <2>4, <2>5, SubTargetWaits DEF Justified
<1>4. ASSUME NEW c \in Comp, SubFini(c) PROVE WaitsOK'
  <2> DEFINE o == Top(c).obj
             e == FiniEntry(o)
             n == FiniNode(o, pass[c][o])
  <2>1. ~LockFree(c) /\ Finisher(c, o) /\ SubTarget(c, e, n) /\ Top(c).pc = "rules"
    BY <1>4 DEF SubFini
  <2>2. o \in Obj /\ pass[c][o] \in 1 .. MaxPass
    BY <2>1, TopMet DEF Justified, FrameOK
  <2> HIDE DEF o
  <2>3. e \in Entry
    BY <2>2, ProcAssumption DEF FiniEntry, Entry
  <2>4. n.kind = "fini" /\ n.obj = o /\ n \in Waiter
    BY <2>2, NodesMade DEF FiniNode, NodeOf
  <2> HIDE DEF n
  <2>5. WaitsFor(c, n, e)
    BY <2>1, <2>4 DEF WaitsFor
  <2> HIDE DEF e
  <2> QED
    BY <2>1, <2>3, <2>4, <2>5, SubTargetWaits DEF Justified
<1>5. ASSUME NEW c \in Comp, NEW a \in act[c], (\E i : ScanHit(c, a, i)) \/ Push(c, a) \/ ScanEnd(c, a)
      PROVE  WaitsOK'
  BY <1>1, <1>5, ScanHitWaits DEF Push, ScanEnd, Justified, dbVars
<1>6. ASSUME NEW c \in Comp,
             \/ Receiving(c) \/ Transferring(c) \/ Working(c)
             \/ FindPending(c) \/ Claim(c) \/ CheckDep(c) \/ EndSchedule(c)
             \/ \E k : CheckChain(c, k)
      PROVE  UNCHANGED subs
  BY <1>6 DEF FindPending, Claim, CheckDep, CheckChain, EndSchedule, Receiving, RecvTpoint,
     RecvWork, RecvFini, Transferring, Notify, HandleNotify, Working, EnterIdle, Leave, Take,
     Initiate, RealizeObject, RunSubrule, CheckSubRunning, CheckSubDone, CheckSubFails,
     QueueLastLink, FinishSubrule, Requeue, Announce, Tpoint, PollTpoint, Fini, PollFini, dbVars
<1>7. ASSUME NEW c \in Comp, Scheduling(c) \/ Activating(c) PROVE WaitsOK'
  BY <1>1, <1>2, <1>3, <1>4, <1>5, <1>6, <1>7 DEF Scheduling, Activating
<1>8. CASE UNCHANGED vars
  BY <1>1, <1>8 DEF vars, dbVars
<1> QED
  BY <1>1, <1>6, <1>7, <1>8 DEF Next, Over

-----------------------------------------------------------------------------
(***************************************************************************)
(* Nodes in the queue and in hand.                                         *)
(***************************************************************************)

\* benesh_make_active puts its node into the queue and nothing else.
LEMMA MakeActiveRange ==
    ASSUME NEW q \in Seq(Node), NEW n \in Node
    PROVE  Range(MakeActive(q, n)) \subseteq Range(q) \cup {n}
<1>1. Len(q) \in Nat /\ DOMAIN q = 1 .. Len(q)
  BY LenProperties
<1>2. CASE n \in Range(q)
  <2> DEFINE i == CHOOSE j \in DOMAIN q : q[j] = n
             t == SubSeq(q, 1, i)
  <2>1. i \in DOMAIN q
    BY <1>2 DEF Range
  <2>2. MakeActive(q, n) = t
    BY <1>2 DEF MakeActive
  <2> HIDE DEF i
  <2>3. i \in Nat /\ 1 <= i /\ i <= Len(q) /\ \A j \in 1 .. i : q[j] \in Node
    BY <1>1, <2>1, ElementOfSeq
  <2>4. t \in Seq(Node) /\ Len(t) = i /\ \A j \in 1 .. i : t[j] = q[j]
    <3>1. /\ t \in Seq(Node)
          /\ Len(t) = IF 1 <= i THEN i - 1 + 1 ELSE 0
          /\ \A j \in 1 .. i - 1 + 1 : t[j] = q[1 + j - 1]
      BY <2>3, SubSeqProperties
    <3> HIDE DEF t
    <3> QED
      BY <2>3, <3>1
  <2> HIDE DEF t
  <2>5. DOMAIN t = 1 .. i
    BY <2>4, LenProperties
  <2> QED
    BY <1>1, <2>2, <2>3, <2>4, <2>5 DEF Range
<1>3. CASE n \notin Range(q)
  <2> DEFINE t == Append(q, n)
  <2>1. /\ t \in Seq(Node) /\ Len(t) = Len(q) + 1 /\ t[Len(q) + 1] = n
        /\ \A j \in 1 .. Len(q) : t[j] = q[j]
    BY AppendProperties
  <2>2. MakeActive(q, n) = t
    BY <1>3 DEF MakeActive
  <2> HIDE DEF t
  <2>3. DOMAIN t = 1 .. Len(q) + 1
    BY <2>1, LenProperties
  <2> QED
    BY <1>1, <2>1, <2>2, <2>3 DEF Range
<1> QED
  BY <1>2, <1>3

\* The nodes after a step: those there were, none, and new ones that may be
\* worked on.
NodesGrow ==
    \A d \in Comp : \A n \in Range(wq'[d]) \cup {work'[d]} :
        n \in Range(wq[d]) \cup {work[d], NoNode} \/ NodeOK(d, n)'

\* Nodes may be worked on if those new in the queue or in hand may.
LEMMA NodesMove ==
    ASSUME IInv, NodesOK, Grows, NodesGrow
    PROVE  NodesOK'
<1>1. ASSUME NEW d \in Comp, NEW n \in Range(wq'[d]) \cup {work'[d]}
      PROVE  NodeOK(d, n)'
  <2>1. CASE n \in Range(wq[d]) \cup {work[d], NoNode}
    <3>1. n \in Node \cup {NoNode}
      <4>1. wq[d] \in Seq(Node) /\ work[d] \in Node \cup {NoNode}
        BY DEF IInv, TypeOK, ThreadTypeOK
      <4>2. Range(wq[d]) \subseteq Node
        BY <4>1, ElementOfSeq, LenProperties DEF Range
      <4> QED
        BY <2>1, <4>1, <4>2
    <3>2. NodeOK(d, n)
      BY <2>1 DEF NodesOK, NodeOK, NoNode
    <3> QED
      BY <3>1, <3>2, NodeStays
  <2> QED
    BY <1>1, <2>1 DEF NodesGrow
<1>2. ASSUME NEW d \in Comp PROVE NodeOK(d, work[d])' /\ \A n \in Range(wq[d])' : NodeOK(d, n)'
  <2>1. PICK n : n = work'[d]
    OBVIOUS
  <2>2. NodeOK(d, n)'
    BY <1>1, <2>1
  <2>3. NodeOK(d, work[d])'
    BY <2>1, <2>2 DEF NodeOK
  <2> QED
    BY <1>1, <2>3 DEF Range
<1> QED
  BY <1>2 DEF NodesOK

\* Queueing one justified node, or the one in hand, is sound.
LEMMA QueueGrows ==
    ASSUME IInv, NEW c \in Comp, NEW n \in Node, NodeOK(c, n)' \/ n = work[c],
           wq' = [wq EXCEPT ![c] = MakeActive(@, n)],
           UNCHANGED work \/ work' = [work EXCEPT ![c] = NoNode]
    PROVE  NodesGrow
<1>1. wq \in [Comp -> Seq(Node)] /\ work \in [Comp -> Node \cup {NoNode}]
  BY DEF IInv, TypeOK, ThreadTypeOK
<1>2. Range(wq'[c]) \subseteq Range(wq[c]) \cup {n}
  BY <1>1, MakeActiveRange
<1>3. \A d \in Comp : d # c => wq'[d] = wq[d]
  BY <1>1
<1>4. \A d \in Comp : work'[d] \in {work[d], NoNode}
  BY <1>1
<1> SUFFICES ASSUME NEW d \in Comp, NEW m \in Range(wq'[d]) \cup {work'[d]}
             PROVE  m \in Range(wq[d]) \cup {work[d], NoNode} \/ NodeOK(d, m)'
  BY DEF NodesGrow
<1>5. CASE d # c
  BY <1>3, <1>4, <1>5
<1>6. CASE d = c /\ m # n
  BY <1>2, <1>4, <1>6
<1>7. CASE d = c /\ m = n
  BY <1>7
<1> QED
  BY <1>5, <1>6, <1>7

\* So is leaving the queue alone.
LEMMA WorkSame ==
    ASSUME IInv, NEW c \in Comp, UNCHANGED wq,
           UNCHANGED work \/ work' = [work EXCEPT ![c] = NoNode]
    PROVE  NodesGrow
BY DEF NodesGrow, IInv, TypeOK, ThreadTypeOK

\* schedule_subrules makes chains active that may start.
LEMMA CheckChainNodes ==
    ASSUME IInv, Justified, Grows, NEW c \in Comp, NEW k, CheckChain(c, k)
    PROVE  NodesGrow
<1> DEFINE o == Top(c).obj
<1>1. ~LockFree(c) /\ Top(c).pc = "rules" /\ ChainStart(c, o, k) /\ UNCHANGED work
  BY DEF CheckChain, mainVars
<1>2. o \in Obj /\ pass[c][o] \in 1 .. MaxPass
  BY <1>1, TopMet DEF Justified, FrameOK
<1>3. CASE <<o, k - 1>> \in realized[c]
  <2>1. wq' = [wq EXCEPT ![c] = MakeActive(@, ChainNode(o, k, pass[c][o]))]
    BY <1>3 DEF CheckChain
  <2> HIDE DEF o
  <2>2. PICK n \in Node : n = ChainNode(o, k, pass[c][o])
    BY <1>1, <1>2, NodesMade DEF Waiter, ChainStart
  <2>3. Startable(o, k)
    <3>1. CASE k = 1
      BY <1>2, <1>3, <3>1 DEF Startable, Justified, HistoryOK, Made, ObjectRealized
    <3>2. CASE k # 1
      <4>1. k - 1 \in Steps(o)
        BY <1>1, <1>2, <3>2, ProcAssumption DEF ChainStart, Steps
      <4> QED
        BY <1>2, <1>3, <3>2, <4>1 DEF Startable, Justified, EntriesOK
    <3> QED
      BY <3>1, <3>2
  <2>4. n.kind = "chain" /\ n.obj = o /\ n.at = k
    BY <2>2 DEF ChainNode, NodeOf
  <2>5. NodeOK(c, n)
    BY <1>1, <2>3, <2>4 DEF NodeOK
  <2>6. NodeOK(c, n)'
    BY <2>5, NodeStays
  <2> QED
    BY <1>1, <2>1, <2>2, <2>6, QueueGrows
<1>4. CASE <<o, k - 1>> \notin realized[c]
  BY <1>1, <1>4, WorkSame DEF CheckChain
<1> QED
  BY <1>3, <1>4

\* schedule_target queues initiations whose dependencies are met.
LEMMA EndScheduleNodes ==
    ASSUME IInv, Justified, Grows, NEW c \in Comp, EndSchedule(c)
    PROVE  NodesGrow
<1> DEFINE f == Top(c)
<1>1. ~LockFree(c) /\ f.pc \in {"rules", "end"} /\ UNCHANGED work
      /\ wq' = [wq EXCEPT ![c] = IF f.met THEN MakeActive(@, InitNode(f.obj, pass[c][f.obj])) ELSE @]
  BY DEF EndSchedule
<1>2. f.obj \in Obj /\ pass[c][f.obj] \in 1 .. MaxPass /\ MetOK(c, f)
  BY <1>1, TopMet DEF Justified, FrameOK
<1> HIDE DEF f
<1>3. CASE f.met
  <2>1. PICK n \in Node : n = InitNode(f.obj, pass[c][f.obj])
    BY <1>2, NodesMade DEF Waiter
  <2>2. n.kind = "init" /\ n.obj = f.obj
    BY <2>1 DEF InitNode, NodeOf
  <2>3. Ready(f.obj)
    BY <1>1, <1>2, <1>3 DEF MetOK, Ready
  <2>4. NodeOK(c, n)
    BY <2>2, <2>3 DEF NodeOK
  <2>5. NodeOK(c, n)'
    BY <2>4, NodeStays
  <2> QED
    BY <1>1, <1>3, <2>1, <2>5, QueueGrows
<1>4. CASE ~f.met
  <2>1. UNCHANGED wq
    BY <1>1, <1>4 DEF IInv, TypeOK, ThreadTypeOK
  <2> QED
    BY <1>1, <2>1, WorkSame
<1> QED
  BY <1>3, <1>4

\* activate_subs queues nodes whose entry is there.  For an initiation that
\* realizes its object that is enough when there is no other dependency.
LEMMA PushNodes ==
    ASSUME Plain, IInv, Justified, Grows, NEW c \in Comp, NEW a \in act[c], Push(c, a)
    PROVE  NodesGrow
<1> DEFINE e == <<a.obj, a.at>>
<1>1. a.push /\ UNCHANGED work
      /\ wq' = [wq EXCEPT ![c] = MakeActive(@, subs[c][e][a.pos].node)]
  BY DEF Push
<1>2. e \in Entry /\ a.pos \in DOMAIN subs[c][e]
  BY <1>1 DEF IInv, ActOK
<1>3. PICK n \in Node : n = subs[c][e][a.pos].node
  <2>1. subs[c][e] \in Seq([node : Waiter, done : BOOLEAN])
    BY <1>2 DEF IInv, TypeOK, DbTypeOK
  <2>2. subs[c][e][a.pos] \in [node : Waiter, done : BOOLEAN]
    BY <1>2, <2>1, ElementOfSeq, LenProperties
  <2> QED
    BY <2>2 DEF Waiter
<1>4. WaitsFor(c, n, e) /\ n.kind # "rule"
  <2>1. subs[c][e] \in Seq([node : Waiter, done : BOOLEAN])
    BY <1>2 DEF IInv, TypeOK, DbTypeOK
  <2>2. subs[c][e][a.pos] \in [node : Waiter, done : BOOLEAN]
    BY <1>2, <2>1, ElementOfSeq, LenProperties
  <2> QED
    BY <1>2, <1>3, <2>2 DEF Justified, WaitsOK, Waiter
<1>5. There(a.obj, a.at)
  BY DEF Justified, CallsOK
<1>6. n.obj \in Obj /\ (n.kind = "chain" => n.at \in Steps(n.obj))
  BY NodeFields
<1>7. NodeOK(c, n)
  <2>1. CASE n.kind = "chain"
    <3>1. ChainStart(c, n.obj, n.at) /\ a.obj = n.obj
          /\ a.at = IF n.at = 1 THEN -1 ELSE n.at - 1
      BY <1>4, <2>1 DEF WaitsFor, ChainEntry
    <3>2. n.at \in Nat /\ n.at >= 1
      BY <1>6, <2>1 DEF Steps
    <3>3. Startable(n.obj, n.at)
      BY <1>5, <3>1, <3>2 DEF There, Startable
    <3> QED
      BY <2>1, <3>1, <3>3 DEF NodeOK
  <2>2. CASE n.kind = "fini"
    <3>1. Finisher(c, n.obj) /\ a.obj = n.obj /\ a.at = Len(Proc[n.obj])
      BY <1>4, <2>2 DEF WaitsFor, FiniEntry
    <3>2. Len(Proc[n.obj]) >= 1
      BY <1>6, <3>1, ProcAssumption, EmptySeq DEF Finisher
    <3> QED
      BY <1>5, <2>2, <3>1, <3>2 DEF NodeOK, There
  <2>3. CASE n.kind = "init" /\ n.at = 0
    <3>1. PICK i \in DOMAIN Deps[n.obj] : a.obj = Deps[n.obj][i] /\ a.at = 0
      BY <1>4, <2>3 DEF WaitsFor
    <3>2. Made(Deps[n.obj][i])
      BY <1>5, <3>1 DEF There
    <3>3. Proc[n.obj] = <<>>
      BY <2>3, InitNodeAt DEF InitAt
    <3>4. \A j \in DOMAIN Deps[n.obj] : j = i
      <4>1. Deps[n.obj] \in Seq(Obj) /\ Len(Deps[n.obj]) <= 1
        BY <1>6, <3>3, DepsAssumption DEF Plain
      <4> QED
        BY <4>1, LenProperties
    <3> QED
      BY <2>3, <3>2, <3>4 DEF NodeOK, Ready
  <2> QED
    BY <1>4, <2>1, <2>2, <2>3 DEF NodeOK
<1>8. NodeOK(c, n)'
  BY <1>7, NodeStays
<1> QED
  BY <1>1, <1>3, <1>8, QueueGrows

\* A main thread queues only nodes that may be worked on.
LEMMA WorkingNodes ==
    ASSUME IInv, Justified, Grows, NEW c \in Comp, Working(c)
    PROVE  NodesGrow
<1>1. CASE QueueLastLink(c)
  <2>1. /\ pc[c] = "handle" /\ work[c].kind = "chain"
        /\ wq' = [wq EXCEPT ![c] = MakeActive(@, CurrentRule(c))]
        /\ work' = [work EXCEPT ![c] = NoNode]
    BY <1>1 DEF QueueLastLink
  <2>2. PICK n \in Node : n = CurrentRule(c)
    BY <2>1, SubruleInHand
  <2>3. Mine(c, work[c].obj, Current(c)) /\ Startable(work[c].obj, Current(c))
    BY <2>1, AtHand DEF Justified
  <2>4. n.kind = "rule" /\ n.obj = work[c].obj /\ n.at = Current(c)
    BY <2>2 DEF CurrentRule, RuleNode, NodeOf
  <2>5. NodeOK(c, n)
    BY <2>3, <2>4 DEF NodeOK
  <2>6. NodeOK(c, n)'
    BY <2>5, NodeStays
  <2> QED
    BY <2>1, <2>2, <2>6, QueueGrows
<1>2. CASE Requeue(c)
  <2>1. PICK n \in Node : n = work[c]
    BY <1>2 DEF Requeue, IInv, MainOK
  <2> QED
    BY <1>2, <2>1, QueueGrows DEF Requeue
<1>3. CASE Take(c)
  <2> DEFINE q == wq[c]
  <2>1. wq' = [wq EXCEPT ![c] = Tail(q)] /\ work' = [work EXCEPT ![c] = Head(q)] /\ q # <<>>
    BY <1>3 DEF Take
  <2>2. wq \in [Comp -> Seq(Node)] /\ work \in [Comp -> Node \cup {NoNode}] /\ q \in Seq(Node)
    BY DEF IInv, TypeOK, ThreadTypeOK
  <2> HIDE DEF q
  <2>3. Head(q) \in Range(q) /\ Range(Tail(q)) \subseteq Range(q)
    <3>1. /\ Head(q) = q[1] /\ Tail(q) \in Seq(Node) /\ Len(Tail(q)) = Len(q) - 1
          /\ \A i \in 1 .. Len(Tail(q)) : Tail(q)[i] = q[i + 1]
      BY <2>1, <2>2, HeadTailProperties
    <3>2. DOMAIN q = 1 .. Len(q) /\ DOMAIN Tail(q) = 1 .. Len(Tail(q)) /\ Len(q) \in Nat \ {0}
      BY <2>1, <2>2, <3>1, LenProperties, EmptySeq
    <3> QED
      BY <3>1, <3>2 DEF Range
  <2>4. /\ wq'[c] = Tail(q) /\ work'[c] = Head(q) /\ q = wq[c]
        /\ \A d \in Comp : d # c => wq'[d] = wq[d] /\ work'[d] = work[d]
    BY <2>1, <2>2 DEF q
  <2> QED
    BY <2>3, <2>4 DEF NodesGrow
<1>4. CASE ~QueueLastLink(c) /\ ~Requeue(c) /\ ~Take(c)
  <2>1. UNCHANGED wq /\ (UNCHANGED work \/ work' = [work EXCEPT ![c] = NoNode])
    BY <1>4 DEF Working, EnterIdle, Leave, Initiate, RealizeObject, RunSubrule, CheckSubRunning,
       CheckSubDone, CheckSubFails, FinishSubrule, Announce, Tpoint, PollTpoint, Fini, PollFini
  <2> QED
    BY <2>1, WorkSame
<1> QED
  BY <1>1, <1>2, <1>3, <1>4

\* No step queues a node that may not be worked on yet.  This is where objects
\* without a procedure must not depend on two others: the first dependency to
\* be realized queues their initiation, and handle_work realizes them.
LEMMA NodesKept ==
    ASSUME Plain, IInv, Justified, Grows, [Next]_vars
    PROVE  NodesOK'
<1> SUFFICES NodesGrow
  BY NodesMove DEF Justified
<1>1. ASSUME NEW c \in Comp, Scheduling(c) PROVE NodesGrow
  <2>1. ASSUME FindPending(c) \/ Claim(c) \/ CheckDep(c) \/ SubDep(c) \/ SubChain(c) \/ SubFini(c)
        PROVE  UNCHANGED <<wq, work>>
    BY <2>1 DEF FindPending, Claim, CheckDep, SubDep, SubChain, SubFini, mainVars
  <2> QED
    BY <1>1, <2>1, WorkSame, CheckChainNodes, EndScheduleNodes DEF Scheduling
<1>2. ASSUME NEW c \in Comp, Activating(c) PROVE NodesGrow
  <2>1. ASSUME NEW a \in act[c], NEW i, ScanHit(c, a, i) \/ ScanEnd(c, a)
        PROVE  UNCHANGED wq /\ (UNCHANGED work \/ work' = [work EXCEPT ![c] = NoNode])
    BY <2>1 DEF ScanHit, ScanEnd, mainVars
  <2> QED
    BY <1>2, <2>1, WorkSame, PushNodes DEF Activating
<1>3. ASSUME UNCHANGED wq, UNCHANGED work PROVE NodesGrow
  BY <1>3, WorkSame DEF NodesGrow
<1>4. ASSUME NEW c \in Comp, Receiving(c) \/ Transferring(c) PROVE NodesGrow
  <2>1. UNCHANGED wq /\ UNCHANGED work
    BY <1>4 DEF Receiving, RecvTpoint, RecvWork, RecvFini, Transferring, Notify, HandleNotify,
       mainVars
  <2> QED
    BY <1>3, <2>1
<1>5. CASE UNCHANGED vars
  BY <1>3, <1>5 DEF vars, mainVars
<1>6. CASE Next
  BY <1>1, <1>2, <1>4, <1>5, <1>6, WorkingNodes DEF Next, Over
<1> QED
  BY <1>5, <1>6

-----------------------------------------------------------------------------
(***************************************************************************)
(* The main thread.                                                        *)
(***************************************************************************)

Busy == {"handle", "blocked", "finish", "activate", "announce"}

\* What the main thread is about to do stays justified while others step.
LEMMA MainStays ==
    ASSUME Grows, NEW c \in Comp, NEW p, NEW n, NEW l, p \in Busy => n \in Node,
           l \in Int, MainAt(c, p, n, l)
    PROVE  MainAt(c, p, n, l)'
<1>1. CASE p \notin Busy
  BY <1>1 DEF Busy, MainAt
<1>2. CASE p \in Busy
  <2>1. n.obj \in Obj /\ n.at \in Int
    BY <1>2, NodeFields
  <2> QED
    BY <2>1, Stays DEF MainAt, Grows
<1> QED
  BY <1>1, <1>2

\* One component's main thread moves, to a place that is all right.
LEMMA MainMoves ==
    ASSUME IInv, HandOK, Grows, NEW c \in Comp, NEW p, NEW n, NEW l,
           p = pc'[c], n = work'[c], l = link'[c],
           (p = pc[c] /\ n = work[c] /\ l = link[c]) \/ MainAt(c, p, n, l)',
           \A d \in Comp : d # c => pc'[d] = pc[d] /\ work'[d] = work[d] /\ link'[d] = link[d]
    PROVE  HandOK'
<1>1. ASSUME NEW d \in Comp, pc'[d] = pc[d], work'[d] = work[d], link'[d] = link[d]
      PROVE  MainAt(d, pc[d], work[d], link[d])'
  <2>1. PICK q, m, j : q = pc[d] /\ m = work[d] /\ j = link[d]
    OBVIOUS
  <2>2. MainAt(d, q, m, j) /\ (q \in Busy => m \in Node) /\ j \in Int
    BY <2>1 DEF HandOK, IInv, MainOK, Busy, TypeOK, ThreadTypeOK
  <2>3. MainAt(d, q, m, j)'
    BY <2>2, MainStays
  <2> QED
    BY <1>1, <2>1, <2>3 DEF MainAt
<1>2. MainAt(c, p, n, l)' => MainAt(c, pc[c], work[c], link[c])'
  BY DEF MainAt
<1> QED
  BY <1>1, <1>2 DEF HandOK

\* A main thread that goes idle has nothing to justify.
LEMMA MainIdles ==
    ASSUME IInv, HandOK, Grows, NEW c \in Comp, pc'[c] \notin Busy,
           \A d \in Comp : d # c => pc'[d] = pc[d] /\ work'[d] = work[d] /\ link'[d] = link[d]
    PROVE  HandOK'
<1>1. PICK p, n, l : p = pc'[c] /\ n = work'[c] /\ l = link'[c]
  OBVIOUS
<1>2. MainAt(c, p, n, l)'
  BY <1>1 DEF MainAt, Busy
<1> QED
  BY <1>1, <1>2, MainMoves

\* Waking it from its wait leaves what it has in hand.
LEMMA MainSignalledStays ==
    ASSUME IInv, HandOK, Grows, NEW c \in Comp, UNCHANGED pc \/ Signal(c), UNCHANGED <<work, link>>
    PROVE  HandOK'
<1>1. PICK p, n, l : p = pc'[c] /\ n = work'[c] /\ l = link'[c]
  OBVIOUS
<1>2. pc \in [Comp -> MainPc]
  BY DEF IInv, TypeOK, ThreadTypeOK
<1>3. (p = pc[c] \/ p = "loop") /\ \A d \in Comp : d # c => pc'[d] = pc[d]
  BY <1>1, <1>2 DEF Signal
<1>4. CASE p = pc[c]
  BY <1>1, <1>3, <1>4, MainMoves
<1>5. CASE p = "loop"
  BY <1>1, <1>3, <1>5, MainIdles DEF Busy
<1> QED
  BY <1>3, <1>4, <1>5

\* After a subrule, the next link of the chain may run.
LEMMA SubruleDoneHand ==
    ASSUME IInv, Justified, Grows, NEW c \in Comp, pc[c] \in {"handle", "blocked"},
           work[c].kind \in {"rule", "chain"}, SubruleDone(c), UNCHANGED <<realized, work>>,
           work[c].kind = "chain" => ~ChainEnd(c, work[c].obj, link[c])
    PROVE  HandOK'
<1> USE DEF Justified
<1>1. PICK n, k, o : n = work[c] /\ k = Current(c) /\ o = work[c].obj
  OBVIOUS
<1>2. n \in Node /\ o \in Obj /\ n.obj = o /\ k \in Steps(o) /\ k \in Nat /\ Does(c, o, k)
  BY <1>1, SubruleInHand, DoneDoes
<1>3. HasRun(o, k)'
  BY <1>2, DoesAdds
<1>4. pc \in [Comp -> MainPc] /\ link \in [Comp -> Nat]
  BY DEF IInv, TypeOK, ThreadTypeOK
<1>5. CASE n.kind = "chain"
  <2>1. /\ link' = [link EXCEPT ![c] = @ + 1] /\ pc' = [pc EXCEPT ![c] = "handle"]
        /\ k = link[c]
    BY <1>1, <1>5 DEF SubruleDone, Current
  <2>2. ~ChainEnd(c, o, k)
    BY <1>1, <1>5, <2>1
  <2>3. Mine(c, o, k + 1) /\ k + 1 # 1 /\ k + 1 - 1 = k
    BY <1>2, <2>2 DEF ChainEnd, Steps
  <2>4. MainAt(c, "handle", n, k + 1)'
    BY <1>2, <1>3, <2>3 DEF MainAt, Startable
  <2>5. pc'[c] = "handle" /\ link'[c] = k + 1
        /\ \A d \in Comp : d # c => pc'[d] = pc[d] /\ link'[d] = link[d]
    BY <1>4, <2>1
  <2> QED
    BY <1>1, <2>4, <2>5, MainMoves
<1>6. CASE n.kind # "chain"
  <2>1. n.kind = "rule" /\ k = n.at /\ pc' = [pc EXCEPT ![c] = "finish"] /\ UNCHANGED link
    BY <1>1, <1>6 DEF SubruleDone, Current
  <2>2. PICK l : l = link'[c]
    OBVIOUS
  <2>3. MainAt(c, "finish", n, l)'
    BY <1>2, <1>3, <2>1 DEF MainAt
  <2>4. pc'[c] = "finish" /\ \A d \in Comp : d # c => pc'[d] = pc[d]
    BY <1>4, <2>1
  <2> QED
    BY <1>1, <2>1, <2>2, <2>3, <2>4, MainMoves
<1> QED
  BY <1>5, <1>6

\* A chain is taken from its first link on.
LEMMA TakeHand ==
    ASSUME IInv, Justified, Grows, NEW c \in Comp, Take(c)
    PROVE  HandOK'
<1> DEFINE q == wq[c]
<1>1. /\ q # <<>> /\ pc' = [pc EXCEPT ![c] = "handle"]
      /\ work' = [work EXCEPT ![c] = Head(q)]
      /\ link' = [link EXCEPT ![c] = IF Head(q).kind = "chain" THEN Head(q).at ELSE 0]
  BY DEF Take
<1>2. /\ pc \in [Comp -> MainPc] /\ link \in [Comp -> Nat]
      /\ work \in [Comp -> Node \cup {NoNode}] /\ q \in Seq(Node)
  BY DEF IInv, TypeOK, ThreadTypeOK
<1>3. Head(q) \in Node /\ NodeOK(c, Head(q))
  <2>1. Head(q) \in Range(q)
    <3>1. Head(q) = q[1] /\ 1 \in DOMAIN q
      BY <1>1, <1>2, HeadTailProperties, EmptySeq, LenProperties
    <3> QED
      BY <3>1 DEF Range
  <2> QED
    BY <1>1, <1>2, <2>1, HeadTailProperties DEF Justified, NodesOK
<1> HIDE DEF q
<1>4. PICK n \in Node : n = Head(q)
  BY <1>3
<1>5. PICK l : l = IF n.kind = "chain" THEN n.at ELSE 0
  OBVIOUS
<1>6. l \in Int
  <2>1. n.at \in Int
    BY NodeFields
  <2> QED
    BY <1>5, <2>1
<1>7. MainAt(c, "handle", n, l)
  BY <1>3, <1>4, <1>5 DEF MainAt, NodeOK, ChainStart
<1>8. MainAt(c, "handle", n, l)'
  BY <1>6, <1>7, MainStays
<1>9. /\ pc'[c] = "handle" /\ work'[c] = n /\ link'[c] = l
      /\ \A d \in Comp : d # c => pc'[d] = pc[d] /\ work'[d] = work[d] /\ link'[d] = link[d]
  BY <1>1, <1>2, <1>4, <1>5
<1> QED
  BY <1>8, <1>9, MainMoves DEF Justified

\* What the main thread announces after initiating, realizing or finishing has happened.
LEMMA StartedHand ==
    ASSUME IInv, Justified, Grows, NEW c \in Comp,
           (Initiate(c) /\ DepsMet(c, work[c].obj)) \/ RealizeObject(c) \/ FinishSubrule(c)
    PROVE  HandOK'
<1>1. PICK n, l, o, k : n = work[c] /\ l = link[c] /\ o = work[c].obj /\ k = work[c].at
  OBVIOUS
<1>2. There(o, k)' /\ UNCHANGED <<work, link>> /\ pc' = [pc EXCEPT ![c] = "activate"]
  BY <1>1, Started
<1>3. pc'[c] = "activate" /\ \A d \in Comp : d # c => pc'[d] = pc[d]
  BY <1>2 DEF IInv, TypeOK, ThreadTypeOK
<1>4. MainAt(c, "activate", n, l)'
  <2>1. n.obj = o /\ n.at = k
    BY <1>1
  <2> QED
    BY <1>2, <2>1 DEF MainAt, There
<1> QED
  BY <1>1, <1>2, <1>3, <1>4, MainMoves DEF Justified

\* A main thread's own step leaves it with justified work.
LEMMA WorkingHand ==
    ASSUME IInv, Justified, Grows, NEW c \in Comp, Working(c)
    PROVE  HandOK'
<1> USE DEF Justified
<1>1. pc \in [Comp -> MainPc] /\ work \in [Comp -> Node \cup {NoNode}] /\ link \in [Comp -> Nat]
  BY DEF IInv, TypeOK, ThreadTypeOK
<1>2. CASE RunSubrule(c)
  BY <1>2, SubruleDoneHand DEF RunSubrule, AtSubrule, dbVars
<1>3. CASE CheckSubDone(c)
  <2>1. /\ pc[c] \in {"handle", "blocked"} /\ work[c].kind \in {"rule", "chain"}
        /\ work[c].kind = "chain" => ~ChainEnd(c, work[c].obj, link[c])
    BY <1>3 DEF CheckSubDone, AtSubrule, IInv, MainOK
  <2> QED
    BY <1>3, <2>1, SubruleDoneHand DEF CheckSubDone, dbVars
<1>4. CASE CheckSubRunning(c)
  <2>1. PICK n, l : n = work[c] /\ l = link[c]
    OBVIOUS
  <2>2. /\ pc[c] = "handle" /\ pc'[c] = "blocked" /\ UNCHANGED <<work, link>>
        /\ \A d \in Comp : d # c => pc'[d] = pc[d]
    BY <1>1, <1>4 DEF CheckSubRunning, AtSubrule
  <2>3. MainAt(c, "blocked", n, l)
    BY <2>1, <2>2 DEF HandOK, MainAt
  <2>4. n \in Node /\ l \in Int
    BY <1>1, <2>1, <2>2 DEF IInv, MainOK
  <2>5. MainAt(c, "blocked", n, l)'
    BY <2>3, <2>4, MainStays
  <2> QED
    BY <2>1, <2>2, <2>5, MainMoves
<1>5. CASE RealizeObject(c) \/ FinishSubrule(c) \/ (Initiate(c) /\ DepsMet(c, work[c].obj))
  BY <1>5, StartedHand
<1>6. CASE Take(c)
  BY <1>6, TakeHand
<1>7. CASE \/ EnterIdle(c) \/ Leave(c) \/ CheckSubFails(c) \/ QueueLastLink(c)
           \/ (Initiate(c) /\ ~DepsMet(c, work[c].obj)) \/ Requeue(c) \/ Announce(c)
           \/ Tpoint(c) \/ PollTpoint(c) \/ Fini(c) \/ PollFini(c)
  <2>1. /\ \E p \in MainPc \ Busy : pc' = [pc EXCEPT ![c] = p]
        /\ UNCHANGED link /\ (UNCHANGED work \/ work' = [work EXCEPT ![c] = NoNode])
    BY <1>7 DEF EnterIdle, Leave, Initiate, CheckSubFails, QueueLastLink, Requeue, Announce,
       Tpoint, PollTpoint, Fini, PollFini, MainPc, Busy
  <2>2. pc'[c] \notin Busy
        /\ \A d \in Comp : d # c => pc'[d] = pc[d] /\ work'[d] = work[d] /\ link'[d] = link[d]
    BY <1>1, <2>1
  <2> QED
    BY <2>2, MainIdles
<1> QED
  BY <1>2, <1>3, <1>4, <1>5, <1>6, <1>7 DEF Working

\* The main thread's own activate_subs call returns to it.
LEMMA ScanEndHand ==
    ASSUME IInv, Justified, Writers, Grows, NEW c \in Comp, NEW a \in act[c], ScanEnd(c, a)
    PROVE  HandOK'
<1> USE DEF Justified
<1>1. pc \in [Comp -> MainPc] /\ work \in [Comp -> Node \cup {NoNode}]
  BY DEF IInv, TypeOK, ThreadTypeOK
<1>2. UNCHANGED link
  BY DEF ScanEnd
<1>3. CASE a.by # "main"
  BY <1>2, <1>3, MainSignalledStays DEF ScanEnd
<1>4. CASE a.by = "main" /\ ~Announces(c, work[c])
  <2>1. pc' = [pc EXCEPT ![c] = "loop"] /\ work' = [work EXCEPT ![c] = NoNode]
    BY <1>4 DEF ScanEnd
  <2>2. pc'[c] \notin Busy /\ \A d \in Comp : d # c => pc'[d] = pc[d] /\ work'[d] = work[d]
    BY <1>1, <2>1 DEF Busy
  <2> QED
    BY <1>2, <2>2, MainIdles
<1>5. CASE a.by = "main" /\ Announces(c, work[c])
  <2>1. PICK n, l : n = work[c] /\ l = link[c]
    OBVIOUS
  <2>2. pc[c] = "activate"
    BY <1>5 DEF Writers, OwnCalls
  <2>3. pc' = [pc EXCEPT ![c] = "announce"] /\ UNCHANGED work
    BY <1>5 DEF ScanEnd
  <2>4. n \in Node /\ l \in Int
    BY <2>1, <2>2 DEF IInv, MainOK, TypeOK, ThreadTypeOK
  <2>5. MainAt(c, "announce", n, l)
    BY <2>1, <2>2 DEF HandOK, MainAt
  <2>6. MainAt(c, "announce", n, l)'
    BY <2>4, <2>5, MainStays
  <2>7. pc'[c] = "announce" /\ \A d \in Comp : d # c => pc'[d] = pc[d]
    BY <1>1, <2>3
  <2> QED
    BY <1>2, <2>1, <2>3, <2>6, <2>7, MainMoves
<1> QED
  BY <1>3, <1>4, <1>5

\* So does any step.
LEMMA HandKept ==
    ASSUME IInv, Justified, Writers, Grows, [Next]_vars
    PROVE  HandOK'
<1>1. ASSUME NEW c \in Comp, Scheduling(c) \/ Receiving(c) \/ Transferring(c)
      PROVE  HandOK'
  <2>1. (UNCHANGED pc \/ Signal(c)) /\ UNCHANGED <<work, link>>
    BY <1>1 DEF Scheduling, FindPending, Claim, CheckDep, SubDep, CheckChain, SubChain, SubFini,
       EndSchedule, Return, Receiving, RecvTpoint, RecvWork, RecvFini, Transferring, Notify,
       HandleNotify, mainVars
  <2> QED
    BY <2>1, MainSignalledStays DEF Justified
<1>2. ASSUME NEW c \in Comp, Activating(c) PROVE HandOK'
  <2>1. ASSUME NEW a \in act[c], NEW i, ScanHit(c, a, i) \/ Push(c, a) PROVE HandOK'
    <3>1. (UNCHANGED pc \/ Signal(c)) /\ UNCHANGED <<work, link>>
      BY <2>1 DEF ScanHit, Push, mainVars
    <3> QED
      BY <3>1, MainSignalledStays DEF Justified
  <2> QED
    BY <1>2, <2>1, ScanEndHand DEF Activating
<1>3. CASE UNCHANGED vars
  <2>1. UNCHANGED <<pc, work, link>>
    BY <1>3 DEF vars, mainVars
  <2>2. CASE Comp = {}
    BY <2>2 DEF HandOK
  <2> QED
    BY <2>1, <2>2, MainSignalledStays DEF Justified
<1> QED
  BY <1>1, <1>2, <1>3, WorkingHand DEF Next, Over

-----------------------------------------------------------------------------
(***************************************************************************)
(* The call stack of schedule_target.                                      *)
(***************************************************************************)

\* Append adds one element to a sequence.
LEMMA AppendRange ==
    ASSUME NEW S, NEW s \in Seq(S), NEW x \in S
    PROVE  Range(Append(s, x)) \subseteq Range(s) \cup {x}
<1> DEFINE t == Append(s, x)
<1>1. /\ t \in Seq(S) /\ Len(t) = Len(s) + 1 /\ t[Len(s) + 1] = x
      /\ \A j \in 1 .. Len(s) : t[j] = s[j]
  BY AppendProperties
<1> HIDE DEF t
<1>2. DOMAIN t = 1 .. Len(s) + 1 /\ DOMAIN s = 1 .. Len(s) /\ Len(s) \in Nat
  BY <1>1, LenProperties
<1> QED
  BY <1>1, <1>2 DEF Range, t

\* Dropping the last element of a sequence adds none.
LEMMA FrontRange ==
    ASSUME NEW S, NEW s \in Seq(S), s # <<>>
    PROVE  Range(Front(s)) \subseteq Range(s) /\ Last(s) \in Range(s)
<1>1. /\ Len(s) \in Nat \ {0} /\ Front(s) \in Seq(S) /\ Len(Front(s)) = Len(s) - 1
      /\ \A j \in 1 .. Len(s) - 1 : Front(s)[j] = s[j]
  BY FrontProperties
<1>2. DOMAIN Front(s) = 1 .. Len(s) - 1 /\ DOMAIN s = 1 .. Len(s)
  BY <1>1, LenProperties
<1> QED
  BY <1>1, <1>2 DEF Range, Last

\* The frames after a step: those there were, and new ones that are right.
FramesGrow ==
    \A d \in Comp : \A f \in Range(sched'[d]) :
        f \in Range(sched[d]) \/ (f \in Frame /\ MetOK(d, f))

\* Frames are sound if the new ones are.
LEMMA FramesMove ==
    ASSUME IInv, FramesOK, Grows, FramesGrow
    PROVE  FramesOK'
<1> SUFFICES ASSUME NEW d \in Comp, NEW f \in Range(sched'[d]) PROVE MetOK(d, f)'
  BY DEF FramesOK
<1>1. f \in Frame /\ MetOK(d, f)
  <2>1. CASE f \in Range(sched[d])
    <3>1. sched[d] \in Seq(Frame)
      BY DEF IInv, TypeOK, ThreadTypeOK
    <3>2. f \in Frame
      BY <2>1, <3>1, ElementOfSeq, LenProperties DEF Range
    <3> QED
      BY <2>1, <3>2 DEF FramesOK
  <2> QED
    BY <2>1 DEF FramesGrow
<1> QED
  BY <1>1, MetStays

\* Frames of one component are sound if its new ones are.
LEMMA StackGrows ==
    ASSUME IInv, NEW c \in Comp, NEW t, sched' = [sched EXCEPT ![c] = t],
           \A f \in Range(t) : f \in Range(sched[c]) \/ (f \in Frame /\ MetOK(c, f))
    PROVE  FramesGrow
<1>1. sched'[c] = t /\ \A d \in Comp : d # c => sched'[d] = sched[d]
  BY DEF IInv, TypeOK, ThreadTypeOK
<1> QED
  BY <1>1 DEF FramesGrow

\* So they are if only the frame on top changes, into a sound one.
LEMMA TopGrows ==
    ASSUME IInv, NEW c \in Comp, ~LockFree(c), NEW f \in Frame, MetOK(c, f), SetTop(c, f)
    PROVE  FramesGrow
<1> DEFINE s == sched[c]
           t == Append(Front(s), f)
<1>1. s \in Seq(Frame) /\ s # <<>>
  BY DEF IInv, TypeOK, ThreadTypeOK, LockFree
<1>2. Range(t) \subseteq Range(s) \cup {f}
  BY <1>1, AppendRange, FrontRange, FrontProperties
<1>3. sched' = [sched EXCEPT ![c] = t]
  BY DEF SetTop
<1> HIDE DEF t
<1> QED
  BY <1>2, <1>3, StackGrows

\* A frame that schedule_target has just entered is sound.
LEMMA NewFrameMet ==
    ASSUME NEW c \in Comp, NEW o \in Obj
    PROVE  NewFrame(o) \in Frame /\ MetOK(c, NewFrame(o))
<1>1. NewFrame(o) \in Frame /\ NewFrame(o).pc = "claim"
  BY DEF NewFrame, Frame
<1> QED
  BY <1>1 DEF MetOK

\* Returning to the caller leaves its frame sound.
LEMMA ReturnGrows ==
    ASSUME IInv, FramesOK, NEW c \in Comp, ~LockFree(c), Return(c)
    PROVE  FramesGrow
<1> DEFINE s == sched[c]
<1>1. s \in Seq(Frame) /\ s # <<>> /\ Len(s) \in Nat \ {0}
  BY EmptySeq DEF IInv, TypeOK, ThreadTypeOK, LockFree
<1>2. CASE Len(s) = 1
  <2>1. sched' = [sched EXCEPT ![c] = <<>>]
    BY <1>2 DEF Return
  <2>2. Range(<<>>) = {}
    BY DEF Range
  <2> QED
    BY <2>1, <2>2, StackGrows
<1>3. CASE Len(s) # 1
  <2> DEFINE r == Front(s)
             g == Last(r)
             h == [g EXCEPT !.pc = "sub"]
             t == Append(Front(r), h)
  <2>1. sched' = [sched EXCEPT ![c] = t]
    BY <1>3 DEF Return
  <2>2. r \in Seq(Frame) /\ r # <<>> /\ Range(r) \subseteq Range(s) /\ Len(r) = Len(s) - 1
    <3>1. r \in Seq(Frame) /\ Len(r) = Len(s) - 1
      BY <1>1, FrontProperties
    <3>2. Range(r) \subseteq Range(s)
      BY <1>1, FrontRange
    <3> HIDE DEF r, s
    <3>3. r # <<>>
      BY <1>1, <1>3, <3>1, EmptySeq
    <3> QED
      BY <3>1, <3>2, <3>3
  <2>3. g = s[Len(s) - 1] /\ Len(s) - 1 \in DOMAIN s /\ Len(s) - 1 # Len(s)
    BY <1>1, <1>3, <2>2, FrontProperties, LenProperties DEF Last
  <2>4. g.pc = "deps" /\ g \in Frame
    BY <1>1, <2>3, ElementOfSeq, LenProperties DEF IInv, StackOK
  <2>5. MetOK(c, g)
    BY <2>3 DEF FramesOK, Range
  <2> HIDE DEF r, g
  <2>6. h \in Frame /\ h.obj = g.obj /\ h.i = g.i /\ h.met = g.met /\ h.pc = "sub"
    BY <2>4 DEF Frame
  <2> HIDE DEF h
  <2>7. MetOK(c, h)
    BY <2>4, <2>5, <2>6 DEF MetOK
  <2>8. Range(t) \subseteq Range(s) \cup {h}
    <3>1. Front(r) \in Seq(Frame) /\ Range(Front(r)) \subseteq Range(r)
      BY <2>2, FrontRange, FrontProperties
    <3>2. Range(t) \subseteq Range(Front(r)) \cup {h}
      BY <2>6, <3>1, AppendRange
    <3> QED
      BY <2>2, <3>1, <3>2
  <2> HIDE DEF t
  <2>9. \A f \in Range(t) : f \in Range(sched[c]) \/ (f \in Frame /\ MetOK(c, f))
    BY <2>6, <2>7, <2>8
  <2> QED
    BY <2>1, <2>9, StackGrows
<1> QED
  BY <1>2, <1>3

\* Going on to the next dependency, with all so far met or not.
LEMMA AfterDepsMet ==
    ASSUME NEW c \in Comp, NEW f \in Frame, NEW i \in Nat, NEW met \in BOOLEAN,
           met => \A j \in DOMAIN Deps[f.obj] : j <= i => Made(Deps[f.obj][j])
    PROVE  MetOK(c, AfterDeps(f, i, met))
<1>1. Deps[f.obj] \in Seq(Obj)
  BY DepsAssumption DEF Frame
<1>2. DOMAIN Deps[f.obj] = 1 .. Len(Deps[f.obj]) /\ Len(Deps[f.obj]) \in Nat
  BY <1>1, LenProperties
<1>3. CASE i < Len(Deps[f.obj])
  <2> DEFINE k == i + 1
             g == [f EXCEPT !.pc = "deps", !.i = k, !.met = met]
  <2>1. AfterDeps(f, i, met) = g
    BY <1>3 DEF AfterDeps
  <2> HIDE DEF k
  <2>2. g.obj = f.obj /\ g.pc = "deps" /\ g.i = k /\ g.met = met
    BY DEF Frame
  <2> HIDE DEF g
  <2>3. \A j \in DOMAIN Deps[f.obj] : j < k => j <= i
    BY <1>2 DEF k
  <2> QED
    BY <2>1, <2>2, <2>3 DEF MetOK
<1>4. CASE ~(i < Len(Deps[f.obj]))
  <2> DEFINE g == [f EXCEPT !.pc = "rules", !.i = 1, !.met = met]
  <2>1. AfterDeps(f, i, met) = g
    BY <1>4 DEF AfterDeps
  <2>2. g.obj = f.obj /\ g.pc = "rules" /\ g.met = met
    BY DEF Frame
  <2> HIDE DEF g
  <2>3. \A j \in DOMAIN Deps[f.obj] : j <= i
    BY <1>2, <1>4
  <2> QED
    BY <2>1, <2>2, <2>3 DEF MetOK
<1> QED
  BY <1>3, <1>4

\* The loop of schedule_target over the dependencies keeps its notes right.
LEMMA DepsFrames ==
    ASSUME IInv, FramesOK, NEW c \in Comp, Claim(c) \/ CheckDep(c) \/ SubDep(c)
    PROVE  FramesGrow
<1> DEFINE f == Top(c)
<1>1. ~LockFree(c)
  BY DEF Claim, CheckDep, SubDep
<1>2. /\ f \in Frame /\ f.obj \in Obj /\ FrameOK(pass[c], f) /\ MetOK(c, f)
      /\ f.i \in Nat /\ f.met \in BOOLEAN
  BY <1>1, TopMet DEF Frame
<1>3. Deps[f.obj] \in Seq(Obj)
  BY <1>2, DepsAssumption
<1>4. DOMAIN Deps[f.obj] = 1 .. Len(Deps[f.obj])
  BY <1>3, LenProperties
<1>5. ASSUME NEW i \in Nat, NEW met \in BOOLEAN, SetTop(c, AfterDeps(f, i, met)),
             met => \A j \in DOMAIN Deps[f.obj] : j <= i => Made(Deps[f.obj][j]),
             pass[c][f.obj] \in 1 .. MaxPass \/ i = 0
      PROVE  FramesGrow
  <2>1. MetOK(c, AfterDeps(f, i, met))
    BY <1>2, <1>5, AfterDepsMet
  <2>2. AfterDeps(f, i, met) \in Frame
    <3>1. \E p : p[f.obj] \in 1 .. MaxPass
      <4>1. [q \in {f.obj} |-> 1][f.obj] = 1 /\ 1 \in 1 .. MaxPass
        BY MaxPassAssumption
      <4> QED
        BY <4>1
    <3> QED
      BY <1>2, <1>5, <3>1, AfterDepsFrame
  <2> QED
    BY <1>1, <1>5, <2>1, <2>2, TopGrows
<1>6. CASE Claim(c)
  <2>1. SetTop(c, AfterDeps(f, 0, TRUE))
    BY <1>6 DEF Claim
  <2>2. \A j \in DOMAIN Deps[f.obj] : ~(j <= 0)
    BY <1>4
  <2> QED
    BY <1>5, <2>1, <2>2
<1>7. CASE SubDep(c)
  <2>1. SetTop(c, AfterDeps(f, f.i, FALSE)) /\ f.pc = "sub"
    BY <1>7 DEF SubDep
  <2>2. pass[c][f.obj] \in 1 .. MaxPass
    BY <1>2, <2>1 DEF FrameOK
  <2> QED
    BY <1>2, <1>5, <2>1, <2>2
<1>8. CASE CheckDep(c)
  <2> DEFINE d == Deps[f.obj][f.i]
  <2>1. f.pc = "deps" /\ f.i \in DOMAIN Deps[f.obj] /\ pass[c][f.obj] \in 1 .. MaxPass
    BY <1>2, <1>8 DEF CheckDep, FrameOK
  <2>2. d \in Obj
    BY <1>2, <2>1, DepsAreObjects
  <2>3. CASE ObjectRealized(c, d)
    <3>1. SetTop(c, AfterDeps(f, f.i, f.met))
      BY <1>8, <2>3 DEF CheckDep
    <3> HIDE DEF f
    <3>2. Made(Deps[f.obj][f.i])
      BY <2>3 DEF Made
    <3>3. ASSUME f.met, NEW j \in DOMAIN Deps[f.obj], j <= f.i PROVE Made(Deps[f.obj][j])
      <4>1. CASE j = f.i
        BY <3>2, <4>1
      <4>2. CASE j # f.i
        <5>1. j < f.i
          BY <1>2, <1>4, <3>3, <4>2
        <5> QED
          BY <1>2, <2>1, <3>3, <5>1 DEF MetOK
      <4> QED
        BY <4>1, <4>2
    <3> QED
      BY <1>2, <1>5, <2>1, <3>1, <3>3
  <2>4. CASE ~ObjectRealized(c, d)
    <3>1. sched' = [sched EXCEPT ![c] = Append(sched[c], NewFrame(d))]
      BY <1>8, <2>4 DEF CheckDep
    <3>2. sched[c] \in Seq(Frame)
      BY DEF IInv, TypeOK, ThreadTypeOK
    <3> HIDE DEF d
    <3>3. NewFrame(d) \in Frame /\ MetOK(c, NewFrame(d))
      BY <2>2, NewFrameMet
    <3>4. Range(Append(sched[c], NewFrame(d))) \subseteq Range(sched[c]) \cup {NewFrame(d)}
      BY <3>2, <3>3, AppendRange
    <3> QED
      BY <3>1, <3>3, <3>4, StackGrows
  <2> QED
    BY <2>3, <2>4
<1> QED
  BY <1>6, <1>7, <1>8

\* So does schedule_subrules, which goes from chain to chain.
LEMMA RulesFrames ==
    ASSUME IInv, FramesOK, NEW c \in Comp,
           (\E k : CheckChain(c, k)) \/ SubChain(c) \/ SubFini(c)
    PROVE  FramesGrow
<1> DEFINE f == Top(c)
<1>1. ~LockFree(c) /\ f.pc \in {"rules", "chain"}
  BY DEF CheckChain, SubChain, SubFini
<1>2. f \in Frame /\ f.obj \in Obj /\ FrameOK(pass[c], f) /\ MetOK(c, f)
  BY <1>1, TopMet
<1>3. ASSUME NEW g \in Frame, SetTop(c, g), g.obj = f.obj, g.met = f.met,
             g.pc \in {"rules", "end"} \/ (g.pc = "chain" /\ ChainStart(c, g.obj, g.i))
      PROVE  FramesGrow
  <2> HIDE DEF f
  <2>1. MetOK(c, g)
    BY <1>1, <1>2, <1>3 DEF MetOK
  <2> QED
    BY <1>1, <1>3, <2>1, TopGrows
<1>4. ASSUME NEW k, CheckChain(c, k) PROVE FramesGrow
  <2>1. ChainStart(c, f.obj, k) /\ f.pc = "rules"
    BY <1>4 DEF CheckChain
  <2> DEFINE j == k + 1
             g1 == [f EXCEPT !.i = j]
             g2 == [f EXCEPT !.pc = "chain", !.i = k]
  <2>2. SetTop(c, g1) \/ SetTop(c, g2)
    BY <1>4 DEF CheckChain
  <2>3. j \in Nat /\ k \in Nat
    <3>1. Len(Proc[f.obj]) \in Nat
      BY <1>2, ProcAssumption, LenProperties
    <3> QED
      BY <2>1, <3>1 DEF ChainStart, Steps
  <2> HIDE DEF f, j
  <2>4. /\ g1 \in Frame /\ g1.obj = f.obj /\ g1.met = f.met /\ g1.pc = "rules"
        /\ g2 \in Frame /\ g2.obj = f.obj /\ g2.met = f.met /\ g2.pc = "chain" /\ g2.i = k
    BY <1>2, <2>1, <2>3 DEF Frame
  <2> HIDE DEF g1, g2
  <2> QED
    BY <1>3, <2>1, <2>2, <2>4
<1>5. CASE SubChain(c)
  <2> DEFINE j == f.i + 1
             g == [f EXCEPT !.pc = "rules", !.i = j]
  <2>1. SetTop(c, g)
    BY <1>5 DEF SubChain
  <2>2. j \in Nat
    BY <1>2 DEF Frame
  <2> HIDE DEF f, j
  <2>3. g \in Frame /\ g.obj = f.obj /\ g.met = f.met /\ g.pc = "rules"
    BY <1>2, <2>2 DEF Frame
  <2> HIDE DEF g
  <2> QED
    BY <1>3, <2>1, <2>3
<1>6. CASE SubFini(c)
  <2> DEFINE g == [f EXCEPT !.pc = "end"]
  <2>1. SetTop(c, g)
    BY <1>6 DEF SubFini
  <2> HIDE DEF f
  <2>3. g \in Frame /\ g.obj = f.obj /\ g.met = f.met /\ g.pc = "end"
    BY <1>2 DEF Frame
  <2> HIDE DEF g
  <2> QED
    BY <1>3, <2>1, <2>3
<1> QED
  BY <1>4, <1>5, <1>6

\* No step makes a frame of schedule_target unsound.
LEMMA FramesKept ==
    ASSUME IInv, Justified, Grows, [Next]_vars
    PROVE  FramesOK'
<1> SUFFICES FramesGrow
  BY FramesMove DEF Justified
<1>1. ASSUME NEW c \in Comp, FindPending(c) \/ EndSchedule(c) PROVE FramesGrow
  BY <1>1, ReturnGrows DEF FindPending, EndSchedule, Justified
<1>2. ASSUME NEW c \in Comp, Scheduling(c) PROVE FramesGrow
  BY <1>1, <1>2, DepsFrames, RulesFrames DEF Scheduling, Justified
<1>3. ASSUME UNCHANGED sched PROVE FramesGrow
  BY <1>3 DEF FramesGrow
<1>4. ASSUME NEW c \in Comp, NEW m \in tpNet, RecvTpoint(c, m) PROVE FramesGrow
  <2> DEFINE o == Touch[m.from][m.n]
  <2>1. o \in Obj
    <3>1. m.from \in Comp /\ m.n \in DOMAIN Touch[m.from]
      BY DEF IInv, TypeOK, NetOK, DataTypeOK, TpMsg
    <3>2. Touch[m.from] \in Seq(Obj)
      BY <3>1, TouchAssumption
    <3> QED
      BY <3>1, <3>2, ElementOfSeq, LenProperties
  <2>2. UNCHANGED sched \/ sched' = [sched EXCEPT ![c] = <<NewFrame(o)>>]
    BY <1>4 DEF RecvTpoint
  <2> HIDE DEF o
  <2>3. Range(<<NewFrame(o)>>) = {NewFrame(o)}
    BY DEF Range
  <2> QED
    BY <1>3, <2>1, <2>2, <2>3, NewFrameMet, StackGrows
<1>5. ASSUME NEW c \in Comp, Activating(c) \/ Transferring(c) PROVE UNCHANGED sched
  BY <1>5 DEF Activating, ScanHit, Push, ScanEnd, Transferring, Notify, HandleNotify
<1>6. ASSUME NEW c \in Comp, Receiving(c) PROVE FramesGrow
  BY <1>3, <1>4, <1>6 DEF Receiving, RecvWork, RecvFini
<1>7. ASSUME NEW c \in Comp, Working(c) PROVE UNCHANGED sched
  BY <1>7 DEF Working, EnterIdle, Leave, Take, Initiate, RealizeObject, RunSubrule,
     CheckSubRunning, CheckSubDone, CheckSubFails, QueueLastLink, FinishSubrule, Requeue,
     Announce, Tpoint, PollTpoint, Fini, PollFini
<1>8. CASE UNCHANGED vars
  BY <1>3, <1>8 DEF vars
<1>9. CASE Next
  BY <1>2, <1>3, <1>5, <1>6, <1>7, <1>8, <1>9 DEF Next, Over
<1> QED
  BY <1>8, <1>9

-----------------------------------------------------------------------------
(***************************************************************************)
(* The invariant, and what follows from it.                                *)
(***************************************************************************)

\* At the start nothing has happened and nothing is under way.
LEMMA JustifiedInit == Init => Justified
<1> SUFFICES ASSUME Init PROVE Justified
  OBVIOUS
<1>1. \A o \in Obj : ~Made(o) /\ \A k : ~HasRun(o, k)
  BY DEF Init, Made, HasRun, ObjectRealized
<1>2. HistoryOK /\ EntriesOK /\ NewsOK /\ CallsOK
  BY <1>1 DEF Init, HistoryOK, EntriesOK, NewsOK, CallsOK
<1>3. DataOK /\ WaitsOK
  BY DEF Init, DataOK, WaitsOK
<1>4. Range(<<>>) = {}
  BY DEF Range
<1>5. NodesOK /\ HandOK /\ FramesOK
  BY <1>4 DEF Init, NodesOK, NodeOK, NoNode, HandOK, MainAt, FramesOK
<1> QED
  BY <1>2, <1>3, <1>5 DEF Justified

\* Every step keeps the invariant.
LEMMA JustifiedKept ==
    ASSUME Plain, IInv, Justified, Writers, [Next]_vars
    PROVE  Justified'
<1>1. Visible /\ Grows
  BY VisibleSteps, VisibleGrows
<1>2. HistoryOK' /\ EntriesOK'
  BY <1>1, HistoryKept DEF Justified
<1>3. NewsOK' /\ CallsOK' /\ DataOK' /\ WaitsOK' /\ NodesOK' /\ HandOK' /\ FramesOK'
  BY <1>1, NewsKept, CallsKept, DataKept, WaitsKept, NodesKept, HandKept, FramesKept
<1> QED
  BY <1>2, <1>3 DEF Justified

\* The abstract state in terms of the engine's.
LEMMA Abstraction ==
    /\ \A o \in Obj : \A k : k \in Ran[o] <=> k \in Steps(o) /\ HasRun(o, k)
    /\ \A o \in Obj : o \in W!Made <=> Made(o)
    /\ \A o \in Obj : W!Ready(o) <=> Ready(o)
<1>1. \A o \in Obj : \A k : k \in Ran[o] <=> k \in Steps(o) /\ HasRun(o, k)
  BY DEF Ran, HasRun
<1>2. \A o \in Obj : o \in W!Made <=> Made(o)
  <2>1. \A c \in Comp : \A o \in Obj : o \in Known[c] <=> ObjectRealized(c, o)
    BY DEF Known
  <2> QED
    BY <2>1 DEF W!Made, Made
<1>3. \A o \in Obj : W!Ready(o) <=> Ready(o)
  BY <1>2, DepsAreObjects DEF W!Ready, Ready
<1> QED
  BY <1>1, <1>2, <1>3

\* A subrule that a main thread carries out is a RunSubrule of module Workflow.
LEMMA DoesMaps ==
    ASSUME IInv, NEW c \in Comp, NEW o \in Obj, NEW k, Does(c, o, k)
    PROVE  W!Next
<1>1. k \in Steps(o) /\ Mine(c, o, k) /\ Startable(o, k) /\ UNCHANGED realized
  BY DEF Does
<1>2. W!Startable(o, k)
  <2>1. CASE k = 1
    BY <1>1, <2>1, Abstraction DEF Startable, W!Startable
  <2>2. CASE k # 1
    <3>1. k - 1 \in Steps(o)
      BY <1>1, <2>2, ProcAssumption DEF Steps
    <3> QED
      BY <1>1, <2>2, <3>1, Abstraction DEF Startable, W!Startable
  <2> QED
    BY <2>1, <2>2
<1>3. Ran' = [Ran EXCEPT ![o] = @ \cup {k}]
  <2>1. \A q \in Obj : \A j : HasRun(q, j)' <=> HasRun(q, j) \/ (q = o /\ j = k)
    BY DoesAdds
  <2>2. Ran = [q \in Obj |-> {j \in Steps(q) : HasRun(q, j)}]
    BY DEF Ran, HasRun
  <2>3. Ran' = [q \in Obj |-> {j \in Steps(q) : HasRun(q, j)'}]
    BY DEF Ran, HasRun
  <2>4. ASSUME NEW q \in Obj
        PROVE  Ran'[q] = IF q = o THEN Ran[q] \cup {k} ELSE Ran[q]
    BY <1>1, <2>1, <2>2, <2>3
  <2> QED
    BY <2>2, <2>3, <2>4
<1>4. UNCHANGED Known
  BY <1>1 DEF Known, ObjectRealized
<1>5. W!RunSubrule(c, o, k)
  BY <1>1, <1>2, <1>3, <1>4 DEF W!RunSubrule, W!Mine, Mine
<1> QED
  BY <1>1, <1>5 DEF W!Next, W!Steps, Steps

\* The entry of an object adds it to what its component knows, and only that.
LEMMA EntryMaps ==
    ASSUME IInv, NEW c \in Comp, NEW o \in Obj, UNCHANGED ran,
           realized' = [realized EXCEPT ![c] = @ \cup {<<o, 0>>}]
    PROVE  UNCHANGED Ran /\ Known' = [Known EXCEPT ![c] = @ \cup {o}]
<1>1. realized \in [Comp -> SUBSET Entry]
  BY DEF IInv, TypeOK, DbTypeOK
<1>2. \A d \in Comp : \A q \in Obj :
          <<q, 0>> \in realized'[d] <=> <<q, 0>> \in realized[d] \/ (d = c /\ q = o)
  BY <1>1
<1>3. Known = [d \in Comp |-> {q \in Obj : <<q, 0>> \in realized[d]}]
  BY DEF Known, ObjectRealized
<1>4. Known' = [d \in Comp |-> {q \in Obj : <<q, 0>> \in realized'[d]}]
  BY DEF Known, ObjectRealized
<1>5. ASSUME NEW d \in Comp
      PROVE  Known'[d] = IF d = c THEN Known[d] \cup {o} ELSE Known[d]
  BY <1>2, <1>3, <1>4
<1>6. UNCHANGED Ran
  BY DEF Ran
<1> QED
  BY <1>3, <1>4, <1>5, <1>6

\* realize_object is a Realize of module Workflow.
LEMMA RealizesMaps ==
    ASSUME IInv, NEW c \in Comp, NEW o \in Obj, Realizes(c, o)
    PROVE  W!Next
<1>1. UNCHANGED Ran /\ Known' = [Known EXCEPT ![c] = @ \cup {o}]
  <2>1. UNCHANGED ran /\ realized' = [realized EXCEPT ![c] = @ \cup {<<o, 0>>}]
    BY DEF Realizes
  <2> QED
    BY <2>1, EntryMaps
<1>2. W!Complete(o)
  <2>1. CASE Proc[o] = <<>>
    BY <2>1, Abstraction DEF Realizes, W!Complete
  <2>2. CASE Proc[o] # <<>>
    <3>1. Len(Proc[o]) \in Steps(o)
      BY <2>2, ProcAssumption, EmptySeq DEF Steps
    <3> QED
      BY <2>2, <3>1, Abstraction DEF Realizes, W!Complete
  <2> QED
    BY <2>1, <2>2
<1> QED
  BY <1>1, <1>2 DEF Realizes, W!Next, W!Realize, W!Finisher, Finisher, W!Mine, Mine

\* Marking an entry is a Learn of module Workflow, or nothing it can see.
LEMMA MarksMaps ==
    ASSUME IInv, NEW c \in Comp, NEW o \in Obj, NEW k \in Int, Marks(c, o, k)
    PROVE  [W!Next]_W!vars
<1>1. UNCHANGED ran /\ realized' = [realized EXCEPT ![c] = @ \cup {<<o, k>>}]
  BY DEF Marks
<1>2. CASE k = 0
  <2>1. UNCHANGED Ran /\ Known' = [Known EXCEPT ![c] = @ \cup {o}]
    BY <1>1, <1>2, EntryMaps
  <2>2. o \in W!Made
    BY <1>2, Abstraction DEF Marks, There
  <2> QED
    BY <2>1, <2>2 DEF W!Next, W!Learn
<1>3. CASE k # 0
  <2>1. realized \in [Comp -> SUBSET Entry]
    BY DEF IInv, TypeOK, DbTypeOK
  <2>2. \A d \in Comp : \A q \in Obj : <<q, 0>> \in realized'[d] <=> <<q, 0>> \in realized[d]
    BY <1>1, <1>3, <2>1
  <2>3. UNCHANGED Known
    BY <2>2 DEF Known, ObjectRealized
  <2>4. UNCHANGED Ran
    BY <1>1 DEF Ran
  <2> QED
    BY <2>3, <2>4 DEF W!vars
<1> QED
  BY <1>2, <1>3

\* Every step is one of module Workflow, or stutters there.
LEMMA Maps ==
    ASSUME IInv, Visible
    PROVE  [W!Next]_W!vars
<1>1. CASE Quiet
  BY <1>1 DEF Quiet, W!vars, Ran, Known, ObjectRealized
<1> QED
  BY <1>1, DoesMaps, RealizesMaps, MarksMaps DEF Visible

\* The engine implements the promise of module Workflow: for all components,
\* objects, procedures and touchpoints, whatever the interleaving of handlers,
\* main threads and announcements, schedule_target's subscriptions make
\* subrules run in the order of their procedure and after all dependencies,
\* and an object realized only after its whole procedure, as long as
\* no object without a procedure depends on two others.
THEOREM EngineImplements ==
    ASSUME Plain
    PROVE  Spec => Implements
<1>1. Init => W!Init
  BY DEF Init, W!Init, Ran, Known, ObjectRealized
<1>2. ASSUME IInv, Writers, Justified, [Next]_vars
      PROVE  Justified' /\ [W!Next]_W!vars
  BY <1>2, JustifiedKept, VisibleSteps, Maps
<1> QED
  BY <1>1, <1>2, JustifiedInit, WritersInit, WritersKept, InitIInv, NextIInv, PTL
  DEF Spec, Implements, W!Spec

-----------------------------------------------------------------------------
(***************************************************************************)
(* Touchpoints.                                                            *)
(***************************************************************************)

\* The main thread is back in the application only out of tpoint_finished.
LEMMA BackInApplication ==
    ASSUME IInv, [Next]_vars, NEW c \in Comp, pc'[c] = "app"
    PROVE  (pc[c] = "app" /\ tp'[c] = tp[c]) \/ PollTpoint(c)
<1> USE DEF IInv, TypeOK, ThreadTypeOK
<1>1. CASE UNCHANGED <<pc, tp>>
  BY <1>1
<1>2. ASSUME NEW d \in Comp, UNCHANGED pc \/ Signal(d), UNCHANGED tp
      PROVE  pc[c] = "app" /\ tp'[c] = tp[c]
  BY <1>2 DEF Signal
<1>3. ASSUME NEW d \in Comp, Scheduling(d) \/ Receiving(d) \/ Transferring(d)
      PROVE  (UNCHANGED pc \/ Signal(d)) /\ UNCHANGED tp
  BY <1>3 DEF Scheduling, FindPending, Claim, CheckDep, SubDep, CheckChain, SubChain, SubFini,
     EndSchedule, Return, Receiving, RecvTpoint, RecvWork, RecvFini, Transferring, Notify,
     HandleNotify, mainVars
<1>4. ASSUME NEW d \in Comp, Activating(d)
      PROVE  /\ \/ UNCHANGED pc \/ Signal(d)
                \/ pc' = [pc EXCEPT ![d] = "announce"] \/ pc' = [pc EXCEPT ![d] = "loop"]
             /\ UNCHANGED tp
  BY <1>4 DEF Activating, ScanHit, Push, ScanEnd, mainVars
<1>5. ASSUME NEW d \in Comp, Activating(d)
      PROVE  pc[c] = "app" /\ tp'[c] = tp[c]
  BY <1>2, <1>4, <1>5
<1>6. ASSUME NEW d \in Comp, Working(d), ~PollTpoint(d)
      PROVE  /\ UNCHANGED pc \/ \E p : p # "app" /\ pc' = [pc EXCEPT ![d] = p]
             /\ tp' = tp \/ (pc'[d] # "app" /\ tp' = [tp EXCEPT ![d] = @ + 1])
  BY <1>6 DEF Working, EnterIdle, Leave, Take, Initiate, RealizeObject, RunSubrule, SubruleDone,
     StartActivation, CheckSubRunning, CheckSubDone, CheckSubFails, QueueLastLink, FinishSubrule,
     Requeue, Announce, Tpoint, Fini, PollFini, mainVars
<1>7. ASSUME NEW d \in Comp, Working(d)
      PROVE  (pc[c] = "app" /\ tp'[c] = tp[c]) \/ PollTpoint(c)
  <2>1. CASE ~PollTpoint(d)
    BY <1>6, <1>7, <2>1
  <2>2. CASE PollTpoint(d)
    BY <2>2 DEF PollTpoint
  <2> QED
    BY <2>1, <2>2
<1>8. CASE UNCHANGED vars
  BY <1>1, <1>8 DEF vars, mainVars
<1> QED
  BY <1>2, <1>3, <1>5, <1>7, <1>8 DEF Next, Over

\* A component leaves the application with its current touchpoint behind it.
LEMMA LeavingApplication ==
    ASSUME IInv, [Next]_vars, NEW c \in Comp
    PROVE  tp'[c] = tp[c] \/ (pc[c] = "app" /\ tp'[c] = tp[c] + 1 /\ pc'[c] = "poll")
<1> USE DEF IInv, TypeOK, ThreadTypeOK
<1>1. ASSUME NEW d \in Comp, Tpoint(d) \/ Fini(d)
      PROVE  tp'[c] = tp[c] \/ (pc[c] = "app" /\ tp'[c] = tp[c] + 1 /\ pc'[c] = "poll")
  BY <1>1 DEF Tpoint, Fini
<1>2. ASSUME NEW d \in Comp, Working(d), ~Tpoint(d), ~Fini(d) PROVE UNCHANGED tp
  BY <1>2 DEF Working, EnterIdle, Leave, Take, Initiate, RealizeObject, RunSubrule,
     CheckSubRunning, CheckSubDone, CheckSubFails, QueueLastLink, FinishSubrule,
     Requeue, Announce, PollTpoint, PollFini, mainVars
<1>3. ASSUME NEW d \in Comp, Scheduling(d) \/ Activating(d) \/ Receiving(d) \/ Transferring(d)
      PROVE  UNCHANGED tp
  BY <1>3 DEF Scheduling, FindPending, Claim, CheckDep, SubDep, CheckChain, SubChain, SubFini,
     EndSchedule, Activating, ScanHit, Push, ScanEnd, Receiving, RecvTpoint, RecvWork, RecvFini,
     Transferring, Notify, HandleNotify, mainVars
<1> QED
  BY <1>1, <1>2, <1>3 DEF Next, Over, vars, mainVars

\* A component returns from a touchpoint only when its target is realized.
LEMMA TargetsKept ==
    ASSUME IInv, Justified, TargetsRealized, [Next]_vars
    PROVE  TargetsRealized'
<1> SUFFICES ASSUME NEW c \in Comp, NEW n \in 1 .. Len(Touch[c]),
                    n < tp'[c] \/ (n = tp'[c] /\ pc'[c] = "app")
             PROVE  ObjectRealized(c, Touch[c][n])'
  BY DEF TargetsRealized
<1>1. tp[c] \in Nat /\ tp'[c] \in Nat /\ Len(Touch[c]) \in Nat /\ n \in Nat
  <2>1. IInv'
    BY NextIInv
  <2>2. Len(Touch[c]) \in Nat
    BY TouchAssumption, LenProperties
  <2> QED
    BY <2>1, <2>2 DEF IInv, TypeOK, ThreadTypeOK
<1>2. ObjectRealized(c, Touch[c][n])
  <2>1. CASE n < tp[c] \/ (n = tp[c] /\ pc[c] = "app")
    BY <2>1 DEF TargetsRealized
  <2>2. CASE n = tp[c] /\ PollTpoint(c) /\ pc'[c] = "app"
    BY <2>2 DEF PollTpoint, IInv, TypeOK, ThreadTypeOK
  <2>3. tp'[c] = tp[c] \/ (pc[c] = "app" /\ tp'[c] = tp[c] + 1)
    BY LeavingApplication
  <2>4. pc'[c] = "app" => (pc[c] = "app" /\ tp'[c] = tp[c]) \/ (PollTpoint(c) /\ tp'[c] = tp[c])
    BY BackInApplication DEF PollTpoint
  <2> QED
    BY <1>1, <2>1, <2>2, <2>3, <2>4
<1>3. realized[c] \subseteq realized'[c]
  <2>1. Visible
    BY VisibleSteps
  <2> QED
    BY <2>1 DEF Visible, Quiet, Does, Realizes, Marks, IInv, TypeOK, DbTypeOK
<1> QED
  BY <1>2, <1>3 DEF ObjectRealized

\* benesh_tpoint keeps its promise to the application, for every workflow in
\* which no object without a procedure depends on two others: when it
\* has returned, some component has run each subrule of the target and of
\* the objects the target depends on.
THEOREM TouchpointsComplete ==
    ASSUME Plain
    PROVE  Spec => []TpointReturnsComplete
<1>1. Init => TargetsRealized
  <2> SUFFICES ASSUME Init, NEW c \in Comp, NEW n \in 1 .. Len(Touch[c])
               PROVE  ~(n < tp[c] \/ n = tp[c])
    BY DEF TargetsRealized
  <2>1. tp[c] = 0 /\ Len(Touch[c]) \in Nat
    BY TouchAssumption, LenProperties DEF Init
  <2> QED
    BY <2>1
<1>2. ASSUME HistoryOK, TargetsRealized PROVE TpointReturnsComplete
  <2>1. ASSUME NEW o \in Obj, Made(o) PROVE Steps(o) \subseteq Ran[o] /\ Ready(o)
    BY <1>2, <2>1, Abstraction DEF HistoryOK
  <2> SUFFICES ASSUME NEW c \in Comp, NEW n \in 1 .. Len(Touch[c]),
                      ObjectRealized(c, Touch[c][n]),
                      NEW o, o = Touch[c][n]
               PROVE  /\ Steps(o) \subseteq Ran[o]
                      /\ \A i \in DOMAIN Deps[o] : Steps(Deps[o][i]) \subseteq Ran[Deps[o][i]]
    BY <1>2 DEF TpointReturnsComplete, TargetsRealized
  <2>2. o \in Obj
    BY TouchAssumption, ElementOfSeq, LenProperties
  <2>3. Steps(o) \subseteq Ran[o] /\ Ready(o)
    BY <2>1, <2>2 DEF Made
  <2>4. ASSUME NEW i \in DOMAIN Deps[o]
        PROVE  Steps(Deps[o][i]) \subseteq Ran[Deps[o][i]]
    BY <2>1, <2>2, <2>3, DepsAreObjects DEF Ready
  <2> QED
    BY <2>3, <2>4
<1>3. Justified => HistoryOK
  BY DEF Justified
<1> QED
  BY <1>1, <1>2, <1>3, TargetsKept, JustifiedInit, JustifiedKept, WritersInit, WritersKept,
     InitIInv, NextIInv, PTL DEF Spec

=============================================================================
