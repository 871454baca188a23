--------------------------- MODULE Lifecycle_proofs ---------------------------
(***************************************************************************)
(* Proofs about module Lifecycle, for any number of components and any     *)
(* needs.                                                                  *)
(***************************************************************************)
EXTENDS Lifecycle, FiniteSetTheorems, TLAPS

\* What the types rest on: fini is announced by who says it, EKT is enabled
\* behind the loading of the configuration, and the touchpoint tables are there
\* from the one to the end of benesh_fini.
NetOK == \A m \in net : m.kind = "fini" => SaidFini(m.from)

EnabledOK == \A c \in Comp : enabled[c] <=> phase[c] \notin {"new", "loaded"}

TablesOK == \A c \in Comp : tables[c] <=> phase[c] \notin After \cup {"new"}

IInv == TypeOK /\ NetOK /\ EnabledOK /\ TablesOK /\ CountCovers

\* The components that are counted are finitely many.
LEMMA CompFinite == IsFiniteSet(Comp) /\ Cardinality(Comp) = N
BY FS_Interval, NAssumption DEF Comp

\* Fewer components are covered by what covers more of them.
LEMMA Covers ==
    ASSUME NEW S \in SUBSET Comp, NEW T \in SUBSET S, NEW k \in Int,
           Cardinality(S) <= k
    PROVE  Cardinality(T) <= k
<1>1. IsFiniteSet(S)
  BY CompFinite, FS_Subset
<1>2. IsFiniteSet(T) /\ Cardinality(T) <= Cardinality(S)
  BY <1>1, FS_Subset
<1>3. Cardinality(S) \in Nat /\ Cardinality(T) \in Nat
  BY <1>1, <1>2, FS_CardinalityType
<1> QED
  BY <1>2, <1>3

\* The invariant holds before benesh_init.
LEMMA InitIInv == Init => IInv
BY NAssumption DEF Init, IInv, TypeOK, NetOK, EnabledOK, TablesOK, CountCovers, Before,
   Using, Loop, After, SaidFini, Msg

\* Announcements come from components.
LEMMA FromComp ==
    ASSUME TypeOK
    PROVE  \A m \in net : m.from \in Comp
BY DEF TypeOK, Msg, TpMsg, WorkMsg, FiniMsg

\* A step that only moves components towards their end, and only announces the
\* fini of one that had not said it, leaves the counters right.
LEMMA CountKept ==
    ASSUME TypeOK, CountCovers, UNCHANGED count,
           \A d \in Comp : SaidFini(d) => SaidFini(d)',
           \A d \in Comp : phase'[d] # "new" => phase[d] # "new",
           \A m \in net' : m \in net \/ (m.kind = "fini" => ~SaidFini(m.from))
    PROVE  CountCovers'
<1> SUFFICES ASSUME NEW c \in Comp, phase'[c] # "new"
             PROVE  Cardinality(Outstanding(c)') <= count[c]
  BY DEF CountCovers
<1>1. Cardinality(Outstanding(c)) <= count[c] /\ count[c] \in Int
  BY DEF CountCovers, TypeOK
<1>2. Outstanding(c)' \subseteq Outstanding(c) /\ Outstanding(c) \subseteq Comp
  BY DEF Outstanding
<1> QED
  BY <1>1, <1>2, Covers

\* benesh_init counts every component.
LEMMA LoadStep ==
    ASSUME IInv, NEW c \in Comp, Load(c)
    PROVE  IInv'
<1> USE DEF IInv
<1>1. TypeOK' /\ NetOK' /\ EnabledOK' /\ TablesOK'
  BY NAssumption DEF Load, Goto, TypeOK, NetOK, EnabledOK, TablesOK, SaidFini, Before,
     Using, Loop, After
<1>2. CountCovers'
  <2> SUFFICES ASSUME NEW e \in Comp, phase'[e] # "new"
               PROVE  Cardinality(Outstanding(e)') <= count'[e]
    BY DEF CountCovers
  <2>1. Outstanding(e)' \in SUBSET Outstanding(e) /\ Outstanding(e) \in SUBSET Comp
    BY DEF Outstanding, Load, Goto, SaidFini, TypeOK, Loop, After
  <2>2. CASE e = c
    <3>1. count'[e] = N
      BY <2>2 DEF Load, TypeOK
    <3>2. Cardinality(Comp) <= N
      BY CompFinite, NAssumption
    <3> QED
      BY <2>1, <3>1, <3>2, Covers, NAssumption
  <2>3. CASE e # c
    <3>1. count'[e] = count[e] /\ phase[e] # "new"
      BY <2>3 DEF Load, Goto, TypeOK
    <3>2. Cardinality(Outstanding(e)) <= count[e] /\ count[e] \in Int
      BY <3>1 DEF CountCovers, TypeOK
    <3> QED
      BY <2>1, <3>1, <3>2, Covers
  <2> QED
    BY <2>2, <2>3
<1> QED
  BY <1>1, <1>2

\* The main thread's other steps.
LEMMA MainStep ==
    ASSUME IInv, NEW c \in Comp, Main(c)
    PROVE  IInv'
<1> USE DEF IInv
<1>1. CASE Enable(c) \/ WaitForNext(c) \/ BecomeReady(c) \/ Return(c)
  <2>1. TypeOK'
    <3>1. CASE Enable(c)
      BY <3>1 DEF Enable, Goto, TypeOK, Before
    <3>2. CASE WaitForNext(c)
      <4>1. pos[c] \in Nat /\ count[c] \in 0 .. N /\ 1 <= pos[c] /\ pos[c] <= count[c]
        BY <3>2 DEF WaitForNext, TypeOK
      <4>2. pos[c] + 1 \in 1 .. N + 1
        BY <4>1, NAssumption
      <4> QED
        BY <3>2, <4>2 DEF WaitForNext, TypeOK
    <3>3. CASE BecomeReady(c) \/ Return(c)
      BY <3>3 DEF BecomeReady, Return, Goto, TypeOK, Using
    <3> QED
      BY <1>1, <3>1, <3>2, <3>3
  <2>2. NetOK' /\ EnabledOK' /\ TablesOK'
    <3>1. NetOK'
      BY <1>1, FromComp DEF Enable, WaitForNext, BecomeReady, Return, Goto, TypeOK, NetOK,
         SaidFini, Loop, After
    <3>2. EnabledOK'
      BY <1>1 DEF Enable, WaitForNext, BecomeReady, Return, Goto, TypeOK, EnabledOK
    <3>3. TablesOK'
      BY <1>1 DEF Enable, WaitForNext, BecomeReady, Return, Goto, TypeOK, TablesOK, After
    <3> QED
      BY <3>1, <3>2, <3>3
  <2>3. CountCovers'
    <3>1. \A d \in Comp : SaidFini(d) => SaidFini(d)'
      BY <1>1 DEF Enable, WaitForNext, BecomeReady, Return, Goto, TypeOK, SaidFini, Loop, After
    <3>2. /\ UNCHANGED <<count, net>>
          /\ \A d \in Comp : phase'[d] # "new" => phase[d] # "new"
      BY <1>1 DEF Enable, WaitForNext, BecomeReady, Return, Goto, TypeOK
    <3> QED
      BY <3>1, <3>2, CountKept
  <2> QED
    BY <2>1, <2>2, <2>3
<1>2. CASE Close(c) \/ Release(c)
  <2>1. TypeOK'
    BY <1>2 DEF Close, Release, Goto, TypeOK, After
  <2>2. NetOK' /\ EnabledOK' /\ TablesOK'
    <3>1. NetOK'
      BY <1>2, FromComp DEF Close, Release, Goto, TypeOK, NetOK, SaidFini, Loop, After
    <3>2. EnabledOK'
      BY <1>2 DEF Close, Release, Goto, TypeOK, EnabledOK
    <3>3. TablesOK'
      BY <1>2 DEF Close, Release, Goto, TypeOK, TablesOK, After
    <3> QED
      BY <3>1, <3>2, <3>3
  <2>3. CountCovers'
    <3>1. \A d \in Comp : SaidFini(d) => SaidFini(d)'
      BY <1>2 DEF Close, Release, Goto, TypeOK, SaidFini, Loop, After
    <3>2. /\ UNCHANGED <<count, net>>
          /\ \A d \in Comp : phase'[d] # "new" => phase[d] # "new"
      BY <1>2 DEF Close, Release, Goto, TypeOK
    <3> QED
      BY <3>1, <3>2, CountKept
  <2> QED
    BY <2>1, <2>2, <2>3
<1>3. CASE Tpoint(c)
  <2>1. TpMsgs(c) \subseteq TpMsg /\ \A m \in TpMsgs(c) : m.kind # "fini"
    BY DEF TpMsgs, TpMsg, TypeOK
  <2>2. TypeOK' /\ NetOK' /\ EnabledOK' /\ TablesOK'
    BY <1>3, <2>1 DEF Tpoint, Goto, TypeOK, NetOK, EnabledOK, TablesOK, SaidFini, Before,
       Using, Loop, After, Msg
  <2>3. CountCovers'
    <3>1. \A d \in Comp : SaidFini(d) => SaidFini(d)'
      BY <1>3 DEF Tpoint, Goto, TypeOK, SaidFini, Loop, After
    <3>2. /\ UNCHANGED count
          /\ \A d \in Comp : phase'[d] # "new" => phase[d] # "new"
          /\ \A m \in net' : m \in net \/ m.kind # "fini"
      BY <1>3, <2>1 DEF Tpoint, Goto, TypeOK
    <3> QED
      BY <3>1, <3>2, CountKept
  <2> QED
    BY <2>2, <2>3
<1>4. CASE Fini(c)
  <2>1. /\ FiniMsgs(c) \subseteq FiniMsg
        /\ \A m \in FiniMsgs(c) : m.kind = "fini" /\ m.from = c
    BY DEF FiniMsgs, FiniMsg, TypeOK
  <2>2. ~SaidFini(c) /\ SaidFini(c)' /\ phase[c] # "new"
    BY <1>4 DEF Fini, Goto, TypeOK, SaidFini, Loop, After
  <2>3. \A d \in Comp : SaidFini(d) => SaidFini(d)'
    BY <1>4 DEF Fini, Goto, TypeOK, SaidFini, Loop, After
  <2>4. TypeOK' /\ EnabledOK' /\ TablesOK'
    BY <1>4, <2>1 DEF Fini, Goto, TypeOK, EnabledOK, TablesOK, Before, Using, Loop, After, Msg
  <2>5. NetOK'
    <3>1. \A m \in net : m.from \in Comp
      BY FromComp
    <3>2. net' = net \cup FiniMsgs(c)
      BY <1>4 DEF Fini
    <3> QED
      BY <2>1, <2>2, <2>3, <3>1, <3>2 DEF NetOK
  <2>6. CountCovers'
    <3>1. /\ UNCHANGED count
          /\ \A d \in Comp : phase'[d] # "new" => phase[d] # "new"
          /\ \A m \in net' : m \in net \/ ~SaidFini(m.from)
      BY <1>4, <2>1, <2>2 DEF Fini, Goto, TypeOK
    <3> QED
      BY <2>3, <3>1, CountKept
  <2> QED
    BY <2>4, <2>5, <2>6
<1>5. CASE \E d \in Comp : Work(c, d)
  <2> PICK d \in Comp : Work(c, d)
    BY <1>5
  <2>1. WorkMsgs(c, d) \subseteq WorkMsg /\ \A m \in WorkMsgs(c, d) : m.kind # "fini"
    BY DEF WorkMsgs, WorkMsg, TypeOK
  <2>2. TypeOK' /\ NetOK' /\ EnabledOK' /\ TablesOK'
    BY <2>1 DEF Work, mainVars, TypeOK, NetOK, EnabledOK, TablesOK, SaidFini, Msg
  <2>3. CountCovers'
    <3>1. /\ UNCHANGED <<count, phase>>
          /\ \A e \in Comp : SaidFini(e) => SaidFini(e)'
          /\ \A m \in net' : m \in net \/ m.kind # "fini"
      BY <2>1 DEF Work, mainVars, SaidFini
    <3> QED
      BY <3>1, CountKept
  <2> QED
    BY <2>2, <2>3
<1> QED
  BY <1>1, <1>2, <1>3, <1>4, <1>5, LoadStep DEF Main

\* fini_watch counts down for a component that has said fini.
LEMMA FiniWatchStep ==
    ASSUME IInv, NEW c \in Comp, NEW m \in net, FiniWatch(c, m)
    PROVE  IInv'
<1> USE DEF IInv
<1>1. /\ m = [kind |-> "fini", from |-> m.from, to |-> c]
      /\ m.from \in Comp /\ SaidFini(m.from) /\ phase[c] # "new"
  BY DEF FiniWatch, CanHandle, TypeOK, NetOK, EnabledOK, Msg, TpMsg, WorkMsg, FiniMsg
<1>2. UNCHANGED mainVars /\ net' = net \ {m} /\ count' = [count EXCEPT ![c] = @ - 1]
  BY DEF FiniWatch
<1>3. Outstanding(c)' = Outstanding(c) \ {m.from}
  BY <1>1, <1>2 DEF Outstanding, mainVars, SaidFini
<1>4. m.from \in Outstanding(c)
  BY <1>1 DEF Outstanding
<1>5. Outstanding(c) \in SUBSET Comp
  BY DEF Outstanding
<1>6. IsFiniteSet(Outstanding(c))
  BY <1>5, CompFinite, FS_Subset
<1>7. /\ Cardinality(Outstanding(c)') = Cardinality(Outstanding(c)) - 1
      /\ Cardinality(Outstanding(c)) \in Nat
  BY <1>3, <1>4, <1>6, FS_RemoveElement, FS_CardinalityType
<1>8. Cardinality(Outstanding(c)') \in Nat
  BY <1>3, <1>6, FS_RemoveElement, FS_CardinalityType
<1>9. Cardinality(Outstanding(c)) <= count[c] /\ count[c] \in 0 .. N
  BY <1>1 DEF CountCovers, TypeOK
<1>10. count[c] - 1 \in 0 .. N /\ Cardinality(Outstanding(c)') <= count'[c]
  BY <1>2, <1>7, <1>8, <1>9, NAssumption DEF TypeOK
<1>11. TypeOK' /\ NetOK' /\ EnabledOK' /\ TablesOK'
  BY <1>2, <1>10 DEF FiniWatch, mainVars, TypeOK, NetOK, EnabledOK, TablesOK, SaidFini
<1>12. CountCovers'
  <2> SUFFICES ASSUME NEW e \in Comp, phase'[e] # "new", e # c
               PROVE  Cardinality(Outstanding(e)') <= count'[e]
    BY <1>10 DEF CountCovers
  <2>1. count'[e] = count[e] /\ Cardinality(Outstanding(e)) <= count[e]
    BY <1>2 DEF mainVars, TypeOK, CountCovers
  <2>2. Outstanding(e)' \in SUBSET Outstanding(e) /\ Outstanding(e) \in SUBSET Comp
    BY <1>2 DEF Outstanding, mainVars, SaidFini
  <2>3. count[e] \in Int
    BY DEF TypeOK
  <2> QED
    BY <2>1, <2>2, <2>3, Covers
<1> QED
  BY <1>11, <1>12

\* The other handlers do not touch the counter.
LEMMA HandlersStep ==
    ASSUME IInv, NEW c \in Comp, Handlers(c)
    PROVE  IInv'
<1> USE DEF IInv
<1>1. ASSUME NEW m \in net, FiniWatch(c, m) PROVE IInv'
  BY <1>1, FiniWatchStep
<1>2. ASSUME NEW d \in Comp, Meet(c, d) PROVE IInv'
  <2>1. TypeOK' /\ NetOK' /\ EnabledOK' /\ TablesOK'
    BY <1>2 DEF Meet, mainVars, TypeOK, NetOK, EnabledOK, TablesOK, SaidFini
  <2>2. UNCHANGED <<phase, count, net>> /\ \A e \in Comp : SaidFini(e) => SaidFini(e)'
    BY <1>2 DEF Meet, mainVars, SaidFini
  <2>3. CountCovers'
    BY <2>2, CountKept
  <2> QED
    BY <2>1, <2>3
<1>3. ASSUME NEW m \in net, Sleep(c, m) PROVE IInv'
  <2>1. m \in TpMsg \cup WorkMsg
    BY <1>3 DEF Sleep, TypeOK, Msg, FiniMsg
  <2>2. TypeOK' /\ NetOK' /\ EnabledOK' /\ TablesOK'
    BY <1>3, <2>1 DEF Sleep, mainVars, TypeOK, NetOK, EnabledOK, TablesOK, SaidFini
  <2>3. UNCHANGED <<phase, count>> /\ net' \subseteq net
        /\ \A e \in Comp : SaidFini(e) => SaidFini(e)'
    BY <1>3 DEF Sleep, mainVars, SaidFini
  <2>4. CountCovers'
    BY <2>3, CountKept
  <2> QED
    BY <2>2, <2>4
<1>4. ASSUME NEW m \in net \cup asleep[c], Handle(c, m) PROVE IInv'
  <2>1. m.from \in Comp
    BY <1>4 DEF TypeOK, Msg, TpMsg, WorkMsg, FiniMsg
  <2>2. TypeOK' /\ NetOK' /\ EnabledOK' /\ TablesOK'
    BY <1>4, <2>1 DEF Handle, mainVars, TypeOK, NetOK, EnabledOK, TablesOK, SaidFini
  <2>3. UNCHANGED <<phase, count>> /\ net' \subseteq net
        /\ \A e \in Comp : SaidFini(e) => SaidFini(e)'
    BY <1>4 DEF Handle, mainVars, SaidFini
  <2>4. CountCovers'
    BY <2>3, CountKept
  <2> QED
    BY <2>2, <2>4
<1> QED
  BY <1>1, <1>2, <1>3, <1>4 DEF Handlers

\* No step at all changes nothing.
LEMMA Stutter ==
    ASSUME IInv, UNCHANGED vars
    PROVE  IInv'
BY DEF IInv, vars, TypeOK, NetOK, EnabledOK, TablesOK, CountCovers, Outstanding, SaidFini

\* The invariant holds in every state a run reaches.
LEMMA Inductive == Spec => []IInv
<1>1. IInv /\ [Next]_vars => IInv'
  BY MainStep, HandlersStep, Stutter DEF Next
<1> QED
  BY InitIInv, <1>1, PTL DEF Spec

\* The state keeps its type: comp_count stays between 0 and the number of
\* components, whenever fini_watch counts.
THEOREM TypeCorrect == Spec => []TypeOK
BY Inductive, PTL DEF IInv

\* comp_count covers all components whose fini is still to come.
THEOREM Counted == Spec => []CountCovers
BY Inductive, PTL DEF IInv

\* The touchpoint tables are there for every announcement that can come before
\* the end of benesh_fini.
THEOREM RulesThere == Spec => []RulesInPlace
<1>1. IInv => RulesInPlace
  BY DEF IInv, EnabledOK, TablesOK, RulesInPlace
<1> QED
  BY Inductive, <1>1, PTL

\* Who tears down has heard every component's fini, hence all have said it.
THEOREM AllHadSaidFini == Spec => []NobodyLeftBehind
<1>1. Init => NobodyLeftBehind
  BY DEF Init, NobodyLeftBehind, After
<1>2. IInv /\ NobodyLeftBehind /\ [Next]_vars => NobodyLeftBehind'
  <2> SUFFICES ASSUME IInv, NobodyLeftBehind, [Next]_vars, NEW c \in Comp,
                      phase'[c] \in After
               PROVE  \A d \in Comp : SaidFini(d)'
    BY DEF NobodyLeftBehind
  <2>1. \A d \in Comp : SaidFini(d) => SaidFini(d)'
    BY DEF IInv, TypeOK, Next, vars, mainVars, Main, Handlers, SaidFini, Loop, After, Goto,
       Load, Enable, WaitForNext, BecomeReady, Tpoint, Return, Fini, Close, Release, Work,
       Meet, Sleep, Handle, FiniWatch
  <2>2. CASE phase[c] \in After
    BY <2>1, <2>2 DEF NobodyLeftBehind
  <2>3. CASE phase[c] \notin After
    <3>1. Close(c)
      BY <2>3 DEF IInv, TypeOK, Next, vars, mainVars, Main, Handlers, After, Goto,
         Load, Enable, WaitForNext, BecomeReady, Tpoint, Return, Fini, Close, Release, Work,
         Meet, Sleep, Handle, FiniWatch
    <3>2. Cardinality(Outstanding(c)) <= 0
      BY <3>1 DEF Close, AllFini, IInv, CountCovers
    <3>3. Outstanding(c) \in SUBSET Comp
      BY DEF Outstanding
    <3>4. Outstanding(c) = {}
      <4>1. IsFiniteSet(Outstanding(c))
        BY <3>3, CompFinite, FS_Subset
      <4>2. Cardinality(Outstanding(c)) = 0
        BY <3>2, <4>1, FS_CardinalityType
      <4> QED
        BY <4>1, <4>2, FS_EmptySet
    <3> QED
      BY <2>1, <3>4 DEF Outstanding
  <2> QED
    BY <2>2, <2>3
<1> QED
  BY <1>1, <1>2, Inductive, PTL DEF Spec

=============================================================================
