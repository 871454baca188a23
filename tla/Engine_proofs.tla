---------------------------- MODULE Engine_proofs ----------------------------
(***************************************************************************)
(* Proofs about module Engine, for every set of components and objects,    *)
(* every dependency, procedure and touchpoint list and every MaxPass:      *)
(* first the types, then, on their ground, that no signal is missed, no    *)
(* object is scheduled a third time, nobody is left behind, a buffer is    *)
(* written by one thread, a node is active in one place, and a subrule is  *)
(* run once in a scheduling pass.                                          *)
(***************************************************************************)
EXTENDS Engine, SequenceTheorems, FiniteSetTheorems, TLAPS

-----------------------------------------------------------------------------
(***************************************************************************)
(* The inductive invariant: the types, and what makes the steps stay       *)
(* within them.                                                            *)
(***************************************************************************)

\* A frame of schedule_target is at a dependency or a chain that exists, and
\* its object has been scheduled once it is past the pending check.
\* (p is the component's function pass.)
FrameOK(p, f) ==
    /\ f.pc # "claim" => p[f.obj] \in 1 .. MaxPass
    /\ f.pc \in {"deps", "sub"} => f.i \in DOMAIN Deps[f.obj]
    /\ f.pc = "chain" => f.i \in Steps(f.obj)

\* All frames but the top one are in their loop over the dependencies.
StackOK ==
    \A c \in Comp : \A j \in DOMAIN sched[c] :
        /\ FrameOK(pass[c], sched[c][j])
        /\ j # Len(sched[c]) => sched[c][j].pc = "deps"

\* The main thread has a node in hand while it handles one; in a chain it is
\* at a link that exists, and blocked at none but the last.
MainOK ==
    \A c \in Comp :
        /\ pc[c] \in {"handle", "blocked", "requeue", "finish", "activate",
                      "announce"} => work[c] \in Node
        /\ pc[c] \in {"handle", "blocked"} /\ work[c].kind = "chain" =>
               link[c] \in Steps(work[c].obj)
        /\ pc[c] = "blocked" =>
               \/ work[c].kind = "rule"
               \/ /\ work[c].kind = "chain"
                  /\ ~ChainEnd(c, work[c].obj, link[c])
        /\ pc[c] = "announce" => work[c].at \in Nat

\* An activation is about an entry, and what it is to queue is subscribed.
ActOK ==
    \A c \in Comp : \A a \in act[c] :
        /\ <<a.obj, a.at>> \in Entry
        /\ a.push => a.pos \in DOMAIN subs[c][<<a.obj, a.at>>]

\* Announcements name touchpoints and entries that exist.
NetOK ==
    /\ \A m \in tpNet : m.n \in DOMAIN Touch[m.from]
    /\ \A m \in workNet : <<m.obj, m.at>> \in Entry

IInv == TypeOK /\ StackOK /\ MainOK /\ ActOK /\ NetOK

-----------------------------------------------------------------------------
(***************************************************************************)
(* Data.                                                                   *)
(***************************************************************************)

\* A sequence without its last element.
LEMMA FrontProperties ==
    ASSUME NEW S, NEW s \in Seq(S), s # <<>>
    PROVE  /\ Len(s) \in Nat \ {0}
           /\ Front(s) \in Seq(S)
           /\ Len(Front(s)) = Len(s) - 1
           /\ \A j \in 1 .. Len(s) - 1 : Front(s)[j] = s[j]
<1> DEFINE n == Len(s) - 1
           f == Front(s)
<1>1. Len(s) \in Nat \ {0}
  BY EmptySeq
<1>2. n \in Nat
  BY <1>1
<1>3. \A j \in 1 .. n : s[j] \in S
  BY <1>1, ElementOfSeq
<1>4. f = SubSeq(s, 1, n)
  BY DEF Front
<1> HIDE DEF n, f
<1>5. /\ f \in Seq(S)
      /\ Len(f) = IF 1 <= n THEN n - 1 + 1 ELSE 0
      /\ \A j \in 1 .. n - 1 + 1 : f[j] = s[1 + j - 1]
  BY <1>2, <1>3, <1>4, SubSeqProperties
<1>6. f \in Seq(S) /\ Len(f) = n /\ \A j \in 1 .. n : f[j] = s[j]
  BY <1>2, <1>5
<1> QED
  BY <1>1, <1>6 DEF n, f

\* Replacing the last element of a sequence.
LEMMA ReplaceLast ==
    ASSUME NEW S, NEW s \in Seq(S), s # <<>>, NEW x \in S
    PROVE  LET t == Append(Front(s), x)
           IN  /\ t \in Seq(S)
               /\ Len(t) = Len(s)
               /\ t[Len(s)] = x
               /\ \A j \in 1 .. Len(s) : j # Len(s) => t[j] = s[j]
<1> DEFINE f == Front(s)
           t == Append(f, x)
<1>1. /\ Len(s) \in Nat \ {0} /\ f \in Seq(S) /\ Len(f) = Len(s) - 1
      /\ \A j \in 1 .. Len(s) - 1 : f[j] = s[j]
  BY FrontProperties
<1> HIDE DEF f
<1>2. t \in Seq(S) /\ Len(t) = Len(f) + 1 /\ t[Len(f) + 1] = x
      /\ \A j \in 1 .. Len(f) : t[j] = f[j]
  BY <1>1, AppendProperties
<1> QED
  BY <1>1, <1>2 DEF f

\* What one finds in a node.
LEMMA NodeFields ==
    ASSUME NEW n \in Node
    PROVE  /\ n.obj \in Obj
           /\ n.pass \in 1 .. MaxPass
           /\ <<n.obj, n.at>> \in Entry
           /\ n.at \in Int
           /\ n.kind \in {"init", "fini", "chain", "rule"}
           /\ n.kind \in {"chain", "rule"} => n.at \in Steps(n.obj)
           /\ n.kind = "fini" => n.at = 0
<1>1. PICK p \in 1 .. MaxPass, o \in Obj :
          n \in {InitNode(o, p), FiniNode(o, p)}
                    \cup {ChainNode(o, k, p) : k \in Steps(o)}
                    \cup {RuleNode(o, k, p) : k \in Steps(o)}
  BY DEF Node
<1>2. Len(Proc[o]) \in Nat
  BY ProcAssumption
<1>3. \A k \in -1 .. Len(Proc[o]) : <<o, k>> \in Entry
  BY DEF Entry
<1>4. CASE n \in {InitNode(o, p), FiniNode(o, p)}
  <2>1. InitAt(o) \in {-1, 0}
    BY DEF InitAt
  <2> QED
    BY <1>2, <1>3, <1>4, <2>1 DEF InitNode, FiniNode, NodeOf
<1>5. ASSUME NEW k \in Steps(o), n \in {ChainNode(o, k, p), RuleNode(o, k, p)}
      PROVE  n.obj = o /\ n.pass = p /\ n.at = k /\ n.kind \in {"chain", "rule"}
  BY <1>5 DEF ChainNode, RuleNode, NodeOf
<1>6. \A k \in Steps(o) : k \in -1 .. Len(Proc[o]) /\ k \in Int
  BY <1>2 DEF Steps
<1> QED
  BY <1>1, <1>3, <1>4, <1>5, <1>6

\* The nodes that the scheduler and the chains make.
LEMMA NodesMade ==
    ASSUME NEW o \in Obj, NEW p \in 1 .. MaxPass
    PROVE  /\ InitNode(o, p) \in Waiter
           /\ FiniNode(o, p) \in Waiter
           /\ \A k \in Steps(o) :
                  ChainNode(o, k, p) \in Waiter /\ RuleNode(o, k, p) \in Node
<1> DEFINE Made(q, r) == {InitNode(q, r), FiniNode(q, r)}
                             \cup {ChainNode(q, k, r) : k \in Steps(q)}
                             \cup {RuleNode(q, k, r) : k \in Steps(q)}
<1>1. Node = UNION {UNION {Made(q, r) : q \in Obj} : r \in 1 .. MaxPass}
  BY DEF Node
<1>2. Made(o, p) \subseteq Node
  BY <1>1
<1>3. InitNode(o, p).kind = "init" /\ FiniNode(o, p).kind = "fini"
      /\ \A k \in Steps(o) : ChainNode(o, k, p).kind = "chain"
  BY DEF InitNode, FiniNode, ChainNode, NodeOf
<1> QED
  BY <1>2, <1>3 DEF Waiter

\* benesh_make_active leaves a queue of nodes that is not empty.
LEMMA MakeActiveType ==
    ASSUME NEW q \in Seq(Node), NEW n \in Node
    PROVE  MakeActive(q, n) \in Seq(Node) /\ MakeActive(q, n) # <<>>
<1>1. CASE n \in Range(q)
  <2> DEFINE i == CHOOSE j \in DOMAIN q : q[j] = n
  <2>1. i \in DOMAIN q
    BY <1>1 DEF Range
  <2>2. Len(q) \in Nat /\ DOMAIN q = 1 .. Len(q)
    BY LenProperties
  <2>3. MakeActive(q, n) = SubSeq(q, 1, i)
    BY <1>1 DEF MakeActive
  <2> HIDE DEF i
  <2>4. i \in Int /\ 1 <= i /\ \A j \in 1 .. i : q[j] \in Node
    BY <2>1, <2>2, ElementOfSeq
  <2>5. SubSeq(q, 1, i) \in Seq(Node)
        /\ Len(SubSeq(q, 1, i)) = IF 1 <= i THEN i - 1 + 1 ELSE 0
    BY <2>4, SubSeqProperties
  <2> DEFINE t == SubSeq(q, 1, i)
  <2> HIDE DEF t
  <2>6. t \in Seq(Node) /\ Len(t) # 0
    BY <2>4, <2>5 DEF t
  <2>7. t # <<>>
    BY <2>6, EmptySeq
  <2> QED
    BY <2>3, <2>6, <2>7 DEF t
<1>2. CASE n \notin Range(q)
  BY <1>2, AppendProperties, EmptySeq DEF MakeActive
<1> QED
  BY <1>1, <1>2

-----------------------------------------------------------------------------
(***************************************************************************)
(* What leaves the parts of the invariant alone.                           *)
(***************************************************************************)

\* The database keeps its types when it is not touched.
LEMMA DbSame == DbTypeOK /\ UNCHANGED dbVars => DbTypeOK'
BY DEF DbTypeOK, dbVars

\* So do announcements and transfers when neither network nor history is.
LEMMA DataSame ==
    DataTypeOK /\ NetOK /\ UNCHANGED <<netVars, dataVars, ran>>
        => DataTypeOK' /\ NetOK'
BY DEF DataTypeOK, NetOK, netVars, dataVars

\* The call stacks stay well formed when neither they nor pass change.
LEMMA StackSame == StackOK /\ UNCHANGED <<sched, pass>> => StackOK'
BY DEF StackOK

\* What a main thread has in hand fits its place when both are left alone.
LEMMA MainSame == MainOK /\ UNCHANGED <<pc, work, link>> => MainOK'
BY DEF MainOK

\* activate_subs calls stay on their entries when no subscription changes.
LEMMA ActSame == ActOK /\ UNCHANGED <<act, subs>> => ActOK'
BY DEF ActOK

\* A signal moves the main thread from its wait into its loop, no further.
LEMMA SignalKeeps ==
    ASSUME pc \in [Comp -> MainPc], NEW c \in Comp, Signal(c)
    PROVE  /\ pc' \in [Comp -> MainPc]
           /\ pc'[c] # "wait"
           /\ \A d \in Comp : pc'[d] = pc[d] \/ pc'[d] = "loop"
           /\ \A d \in Comp : d # c => pc'[d] = pc[d]
BY DEF Signal, MainPc

\* A signal gives the main thread no node to handle.
LEMMA MainSignalled ==
    ASSUME MainOK, pc \in [Comp -> MainPc], NEW c \in Comp, Signal(c),
           UNCHANGED <<work, link>>
    PROVE  MainOK'
BY SignalKeeps DEF MainOK

-----------------------------------------------------------------------------
(***************************************************************************)
(* The stack of schedule_target.                                           *)
(***************************************************************************)

\* While the lock is held there is a top frame, and it is well formed.
LEMMA TopFrame ==
    ASSUME ThreadTypeOK, StackOK, NEW c \in Comp, ~LockFree(c)
    PROVE  /\ sched[c] \in Seq(Frame)
           /\ Len(sched[c]) \in Nat \ {0}
           /\ Len(sched[c]) \in DOMAIN sched[c]
           /\ Top(c) = sched[c][Len(sched[c])]
           /\ Top(c) \in Frame
           /\ FrameOK(pass[c], Top(c))
<1>1. sched[c] \in Seq(Frame) /\ sched[c] # <<>>
  BY DEF ThreadTypeOK, LockFree
<1>2. Len(sched[c]) \in Nat \ {0} /\ DOMAIN sched[c] = 1 .. Len(sched[c])
  BY <1>1, EmptySeq, LenProperties
<1>3. Top(c) = sched[c][Len(sched[c])]
  BY DEF Top, Last
<1>4. Len(sched[c]) \in 1 .. Len(sched[c])
  BY <1>2
<1>5. sched[c][Len(sched[c])] \in Frame
  BY <1>1, <1>4, ElementOfSeq
<1> QED
  BY <1>1, <1>2, <1>3, <1>4, <1>5 DEF StackOK

\* pass stays within its bound for the objects that have been scheduled.
PassGrows ==
    \A d \in Comp : \A o \in Obj :
        pass[d][o] \in 1 .. MaxPass => pass'[d][o] \in 1 .. MaxPass

\* A frame stays well formed while pass grows within its bound.
LEMMA FrameStays ==
    ASSUME PassGrows, NEW d \in Comp, NEW f \in Frame, FrameOK(pass[d], f)
    PROVE  FrameOK(pass'[d], f)
BY DEF PassGrows, FrameOK, Frame

\* A new top frame.
LEMMA SetTopKeeps ==
    ASSUME ThreadTypeOK, StackOK, PassGrows, NEW c \in Comp, ~LockFree(c),
           NEW f \in Frame, FrameOK(pass'[c], f), SetTop(c, f)
    PROVE  /\ sched' \in [Comp -> Seq(Frame)]
           /\ sched'[c] # <<>>
           /\ Top(c)' = f
           /\ \A d \in Comp : d # c => sched'[d] = sched[d]
           /\ StackOK'
<1> DEFINE s == sched[c]
           t == Append(Front(s), f)
<1>1. s \in Seq(Frame) /\ Len(s) \in Nat \ {0}
  BY TopFrame
<1>2. sched \in [Comp -> Seq(Frame)] /\ sched' = [sched EXCEPT ![c] = t]
  BY DEF ThreadTypeOK, SetTop
<1>3. /\ t \in Seq(Frame) /\ Len(t) = Len(s) /\ t[Len(s)] = f
      /\ \A j \in 1 .. Len(s) : j # Len(s) => t[j] = s[j]
  BY <1>1, ReplaceLast, EmptySeq
<1> HIDE DEF t
<1>4. sched' \in [Comp -> Seq(Frame)] /\ sched'[c] = t
      /\ \A d \in Comp : d # c => sched'[d] = sched[d]
  BY <1>2, <1>3
<1>5. t # <<>>
  BY <1>1, <1>3, EmptySeq
<1>6. Top(c)' = f
  BY <1>3, <1>4 DEF Top, Last
<1>7. ASSUME NEW d \in Comp, NEW j \in DOMAIN sched'[d]
      PROVE  /\ FrameOK(pass'[d], sched'[d][j])
             /\ j # Len(sched'[d]) => sched'[d][j].pc = "deps"
  <2>1. CASE d # c
    <3>1. sched'[d] = sched[d] /\ sched[d] \in Seq(Frame)
      BY <2>1, <1>2, <1>4
    <3>2. j \in 1 .. Len(sched[d])
      BY <3>1, <1>7, LenProperties
    <3>3. sched[d][j] \in Frame
      BY <3>1, <3>2, ElementOfSeq
    <3> QED
      BY <3>1, <3>3, <1>7, FrameStays DEF StackOK
  <2>2. CASE d = c
    <3>1. DOMAIN t = 1 .. Len(s) /\ DOMAIN s = 1 .. Len(s)
      BY <1>1, <1>3, LenProperties
    <3>2. CASE j = Len(s)
      BY <2>2, <3>2, <1>3, <1>4
    <3>3. CASE j # Len(s)
      <4>1. j \in 1 .. Len(s) /\ t[j] = s[j]
        BY <2>2, <3>1, <3>3, <1>3, <1>4, <1>7
      <4>2. s[j] \in Frame
        BY <4>1, <1>1, ElementOfSeq
      <4>3. FrameOK(pass[c], s[j]) /\ s[j].pc = "deps"
        BY <4>1, <3>1, <3>3 DEF StackOK
      <4> QED
        BY <2>2, <4>1, <4>2, <4>3, <1>4, FrameStays
    <3> QED
      BY <3>2, <3>3
  <2> QED
    BY <2>1, <2>2
<1> QED
  BY <1>4, <1>5, <1>6, <1>7 DEF StackOK

\* A recursive call.
LEMMA CallKeeps ==
    ASSUME ThreadTypeOK, StackOK, NEW c \in Comp, ~LockFree(c), NEW o \in Obj,
           Top(c).pc = "deps", UNCHANGED pass,
           sched' = [sched EXCEPT ![c] = Append(@, NewFrame(o))]
    PROVE  /\ sched' \in [Comp -> Seq(Frame)]
           /\ sched'[c] # <<>>
           /\ Top(c)' = NewFrame(o)
           /\ \A d \in Comp : d # c => sched'[d] = sched[d]
           /\ StackOK'
<1> DEFINE s == sched[c]
           f == NewFrame(o)
           t == Append(s, f)
<1>1. s \in Seq(Frame) /\ Len(s) \in Nat \ {0} /\ s[Len(s)].pc = "deps"
  BY TopFrame
<1>2. f \in Frame /\ f.pc = "claim"
  BY DEF NewFrame, Frame
<1>3. /\ t \in Seq(Frame) /\ t # <<>> /\ Len(t) = Len(s) + 1
      /\ t[Len(s) + 1] = f /\ \A j \in 1 .. Len(s) : t[j] = s[j]
  BY <1>1, <1>2, AppendProperties
<1>4. sched' \in [Comp -> Seq(Frame)] /\ sched'[c] = t
      /\ \A d \in Comp : d # c => sched'[d] = sched[d]
  BY <1>3 DEF ThreadTypeOK
<1> HIDE DEF t, f
<1>5. Top(c)' = f
  BY <1>3, <1>4 DEF Top, Last
<1>6. ASSUME NEW d \in Comp, NEW j \in DOMAIN sched'[d]
      PROVE  /\ FrameOK(pass'[d], sched'[d][j])
             /\ j # Len(sched'[d]) => sched'[d][j].pc = "deps"
  <2>1. CASE d # c
    BY <2>1, <1>4, <1>6 DEF StackOK
  <2>2. CASE d = c
    <3>1. DOMAIN t = 1 .. Len(s) + 1 /\ DOMAIN s = 1 .. Len(s)
      BY <1>1, <1>3, LenProperties
    <3>2. CASE j = Len(s) + 1
      BY <2>2, <3>2, <1>2, <1>3, <1>4 DEF FrameOK
    <3>3. CASE j # Len(s) + 1
      <4>1. j \in 1 .. Len(s) /\ t[j] = s[j]
        BY <2>2, <3>1, <3>3, <1>1, <1>3, <1>4, <1>6
      <4>2. FrameOK(pass[c], s[j]) /\ s[j].pc = "deps"
        BY <4>1, <3>1, <1>1 DEF StackOK
      <4> QED
        BY <2>2, <4>1, <4>2, <1>4
    <3> QED
      BY <3>2, <3>3
  <2> QED
    BY <2>1, <2>2
<1> QED
  BY <1>3, <1>4, <1>5, <1>6 DEF StackOK, f

\* A return: the caller subscribes, or the outermost call lets go of the lock.
LEMMA ReturnKeeps ==
    ASSUME ThreadTypeOK, StackOK, MainOK, NEW c \in Comp, ~LockFree(c),
           Return(c), UNCHANGED <<pass, work, link>>
    PROVE  /\ sched' \in [Comp -> Seq(Frame)]
           /\ pc' \in [Comp -> MainPc]
           /\ sched'[c] = <<>> => pc'[c] # "wait"
           /\ sched'[c] # <<>> => pc' = pc /\ Top(c)'.pc = "sub"
           /\ \A d \in Comp : d # c => sched'[d] = sched[d] /\ pc'[d] = pc[d]
           /\ StackOK'
           /\ MainOK'
<1> DEFINE s == sched[c]
<1>1. s \in Seq(Frame) /\ Len(s) \in Nat \ {0} /\ s # <<>>
  BY TopFrame, EmptySeq
<1>2. sched \in [Comp -> Seq(Frame)] /\ pc \in [Comp -> MainPc]
  BY DEF ThreadTypeOK
<1>3. CASE Len(s) = 1
  <2>1. sched' = [sched EXCEPT ![c] = <<>>] /\ Signal(c)
    BY <1>3 DEF Return
  <2>2. sched' \in [Comp -> Seq(Frame)] /\ sched'[c] = <<>>
        /\ \A d \in Comp : d # c => sched'[d] = sched[d]
    BY <2>1, <1>2, EmptySeq
  <2>3. StackOK'
    <3> SUFFICES ASSUME NEW d \in Comp, NEW j \in DOMAIN sched'[d]
                 PROVE  /\ FrameOK(pass'[d], sched'[d][j])
                        /\ j # Len(sched'[d]) => sched'[d][j].pc = "deps"
      BY DEF StackOK
    <3>1. d # c
      BY <2>2, EmptySeq, LenProperties
    <3> QED
      BY <3>1, <2>2 DEF StackOK
  <2>4. MainOK'
    BY <2>1, <1>2, MainSignalled
  <2> QED
    BY <2>1, <2>2, <2>3, <2>4, <1>2, SignalKeeps
<1>4. CASE Len(s) # 1
  <2> DEFINE r == Front(s)
             g == [Last(r) EXCEPT !.pc = "sub"]
             t == Append(Front(r), g)
             n == Len(s) - 1
  <2>1. /\ n \in Nat \ {0}
        /\ r \in Seq(Frame) /\ Len(r) = n
        /\ \A j \in 1 .. n : r[j] = s[j]
    BY <1>1, <1>4, FrontProperties
  <2>2. Len(s) = n + 1 /\ DOMAIN s = 1 .. n + 1
    <3>1. DOMAIN s = 1 .. Len(s)
      BY <1>1, LenProperties
    <3> QED
      BY <3>1, <1>1
  <2> HIDE DEF n, r
  <2>3. Last(r) = s[n] /\ s[n] \in Frame /\ s[n].pc = "deps"
        /\ FrameOK(pass[c], s[n])
    <3>1. Last(r) = s[n]
      BY <2>1 DEF Last
    <3>2. n \in 1 .. Len(s)
      BY <2>1, <2>2
    <3>3. s[n] \in Frame
      BY <3>2, <1>1, ElementOfSeq
    <3>4. n \in DOMAIN s /\ n # Len(s)
      BY <2>1, <2>2
    <3> QED
      BY <3>1, <3>3, <3>4 DEF StackOK
  <2>4. g \in Frame /\ FrameOK(pass[c], g) /\ g.pc = "sub"
    BY <2>3 DEF Frame, FrameOK
  <2>5. sched' = [sched EXCEPT ![c] = t] /\ pc' = pc
    BY <1>4 DEF Return, r
  <2> HIDE DEF g
  <2>6. r # <<>>
    BY <2>1, EmptySeq
  <2>7. /\ t \in Seq(Frame) /\ Len(t) = n /\ t[n] = g
        /\ \A j \in 1 .. n : j # n => t[j] = r[j]
    BY <2>1, <2>4, <2>6, ReplaceLast
  <2> HIDE DEF t
  <2>8. sched' \in [Comp -> Seq(Frame)] /\ sched'[c] = t
        /\ \A d \in Comp : d # c => sched'[d] = sched[d]
    BY <2>5, <2>7, <1>2
  <2>9. Top(c)'.pc = "sub"
    BY <2>7, <2>8, <2>4 DEF Top, Last
  <2>10. ASSUME NEW d \in Comp, NEW j \in DOMAIN sched'[d]
         PROVE  /\ FrameOK(pass'[d], sched'[d][j])
                /\ j # Len(sched'[d]) => sched'[d][j].pc = "deps"
    <3>1. CASE d # c
      BY <3>1, <2>8, <2>10 DEF StackOK
    <3>2. CASE d = c /\ j = n
      BY <3>2, <2>4, <2>7, <2>8
    <3>3. CASE d = c /\ j # n
      <4>1. j \in 1 .. n /\ t[j] = s[j]
        BY <3>3, <2>1, <2>7, <2>8, <2>10, LenProperties
      <4> QED
        BY <3>3, <4>1, <2>1, <2>2, <2>8 DEF StackOK
    <3> QED
      BY <3>1, <3>2, <3>3
  <2>11. MainOK'
    BY <2>5, MainSame
  <2>12. t # <<>>
    BY <2>1, <2>7, EmptySeq
  <2> QED
    BY <2>5, <2>8, <2>9, <2>10, <2>11, <2>12, <1>2 DEF StackOK
<1> QED
  BY <1>3, <1>4

\* Going on to the next dependency, or to the procedure.
LEMMA AfterDepsFrame ==
    ASSUME NEW p, NEW f \in Frame, NEW i \in Nat, NEW met \in BOOLEAN,
           p[f.obj] \in 1 .. MaxPass
    PROVE  /\ AfterDeps(f, i, met) \in Frame
           /\ AfterDeps(f, i, met).obj = f.obj
           /\ AfterDeps(f, i, met).pc \in {"deps", "rules"}
           /\ FrameOK(p, AfterDeps(f, i, met))
<1> DEFINE g == AfterDeps(f, i, met)
<1> HIDE DEF g
<1>1. g \in Frame /\ g.obj = f.obj /\ g.pc \in {"deps", "rules"}
      /\ (g.pc = "deps" => i < Len(Deps[f.obj]) /\ g.i = i + 1)
  <2>1. CASE i < Len(Deps[f.obj])
    <3> DEFINE k == i + 1
    <3>1. g = [f EXCEPT !.pc = "deps", !.i = k, !.met = met]
      BY <2>1 DEF AfterDeps, g
    <3>2. k \in Nat
      OBVIOUS
    <3> HIDE DEF k
    <3>3. g \in Frame /\ g.obj = f.obj /\ g.pc = "deps" /\ g.i = k
      BY <3>1, <3>2 DEF Frame
    <3> QED
      BY <2>1, <3>3 DEF k
  <2>2. CASE ~(i < Len(Deps[f.obj]))
    <3>1. g = [f EXCEPT !.pc = "rules", !.i = 1, !.met = met]
      BY <2>2 DEF AfterDeps, g
    <3> QED
      BY <3>1 DEF Frame
  <2> QED
    BY <2>1, <2>2
<1>2. Deps[f.obj] \in Seq(Obj)
  BY DepsAssumption DEF Frame
<1>3. g.pc = "deps" => g.i \in DOMAIN Deps[f.obj]
  BY <1>1, <1>2, LenProperties
<1> QED
  BY <1>1, <1>3 DEF FrameOK, g

\* The outermost call takes the lock.
LEMMA OpenKeeps ==
    ASSUME ThreadTypeOK, StackOK, NEW c \in Comp, NEW o \in Obj, UNCHANGED pass,
           sched' = [sched EXCEPT ![c] = <<NewFrame(o)>>]
    PROVE  /\ sched' \in [Comp -> Seq(Frame)]
           /\ sched'[c] # <<>>
           /\ Top(c)' = NewFrame(o)
           /\ \A d \in Comp : d # c => sched'[d] = sched[d]
           /\ StackOK'
<1> DEFINE f == NewFrame(o)
<1>1. f \in Frame /\ f.pc = "claim"
  BY DEF NewFrame, Frame
<1>2. <<f>> \in Seq(Frame) /\ Len(<<f>>) = 1 /\ <<f>>[1] = f
  BY <1>1
<1> HIDE DEF f
<1>3. sched' \in [Comp -> Seq(Frame)] /\ sched'[c] = <<f>>
      /\ \A d \in Comp : d # c => sched'[d] = sched[d]
  BY <1>2 DEF ThreadTypeOK, f
<1>4. ASSUME NEW d \in Comp, NEW j \in DOMAIN sched'[d]
      PROVE  /\ FrameOK(pass'[d], sched'[d][j])
             /\ j # Len(sched'[d]) => sched'[d][j].pc = "deps"
  <2>1. CASE d # c
    BY <2>1, <1>3, <1>4 DEF StackOK
  <2>2. CASE d = c
    <3>1. j = 1
      BY <2>2, <1>2, <1>3, <1>4, LenProperties
    <3> QED
      BY <2>2, <3>1, <1>1, <1>2, <1>3 DEF FrameOK
  <2> QED
    BY <2>1, <2>2
<1>5. Top(c)' = f /\ sched'[c] # <<>>
  BY <1>2, <1>3, EmptySeq DEF Top, Last
<1> QED
  BY <1>3, <1>4, <1>5 DEF StackOK, f

-----------------------------------------------------------------------------
(***************************************************************************)
(* Subscriptions.                                                          *)
(***************************************************************************)

SubsGrow ==
    \A d \in Comp : \A e \in Entry : DOMAIN subs[d][e] \subseteq DOMAIN subs'[d][e]

\* No subscription is ever taken off its list, so that activate_subs finds
\* the one it stopped at.
LEMMA ActStays == ActOK /\ SubsGrow /\ UNCHANGED act => ActOK'
BY DEF ActOK, SubsGrow

\* sub_target.
LEMMA SubTargetKeeps ==
    ASSUME DbTypeOK, NEW c \in Comp, NEW e \in Entry, NEW n \in Waiter,
           SubTarget(c, e, n), UNCHANGED <<realized, pending, pass>>
    PROVE  DbTypeOK' /\ SubsGrow
<1> DEFINE Sub == [node : Waiter, done : BOOLEAN]
           x == [node |-> n, done |-> FALSE]
           t == Append(subs[c][e], x)
<1>1. x \in Sub
  OBVIOUS
<1>2. subs[c][e] \in Seq(Sub)
  BY DEF DbTypeOK
<1> HIDE DEF x, Sub
<1>3. t \in Seq(Sub) /\ DOMAIN subs[c][e] \subseteq DOMAIN t
  BY <1>1, <1>2, AppendProperties, LenProperties
<1>4. subs' = [subs EXCEPT ![c][e] = t]
  BY DEF SubTarget, x
<1> HIDE DEF t
<1>5. subs \in [Comp -> [Entry -> Seq(Sub)]]
  BY DEF DbTypeOK, Sub
<1>6. subs' \in [Comp -> [Entry -> Seq(Sub)]] /\ SubsGrow
  BY <1>3, <1>4, <1>5 DEF SubsGrow
<1>7. deps' \in [Comp -> [Waiter -> Int]]
  BY DEF SubTarget, DbTypeOK
<1> QED
  BY <1>6, <1>7 DEF DbTypeOK, Sub

\* dspaces_sub.
LEMMA SubscribeKeeps ==
    ASSUME DataTypeOK, NetOK, NEW c \in Comp, NEW o, NEW k, NEW p,
           Subscribe(c, o, k, p), UNCHANGED <<netVars, published, ran>>
    PROVE  DataTypeOK' /\ NetOK'
<1>1. xfer' \in [Comp -> [SubNode -> XferState]]
  BY DEF Subscribe, DataTypeOK, XferState
<1> QED
  BY <1>1 DEF DataTypeOK, NetOK, netVars

\* The invariant after a step that leaves most of the state alone, and puts
\* a new frame on top of the stack.
LEMMA TopKeeps ==
    ASSUME IInv, NEW c \in Comp, ~LockFree(c), NEW g \in Frame,
           FrameOK(pass[c], g), SetTop(c, g),
           UNCHANGED <<pass, act, mainVars, count>>,
           DbTypeOK', DataTypeOK', NetOK', SubsGrow,
           wq' \in [Comp -> Seq(Node)]
    PROVE  IInv'
<1> USE DEF IInv, TypeOK
<1>1. PassGrows /\ FrameOK(pass'[c], g)
  BY DEF PassGrows
<1>2. sched' \in [Comp -> Seq(Frame)] /\ StackOK'
  BY <1>1, SetTopKeeps
<1>3. ThreadTypeOK'
  BY <1>2 DEF ThreadTypeOK, mainVars
<1> QED
  BY <1>2, <1>3, ActStays, MainSame DEF mainVars

-----------------------------------------------------------------------------
(***************************************************************************)
(* The steps of tpoint_watch.                                              *)
(***************************************************************************)

\* tpoint_watch opens a stack or signals.
LEMMA RecvTpointKeeps ==
    ASSUME IInv, NEW c \in Comp, NEW m \in tpNet, RecvTpoint(c, m)
    PROVE  IInv'
<1> USE DEF IInv, TypeOK
<1> DEFINE o == Touch[m.from][m.n]
<1>1. o \in Obj
  <2>1. m.from \in Comp /\ m.n \in DOMAIN Touch[m.from]
    BY DEF NetOK, DataTypeOK, TpMsg
  <2>2. Touch[m.from] \in Seq(Obj)
    BY <2>1, TouchAssumption
  <2> QED
    BY <2>1, <2>2, ElementOfSeq, LenProperties
<1>2. DataTypeOK' /\ NetOK'
  BY DEF RecvTpoint, DataTypeOK, NetOK, dataVars
<1>3. DbTypeOK' /\ ActOK'
  BY DbSame, ActSame DEF RecvTpoint, dbVars
<1>4. ThreadTypeOK' /\ StackOK' /\ MainOK'
  <2>1. CASE ObjectRealized(c, o)
    <3>1. Signal(c) /\ UNCHANGED <<sched, wq, act, work, link, tp, count, pass>>
      BY <2>1 DEF RecvTpoint, dbVars
    <3>2. pc' \in [Comp -> MainPc]
      BY <3>1, SignalKeeps DEF ThreadTypeOK
    <3>3. MainOK'
      BY <3>1, MainSignalled DEF ThreadTypeOK
    <3> QED
      BY <3>1, <3>2, <3>3, StackSame DEF ThreadTypeOK
  <2>2. CASE ~ObjectRealized(c, o)
    <3>1. /\ sched' = [sched EXCEPT ![c] = <<NewFrame(o)>>]
          /\ UNCHANGED <<pc, wq, act, work, link, tp, count, pass>>
      BY <2>2 DEF RecvTpoint, dbVars
    <3>2. sched' \in [Comp -> Seq(Frame)] /\ StackOK'
      BY <3>1, <1>1, OpenKeeps
    <3> QED
      BY <3>1, <3>2, MainSame DEF ThreadTypeOK
  <2> QED
    BY <2>1, <2>2
<1> QED
  BY <1>2, <1>3, <1>4

\* schedule_target finds the object pending and returns.
LEMMA FindPendingKeeps ==
    ASSUME IInv, NEW c \in Comp, FindPending(c)
    PROVE  IInv'
<1> USE DEF IInv, TypeOK
<1>1. /\ ~LockFree(c) /\ Return(c)
      /\ UNCHANGED <<dbVars, wq, act, work, link, tp, count, netVars, dataVars,
                     ran>>
  BY DEF FindPending
<1>2. UNCHANGED <<pass, subs>>
  BY <1>1 DEF dbVars
<1>3. /\ sched' \in [Comp -> Seq(Frame)] /\ pc' \in [Comp -> MainPc]
      /\ StackOK' /\ MainOK'
  BY <1>1, <1>2, ReturnKeeps
<1>4. ThreadTypeOK'
  BY <1>1, <1>3 DEF ThreadTypeOK
<1> QED
  BY <1>1, <1>2, <1>3, <1>4, DbSame, DataSame, ActSame

\* schedule_target makes the object pending.
LEMMA ClaimKeeps ==
    ASSUME IInv, NEW c \in Comp, Claim(c)
    PROVE  IInv'
<1> USE DEF IInv, TypeOK
<1> DEFINE f == Top(c)
           g == AfterDeps(f, 0, TRUE)
<1>1. /\ ~LockFree(c) /\ pass[c][f.obj] < MaxPass
      /\ pending' = [pending EXCEPT ![c] = @ \cup {f.obj}]
      /\ pass' = [pass EXCEPT ![c][f.obj] = @ + 1]
      /\ SetTop(c, g)
      /\ UNCHANGED <<realized, subs, deps, wq, act, mainVars, count, netVars,
                     dataVars, ran>>
  BY DEF Claim
<1>2. f \in Frame /\ f.obj \in Obj
  BY <1>1, TopFrame DEF Frame
<1>3. /\ pass' \in [Comp -> [Obj -> 0 .. MaxPass]]
      /\ pass'[c][f.obj] \in 1 .. MaxPass
      /\ PassGrows
  <2> HIDE DEF f
  <2> QED
    BY <1>1, <1>2, MaxPassAssumption DEF DbTypeOK, PassGrows
<1>4. pending' \in [Comp -> SUBSET Obj]
  BY <1>1, <1>2 DEF DbTypeOK
<1>5. DbTypeOK'
  BY <1>1, <1>3, <1>4 DEF DbTypeOK
<1>6. g \in Frame /\ FrameOK(pass'[c], g)
  BY <1>2, <1>3, AfterDepsFrame
<1>7. sched' \in [Comp -> Seq(Frame)] /\ StackOK'
  BY <1>1, <1>3, <1>6, SetTopKeeps
<1>8. ThreadTypeOK'
  BY <1>1, <1>7 DEF ThreadTypeOK, mainVars
<1> QED
  BY <1>1, <1>5, <1>7, <1>8, DataSame, ActSame, MainSame DEF mainVars

\* The dependency a frame is at.
LEMMA DepOfFrame ==
    ASSUME NEW p, NEW f \in Frame, FrameOK(p, f), f.pc \in {"deps", "sub"}
    PROVE  Deps[f.obj][f.i] \in Obj /\ f.obj \in Obj /\ p[f.obj] \in 1 .. MaxPass
<1>1. f.obj \in Obj /\ f.i \in DOMAIN Deps[f.obj] /\ p[f.obj] \in 1 .. MaxPass
  BY DEF Frame, FrameOK
<1>2. Deps[f.obj] \in Seq(Obj)
  BY <1>1, DepsAssumption
<1> QED
  BY <1>1, <1>2, ElementOfSeq, LenProperties

\* schedule_target looks at a dependency.
LEMMA CheckDepKeeps ==
    ASSUME IInv, NEW c \in Comp, CheckDep(c)
    PROVE  IInv'
<1> USE DEF IInv, TypeOK
<1> DEFINE f == Top(c)
           d == Deps[f.obj][f.i]
           g == AfterDeps(f, f.i, f.met)
<1>1. /\ ~LockFree(c) /\ f.pc = "deps"
      /\ UNCHANGED <<dbVars, wq, act, mainVars, count, netVars, dataVars, ran>>
  BY DEF CheckDep
<1>2. UNCHANGED <<pass, subs>> /\ SubsGrow
  BY <1>1 DEF dbVars, SubsGrow
<1>3. f \in Frame /\ FrameOK(pass[c], f)
  BY <1>1, TopFrame
<1>4. d \in Obj /\ f.obj \in Obj /\ pass[c][f.obj] \in 1 .. MaxPass
  BY <1>1, <1>3, DepOfFrame
<1>5. DbTypeOK' /\ DataTypeOK' /\ NetOK'
  BY <1>1, DbSame, DataSame
<1>6. CASE ObjectRealized(c, d)
  <2>1. SetTop(c, g)
    BY <1>6 DEF CheckDep
  <2>2. f.i \in Nat /\ f.met \in BOOLEAN
    BY <1>3 DEF Frame
  <2>3. g \in Frame /\ FrameOK(pass[c], g)
    BY <1>3, <1>4, <2>2, AfterDepsFrame
  <2>4. wq' \in [Comp -> Seq(Node)]
    BY <1>1 DEF ThreadTypeOK
  <2> QED
    BY <1>1, <1>2, <1>5, <2>1, <2>3, <2>4, TopKeeps
<1>7. CASE ~ObjectRealized(c, d)
  <2>1. sched' = [sched EXCEPT ![c] = Append(@, NewFrame(d))]
    BY <1>7 DEF CheckDep
  <2>2. sched' \in [Comp -> Seq(Frame)] /\ StackOK'
    BY <1>1, <1>2, <1>4, <2>1, CallKeeps
  <2>3. ThreadTypeOK'
    BY <1>1, <2>2 DEF ThreadTypeOK, mainVars
  <2> QED
    BY <1>1, <1>2, <1>5, <2>2, <2>3, ActSame, MainSame DEF mainVars
<1> QED
  BY <1>6, <1>7

\* schedule_target subscribes an initiation to a dependency.
LEMMA SubDepKeeps ==
    ASSUME IInv, NEW c \in Comp, SubDep(c)
    PROVE  IInv'
<1> USE DEF IInv, TypeOK
<1> DEFINE f == Top(c)
           d == Deps[f.obj][f.i]
           g == AfterDeps(f, f.i, FALSE)
<1>1. /\ ~LockFree(c) /\ f.pc = "sub"
      /\ SubTarget(c, <<d, 0>>, InitNode(f.obj, pass[c][f.obj]))
      /\ SetTop(c, g)
      /\ UNCHANGED <<realized, pending, pass, wq, act, mainVars, count, netVars,
                     dataVars, ran>>
  BY DEF SubDep
<1>2. f \in Frame /\ FrameOK(pass[c], f) /\ f.i \in Nat
  BY <1>1, TopFrame DEF Frame
<1>3. d \in Obj /\ f.obj \in Obj /\ pass[c][f.obj] \in 1 .. MaxPass
  BY <1>1, <1>2, DepOfFrame
<1>4. <<d, 0>> \in Entry
  BY <1>3, ProcAssumption DEF Entry
<1>5. InitNode(f.obj, pass[c][f.obj]) \in Waiter
  BY <1>3, NodesMade
<1>6. DbTypeOK' /\ SubsGrow
  BY <1>1, <1>4, <1>5, SubTargetKeeps
<1>7. g \in Frame /\ FrameOK(pass[c], g)
  BY <1>2, <1>3, AfterDepsFrame
<1>8. wq' \in [Comp -> Seq(Node)] /\ DataTypeOK' /\ NetOK'
  BY <1>1, DataSame DEF ThreadTypeOK
<1> QED
  BY <1>1, <1>6, <1>7, <1>8, TopKeeps

\* A frame past its dependencies.
LEMMA RuleFrame ==
    ASSUME IInv, NEW c \in Comp, ~LockFree(c), Top(c).pc \in {"rules", "chain", "end"}
    PROVE  /\ Top(c) \in Frame /\ FrameOK(pass[c], Top(c))
           /\ Top(c).obj \in Obj /\ pass[c][Top(c).obj] \in 1 .. MaxPass
<1>1. Top(c) \in Frame /\ FrameOK(pass[c], Top(c))
  BY TopFrame DEF IInv, TypeOK
<1> QED
  BY <1>1 DEF Frame, FrameOK

\* Queueing a node keeps the queue's type.
LEMMA QueueType ==
    ASSUME ThreadTypeOK, NEW c \in Comp, NEW n \in Node
    PROVE  [wq EXCEPT ![c] = MakeActive(@, n)] \in [Comp -> Seq(Node)]
BY MakeActiveType DEF ThreadTypeOK

\* schedule_subrules makes a chain active, or is about to subscribe it.
LEMMA CheckChainKeeps ==
    ASSUME IInv, NEW c \in Comp, NEW k, CheckChain(c, k)
    PROVE  IInv'
<1> USE DEF IInv, TypeOK
<1> DEFINE f == Top(c)
           o == f.obj
           p == pass[c][o]
<1>1. /\ ~LockFree(c) /\ f.pc = "rules" /\ k \in Steps(o)
      /\ UNCHANGED <<dbVars, act, mainVars, count, netVars, published, ran>>
  BY DEF CheckChain, ChainStart
<1>2. f \in Frame /\ o \in Obj /\ p \in 1 .. MaxPass
  BY <1>1, RuleFrame
<1>3. DbTypeOK' /\ SubsGrow /\ UNCHANGED pass
  BY <1>1, DbSame DEF dbVars, SubsGrow
<1>4. k \in Nat /\ k + 1 \in Nat
  BY <1>1, ProcAssumption, <1>2 DEF Steps
<1>5. CASE <<o, k - 1>> \in realized[c]
  <2> DEFINE g == [f EXCEPT !.i = k + 1]
  <2>1. /\ wq' = [wq EXCEPT ![c] = MakeActive(@, ChainNode(o, k, p))]
        /\ Subscribe(c, o, k, p) /\ SetTop(c, g)
    BY <1>5 DEF CheckChain
  <2>2. ChainNode(o, k, p) \in Node
    BY <1>1, <1>2, NodesMade DEF Waiter
  <2>3. wq' \in [Comp -> Seq(Node)]
    BY <2>1, <2>2, QueueType
  <2>4. DataTypeOK' /\ NetOK'
    BY <1>1, <2>1, SubscribeKeeps
  <2>5. g \in Frame /\ FrameOK(pass[c], g)
    <3> HIDE DEF f, p
    <3>1. g \in Frame /\ g.pc = "rules" /\ g.obj = o
      BY <1>1, <1>2, <1>4 DEF Frame
    <3> QED
      BY <3>1, <1>2 DEF FrameOK, p
  <2> QED
    BY <1>1, <1>3, <2>1, <2>3, <2>4, <2>5, TopKeeps
<1>6. CASE <<o, k - 1>> \notin realized[c]
  <2> DEFINE g == [f EXCEPT !.pc = "chain", !.i = k]
  <2>1. SetTop(c, g) /\ UNCHANGED <<wq, xfer>>
    BY <1>6 DEF CheckChain
  <2>2. wq' \in [Comp -> Seq(Node)]
    BY <2>1 DEF ThreadTypeOK
  <2>3. DataTypeOK' /\ NetOK'
    BY <1>1, <2>1, DataSame DEF dataVars
  <2>4. g \in Frame /\ FrameOK(pass[c], g)
    <3> HIDE DEF f, p
    <3>1. g \in Frame /\ g.pc = "chain" /\ g.obj = o /\ g.i = k
      BY <1>1, <1>2, <1>4 DEF Frame
    <3> QED
      BY <3>1, <1>1, <1>2 DEF FrameOK, p
  <2> QED
    BY <1>1, <1>3, <2>1, <2>2, <2>3, <2>4, TopKeeps
<1> QED
  BY <1>5, <1>6

\* schedule_subrules subscribes a chain.
LEMMA SubChainKeeps ==
    ASSUME IInv, NEW c \in Comp, SubChain(c)
    PROVE  IInv'
<1> USE DEF IInv, TypeOK
<1> DEFINE f == Top(c)
           o == f.obj
           p == pass[c][o]
           k == f.i
           g == [f EXCEPT !.pc = "rules", !.i = @ + 1]
<1>1. /\ ~LockFree(c) /\ f.pc = "chain"
      /\ SubTarget(c, ChainEntry(o, k), ChainNode(o, k, p))
      /\ Subscribe(c, o, k, p)
      /\ SetTop(c, g)
      /\ UNCHANGED <<realized, pending, pass, wq, act, mainVars, count, netVars,
                     published, ran>>
  BY DEF SubChain
<1>2. f \in Frame /\ FrameOK(pass[c], f) /\ o \in Obj /\ p \in 1 .. MaxPass
  BY <1>1, RuleFrame
<1>3. k \in Steps(o) /\ k \in Nat
  BY <1>1, <1>2 DEF FrameOK, Frame
<1>4. ChainEntry(o, k) \in Entry
  <2> HIDE DEF f, k
  <2>1. Len(Proc[o]) \in Nat
    BY <1>2, ProcAssumption
  <2>2. (IF k = 1 THEN -1 ELSE k - 1) \in -1 .. Len(Proc[o])
    BY <1>3, <2>1 DEF Steps
  <2> QED
    BY <1>2, <2>2 DEF ChainEntry, Entry
<1>5. ChainNode(o, k, p) \in Waiter
  BY <1>2, <1>3, NodesMade
<1>6. DbTypeOK' /\ SubsGrow
  BY <1>1, <1>4, <1>5, SubTargetKeeps
<1>7. DataTypeOK' /\ NetOK'
  BY <1>1, SubscribeKeeps
<1>8. g \in Frame /\ FrameOK(pass[c], g)
  <2> HIDE DEF f, p
  <2>1. k + 1 \in Nat
    BY <1>3
  <2>2. g \in Frame /\ g.pc = "rules" /\ g.obj = o
    BY <1>2, <2>1 DEF Frame
  <2> QED
    BY <2>2, <1>2 DEF FrameOK, p
<1>9. wq' \in [Comp -> Seq(Node)]
  BY <1>1 DEF ThreadTypeOK
<1> QED
  BY <1>1, <1>6, <1>7, <1>8, <1>9, TopKeeps

\* schedule_target subscribes the realization of an object.
LEMMA SubFiniKeeps ==
    ASSUME IInv, NEW c \in Comp, SubFini(c)
    PROVE  IInv'
<1> USE DEF IInv, TypeOK
<1> DEFINE f == Top(c)
           o == f.obj
           p == pass[c][o]
           g == [f EXCEPT !.pc = "end"]
<1>1. /\ ~LockFree(c) /\ f.pc = "rules"
      /\ SubTarget(c, FiniEntry(o), FiniNode(o, p))
      /\ SetTop(c, g)
      /\ UNCHANGED <<realized, pending, pass, wq, act, mainVars, count, netVars,
                     dataVars, ran>>
  BY DEF SubFini
<1>2. f \in Frame /\ FrameOK(pass[c], f) /\ o \in Obj /\ p \in 1 .. MaxPass
  BY <1>1, RuleFrame
<1>3. FiniEntry(o) \in Entry
  BY <1>2, ProcAssumption DEF FiniEntry, Entry
<1>4. FiniNode(o, p) \in Waiter
  BY <1>2, NodesMade
<1>5. DbTypeOK' /\ SubsGrow
  BY <1>1, <1>3, <1>4, SubTargetKeeps
<1>6. g \in Frame /\ FrameOK(pass[c], g)
  BY <1>2 DEF Frame, FrameOK
<1>7. wq' \in [Comp -> Seq(Node)] /\ DataTypeOK' /\ NetOK'
  BY <1>1, DataSame DEF ThreadTypeOK
<1> QED
  BY <1>1, <1>5, <1>6, <1>7, TopKeeps

\* schedule_target returns.
LEMMA EndScheduleKeeps ==
    ASSUME IInv, NEW c \in Comp, EndSchedule(c)
    PROVE  IInv'
<1> USE DEF IInv, TypeOK
<1> DEFINE f == Top(c)
           n == InitNode(f.obj, pass[c][f.obj])
<1>1. /\ ~LockFree(c) /\ f.pc \in {"end", "rules"} /\ Return(c)
      /\ wq' = [wq EXCEPT ![c] = IF f.met THEN MakeActive(@, n) ELSE @]
      /\ UNCHANGED <<dbVars, act, work, link, tp, count, netVars, dataVars, ran>>
  BY DEF EndSchedule
<1>2. UNCHANGED <<pass, subs>>
  BY <1>1 DEF dbVars
<1>3. n \in Node
  BY <1>1, RuleFrame, NodesMade DEF Waiter
<1>4. wq' \in [Comp -> Seq(Node)]
  BY <1>1, <1>3, MakeActiveType DEF ThreadTypeOK
<1>5. /\ sched' \in [Comp -> Seq(Frame)] /\ pc' \in [Comp -> MainPc]
      /\ StackOK' /\ MainOK'
  BY <1>1, <1>2, ReturnKeeps
<1>6. ThreadTypeOK'
  BY <1>1, <1>4, <1>5 DEF ThreadTypeOK
<1> QED
  BY <1>1, <1>2, <1>5, <1>6, DbSame, DataSame, ActSame

-----------------------------------------------------------------------------
(***************************************************************************)
(* activate_subs and the handlers.                                         *)
(***************************************************************************)

\* A new call of activate_subs on an entry that exists.
LEMMA NewActivationKeeps ==
    ASSUME ThreadTypeOK, ActOK, SubsGrow, NEW c \in Comp,
           NEW by \in {"main", "watch", "notify"}, NEW d \in Comp, NEW o \in Obj,
           NEW k \in Int, NEW p \in 0 .. MaxPass, <<o, k>> \in Entry,
           act' = [act EXCEPT ![c] = @ \cup {NewActivation(by, d, o, k, p)}]
    PROVE  act' \in [Comp -> SUBSET Activation] /\ ActOK'
<1> DEFINE a == NewActivation(by, d, o, k, p)
<1>1. a \in Activation /\ a.obj = o /\ a.at = k /\ a.push = FALSE
  BY DEF NewActivation, Activation
<1> HIDE DEF a
<1>2. /\ act' \in [Comp -> SUBSET Activation]
      /\ act'[c] = act[c] \cup {a}
      /\ \A e \in Comp : e # c => act'[e] = act[e]
  BY <1>1 DEF ThreadTypeOK, a
<1>3. ActOK'
  <2> SUFFICES ASSUME NEW e \in Comp, NEW b \in act'[e]
               PROVE  /\ <<b.obj, b.at>> \in Entry
                      /\ b.push => b.pos \in DOMAIN subs'[e][<<b.obj, b.at>>]
    BY DEF ActOK
  <2>1. CASE b \in act[e]
    BY <2>1 DEF ActOK, SubsGrow
  <2>2. CASE b \notin act[e]
    <3>1. b = a
      BY <2>2, <1>2
    <3> QED
      BY <3>1, <1>1
  <2> QED
    BY <2>1, <2>2
<1> QED
  BY <1>2, <1>3

\* A call of activate_subs goes on.
LEMMA MoveActivationKeeps ==
    ASSUME ThreadTypeOK, ActOK, SubsGrow, NEW c \in Comp, NEW a \in act[c],
           NEW b \in Activation, b.obj = a.obj, b.at = a.at,
           b.push => b.pos \in DOMAIN subs'[c][<<b.obj, b.at>>],
           act' = [act EXCEPT ![c] = (@ \ {a}) \cup {b}]
    PROVE  act' \in [Comp -> SUBSET Activation] /\ ActOK'
<1>1. /\ act' \in [Comp -> SUBSET Activation]
      /\ act'[c] = (act[c] \ {a}) \cup {b}
      /\ \A e \in Comp : e # c => act'[e] = act[e]
  BY DEF ThreadTypeOK
<1>2. ActOK'
  <2> SUFFICES ASSUME NEW e \in Comp, NEW x \in act'[e]
               PROVE  /\ <<x.obj, x.at>> \in Entry
                      /\ x.push => x.pos \in DOMAIN subs'[e][<<x.obj, x.at>>]
    BY DEF ActOK
  <2>1. CASE x \in act[e]
    BY <2>1 DEF ActOK, SubsGrow
  <2>2. CASE x \notin act[e]
    <3>1. x = b /\ e = c
      BY <2>2, <1>1
    <3>2. <<a.obj, a.at>> \in Entry
      BY DEF ActOK
    <3> QED
      BY <3>1, <3>2
  <2> QED
    BY <2>1, <2>2
<1> QED
  BY <1>1, <1>2

\* activate_subs counts down.
LEMMA CountDownType ==
    ASSUME DbTypeOK, NEW c \in Comp, NEW a, NEW I, CountDown(c, a, I)
    PROVE  deps' \in [Comp -> [Waiter -> Int]]
<1> DEFINE f == [n \in Waiter |->
                   IF \E i \in I : subs[c][<<a.obj, a.at>>][i].node = n
                     THEN deps[c][n] - 1 ELSE deps[c][n]]
<1>1. deps' = [deps EXCEPT ![c] = f]
  BY DEF CountDown
<1>2. f \in [Waiter -> Int]
  BY DEF DbTypeOK
<1> QED
  BY <1>1, <1>2 DEF DbTypeOK

\* activate_subs finds a node to queue.
LEMMA ScanHitKeeps ==
    ASSUME IInv, NEW c \in Comp, NEW a \in act[c], NEW i, ScanHit(c, a, i)
    PROVE  IInv'
<1> USE DEF IInv, TypeOK
<1> DEFINE e == <<a.obj, a.at>>
           b == [a EXCEPT !.pos = i, !.push = TRUE]
           Sub == [node : Waiter, done : BOOLEAN]
           t == [subs[c][e] EXCEPT ![i] = [subs[c][e][i] EXCEPT !.done = TRUE]]
<1>1. /\ i \in DOMAIN subs[c][e]
      /\ \E I : CountDown(c, a, I)
      /\ subs' = [subs EXCEPT ![c][e][i].done = TRUE]
      /\ act' = [act EXCEPT ![c] = (@ \ {a}) \cup {b}]
      /\ UNCHANGED <<realized, pending, pass, wq, sched, mainVars, count,
                     netVars, dataVars, ran>>
  BY DEF ScanHit, Due, Open
<1>2. a \in Activation /\ e \in Entry
  BY DEF ThreadTypeOK, ActOK
<1>3. subs \in [Comp -> [Entry -> Seq(Sub)]] /\ subs[c][e] \in Seq(Sub)
  BY <1>2 DEF DbTypeOK
<1>4. i \in 1 .. Len(subs[c][e]) /\ i \in Nat
  BY <1>1, <1>3, LenProperties
<1>5. [subs[c][e][i] EXCEPT !.done = TRUE] \in Sub
  <2> DEFINE x == subs[c][e][i]
  <2>1. x \in Sub
    BY <1>3, <1>4, ElementOfSeq
  <2> HIDE DEF x
  <2>2. [x EXCEPT !.done = TRUE] \in Sub
    BY <2>1
  <2> QED
    BY <2>2 DEF x
<1>6. subs' = [subs EXCEPT ![c][e] = t]
  BY <1>1
<1> HIDE DEF Sub
<1>7. t \in Seq(Sub) /\ DOMAIN t = DOMAIN subs[c][e]
  BY <1>3, <1>4, <1>5, ExceptSeq
<1> HIDE DEF t, e
<1>8. /\ subs' \in [Comp -> [Entry -> Seq(Sub)]]
      /\ SubsGrow
      /\ subs'[c][e] = t
  BY <1>2, <1>3, <1>6, <1>7 DEF SubsGrow
<1>9. DbTypeOK'
  BY <1>1, <1>8, CountDownType DEF DbTypeOK, Sub
<1>10. b \in Activation /\ b.obj = a.obj /\ b.at = a.at /\ b.pos = i
  BY <1>2, <1>4 DEF Activation
<1>11. act' \in [Comp -> SUBSET Activation] /\ ActOK'
  <2>1. i \in DOMAIN subs'[c][<<b.obj, b.at>>]
    BY <1>1, <1>7, <1>8, <1>10 DEF e
  <2> HIDE DEF b
  <2> QED
    BY <1>1, <1>8, <1>10, <2>1, MoveActivationKeeps
<1>12. ThreadTypeOK'
  BY <1>1, <1>11 DEF ThreadTypeOK, mainVars
<1> QED
  BY <1>1, <1>9, <1>11, <1>12, DataSame, StackSame, MainSame DEF mainVars

\* activate_subs queues it.
LEMMA PushKeeps ==
    ASSUME IInv, NEW c \in Comp, NEW a \in act[c], Push(c, a)
    PROVE  IInv'
<1> USE DEF IInv, TypeOK
<1> DEFINE e == <<a.obj, a.at>>
           n == subs[c][e][a.pos].node
           b == [a EXCEPT !.pos = @ + 1, !.push = FALSE]
<1>1. /\ a.push /\ Signal(c)
      /\ wq' = [wq EXCEPT ![c] = MakeActive(@, n)]
      /\ act' = [act EXCEPT ![c] = (@ \ {a}) \cup {b}]
      /\ UNCHANGED <<dbVars, sched, work, link, tp, count, netVars, dataVars,
                     ran>>
  BY DEF Push
<1>2. a \in Activation /\ e \in Entry /\ a.pos \in DOMAIN subs[c][e]
  BY <1>1 DEF ThreadTypeOK, ActOK
<1>3. n \in Node
  <2>1. subs[c][e] \in Seq([node : Waiter, done : BOOLEAN])
    BY <1>2 DEF DbTypeOK
  <2>2. subs[c][e][a.pos] \in [node : Waiter, done : BOOLEAN]
    BY <1>2, <2>1, ElementOfSeq, LenProperties
  <2> QED
    BY <2>2 DEF Waiter
<1>4. UNCHANGED <<subs, pass>> /\ SubsGrow
  BY <1>1 DEF dbVars, SubsGrow
<1>5. wq' \in [Comp -> Seq(Node)]
  BY <1>1, <1>3, QueueType
<1>6. b \in Activation /\ b.obj = a.obj /\ b.at = a.at /\ b.push = FALSE
  <2> DEFINE q == a.pos + 1
  <2>1. q \in Nat
    BY <1>2 DEF Activation
  <2> HIDE DEF q
  <2>2. b = [a EXCEPT !.pos = q, !.push = FALSE]
    BY DEF q
  <2> QED
    BY <1>2, <2>1, <2>2 DEF Activation
<1> HIDE DEF b
<1>7. act' \in [Comp -> SUBSET Activation] /\ ActOK'
  BY <1>1, <1>4, <1>6, MoveActivationKeeps
<1>8. pc' \in [Comp -> MainPc] /\ MainOK'
  BY <1>1, SignalKeeps, MainSignalled DEF ThreadTypeOK
<1>9. ThreadTypeOK'
  BY <1>1, <1>5, <1>7, <1>8 DEF ThreadTypeOK
<1> QED
  BY <1>1, <1>4, <1>7, <1>8, <1>9, DbSame, DataSame, StackSame

\* A node that is announced is a node, at a subrule or at the realization.
LEMMA AnnouncedNode ==
    ASSUME ThreadTypeOK, NEW c \in Comp, Announces(c, work[c])
    PROVE  work[c] \in Node /\ work[c].at \in Nat
<1>1. work[c].kind \in {"fini", "rule"}
  BY DEF Announces
<1>2. work[c] \in Node
  BY <1>1 DEF ThreadTypeOK, NoNode
<1>3. work[c].at = 0 \/ work[c].at \in Steps(work[c].obj)
  BY <1>1, <1>2, NodeFields
<1>4. Steps(work[c].obj) \subseteq Nat
  BY DEF Steps
<1> QED
  BY <1>2, <1>3, <1>4

\* activate_subs returns.
LEMMA ScanEndKeeps ==
    ASSUME IInv, NEW c \in Comp, NEW a \in act[c], ScanEnd(c, a)
    PROVE  IInv'
<1> USE DEF IInv, TypeOK
<1>1. /\ \E I : CountDown(c, a, I)
      /\ act' = [act EXCEPT ![c] = @ \ {a}]
      /\ UNCHANGED <<realized, pending, subs, pass, wq, sched, link, tp, count,
                     netVars, published, ran>>
      /\ \/ UNCHANGED <<pc, work>>
         \/ /\ Announces(c, work[c]) /\ UNCHANGED work
            /\ pc' = [pc EXCEPT ![c] = "announce"]
         \/ /\ pc' = [pc EXCEPT ![c] = "loop"]
            /\ work' = [work EXCEPT ![c] = NoNode]
      /\ \/ \E n : xfer' = [xfer EXCEPT ![c][n] = "done"]
         \/ UNCHANGED xfer
  BY DEF ScanEnd
<1>2. DbTypeOK'
  BY <1>1, CountDownType DEF DbTypeOK
<1>3. act' \in [Comp -> SUBSET Activation] /\ ActOK'
  BY <1>1 DEF ThreadTypeOK, ActOK
<1>4. pc' \in [Comp -> MainPc] /\ work' \in [Comp -> Node \cup {NoNode}]
  BY <1>1 DEF ThreadTypeOK, MainPc
<1>5. ThreadTypeOK'
  BY <1>1, <1>3, <1>4 DEF ThreadTypeOK
<1>6. MainOK'
  <2>1. CASE UNCHANGED <<pc, work>>
    BY <1>1, <2>1, MainSame
  <2>2. CASE /\ Announces(c, work[c]) /\ UNCHANGED work
             /\ pc' = [pc EXCEPT ![c] = "announce"]
    BY <1>1, <2>2, AnnouncedNode DEF MainOK, ThreadTypeOK
  <2>3. CASE /\ pc' = [pc EXCEPT ![c] = "loop"]
             /\ work' = [work EXCEPT ![c] = NoNode]
    BY <1>1, <2>3 DEF MainOK, ThreadTypeOK
  <2> QED
    BY <1>1, <2>1, <2>2, <2>3
<1>7. xfer' \in [Comp -> [SubNode -> XferState]]
  BY <1>1 DEF DataTypeOK, XferState
<1>8. DataTypeOK' /\ NetOK'
  BY <1>1, <1>7 DEF DataTypeOK, NetOK, netVars
<1> QED
  BY <1>1, <1>2, <1>3, <1>5, <1>6, <1>8, StackSame

\* work_watch.
LEMMA RecvWorkKeeps ==
    ASSUME IInv, NEW c \in Comp, NEW m \in workNet, RecvWork(c, m)
    PROVE  IInv'
<1> USE DEF IInv, TypeOK
<1> DEFINE e == <<m.obj, m.at>>
<1>1. /\ workNet' = workNet \ {m}
      /\ realized' = [realized EXCEPT ![c] = @ \cup {e}]
      /\ act' = [act EXCEPT ![c] = @ \cup
                     {NewActivation("watch", m.from, m.obj, m.at, m.pass)}]
      /\ UNCHANGED <<pending, subs, deps, pass, wq, sched, mainVars, count,
                     tpNet, finiNet, dataVars, ran>>
  BY DEF RecvWork
<1>2. e \in Entry /\ m.from \in Comp /\ m.obj \in Obj /\ m.at \in Int
      /\ m.pass \in 0 .. MaxPass
  BY MaxPassAssumption DEF NetOK, DataTypeOK, WorkMsg
<1>3. realized' \in [Comp -> SUBSET Entry]
  BY <1>1, <1>2 DEF DbTypeOK
<1>4. DbTypeOK'
  BY <1>1, <1>3 DEF DbTypeOK
<1>5. SubsGrow
  BY <1>1 DEF SubsGrow
<1>6. act' \in [Comp -> SUBSET Activation] /\ ActOK'
  BY <1>1, <1>2, <1>5, NewActivationKeeps
<1>7. ThreadTypeOK'
  BY <1>1, <1>6 DEF ThreadTypeOK, mainVars
<1>8. DataTypeOK' /\ NetOK'
  BY <1>1 DEF DataTypeOK, NetOK, dataVars
<1> QED
  BY <1>1, <1>4, <1>6, <1>7, <1>8, StackSame, MainSame DEF mainVars

\* fini_watch.
LEMMA RecvFiniKeeps ==
    ASSUME IInv, NEW c \in Comp, NEW m \in finiNet, RecvFini(c, m)
    PROVE  IInv'
<1> USE DEF IInv, TypeOK
<1>1. /\ finiNet' = finiNet \ {m} /\ Signal(c)
      /\ count' = [count EXCEPT ![c] = @ - 1]
      /\ UNCHANGED <<dbVars, wq, sched, act, work, link, tp, tpNet, workNet,
                     dataVars, ran>>
  BY DEF RecvFini
<1>2. pc' \in [Comp -> MainPc] /\ MainOK'
  BY <1>1, SignalKeeps, MainSignalled DEF ThreadTypeOK
<1>3. ThreadTypeOK'
  <2>1. count' \in [Comp -> Int]
    BY <1>1 DEF ThreadTypeOK
  <2> QED
    BY <1>1, <1>2, <2>1 DEF ThreadTypeOK
<1>4. DataTypeOK' /\ NetOK'
  BY <1>1 DEF DataTypeOK, NetOK, dataVars
<1>5. UNCHANGED <<subs, pass>>
  BY <1>1 DEF dbVars
<1> QED
  BY <1>1, <1>2, <1>3, <1>4, <1>5, DbSame, StackSame, ActSame

\* DataSpaces calls handle_notify.
LEMMA NotifyKeeps ==
    ASSUME IInv, NEW c \in Comp, NEW n \in SubNode, Notify(c, n)
    PROVE  IInv'
<1> USE DEF IInv, TypeOK
<1>1. /\ xfer' = [xfer EXCEPT ![c][n] = "running"]
      /\ UNCHANGED <<dbVars, wq, sched, act, mainVars, count, netVars,
                     published, ran>>
  BY DEF Notify
<1>2. DataTypeOK' /\ NetOK'
  BY <1>1 DEF DataTypeOK, NetOK, netVars, XferState
<1>3. ThreadTypeOK'
  BY <1>1 DEF ThreadTypeOK, mainVars
<1>4. UNCHANGED <<subs, pass>>
  BY <1>1 DEF dbVars
<1> QED
  BY <1>1, <1>2, <1>3, <1>4, DbSame, StackSame, ActSame, MainSame DEF mainVars

\* handle_notify goes on.
LEMMA HandleNotifyKeeps ==
    ASSUME IInv, NEW c \in Comp, NEW n \in SubNode, HandleNotify(c, n)
    PROVE  IInv'
<1> USE DEF IInv, TypeOK
<1> DEFINE e == <<n.obj, n.at - 1>>
<1>1. /\ realized' = [realized EXCEPT ![c] = @ \cup {e}]
      /\ xfer' = [xfer EXCEPT ![c][n] = "copied"]
      /\ act' = [act EXCEPT ![c] = @ \cup
                     {NewActivation("notify", c, n.obj, n.at - 1, n.pass)}]
      /\ UNCHANGED <<pending, subs, deps, pass, wq, sched, mainVars, count,
                     netVars, published, ran>>
  BY DEF HandleNotify
<1>2. /\ n.obj \in Obj /\ n.at \in Steps(n.obj) /\ n.pass \in 1 .. MaxPass
  BY NodeFields DEF SubNode
<1>3. n.at - 1 \in -1 .. Len(Proc[n.obj]) /\ n.at - 1 \in Int
  <2>1. Len(Proc[n.obj]) \in Nat
    BY <1>2, ProcAssumption
  <2> QED
    BY <1>2, <2>1 DEF Steps
<1>4. e \in Entry
  BY <1>2, <1>3 DEF Entry
<1>5. n.pass \in 0 .. MaxPass
  BY <1>2, MaxPassAssumption
<1>6. DbTypeOK'
  BY <1>1, <1>4 DEF DbTypeOK
<1>7. SubsGrow
  BY <1>1 DEF SubsGrow
<1>8. act' \in [Comp -> SUBSET Activation] /\ ActOK'
  BY <1>1, <1>2, <1>3, <1>4, <1>5, <1>7, NewActivationKeeps
<1>9. ThreadTypeOK'
  BY <1>1, <1>8 DEF ThreadTypeOK, mainVars
<1>10. DataTypeOK' /\ NetOK'
  BY <1>1 DEF DataTypeOK, NetOK, netVars, XferState
<1> QED
  BY <1>1, <1>6, <1>8, <1>9, <1>10, StackSame, MainSame DEF mainVars

-----------------------------------------------------------------------------
(***************************************************************************)
(* The steps of the main thread.                                           *)
(***************************************************************************)

\* The invariant after a step of the main thread that neither schedules nor
\* subscribes.
LEMMA MainStepKeeps ==
    ASSUME IInv, UNCHANGED <<sched, pass, subs, count>>,
           wq' \in [Comp -> Seq(Node)],
           act' \in [Comp -> SUBSET Activation], ActOK',
           pc' \in [Comp -> MainPc], work' \in [Comp -> Node \cup {NoNode}],
           link' \in [Comp -> Nat], tp' \in [Comp -> Nat],
           DbTypeOK', DataTypeOK', NetOK', MainOK'
    PROVE  IInv'
<1>1. ThreadTypeOK'
  BY DEF IInv, TypeOK, ThreadTypeOK
<1> QED
  BY <1>1, StackSame DEF IInv, TypeOK

\* The steps that only move the main thread's program counter, to a place
\* where no node is needed or where the node in hand is.
LEMMA MoveKeeps ==
    ASSUME IInv, NEW c \in Comp, NEW l \in MainPc,
           l \in {"handle", "blocked", "announce"} => FALSE,
           l \in {"requeue", "finish", "activate"} => work[c] \in Node,
           pc' = [pc EXCEPT ![c] = l],
           UNCHANGED <<dbVars, wq, sched, act, work, link, tp, count, netVars,
                       dataVars, ran>>
    PROVE  IInv'
<1> USE DEF IInv, TypeOK
<1>1. pc' \in [Comp -> MainPc] /\ MainOK'
  BY DEF ThreadTypeOK, MainOK
<1>2. UNCHANGED <<pass, subs>>
  BY DEF dbVars
<1>3. ThreadTypeOK'
  BY <1>1 DEF ThreadTypeOK
<1> QED
  BY <1>1, <1>2, <1>3, DbSame, DataSame, StackSame, ActSame

\* The steps of that kind.
LEMMA MovesKeep ==
    ASSUME IInv, NEW c \in Comp,
           \/ EnterIdle(c) \/ Leave(c) \/ CheckSubFails(c)
           \/ PollTpoint(c) \/ PollFini(c)
    PROVE  IInv'
<1>1. CASE EnterIdle(c)
  BY <1>1, MoveKeeps DEF EnterIdle, MainPc
<1>2. CASE Leave(c)
  BY <1>2, MoveKeeps DEF Leave, MainPc
<1>3. CASE CheckSubFails(c)
  <2>1. work[c] \in Node
    BY <1>3 DEF CheckSubFails, AtSubrule, IInv, MainOK
  <2> QED
    BY <1>3, <2>1, MoveKeeps DEF CheckSubFails, MainPc
<1>4. CASE PollTpoint(c)
  BY <1>4, MoveKeeps DEF PollTpoint, MainPc
<1>5. CASE PollFini(c)
  BY <1>5, MoveKeeps DEF PollFini, MainPc
<1> QED
  BY <1>1, <1>2, <1>3, <1>4, <1>5

\* deque_work.
LEMMA TakeKeeps ==
    ASSUME IInv, NEW c \in Comp, Take(c)
    PROVE  IInv'
<1> USE DEF IInv, TypeOK
<1> DEFINE n == Head(wq[c])
<1>1. /\ wq[c] # <<>>
      /\ work' = [work EXCEPT ![c] = n]
      /\ link' = [link EXCEPT ![c] = IF n.kind = "chain" THEN n.at ELSE 0]
      /\ wq' = [wq EXCEPT ![c] = Tail(@)]
      /\ pc' = [pc EXCEPT ![c] = "handle"]
      /\ UNCHANGED <<dbVars, sched, act, tp, count, netVars, dataVars, ran>>
  BY DEF Take
<1>2. wq[c] \in Seq(Node)
  BY DEF ThreadTypeOK
<1>3. n \in Node /\ Tail(wq[c]) \in Seq(Node)
  BY <1>1, <1>2, HeadTailProperties
<1>4. n.kind = "chain" => n.at \in Steps(n.obj) /\ n.at \in Nat
  <2>1. Steps(n.obj) \subseteq Nat
    BY DEF Steps
  <2> HIDE DEF n
  <2> QED
    BY <1>3, <2>1, NodeFields
<1> HIDE DEF n
<1>5. UNCHANGED <<pass, subs>>
  BY <1>1 DEF dbVars
<1>6. /\ wq' \in [Comp -> Seq(Node)] /\ act' \in [Comp -> SUBSET Activation]
      /\ pc' \in [Comp -> MainPc] /\ work' \in [Comp -> Node \cup {NoNode}]
      /\ link' \in [Comp -> Nat] /\ tp' \in [Comp -> Nat]
  BY <1>1, <1>3, <1>4 DEF ThreadTypeOK, MainPc
<1>7. MainOK'
  BY <1>1, <1>3, <1>4 DEF MainOK, ThreadTypeOK
<1> QED
  BY <1>1, <1>5, <1>6, <1>7, DbSame, DataSame, ActSame, MainStepKeeps

\* The main thread starts an activate_subs call for the node in hand.
LEMMA StartActivationKeeps ==
    ASSUME IInv, NEW c \in Comp, work[c] \in Node, StartActivation(c),
           DbTypeOK', UNCHANGED <<subs, pass, wq, sched, work, link, tp, count,
                                  netVars, dataVars, ran>>
    PROVE  IInv'
<1> USE DEF IInv, TypeOK
<1> DEFINE n == work[c]
<1>1. /\ act' = [act EXCEPT ![c] = @ \cup
                     {NewActivation("main", c, n.obj, n.at, n.pass)}]
      /\ pc' = [pc EXCEPT ![c] = "activate"]
  BY DEF StartActivation
<1>2. /\ n.obj \in Obj /\ n.at \in Int /\ n.pass \in 0 .. MaxPass
      /\ <<n.obj, n.at>> \in Entry
  BY NodeFields, MaxPassAssumption
<1>3. SubsGrow
  BY DEF SubsGrow
<1>4. act' \in [Comp -> SUBSET Activation] /\ ActOK'
  <2> HIDE DEF n
  <2> QED
    BY <1>1, <1>2, <1>3, NewActivationKeeps
<1>5. pc' \in [Comp -> MainPc] /\ MainOK'
  BY <1>1 DEF ThreadTypeOK, MainPc, MainOK
<1>6. /\ wq' \in [Comp -> Seq(Node)] /\ work' \in [Comp -> Node \cup {NoNode}]
      /\ link' \in [Comp -> Nat] /\ tp' \in [Comp -> Nat]
  BY DEF ThreadTypeOK
<1> QED
  BY <1>4, <1>5, <1>6, DataSame, MainStepKeeps

\* An initiation is handled: activated, or requeued.
LEMMA InitiateKeeps ==
    ASSUME IInv, NEW c \in Comp, Initiate(c)
    PROVE  IInv'
<1>1. work[c] \in Node
  BY DEF Initiate, IInv, MainOK
<1>2. UNCHANGED <<dbVars, wq, sched, work, link, tp, count, netVars, dataVars,
                  ran>>
  BY DEF Initiate
<1>3. CASE DepsMet(c, work[c].obj)
  <2>1. StartActivation(c)
    BY <1>3 DEF Initiate
  <2>2. UNCHANGED <<subs, pass>> /\ DbTypeOK'
    BY <1>2, DbSame DEF dbVars, IInv, TypeOK
  <2> QED
    BY <1>1, <1>2, <2>1, <2>2, StartActivationKeeps
<1>4. CASE ~DepsMet(c, work[c].obj)
  <2>1. pc' = [pc EXCEPT ![c] = "requeue"] /\ UNCHANGED act
    BY <1>4 DEF Initiate
  <2> QED
    BY <1>1, <1>2, <2>1, MoveKeeps DEF MainPc
<1> QED
  BY <1>3, <1>4

\* realize_object.
LEMMA RealizeObjectKeeps ==
    ASSUME IInv, NEW c \in Comp, RealizeObject(c)
    PROVE  IInv'
<1>1. work[c] \in Node /\ work[c].at = 0
  BY DEF RealizeObject, IInv, MainOK
<1>2. work[c].obj \in Obj /\ <<work[c].obj, 0>> \in Entry
  BY <1>1, NodeFields
<1>3. realized' \in [Comp -> SUBSET Entry] /\ pending' \in [Comp -> SUBSET Obj]
  BY <1>2 DEF RealizeObject, IInv, TypeOK, DbTypeOK
<1>4. DbTypeOK'
  BY <1>3 DEF RealizeObject, IInv, TypeOK, DbTypeOK
<1> QED
  BY <1>1, <1>4, StartActivationKeeps DEF RealizeObject

\* The cleanup of a RULE node.
LEMMA FinishSubruleKeeps ==
    ASSUME IInv, NEW c \in Comp, FinishSubrule(c)
    PROVE  IInv'
<1>1. work[c] \in Node
  BY DEF FinishSubrule, IInv, MainOK
<1>2. <<work[c].obj, work[c].at>> \in Entry
  BY <1>1, NodeFields
<1>3. realized' \in [Comp -> SUBSET Entry]
  BY <1>2 DEF FinishSubrule, IInv, TypeOK, DbTypeOK
<1>4. DbTypeOK'
  BY <1>3 DEF FinishSubrule, IInv, TypeOK, DbTypeOK
<1> QED
  BY <1>1, <1>4, StartActivationKeeps DEF FinishSubrule

\* The subrule in hand is one, whether a RULE node's or a link's.
LEMMA SubruleInHand ==
    ASSUME IInv, NEW c \in Comp, pc[c] \in {"handle", "blocked"},
           work[c].kind \in {"rule", "chain"}
    PROVE  /\ work[c] \in Node /\ work[c].obj \in Obj
           /\ Current(c) \in Steps(work[c].obj) /\ Current(c) \in Nat
           /\ CurrentRule(c) \in Node
<1>1. work[c] \in Node
  BY DEF IInv, MainOK
<1>2. work[c].obj \in Obj /\ work[c].pass \in 1 .. MaxPass
  BY <1>1, NodeFields
<1>3. Current(c) \in Steps(work[c].obj)
  <2>1. CASE work[c].kind = "rule"
    BY <1>1, <2>1, NodeFields DEF Current
  <2>2. CASE work[c].kind = "chain"
    BY <2>2 DEF Current, IInv, MainOK
  <2> QED
    BY <2>1, <2>2
<1>4. CurrentRule(c) \in Node
  BY <1>2, <1>3, NodesMade DEF CurrentRule
<1>5. Steps(work[c].obj) \subseteq Nat
  BY DEF Steps
<1> QED
  BY <1>1, <1>2, <1>3, <1>4, <1>5

\* A subrule is done: a chain goes on to its next link.
LEMMA SubruleDoneKeeps ==
    ASSUME IInv, NEW c \in Comp, pc[c] \in {"handle", "blocked"},
           work[c].kind \in {"rule", "chain"},
           work[c].kind = "chain" => ~ChainEnd(c, work[c].obj, link[c]),
           SubruleDone(c), published' \subseteq Obj \X Nat,
           UNCHANGED <<dbVars, wq, sched, act, work, tp, count, netVars, xfer>>
    PROVE  IInv'
<1> USE DEF IInv, TypeOK
<1>1. work[c] \in Node /\ work[c].obj \in Obj /\ CurrentRule(c) \in Node
  BY SubruleInHand
<1>2. DataTypeOK' /\ NetOK'
  <2>1. ran' = [ran EXCEPT ![c] = @ \cup {CurrentRule(c)}]
    BY DEF SubruleDone
  <2>2. ran' \in [Comp -> SUBSET Node]
    BY <1>1, <2>1 DEF DataTypeOK
  <2> QED
    BY <2>2 DEF DataTypeOK, NetOK, netVars
<1>3. UNCHANGED <<pass, subs>>
  BY DEF dbVars
<1>4. /\ wq' \in [Comp -> Seq(Node)] /\ act' \in [Comp -> SUBSET Activation]
      /\ work' \in [Comp -> Node \cup {NoNode}] /\ tp' \in [Comp -> Nat]
  BY DEF ThreadTypeOK
<1>5. CASE work[c].kind = "chain"
  <2>1. link' = [link EXCEPT ![c] = @ + 1] /\ pc' = [pc EXCEPT ![c] = "handle"]
    BY <1>5 DEF SubruleDone
  <2>2. link[c] \in Steps(work[c].obj) /\ link[c] < Len(Proc[work[c].obj])
    BY <1>5 DEF MainOK, ChainEnd
  <2>3. link[c] + 1 \in Steps(work[c].obj)
    BY <2>2, <1>1, ProcAssumption DEF Steps
  <2>4. link' \in [Comp -> Nat] /\ pc' \in [Comp -> MainPc]
    BY <2>1 DEF ThreadTypeOK, MainPc
  <2>5. MainOK'
    BY <1>1, <2>1, <2>3 DEF MainOK, ThreadTypeOK
  <2> QED
    BY <1>2, <1>3, <1>4, <2>4, <2>5, DbSame, ActSame, MainStepKeeps
<1>6. CASE work[c].kind # "chain"
  <2>1. pc' = [pc EXCEPT ![c] = "finish"] /\ UNCHANGED link
    BY <1>6 DEF SubruleDone
  <2>2. link' \in [Comp -> Nat] /\ pc' \in [Comp -> MainPc]
    BY <2>1 DEF ThreadTypeOK, MainPc
  <2>3. MainOK'
    BY <1>1, <2>1 DEF MainOK, ThreadTypeOK
  <2> QED
    BY <1>2, <1>3, <1>4, <2>2, <2>3, DbSame, ActSame, MainStepKeeps
<1> QED
  BY <1>5, <1>6

\* handle_asg, handle_method, handle_pub.
LEMMA RunSubruleKeeps ==
    ASSUME IInv, NEW c \in Comp, RunSubrule(c)
    PROVE  IInv'
<1>1. /\ pc[c] = "handle" /\ work[c].kind \in {"rule", "chain"}
      /\ work[c].kind = "chain" => ~ChainEnd(c, work[c].obj, link[c])
  BY DEF RunSubrule, AtSubrule
<1>2. published' \subseteq Obj \X Nat
  BY <1>1, SubruleInHand DEF RunSubrule, IInv, TypeOK, DataTypeOK
<1> QED
  BY <1>1, <1>2, SubruleDoneKeeps DEF RunSubrule

\* check_sub has got its data.
LEMMA CheckSubDoneKeeps ==
    ASSUME IInv, NEW c \in Comp, CheckSubDone(c)
    PROVE  IInv'
<1>1. /\ pc[c] \in {"handle", "blocked"} /\ work[c].kind \in {"rule", "chain"}
      /\ work[c].kind = "chain" => ~ChainEnd(c, work[c].obj, link[c])
  BY DEF CheckSubDone, AtSubrule, IInv, MainOK
<1>2. published' \subseteq Obj \X Nat /\ UNCHANGED xfer
  BY DEF CheckSubDone, IInv, TypeOK, DataTypeOK, dataVars
<1> QED
  BY <1>1, <1>2, SubruleDoneKeeps DEF CheckSubDone

\* check_sub waits for handle_notify.
LEMMA CheckSubRunningKeeps ==
    ASSUME IInv, NEW c \in Comp, CheckSubRunning(c)
    PROVE  IInv'
<1> USE DEF IInv, TypeOK
<1>1. /\ pc[c] = "handle" /\ work[c].kind \in {"rule", "chain"}
      /\ work[c].kind = "chain" => ~ChainEnd(c, work[c].obj, link[c])
      /\ \E n : xfer' = [xfer EXCEPT ![c][n] = "claimed"]
      /\ pc' = [pc EXCEPT ![c] = "blocked"]
      /\ UNCHANGED <<dbVars, wq, sched, act, work, link, tp, count, netVars,
                     published, ran>>
  BY DEF CheckSubRunning, AtSubrule
<1>2. work[c] \in Node
  BY <1>1 DEF MainOK
<1>3. DataTypeOK' /\ NetOK'
  <2>1. PICK n : xfer' = [xfer EXCEPT ![c][n] = "claimed"]
    BY <1>1
  <2>2. xfer' \in [Comp -> [SubNode -> XferState]]
    BY <2>1 DEF DataTypeOK, XferState
  <2> QED
    BY <1>1, <2>2 DEF DataTypeOK, NetOK, netVars
<1>4. pc' \in [Comp -> MainPc] /\ MainOK'
  BY <1>1, <1>2 DEF MainOK, ThreadTypeOK, MainPc
<1>5. ThreadTypeOK'
  BY <1>1, <1>4 DEF ThreadTypeOK
<1>6. UNCHANGED <<pass, subs>>
  BY <1>1 DEF dbVars
<1> QED
  BY <1>1, <1>3, <1>4, <1>5, <1>6, DbSame, StackSame, ActSame

\* The node in hand is dropped after the queue or the network got it.
LEMMA DropKeeps ==
    ASSUME IInv, NEW c \in Comp, wq' \in [Comp -> Seq(Node)],
           work' = [work EXCEPT ![c] = NoNode],
           pc' = [pc EXCEPT ![c] = "loop"],
           DataTypeOK', NetOK',
           UNCHANGED <<dbVars, sched, act, link, tp, count>>
    PROVE  IInv'
<1> USE DEF IInv, TypeOK
<1>1. /\ act' \in [Comp -> SUBSET Activation]
      /\ pc' \in [Comp -> MainPc] /\ work' \in [Comp -> Node \cup {NoNode}]
      /\ link' \in [Comp -> Nat] /\ tp' \in [Comp -> Nat]
  BY DEF ThreadTypeOK, MainPc
<1>2. MainOK'
  BY DEF MainOK, ThreadTypeOK
<1>3. UNCHANGED <<pass, subs>>
  BY DEF dbVars
<1> QED
  BY <1>1, <1>2, <1>3, DbSame, ActSame, MainStepKeeps

\* A chain's last link is queued.
LEMMA QueueLastLinkKeeps ==
    ASSUME IInv, NEW c \in Comp, QueueLastLink(c)
    PROVE  IInv'
<1>1. CurrentRule(c) \in Node
  BY SubruleInHand DEF QueueLastLink
<1>2. wq' \in [Comp -> Seq(Node)] /\ DataTypeOK' /\ NetOK'
  BY <1>1, QueueType, DataSame DEF QueueLastLink, IInv, TypeOK
<1> QED
  BY <1>2, DropKeeps DEF QueueLastLink

\* A node is requeued.
LEMMA RequeueKeeps ==
    ASSUME IInv, NEW c \in Comp, Requeue(c)
    PROVE  IInv'
<1>1. work[c] \in Node
  BY DEF Requeue, IInv, MainOK
<1>2. wq' \in [Comp -> Seq(Node)] /\ DataTypeOK' /\ NetOK'
  BY <1>1, QueueType, DataSame DEF Requeue, IInv, TypeOK
<1> QED
  BY <1>2, DropKeeps DEF Requeue

\* announce_work.
LEMMA AnnounceKeeps ==
    ASSUME IInv, NEW c \in Comp, Announce(c)
    PROVE  IInv'
<1> USE DEF IInv, TypeOK
<1> DEFINE n == work[c]
           msg(d) == [to |-> d, from |-> c, obj |-> n.obj, at |-> n.at,
                      pass |-> n.pass]
<1>1. /\ workNet' = workNet \cup {msg(d) : d \in Comp \ {c}}
      /\ UNCHANGED <<tpNet, finiNet, dataVars, ran>>
  BY DEF Announce
<1>2. /\ n.obj \in Obj /\ n.at \in Nat /\ n.pass \in 1 .. MaxPass
      /\ <<n.obj, n.at>> \in Entry
  BY NodeFields DEF Announce, MainOK
<1> HIDE DEF n
<1>3. \A d \in Comp : msg(d) \in WorkMsg /\ <<msg(d).obj, msg(d).at>> \in Entry
  BY <1>2 DEF WorkMsg
<1> HIDE DEF msg
<1>4. DataTypeOK' /\ NetOK'
  <2>1. \A m \in workNet' : m \in WorkMsg /\ <<m.obj, m.at>> \in Entry
    BY <1>1, <1>3 DEF DataTypeOK, NetOK
  <2> QED
    BY <1>1, <2>1 DEF DataTypeOK, NetOK, dataVars
<1>5. wq' \in [Comp -> Seq(Node)]
  BY DEF Announce, ThreadTypeOK
<1> QED
  BY <1>4, <1>5, DropKeeps DEF Announce

\* benesh_tpoint.
LEMMA TpointKeeps ==
    ASSUME IInv, NEW c \in Comp, Tpoint(c)
    PROVE  IInv'
<1> USE DEF IInv, TypeOK
<1> DEFINE msg(d) == [to |-> d, from |-> c, n |-> tp[c] + 1]
<1>1. /\ tp[c] < Len(Touch[c])
      /\ tp' = [tp EXCEPT ![c] = @ + 1]
      /\ tpNet' = tpNet \cup {msg(d) : d \in Comp}
      /\ pc' = [pc EXCEPT ![c] = "poll"]
      /\ UNCHANGED <<dbVars, wq, sched, act, work, link, count, workNet, finiNet,
                     dataVars, ran>>
  BY DEF Tpoint
<1>2. tp[c] + 1 \in Nat /\ tp[c] + 1 \in DOMAIN Touch[c]
  <2>1. Touch[c] \in Seq(Obj) /\ tp[c] \in Nat
    BY TouchAssumption DEF ThreadTypeOK
  <2> QED
    BY <1>1, <2>1, LenProperties
<1>3. \A d \in Comp : /\ msg(d) \in TpMsg
                      /\ msg(d).n \in DOMAIN Touch[msg(d).from]
  BY <1>2 DEF TpMsg
<1> HIDE DEF msg
<1>4. DataTypeOK' /\ NetOK'
  BY <1>1, <1>3 DEF DataTypeOK, NetOK, dataVars
<1>5. /\ wq' \in [Comp -> Seq(Node)] /\ act' \in [Comp -> SUBSET Activation]
      /\ pc' \in [Comp -> MainPc] /\ work' \in [Comp -> Node \cup {NoNode}]
      /\ link' \in [Comp -> Nat] /\ tp' \in [Comp -> Nat]
  BY <1>1 DEF ThreadTypeOK, MainPc
<1>6. MainOK'
  BY <1>1 DEF MainOK, ThreadTypeOK
<1>7. UNCHANGED <<pass, subs>>
  BY <1>1 DEF dbVars
<1> QED
  BY <1>1, <1>4, <1>5, <1>6, <1>7, DbSame, ActSame, MainStepKeeps

\* benesh_fini.
LEMMA FiniKeeps ==
    ASSUME IInv, NEW c \in Comp, Fini(c)
    PROVE  IInv'
<1> USE DEF IInv, TypeOK
<1>1. /\ tp' = [tp EXCEPT ![c] = @ + 1]
      /\ finiNet' = finiNet \cup {[to |-> d, from |-> c] : d \in Comp}
      /\ pc' = [pc EXCEPT ![c] = "poll"]
      /\ UNCHANGED <<dbVars, wq, sched, act, work, link, count, tpNet, workNet,
                     dataVars, ran>>
  BY DEF Fini
<1>2. DataTypeOK' /\ NetOK'
  BY <1>1 DEF DataTypeOK, NetOK, dataVars, FiniMsg
<1>3. /\ wq' \in [Comp -> Seq(Node)] /\ act' \in [Comp -> SUBSET Activation]
      /\ pc' \in [Comp -> MainPc] /\ work' \in [Comp -> Node \cup {NoNode}]
      /\ link' \in [Comp -> Nat] /\ tp' \in [Comp -> Nat]
  BY <1>1 DEF ThreadTypeOK, MainPc
<1>4. MainOK'
  BY <1>1 DEF MainOK, ThreadTypeOK
<1>5. UNCHANGED <<pass, subs>>
  BY <1>1 DEF dbVars
<1> QED
  BY <1>1, <1>2, <1>3, <1>4, <1>5, DbSame, ActSame, MainStepKeeps

-----------------------------------------------------------------------------
(***************************************************************************)
(* Type correctness.                                                       *)
(***************************************************************************)

\* The invariant holds at the start.
LEMMA InitIInv == Init => IInv
<1> SUFFICES ASSUME Init PROVE IInv
  OBVIOUS
<1>1. DbTypeOK
  BY MaxPassAssumption, EmptySeq DEF Init, DbTypeOK
<1>2. ThreadTypeOK
  BY CompAssumption, FS_CardinalityType, EmptySeq DEF Init, ThreadTypeOK, MainPc
<1>3. DataTypeOK /\ NetOK
  BY DEF Init, DataTypeOK, NetOK, XferState
<1>4. StackOK /\ MainOK /\ ActOK
  BY DEF Init, StackOK, MainOK, ActOK
<1> QED
  BY <1>1, <1>2, <1>3, <1>4 DEF IInv, TypeOK

\* Every step of every thread keeps it.
LEMMA NextIInv == IInv /\ [Next]_vars => IInv'
<1> SUFFICES ASSUME IInv, [Next]_vars PROVE IInv'
  OBVIOUS
<1>1. CASE UNCHANGED vars
  BY <1>1, DbSame, DataSame, StackSame, MainSame, ActSame
     DEF IInv, TypeOK, ThreadTypeOK, vars, dbVars, mainVars
<1>2. ASSUME NEW c \in Comp, Scheduling(c) PROVE IInv'
  BY <1>2, FindPendingKeeps, ClaimKeeps, CheckDepKeeps, SubDepKeeps,
     CheckChainKeeps, SubChainKeeps, SubFiniKeeps, EndScheduleKeeps
     DEF Scheduling
<1>3. ASSUME NEW c \in Comp, Activating(c) PROVE IInv'
  BY <1>3, ScanHitKeeps, PushKeeps, ScanEndKeeps DEF Activating
<1>4. ASSUME NEW c \in Comp, Receiving(c) PROVE IInv'
  BY <1>4, RecvTpointKeeps, RecvWorkKeeps, RecvFiniKeeps DEF Receiving
<1>5. ASSUME NEW c \in Comp, Transferring(c) PROVE IInv'
  BY <1>5, NotifyKeeps, HandleNotifyKeeps DEF Transferring
<1>6. ASSUME NEW c \in Comp, Working(c) PROVE IInv'
  BY <1>6, MovesKeep, TakeKeeps, InitiateKeeps, RealizeObjectKeeps,
     RunSubruleKeeps, CheckSubRunningKeeps, CheckSubDoneKeeps,
     QueueLastLinkKeeps, FinishSubruleKeeps, RequeueKeeps, AnnounceKeeps,
     TpointKeeps, FiniKeeps DEF Working
<1> QED
  BY <1>1, <1>2, <1>3, <1>4, <1>5, <1>6 DEF Next, Over

\* The database, the threads and the messages have their types: in
\* particular no node is queued, taken or announced that does not exist.
THEOREM TypeCorrect == Spec => []TypeOK
<1>1. IInv => TypeOK
  BY DEF IInv
<1> QED
  BY <1>1, InitIInv, NextIInv, PTL DEF Spec

-----------------------------------------------------------------------------
(***************************************************************************)
(* The main thread does not sleep on queued work.                          *)
(***************************************************************************)

\* Whoever changes a queue, a stack or comp_count on component c either
\* leaves the main thread out of its wait, or still has the lock.
Signalling(c) ==
    /\ \A d \in Comp : d # c =>
           /\ pc'[d] = pc[d] /\ count'[d] = count[d]
           /\ sched'[d] = sched[d] /\ wq'[d] = wq[d]
    /\ \/ pc'[c] # "wait"
       \/ /\ pc'[c] = pc[c] /\ count'[c] = count[c]
          /\ \/ sched'[c] # <<>>
             \/ sched'[c] = sched[c] /\ wq'[c] = wq[c]

\* Such a step keeps NoMissedSignal.
LEMMA SignallingKeeps ==
    ASSUME NoMissedSignal, NEW c \in Comp, Signalling(c)
    PROVE  NoMissedSignal'
<1> SUFFICES ASSUME NEW d \in Comp, pc'[d] = "wait"
             PROVE  count'[d] > 1 /\ (LockFree(d)' => wq'[d] = <<>>)
  BY DEF NoMissedSignal
<1>1. CASE d # c
  BY <1>1 DEF Signalling, NoMissedSignal, LockFree
<1>2. CASE d = c
  BY <1>2 DEF Signalling, NoMissedSignal, LockFree
<1> QED
  BY <1>1, <1>2

\* While a frame is put on the stack, the lock stays taken.
LEMMA StaysLocked ==
    ASSUME ThreadTypeOK, NEW c \in Comp, ~LockFree(c), NEW g,
           SetTop(c, g) \/ sched' = [sched EXCEPT ![c] = Append(@, g)]
    PROVE  /\ sched'[c] # <<>>
           /\ \A d \in Comp : d # c => sched'[d] = sched[d]
<1> DEFINE S == Frame \cup {g}
           r == Front(sched[c])
<1>1. sched \in [Comp -> Seq(Frame)] /\ sched[c] # <<>>
  BY DEF ThreadTypeOK, LockFree
<1>2. r \in Seq(Frame) /\ sched[c] \in Seq(Frame)
  BY <1>1, FrontProperties
<1> HIDE DEF r
<1>3. r \in Seq(S) /\ sched[c] \in Seq(S) /\ g \in S
  BY <1>2, SeqMonotonic
<1>4. Append(r, g) # <<>> /\ Append(sched[c], g) # <<>>
  BY <1>3, AppendProperties
<1> QED
  BY <1>1, <1>4 DEF SetTop, r

\* schedule_target and its callees signal only at the end, but hold the lock
\* until then.
LEMMA SchedulingSignals ==
    ASSUME IInv, NEW c \in Comp, Scheduling(c)
    PROVE  Signalling(c)
<1> USE DEF IInv, TypeOK
<1>1. ~LockFree(c) /\ count' = count
  BY DEF Scheduling, FindPending, Claim, CheckDep, SubDep, CheckChain, SubChain,
         SubFini, EndSchedule
<1>2. \A d \in Comp : d # c => wq'[d] = wq[d]
  BY DEF Scheduling, FindPending, Claim, CheckDep, SubDep, CheckChain, SubChain,
         SubFini, EndSchedule, ThreadTypeOK
<1>3. ASSUME NEW g, UNCHANGED mainVars,
             SetTop(c, g) \/ sched' = [sched EXCEPT ![c] = Append(@, g)]
      PROVE  Signalling(c)
  BY <1>1, <1>2, <1>3, StaysLocked DEF Signalling, mainVars
<1>4. ASSUME Return(c), UNCHANGED <<pass, work, link>>
      PROVE  Signalling(c)
  BY <1>1, <1>2, <1>4, ReturnKeeps DEF Signalling
<1>5. CASE Claim(c) \/ SubDep(c) \/ SubChain(c) \/ SubFini(c)
  BY <1>3, <1>5 DEF Claim, SubDep, SubChain, SubFini
<1>6. CASE CheckDep(c)
  BY <1>3, <1>6 DEF CheckDep
<1>7. ASSUME NEW k, CheckChain(c, k) PROVE Signalling(c)
  BY <1>3, <1>7 DEF CheckChain
<1>8. CASE FindPending(c) \/ EndSchedule(c)
  BY <1>4, <1>8 DEF FindPending, EndSchedule, dbVars
<1> QED
  BY <1>5, <1>6, <1>7, <1>8 DEF Scheduling

\* The handlers signal when they queue a node, free the lock or count a fini.
LEMMA HandlersSignal ==
    ASSUME IInv, NEW c \in Comp,
           Activating(c) \/ Receiving(c) \/ Transferring(c)
    PROVE  Signalling(c)
<1> USE DEF IInv, TypeOK
<1>1. ASSUME NEW a, NEW i, ScanHit(c, a, i) PROVE Signalling(c)
  BY <1>1 DEF ScanHit, Signalling, mainVars
<1>2. ASSUME NEW a, Push(c, a) PROVE Signalling(c)
  <2>1. Signal(c) /\ UNCHANGED <<sched, count>>
    BY <1>2 DEF Push
  <2>2. \A d \in Comp : d # c => wq'[d] = wq[d]
    BY <1>2 DEF Push, ThreadTypeOK
  <2> QED
    BY <2>1, <2>2, SignalKeeps DEF Signalling, ThreadTypeOK
<1>3. ASSUME NEW a, ScanEnd(c, a) PROVE Signalling(c)
  BY <1>3 DEF ScanEnd, Signalling, ThreadTypeOK
<1>4. ASSUME NEW m, RecvTpoint(c, m) PROVE Signalling(c)
  <2>1. UNCHANGED <<wq, count>> /\ LockFree(c)
    BY <1>4 DEF RecvTpoint
  <2>2. CASE Signal(c) /\ UNCHANGED sched
    BY <2>1, <2>2, SignalKeeps DEF Signalling, ThreadTypeOK
  <2>3. CASE \E o : sched' = [sched EXCEPT ![c] = <<NewFrame(o)>>]
             /\ UNCHANGED pc
    <3>1. PICK o : sched' = [sched EXCEPT ![c] = <<NewFrame(o)>>]
      BY <2>3
    <3>2. sched'[c] # <<>> /\ \A d \in Comp : d # c => sched'[d] = sched[d]
      BY <3>1 DEF ThreadTypeOK
    <3> QED
      BY <2>1, <2>3, <3>2 DEF Signalling
  <2> QED
    BY <1>4, <2>2, <2>3 DEF RecvTpoint
<1>5. ASSUME NEW m, RecvWork(c, m) PROVE Signalling(c)
  BY <1>5 DEF RecvWork, Signalling, mainVars
<1>6. ASSUME NEW m, RecvFini(c, m) PROVE Signalling(c)
  <2>1. Signal(c) /\ UNCHANGED <<wq, sched>>
    BY <1>6 DEF RecvFini
  <2>2. \A d \in Comp : d # c => count'[d] = count[d]
    BY <1>6 DEF RecvFini, ThreadTypeOK
  <2> QED
    BY <2>1, <2>2, SignalKeeps DEF Signalling, ThreadTypeOK
<1>7. ASSUME NEW n, Notify(c, n) \/ HandleNotify(c, n) PROVE Signalling(c)
  BY <1>7 DEF Notify, HandleNotify, Signalling, mainVars
<1> QED
  BY <1>1, <1>2, <1>3, <1>4, <1>5, <1>6, <1>7
     DEF Activating, Receiving, Transferring

\* The main thread itself: it is not in its wait after any of its steps,
\* unless it has just found the queue empty and others still there.
LEMMA WorkingSignals ==
    ASSUME IInv, NEW c \in Comp, Working(c), ~EnterIdle(c)
    PROVE  Signalling(c)
<1> USE DEF IInv, TypeOK, Signalling, ThreadTypeOK
<1>1. CASE \/ Leave(c) \/ Take(c) \/ Requeue(c) \/ QueueLastLink(c)
           \/ Announce(c)
  BY <1>1 DEF Leave, Take, Requeue, QueueLastLink, Announce
<1>2. CASE Initiate(c) \/ RealizeObject(c) \/ FinishSubrule(c)
  BY <1>2 DEF Initiate, RealizeObject, FinishSubrule, StartActivation
<1>3. CASE RunSubrule(c) \/ CheckSubDone(c)
  BY <1>3 DEF RunSubrule, CheckSubDone, SubruleDone
<1>4. CASE CheckSubRunning(c) \/ CheckSubFails(c)
  BY <1>4 DEF CheckSubRunning, CheckSubFails
<1>5. CASE Tpoint(c) \/ PollTpoint(c) \/ Fini(c) \/ PollFini(c)
  BY <1>5 DEF Tpoint, PollTpoint, Fini, PollFini
<1> QED
  BY <1>1, <1>2, <1>3, <1>4, <1>5 DEF Working

\* In every instance, the main thread sleeps in benesh_handle_work only while
\* its queue is empty (or about to be looked at again by the thread that has
\* the lock and will signal) and another component has not said fini.
THEOREM NoLostWork == Spec => []NoMissedSignal
<1>1. Init => NoMissedSignal
  BY DEF Init, NoMissedSignal
<1>2. IInv /\ NoMissedSignal /\ [Next]_vars => NoMissedSignal'
  <2> SUFFICES ASSUME IInv, NoMissedSignal, [Next]_vars
               PROVE  NoMissedSignal'
    OBVIOUS
  <2>1. CASE UNCHANGED vars
    BY <2>1 DEF NoMissedSignal, LockFree, vars, mainVars
  <2>2. ASSUME NEW c \in Comp, EnterIdle(c) PROVE NoMissedSignal'
    BY <2>2 DEF EnterIdle, NoMissedSignal, LockFree, IInv, TypeOK, ThreadTypeOK
  <2>3. ASSUME NEW c \in Comp, Working(c), ~EnterIdle(c)
        PROVE  NoMissedSignal'
    BY <2>3, WorkingSignals, SignallingKeeps
  <2>4. ASSUME NEW c \in Comp, Scheduling(c) PROVE NoMissedSignal'
    BY <2>4, SchedulingSignals, SignallingKeeps
  <2>5. ASSUME NEW c \in Comp,
               Activating(c) \/ Receiving(c) \/ Transferring(c)
        PROVE  NoMissedSignal'
    BY <2>5, HandlersSignal, SignallingKeeps
  <2> QED
    BY <2>1, <2>2, <2>3, <2>4, <2>5 DEF Next, Over
<1> QED
  BY <1>1, <1>2, InitIInv, NextIInv, PTL DEF Spec

-----------------------------------------------------------------------------
(***************************************************************************)
(* No object is scheduled a third time.                                    *)
(***************************************************************************)

\* What has been scheduled is pending or realized, twice only if realized;
\* and at most once when schedule_target is between its look at the realized
\* flag and its look at the pending flag.
Passes ==
    /\ \A c \in Comp : \A o \in Obj :
           /\ pass[c][o] > 0 => o \in pending[c] \/ ObjectRealized(c, o)
           /\ pass[c][o] > 1 => ObjectRealized(c, o)
    /\ \A c \in Comp : ~LockFree(c) /\ Top(c).pc = "claim" =>
           pass[c][Top(c).obj] < 2

\* Steps that schedule nothing and take no realized flag back.
LEMMA PassesStay ==
    ASSUME Passes, UNCHANGED <<pass, sched>>,
           \A c \in Comp : realized[c] \subseteq realized'[c],
           \A c \in Comp : \A o \in Obj :
               o \in pending[c] => o \in pending'[c] \/ <<o, 0>> \in realized'[c]
    PROVE  Passes'
<1>1. \A c \in Comp : \A o \in Obj :
          /\ pass'[c][o] > 0 => o \in pending'[c] \/ <<o, 0>> \in realized'[c]
          /\ pass'[c][o] > 1 => <<o, 0>> \in realized'[c]
  BY DEF Passes, ObjectRealized
<1>2. \A c \in Comp : ~LockFree(c)' /\ Top(c)'.pc = "claim" =>
          pass'[c][Top(c)'.obj] < 2
  BY DEF Passes, LockFree, Top
<1> QED
  BY <1>1, <1>2 DEF Passes, ObjectRealized

\* Steps of the scheduler of c that leave it elsewhere than at a claim.
LEMMA PassesTop ==
    ASSUME Passes, NEW c \in Comp, UNCHANGED <<pass, realized, pending>>,
           \A d \in Comp : d # c => sched'[d] = sched[d],
           sched'[c] # <<>> =>
               \/ Top(c)'.pc # "claim"
               \/ Top(c)'.obj \in Obj /\ ~ObjectRealized(c, Top(c)'.obj),
           pass \in [Comp -> [Obj -> 0 .. MaxPass]]
    PROVE  Passes'
<1>1. \A d \in Comp : \A o \in Obj :
          /\ pass'[d][o] > 0 => o \in pending'[d] \/ <<o, 0>> \in realized'[d]
          /\ pass'[d][o] > 1 => <<o, 0>> \in realized'[d]
  BY DEF Passes, ObjectRealized
<1>2. ASSUME NEW d \in Comp, ~LockFree(d)', Top(d)'.pc = "claim"
      PROVE  pass'[d][Top(d)'.obj] < 2
  <2>1. CASE d # c
    BY <1>2, <2>1 DEF Passes, LockFree, Top
  <2>2. CASE d = c
    <3> DEFINE o == Top(c)'.obj
    <3>1. o \in Obj /\ ~ObjectRealized(c, o)
      BY <1>2, <2>2 DEF LockFree
    <3>2. pass[c][o] \in 0 .. MaxPass /\ ~(pass[c][o] > 1)
      BY <3>1 DEF Passes
    <3> HIDE DEF o
    <3>3. pass[c][o] < 2
      BY <3>2, MaxPassAssumption
    <3> QED
      BY <2>2, <3>3 DEF o
  <2> QED
    BY <2>1, <2>2
<1> QED
  BY <1>1, <1>2 DEF Passes, ObjectRealized

\* The steps of the scheduler other than the claim itself.
LEMMA PassesScheduling ==
    ASSUME IInv, Passes, NEW c \in Comp, Scheduling(c), ~Claim(c)
    PROVE  Passes'
<1> USE DEF IInv, TypeOK
<1>1. ~LockFree(c) /\ UNCHANGED <<pass, realized, pending>>
  BY DEF Scheduling, FindPending, CheckDep, SubDep, CheckChain, SubChain,
         SubFini, EndSchedule, dbVars
<1>2. PassGrows /\ pass \in [Comp -> [Obj -> 0 .. MaxPass]]
  BY <1>1 DEF PassGrows, DbTypeOK
<1>3. Top(c) \in Frame /\ FrameOK(pass[c], Top(c))
  BY <1>1, TopFrame
<1>4. ASSUME NEW g, SetTop(c, g), g.pc # "claim" PROVE Passes'
  <2> DEFINE S == Frame \cup {g}
             r == Front(sched[c])
  <2>1. sched \in [Comp -> Seq(Frame)] /\ sched[c] # <<>>
    BY <1>1 DEF ThreadTypeOK, LockFree
  <2>2. r \in Seq(Frame)
    BY <2>1, FrontProperties
  <2> HIDE DEF r
  <2>3. r \in Seq(S) /\ g \in S
    BY <2>2, SeqMonotonic
  <2>4. LET t == Append(r, g) IN t[Len(t)] = g
    BY <2>3, AppendProperties
  <2>5. sched' = [sched EXCEPT ![c] = Append(r, g)]
    BY <1>4 DEF SetTop, r
  <2>6. Top(c)' = g /\ \A d \in Comp : d # c => sched'[d] = sched[d]
    BY <2>1, <2>4, <2>5 DEF Top, Last
  <2> QED
    BY <1>1, <1>2, <1>4, <2>6, PassesTop
<1>5. CASE FindPending(c) \/ EndSchedule(c)
  <2>1. Return(c) /\ UNCHANGED <<pass, work, link>>
    BY <1>1, <1>5 DEF FindPending, EndSchedule
  <2>2. /\ sched'[c] # <<>> => Top(c)'.pc = "sub"
        /\ \A d \in Comp : d # c => sched'[d] = sched[d]
    BY <1>1, <2>1, ReturnKeeps
  <2> QED
    BY <1>1, <1>2, <2>2, PassesTop
<1>6. CASE CheckDep(c)
  <2> DEFINE f == Top(c)
             d == Deps[f.obj][f.i]
  <2>1. d \in Obj /\ f.pc = "deps"
    BY <1>3, <1>6, DepOfFrame DEF CheckDep
  <2>2. CASE ObjectRealized(c, d)
    <3>1. SetTop(c, AfterDeps(f, f.i, f.met))
      BY <1>6, <2>2 DEF CheckDep
    <3>2. f.i \in Nat /\ f.met \in BOOLEAN /\ pass[c][f.obj] \in 1 .. MaxPass
      BY <1>3, <2>1 DEF Frame, FrameOK
    <3>3. AfterDeps(f, f.i, f.met).pc \in {"deps", "rules"}
      BY <1>3, <3>2, AfterDepsFrame
    <3> QED
      BY <1>4, <3>1, <3>3
  <2>3. CASE ~ObjectRealized(c, d)
    <3>1. sched' = [sched EXCEPT ![c] = Append(@, NewFrame(d))]
      BY <1>6, <2>3 DEF CheckDep
    <3>2. Top(c)' = NewFrame(d) /\ \A e \in Comp : e # c => sched'[e] = sched[e]
      BY <1>1, <2>1, <3>1, CallKeeps
    <3>3. Top(c)'.obj = d
      BY <3>2 DEF NewFrame
    <3> QED
      BY <1>1, <1>2, <2>1, <2>3, <3>2, <3>3, PassesTop
  <2> QED
    BY <2>2, <2>3
<1>7. CASE SubDep(c)
  <2>1. /\ Top(c).pc = "sub"
        /\ SetTop(c, AfterDeps(Top(c), Top(c).i, FALSE))
    BY <1>7 DEF SubDep
  <2>2. Top(c).i \in Nat /\ pass[c][Top(c).obj] \in 1 .. MaxPass
    BY <1>3, <2>1 DEF Frame, FrameOK
  <2>3. AfterDeps(Top(c), Top(c).i, FALSE).pc \in {"deps", "rules"}
    BY <1>3, <2>2, AfterDepsFrame
  <2> QED
    BY <1>4, <2>1, <2>3
<1>8. ASSUME NEW k, CheckChain(c, k) PROVE Passes'
  <2> DEFINE f == Top(c)
  <2>1. f.pc = "rules" /\ \/ SetTop(c, [f EXCEPT !.i = k + 1])
                          \/ SetTop(c, [f EXCEPT !.pc = "chain", !.i = k])
    BY <1>8 DEF CheckChain
  <2>2. /\ [f EXCEPT !.i = k + 1].pc = "rules"
        /\ [f EXCEPT !.pc = "chain", !.i = k].pc = "chain"
    BY <1>3, <2>1 DEF Frame
  <2> QED
    BY <1>4, <2>1, <2>2
<1>9. CASE SubChain(c)
  BY <1>3, <1>4, <1>9 DEF SubChain, Frame
<1>10. CASE SubFini(c)
  BY <1>3, <1>4, <1>10 DEF SubFini, Frame
<1> QED
  BY <1>5, <1>6, <1>7, <1>8, <1>9, <1>10 DEF Scheduling

\* The claim: an object that is claimed for the second time has been pending,
\* is so no longer, and was therefore realized.
LEMMA PassesClaim ==
    ASSUME IInv, Passes, NEW c \in Comp, Claim(c)
    PROVE  Passes'
<1> USE DEF IInv, TypeOK
<1> DEFINE f == Top(c)
           o == f.obj
           g == AfterDeps(f, 0, TRUE)
<1>1. /\ ~LockFree(c) /\ f.pc = "claim" /\ o \notin pending[c]
      /\ pass[c][o] < MaxPass
      /\ pending' = [pending EXCEPT ![c] = @ \cup {o}]
      /\ pass' = [pass EXCEPT ![c][o] = @ + 1]
      /\ SetTop(c, g) /\ UNCHANGED realized
  BY DEF Claim
<1>2. f \in Frame /\ o \in Obj /\ pass[c][o] < 2
  BY <1>1, TopFrame DEF Frame, Passes
<1>3. pass \in [Comp -> [Obj -> 0 .. MaxPass]] /\ pending \in [Comp -> SUBSET Obj]
  BY DEF DbTypeOK
<1>4. g \in Frame /\ g.pc \in {"deps", "rules"}
      /\ FrameOK(pass'[c], g) /\ PassGrows
  <2>1. pass'[c][o] \in 1 .. MaxPass /\ PassGrows
    <3> HIDE DEF o
    <3> QED
      BY <1>1, <1>2, <1>3, MaxPassAssumption DEF PassGrows
  <2> QED
    BY <1>2, <2>1, AfterDepsFrame
<1> HIDE DEF g
<1>5. Top(c)' = g /\ \A d \in Comp : d # c => sched'[d] = sched[d]
  BY <1>1, <1>4, SetTopKeeps
<1>6. ASSUME NEW d \in Comp, NEW q \in Obj
      PROVE  /\ pass'[d][q] > 0 => q \in pending'[d] \/ <<q, 0>> \in realized'[d]
             /\ pass'[d][q] > 1 => <<q, 0>> \in realized'[d]
  <2>1. CASE d = c /\ q = o
    <3>1. q \in pending'[d]
      BY <1>1, <1>2, <1>3, <2>1
    <3>2. pass[c][o] \in Int /\ pass'[d][q] = pass[c][o] + 1
      BY <1>1, <1>2, <1>3, <2>1
    <3>3. pass[c][o] > 0 => <<o, 0>> \in realized[c]
      BY <1>1, <1>2 DEF Passes, ObjectRealized
    <3> HIDE DEF o
    <3> QED
      BY <1>1, <2>1, <3>1, <3>2, <3>3
  <2>2. CASE ~(d = c /\ q = o)
    <3>1. pass'[d][q] = pass[d][q] /\ pending[d] \subseteq pending'[d]
      BY <1>1, <1>2, <1>3, <2>2
    <3> QED
      BY <1>1, <3>1 DEF Passes, ObjectRealized
  <2> QED
    BY <2>1, <2>2
<1>7. ASSUME NEW d \in Comp, ~LockFree(d)', Top(d)'.pc = "claim"
      PROVE  pass'[d][Top(d)'.obj] < 2
  <2>1. d # c
    BY <1>4, <1>5, <1>7
  <2>2. sched'[d] = sched[d] /\ pass'[d] = pass[d]
    BY <1>1, <1>2, <1>3, <1>5, <2>1
  <2> QED
    BY <1>7, <2>2 DEF Passes, LockFree, Top
<1> QED
  BY <1>6, <1>7 DEF Passes, ObjectRealized

\* A touchpoint announcement: its target has just been found unrealized.
LEMMA PassesTpoint ==
    ASSUME IInv, Passes, NEW c \in Comp, NEW m \in tpNet, RecvTpoint(c, m)
    PROVE  Passes'
<1> USE DEF IInv, TypeOK
<1> DEFINE o == Touch[m.from][m.n]
<1>1. UNCHANGED <<pass, realized, pending>>
      /\ pass \in [Comp -> [Obj -> 0 .. MaxPass]]
  BY DEF RecvTpoint, dbVars, DbTypeOK
<1>2. o \in Obj
  <2>1. m.from \in Comp /\ m.n \in DOMAIN Touch[m.from]
    BY DEF NetOK, DataTypeOK, TpMsg
  <2>2. Touch[m.from] \in Seq(Obj)
    BY <2>1, TouchAssumption
  <2> QED
    BY <2>1, <2>2, ElementOfSeq, LenProperties
<1>3. CASE ObjectRealized(c, o)
  BY <1>1, <1>3, PassesStay DEF RecvTpoint
<1>4. CASE ~ObjectRealized(c, o)
  <2>1. sched' = [sched EXCEPT ![c] = <<NewFrame(o)>>]
    BY <1>4 DEF RecvTpoint
  <2>2. Top(c)' = NewFrame(o) /\ \A d \in Comp : d # c => sched'[d] = sched[d]
    BY <1>1, <1>2, <2>1, OpenKeeps
  <2>3. Top(c)'.obj = o
    BY <2>2 DEF NewFrame
  <2> QED
    BY <1>1, <1>2, <1>4, <2>2, <2>3, PassesTop
<1> QED
  BY <1>3, <1>4

\* All other steps: flags are only set, and realize_object takes the pending
\* flag of no object but the one it realizes.
LEMMA PassesRest ==
    ASSUME IInv, Passes, NEW c \in Comp,
           \/ Activating(c) \/ Transferring(c) \/ Working(c)
           \/ \E m \in workNet : RecvWork(c, m)
           \/ \E m \in finiNet : RecvFini(c, m)
    PROVE  Passes'
<1> USE DEF IInv, TypeOK
<1>1. UNCHANGED <<pass, sched>>
  BY DEF Activating, ScanHit, Push, ScanEnd, Transferring, Notify, HandleNotify,
         RecvWork, RecvFini, dbVars, Working, EnterIdle, Leave, Take, Initiate,
         RealizeObject, RunSubrule, CheckSubRunning, CheckSubDone, CheckSubFails,
         QueueLastLink, FinishSubrule, Requeue, Announce, Tpoint, PollTpoint,
         Fini, PollFini
<1>2. realized' = realized \/ \E e : realized' = [realized EXCEPT ![c] = @ \cup {e}]
  BY DEF Activating, ScanHit, Push, ScanEnd, Transferring, Notify, HandleNotify,
         RecvWork, RecvFini, dbVars, Working, EnterIdle, Leave, Take, Initiate,
         RealizeObject, RunSubrule, CheckSubRunning, CheckSubDone, CheckSubFails,
         QueueLastLink, FinishSubrule, Requeue, Announce, Tpoint, PollTpoint,
         Fini, PollFini
<1>3. \A d \in Comp : realized[d] \subseteq realized'[d]
  BY <1>2 DEF DbTypeOK
<1>4. CASE RealizeObject(c)
  <2>1. /\ realized' = [realized EXCEPT ![c] = @ \cup {<<work[c].obj, 0>>}]
        /\ pending' = [pending EXCEPT ![c] = @ \ {work[c].obj}]
    BY <1>4 DEF RealizeObject
  <2>2. \A d \in Comp : \A o \in Obj :
            o \in pending[d] => o \in pending'[d] \/ <<o, 0>> \in realized'[d]
    BY <2>1 DEF DbTypeOK
  <2> QED
    BY <1>1, <1>3, <2>2, PassesStay
<1>5. CASE ~RealizeObject(c)
  <2>1. UNCHANGED pending
    BY <1>5
       DEF Activating, ScanHit, Push, ScanEnd, Transferring, Notify,
           HandleNotify, RecvWork, RecvFini, dbVars, Working, EnterIdle, Leave,
           Take, Initiate, RunSubrule, CheckSubRunning, CheckSubDone,
           CheckSubFails, QueueLastLink, FinishSubrule, Requeue, Announce,
           Tpoint, PollTpoint, Fini, PollFini
  <2> QED
    BY <1>1, <1>3, <2>1, PassesStay
<1> QED
  BY <1>4, <1>5

\* In every instance, an object is scheduled anew only when it was realized
\* between two looks of schedule_target, and never a third time.
THEOREM TwoPassesAtMost == Spec => []NoThirdPass
<1>1. Init => Passes
  BY DEF Init, Passes, LockFree
<1>2. IInv /\ Passes /\ [Next]_vars => Passes'
  <2> SUFFICES ASSUME IInv, Passes, [Next]_vars PROVE Passes'
    OBVIOUS
  <2>1. CASE UNCHANGED vars
    BY <2>1, PassesStay DEF vars, dbVars
  <2>2. ASSUME NEW c \in Comp, Scheduling(c) PROVE Passes'
    BY <2>2, PassesScheduling, PassesClaim
  <2>3. ASSUME NEW c \in Comp, Receiving(c) PROVE Passes'
    BY <2>3, PassesTpoint, PassesRest DEF Receiving
  <2>4. ASSUME NEW c \in Comp, Activating(c) \/ Transferring(c) \/ Working(c)
        PROVE  Passes'
    BY <2>4, PassesRest
  <2> QED
    BY <2>1, <2>2, <2>3, <2>4 DEF Next, Over
<1>3. Passes => NoThirdPass
  BY DEF Passes, NoThirdPass
<1> QED
  BY <1>1, <1>2, <1>3, InitIInv, NextIInv, PTL DEF Spec

-----------------------------------------------------------------------------
(***************************************************************************)
(* Nobody tears down before everybody has said fini.                       *)
(***************************************************************************)

\* The components whose fini c has not counted yet.
Outstanding(c) ==
    {d \in Comp : ~Signalled(d) \/ [to |-> c, from |-> d] \in finiNet}

\* comp_count covers them, and a fini on its way has been said.
FiniCounted ==
    /\ \A c \in Comp : Cardinality(Outstanding(c)) <= count[c]
    /\ \A m \in finiNet : Signalled(m.from)

\* A component waits for finitely many others.
LEMMA OutstandingFinite ==
    ASSUME NEW c \in Comp
    PROVE  IsFiniteSet(Outstanding(c)) /\ Cardinality(Outstanding(c)) \in Nat
<1>1. Outstanding(c) \in SUBSET Comp
  BY DEF Outstanding
<1> QED
  BY <1>1, CompAssumption, FS_Subset, FS_CardinalityType

\* Steps that count nothing, while what is said stays said.
LEMMA CountStays ==
    ASSUME IInv, FiniCounted, NEW c \in Comp, count'[c] = count[c],
           \A d \in Comp : Signalled(d) => Signalled(d)',
           \A m \in finiNet' : m \in finiNet \/ ~Signalled(m.from)
    PROVE  Cardinality(Outstanding(c)') <= count'[c]
<1>1. Outstanding(c)' \in SUBSET Outstanding(c)
  BY DEF Outstanding
<1>2. /\ Cardinality(Outstanding(c)') <= Cardinality(Outstanding(c))
      /\ Cardinality(Outstanding(c)') \in Nat
  BY <1>1, OutstandingFinite, FS_Subset, FS_CardinalityType
<1>3. count[c] \in Int
  BY DEF IInv, TypeOK, ThreadTypeOK
<1> QED
  BY <1>2, <1>3, OutstandingFinite DEF FiniCounted

\* All steps but those below leave the messages and comp_count alone.
Uncounted == UNCHANGED <<tp, count, finiNet>>

\* The steps that touch neither the count nor the announcements of benesh_fini.
LEMMA UncountedSteps ==
    ASSUME NEW c \in Comp,
           \/ Scheduling(c) \/ Activating(c) \/ Transferring(c)
           \/ \E m : RecvTpoint(c, m) \/ RecvWork(c, m)
           \/ Working(c) /\ ~Tpoint(c) /\ ~Fini(c)
    PROVE  Uncounted
<1> USE DEF Uncounted, mainVars, netVars
<1>1. CASE Scheduling(c)
  BY <1>1 DEF Scheduling, FindPending, Claim, CheckDep, SubDep, CheckChain, SubChain, SubFini,
     EndSchedule, Return, Signal
<1>2. CASE Activating(c)
  BY <1>2 DEF Activating, ScanHit, Push, ScanEnd
<1>3. CASE Transferring(c)
  BY <1>3 DEF Transferring, Notify, HandleNotify
<1>4. CASE \E m : RecvTpoint(c, m) \/ RecvWork(c, m)
  BY <1>4 DEF RecvTpoint, RecvWork
<1>5. CASE Working(c) /\ ~Tpoint(c) /\ ~Fini(c)
  BY <1>5 DEF Working, EnterIdle, Leave, Take, Initiate, RealizeObject, StartActivation,
     RunSubrule, CheckSubRunning, CheckSubDone, SubruleDone, CheckSubFails, QueueLastLink,
     FinishSubrule, Requeue, Announce, PollTpoint, PollFini
<1> QED
  BY <1>1, <1>2, <1>3, <1>4, <1>5

\* The next touchpoint, or fini: said now, and on its way to all.
LEMMA SayingKeeps ==
    ASSUME IInv, FiniCounted, NEW c \in Comp, Tpoint(c) \/ Fini(c)
    PROVE  FiniCounted'
<1>1. /\ tp' = [tp EXCEPT ![c] = @ + 1] /\ UNCHANGED count
      /\ \/ UNCHANGED finiNet
         \/ /\ tp[c] = Len(Touch[c])
            /\ finiNet' = finiNet \cup {[to |-> d, from |-> c] : d \in Comp}
  BY DEF Tpoint, Fini
<1>2. tp \in [Comp -> Nat] /\ \A d \in Comp : Len(Touch[d]) \in Nat
  BY TouchAssumption, LenProperties DEF IInv, TypeOK, ThreadTypeOK
<1>3. \A d \in Comp : Signalled(d) => Signalled(d)'
  BY <1>1, <1>2 DEF Signalled
<1>4. \A m \in finiNet' :
          m \in finiNet \/ (m.from = c /\ ~Signalled(c) /\ Signalled(c)')
  <2> SUFFICES ASSUME NEW m \in finiNet', m \notin finiNet
               PROVE  m.from = c /\ ~Signalled(c) /\ Signalled(c)'
    OBVIOUS
  <2>1. tp[c] = Len(Touch[c]) /\ m.from = c
    BY <1>1
  <2>2. tp'[c] = tp[c] + 1
    BY <1>1, <1>2
  <2> QED
    BY <1>2, <2>1, <2>2 DEF Signalled
<1>5. \A m \in finiNet : m.from \in Comp
  BY DEF IInv, TypeOK, DataTypeOK, FiniMsg
<1>6. \A m \in finiNet' : Signalled(m.from)'
  BY <1>3, <1>4, <1>5 DEF FiniCounted
<1>7. ASSUME NEW e \in Comp PROVE Cardinality(Outstanding(e)') <= count'[e]
  BY <1>1, <1>3, <1>4, CountStays
<1> QED
  BY <1>6, <1>7 DEF FiniCounted

\* fini_watch counts one component that has said fini.
LEMMA CountingKeeps ==
    ASSUME IInv, FiniCounted, NEW c \in Comp, NEW m \in finiNet, RecvFini(c, m)
    PROVE  FiniCounted'
<1>1. /\ finiNet' = finiNet \ {m} /\ UNCHANGED tp
      /\ count' = [count EXCEPT ![c] = @ - 1]
      /\ count \in [Comp -> Int]
  BY DEF RecvFini, IInv, TypeOK, ThreadTypeOK
<1>2. m.from \in Comp /\ m = [to |-> c, from |-> m.from] /\ Signalled(m.from)
  BY DEF RecvFini, IInv, TypeOK, DataTypeOK, FiniMsg, FiniCounted
<1>3. \A d \in Comp : Signalled(d)' <=> Signalled(d)
  BY <1>1 DEF Signalled
<1>4. Signalled(m.from)' <=> Signalled(m.from)
  BY <1>1 DEF Signalled
<1>5. Outstanding(c)' = Outstanding(c) \ {m.from} /\ m.from \in Outstanding(c)
  BY <1>1, <1>2, <1>3 DEF Outstanding
<1>6. /\ Cardinality(Outstanding(c)') = Cardinality(Outstanding(c)) - 1
      /\ Cardinality(Outstanding(c)) \in Nat
  BY <1>5, OutstandingFinite, FS_RemoveElement
<1>7. Cardinality(Outstanding(c)') <= count'[c]
  BY <1>1, <1>6 DEF FiniCounted
<1>8. ASSUME NEW e \in Comp, e # c PROVE Cardinality(Outstanding(e)') <= count'[e]
  BY <1>1, <1>3, <1>8, CountStays
<1>9. \A n \in finiNet' : n \in finiNet /\ n.from \in Comp
  BY <1>1 DEF IInv, TypeOK, DataTypeOK, FiniMsg
<1> QED
  BY <1>3, <1>7, <1>8, <1>9 DEF FiniCounted

\* The count and the announcements that have not arrived stay in balance.
LEMMA FiniCountedKept ==
    ASSUME IInv, FiniCounted, [Next]_vars
    PROVE  FiniCounted'
<1>1. CASE Uncounted
  BY <1>1 DEF Uncounted, FiniCounted, Outstanding, Signalled
<1>2. ASSUME NEW c \in Comp, Tpoint(c) \/ Fini(c) PROVE FiniCounted'
  BY <1>2, SayingKeeps
<1>3. ASSUME NEW c \in Comp, NEW m \in finiNet, RecvFini(c, m) PROVE FiniCounted'
  BY <1>3, CountingKeeps
<1>4. CASE UNCHANGED vars
  BY <1>1, <1>4 DEF vars, mainVars, netVars, Uncounted
<1> QED
  BY <1>1, <1>2, <1>3, <1>4, UncountedSteps DEF Next, Over, Receiving

\* Only the poll of benesh_fini, when it has counted everybody, tears down.
LEMMA TearingDown ==
    ASSUME IInv, [Next]_vars, NEW c \in Comp, pc'[c] = "down", pc[c] # "down"
    PROVE  PollFini(c) /\ count[c] = 0
<1> USE DEF IInv, TypeOK, ThreadTypeOK
<1>1. ASSUME NEW d \in Comp, Scheduling(d) PROVE pc' = pc \/ Signal(d)
  BY <1>1 DEF Scheduling, FindPending, Claim, CheckDep, SubDep, CheckChain, SubChain, SubFini,
     EndSchedule, Return, mainVars
<1>2. ASSUME NEW d \in Comp, Activating(d) PROVE pc' = pc \/ Signal(d)
  BY <1>2 DEF Activating, ScanHit, Push, ScanEnd, mainVars
<1>3. ASSUME NEW d \in Comp, Receiving(d) PROVE pc' = pc \/ Signal(d)
  BY <1>3 DEF Receiving, RecvTpoint, RecvWork, RecvFini, mainVars
<1>4. ASSUME NEW d \in Comp, Transferring(d) PROVE pc' = pc
  BY <1>4 DEF Transferring, Notify, HandleNotify, mainVars
<1>5. ASSUME NEW d \in Comp, Signal(d) PROVE pc'[c] # "down"
  BY <1>5 DEF Signal
<1>6. ASSUME NEW d \in Comp, Working(d), ~PollFini(d) PROVE pc'[c] # "down"
  BY <1>6 DEF Working, EnterIdle, Leave, Take, Initiate, RealizeObject, StartActivation,
     RunSubrule, CheckSubRunning, CheckSubDone, SubruleDone, CheckSubFails, QueueLastLink,
     FinishSubrule, Requeue, Announce, PollTpoint, Tpoint, Fini
<1>7. ASSUME NEW d \in Comp, PollFini(d) PROVE d = c /\ count[c] = 0
  BY <1>7 DEF PollFini, AllFini
<1> QED
  BY <1>1, <1>2, <1>3, <1>4, <1>5, <1>6, <1>7 DEF Next, Over, vars, mainVars

\* Who tears down has counted the fini of every component; so all are past
\* their touchpoints and need no more work from it.
THEOREM NobodyLeft == Spec => []TeardownLast
<1>1. Init => FiniCounted /\ TeardownLast
  <2> SUFFICES ASSUME Init PROVE FiniCounted /\ TeardownLast
    OBVIOUS
  <2>1. ASSUME NEW c \in Comp PROVE Cardinality(Outstanding(c)) <= count[c]
    <3>1. Outstanding(c) \in SUBSET Comp
      BY DEF Outstanding
    <3>2. count[c] = Cardinality(Comp)
      BY DEF Init
    <3> QED
      BY <3>1, <3>2, CompAssumption, FS_Subset, FS_CardinalityType
  <2> QED
    BY <2>1 DEF Init, FiniCounted, TeardownLast
<1>2. IInv /\ FiniCounted /\ TeardownLast /\ [Next]_vars => TeardownLast'
  <2> SUFFICES ASSUME IInv, FiniCounted, TeardownLast, [Next]_vars, NEW c \in Comp,
                      pc'[c] = "down", NEW d \in Comp
               PROVE  Signalled(d)'
    BY DEF TeardownLast
  <2>1. Signalled(d)
    <3>1. CASE pc[c] = "down"
      BY <3>1 DEF TeardownLast
    <3>2. CASE pc[c] # "down"
      <4>1. Cardinality(Outstanding(c)) <= 0
        BY <3>2, TearingDown DEF FiniCounted
      <4>2. Outstanding(c) = {}
        BY <4>1, OutstandingFinite, FS_EmptySet
      <4> QED
        BY <4>2 DEF Outstanding
    <3> QED
      BY <3>1, <3>2
  <2>2. tp'[d] >= tp[d] /\ tp[d] \in Nat /\ tp'[d] \in Nat
    <3>1. IInv'
      BY NextIInv
    <3>2. ASSUME NEW e \in Comp, Tpoint(e) \/ Fini(e) PROVE tp'[d] >= tp[d]
      <4>1. tp' = [tp EXCEPT ![e] = @ + 1] /\ tp \in [Comp -> Nat]
        BY <3>2 DEF Tpoint, Fini, IInv, TypeOK, ThreadTypeOK
      <4>2. tp'[d] = tp[d] \/ tp'[d] = tp[d] + 1
        BY <4>1
      <4> QED
        BY <4>1, <4>2
    <3>3. ASSUME NEW e \in Comp, NEW m, RecvFini(e, m) PROVE tp' = tp
      BY <3>3 DEF RecvFini
    <3>4. (\E e \in Comp : (Tpoint(e) \/ Fini(e)) \/ \E m : RecvFini(e, m)) \/ tp' = tp
      BY UncountedSteps DEF Next, Over, Receiving, vars, mainVars, Uncounted
    <3>5. tp[d] \in Nat /\ tp'[d] \in Nat
      BY <3>1 DEF IInv, TypeOK, ThreadTypeOK
    <3> QED
      BY <3>2, <3>3, <3>4, <3>5
  <2>3. Len(Touch[d]) \in Nat
    BY TouchAssumption, LenProperties
  <2> QED
    BY <2>1, <2>2, <2>3 DEF Signalled
<1> QED
  BY <1>1, <1>2, FiniCountedKept, InitIInv, NextIInv, PTL DEF Spec

-----------------------------------------------------------------------------
(***************************************************************************)
(* A buffer is written only while check_sub waits for that.                *)
(***************************************************************************)

\* The main thread is in activate_subs when an activation is its own, and has
\* one such call at a time.
OwnCalls(c) ==
    /\ \A a \in act[c] : a.by = "main" => pc[c] = "activate"
    /\ \A a, b \in act[c] : a.by = "main" /\ b.by = "main" => a = b

Claimed == {"claimed", "copied"}

\* A notification that may write is the one the main thread waits for.
OwnBuffer(c) ==
    \A n \in SubNode : xfer[c][n] \in Claimed => pc[c] = "blocked" /\ CurrentRule(c) = n

Writers == \A c \in Comp : OwnCalls(c) /\ OwnBuffer(c)

\* What a step of component c leaves alone, and how handlers and schedulers
\* touch its main thread.
OthersSame(c) ==
    \A d \in Comp : d # c =>
        /\ act'[d] = act[d] /\ xfer'[d] = xfer[d]
        /\ pc'[d] = pc[d] /\ work'[d] = work[d] /\ link'[d] = link[d]

Nudged(c) ==
    /\ pc'[c] = pc[c] \/ (pc[c] = "wait" /\ pc'[c] = "loop")
    /\ work'[c] = work[c] /\ link'[c] = link[c]

\* A step of one component that keeps its own buffer exclusive keeps all.
LEMMA OneComponent ==
    ASSUME Writers, NEW c \in Comp, OthersSame(c), OwnCalls(c)', OwnBuffer(c)'
    PROVE  Writers'
<1> SUFFICES ASSUME NEW d \in Comp, d # c PROVE OwnCalls(d)' /\ OwnBuffer(d)'
  BY DEF Writers
<1> QED
  BY DEF Writers, OthersSame, OwnCalls, OwnBuffer, CurrentRule, Current

\* Nobody else starts to wait, or becomes the main thread's call.
LEMMA CallsStay ==
    ASSUME NEW c \in Comp, OwnCalls(c), Nudged(c),
           \A a \in act'[c] : a.by = "main" => a \in act[c]
    PROVE  OwnCalls(c)'
BY DEF OwnCalls, Nudged

\* A buffer stays exclusive when no notification newly claims it.
LEMMA BufferStays ==
    ASSUME NEW c \in Comp, OwnBuffer(c), Nudged(c),
           \A n \in SubNode : xfer'[c][n] \in Claimed => xfer[c][n] \in Claimed
    PROVE  OwnBuffer(c)'
BY DEF OwnBuffer, Nudged, CurrentRule, Current

\* A call that goes on.
LEMMA CallMoves ==
    ASSUME NEW c \in Comp, OwnCalls(c), Nudged(c), NEW a \in act[c], NEW b,
           b.by = a.by, act'[c] = (act[c] \ {a}) \cup {b}
    PROVE  OwnCalls(c)'
BY DEF OwnCalls, Nudged

\* schedule_target gives no notification the buffer.
LEMMA SchedulingWrites ==
    ASSUME IInv, Writers, NEW c \in Comp, Scheduling(c)
    PROVE  Writers'
<1> USE DEF IInv, TypeOK, ThreadTypeOK, DataTypeOK
<1>1. UNCHANGED <<act, work, link>> /\ (UNCHANGED pc \/ Signal(c))
  BY DEF Scheduling, FindPending, Claim, CheckDep, SubDep, CheckChain, SubChain, SubFini,
     EndSchedule, Return, mainVars
<1>2. UNCHANGED xfer \/ \E o, k, p : Subscribe(c, o, k, p)
  BY DEF Scheduling, FindPending, Claim, CheckDep, SubDep, CheckChain, SubChain, SubFini,
     EndSchedule, dataVars
<1>3. Nudged(c) /\ OthersSame(c)
  BY <1>1, <1>2 DEF Nudged, OthersSame, Signal, Subscribe
<1>4. ASSUME NEW n \in SubNode, xfer'[c][n] \in Claimed PROVE xfer[c][n] \in Claimed
  <2>1. ASSUME NEW o, NEW k, NEW p, Subscribe(c, o, k, p)
        PROVE  xfer'[c][n] \in {"wait", xfer[c][n]}
    BY <2>1 DEF Subscribe
  <2> QED
    BY <1>2, <1>4, <2>1 DEF Claimed
<1> QED
  BY <1>1, <1>3, <1>4, CallsStay, BufferStays, OneComponent DEF Writers

\* activate_subs gives none the buffer either.
LEMMA ActivatingWrites ==
    ASSUME IInv, Writers, NEW c \in Comp, Activating(c)
    PROVE  Writers'
<1> USE DEF IInv, TypeOK, ThreadTypeOK, DataTypeOK
<1>1. OwnCalls(c) /\ OwnBuffer(c)
  BY DEF Writers
<1>2. ASSUME NEW a \in act[c], NEW i, ScanHit(c, a, i) \/ Push(c, a) PROVE Writers'
  <2>1. /\ UNCHANGED <<xfer, work, link>> /\ (UNCHANGED pc \/ Signal(c))
        /\ \E b : b.by = a.by /\ act' = [act EXCEPT ![c] = (@ \ {a}) \cup {b}]
    <3>1. /\ [a EXCEPT !.pos = i, !.push = TRUE].by = a.by
          /\ [a EXCEPT !.pos = @ + 1, !.push = FALSE].by = a.by
      BY DEF Activation
    <3> QED
      BY <1>2, <3>1 DEF ScanHit, Push, mainVars, dataVars
  <2>2. Nudged(c) /\ OthersSame(c)
    BY <2>1 DEF Nudged, OthersSame, Signal
  <2>3. PICK b : b.by = a.by /\ act' = [act EXCEPT ![c] = (@ \ {a}) \cup {b}]
    BY <2>1
  <2>4. OwnCalls(c)'
    BY <1>1, <2>2, <2>3, CallMoves
  <2>5. OwnBuffer(c)'
    BY <1>1, <2>1, <2>2, BufferStays
  <2> QED
    BY <2>2, <2>4, <2>5, OneComponent
<1>3. ASSUME NEW a \in act[c], ScanEnd(c, a) PROVE Writers'
  <2>1. act' = [act EXCEPT ![c] = @ \ {a}] /\ UNCHANGED link
    BY <1>3 DEF ScanEnd
  <2>2. \A n \in SubNode : xfer'[c][n] \in Claimed => xfer[c][n] \in Claimed
    BY <1>3 DEF ScanEnd, Claimed
  <2>3. OthersSame(c)
    BY <1>3, <2>1 DEF ScanEnd, OthersSame
  <2>4. CASE a.by # "main"
    <3>1. Nudged(c)
      BY <1>3, <2>1, <2>4 DEF ScanEnd, Nudged
    <3> QED
      BY <1>1, <2>1, <2>2, <2>3, <3>1, CallsStay, BufferStays, OneComponent
  <2>5. CASE a.by = "main"
    <3>1. pc[c] = "activate"
      BY <1>1, <2>5 DEF OwnCalls
    <3>2. \A n \in SubNode : xfer'[c][n] \notin Claimed
      BY <1>1, <2>2, <3>1 DEF OwnBuffer
    <3>3. \A b \in act'[c] : b.by # "main"
      BY <1>1, <2>1, <2>5 DEF OwnCalls
    <3>4. OwnCalls(c)' /\ OwnBuffer(c)'
      BY <3>2, <3>3 DEF OwnCalls, OwnBuffer
    <3> QED
      BY <2>3, <3>4, OneComponent
  <2> QED
    BY <2>4, <2>5
<1> QED
  BY <1>2, <1>3 DEF Activating

\* A notification gets the buffer only when check_sub waits for that one.
LEMMA HandlersWrite ==
    ASSUME IInv, Writers, NEW c \in Comp, Receiving(c) \/ Transferring(c)
    PROVE  Writers'
<1> USE DEF IInv, TypeOK, ThreadTypeOK, DataTypeOK
<1>1. OwnCalls(c) /\ OwnBuffer(c)
  BY DEF Writers
<1>2. UNCHANGED <<work, link>> /\ (UNCHANGED pc \/ Signal(c))
  BY DEF Receiving, Transferring, RecvTpoint, RecvWork, RecvFini, Notify, HandleNotify, mainVars
<1>3. UNCHANGED act \/ \E b : b.by # "main" /\ act' = [act EXCEPT ![c] = @ \cup {b}]
  <2>1. ASSUME NEW o, NEW k, NEW p, NEW f
        PROVE  /\ NewActivation("watch", f, o, k, p).by # "main"
               /\ NewActivation("notify", f, o, k, p).by # "main"
    BY DEF NewActivation
  <2>2. ASSUME NEW m, RecvWork(c, m) PROVE \E b : b.by # "main" /\ act' = [act EXCEPT ![c] = @ \cup {b}]
    BY <2>1, <2>2 DEF RecvWork
  <2>3. ASSUME NEW n, HandleNotify(c, n) PROVE \E b : b.by # "main" /\ act' = [act EXCEPT ![c] = @ \cup {b}]
    BY <2>1, <2>3 DEF HandleNotify
  <2>4. ASSUME NEW m, RecvTpoint(c, m) \/ RecvFini(c, m) \/ Notify(c, m) PROVE UNCHANGED act
    BY <2>4 DEF RecvTpoint, RecvFini, Notify
  <2> QED
    BY <2>2, <2>3, <2>4 DEF Receiving, Transferring
<1>4. /\ \A n \in SubNode : xfer'[c][n] \in Claimed => xfer[c][n] \in Claimed
      /\ \A d \in Comp : d # c => xfer'[d] = xfer[d]
  <2>1. ASSUME NEW m \in SubNode, HandleNotify(c, m) \/ Notify(c, m)
        PROVE  \E s : /\ s \in Claimed => xfer[c][m] \in Claimed
                      /\ xfer' = [xfer EXCEPT ![c][m] = s]
    BY <2>1 DEF HandleNotify, Notify, Claimed
  <2>2. ASSUME NEW m, RecvTpoint(c, m) \/ RecvFini(c, m) \/ RecvWork(c, m) PROVE UNCHANGED xfer
    BY <2>2 DEF RecvTpoint, RecvFini, RecvWork, dataVars
  <2>3. ASSUME NEW m \in SubNode, NEW s, s \in Claimed => xfer[c][m] \in Claimed,
               xfer' = [xfer EXCEPT ![c][m] = s], NEW n \in SubNode, xfer'[c][n] \in Claimed
        PROVE  xfer[c][n] \in Claimed
    BY <2>3
  <2>4. ASSUME NEW m, NEW s, xfer' = [xfer EXCEPT ![c][m] = s], NEW d \in Comp, d # c
        PROVE  xfer'[d] = xfer[d]
    BY <2>4
  <2>5. CASE UNCHANGED xfer
    BY <2>5
  <2>6. CASE \E m \in SubNode : HandleNotify(c, m) \/ Notify(c, m)
    BY <2>1, <2>3, <2>4, <2>6
  <2> QED
    BY <2>2, <2>5, <2>6 DEF Receiving, Transferring
<1>5. Nudged(c) /\ OthersSame(c)
  BY <1>2, <1>3, <1>4 DEF Nudged, OthersSame, Signal
<1>6. \A a \in act'[c] : a.by = "main" => a \in act[c]
  BY <1>3
<1> QED
  BY <1>1, <1>4, <1>5, <1>6, CallsStay, BufferStays, OneComponent

\* The main thread waits for what it has claimed, until that is done.
LEMMA WorkingWrites ==
    ASSUME IInv, Writers, NEW c \in Comp, Working(c)
    PROVE  Writers'
<1> USE DEF IInv, TypeOK, ThreadTypeOK, DataTypeOK
<1>1. OwnCalls(c) /\ OwnBuffer(c)
  BY DEF Writers
<1>2. pc[c] # "activate"
  BY DEF Working, EnterIdle, Leave, Take, Initiate, RealizeObject, RunSubrule, CheckSubRunning,
     CheckSubDone, CheckSubFails, QueueLastLink, FinishSubrule, Requeue, Announce, Tpoint,
     PollTpoint, Fini, PollFini, AtSubrule, OwnBuffer
<1>3. \A a \in act[c] : a.by # "main"
  BY <1>1, <1>2 DEF OwnCalls
<1>4. CASE CheckSubRunning(c)
  <2>1. /\ pc[c] = "handle" /\ pc' = [pc EXCEPT ![c] = "blocked"]
        /\ xfer' = [xfer EXCEPT ![c][CurrentRule(c)] = "claimed"]
        /\ UNCHANGED <<act, work, link>>
    BY <1>4 DEF CheckSubRunning, AtSubrule
  <2>2. \A n \in SubNode : xfer[c][n] \notin Claimed
    BY <1>1, <2>1 DEF OwnBuffer
  <2>3. CurrentRule(c)' = CurrentRule(c)
    BY <2>1 DEF CurrentRule, Current
  <2>4. OwnCalls(c)' /\ OwnBuffer(c)' /\ OthersSame(c)
    BY <1>3, <2>1, <2>2, <2>3 DEF OwnCalls, OwnBuffer, OthersSame
  <2> QED
    BY <2>4, OneComponent
<1>5. CASE ~CheckSubRunning(c)
  <2>1. UNCHANGED xfer /\ \A n \in SubNode : xfer[c][n] \notin Claimed
    <3>1. CASE CheckSubDone(c)
      BY <1>1, <3>1 DEF CheckSubDone, OwnBuffer, Claimed, AtSubrule, dataVars
    <3>2. CASE ~CheckSubDone(c)
      <4>1. UNCHANGED xfer
        BY <1>5, <3>2 DEF Working, EnterIdle, Leave, Take, Initiate, RealizeObject, RunSubrule,
           CheckSubFails, QueueLastLink, FinishSubrule, Requeue, Announce, Tpoint, PollTpoint,
           Fini, PollFini, dataVars
      <4>2. pc[c] # "blocked"
        BY <1>5, <3>2 DEF Working, EnterIdle, Leave, Take, Initiate, RealizeObject, RunSubrule,
           CheckSubFails, QueueLastLink, FinishSubrule, Requeue, Announce, Tpoint, PollTpoint,
           Fini, PollFini, AtSubrule
      <4> QED
        BY <1>1, <4>1, <4>2 DEF OwnBuffer
    <3> QED
      BY <3>1, <3>2
  <2>2. OwnBuffer(c)'
    BY <2>1 DEF OwnBuffer
  <2>3. OthersSame(c) /\ (act'[c] = act[c] \/ StartActivation(c))
    BY <2>1, <1>5 DEF Working, EnterIdle, Leave, Take, Initiate, RealizeObject, RunSubrule,
       CheckSubDone, SubruleDone, CheckSubFails, QueueLastLink, FinishSubrule, Requeue, Announce,
       Tpoint, PollTpoint, Fini, PollFini, StartActivation, OthersSame
  <2>4. CASE act'[c] = act[c]
    BY <1>3, <2>2, <2>3, <2>4, OneComponent DEF OwnCalls
  <2>5. CASE StartActivation(c)
    <3>1. pc'[c] = "activate" /\ \E b : act'[c] = act[c] \cup {b}
      BY <2>5 DEF StartActivation
    <3>2. OwnCalls(c)'
      BY <1>3, <3>1 DEF OwnCalls
    <3> QED
      BY <2>2, <2>3, <3>2, OneComponent
  <2> QED
    BY <2>3, <2>4, <2>5
<1> QED
  BY <1>4, <1>5

\* Nobody writes at the start.
LEMMA WritersInit == Init => Writers
<1> SUFFICES ASSUME Init, NEW c \in Comp PROVE OwnCalls(c) /\ OwnBuffer(c)
  BY DEF Writers
<1>1. act[c] = {} /\ \A n \in SubNode : xfer[c][n] = "none"
  BY DEF Init
<1> QED
  BY <1>1 DEF OwnCalls, OwnBuffer, Claimed

\* Every step keeps the buffers exclusive.
LEMMA WritersKept ==
    ASSUME IInv, Writers, [Next]_vars
    PROVE  Writers'
<1>1. CASE UNCHANGED vars
  BY <1>1 DEF vars, mainVars, dataVars, Writers, OwnCalls, OwnBuffer, CurrentRule, Current
<1> QED
  BY <1>1, SchedulingWrites, ActivatingWrites, HandlersWrite, WorkingWrites DEF Next, Over

\* handle_notify and the main thread never have the same buffer in hand: for
\* every workflow, a notification copies into a variable's buffer only while
\* the main thread is parked in check_sub for that subscription.
THEOREM BufferIsOwn == Spec => []BufferExclusive
<1>1. Writers => BufferExclusive
  BY DEF Writers, OwnBuffer, BufferExclusive, Claimed
<1> QED
  BY <1>1, WritersInit, WritersKept, InitIInv, NextIInv, PTL DEF Spec

-----------------------------------------------------------------------------
(***************************************************************************)
(* Where work is.  A chain and a realization are tasks; each has one token *)
(* that goes from its subscription to the queue and into the main thread's *)
(* hand, and the last link of a chain takes the chain's token over.        *)
(***************************************************************************)

\* The chains of c, and the realizations.
Task(c) ==
    {n \in Node : \/ n.kind = "fini" /\ Proc[n.obj] # <<>>
                  \/ n.kind = "chain" /\ ChainStart(c, n.obj, n.at)}

\* Node m is task n, or a link of it.
PartOf(c, m, n) ==
    \/ m = n
    \/ /\ m.kind = "rule" /\ n.kind = "chain"
       /\ m.obj = n.obj /\ m.pass = n.pass /\ n.at <= m.at
       /\ \A j \in n.at .. m.at : Mine(c, n.obj, j)

SubAt(c, a) == subs[c][<<a.obj, a.at>>][a.pos]

\* Task n has been subscribed, still waits, is about to be queued, is queued,
\* is worked on.
Subscribed(c, n) ==
    \E e \in Entry : \E i \in DOMAIN subs[c][e] : subs[c][e][i].node = n

Awaiting(c, n) ==
    \E e \in Entry : \E i \in DOMAIN subs[c][e] :
        subs[c][e][i].node = n /\ ~subs[c][e][i].done

Pushed(c, n) == \E a \in act[c] : a.push /\ SubAt(c, a).node = n

Queued(c, n) == \E i \in DOMAIN wq[c] : PartOf(c, wq[c][i], n)

InHand(c, n) == PartOf(c, work[c], n)

\* Frame f of schedule_target has still to come to task n.
Ahead(f, n) ==
    /\ f.obj = n.obj
    /\ \/ f.pc \in {"deps", "sub"}
       \/ f.pc \in {"rules", "chain"} /\ (n.kind = "chain" => f.i <= n.at)

Unscheduled(c, n) ==
    \/ n.pass > pass[c][n.obj]
    \/ n.pass = pass[c][n.obj] /\ \E j \in DOMAIN sched[c] : Ahead(sched[c][j], n)

\* A realization whose object is being scheduled, and one whose object has
\* been realized.
BeingMade(c, n) ==
    /\ n.kind = "fini" /\ n.pass = pass[c][n.obj]
    /\ \E j \in DOMAIN sched[c] :
           sched[c][j].obj = n.obj /\ sched[c][j].pc # "claim"

Spent(c, n) ==
    /\ n.kind = "fini"
    /\ \/ n.pass < pass[c][n.obj]
       \/ n.pass = pass[c][n.obj] /\ n.obj \notin pending[c]

\* The token of task n is in one place at most, nowhere before the task has
\* been scheduled, and gone when the task has been carried out.
TokenAt(c, n) ==
    /\ Awaiting(c, n) => ~Pushed(c, n) /\ ~Queued(c, n) /\ ~InHand(c, n)
    /\ Pushed(c, n) => ~Queued(c, n) /\ ~InHand(c, n)
    /\ Queued(c, n) => ~InHand(c, n)
    /\ Unscheduled(c, n) =>
           ~Subscribed(c, n) /\ ~Pushed(c, n) /\ ~Queued(c, n) /\ ~InHand(c, n)
    /\ BeingMade(c, n) => ~Queued(c, n) /\ ~InHand(c, n)
    /\ Spent(c, n) =>
           /\ ~Awaiting(c, n) /\ ~Pushed(c, n) /\ ~Queued(c, n)
           /\ InHand(c, n) => pc[c] \in {"activate", "announce"}

OneToken(c) == \A n \in Task(c) : TokenAt(c, n)

\* A task is subscribed once.
ListsOK(c) ==
    /\ \A e \in Entry : \A i \in DOMAIN subs[c][e] :
           subs[c][e][i].node.kind # "init" => subs[c][e][i].node \in Task(c)
    /\ \A e, f \in Entry : \A i \in DOMAIN subs[c][e], j \in DOMAIN subs[c][f] :
           subs[c][e][i].node = subs[c][f][j].node /\ subs[c][e][i].node.kind # "init"
               => e = f /\ i = j

\* What a call is to queue is no longer waited for, and one call's alone.
PushesOK(c) ==
    /\ \A a \in act[c] : a.push => SubAt(c, a).done
    /\ \A a, b \in act[c] :
           a.push /\ b.push /\ a.obj = b.obj /\ a.at = b.at /\ a.pos = b.pos => a = b

\* A task is queued once, as a whole or by a link.
QueueOK(c) ==
    /\ \A i \in DOMAIN wq[c] :
           wq[c][i].kind # "init" => \E n \in Task(c) : PartOf(c, wq[c][i], n)
    /\ \A n \in Task(c) : \A i, j \in DOMAIN wq[c] :
           PartOf(c, wq[c][i], n) /\ PartOf(c, wq[c][j], n) => i = j

\* So it is with the node in hand; a chain has got to one of its links.
InHandOK(c) ==
    /\ work[c].kind \notin {"none", "init"} => \E n \in Task(c) : InHand(c, n)
    /\ pc[c] \in {"handle", "blocked"} /\ work[c].kind = "chain" =>
           /\ work[c].at <= link[c]
           /\ \A j \in work[c].at .. link[c] : Mine(c, work[c].obj, j)

\* An object with a procedure is scheduled by one frame at a time, and is
\* pending meanwhile.
FramesOnce(c) ==
    /\ \A j \in DOMAIN sched[c] :
           /\ sched[c][j].pc # "claim" /\ Proc[sched[c][j].obj] # <<>> =>
                  sched[c][j].obj \in pending[c]
           /\ sched[c][j].pc = "chain" => ChainStart(c, sched[c][j].obj, sched[c][j].i)
    /\ \A j, k \in DOMAIN sched[c] :
           /\ sched[c][j].pc # "claim" /\ sched[c][k].pc # "claim"
           /\ sched[c][j].obj = sched[c][k].obj /\ Proc[sched[c][j].obj] # <<>>
           => j = k

Tokens(c) ==
    /\ ListsOK(c) /\ PushesOK(c) /\ QueueOK(c) /\ InHandOK(c) /\ FramesOnce(c)
    /\ OneToken(c)

-----------------------------------------------------------------------------
\* What a component has of its own.
Untouched(c) ==
    /\ subs'[c] = subs[c] /\ act'[c] = act[c] /\ wq'[c] = wq[c]
    /\ work'[c] = work[c] /\ link'[c] = link[c] /\ pc'[c] = pc[c]
    /\ sched'[c] = sched[c] /\ pass'[c] = pass[c] /\ pending'[c] = pending[c]

\* Steps of others leave a component's tokens where they are.
LEMMA UntouchedKeeps ==
    ASSUME NEW c \in Comp, Tokens(c), Untouched(c)
    PROVE  Tokens(c)'
<1> USE DEF Untouched
<1>1. ListsOK(c)'
  BY DEF Tokens, ListsOK
<1>2. PushesOK(c)'
  BY DEF Tokens, PushesOK, SubAt
<1>3. QueueOK(c)'
  BY DEF Tokens, QueueOK
<1>4. InHandOK(c)'
  BY DEF Tokens, InHandOK, InHand
<1>5. FramesOnce(c)'
  BY DEF Tokens, FramesOnce
<1>6. ASSUME NEW n \in Task(c), TokenAt(c, n)
      PROVE  TokenAt(c, n)'
  <2>1. Awaiting(c, n)' = Awaiting(c, n) /\ Subscribed(c, n)' = Subscribed(c, n)
    BY DEF Awaiting, Subscribed
  <2>2. Pushed(c, n)' = Pushed(c, n)
    BY DEF Pushed, SubAt
  <2>3. Queued(c, n)' = Queued(c, n) /\ InHand(c, n)' = InHand(c, n)
    BY DEF Queued, InHand
  <2>4. Unscheduled(c, n)' = Unscheduled(c, n)
    BY DEF Unscheduled
  <2>5. BeingMade(c, n)' = BeingMade(c, n) /\ Spent(c, n)' = Spent(c, n)
    BY DEF BeingMade, Spent
  <2> QED
    BY <1>6, <2>1, <2>2, <2>3, <2>4, <2>5 DEF TokenAt
<1>7. OneToken(c)'
  BY <1>6 DEF Tokens, OneToken
<1> QED
  BY <1>1, <1>2, <1>3, <1>4, <1>5, <1>7 DEF Tokens

\* Nothing is scheduled at first.
LEMMA TokensInit ==
    ASSUME Init, NEW c \in Comp
    PROVE  Tokens(c)
<1>1. /\ \A e \in Entry : DOMAIN subs[c][e] = {}
      /\ act[c] = {} /\ DOMAIN wq[c] = {} /\ work[c] = NoNode /\ pc[c] = "app"
      /\ DOMAIN sched[c] = {} /\ \A o \in Obj : pass[c][o] = 0
  BY EmptySeq DEF Init
<1>2. ASSUME NEW n \in Task(c)
      PROVE  TokenAt(c, n)
  <2>1. n \in Node /\ n.pass \in 1 .. MaxPass /\ n.obj \in Obj /\ n.kind \in {"fini", "chain"}
    BY NodeFields DEF Task
  <2>2. ~Subscribed(c, n) /\ ~Awaiting(c, n) /\ ~Pushed(c, n) /\ ~Queued(c, n)
    BY <1>1 DEF Subscribed, Awaiting, Pushed, Queued
  <2>3. ~InHand(c, n)
    BY <1>1, <2>1 DEF InHand, PartOf, NoNode
  <2> QED
    BY <2>2, <2>3 DEF TokenAt
<1>3. ListsOK(c) /\ PushesOK(c) /\ QueueOK(c) /\ FramesOnce(c)
  BY <1>1 DEF ListsOK, PushesOK, QueueOK, FramesOnce
<1>4. InHandOK(c)
  BY <1>1 DEF InHandOK, NoNode
<1> QED
  BY <1>2, <1>3, <1>4 DEF Tokens, OneToken

-----------------------------------------------------------------------------
(***************************************************************************)
(* What a step does to the parts of the invariant.                         *)
(***************************************************************************)

\* (x is the task the step moves, if any.)
KeepsLists(c, x) ==
    /\ ListsOK(c)'
    /\ \A n \in Task(c) \ {x} : /\ Subscribed(c, n)' => Subscribed(c, n)
                                /\ Awaiting(c, n)' => Awaiting(c, n)

KeepsCalls(c, x) ==
    PushesOK(c)' /\ \A n \in Task(c) \ {x} : Pushed(c, n)' => Pushed(c, n)

KeepsQueue(c, x) ==
    /\ QueueOK(c)'
    /\ \A n \in Task(c) \ {x} : Queued(c, n)' => Queued(c, n)

StillAt(c) ==
    pc[c] \in {"activate", "announce"} => pc'[c] \in {"activate", "announce"}

KeepsHand(c, x) ==
    /\ InHandOK(c)'
    /\ \A n \in Task(c) \ {x} : InHand(c, n)' => InHand(c, n) /\ StillAt(c)

KeepsFrames(c, x) ==
    /\ FramesOnce(c)'
    /\ \A n \in Task(c) \ {x} : /\ Unscheduled(c, n)' => Unscheduled(c, n)
                                /\ BeingMade(c, n)' => BeingMade(c, n)
                                /\ Spent(c, n)' => Spent(c, n)

\* A step keeps the tokens if it puts the task it moves into one place.
LEMMA TokensMove ==
    ASSUME NEW c \in Comp, NEW x, Tokens(c), KeepsLists(c, x), KeepsCalls(c, x),
           KeepsQueue(c, x), KeepsHand(c, x), KeepsFrames(c, x),
           x \in Task(c) => TokenAt(c, x)'
    PROVE  Tokens(c)'
<1>1. ASSUME NEW n \in Task(c), n # x
      PROVE  TokenAt(c, n)'
  <2>1. TokenAt(c, n)
    BY DEF Tokens, OneToken
  <2>2. /\ Subscribed(c, n)' => Subscribed(c, n)
        /\ Awaiting(c, n)' => Awaiting(c, n)
        /\ Pushed(c, n)' => Pushed(c, n)
        /\ Queued(c, n)' => Queued(c, n)
        /\ InHand(c, n)' => InHand(c, n) /\ StillAt(c)
        /\ Unscheduled(c, n)' => Unscheduled(c, n)
        /\ BeingMade(c, n)' => BeingMade(c, n)
        /\ Spent(c, n)' => Spent(c, n)
    BY <1>1 DEF KeepsLists, KeepsCalls, KeepsQueue, KeepsHand, KeepsFrames
  <2> QED
    BY <2>1, <2>2 DEF TokenAt, StillAt
<1>2. OneToken(c)'
  BY <1>1 DEF OneToken, Task
<1> QED
  BY <1>2 DEF Tokens, KeepsLists, KeepsCalls, KeepsQueue, KeepsHand, KeepsFrames

\* Node m has not been worked on since it was scheduled, or not to an end.
Idle(c, m) ==
    \/ \E i \in DOMAIN wq[c] : wq[c][i] = m
    \/ work[c] = m /\ pc[c] = "requeue"
    \/ m \in Task(c) /\ (Unscheduled(c, m) \/ Awaiting(c, m) \/ Pushed(c, m))

NoneIdle(c) == \A m \in Node : m.kind # "init" /\ Idle(c, m)' => Idle(c, m)

\* The task a step moves was idle before, so that no other becomes so.
LEMMA IdleKept ==
    ASSUME NEW c \in Comp, NEW x, KeepsLists(c, x), KeepsCalls(c, x), KeepsFrames(c, x),
           \A i \in DOMAIN wq'[c] :
               wq'[c][i].kind # "init" => wq'[c][i] = x \/ \E j \in DOMAIN wq[c] : wq[c][j] = wq'[c][i],
           pc'[c] = "requeue" /\ work'[c].kind # "init" => pc[c] = "requeue" /\ work'[c] = work[c],
           x \in Node => Idle(c, x)
    PROVE  NoneIdle(c)
<1> SUFFICES ASSUME NEW m \in Node, m.kind # "init", Idle(c, m)', m # x
             PROVE  Idle(c, m)
  BY DEF NoneIdle
<1>1. CASE \E i \in DOMAIN wq'[c] : wq'[c][i] = m
  BY <1>1 DEF Idle
<1>2. CASE work'[c] = m /\ pc'[c] = "requeue"
  BY <1>2 DEF Idle
<1>3. CASE m \in Task(c) /\ (Unscheduled(c, m)' \/ Awaiting(c, m)' \/ Pushed(c, m)')
  BY <1>3 DEF Idle, KeepsLists, KeepsCalls, KeepsFrames
<1>4. \/ \E i \in DOMAIN wq'[c] : wq'[c][i] = m
      \/ work'[c] = m /\ pc'[c] = "requeue"
      \/ m \in Task(c) /\ (Unscheduled(c, m)' \/ Awaiting(c, m)' \/ Pushed(c, m)')
  BY DEF Idle, Task
<1> QED
  BY <1>1, <1>2, <1>3, <1>4

\* Lists that do not change.
LEMMA ListsSame ==
    ASSUME NEW c \in Comp, Tokens(c), subs'[c] = subs[c]
    PROVE  \A x : KeepsLists(c, x)
BY DEF Tokens, KeepsLists, ListsOK, Subscribed, Awaiting

\* Calls that have nothing new to queue.
LEMMA CallsSame ==
    ASSUME NEW c \in Comp, Tokens(c),
           \A a \in act'[c] : a.push => a \in act[c] /\ SubAt(c, a)' = SubAt(c, a)
    PROVE  \A x : KeepsCalls(c, x)
<1>1. PushesOK(c)'
  BY DEF Tokens, PushesOK
<1>2. ASSUME NEW n \in Task(c), Pushed(c, n)'
      PROVE  Pushed(c, n)
  BY <1>2 DEF Pushed
<1> QED
  BY <1>1, <1>2 DEF KeepsCalls

\* A queue that does not change.
LEMMA QueueSame ==
    ASSUME NEW c \in Comp, Tokens(c), wq'[c] = wq[c]
    PROVE  \A x : KeepsQueue(c, x)
BY DEF Tokens, KeepsQueue, QueueOK, Queued

\* A main thread that keeps its node, or lets go of it.
LEMMA HandSame ==
    ASSUME NEW c \in Comp, Tokens(c),
           \/ /\ work'[c] = work[c] /\ link'[c] = link[c] /\ StillAt(c)
              /\ pc'[c] \in {"handle", "blocked"} => pc[c] \in {"handle", "blocked"}
           \/ work'[c] = NoNode /\ pc'[c] \notin {"handle", "blocked"}
    PROVE  \A x : KeepsHand(c, x)
<1>1. CASE work'[c] = work[c] /\ link'[c] = link[c] /\ StillAt(c)
           /\ (pc'[c] \in {"handle", "blocked"} => pc[c] \in {"handle", "blocked"})
  BY <1>1 DEF Tokens, KeepsHand, InHandOK, InHand
<1>2. CASE work'[c] = NoNode /\ pc'[c] \notin {"handle", "blocked"}
  <2>1. ASSUME NEW n \in Task(c) PROVE ~InHand(c, n)'
    <3>1. n.kind \in {"fini", "chain"}
      BY DEF Task
    <3> QED
      BY <1>2, <3>1 DEF InHand, PartOf, NoNode
  <2>2. InHandOK(c)'
    BY <1>2 DEF InHandOK, NoNode
  <2> QED
    BY <2>1, <2>2 DEF KeepsHand
<1> QED
  BY <1>1, <1>2

-----------------------------------------------------------------------------
(***************************************************************************)
(* The stack.                                                              *)
(***************************************************************************)

\* Frames past the pending check were so before, with no less behind them.
FramesFrom(c) ==
    \A j \in DOMAIN sched'[c] : sched'[c][j].pc # "claim" =>
        /\ j \in DOMAIN sched[c] /\ sched[c][j].pc # "claim"
        /\ sched'[c][j].obj = sched[c][j].obj
        /\ \A n \in Node : Ahead(sched'[c][j], n) => Ahead(sched[c][j], n)
        /\ sched'[c][j].pc = "chain" => ChainStart(c, sched'[c][j].obj, sched'[c][j].i)

\* Such steps schedule no task twice.
LEMMA FramesKeep ==
    ASSUME NEW c \in Comp, Tokens(c), FramesFrom(c), pass'[c] = pass[c],
           pending'[c] = pending[c]
    PROVE  \A x : KeepsFrames(c, x)
<1>1. FramesOnce(c)'
  BY DEF Tokens, FramesOnce, FramesFrom
<1>2. ASSUME NEW n \in Task(c)
      PROVE  /\ Unscheduled(c, n)' => Unscheduled(c, n)
             /\ BeingMade(c, n)' => BeingMade(c, n)
             /\ Spent(c, n)' => Spent(c, n)
  <2>1. n \in Node /\ \A f : Ahead(f, n) => f.pc # "claim"
    BY DEF Ahead, Task
  <2>2. Unscheduled(c, n)' => Unscheduled(c, n)
    BY <2>1 DEF Unscheduled, FramesFrom
  <2>3. BeingMade(c, n)' => BeingMade(c, n)
    BY DEF BeingMade, FramesFrom
  <2>4. Spent(c, n)' => Spent(c, n)
    BY DEF Spent
  <2> QED
    BY <2>2, <2>3, <2>4
<1> QED
  BY <1>1, <1>2 DEF KeepsFrames

\* A stack that does not change.
LEMMA FramesSame ==
    ASSUME NEW c \in Comp, Tokens(c), sched'[c] = sched[c]
    PROVE  FramesFrom(c)
BY DEF Tokens, FramesOnce, FramesFrom

\* The frame on top moves on.
LEMMA TopFrom ==
    ASSUME IInv, NEW c \in Comp, Tokens(c), ~LockFree(c), NEW g \in Frame, SetTop(c, g),
           Top(c).pc # "claim", g.obj = Top(c).obj,
           \A n \in Node : Ahead(g, n) => Ahead(Top(c), n),
           g.pc = "chain" => ChainStart(c, g.obj, g.i)
    PROVE  FramesFrom(c) /\ Len(sched[c]) \in DOMAIN sched'[c] /\ sched'[c][Len(sched[c])] = g
<1> DEFINE s == sched[c]
           t == Append(Front(s), g)
<1>1. /\ s \in Seq(Frame) /\ Len(s) \in Nat \ {0} /\ Len(s) \in DOMAIN s
      /\ Top(c) = s[Len(s)] /\ DOMAIN s = 1 .. Len(s)
  BY TopFrame, LenProperties DEF IInv, TypeOK
<1>2. t \in Seq(Frame) /\ Len(t) = Len(s) /\ t[Len(s)] = g
      /\ \A j \in 1 .. Len(s) : j # Len(s) => t[j] = s[j]
  BY <1>1, ReplaceLast, EmptySeq
<1>3. sched'[c] = t
  BY DEF SetTop, IInv, TypeOK, ThreadTypeOK
<1>4. DOMAIN t = 1 .. Len(s)
  BY <1>2, LenProperties
<1> HIDE DEF t
<1>5. ASSUME NEW j \in DOMAIN sched'[c], sched'[c][j].pc # "claim"
      PROVE  /\ j \in DOMAIN s /\ s[j].pc # "claim"
             /\ t[j].obj = s[j].obj
             /\ \A n \in Node : Ahead(t[j], n) => Ahead(s[j], n)
             /\ t[j].pc = "chain" => ChainStart(c, t[j].obj, t[j].i)
  <2>1. CASE j = Len(s)
    BY <2>1, <1>1, <1>2, <1>3, <1>4
  <2>2. CASE j # Len(s)
    <3>1. j \in DOMAIN s /\ t[j] = s[j]
      BY <2>2, <1>1, <1>2, <1>3, <1>4, <1>5
    <3> QED
      BY <3>1, <1>3, <1>5 DEF Tokens, FramesOnce
  <2> QED
    BY <2>1, <2>2
<1> QED
  BY <1>1, <1>2, <1>3, <1>4, <1>5 DEF FramesFrom

\* A recursive call.
LEMMA CallFrom ==
    ASSUME IInv, NEW c \in Comp, Tokens(c), NEW o \in Obj,
           sched'[c] = Append(sched[c], NewFrame(o))
    PROVE  FramesFrom(c)
<1> DEFINE s == sched[c]
           t == Append(s, NewFrame(o))
<1>1. NewFrame(o) \in Frame /\ NewFrame(o).pc = "claim"
  BY DEF NewFrame, Frame
<1>2. s \in Seq(Frame)
  BY DEF IInv, TypeOK, ThreadTypeOK
<1>3. t \in Seq(Frame) /\ Len(t) = Len(s) + 1 /\ t[Len(s) + 1] = NewFrame(o)
      /\ \A j \in 1 .. Len(s) : t[j] = s[j]
  BY <1>1, <1>2, AppendProperties
<1>4. DOMAIN t = 1 .. Len(s) + 1 /\ DOMAIN s = 1 .. Len(s) /\ Len(s) \in Nat
  BY <1>2, <1>3, LenProperties
<1> HIDE DEF t
<1>5. \A j \in DOMAIN t : t[j].pc # "claim" => j \in DOMAIN s /\ t[j] = s[j]
  BY <1>1, <1>3, <1>4
<1>6. sched'[c] = t
  BY DEF t
<1> QED
  BY <1>5, <1>6 DEF FramesFrom, Tokens, FramesOnce

\* A return to the caller, which will subscribe.
LEMMA ReturnFrom ==
    ASSUME IInv, NEW c \in Comp, Tokens(c), ~LockFree(c), Return(c)
    PROVE  FramesFrom(c)
<1> DEFINE s == sched[c]
<1>1. /\ s \in Seq(Frame) /\ s # <<>> /\ Len(s) \in Nat \ {0} /\ DOMAIN s = 1 .. Len(s)
      /\ sched \in [Comp -> Seq(Frame)]
  BY EmptySeq, LenProperties DEF IInv, TypeOK, ThreadTypeOK, LockFree
<1>2. CASE Len(s) = 1
  <2>1. sched'[c] = <<>>
    BY <1>1, <1>2 DEF Return
  <2> QED
    BY <2>1 DEF FramesFrom
<1>3. CASE Len(s) # 1
  <2> DEFINE r == Front(s)
             h == [Last(r) EXCEPT !.pc = "sub"]
             t == Append(Front(r), h)
             n == Len(s) - 1
  <2>0. n \in Nat \ {0} /\ n \in 1 .. n /\ n \in 1 .. Len(s) /\ n # Len(s)
    <3>1. Len(s) \in Nat \ {0} /\ Len(s) # 1
      BY <1>1, <1>3
    <3> HIDE DEF s
    <3> QED
      BY <3>1
  <2>1. sched'[c] = t
    BY <1>1, <1>3 DEF Return
  <2>2. r \in Seq(Frame) /\ Len(r) = n /\ n \in Nat \ {0} /\ \A j \in 1 .. n : r[j] = s[j]
    <3>1. r \in Seq(Frame) /\ Len(r) = Len(s) - 1 /\ \A j \in 1 .. Len(s) - 1 : r[j] = s[j]
      BY <1>1, FrontProperties
    <3> HIDE DEF r, s
    <3> QED
      BY <3>1, <2>0
  <2> HIDE DEF r
  <2>3. r # <<>>
    BY <2>2, EmptySeq
  <2>4. n \in DOMAIN s /\ s[n].pc = "deps" /\ s[n] \in Frame
    <3>1. s[n] \in Frame
      BY <1>1, <2>0, ElementOfSeq
    <3> QED
      BY <1>1, <2>0, <3>1 DEF IInv, StackOK
  <2>5. Last(r) = s[n]
    <3>1. Last(r) = r[n] /\ r[n] = s[n]
      <4> HIDE DEF n
      <4> QED
        BY <2>0, <2>2 DEF Last
    <3> QED
      BY <3>1
  <2>6. h \in Frame /\ h.pc = "sub" /\ h.obj = s[n].obj
    BY <2>4, <2>5 DEF Frame
  <2> HIDE DEF h
  <2>7. t \in Seq(Frame) /\ Len(t) = n /\ t[n] = h /\ \A j \in 1 .. n : j # n => t[j] = r[j]
    BY <2>2, <2>3, <2>6, ReplaceLast
  <2>8. DOMAIN t = 1 .. n
    BY <2>7, LenProperties
  <2> HIDE DEF t
  <2>9. ASSUME NEW j \in DOMAIN t, t[j].pc # "claim"
        PROVE  /\ j \in DOMAIN s /\ s[j].pc # "claim" /\ t[j].obj = s[j].obj
               /\ \A m \in Node : Ahead(t[j], m) => Ahead(s[j], m)
               /\ t[j].pc = "chain" => ChainStart(c, t[j].obj, t[j].i)
    <3>1. CASE j = n
      BY <3>1, <2>4, <2>6, <2>7 DEF Ahead
    <3>2. CASE j # n
      <4>1. j \in 1 .. n /\ t[j] = s[j] /\ j \in DOMAIN s
        BY <3>2, <2>2, <2>7, <2>8, <1>1
      <4> QED
        BY <4>1, <2>9 DEF Tokens, FramesOnce
    <3> QED
      BY <3>1, <3>2
  <2> QED
    BY <2>1, <2>9 DEF FramesFrom
<1> QED
  BY <1>2, <1>3

-----------------------------------------------------------------------------
(***************************************************************************)
(* Subscriptions and the queue.                                            *)
(***************************************************************************)

\* What sub_target adds.
LEMMA SubTargetAdds ==
    ASSUME IInv, NEW c \in Comp, NEW e \in Entry, NEW x \in Waiter, SubTarget(c, e, x)
    PROVE  /\ \A f \in Entry : \A i \in DOMAIN subs[c][f] : subs'[c][f][i] = subs[c][f][i]
           /\ \E k \in Nat : \A f \in Entry : \A i \in DOMAIN subs'[c][f] :
                  \/ i \in DOMAIN subs[c][f] /\ subs'[c][f][i] = subs[c][f][i]
                  \/ f = e /\ i = k /\ subs'[c][f][i] = [node |-> x, done |-> FALSE]
<1> DEFINE S == [node : Waiter, done : BOOLEAN]
           s == subs[c][e]
           y == [node |-> x, done |-> FALSE]
           t == Append(s, y)
<1>1. s \in Seq(S) /\ y \in S
  BY DEF IInv, TypeOK, DbTypeOK
<1>2. /\ t \in Seq(S) /\ Len(t) = Len(s) + 1 /\ t[Len(s) + 1] = y
      /\ \A j \in 1 .. Len(s) : t[j] = s[j]
  <2> HIDE DEF S, s, y
  <2> QED
    BY <1>1, AppendProperties
<1>3. DOMAIN t = 1 .. Len(s) + 1 /\ DOMAIN s = 1 .. Len(s) /\ Len(s) \in Nat
  <2> HIDE DEF S, s, t
  <2> QED
    BY <1>1, <1>2, LenProperties
<1>4. subs'[c][e] = t /\ \A f \in Entry : f # e => subs'[c][f] = subs[c][f]
  BY DEF SubTarget, IInv, TypeOK, DbTypeOK
<1> HIDE DEF t, y
<1>5. \A i \in DOMAIN t : (i \in DOMAIN s /\ t[i] = s[i]) \/ (i = Len(s) + 1 /\ t[i] = y)
  BY <1>2, <1>3
<1>6. \A i \in DOMAIN s : t[i] = s[i]
  BY <1>2, <1>3
<1>7. \A f \in Entry : \A i \in DOMAIN subs[c][f] : subs'[c][f][i] = subs[c][f][i]
  BY <1>4, <1>6
<1>8. \A f \in Entry : \A i \in DOMAIN subs'[c][f] :
          \/ i \in DOMAIN subs[c][f] /\ subs'[c][f][i] = subs[c][f][i]
          \/ f = e /\ i = Len(s) + 1 /\ subs'[c][f][i] = y
  BY <1>4, <1>5
<1>9. Len(s) + 1 \in Nat
  BY <1>3
<1> QED
  BY <1>7, <1>8, <1>9 DEF y

\* A task that has not been subscribed may be.
LEMMA ListsGrow ==
    ASSUME IInv, NEW c \in Comp, Tokens(c), NEW e \in Entry, NEW x \in Waiter,
           SubTarget(c, e, x), x.kind = "init" \/ (x \in Task(c) /\ ~Subscribed(c, x))
    PROVE  /\ ListsOK(c)'
           /\ \A n \in Task(c) : /\ Subscribed(c, n)' => Subscribed(c, n) \/ n = x
                                 /\ Awaiting(c, n)' => Awaiting(c, n) \/ n = x
<1>1. PICK k \in Nat : \A f \in Entry : \A i \in DOMAIN subs'[c][f] :
          \/ i \in DOMAIN subs[c][f] /\ subs'[c][f][i] = subs[c][f][i]
          \/ f = e /\ i = k /\ subs'[c][f][i] = [node |-> x, done |-> FALSE]
  BY SubTargetAdds
<1>2. \A f \in Entry : \A i \in DOMAIN subs[c][f] :
          subs[c][f][i].node = x => x.kind = "init"
  BY DEF Subscribed
<1>3. ListsOK(c)'
  <2>1. ASSUME NEW f \in Entry, NEW i \in DOMAIN subs'[c][f], subs'[c][f][i].node.kind # "init"
        PROVE  subs'[c][f][i].node \in Task(c)
    BY <1>1, <2>1 DEF Tokens, ListsOK
  <2>2. ASSUME NEW f \in Entry, NEW g \in Entry, NEW i \in DOMAIN subs'[c][f],
               NEW j \in DOMAIN subs'[c][g], subs'[c][f][i].node = subs'[c][g][j].node,
               subs'[c][f][i].node.kind # "init"
        PROVE  f = g /\ i = j
    <3>1. CASE i \in DOMAIN subs[c][f] /\ subs'[c][f][i] = subs[c][f][i]
               /\ j \in DOMAIN subs[c][g] /\ subs'[c][g][j] = subs[c][g][j]
      BY <3>1, <2>2 DEF Tokens, ListsOK
    <3>2. CASE f = e /\ i = k /\ subs'[c][f][i] = [node |-> x, done |-> FALSE]
      BY <3>2, <1>1, <1>2, <2>2
    <3>3. CASE g = e /\ j = k /\ subs'[c][g][j] = [node |-> x, done |-> FALSE]
      BY <3>3, <1>1, <1>2, <2>2
    <3> QED
      BY <1>1, <3>1, <3>2, <3>3
  <2> QED
    BY <2>1, <2>2 DEF ListsOK, Task
<1>4. ASSUME NEW n \in Task(c)
      PROVE  /\ Subscribed(c, n)' => Subscribed(c, n) \/ n = x
             /\ Awaiting(c, n)' => Awaiting(c, n) \/ n = x
  BY <1>1 DEF Subscribed, Awaiting
<1> QED
  BY <1>3, <1>4

\* A call looks at the subscription it did while others are added.
LEMMA CallsOnList ==
    ASSUME IInv, NEW c \in Comp, Tokens(c), NEW e \in Entry, NEW x \in Waiter,
           SubTarget(c, e, x), act'[c] = act[c]
    PROVE  \A y : KeepsCalls(c, y)
<1>1. \A f \in Entry : \A i \in DOMAIN subs[c][f] : subs'[c][f][i] = subs[c][f][i]
  BY SubTargetAdds
<1>2. ASSUME NEW a \in act[c], a.push
      PROVE  SubAt(c, a)' = SubAt(c, a)
  <2>1. <<a.obj, a.at>> \in Entry /\ a.pos \in DOMAIN subs[c][<<a.obj, a.at>>]
    BY <1>2 DEF IInv, ActOK
  <2> QED
    BY <1>1, <2>1 DEF SubAt
<1> QED
  BY <1>2, CallsSame

\* benesh_make_active adds one node to the queue, at the end if it is new.
LEMMA MakeActiveAt ==
    ASSUME NEW q \in Seq(Node), NEW x \in Node
    PROVE  \A i \in DOMAIN MakeActive(q, x) :
               \/ i \in DOMAIN q /\ MakeActive(q, x)[i] = q[i]
               \/ i = Len(q) + 1 /\ MakeActive(q, x)[i] = x
<1>1. Len(q) \in Nat /\ DOMAIN q = 1 .. Len(q)
  BY LenProperties
<1>2. CASE x \in Range(q)
  <2> DEFINE m == CHOOSE j \in DOMAIN q : q[j] = x
             t == SubSeq(q, 1, m)
  <2>1. m \in DOMAIN q
    BY <1>2 DEF Range
  <2>2. MakeActive(q, x) = t
    BY <1>2 DEF MakeActive
  <2> HIDE DEF m
  <2>3. m \in Int /\ 1 <= m /\ m <= Len(q) /\ \A j \in 1 .. m : q[j] \in Node
    BY <2>1, <1>1, ElementOfSeq
  <2>4. t \in Seq(Node) /\ Len(t) = m /\ \A j \in 1 .. m : t[j] = q[j]
    BY <2>3, SubSeqProperties
  <2>5. DOMAIN t = 1 .. m
    BY <2>4, LenProperties
  <2> HIDE DEF t
  <2> QED
    BY <1>1, <2>2, <2>3, <2>4, <2>5
<1>3. CASE x \notin Range(q)
  <2> DEFINE t == Append(q, x)
  <2>1. t \in Seq(Node) /\ Len(t) = Len(q) + 1 /\ t[Len(q) + 1] = x
        /\ \A j \in 1 .. Len(q) : t[j] = q[j]
    BY AppendProperties
  <2>2. DOMAIN t = 1 .. Len(q) + 1
    BY <2>1, LenProperties
  <2> HIDE DEF t
  <2>3. MakeActive(q, x) = t
    BY <1>3 DEF MakeActive, t
  <2> QED
    BY <1>1, <2>1, <2>2, <2>3
<1> QED
  BY <1>2, <1>3

\* A task may be queued that is not.
LEMMA QueueGets ==
    ASSUME IInv, NEW c \in Comp, Tokens(c), NEW x \in Node,
           wq'[c] = MakeActive(wq[c], x),
           x.kind # "init" => \E n \in Task(c) : PartOf(c, x, n),
           \A n \in Task(c) : PartOf(c, x, n) => ~Queued(c, n)
    PROVE  QueueOK(c)' /\ \A n \in Task(c) : Queued(c, n)' => Queued(c, n) \/ PartOf(c, x, n)
<1>1. wq[c] \in Seq(Node)
  BY DEF IInv, TypeOK, ThreadTypeOK
<1>2. \A i \in DOMAIN wq'[c] :
          \/ i \in DOMAIN wq[c] /\ wq'[c][i] = wq[c][i]
          \/ i = Len(wq[c]) + 1 /\ wq'[c][i] = x
  BY <1>1, MakeActiveAt
<1>3. ASSUME NEW i \in DOMAIN wq'[c], wq'[c][i].kind # "init"
      PROVE  \E n \in Task(c) : PartOf(c, wq'[c][i], n)
  BY <1>2, <1>3 DEF Tokens, QueueOK
<1>4. ASSUME NEW n \in Task(c), NEW i \in DOMAIN wq'[c], NEW j \in DOMAIN wq'[c],
             PartOf(c, wq'[c][i], n), PartOf(c, wq'[c][j], n)
      PROVE  i = j
  BY <1>2, <1>4 DEF Tokens, QueueOK, Queued
<1>5. ASSUME NEW n \in Task(c), Queued(c, n)'
      PROVE  Queued(c, n) \/ PartOf(c, x, n)
  BY <1>2, <1>5 DEF Queued
<1>6. QueueOK(c)'
  BY <1>3, <1>4 DEF QueueOK, Task, PartOf
<1> QED
  BY <1>5, <1>6

-----------------------------------------------------------------------------
(***************************************************************************)
(* schedule_target.                                                        *)
(***************************************************************************)

\* What the scheduler leaves alone.
LEMMA SchedulerSame ==
    ASSUME NEW c \in Comp, Tokens(c), work'[c] = work[c], link'[c] = link[c],
           pc'[c] = pc[c] \/ (pc[c] = "wait" /\ pc'[c] = "loop")
    PROVE  /\ \A x : KeepsHand(c, x)
           /\ pc'[c] = "requeue" /\ work'[c].kind # "init" => pc[c] = "requeue" /\ work'[c] = work[c]
BY HandSame DEF StillAt

\* A signal is nothing more to a main thread.
LEMMA SignalOne ==
    ASSUME IInv, NEW c \in Comp, Signal(c) \/ UNCHANGED pc
    PROVE  pc'[c] = pc[c] \/ (pc[c] = "wait" /\ pc'[c] = "loop")
BY DEF Signal, IInv, TypeOK, ThreadTypeOK

\* Steps of the scheduler that only move frames.
LEMMA OnlyFrames ==
    ASSUME IInv, NEW c \in Comp, Tokens(c), FramesFrom(c), Signal(c) \/ UNCHANGED pc,
           UNCHANGED <<subs, act, wq, work, link, pass, pending>>
    PROVE  Tokens(c)' /\ NoneIdle(c)
<1>1. /\ KeepsLists(c, NoNode) /\ KeepsQueue(c, NoNode) /\ KeepsFrames(c, NoNode)
  BY ListsSame, QueueSame, FramesKeep
<1>2. KeepsCalls(c, NoNode)
  BY CallsSame DEF SubAt
<1>3. /\ KeepsHand(c, NoNode)
      /\ pc'[c] = "requeue" /\ work'[c].kind # "init" => pc[c] = "requeue" /\ work'[c] = work[c]
  BY SchedulerSame, SignalOne
<1>4. NoNode \notin Task(c) /\ NoNode \notin Node
  <2>1. NoNode \notin Node
    BY NodeFields DEF NoNode
  <2> QED
    BY <2>1 DEF Task
<1>5. Tokens(c)'
  BY <1>1, <1>2, <1>3, <1>4, TokensMove
<1>6. NoneIdle(c)
  BY <1>1, <1>2, <1>3, <1>4, IdleKept
<1> QED
  BY <1>5, <1>6

\* After a dependency the frame is at the next, or at the procedure.
LEMMA NextDep ==
    ASSUME NEW f \in Frame, NEW i \in Nat, NEW met \in BOOLEAN, f.pc \in {"deps", "sub"}
    PROVE  LET g == AfterDeps(f, i, met)
           IN  /\ g \in Frame /\ g.obj = f.obj /\ g.pc \in {"deps", "rules"}
               /\ \A n \in Node : Ahead(g, n) => Ahead(f, n)
<1> DEFINE g == AfterDeps(f, i, met)
<1>1. g \in Frame /\ g.obj = f.obj /\ g.pc \in {"deps", "rules"}
  <2> DEFINE p == [o \in Obj |-> 1]
  <2>1. p[f.obj] \in 1 .. MaxPass
    BY MaxPassAssumption DEF Frame
  <2> HIDE DEF p
  <2> QED
    BY <2>1, AfterDepsFrame
<1> HIDE DEF g
<1>2. \A n \in Node : Ahead(g, n) => Ahead(f, n)
  BY <1>1 DEF Ahead
<1> QED
  BY <1>1, <1>2 DEF g

\* Found pending, or a dependency found realized or to be scheduled.
LEMMA FindingTokens ==
    ASSUME IInv, NEW c \in Comp, Tokens(c),
           FindPending(c) \/ CheckDep(c) \/ \E m \in tpNet : RecvTpoint(c, m)
    PROVE  Tokens(c)' /\ NoneIdle(c)
<1>1. UNCHANGED <<subs, act, wq, work, link, pass, pending>> /\ (Signal(c) \/ UNCHANGED pc)
  BY DEF FindPending, CheckDep, RecvTpoint, Return, dbVars, mainVars
<1>2. FramesFrom(c)
  <2>1. CASE FindPending(c)
    BY <2>1, ReturnFrom DEF FindPending
  <2>2. CASE CheckDep(c)
    <3> DEFINE f == Top(c)
               d == Deps[f.obj][f.i]
    <3>1. /\ ~LockFree(c) /\ f.pc = "deps" /\ f \in Frame /\ FrameOK(pass[c], f)
          /\ f.i \in Nat /\ f.met \in BOOLEAN
      BY <2>2, TopFrame DEF CheckDep, IInv, TypeOK, Frame
    <3>2. d \in Obj
      BY <3>1, DepOfFrame
    <3>3. CASE ObjectRealized(c, d)
      <4> DEFINE g == AfterDeps(f, f.i, f.met)
      <4>1. SetTop(c, g)
        BY <2>2, <3>3 DEF CheckDep
      <4>2. g \in Frame /\ g.obj = f.obj /\ g.pc \in {"deps", "rules"}
            /\ \A n \in Node : Ahead(g, n) => Ahead(f, n)
        BY <3>1, NextDep
      <4> HIDE DEF g
      <4> QED
        BY <3>1, <4>1, <4>2, TopFrom
    <3>4. CASE ~ObjectRealized(c, d)
      <4>1. sched'[c] = Append(sched[c], NewFrame(d))
        BY <2>2, <3>4 DEF CheckDep, IInv, TypeOK, ThreadTypeOK
      <4> QED
        BY <3>2, <4>1, CallFrom
    <3> QED
      BY <3>3, <3>4
  <2>3. ASSUME NEW m \in tpNet, RecvTpoint(c, m) PROVE FramesFrom(c)
    <3> DEFINE o == Touch[m.from][m.n]
    <3>1. CASE UNCHANGED sched
      BY <3>1, FramesSame
    <3>2. CASE sched' = [sched EXCEPT ![c] = <<NewFrame(o)>>]
      <4>1. sched'[c] = <<NewFrame(o)>>
        BY <3>2 DEF IInv, TypeOK, ThreadTypeOK
      <4>2. \A j \in DOMAIN <<NewFrame(o)>> : <<NewFrame(o)>>[j] = NewFrame(o)
        OBVIOUS
      <4>3. NewFrame(o).pc = "claim"
        BY DEF NewFrame
      <4> HIDE DEF o
      <4> QED
        BY <4>1, <4>2, <4>3 DEF FramesFrom
    <3> QED
      BY <2>3, <3>1, <3>2 DEF RecvTpoint
  <2> QED
    BY <2>1, <2>2, <2>3
<1> QED
  BY <1>1, <1>2, OnlyFrames

\* The initiation waits for a dependency.
LEMMA SubDepTokens ==
    ASSUME IInv, NEW c \in Comp, Tokens(c), SubDep(c)
    PROVE  Tokens(c)' /\ NoneIdle(c)
<1> DEFINE f == Top(c)
           d == Deps[f.obj][f.i]
           g == AfterDeps(f, f.i, FALSE)
           n == InitNode(f.obj, pass[c][f.obj])
<1>1. /\ ~LockFree(c) /\ f.pc = "sub" /\ f \in Frame /\ FrameOK(pass[c], f) /\ f.i \in Nat
      /\ SubTarget(c, <<d, 0>>, n) /\ SetTop(c, g)
      /\ UNCHANGED <<act, wq, work, link, pc, pass, pending>>
  BY TopFrame DEF SubDep, IInv, TypeOK, Frame, mainVars
<1>2. d \in Obj /\ n \in Waiter /\ n.kind = "init"
  BY <1>1, DepOfFrame, NodesMade DEF InitNode, NodeOf
<1>3. <<d, 0>> \in Entry
  BY <1>2, ProcAssumption, LenProperties DEF Entry
<1>4. FramesFrom(c)
  <2>1. g \in Frame /\ g.obj = f.obj /\ g.pc \in {"deps", "rules"}
        /\ \A m \in Node : Ahead(g, m) => Ahead(f, m)
    BY <1>1, NextDep
  <2> HIDE DEF g
  <2> QED
    BY <1>1, <2>1, TopFrom
<1> HIDE DEF d, g, n
<1>5. KeepsLists(c, NoNode)
  <2>1. \A m \in Task(c) : m # n
    BY <1>2 DEF Task
  <2> QED
    BY <1>1, <1>2, <1>3, <2>1, ListsGrow DEF KeepsLists
<1>6. KeepsCalls(c, NoNode)
  BY <1>1, <1>2, <1>3, CallsOnList
<1>7. KeepsQueue(c, NoNode) /\ KeepsFrames(c, NoNode)
  BY <1>1, <1>4, QueueSame, FramesKeep
<1>8. /\ KeepsHand(c, NoNode)
      /\ pc'[c] = "requeue" /\ work'[c].kind # "init" => pc[c] = "requeue" /\ work'[c] = work[c]
  BY <1>1, SchedulerSame
<1>9. NoNode \notin Task(c) /\ NoNode \notin Node
  BY NodeFields DEF NoNode, Task
<1> QED
  BY <1>1, <1>5, <1>6, <1>7, <1>8, <1>9, TokensMove, IdleKept

\* A task the only frame of its object has got past is scheduled.
LEMMA TaskPassed ==
    ASSUME IInv, NEW c \in Comp, Tokens(c), FramesFrom(c), ~LockFree(c),
           Top(c).pc # "claim", NEW n \in Task(c), n.obj = Top(c).obj,
           n.pass = pass[c][n.obj], pass'[c] = pass[c], pending'[c] = pending[c],
           Len(sched[c]) \in DOMAIN sched'[c] => ~Ahead(sched'[c][Len(sched[c])], n)
    PROVE  ~Unscheduled(c, n)' /\ ~Spent(c, n) /\ ~Spent(c, n)'
<1>1. /\ sched[c] \in Seq(Frame) /\ Len(sched[c]) \in DOMAIN sched[c]
      /\ Top(c) = sched[c][Len(sched[c])]
  BY TopFrame DEF IInv, TypeOK
<1>2. n.obj \in Obj /\ Proc[n.obj] # <<>> /\ n.pass \in 1 .. MaxPass
  <2>1. n \in Node
    BY DEF Task
  <2>2. n.kind = "chain" => Len(Proc[n.obj]) \in Nat /\ n.at \in 1 .. Len(Proc[n.obj])
    BY <2>1, NodeFields, ProcAssumption, LenProperties DEF Steps
  <2>3. n.kind = "chain" => Proc[n.obj] # <<>>
    BY <2>2, EmptySeq
  <2> QED
    BY <2>1, <2>3, NodeFields DEF Task
<1>3. n.obj \in pending[c]
  BY <1>1, <1>2 DEF Tokens, FramesOnce
<1>4. ASSUME NEW j \in DOMAIN sched'[c], Ahead(sched'[c][j], n)
      PROVE  FALSE
  <2>1. sched'[c][j].pc # "claim" /\ sched'[c][j].obj = n.obj
    BY <1>4 DEF Ahead
  <2>2. j \in DOMAIN sched[c] /\ sched[c][j].pc # "claim" /\ sched[c][j].obj = n.obj
    BY <2>1 DEF FramesFrom
  <2>3. j = Len(sched[c])
    BY <1>1, <1>2, <2>2 DEF Tokens, FramesOnce
  <2> QED
    BY <1>4, <2>3
<1>5. ~Unscheduled(c, n)'
  <2>1. n.pass = pass'[c][n.obj] /\ n.pass \in Int
    BY <1>2
  <2>2. ~(n.pass > pass'[c][n.obj])
    BY <2>1
  <2> QED
    BY <1>4, <2>2 DEF Unscheduled
<1>6. ~Spent(c, n) /\ ~Spent(c, n)'
  BY <1>2, <1>3 DEF Spent
<1> QED
  BY <1>5, <1>6

\* A task the frame on top has still to come to is nowhere yet.
LEMMA TaskToCome ==
    ASSUME IInv, NEW c \in Comp, Tokens(c), ~LockFree(c), NEW n \in Task(c),
           n.pass = pass[c][n.obj], Ahead(Top(c), n)
    PROVE  /\ Unscheduled(c, n)
           /\ ~Subscribed(c, n) /\ ~Awaiting(c, n) /\ ~Pushed(c, n)
           /\ ~Queued(c, n) /\ ~InHand(c, n)
<1>1. Len(sched[c]) \in DOMAIN sched[c] /\ Top(c) = sched[c][Len(sched[c])]
  BY TopFrame DEF IInv, TypeOK
<1>2. Unscheduled(c, n)
  BY <1>1 DEF Unscheduled
<1> QED
  BY <1>2 DEF Tokens, OneToken, TokenAt, Awaiting, Subscribed

\* A chain and a realization are subscribed, each once.
LEMMA SubscribingTokens ==
    ASSUME IInv, NEW c \in Comp, Tokens(c), ~LockFree(c), NEW n \in Task(c),
           Top(c).pc # "claim", n.pass = pass[c][n.obj], Ahead(Top(c), n),
           NEW e \in Entry, SubTarget(c, e, n), NEW g \in Frame, SetTop(c, g),
           g.obj = Top(c).obj, ~Ahead(g, n), g.pc # "chain",
           \A m \in Node : Ahead(g, m) => Ahead(Top(c), m),
           UNCHANGED <<act, wq, work, link, pc, pass, pending>>
    PROVE  Tokens(c)' /\ NoneIdle(c)
<1>1. FramesFrom(c) /\ sched'[c][Len(sched[c])] = g
  BY TopFrom
<1>2. /\ n.obj = Top(c).obj /\ n \in Node /\ n.kind \in {"fini", "chain"} /\ n \in Waiter
  BY DEF Ahead, Task, Waiter
<1>3. /\ Unscheduled(c, n) /\ ~Subscribed(c, n) /\ ~Awaiting(c, n) /\ ~Pushed(c, n)
      /\ ~Queued(c, n) /\ ~InHand(c, n)
  BY TaskToCome
<1>4. ~Unscheduled(c, n)' /\ ~Spent(c, n)'
  BY <1>1, <1>2, TaskPassed
<1>5. KeepsLists(c, n)
  BY <1>2, <1>3, ListsGrow DEF KeepsLists
<1>6. \A x : KeepsCalls(c, x)
  BY <1>2, CallsOnList
<1>7. \A x : KeepsQueue(c, x) /\ KeepsFrames(c, x)
  BY <1>1, QueueSame, FramesKeep
<1>8. /\ \A x : KeepsHand(c, x)
      /\ pc'[c] = "requeue" /\ work'[c].kind # "init" => pc[c] = "requeue" /\ work'[c] = work[c]
  BY SchedulerSame
<1>9. ~Pushed(c, n)' /\ ~Queued(c, n)' /\ ~InHand(c, n)'
  <2>1. n # NoNode
    BY <1>2 DEF NoNode
  <2>2. KeepsCalls(c, NoNode) /\ KeepsQueue(c, NoNode) /\ KeepsHand(c, NoNode)
    BY <1>6, <1>7, <1>8
  <2> QED
    BY <1>3, <2>1, <2>2 DEF KeepsCalls, KeepsQueue, KeepsHand
<1>10. TokenAt(c, n)'
  BY <1>4, <1>9 DEF TokenAt
<1>11. Idle(c, n)
  BY <1>3 DEF Idle
<1>12. Tokens(c)'
  BY <1>5, <1>6, <1>7, <1>8, <1>10, TokensMove
<1>13. NoneIdle(c)
  BY <1>5, <1>6, <1>7, <1>8, <1>11, IdleKept
<1> QED
  BY <1>12, <1>13

\* SubChain.
LEMMA SubChainTokens ==
    ASSUME IInv, NEW c \in Comp, Tokens(c), SubChain(c)
    PROVE  Tokens(c)' /\ NoneIdle(c)
<1> DEFINE f == Top(c)
           k == f.i
           n == ChainNode(f.obj, k, pass[c][f.obj])
           g == [f EXCEPT !.pc = "rules", !.i = @ + 1]
           e == ChainEntry(f.obj, k)
<1>1. /\ ~LockFree(c) /\ f.pc = "chain" /\ SubTarget(c, e, n) /\ SetTop(c, g)
      /\ UNCHANGED <<act, wq, work, link, pc, pass, pending>>
  BY DEF SubChain, mainVars
<1>2. /\ f \in Frame /\ f.obj \in Obj /\ pass[c][f.obj] \in 1 .. MaxPass /\ FrameOK(pass[c], f)
  BY <1>1, RuleFrame
<1>3. k \in Steps(f.obj) /\ k \in Nat /\ k >= 1
  BY <1>1, <1>2 DEF FrameOK, Steps, Frame
<1>4. ChainStart(c, f.obj, k)
  BY <1>1, TopFrame DEF IInv, TypeOK, Tokens, FramesOnce
<1>5. n \in Waiter /\ n.kind = "chain" /\ n.obj = f.obj /\ n.at = k /\ n.pass = pass[c][f.obj]
  BY <1>2, <1>3, NodesMade DEF ChainNode, NodeOf
<1>6. n \in Task(c)
  BY <1>4, <1>5 DEF Task, Waiter
<1>7. e \in Entry
  BY <1>2, <1>3, ProcAssumption, LenProperties DEF ChainEntry, Entry, Steps
<1>8. g \in Frame /\ g.obj = f.obj /\ g.pc = "rules" /\ g.i = k + 1
  <2> DEFINE h == k + 1
  <2>1. g = [f EXCEPT !.pc = "rules", !.i = h] /\ h \in Nat
    BY <1>3
  <2> HIDE DEF h
  <2>2. g \in Frame /\ g.obj = f.obj /\ g.pc = "rules" /\ g.i = h
    BY <1>2, <2>1 DEF Frame
  <2> QED
    BY <2>2 DEF h
<1> HIDE DEF n, g, e
<1>9. Ahead(f, n) /\ ~Ahead(g, n)
  BY <1>1, <1>3, <1>5, <1>8 DEF Ahead
<1>10. \A m \in Node : Ahead(g, m) => Ahead(f, m)
  <2> SUFFICES ASSUME NEW m \in Node, Ahead(g, m) PROVE Ahead(f, m)
    OBVIOUS
  <2>1. m.kind = "chain" => k + 1 <= m.at
    BY <1>8 DEF Ahead
  <2>2. m.kind = "chain" => k <= m.at
    <3>1. m.at \in Int
      BY NodeFields
    <3> HIDE DEF k
    <3> QED
      BY <2>1, <1>3, <3>1
  <2> QED
    BY <1>1, <1>8, <2>2 DEF Ahead
<1> QED
  BY <1>1, <1>5, <1>6, <1>7, <1>8, <1>9, <1>10, SubscribingTokens

\* SubFini.
LEMMA SubFiniTokens ==
    ASSUME IInv, NEW c \in Comp, Tokens(c), SubFini(c)
    PROVE  Tokens(c)' /\ NoneIdle(c)
<1> DEFINE f == Top(c)
           n == FiniNode(f.obj, pass[c][f.obj])
           g == [f EXCEPT !.pc = "end"]
           e == FiniEntry(f.obj)
<1>1. /\ ~LockFree(c) /\ f.pc = "rules" /\ SubTarget(c, e, n) /\ SetTop(c, g)
      /\ Finisher(c, f.obj)
      /\ UNCHANGED <<act, wq, work, link, pc, pass, pending>>
  BY DEF SubFini, mainVars
<1>2. /\ f \in Frame /\ f.obj \in Obj /\ pass[c][f.obj] \in 1 .. MaxPass
  BY <1>1, RuleFrame
<1>3. n \in Waiter /\ n.kind = "fini" /\ n.obj = f.obj /\ n.pass = pass[c][f.obj]
  BY <1>2, NodesMade DEF FiniNode, NodeOf
<1>4. n \in Task(c)
  BY <1>1, <1>3 DEF Task, Waiter, Finisher
<1>5. e \in Entry
  BY <1>2, ProcAssumption, LenProperties DEF FiniEntry, Entry
<1>6. g \in Frame /\ g.obj = f.obj /\ g.pc = "end"
  BY <1>2 DEF Frame
<1> HIDE DEF n, g, e
<1>7. Ahead(f, n) /\ \A m : ~Ahead(g, m)
  BY <1>1, <1>3, <1>6 DEF Ahead
<1> QED
  BY <1>1, <1>3, <1>4, <1>5, <1>6, <1>7, SubscribingTokens

\* A chain is made active at once.
LEMMA ChainQueued ==
    ASSUME IInv, NEW c \in Comp, Tokens(c), ~LockFree(c), NEW n \in Task(c),
           Top(c).pc # "claim", n.kind = "chain", n.pass = pass[c][n.obj], Ahead(Top(c), n),
           wq'[c] = MakeActive(wq[c], n), NEW g \in Frame, SetTop(c, g),
           g.obj = Top(c).obj, ~Ahead(g, n), g.pc # "chain",
           \A m \in Node : Ahead(g, m) => Ahead(Top(c), m),
           UNCHANGED <<subs, act, work, link, pc, pass, pending>>
    PROVE  Tokens(c)' /\ NoneIdle(c)
<1>1. FramesFrom(c) /\ sched'[c][Len(sched[c])] = g
  BY TopFrom
<1>2. n.obj = Top(c).obj /\ n \in Node
  BY DEF Ahead, Task
<1>3. /\ Unscheduled(c, n) /\ ~Subscribed(c, n) /\ ~Awaiting(c, n) /\ ~Pushed(c, n)
      /\ ~Queued(c, n) /\ ~InHand(c, n)
  BY TaskToCome
<1>4. ~Unscheduled(c, n)' /\ ~Spent(c, n)'
  BY <1>1, <1>2, TaskPassed
<1>5. \A m : PartOf(c, n, m) => m = n
  BY DEF PartOf
<1>6. KeepsQueue(c, n)
  <2>1. PartOf(c, n, n)
    BY DEF PartOf
  <2> QED
    BY <1>2, <1>3, <1>5, <2>1, QueueGets DEF KeepsQueue
<1>7. \A x : KeepsLists(c, x) /\ KeepsFrames(c, x)
  BY <1>1, ListsSame, FramesKeep
<1>8. \A x : KeepsCalls(c, x)
  BY CallsSame DEF SubAt
<1>9. /\ \A x : KeepsHand(c, x)
      /\ pc'[c] = "requeue" /\ work'[c].kind # "init" => pc[c] = "requeue" /\ work'[c] = work[c]
  BY SchedulerSame
<1>10. ~Pushed(c, n)' /\ ~Subscribed(c, n)' /\ ~Awaiting(c, n)' /\ ~InHand(c, n)'
  <2>1. n # NoNode
    BY DEF NoNode
  <2>2. KeepsCalls(c, NoNode) /\ KeepsLists(c, NoNode) /\ KeepsHand(c, NoNode)
    BY <1>7, <1>8, <1>9
  <2> QED
    BY <1>3, <2>1, <2>2 DEF KeepsCalls, KeepsLists, KeepsHand
<1>11. ~BeingMade(c, n)'
  BY DEF BeingMade
<1>12. TokenAt(c, n)'
  BY <1>4, <1>10, <1>11 DEF TokenAt
<1>13. Idle(c, n)
  BY <1>3 DEF Idle
<1>14. Tokens(c)'
  BY <1>6, <1>7, <1>8, <1>9, <1>12, TokensMove
<1>15. \A i \in DOMAIN wq'[c] : wq'[c][i] = n \/ \E j \in DOMAIN wq[c] : wq[c][j] = wq'[c][i]
  BY <1>2, MakeActiveAt DEF IInv, TypeOK, ThreadTypeOK
<1>16. NoneIdle(c)
  BY <1>7, <1>8, <1>9, <1>13, <1>15, IdleKept
<1> QED
  BY <1>14, <1>16

\* CheckChain.
LEMMA CheckChainTokens ==
    ASSUME IInv, NEW c \in Comp, Tokens(c), NEW k, CheckChain(c, k)
    PROVE  Tokens(c)' /\ NoneIdle(c)
<1> DEFINE f == Top(c)
           o == f.obj
           n == ChainNode(o, k, pass[c][o])
<1>1. /\ ~LockFree(c) /\ f.pc = "rules" /\ k >= f.i /\ ChainStart(c, o, k)
      /\ \/ /\ wq' = [wq EXCEPT ![c] = MakeActive(@, n)]
            /\ SetTop(c, [f EXCEPT !.i = k + 1])
         \/ /\ UNCHANGED wq
            /\ SetTop(c, [f EXCEPT !.pc = "chain", !.i = k])
      /\ UNCHANGED <<subs, act, work, link, pc, pass, pending>>
  BY DEF CheckChain, mainVars, dbVars
<1>2. f \in Frame /\ o \in Obj /\ pass[c][o] \in 1 .. MaxPass
  BY <1>1, RuleFrame
<1>3. k \in Steps(o) /\ k \in Nat /\ k + 1 \in Nat /\ f.i \in Nat
  BY <1>1, <1>2 DEF ChainStart, Steps, Frame
<1>4. n \in Waiter /\ n.kind = "chain" /\ n.obj = o /\ n.at = k /\ n.pass = pass[c][o]
  BY <1>2, <1>3, NodesMade DEF ChainNode, NodeOf
<1>5. n \in Task(c) /\ Ahead(f, n)
  BY <1>1, <1>4 DEF Task, Waiter, Ahead
<1>6. ASSUME NEW g \in Frame, g.obj = o, g.pc \in {"rules", "chain"}, NEW l \in {k, k + 1}, g.i = l
      PROVE  \A m \in Node : Ahead(g, m) => Ahead(f, m)
  <2> SUFFICES ASSUME NEW m \in Node, Ahead(g, m) PROVE Ahead(f, m)
    OBVIOUS
  <2>1. m.kind = "chain" => l <= m.at /\ m.at \in Int
    BY <1>6, NodeFields DEF Ahead
  <2>2. f.i <= l /\ l \in Nat
    BY <1>1, <1>3
  <2>3. m.kind = "chain" => f.i <= m.at
    <3> DEFINE i == f.i
    <3>1. i \in Nat /\ i <= l
      BY <1>3, <2>2
    <3> HIDE DEF i
    <3>2. m.kind = "chain" => i <= m.at
      BY <2>1, <2>2, <3>1
    <3> QED
      BY <3>2 DEF i
  <2> QED
    BY <1>1, <1>6, <2>3 DEF Ahead
<1>7. CASE wq' = [wq EXCEPT ![c] = MakeActive(@, n)] /\ SetTop(c, [f EXCEPT !.i = k + 1])
  <2> DEFINE l == k + 1
             g == [f EXCEPT !.i = l]
  <2>1. l \in Nat /\ l > k
    BY <1>3
  <2>2. g \in Frame /\ g.obj = o /\ g.pc = "rules" /\ g.i = l
    <3> HIDE DEF l
    <3> QED
      BY <1>1, <1>2, <2>1 DEF Frame
  <2>3. ~Ahead(g, n)
    <3> HIDE DEF l, g, n
    <3> QED
      BY <1>3, <1>4, <2>1, <2>2 DEF Ahead
  <2>4. \A m \in Node : Ahead(g, m) => Ahead(f, m)
    BY <1>6, <2>2
  <2>5. wq'[c] = MakeActive(wq[c], n)
    BY <1>7 DEF IInv, TypeOK, ThreadTypeOK
  <2>6. SetTop(c, g)
    BY <1>7
  <2> HIDE DEF g, n
  <2> QED
    BY <1>1, <1>4, <1>5, <2>2, <2>3, <2>4, <2>5, <2>6, ChainQueued
<1>8. CASE UNCHANGED wq /\ SetTop(c, [f EXCEPT !.pc = "chain", !.i = k])
  <2> DEFINE g == [f EXCEPT !.pc = "chain", !.i = k]
  <2>1. g \in Frame /\ g.obj = o /\ g.pc = "chain" /\ g.i = k
    BY <1>2, <1>3 DEF Frame
  <2>2. \A m \in Node : Ahead(g, m) => Ahead(f, m)
    BY <1>6, <2>1
  <2>3. SetTop(c, g)
    BY <1>8
  <2> HIDE DEF g
  <2>4. FramesFrom(c)
    BY <1>1, <2>1, <2>2, <2>3, TopFrom
  <2> QED
    BY <1>1, <1>8, <2>4, OnlyFrames
<1> QED
  BY <1>1, <1>7, <1>8

\* The end of schedule_target: the initiation is queued when all is met.
LEMMA EndScheduleTokens ==
    ASSUME IInv, NEW c \in Comp, Tokens(c), EndSchedule(c)
    PROVE  Tokens(c)' /\ NoneIdle(c)
<1> DEFINE f == Top(c)
           n == InitNode(f.obj, pass[c][f.obj])
<1>1. /\ ~LockFree(c) /\ f.pc \in {"rules", "end"} /\ Return(c)
      /\ wq' = [wq EXCEPT ![c] = IF f.met THEN MakeActive(@, n) ELSE @]
      /\ UNCHANGED <<subs, act, work, link, pass, pending>>
  BY DEF EndSchedule, dbVars
<1>2. n \in Node /\ n.kind = "init"
  BY <1>1, RuleFrame, NodesMade DEF InitNode, NodeOf, Waiter
<1>3. FramesFrom(c) /\ (Signal(c) \/ UNCHANGED pc)
  BY <1>1, ReturnFrom DEF Return
<1> HIDE DEF n
<1>4. CASE UNCHANGED wq
  BY <1>1, <1>3, <1>4, OnlyFrames
<1>5. CASE wq'[c] = MakeActive(wq[c], n)
  <2>1. \A m \in Task(c) : ~PartOf(c, n, m)
    BY <1>2 DEF PartOf, Task
  <2>2. KeepsQueue(c, NoNode)
    BY <1>2, <1>5, <2>1, QueueGets DEF KeepsQueue
  <2>3. KeepsLists(c, NoNode) /\ KeepsFrames(c, NoNode)
    BY <1>1, <1>3, ListsSame, FramesKeep
  <2>4. KeepsCalls(c, NoNode)
    BY <1>1, CallsSame DEF SubAt
  <2>5. /\ KeepsHand(c, NoNode)
        /\ pc'[c] = "requeue" /\ work'[c].kind # "init" => pc[c] = "requeue" /\ work'[c] = work[c]
    BY <1>1, <1>3, SignalOne, SchedulerSame
  <2>6. NoNode \notin Task(c) /\ NoNode \notin Node
    BY NodeFields DEF NoNode, Task
  <2>7. \A i \in DOMAIN wq'[c] : wq'[c][i] = n \/ \E j \in DOMAIN wq[c] : wq[c][j] = wq'[c][i]
    BY <1>2, <1>5, MakeActiveAt DEF IInv, TypeOK, ThreadTypeOK
  <2>8. Tokens(c)'
    BY <2>2, <2>3, <2>4, <2>5, <2>6, TokensMove
  <2>9. NoneIdle(c)
    BY <1>2, <2>3, <2>4, <2>5, <2>6, <2>7, IdleKept
  <2> QED
    BY <2>8, <2>9
<1>6. UNCHANGED wq \/ wq'[c] = MakeActive(wq[c], n)
  <2>1. wq \in [Comp -> Seq(Node)]
    BY DEF IInv, TypeOK, ThreadTypeOK
  <2>2. CASE f.met
    BY <1>1, <2>1, <2>2
  <2>3. CASE ~f.met
    BY <1>1, <2>1, <2>3
  <2> QED
    BY <2>2, <2>3
<1> QED
  BY <1>4, <1>5, <1>6

\* A node is its fields.
LEMMA NodeIs ==
    ASSUME NEW n \in Node
    PROVE  n = NodeOf(n.kind, n.obj, n.at, n.pass)
BY DEF Node, InitNode, FiniNode, ChainNode, RuleNode, NodeOf

\* The stack after a claim.
LEMMA ClaimStack ==
    ASSUME IInv, NEW c \in Comp, Claim(c)
    PROVE  LET f == Top(c)
               l == Len(sched[c])
           IN  /\ f.obj \in Obj /\ l \in DOMAIN sched[c] /\ f = sched[c][l] /\ f.pc = "claim"
               /\ DOMAIN sched'[c] = DOMAIN sched[c]
               /\ sched'[c][l].obj = f.obj /\ sched'[c][l].pc \in {"deps", "rules"}
               /\ \A j \in DOMAIN sched[c] : j # l => sched'[c][j] = sched[c][j]
<1> DEFINE f == Top(c)
           s == sched[c]
           g == AfterDeps(f, 0, TRUE)
           t == Append(Front(s), g)
<1>1. ~LockFree(c) /\ f.pc = "claim" /\ SetTop(c, g)
  BY DEF Claim
<1>2. /\ s \in Seq(Frame) /\ Len(s) \in DOMAIN s /\ f = s[Len(s)] /\ f \in Frame
      /\ DOMAIN s = 1 .. Len(s) /\ s # <<>>
  BY <1>1, TopFrame, LenProperties DEF IInv, TypeOK, LockFree
<1>3. g \in Frame /\ g.obj = f.obj /\ g.pc \in {"deps", "rules"}
  <2> DEFINE p == [o \in Obj |-> 1]
  <2>1. p[f.obj] \in 1 .. MaxPass
    BY <1>2, MaxPassAssumption DEF Frame
  <2> HIDE DEF p
  <2> QED
    BY <1>2, <2>1, AfterDepsFrame
<1> HIDE DEF g
<1>4. t \in Seq(Frame) /\ Len(t) = Len(s) /\ t[Len(s)] = g
      /\ \A j \in 1 .. Len(s) : j # Len(s) => t[j] = s[j]
  BY <1>2, <1>3, ReplaceLast
<1>5. DOMAIN t = 1 .. Len(s)
  BY <1>4, LenProperties
<1>6. sched'[c] = t
  BY <1>1 DEF SetTop, IInv, TypeOK, ThreadTypeOK
<1> HIDE DEF t
<1> QED
  BY <1>1, <1>2, <1>3, <1>4, <1>5, <1>6 DEF Frame

\* A claim starts a pass of which nothing has been seen.
LEMMA ClaimTokens ==
    ASSUME IInv, NEW c \in Comp, Tokens(c), Claim(c)
    PROVE  Tokens(c)' /\ NoneIdle(c)
<1> DEFINE o == Top(c).obj
           l == Len(sched[c])
           p == pass[c][o]
           y == FiniNode(o, p + 1)
<1>0. PICK x : x = IF Proc[o] # <<>> THEN y ELSE NoNode
  OBVIOUS
<1>1. /\ o \in Obj /\ l \in DOMAIN sched[c] /\ o = sched[c][l].obj /\ sched[c][l].pc = "claim"
      /\ DOMAIN sched'[c] = DOMAIN sched[c]
      /\ sched'[c][l].obj = o /\ sched'[c][l].pc \in {"deps", "rules"}
      /\ \A j \in DOMAIN sched[c] : j # l => sched'[c][j] = sched[c][j]
  BY ClaimStack
<1>2. /\ o \notin pending[c] /\ p < MaxPass
      /\ pending' = [pending EXCEPT ![c] = @ \cup {o}]
      /\ pass' = [pass EXCEPT ![c][o] = p + 1]
      /\ UNCHANGED <<subs, act, wq, work, link, pc>>
  BY DEF Claim, mainVars
<1>3. /\ p \in Nat /\ pending'[c] = pending[c] \cup {o} /\ pass'[c][o] = p + 1
      /\ \A q \in Obj : q # o => pass'[c][q] = pass[c][q]
      /\ p + 1 \in 1 .. MaxPass
  BY <1>1, <1>2, MaxPassAssumption DEF IInv, TypeOK, DbTypeOK
<1> HIDE DEF l
<1>4. FramesOnce(c)'
  <2>1. ASSUME NEW j \in DOMAIN sched'[c], sched'[c][j].pc # "claim",
               Proc[sched'[c][j].obj] # <<>>
        PROVE  /\ sched'[c][j].obj \in pending'[c]
               /\ j # l => sched'[c][j].obj # o
    BY <2>1, <1>1, <1>2, <1>3 DEF Tokens, FramesOnce
  <2>2. ASSUME NEW j \in DOMAIN sched'[c], sched'[c][j].pc = "chain"
        PROVE  ChainStart(c, sched'[c][j].obj, sched'[c][j].i)
    BY <2>2, <1>1 DEF Tokens, FramesOnce
  <2>3. ASSUME NEW j \in DOMAIN sched'[c], NEW k \in DOMAIN sched'[c],
               sched'[c][j].pc # "claim", sched'[c][k].pc # "claim",
               sched'[c][j].obj = sched'[c][k].obj, Proc[sched'[c][j].obj] # <<>>
        PROVE  j = k
    <3>1. CASE j = l \/ k = l
      BY <3>1, <2>1, <2>3, <1>1
    <3>2. CASE j # l /\ k # l
      BY <3>2, <2>3, <1>1 DEF Tokens, FramesOnce
    <3> QED
      BY <3>1, <3>2
  <2> QED
    BY <2>1, <2>2, <2>3 DEF FramesOnce
<1>5. ASSUME NEW n \in Task(c)
      PROVE  n \in Node /\ n.obj \in Obj /\ n.pass \in Int /\ n.kind \in {"fini", "chain"}
             /\ (n.kind = "fini" => Proc[n.obj] # <<>> /\ n = FiniNode(n.obj, n.pass))
  <2>1. n \in Node
    BY DEF Task
  <2>2. n.kind = "fini" => n = FiniNode(n.obj, n.pass)
    BY <2>1, NodeFields, NodeIs DEF FiniNode
  <2>3. n.kind \in {"fini", "chain"} /\ (n.kind = "fini" => Proc[n.obj] # <<>>)
    BY <1>5 DEF Task
  <2>4. n.obj \in Obj /\ n.pass \in 1 .. MaxPass
    BY <2>1, NodeFields
  <2> QED
    BY <2>1, <2>2, <2>3, <2>4
<1>6. ASSUME NEW n \in Task(c), n.obj = o, n.pass >= p + 1
      PROVE  Unscheduled(c, n)
  <2>1. n.pass > pass[c][n.obj]
    BY <1>3, <1>5, <1>6
  <2> QED
    BY <2>1 DEF Unscheduled
<1>7. ASSUME NEW n \in Task(c), Unscheduled(c, n)'
      PROVE  Unscheduled(c, n)
  <2>1. n.obj \in Obj /\ n.pass \in Int
    BY <1>5
  <2>2. CASE n.obj = o
    <3>1. n.pass >= p + 1
      BY <1>3, <1>7, <2>1, <2>2 DEF Unscheduled
    <3> QED
      BY <1>6, <2>2, <3>1
  <2>3. CASE n.obj # o
    <3>1. pass'[c][n.obj] = pass[c][n.obj]
      BY <1>3, <2>1, <2>3
    <3>2. \A j \in DOMAIN sched'[c] : Ahead(sched'[c][j], n) => j \in DOMAIN sched[c] /\ Ahead(sched[c][j], n)
      BY <1>1, <2>3 DEF Ahead
    <3> QED
      BY <1>7, <3>1, <3>2 DEF Unscheduled
  <2> QED
    BY <2>2, <2>3
<1>8. ASSUME NEW n \in Task(c), BeingMade(c, n)', n # x
      PROVE  BeingMade(c, n)
  <2>1. n.obj \in Obj /\ n.kind = "fini" /\ n.pass = pass'[c][n.obj]
    BY <1>5, <1>8 DEF BeingMade
  <2>2. n.obj # o
    BY <1>0, <1>3, <1>5, <1>8, <2>1
  <2>3. pass'[c][n.obj] = pass[c][n.obj]
    BY <1>3, <2>1, <2>2
  <2> QED
    BY <1>1, <1>8, <2>2, <2>3 DEF BeingMade
<1>9. ASSUME NEW n \in Task(c), Spent(c, n)'
      PROVE  Spent(c, n)
  <2>1. n.obj \in Obj /\ n.kind = "fini" /\ n.pass \in Int
    BY <1>5, <1>9 DEF Spent
  <2>2. CASE n.obj = o
    <3>1. n.pass < p + 1
      BY <1>3, <1>9, <2>2 DEF Spent
    <3>2. n.pass < p \/ n.pass = p
      BY <1>3, <2>1, <3>1
    <3> QED
      BY <1>2, <2>1, <2>2, <3>2 DEF Spent
  <2>3. CASE n.obj # o
    BY <1>3, <1>9, <2>1, <2>3 DEF Spent
  <2> QED
    BY <2>2, <2>3
<1>10. KeepsFrames(c, x)
  BY <1>4, <1>7, <1>8, <1>9 DEF KeepsFrames
<1>11. \A z : KeepsLists(c, z) /\ KeepsQueue(c, z)
  BY <1>2, ListsSame, QueueSame
<1>12. \A z : KeepsCalls(c, z)
  BY <1>2, CallsSame DEF SubAt
<1>13. /\ \A z : KeepsHand(c, z)
       /\ pc'[c] = "requeue" /\ work'[c].kind # "init" => pc[c] = "requeue" /\ work'[c] = work[c]
  BY <1>2, SchedulerSame
<1>14. x \in Node => x = y /\ Proc[o] # <<>>
  BY <1>0, NodeFields DEF NoNode
<1>15. x \in Node => x \in Task(c) /\ x.obj = o /\ x.pass = p + 1 /\ x # NoNode
  <2>1. y.kind = "fini" /\ y.obj = o /\ y.pass = p + 1
    BY DEF FiniNode, NodeOf
  <2>2. y # NoNode
    BY <2>1 DEF NoNode
  <2> QED
    BY <1>14, <2>1, <2>2 DEF Task
<1> HIDE DEF y
<1>16. x \in Node => Unscheduled(c, x)
  <2>1. p + 1 >= p + 1
    BY <1>3
  <2> QED
    BY <1>6, <1>15, <2>1
<1>17. ASSUME x \in Task(c) PROVE TokenAt(c, x)'
  <2>1. x \in Node
    BY <1>5, <1>17
  <2>2. ~Subscribed(c, x) /\ ~Pushed(c, x) /\ ~Queued(c, x) /\ ~InHand(c, x) /\ ~Awaiting(c, x)
    BY <1>16, <1>17, <2>1 DEF Tokens, OneToken, TokenAt, Subscribed, Awaiting
  <2>3. ~Subscribed(c, x)' /\ ~Pushed(c, x)' /\ ~Queued(c, x)' /\ ~InHand(c, x)' /\ ~Awaiting(c, x)'
    <3>1. KeepsLists(c, NoNode) /\ KeepsQueue(c, NoNode) /\ KeepsCalls(c, NoNode) /\ KeepsHand(c, NoNode)
      BY <1>11, <1>12, <1>13
    <3> QED
      BY <1>15, <1>17, <2>1, <2>2, <3>1 DEF KeepsLists, KeepsQueue, KeepsCalls, KeepsHand
  <2> QED
    BY <2>3 DEF TokenAt
<1>18. x \in Node => Idle(c, x)
  BY <1>15, <1>16 DEF Idle
<1>19. Tokens(c)'
  BY <1>10, <1>11, <1>12, <1>13, <1>17, TokensMove
<1>20. NoneIdle(c)
  <2>1. \A i \in DOMAIN wq'[c] : \E j \in DOMAIN wq[c] : wq[c][j] = wq'[c][i]
    BY <1>2
  <2> QED
    BY <1>10, <1>11, <1>12, <1>13, <1>18, <2>1, IdleKept
<1> QED
  BY <1>19, <1>20

\* schedule_target, whatever it does.
LEMMA SchedulingTokens ==
    ASSUME IInv, NEW c \in Comp, Tokens(c), Scheduling(c)
    PROVE  Tokens(c)' /\ NoneIdle(c)
BY FindingTokens, ClaimTokens, SubDepTokens, CheckChainTokens, SubChainTokens, SubFiniTokens,
   EndScheduleTokens DEF Scheduling

-----------------------------------------------------------------------------
(***************************************************************************)
(* activate_subs.                                                          *)
(***************************************************************************)

\* NoNode stands for no task.
LEMMA NoTask == NoNode \notin Node /\ \A c \in Comp : NoNode \notin Task(c)
BY NodeFields DEF NoNode, Task

\* What a hit marks.
LEMMA HitMarks ==
    ASSUME IInv, NEW c \in Comp, NEW a \in act[c], NEW i, ScanHit(c, a, i)
    PROVE  LET e == <<a.obj, a.at>>
           IN  /\ ~a.push /\ e \in Entry /\ i \in DOMAIN subs[c][e] /\ ~subs[c][e][i].done
               /\ \A f \in Entry : DOMAIN subs'[c][f] = DOMAIN subs[c][f]
               /\ \A f \in Entry : \A j \in DOMAIN subs[c][f] :
                      /\ subs'[c][f][j].node = subs[c][f][j].node
                      /\ subs'[c][f][j].done = (subs[c][f][j].done \/ (f = e /\ j = i))
<1> DEFINE e == <<a.obj, a.at>>
           Sub == [node : Waiter, done : BOOLEAN]
           x == subs[c][e][i]
           y == [x EXCEPT !.done = TRUE]
           t == [subs[c][e] EXCEPT ![i] = y]
<1>1. /\ ~a.push /\ i \in DOMAIN subs[c][e] /\ ~subs[c][e][i].done
      /\ subs' = [subs EXCEPT ![c][e][i].done = TRUE]
  BY DEF ScanHit, Due, Open
<1>2. e \in Entry
  BY DEF IInv, ActOK
<1>3. subs \in [Comp -> [Entry -> Seq(Sub)]] /\ subs[c][e] \in Seq(Sub)
  BY <1>2 DEF IInv, TypeOK, DbTypeOK
<1>4. /\ i \in 1 .. Len(subs[c][e])
      /\ \A j \in DOMAIN subs[c][e] : subs[c][e][j] \in Sub
  BY <1>1, <1>3, LenProperties, ElementOfSeq
<1>5. y.node = x.node /\ y.done = TRUE
  <2> HIDE DEF x
  <2> QED
    BY <1>1, <1>4 DEF x
<1>6. subs' = [subs EXCEPT ![c][e] = t]
  BY <1>1
<1> HIDE DEF y
<1>7. DOMAIN t = DOMAIN subs[c][e] /\ t[i] = y /\ \A j \in DOMAIN subs[c][e] : j # i => t[j] = subs[c][e][j]
  BY <1>1
<1> HIDE DEF t
<1>8. subs'[c][e] = t /\ \A f \in Entry : f # e => subs'[c][f] = subs[c][f]
  BY <1>2, <1>3, <1>6
<1>9. ASSUME NEW j \in DOMAIN subs[c][e]
      PROVE  t[j].node = subs[c][e][j].node /\ t[j].done = (subs[c][e][j].done \/ j = i)
  <2>1. subs[c][e][j].done \in BOOLEAN
    BY <1>4
  <2> QED
    BY <1>5, <1>7, <2>1
<1>10. ASSUME NEW f \in Entry
       PROVE  /\ DOMAIN subs'[c][f] = DOMAIN subs[c][f]
              /\ \A j \in DOMAIN subs[c][f] :
                     /\ subs'[c][f][j].node = subs[c][f][j].node
                     /\ subs'[c][f][j].done = (subs[c][f][j].done \/ (f = e /\ j = i))
  <2>1. CASE f = e
    BY <2>1, <1>7, <1>8, <1>9
  <2>2. CASE f # e
    <3>1. subs[c][f] \in Seq(Sub)
      BY <1>3
    <3>2. \A j \in DOMAIN subs[c][f] : subs[c][f][j] \in Sub
      BY <3>1, LenProperties, ElementOfSeq
    <3>3. \A j \in DOMAIN subs[c][f] : subs[c][f][j].done \in BOOLEAN
      BY <3>2
    <3> QED
      BY <2>2, <3>3, <1>8
  <2> QED
    BY <2>1, <2>2
<1> QED
  BY <1>1, <1>2, <1>10

\* The node of a hit is no longer waited for, it will be queued.
LEMMA ScanHitTokens ==
    ASSUME IInv, NEW c \in Comp, Tokens(c), NEW a \in act[c], NEW i, ScanHit(c, a, i)
    PROVE  Tokens(c)' /\ NoneIdle(c)
<1> DEFINE e == <<a.obj, a.at>>
           b == [a EXCEPT !.pos = i, !.push = TRUE]
           n == subs[c][e][i].node
<1>1. /\ ~a.push /\ e \in Entry /\ i \in DOMAIN subs[c][e] /\ ~subs[c][e][i].done
      /\ \A f \in Entry : DOMAIN subs'[c][f] = DOMAIN subs[c][f]
      /\ \A f \in Entry : \A j \in DOMAIN subs[c][f] :
             /\ subs'[c][f][j].node = subs[c][f][j].node
             /\ subs'[c][f][j].done = (subs[c][f][j].done \/ (f = e /\ j = i))
  BY HitMarks
<1>2. /\ act'[c] = (act[c] \ {a}) \cup {b}
      /\ UNCHANGED <<pending, pass, wq, sched, work, link, pc>>
  BY DEF ScanHit, mainVars, IInv, TypeOK, ThreadTypeOK
<1>3. b.obj = a.obj /\ b.at = a.at /\ b.pos = i /\ b.push
  BY DEF IInv, TypeOK, ThreadTypeOK, Activation
<1> HIDE DEF b
<1>4. PICK x : x = IF n.kind = "init" THEN NoNode ELSE n
  OBVIOUS
<1>5. x \in Node => x = n /\ x \in Task(c) /\ Awaiting(c, x)
  <2>1. ASSUME x \in Node PROVE x = n /\ n.kind # "init"
    BY <1>4, <2>1, NoTask
  <2>2. n.kind # "init" => n \in Task(c)
    BY <1>1 DEF Tokens, ListsOK
  <2>3. Awaiting(c, n)
    BY <1>1 DEF Awaiting
  <2> QED
    BY <2>1, <2>2, <2>3
<1>6. x \in Task(c) => x \in Node
  BY DEF Task
<1>7. KeepsLists(c, x)
  <2>1. ListsOK(c)'
    BY <1>1 DEF Tokens, ListsOK, Task
  <2>2. ASSUME NEW m \in Task(c)
        PROVE  (Subscribed(c, m)' => Subscribed(c, m)) /\ (Awaiting(c, m)' => Awaiting(c, m))
    <3>1. \A f \in Entry : \A j \in DOMAIN subs'[c][f] :
              /\ j \in DOMAIN subs[c][f] /\ subs'[c][f][j].node = subs[c][f][j].node
              /\ ~subs'[c][f][j].done => ~subs[c][f][j].done
      BY <1>1
    <3>2. Subscribed(c, m)' => Subscribed(c, m)
      BY <3>1 DEF Subscribed
    <3>3. Awaiting(c, m)' => Awaiting(c, m)
      BY <3>1 DEF Awaiting
    <3> QED
      BY <3>2, <3>3
  <2> QED
    BY <2>1, <2>2 DEF KeepsLists
<1>8. ASSUME NEW d \in act'[c], d.push
      PROVE  d = b \/ (d \in act[c] /\ <<d.obj, d.at>> \in Entry /\ d.pos \in DOMAIN subs[c][<<d.obj, d.at>>]
                       /\ SubAt(c, d).done)
  BY <1>2, <1>8 DEF IInv, ActOK, Tokens, PushesOK
<1>9. KeepsCalls(c, x)
  <2>1. ASSUME NEW d \in act'[c], d.push
        PROVE  SubAt(c, d)'.done
    <3>1. CASE d = b
      BY <3>1, <1>1, <1>3 DEF SubAt
    <3>2. CASE d # b
      BY <3>2, <2>1, <1>1, <1>8 DEF SubAt
    <3> QED
      BY <3>1, <3>2
  <2>2. ASSUME NEW d \in act'[c], d.push, d.obj = b.obj, d.at = b.at, d.pos = b.pos
        PROVE  d = b
    BY <2>2, <1>1, <1>3, <1>8 DEF SubAt
  <2>3. ASSUME NEW d \in act'[c], NEW g \in act'[c], d.push, g.push,
               d.obj = g.obj, d.at = g.at, d.pos = g.pos
        PROVE  d = g
    BY <2>2, <2>3, <1>8 DEF Tokens, PushesOK
  <2>4. ASSUME NEW m \in Task(c), m # x, Pushed(c, m)'
        PROVE  Pushed(c, m)
    <3>1. PICK d \in act'[c] : d.push /\ SubAt(c, d)'.node = m
      BY <2>4 DEF Pushed
    <3>2. d # b
      <4>1. SubAt(c, b)'.node = n
        BY <1>1, <1>3 DEF SubAt
      <4>2. m.kind # "init"
        BY DEF Task
      <4> QED
        BY <3>1, <4>1, <4>2, <2>4, <1>4
    <3> QED
      BY <3>1, <3>2, <1>1, <1>8 DEF Pushed, SubAt
  <2> QED
    BY <2>1, <2>3, <2>4 DEF KeepsCalls, PushesOK
<1>10. \A z : KeepsQueue(c, z) /\ KeepsFrames(c, z)
  BY <1>2, QueueSame, FramesSame, FramesKeep
<1>11. /\ \A z : KeepsHand(c, z)
       /\ pc'[c] = "requeue" /\ work'[c].kind # "init" => pc[c] = "requeue" /\ work'[c] = work[c]
  BY <1>2, SchedulerSame
<1>12. ASSUME x \in Task(c)
       PROVE  TokenAt(c, x)'
  <2>1. x = n /\ x # NoNode /\ x.kind # "init"
    BY <1>4, <1>5, <1>6, <1>12, NoTask
  <2>2. Awaiting(c, x) /\ Subscribed(c, x)
    BY <1>5, <1>6, <1>12 DEF Awaiting, Subscribed
  <2>3. ~Queued(c, x) /\ ~InHand(c, x) /\ ~Unscheduled(c, x) /\ ~Spent(c, x)
    BY <1>12, <2>2 DEF Tokens, OneToken, TokenAt
  <2>4. ~Queued(c, x)' /\ ~InHand(c, x)' /\ ~Unscheduled(c, x)' /\ ~Spent(c, x)'
    <3>1. KeepsQueue(c, NoNode) /\ KeepsFrames(c, NoNode) /\ KeepsHand(c, NoNode)
      BY <1>10, <1>11
    <3> QED
      BY <1>12, <2>1, <2>3, <3>1 DEF KeepsQueue, KeepsFrames, KeepsHand
  <2>5. ~Awaiting(c, x)'
    <3>1. ASSUME NEW f \in Entry, NEW j \in DOMAIN subs'[c][f], subs'[c][f][j].node = x
          PROVE  subs'[c][f][j].done
      <4>1. j \in DOMAIN subs[c][f] /\ subs[c][f][j].node = x
        BY <3>1, <1>1
      <4>2. f = e /\ j = i
        BY <1>1, <2>1, <4>1 DEF Tokens, ListsOK
      <4> QED
        BY <4>1, <4>2, <1>1
    <3> QED
      BY <3>1 DEF Awaiting
  <2> QED
    BY <2>4, <2>5 DEF TokenAt
<1>13. x \in Node => Idle(c, x)
  BY <1>5 DEF Idle
<1>14. Tokens(c)'
  BY <1>7, <1>9, <1>10, <1>11, <1>12, TokensMove
<1>15. \A j \in DOMAIN wq'[c] : \E k \in DOMAIN wq[c] : wq[c][k] = wq'[c][j]
  BY <1>2
<1>16. NoneIdle(c)
  BY <1>7, <1>9, <1>10, <1>11, <1>13, <1>15, IdleKept
<1> QED
  BY <1>14, <1>16

\* activate_subs queues the node.
LEMMA PushTokens ==
    ASSUME IInv, NEW c \in Comp, Tokens(c), NEW a \in act[c], Push(c, a)
    PROVE  Tokens(c)' /\ NoneIdle(c)
<1> DEFINE e == <<a.obj, a.at>>
           b == [a EXCEPT !.pos = @ + 1, !.push = FALSE]
           n == SubAt(c, a).node
<1>1. /\ a.push /\ sched[c] = <<>> /\ Signal(c)
      /\ wq' = [wq EXCEPT ![c] = MakeActive(@, n)]
      /\ act' = [act EXCEPT ![c] = (@ \ {a}) \cup {b}]
      /\ UNCHANGED <<subs, pending, pass, sched, work, link>>
  BY DEF Push, dbVars, LockFree, SubAt
<1>2. a \in Activation /\ e \in Entry /\ a.pos \in DOMAIN subs[c][e]
  BY <1>1 DEF IInv, TypeOK, ThreadTypeOK, ActOK
<1>3. n \in Waiter /\ n \in Node /\ n.kind # "rule"
  <2>1. subs[c][e] \in Seq([node : Waiter, done : BOOLEAN])
    BY <1>2 DEF IInv, TypeOK, DbTypeOK
  <2>2. subs[c][e][a.pos] \in [node : Waiter, done : BOOLEAN]
    BY <1>2, <2>1, ElementOfSeq, LenProperties
  <2> QED
    BY <2>2 DEF Waiter, SubAt
<1>4. b.push = FALSE
  <2> DEFINE q == a.pos + 1
  <2>1. b = [a EXCEPT !.pos = q, !.push = FALSE]
    OBVIOUS
  <2> HIDE DEF q
  <2> QED
    BY <1>2, <2>1 DEF Activation
<1>5. /\ wq'[c] = MakeActive(wq[c], n) /\ wq[c] \in Seq(Node)
      /\ act'[c] = (act[c] \ {a}) \cup {b}
  BY <1>1 DEF IInv, TypeOK, ThreadTypeOK
<1> HIDE DEF b
<1>6. PICK x : x = IF n.kind = "init" THEN NoNode ELSE n
  OBVIOUS
<1>7. n.kind # "init" => n \in Task(c) /\ x = n
  BY <1>2, <1>6 DEF Tokens, ListsOK, SubAt
<1>8. x \in Node => x = n /\ n.kind # "init"
  BY <1>6, NoTask
<1>9. Pushed(c, n) /\ Subscribed(c, n)
  BY <1>1, <1>2 DEF Pushed, Subscribed, SubAt
<1>10. \A m : PartOf(c, n, m) => m = n
  BY <1>3 DEF PartOf
<1>11. /\ QueueOK(c)'
       /\ \A m \in Task(c) : Queued(c, m)' => Queued(c, m) \/ m = n
  <2>1. PartOf(c, n, n)
    BY DEF PartOf
  <2>2. \A m \in Task(c) : m = n => ~Queued(c, m)
    BY <1>9 DEF Tokens, OneToken, TokenAt
  <2> HIDE DEF n
  <2> QED
    BY <1>3, <1>5, <1>7, <1>10, <2>1, <2>2, QueueGets
<1>12. KeepsQueue(c, x)
  <2>1. \A m \in Task(c) : m = n => m = x
    BY <1>7 DEF Task
  <2> HIDE DEF n
  <2> QED
    BY <1>11, <2>1 DEF KeepsQueue
<1>13. \A z : KeepsLists(c, z) /\ KeepsFrames(c, z)
  BY <1>1, ListsSame, FramesSame, FramesKeep
<1>14. \A z : KeepsCalls(c, z)
  BY <1>1, <1>4, <1>5, CallsSame DEF SubAt
<1>15. /\ \A z : KeepsHand(c, z)
       /\ pc'[c] = "requeue" /\ work'[c].kind # "init" => pc[c] = "requeue" /\ work'[c] = work[c]
  BY <1>1, SignalOne, SchedulerSame
<1>16. ASSUME x \in Task(c)
       PROVE  TokenAt(c, x)'
  <2>1. x = n /\ x # NoNode /\ x.kind # "init" /\ n \in Task(c)
    BY <1>7, <1>8, <1>16, NoTask DEF Task
  <2>2. ~Awaiting(c, x) /\ ~InHand(c, x) /\ ~Unscheduled(c, x) /\ ~Spent(c, x)
    BY <1>9, <2>1 DEF Tokens, OneToken, TokenAt
  <2>3. ~Awaiting(c, x)' /\ ~InHand(c, x)' /\ ~Unscheduled(c, x)' /\ ~Spent(c, x)'
    <3>1. KeepsLists(c, NoNode) /\ KeepsFrames(c, NoNode) /\ KeepsHand(c, NoNode)
      BY <1>13, <1>15
    <3> QED
      BY <1>16, <2>1, <2>2, <3>1 DEF KeepsLists, KeepsFrames, KeepsHand
  <2>4. ~Pushed(c, x)'
    <3> SUFFICES ASSUME NEW d \in act'[c], d.push, SubAt(c, d)'.node = n
                 PROVE  FALSE
      BY <2>1 DEF Pushed
    <3>1. d \in act[c] /\ d # a /\ SubAt(c, d).node = n
      BY <1>1, <1>4, <1>5 DEF SubAt
    <3>2. <<d.obj, d.at>> \in Entry /\ d.pos \in DOMAIN subs[c][<<d.obj, d.at>>]
      BY <3>1 DEF IInv, ActOK
    <3>3. <<d.obj, d.at>> = e /\ d.pos = a.pos
      BY <1>2, <2>1, <3>1, <3>2 DEF Tokens, ListsOK, SubAt
    <3>4. d.obj = a.obj /\ d.at = a.at
      BY <3>3
    <3> QED
      BY <1>1, <3>1, <3>3, <3>4 DEF Tokens, PushesOK
  <2>5. ~BeingMade(c, x)'
    <3>1. DOMAIN sched'[c] = {}
      BY <1>1, EmptySeq
    <3> QED
      BY <3>1 DEF BeingMade
  <2> QED
    BY <2>3, <2>4, <2>5 DEF TokenAt
<1>17. x \in Node => Idle(c, x)
  BY <1>7, <1>8, <1>9 DEF Idle
<1>18. Tokens(c)'
  BY <1>12, <1>13, <1>14, <1>15, <1>16, TokensMove
<1>19. \A i \in DOMAIN wq'[c] : wq'[c][i].kind # "init" =>
           wq'[c][i] = x \/ \E j \in DOMAIN wq[c] : wq[c][j] = wq'[c][i]
  BY <1>3, <1>5, <1>7, MakeActiveAt
<1>20. NoneIdle(c)
  BY <1>12, <1>13, <1>14, <1>15, <1>17, <1>19, IdleKept
<1> QED
  BY <1>18, <1>20

\* Steps that add calls, or end one, and leave lists, queue and stack alone.
LEMMA OnlyCalls ==
    ASSUME IInv, NEW c \in Comp, Tokens(c), subs'[c] = subs[c], wq'[c] = wq[c],
           sched'[c] = sched[c], pass'[c] = pass[c], pending'[c] = pending[c],
           \A a \in act'[c] : a.push => a \in act[c], KeepsHand(c, NoNode)
    PROVE  /\ Tokens(c)'
           /\ (pc'[c] = "requeue" /\ work'[c].kind # "init" => pc[c] = "requeue" /\ work'[c] = work[c])
                  => NoneIdle(c)
<1>1. KeepsLists(c, NoNode) /\ KeepsQueue(c, NoNode) /\ KeepsFrames(c, NoNode)
  BY ListsSame, QueueSame, FramesSame, FramesKeep
<1>2. KeepsCalls(c, NoNode)
  BY CallsSame DEF SubAt
<1>3. Tokens(c)'
  BY <1>1, <1>2, NoTask, TokensMove
<1>4. ASSUME pc'[c] = "requeue" /\ work'[c].kind # "init" => pc[c] = "requeue" /\ work'[c] = work[c]
      PROVE  NoneIdle(c)
  <2>1. \A i \in DOMAIN wq'[c] : \E j \in DOMAIN wq[c] : wq[c][j] = wq'[c][i]
    OBVIOUS
  <2> QED
    BY <1>1, <1>2, <1>4, <2>1, NoTask, IdleKept
<1> QED
  BY <1>3, <1>4

\* activate_subs returns.
LEMMA ScanEndTokens ==
    ASSUME IInv, NEW c \in Comp, Tokens(c), NEW a \in act[c], ScanEnd(c, a)
    PROVE  Tokens(c)' /\ NoneIdle(c)
<1>1. /\ act'[c] = act[c] \ {a}
      /\ UNCHANGED <<subs, wq, sched, pass, pending, link>>
      /\ \/ UNCHANGED <<pc, work>>
         \/ pc'[c] = "announce" /\ UNCHANGED work
         \/ pc'[c] = "loop" /\ work'[c] = NoNode
  <2> USE DEF IInv, TypeOK, ThreadTypeOK
  <2>1. UNCHANGED <<subs, wq, sched, pass, pending, link>> /\ act' = [act EXCEPT ![c] = @ \ {a}]
    BY DEF ScanEnd
  <2>2. \/ UNCHANGED <<pc, work>>
        \/ pc' = [pc EXCEPT ![c] = "announce"] /\ UNCHANGED work
        \/ pc' = [pc EXCEPT ![c] = "loop"] /\ work' = [work EXCEPT ![c] = NoNode]
    BY DEF ScanEnd
  <2> QED
    BY <2>1, <2>2
<1>2. KeepsHand(c, NoNode)
  BY <1>1, HandSame DEF StillAt
<1> QED
  BY <1>1, <1>2, OnlyCalls

\* The announcements of others and the notification add calls to be made.
LEMMA HandlersTokens ==
    ASSUME IInv, NEW c \in Comp, Tokens(c), (\E m \in workNet : RecvWork(c, m))
               \/ (\E m \in finiNet : RecvFini(c, m)) \/ Transferring(c)
    PROVE  Tokens(c)' /\ NoneIdle(c)
<1>1. /\ UNCHANGED <<subs, wq, sched, pass, pending, work, link>>
      /\ Signal(c) \/ UNCHANGED pc
      /\ UNCHANGED act \/ \E by, from, o, k, p :
             act' = [act EXCEPT ![c] = @ \cup {NewActivation(by, from, o, k, p)}]
  <2>1. ASSUME NEW m \in workNet, RecvWork(c, m)
        PROVE  /\ UNCHANGED <<subs, wq, sched, pass, pending, work, link, pc>>
               /\ \E by, from, o, k, p :
                      act' = [act EXCEPT ![c] = @ \cup {NewActivation(by, from, o, k, p)}]
    BY <2>1 DEF RecvWork, mainVars
  <2>2. ASSUME NEW n \in SubNode, HandleNotify(c, n)
        PROVE  /\ UNCHANGED <<subs, wq, sched, pass, pending, work, link, pc>>
               /\ \E by, from, o, k, p :
                      act' = [act EXCEPT ![c] = @ \cup {NewActivation(by, from, o, k, p)}]
    BY <2>2 DEF HandleNotify, mainVars
  <2>3. ASSUME NEW n \in SubNode, Notify(c, n)
        PROVE  UNCHANGED <<subs, wq, sched, pass, pending, work, link, pc, act>>
    BY <2>3 DEF Notify, dbVars, mainVars
  <2>4. ASSUME NEW m \in finiNet, RecvFini(c, m)
        PROVE  UNCHANGED <<subs, wq, sched, pass, pending, work, link, act>> /\ Signal(c)
    BY <2>4 DEF RecvFini, dbVars
  <2>5. \/ \E m \in workNet : RecvWork(c, m)
        \/ \E m \in finiNet : RecvFini(c, m)
        \/ \E n \in SubNode : Notify(c, n)
        \/ \E n \in SubNode : HandleNotify(c, n)
    BY DEF Transferring
  <2> QED
    BY <2>1, <2>2, <2>3, <2>4, <2>5
<1>2. \A by, from, o, k, p : ~NewActivation(by, from, o, k, p).push
  BY DEF NewActivation
<1>3. \A a \in act'[c] : a.push => a \in act[c]
  BY <1>1, <1>2 DEF IInv, TypeOK, ThreadTypeOK
<1>4. /\ KeepsHand(c, NoNode)
      /\ pc'[c] = "requeue" /\ work'[c].kind # "init" => pc[c] = "requeue" /\ work'[c] = work[c]
  BY <1>1, SignalOne, SchedulerSame
<1> QED
  BY <1>1, <1>3, <1>4, OnlyCalls

-----------------------------------------------------------------------------
(***************************************************************************)
(* The main thread.                                                        *)
(***************************************************************************)

\* A node is part of one task only.
LEMMA TaskOnly ==
    ASSUME NEW c \in Comp, NEW m \in Node, NEW n \in Task(c), NEW l \in Task(c),
           PartOf(c, m, n), PartOf(c, m, l)
    PROVE  n = l
<1>1. n \in Node /\ l \in Node /\ m.at \in Int
  BY NodeFields DEF Task
<1>2. CASE m = n \/ m = l
  BY <1>2 DEF PartOf, Task
<1>3. CASE m # n /\ m # l
  <2>1. /\ n.kind = "chain" /\ l.kind = "chain" /\ n.obj = l.obj /\ n.pass = l.pass
        /\ n.at <= m.at /\ \A j \in n.at .. m.at : Mine(c, n.obj, j)
        /\ l.at <= m.at /\ \A j \in l.at .. m.at : Mine(c, n.obj, j)
        /\ m.at = m.at
    BY <1>3 DEF PartOf
  <2>2. ChainStart(c, n.obj, n.at) /\ ChainStart(c, n.obj, l.at)
    BY <2>1 DEF Task
  <2>3. n.at \in Nat \ {0} /\ l.at \in Nat \ {0}
    BY <2>2 DEF ChainStart, Steps
  <2>4. ASSUME NEW i \in Nat \ {0}, NEW k \in Nat \ {0}, i < k, k <= m.at,
               ChainStart(c, n.obj, k), \A j \in i .. m.at : Mine(c, n.obj, j)
        PROVE  FALSE
    <3>1. k > 1 /\ ~Mine(c, n.obj, k - 1)
      BY <2>4 DEF ChainStart
    <3>2. k - 1 \notin i .. m.at
      BY <2>4, <3>1
    <3>3. k - 1 \in Int /\ i <= k - 1
      BY <2>4
    <3>4. ~(k - 1 <= m.at)
      BY <3>2, <3>3
    <3> QED
      BY <1>1, <2>4, <3>4
  <2>5. n.at = l.at
    BY <2>1, <2>2, <2>3, <2>4
  <2> QED
    BY <1>1, <2>1, <2>5, NodeIs
<1> QED
  BY <1>2, <1>3

\* deque_work.
LEMMA TakeTokens ==
    ASSUME IInv, NEW c \in Comp, Tokens(c), Take(c)
    PROVE  Tokens(c)' /\ NoneIdle(c)
<1> DEFINE q == wq[c]
           h == Head(q)
           t == Tail(q)
<1>1. /\ q # <<>> /\ sched[c] = <<>> /\ work'[c] = h /\ wq'[c] = t /\ pc'[c] = "handle"
      /\ link'[c] = IF h.kind = "chain" THEN h.at ELSE 0
      /\ UNCHANGED <<subs, act, sched, pass, pending>>
  BY DEF Take, LockFree, dbVars, IInv, TypeOK, ThreadTypeOK
<1>2. q \in Seq(Node)
  BY DEF IInv, TypeOK, ThreadTypeOK
<1>3. /\ h \in Node /\ 1 \in DOMAIN q /\ h = q[1]
      /\ \A i \in DOMAIN t : i + 1 \in DOMAIN q /\ t[i] = q[i + 1] /\ i + 1 # 1
      /\ DOMAIN t \subseteq Int
  <2> HIDE DEF q
  <2>1. /\ h \in Node /\ t \in Seq(Node) /\ Len(t) = Len(q) - 1
        /\ \A i \in 1 .. Len(t) : t[i] = q[i + 1]
    BY <1>1, <1>2, HeadTailProperties
  <2>2. DOMAIN q = 1 .. Len(q) /\ DOMAIN t = 1 .. Len(t) /\ Len(q) \in Nat \ {0} /\ Len(t) \in Nat
    BY <1>1, <1>2, <2>1, LenProperties, EmptySeq
  <2>3. h = q[1]
    BY <1>1, <1>2
  <2> HIDE DEF h, t
  <2> QED
    BY <2>1, <2>2, <2>3
<1> HIDE DEF q, t, h
<1>4. PICK x : (x \in Task(c) /\ PartOf(c, h, x)) \/ (h.kind = "init" /\ x = NoNode)
  <2>1. h.kind # "init" => \E n \in Task(c) : PartOf(c, h, n)
    BY <1>3 DEF Tokens, QueueOK, q
  <2> QED
    BY <2>1
<1>5. ASSUME NEW n \in Task(c), PartOf(c, h, n) PROVE n = x
  <2>1. h.kind # "init"
    BY <1>5 DEF PartOf, Task
  <2> QED
    BY <1>3, <1>4, <1>5, <2>1, TaskOnly
<1>6. QueueOK(c)' /\ \A n \in Task(c) : Queued(c, n)' => Queued(c, n) /\ ~PartOf(c, h, n)
  <2>1. \A i \in DOMAIN wq'[c] : i + 1 \in DOMAIN wq[c] /\ wq'[c][i] = wq[c][i + 1]
    BY <1>1, <1>3 DEF q
  <2>2. \A i \in DOMAIN wq'[c] : wq'[c][i].kind # "init" => \E n \in Task(c) : PartOf(c, wq'[c][i], n)
    BY <2>1 DEF Tokens, QueueOK
  <2>3. ASSUME NEW n \in Task(c), NEW i \in DOMAIN wq'[c], NEW j \in DOMAIN wq'[c],
               PartOf(c, wq'[c][i], n), PartOf(c, wq'[c][j], n)
        PROVE  i = j
    <3>1. i + 1 = j + 1
      BY <2>1, <2>3 DEF Tokens, QueueOK
    <3>2. i \in Int /\ j \in Int
      BY <1>1, <1>3
    <3> QED
      BY <3>1, <3>2
  <2>4. ASSUME NEW n \in Task(c), NEW i \in DOMAIN wq'[c], PartOf(c, wq'[c][i], n)
        PROVE  Queued(c, n) /\ ~PartOf(c, h, n)
    <3>1. i + 1 \in DOMAIN wq[c] /\ i + 1 # 1 /\ PartOf(c, wq[c][i + 1], n) /\ wq[c][1] = h /\ 1 \in DOMAIN wq[c]
      BY <1>1, <1>3, <2>1, <2>4 DEF q
    <3> QED
      BY <3>1 DEF Queued, Tokens, QueueOK
  <2>5. QueueOK(c)'
    BY <2>2, <2>3 DEF QueueOK, Task, PartOf
  <2> QED
    BY <2>4, <2>5 DEF Queued
<1>7. \A z : KeepsQueue(c, z)
  BY <1>6 DEF KeepsQueue
<1>8. KeepsHand(c, x)
  <2>1. work'[c].kind \notin {"none", "init"} => \E n \in Task(c) : PartOf(c, work'[c], n)
    BY <1>1, <1>4
  <2>2. ASSUME work'[c].kind = "chain"
        PROVE  work'[c].at <= link'[c] /\ \A j \in work'[c].at .. link'[c] : Mine(c, work'[c].obj, j)
    <3>1. h.kind = "chain" /\ link'[c] = h.at /\ work'[c] = h
      BY <1>1, <2>2
    <3>2. h \in Task(c)
      BY <1>4, <3>1 DEF PartOf
    <3>3. Mine(c, h.obj, h.at) /\ h.at \in Int
      BY <3>1, <3>2 DEF Task, ChainStart, Steps
    <3>4. \A j \in h.at .. h.at : j = h.at
      BY <3>3
    <3> QED
      BY <3>1, <3>3, <3>4
  <2>3. ASSUME NEW n \in Task(c), n # x PROVE ~InHand(c, n)'
    BY <1>1, <1>5, <2>3 DEF InHand
  <2>4. InHandOK(c)'
    BY <2>1, <2>2 DEF InHandOK, InHand, Task, PartOf
  <2> QED
    BY <2>3, <2>4 DEF KeepsHand
<1>9. \A z : KeepsLists(c, z) /\ KeepsFrames(c, z)
  BY <1>1, ListsSame, FramesSame, FramesKeep
<1>10. \A z : KeepsCalls(c, z)
  BY <1>1, CallsSame DEF SubAt
<1>11. ASSUME x \in Task(c)
       PROVE  TokenAt(c, x)'
  <2>1. PartOf(c, h, x) /\ x # NoNode
    BY <1>4, <1>11, NoTask
  <2>2. Queued(c, x)
    BY <1>3, <2>1 DEF Queued, q
  <2>3. ~Awaiting(c, x) /\ ~Pushed(c, x) /\ ~Unscheduled(c, x) /\ ~Spent(c, x) /\ ~BeingMade(c, x)
    BY <1>11, <2>2 DEF Tokens, OneToken, TokenAt
  <2>4. ~Awaiting(c, x)' /\ ~Pushed(c, x)' /\ ~Unscheduled(c, x)' /\ ~Spent(c, x)' /\ ~BeingMade(c, x)'
    <3>1. KeepsLists(c, NoNode) /\ KeepsFrames(c, NoNode) /\ KeepsCalls(c, NoNode)
      BY <1>9, <1>10
    <3> QED
      BY <1>11, <2>1, <2>3, <3>1 DEF KeepsLists, KeepsFrames, KeepsCalls
  <2>5. ~Queued(c, x)'
    BY <1>6, <1>11, <2>1
  <2> QED
    BY <2>4, <2>5 DEF TokenAt
<1>12. Tokens(c)'
  BY <1>7, <1>8, <1>9, <1>10, <1>11, TokensMove
<1>13. NoneIdle(c)
  <2>1. \A i \in DOMAIN wq'[c] : \E j \in DOMAIN wq[c] : wq[c][j] = wq'[c][i]
    BY <1>1, <1>3 DEF q
  <2>2. pc'[c] # "requeue"
    BY <1>1
  <2> QED
    BY <1>9, <1>10, <2>1, <2>2, NoTask, IdleKept
<1> QED
  BY <1>12, <1>13

\* The task in hand: it waits, is pushed or queued no longer.
LEMMA HandTask ==
    ASSUME IInv, NEW c \in Comp, Tokens(c), NEW n \in Task(c), InHand(c, n)
    PROVE  /\ ~Awaiting(c, n) /\ ~Pushed(c, n) /\ ~Queued(c, n)
           /\ ~Unscheduled(c, n) /\ ~BeingMade(c, n)
           /\ pc[c] \notin {"activate", "announce"} => ~Spent(c, n)
BY DEF Tokens, OneToken, TokenAt

\* Steps that queue the node in hand, or a part of it.
LEMMA HandToQueue ==
    ASSUME IInv, NEW c \in Comp, Tokens(c), sched[c] = <<>>,
           pc[c] \notin {"activate", "announce"}, work[c] \in Node,
           NEW m \in Node, wq'[c] = MakeActive(wq[c], m),
           m.kind # "init" => \E n \in Task(c) : PartOf(c, m, n) /\ InHand(c, n),
           m.kind = "init" => work[c].kind = "init",
           work'[c] = NoNode, pc'[c] = "loop",
           UNCHANGED <<subs, act, sched, pass, pending>>
    PROVE  Tokens(c)'
<1>1. PICK x : (x \in Task(c) /\ PartOf(c, m, x) /\ InHand(c, x)) \/ (m.kind = "init" /\ x = NoNode)
  OBVIOUS
<1>2. ASSUME NEW n \in Task(c), PartOf(c, m, n) PROVE n = x /\ InHand(c, n)
  <2>1. m.kind # "init"
    BY <1>2 DEF PartOf, Task
  <2> QED
    BY <1>1, <1>2, <2>1, TaskOnly
<1>3. \A n \in Task(c) : PartOf(c, m, n) => ~Queued(c, n)
  BY <1>2, HandTask
<1>4. KeepsQueue(c, x)
  BY <1>2, <1>3, QueueGets DEF KeepsQueue
<1>5. \A z : KeepsLists(c, z) /\ KeepsFrames(c, z)
  BY ListsSame, FramesSame, FramesKeep
<1>6. \A z : KeepsCalls(c, z)
  BY CallsSame DEF SubAt
<1>7. \A z : KeepsHand(c, z)
  BY HandSame
<1>8. ASSUME x \in Task(c)
      PROVE  TokenAt(c, x)'
  <2>1. InHand(c, x) /\ x # NoNode
    BY <1>1, <1>8, NoTask
  <2>2. ~Awaiting(c, x) /\ ~Pushed(c, x) /\ ~Unscheduled(c, x) /\ ~BeingMade(c, x) /\ ~Spent(c, x)
    BY <1>8, <2>1, HandTask
  <2>3. ~Awaiting(c, x)' /\ ~Pushed(c, x)' /\ ~Unscheduled(c, x)' /\ ~BeingMade(c, x)' /\ ~Spent(c, x)'
    <3>1. KeepsLists(c, NoNode) /\ KeepsFrames(c, NoNode) /\ KeepsCalls(c, NoNode)
      BY <1>5, <1>6
    <3> QED
      BY <1>8, <2>1, <2>2, <3>1 DEF KeepsLists, KeepsFrames, KeepsCalls
  <2>4. ~InHand(c, x)'
    <3>1. x.kind # "none" /\ x.kind \in {"fini", "chain"}
      BY <1>8 DEF Task
    <3> QED
      BY <3>1 DEF InHand, PartOf, NoNode
  <2> QED
    BY <2>3, <2>4 DEF TokenAt
<1> QED
  BY <1>4, <1>5, <1>6, <1>7, <1>8, TokensMove

\* The node in hand is requeued.
LEMMA RequeueTokens ==
    ASSUME IInv, NEW c \in Comp, Tokens(c), Requeue(c)
    PROVE  Tokens(c)' /\ NoneIdle(c)
<1>1. /\ pc[c] = "requeue" /\ sched[c] = <<>> /\ work[c] \in Node
      /\ wq'[c] = MakeActive(wq[c], work[c]) /\ work'[c] = NoNode /\ pc'[c] = "loop"
      /\ UNCHANGED <<subs, act, sched, pass, pending>> /\ wq[c] \in Seq(Node)
  BY DEF Requeue, LockFree, dbVars, IInv, TypeOK, ThreadTypeOK, MainOK
<1>2. PICK w : w = work[c]
  OBVIOUS
<1>3. Tokens(c)'
  <2>1. ASSUME w.kind # "init"
        PROVE  \E n \in Task(c) : PartOf(c, w, n) /\ InHand(c, n)
    <3>1. w.kind # "none"
      BY <1>1, <1>2, NodeFields
    <3> QED
      BY <1>2, <2>1, <3>1 DEF Tokens, InHandOK, InHand
  <2> QED
    BY <1>1, <1>2, <2>1, HandToQueue
<1>4. \A z : KeepsLists(c, z) /\ KeepsFrames(c, z)
  BY <1>1, ListsSame, FramesSame, FramesKeep
<1>5. \A z : KeepsCalls(c, z)
  BY <1>1, CallsSame DEF SubAt
<1>6. \A i \in DOMAIN wq'[c] : wq'[c][i] = w \/ \E j \in DOMAIN wq[c] : wq[c][j] = wq'[c][i]
  BY <1>1, <1>2, MakeActiveAt
<1>7. Idle(c, w)
  BY <1>1, <1>2 DEF Idle
<1>8. NoneIdle(c)
  BY <1>1, <1>4, <1>5, <1>6, <1>7, IdleKept
<1> QED
  BY <1>3, <1>8

\* The link in hand belongs to the chain in hand.
LEMMA LinkInHand ==
    ASSUME IInv, NEW c \in Comp, Tokens(c), pc[c] \in {"handle", "blocked"},
           work[c].kind \in {"rule", "chain"}
    PROVE  /\ CurrentRule(c) \in Node
           /\ \E n \in Task(c) : PartOf(c, CurrentRule(c), n) /\ InHand(c, n)
<1>1. CurrentRule(c) \in Node /\ work[c] \in Node
  BY SubruleInHand
<1>2. PICK n \in Task(c) : InHand(c, n)
  BY DEF Tokens, InHandOK
<1>3. /\ CurrentRule(c).kind = "rule" /\ CurrentRule(c).obj = work[c].obj
      /\ CurrentRule(c).at = Current(c) /\ CurrentRule(c).pass = work[c].pass
  BY DEF CurrentRule, RuleNode, NodeOf
<1>4. CASE work[c].kind = "rule"
  <2>1. CurrentRule(c) = work[c]
    BY <1>1, <1>4, NodeIs DEF CurrentRule, RuleNode, Current
  <2> QED
    BY <1>1, <1>2, <2>1 DEF InHand
<1>5. CASE work[c].kind = "chain"
  <2>1. n = work[c]
    BY <1>2, <1>5 DEF InHand, PartOf
  <2>2. /\ work[c].at <= link[c] /\ Current(c) = link[c]
        /\ \A j \in work[c].at .. link[c] : Mine(c, work[c].obj, j)
    BY <1>5 DEF Tokens, InHandOK, Current
  <2>3. PartOf(c, CurrentRule(c), n)
    BY <1>3, <1>5, <2>1, <2>2 DEF PartOf
  <2> QED
    BY <1>1, <1>2, <2>3
<1> QED
  BY <1>4, <1>5

\* The last link of a chain is queued in its place.
LEMMA QueueLastLinkTokens ==
    ASSUME IInv, NEW c \in Comp, Tokens(c), QueueLastLink(c)
    PROVE  Tokens(c)'
<1>1. /\ pc[c] = "handle" /\ work[c].kind = "chain" /\ sched[c] = <<>> /\ work[c] \in Node
      /\ wq'[c] = MakeActive(wq[c], CurrentRule(c)) /\ work'[c] = NoNode /\ pc'[c] = "loop"
      /\ UNCHANGED <<subs, act, sched, pass, pending>>
  BY DEF QueueLastLink, LockFree, dbVars, IInv, TypeOK, ThreadTypeOK, MainOK
<1>2. PICK m \in Node : m = CurrentRule(c)
  BY <1>1, LinkInHand
<1>3. m.kind = "rule" /\ \E n \in Task(c) : PartOf(c, m, n) /\ InHand(c, n)
  BY <1>1, <1>2, LinkInHand DEF CurrentRule, RuleNode, NodeOf
<1> QED
  BY <1>1, <1>2, <1>3, HandToQueue

\* realize_object spends the realization in hand.
LEMMA RealizeTokens ==
    ASSUME IInv, NEW c \in Comp, Tokens(c), RealizeObject(c)
    PROVE  Tokens(c)' /\ NoneIdle(c)
<1> DEFINE o == work[c].obj
<1>1. /\ pc[c] = "handle" /\ work[c].kind \in {"init", "fini"} /\ work[c].at = 0
      /\ work[c] \in Node /\ o \in Obj
      /\ pending'[c] = pending[c] \ {o} /\ pc'[c] = "activate"
      /\ UNCHANGED <<subs, pass, wq, sched, work, link>>
      /\ act' = [act EXCEPT ![c] = @ \cup {NewActivation("main", c, o, work[c].at, work[c].pass)}]
  BY NodeFields DEF RealizeObject, StartActivation, IInv, TypeOK, DbTypeOK, ThreadTypeOK, MainOK
<1>2. PICK x : x = IF work[c].kind = "fini" THEN work[c] ELSE NoNode
  OBVIOUS
<1>3. work[c].kind = "init" => Proc[o] = <<>>
  <2>1. work[c].kind = "init" => work[c].at = InitAt(o)
    BY <1>1 DEF Node, InitNode, FiniNode, ChainNode, RuleNode, NodeOf
  <2> QED
    BY <1>1, <2>1 DEF InitAt
<1>4. x \in Task(c) => x = work[c] /\ x.kind = "fini" /\ InHand(c, x)
  BY <1>2, NoTask DEF InHand, PartOf
<1>5. work[c].kind = "fini" => x \in Task(c)
  BY <1>2 DEF Tokens, InHandOK, InHand, PartOf
<1>6. ASSUME x \in Task(c)
      PROVE  /\ ~Awaiting(c, x) /\ ~Pushed(c, x) /\ ~Queued(c, x)
             /\ ~Unscheduled(c, x) /\ ~BeingMade(c, x) /\ ~Spent(c, x)
             /\ x.pass = pass[c][o]
             /\ \A j \in DOMAIN sched[c] : sched[c][j].obj = o => sched[c][j].pc = "claim"
  <2>1. /\ ~Awaiting(c, x) /\ ~Pushed(c, x) /\ ~Queued(c, x)
        /\ ~Unscheduled(c, x) /\ ~BeingMade(c, x) /\ ~Spent(c, x)
    BY <1>1, <1>4, <1>6, HandTask
  <2>2. ~(x.pass > pass[c][o]) /\ ~(x.pass < pass[c][o])
    BY <1>4, <1>6, <2>1 DEF Unscheduled, Spent
  <2>3. x.pass \in Int /\ pass[c][o] \in Int
    <3>1. x.pass \in 1 .. MaxPass
      BY <1>1, <1>4, <1>6, NodeFields
    <3>2. pass[c][o] \in 0 .. MaxPass
      BY <1>1 DEF IInv, TypeOK, DbTypeOK
    <3> QED
      BY <3>1, <3>2
  <2>4. x.pass = pass[c][o]
    BY <2>2, <2>3
  <2>5. \A j \in DOMAIN sched[c] : sched[c][j].obj = o => sched[c][j].pc = "claim"
    BY <1>4, <1>6, <2>1, <2>4 DEF BeingMade
  <2> QED
    BY <2>1, <2>4, <2>5
<1>7. FramesOnce(c)'
  <2>1. ASSUME NEW j \in DOMAIN sched[c], sched[c][j].pc # "claim", Proc[sched[c][j].obj] # <<>>
        PROVE  sched[c][j].obj \in pending'[c]
    BY <1>1, <1>3, <1>5, <1>6, <2>1 DEF Tokens, FramesOnce
  <2> QED
    BY <1>1, <2>1 DEF Tokens, FramesOnce
<1>8. ASSUME NEW n \in Task(c)
      PROVE  /\ Unscheduled(c, n)' => Unscheduled(c, n)
             /\ BeingMade(c, n)' => BeingMade(c, n)
             /\ n # x /\ Spent(c, n)' => Spent(c, n)
  <2>1. Unscheduled(c, n)' => Unscheduled(c, n)
    BY <1>1 DEF Unscheduled
  <2>2. BeingMade(c, n)' => BeingMade(c, n)
    BY <1>1 DEF BeingMade
  <2>3. ASSUME n # x, Spent(c, n)', ~Spent(c, n)
        PROVE  FALSE
    <3>1. n.kind = "fini" /\ n.obj = o /\ n.pass = pass[c][o]
      BY <1>1, <2>3 DEF Spent
    <3>2. n \in Node /\ Proc[o] # <<>> /\ n.at = 0
      BY <3>1, NodeFields DEF Task
    <3>3. work[c].kind = "fini"
      BY <1>1, <1>3, <3>2
    <3>4. x \in Task(c) /\ x = work[c] /\ x.pass = pass[c][o] /\ x.kind = "fini"
      BY <1>2, <1>5, <1>6, <3>3
    <3>5. n = x
      BY <1>1, <3>1, <3>2, <3>4, NodeIs
    <3> QED
      BY <2>3, <3>5
  <2> QED
    BY <2>1, <2>2, <2>3
<1>9. KeepsFrames(c, x)
  BY <1>7, <1>8 DEF KeepsFrames
<1>10. \A z : KeepsLists(c, z) /\ KeepsQueue(c, z)
  BY <1>1, ListsSame, QueueSame
<1>11. \A z : KeepsCalls(c, z)
  <2>1. ~NewActivation("main", c, o, work[c].at, work[c].pass).push
    BY DEF NewActivation
  <2>2. \A a \in act'[c] : a.push => a \in act[c]
    BY <1>1, <2>1 DEF IInv, TypeOK, ThreadTypeOK
  <2> QED
    BY <1>1, <2>2, CallsSame DEF SubAt
<1>12. \A z : KeepsHand(c, z)
  BY <1>1, HandSame DEF StillAt
<1>13. ASSUME x \in Task(c)
       PROVE  TokenAt(c, x)'
  <2>1. x # NoNode
    BY <1>13, NoTask
  <2>2. ~Awaiting(c, x)' /\ ~Pushed(c, x)' /\ ~Queued(c, x)' /\ ~Unscheduled(c, x)' /\ ~BeingMade(c, x)'
    <3>1. KeepsLists(c, NoNode) /\ KeepsQueue(c, NoNode) /\ KeepsCalls(c, NoNode)
      BY <1>10, <1>11
    <3> QED
      BY <1>6, <1>8, <1>13, <2>1, <3>1 DEF KeepsLists, KeepsQueue, KeepsCalls
  <2> QED
    BY <1>1, <2>2 DEF TokenAt
<1>14. Tokens(c)'
  BY <1>9, <1>10, <1>11, <1>12, <1>13, TokensMove
<1>15. NoneIdle(c)
  <2>1. KeepsLists(c, NoNode) /\ KeepsCalls(c, NoNode)
    BY <1>10, <1>11
  <2>2. \A m \in Task(c) : /\ Awaiting(c, m)' => Awaiting(c, m)
                           /\ Pushed(c, m)' => Pushed(c, m)
                           /\ Unscheduled(c, m)' => Unscheduled(c, m)
    BY <1>8, <2>1, NoTask DEF KeepsLists, KeepsCalls
  <2>3. wq'[c] = wq[c] /\ pc'[c] # "requeue"
    BY <1>1
  <2>4. \A m \in Node : Idle(c, m)' => Idle(c, m)
    BY <2>2, <2>3 DEF Idle, Task
  <2> QED
    BY <2>4 DEF NoneIdle
<1> QED
  BY <1>14, <1>15

\* A subrule is done, and with it the link of a chain.
LEMMA SubruleDoneTokens ==
    ASSUME IInv, NEW c \in Comp, Tokens(c), RunSubrule(c) \/ CheckSubDone(c)
    PROVE  Tokens(c)' /\ NoneIdle(c)
<1>1. /\ pc[c] \in {"handle", "blocked"} /\ work[c].kind \in {"rule", "chain"}
      /\ work[c].kind = "chain" => ~ChainEnd(c, work[c].obj, link[c])
      /\ SubruleDone(c)
      /\ UNCHANGED <<subs, wq, sched, act, pass, pending, work>>
  <2>1. CASE RunSubrule(c)
    BY <2>1 DEF RunSubrule, AtSubrule, dbVars
  <2>2. CASE CheckSubDone(c)
    BY <2>2 DEF CheckSubDone, AtSubrule, dbVars, IInv, MainOK
  <2> QED
    BY <2>1, <2>2
<1>2. CASE work[c].kind = "rule"
  <2>1. pc'[c] = "finish" /\ link'[c] = link[c]
    BY <1>1, <1>2 DEF SubruleDone, IInv, TypeOK, ThreadTypeOK
  <2>2. KeepsHand(c, NoNode)
    BY <1>1, <2>1, HandSame DEF StillAt
  <2> QED
    BY <1>1, <2>1, <2>2, OnlyCalls
<1>3. CASE work[c].kind = "chain"
  <2> DEFINE l == link[c] + 1
  <2>1. pc'[c] = "handle" /\ link'[c] = l
    BY <1>1, <1>3 DEF SubruleDone, IInv, TypeOK, ThreadTypeOK
  <2>2. /\ work[c].at <= link[c] /\ \A j \in work[c].at .. link[c] : Mine(c, work[c].obj, j)
        /\ Mine(c, work[c].obj, l)
    BY <1>1, <1>3 DEF Tokens, InHandOK, ChainEnd
  <2>3. link[c] \in Nat /\ work[c].at \in Int
    BY <1>1, NodeFields DEF IInv, TypeOK, ThreadTypeOK, MainOK
  <2>4. work[c].at <= l /\ \A j \in work[c].at .. l : j \in work[c].at .. link[c] \/ j = l
    BY <2>2, <2>3
  <2> HIDE DEF l
  <2>5. InHandOK(c)'
    BY <1>1, <1>3, <2>1, <2>2, <2>4 DEF Tokens, InHandOK, InHand
  <2>6. KeepsHand(c, NoNode)
    BY <1>1, <2>1, <2>5 DEF KeepsHand, InHand, StillAt
  <2> QED
    BY <1>1, <2>1, <2>6, OnlyCalls
<1> QED
  BY <1>1, <1>2, <1>3

\* The steps that keep the node in hand, or are through with it.
LEMMA MovesTokens ==
    ASSUME IInv, NEW c \in Comp, Tokens(c),
           \/ EnterIdle(c) \/ Leave(c) \/ Initiate(c) \/ FinishSubrule(c)
           \/ CheckSubRunning(c) \/ Announce(c)
           \/ Tpoint(c) \/ PollTpoint(c) \/ Fini(c) \/ PollFini(c)
    PROVE  Tokens(c)' /\ NoneIdle(c)
<1> USE DEF IInv, TypeOK, ThreadTypeOK
<1>1. /\ UNCHANGED <<subs, wq, sched, pass, pending, link>>
      /\ UNCHANGED act \/ StartActivation(c)
  BY DEF EnterIdle, Leave, Initiate, FinishSubrule, CheckSubRunning, Announce,
         Tpoint, PollTpoint, Fini, PollFini, dbVars
<1>2. \A a \in act'[c] : a.push => a \in act[c]
  <2>1. \A by, from, o, k, p : ~NewActivation(by, from, o, k, p).push
    BY DEF NewActivation
  <2> QED
    BY <1>1, <2>1 DEF StartActivation
<1>3. \/ /\ pc[c] \notin {"activate", "announce", "requeue"} /\ work'[c] = work[c]
         /\ \/ pc'[c] \notin {"handle", "blocked", "requeue"}
            \/ pc[c] = "handle" /\ pc'[c] = "blocked"
            \/ pc'[c] = "requeue" /\ work[c].kind = "init"
      \/ work'[c] = NoNode /\ pc'[c] = "loop"
  <2>1. CASE EnterIdle(c) \/ Leave(c) \/ Tpoint(c) \/ PollTpoint(c) \/ Fini(c) \/ PollFini(c)
    BY <2>1 DEF EnterIdle, Leave, Tpoint, PollTpoint, Fini, PollFini
  <2>2. CASE Initiate(c)
    BY <2>2 DEF Initiate, StartActivation
  <2>3. CASE FinishSubrule(c)
    BY <2>3 DEF FinishSubrule, StartActivation
  <2>4. CASE CheckSubRunning(c) \/ Announce(c)
    BY <2>4 DEF CheckSubRunning, AtSubrule, Announce
  <2> QED
    BY <2>1, <2>2, <2>3, <2>4
<1>4. KeepsHand(c, NoNode)
  BY <1>1, <1>3, HandSame DEF StillAt
<1> QED
  BY <1>1, <1>2, <1>3, <1>4, OnlyCalls

\* A receive is not ready.
LEMMA FailsTokens ==
    ASSUME IInv, NEW c \in Comp, Tokens(c), CheckSubFails(c)
    PROVE  Tokens(c)'
<1>1. /\ UNCHANGED <<subs, wq, sched, act, pass, pending, work, link>>
      /\ pc[c] = "handle" /\ pc'[c] = "requeue"
  BY DEF CheckSubFails, AtSubrule, dbVars, IInv, TypeOK, ThreadTypeOK
<1>2. KeepsHand(c, NoNode)
  BY <1>1, HandSame DEF StillAt
<1> QED
  BY <1>1, <1>2, OnlyCalls

\* No step gives a task a second token, and few make a node idle again.
LEMMA StepTokens ==
    ASSUME IInv, NEW c \in Comp, Tokens(c),
           Scheduling(c) \/ Activating(c) \/ Receiving(c) \/ Transferring(c) \/ Working(c)
    PROVE  Tokens(c)' /\ (NoneIdle(c) \/ CheckSubFails(c) \/ QueueLastLink(c))
<1>1. CASE Scheduling(c)
  BY <1>1, SchedulingTokens
<1>2. CASE Activating(c)
  BY <1>2, ScanHitTokens, PushTokens, ScanEndTokens DEF Activating
<1>3. CASE Receiving(c) \/ Transferring(c)
  BY <1>3, FindingTokens, HandlersTokens DEF Receiving
<1>4. CASE Working(c)
  BY <1>4, TakeTokens, MovesTokens, RealizeTokens, SubruleDoneTokens, FailsTokens,
     QueueLastLinkTokens, RequeueTokens DEF Working
<1> QED
  BY <1>1, <1>2, <1>3, <1>4

\* A component's steps touch nothing of another's.
LEMMA OthersUntouched ==
    ASSUME IInv, NEW c \in Comp, NEW d \in Comp, d # c,
           Scheduling(c) \/ Activating(c) \/ Receiving(c) \/ Transferring(c) \/ Working(c)
    PROVE  Untouched(d) /\ ran'[d] = ran[d]
<1> USE DEF IInv, TypeOK, DbTypeOK, ThreadTypeOK, DataTypeOK
<1>1. CASE Scheduling(c)
  <2> USE DEF Return, SetTop, Signal, SubTarget, dbVars, mainVars
  <2>1. CASE FindPending(c) \/ EndSchedule(c) \/ CheckDep(c)
    BY <2>1 DEF FindPending, EndSchedule, CheckDep, Untouched
  <2>2. CASE Claim(c)
    BY <2>2 DEF Claim, Untouched
  <2>3. CASE SubDep(c) \/ SubChain(c) \/ SubFini(c)
    BY <2>3 DEF SubDep, SubChain, SubFini, Untouched
  <2>4. ASSUME NEW k, CheckChain(c, k) PROVE Untouched(d) /\ ran'[d] = ran[d]
    BY <2>4 DEF CheckChain, Untouched
  <2> QED
    BY <1>1, <2>1, <2>2, <2>3, <2>4 DEF Scheduling
<1>2. CASE Activating(c)
  <2>1. ASSUME NEW a \in act[c], NEW i, ScanHit(c, a, i)
        PROVE  Untouched(d) /\ ran'[d] = ran[d]
    BY <2>1 DEF ScanHit, Untouched, mainVars
  <2>2. ASSUME NEW a \in act[c], Push(c, a)
        PROVE  Untouched(d) /\ ran'[d] = ran[d]
    BY <2>2 DEF Push, Signal, Untouched, dbVars
  <2>3. ASSUME NEW a \in act[c], ScanEnd(c, a)
        PROVE  Untouched(d) /\ ran'[d] = ran[d]
    BY <2>3 DEF ScanEnd, Untouched
  <2> QED
    BY <1>2, <2>1, <2>2, <2>3 DEF Activating
<1>3. CASE Receiving(c)
  BY <1>3 DEF Receiving, RecvTpoint, RecvWork, RecvFini, Signal, Untouched, dbVars, mainVars
<1>4. CASE Transferring(c)
  BY <1>4 DEF Transferring, Notify, HandleNotify, Untouched, dbVars, mainVars
<1>5. CASE Working(c)
  <2>1. CASE RealizeObject(c) \/ FinishSubrule(c) \/ Initiate(c)
    BY <2>1 DEF RealizeObject, FinishSubrule, Initiate, StartActivation, Untouched, dbVars
  <2>2. CASE RunSubrule(c) \/ CheckSubDone(c)
    BY <2>2 DEF RunSubrule, CheckSubDone, SubruleDone, Untouched, dbVars
  <2>3. CASE EnterIdle(c) \/ Leave(c) \/ Take(c) \/ CheckSubRunning(c) \/ CheckSubFails(c)
             \/ QueueLastLink(c) \/ Requeue(c) \/ Announce(c)
    BY <2>3 DEF EnterIdle, Leave, Take, CheckSubRunning, CheckSubFails, QueueLastLink,
                Requeue, Announce, Untouched, dbVars
  <2>4. CASE Tpoint(c) \/ PollTpoint(c) \/ Fini(c) \/ PollFini(c)
    BY <2>4 DEF Tpoint, PollTpoint, Fini, PollFini, Untouched, dbVars
  <2> QED
    BY <1>5, <2>1, <2>2, <2>3, <2>4 DEF Working
<1> QED
  BY <1>1, <1>2, <1>3, <1>4, <1>5

AllTokens == \A c \in Comp : Tokens(c)

\* Every step keeps the tokens of all.
LEMMA TokensKept == IInv /\ AllTokens /\ [Next]_vars => AllTokens'
<1> SUFFICES ASSUME IInv, AllTokens, [Next]_vars, NEW d \in Comp
             PROVE  Tokens(d)'
  BY DEF AllTokens
<1>1. Tokens(d)
  BY DEF AllTokens
<1>2. CASE UNCHANGED vars
  BY <1>1, <1>2, UntouchedKeeps DEF Untouched, vars, dbVars, mainVars
<1>3. ASSUME NEW c \in Comp,
             Scheduling(c) \/ Activating(c) \/ Receiving(c) \/ Transferring(c) \/ Working(c)
      PROVE  Tokens(d)'
  <2>1. CASE c = d
    BY <1>1, <1>3, <2>1, StepTokens
  <2>2. CASE c # d
    BY <1>1, <1>3, <2>2, OthersUntouched, UntouchedKeeps
  <2> QED
    BY <2>1, <2>2
<1> QED
  BY <1>2, <1>3 DEF Next, Over

LEMMA TokensAlways == Spec => [](IInv /\ AllTokens)
<1>1. Init => IInv /\ AllTokens
  BY InitIInv, TokensInit DEF AllTokens
<1>2. IInv /\ AllTokens /\ [Next]_vars => (IInv /\ AllTokens)'
  BY NextIInv, TokensKept
<1> QED
  BY <1>1, <1>2, PTL DEF Spec

\* A set without two different elements has one at most.
LEMMA OneAtMost ==
    ASSUME NEW S, \A x, y \in S : x = y
    PROVE  Cardinality(S) \in {0, 1} /\ (Cardinality(S) = 1 => S # {})
<1>1. CASE S = {}
  BY <1>1, FS_EmptySet
<1>2. ASSUME NEW x \in S
      PROVE  Cardinality(S) = 1
  <2>1. S = {x}
    OBVIOUS
  <2> QED
    BY <2>1, FS_Singleton
<1> QED
  BY <1>1, <1>2

\* A node whose token is in one place is active in one place at most.
LEMMA TokenIsPlace ==
    ASSUME IInv, NEW c \in Comp, Tokens(c), NEW n \in Node, n.kind # "init"
    PROVE  Places(c, n) <= 1
<1> DEFINE A == {i \in DOMAIN wq[c] : wq[c][i] = n}
           B == {a \in act[c] : a.push /\ subs[c][<<a.obj, a.at>>][a.pos].node = n}
<1>1. \A a \in B : /\ <<a.obj, a.at>> \in Entry /\ a.pos \in DOMAIN subs[c][<<a.obj, a.at>>]
                   /\ n \in Task(c) /\ Pushed(c, n)
  <2> SUFFICES ASSUME NEW a \in B
               PROVE  /\ <<a.obj, a.at>> \in Entry /\ a.pos \in DOMAIN subs[c][<<a.obj, a.at>>]
                      /\ n \in Task(c) /\ Pushed(c, n)
    OBVIOUS
  <2>1. <<a.obj, a.at>> \in Entry /\ a.pos \in DOMAIN subs[c][<<a.obj, a.at>>]
    BY DEF IInv, ActOK
  <2>2. SubAt(c, a).node = n /\ a.push /\ a \in act[c]
    BY DEF SubAt
  <2>3. n \in Task(c)
    BY <2>1, <2>2 DEF Tokens, ListsOK, SubAt
  <2> QED
    BY <2>1, <2>2, <2>3 DEF Pushed
<1>2. ASSUME NEW a \in B, NEW b \in B PROVE a = b
  <2>1. <<a.obj, a.at>> = <<b.obj, b.at>> /\ a.pos = b.pos
    BY <1>1 DEF Tokens, ListsOK
  <2>2. a.obj = b.obj /\ a.at = b.at
    BY <2>1
  <2> QED
    BY <2>1, <2>2 DEF Tokens, PushesOK
<1>3. ASSUME NEW i \in A, NEW j \in A PROVE i = j
  BY DEF Tokens, QueueOK
<1>4. ASSUME NEW i \in A
      PROVE  work[c] # n /\ B = {}
  <2>1. PICK t \in Task(c) : PartOf(c, n, t) /\ Queued(c, t)
    BY DEF Tokens, QueueOK, Queued
  <2>2. work[c] # n
    BY <2>1 DEF Tokens, OneToken, TokenAt, InHand
  <2>3. Queued(c, n)
    BY DEF Queued, PartOf
  <2>4. B = {}
    BY <1>1, <2>3 DEF Tokens, OneToken, TokenAt
  <2> QED
    BY <2>2, <2>4
<1>5. ASSUME NEW a \in B
      PROVE  work[c] # n
  BY <1>1 DEF Tokens, OneToken, TokenAt, InHand, PartOf
<1>6. Cardinality(A) \in {0, 1} /\ (Cardinality(A) = 1 => A # {})
  <2> HIDE DEF A
  <2> QED
    BY <1>3, OneAtMost
<1>7. Cardinality(B) \in {0, 1} /\ (Cardinality(B) = 1 => B # {})
  <2> HIDE DEF B
  <2> QED
    BY <1>2, OneAtMost
<1>8. Places(c, n) = Cardinality(A) + (IF work[c] = n THEN 1 ELSE 0) + Cardinality(B)
  BY DEF Places
<1>9. A # {} => work[c] # n /\ B = {}
  BY <1>4
<1>10. B # {} => work[c] # n
  BY <1>5
<1> HIDE DEF A, B
<1> QED
  BY <1>6, <1>7, <1>8, <1>9, <1>10

\* Chains, their last links and realizations are queued, worked on or about
\* to be queued in one place at a time (benesh_make_active does not look
\* whether a node is active already, nor does activate_subs).
THEOREM OnePlace == Spec => []ActiveOnce
<1>1. IInv /\ AllTokens => ActiveOnce
  BY TokenIsPlace DEF AllTokens, ActiveOnce
<1> QED
  BY <1>1, TokensAlways, PTL

-----------------------------------------------------------------------------
(***************************************************************************)
(* No subrule twice.                                                       *)
(***************************************************************************)

\* No transfer is from a component to itself.
NoSelfTransfer ==
    \A o \in Obj : \A k \in DOMAIN Proc[o] :
        Proc[o][k].type = "sub" => Proc[o][k].comp # Proc[o][k - 1].comp

NotRun(c, m) == \A r \in ran[c] : ~PartOf(c, r, m)

\* Of an idle task nothing has been run; of the one in hand, the links up to
\* the one it has got to.
RunsOnce(c) ==
    /\ \A m \in Node : m.kind # "init" /\ Idle(c, m) => NotRun(c, m)
    /\ pc[c] \in {"handle", "blocked"} /\ work[c].kind \in {"rule", "chain"} =>
           \A r \in ran[c] : PartOf(c, r, work[c]) => r.at < Current(c)

SameHand(c) ==
    /\ ran'[c] = ran[c]
    /\ pc'[c] \in {"handle", "blocked"} =>
           /\ pc[c] \in {"handle", "blocked"} /\ work'[c] = work[c] /\ link'[c] = link[c]

LEMMA RunsStay ==
    ASSUME NEW c \in Comp, RunsOnce(c), NoneIdle(c), SameHand(c)
    PROVE  RunsOnce(c)'
<1>1. \A m \in Node : m.kind # "init" /\ Idle(c, m)' => NotRun(c, m)'
  BY DEF RunsOnce, NoneIdle, NotRun, SameHand
<1>2. pc'[c] \in {"handle", "blocked"} /\ work'[c].kind \in {"rule", "chain"} =>
          \A r \in ran'[c] : PartOf(c, r, work'[c]) => r.at < Current(c)'
  BY DEF RunsOnce, SameHand, Current
<1> QED
  BY <1>1, <1>2 DEF RunsOnce, PartOf

\* The other threads run nothing, and do not put a node into the hand.
LEMMA HandlersKeepHand ==
    ASSUME IInv, NEW c \in Comp,
           Scheduling(c) \/ Activating(c) \/ Receiving(c) \/ Transferring(c)
    PROVE  SameHand(c)
<1> USE DEF IInv, TypeOK, ThreadTypeOK, SameHand
<1>1. CASE Scheduling(c)
  <2> USE DEF Return, Signal, mainVars
  <2>1. CASE FindPending(c) \/ EndSchedule(c)
    BY <2>1 DEF FindPending, EndSchedule
  <2>2. CASE Claim(c) \/ CheckDep(c) \/ SubDep(c) \/ SubChain(c) \/ SubFini(c)
    BY <2>2 DEF Claim, CheckDep, SubDep, SubChain, SubFini
  <2>3. ASSUME NEW k, CheckChain(c, k) PROVE SameHand(c)
    BY <2>3 DEF CheckChain
  <2> QED
    BY <1>1, <2>1, <2>2, <2>3 DEF Scheduling
<1>2. CASE Activating(c)
  <2>1. ASSUME NEW a \in act[c], NEW i, ScanHit(c, a, i)
        PROVE  SameHand(c)
    BY <2>1 DEF ScanHit, mainVars
  <2>2. ASSUME NEW a \in act[c], Push(c, a)
        PROVE  SameHand(c)
    BY <2>2 DEF Push, Signal
  <2>3. ASSUME NEW a \in act[c], ScanEnd(c, a)
        PROVE  SameHand(c)
    BY <2>3 DEF ScanEnd
  <2> QED
    BY <1>2, <2>1, <2>2, <2>3 DEF Activating
<1>3. CASE Receiving(c)
  BY <1>3 DEF Receiving, RecvTpoint, RecvWork, RecvFini, Signal, mainVars
<1>4. CASE Transferring(c)
  BY <1>4 DEF Transferring, Notify, HandleNotify, mainVars
<1> QED
  BY <1>1, <1>2, <1>3, <1>4

\* A subrule in hand has not been run, nor has the rest of its chain.
LEMMA HandNotRun ==
    ASSUME IInv, NEW c \in Comp, Tokens(c), RunsOnce(c), AtSubrule(c)
    PROVE  /\ CurrentRule(c) \notin ran[c]
           /\ work[c].kind = "rule" => NotRun(c, work[c])
<1>1. /\ pc[c] = "handle" /\ work[c].kind \in {"rule", "chain"}
  BY DEF AtSubrule
<1>2. /\ work[c] \in Node /\ Current(c) \in Nat /\ CurrentRule(c) \in Node
      /\ CurrentRule(c).at = Current(c)
  BY <1>1, SubruleInHand DEF CurrentRule, RuleNode, NodeOf
<1>3. PartOf(c, CurrentRule(c), work[c])
  <2>1. PICK n \in Task(c) : PartOf(c, CurrentRule(c), n) /\ InHand(c, n)
    BY <1>1, LinkInHand
  <2>2. CASE work[c].kind = "chain"
    BY <2>1, <2>2 DEF InHand, PartOf
  <2>3. CASE work[c].kind = "rule"
    BY <1>2, <2>3, NodeIs DEF CurrentRule, RuleNode, Current, PartOf
  <2> QED
    BY <1>1, <2>2, <2>3
<1>4. CurrentRule(c) \notin ran[c]
  BY <1>1, <1>2, <1>3 DEF RunsOnce
<1>5. ASSUME work[c].kind = "rule", NEW r \in ran[c], PartOf(c, r, work[c])
      PROVE  FALSE
  <2>1. r = CurrentRule(c)
    BY <1>2, <1>5, NodeIs DEF CurrentRule, RuleNode, Current, PartOf
  <2> QED
    BY <1>4, <1>5, <2>1
<1> QED
  BY <1>4, <1>5 DEF NotRun

\* What is run is the hand's; nothing of its chain is idle.
LEMMA SubruleDoneRuns ==
    ASSUME IInv, NEW c \in Comp, Tokens(c), RunsOnce(c), RunSubrule(c) \/ CheckSubDone(c)
    PROVE  RunsOnce(c)'
<1>1. /\ pc[c] \in {"handle", "blocked"} /\ work[c].kind \in {"rule", "chain"}
      /\ SubruleDone(c) /\ UNCHANGED work
  <2>1. CASE RunSubrule(c)
    BY <2>1 DEF RunSubrule, AtSubrule
  <2>2. CASE CheckSubDone(c)
    BY <2>2 DEF CheckSubDone, AtSubrule, IInv, MainOK
  <2> QED
    BY <2>1, <2>2
<1>2. /\ CurrentRule(c) \in Node /\ Current(c) \in Nat
      /\ CurrentRule(c).at = Current(c) /\ CurrentRule(c).kind = "rule"
  BY <1>1, SubruleInHand DEF CurrentRule, RuleNode, NodeOf
<1>3. PICK x : x = CurrentRule(c)
  OBVIOUS
<1>4. ran'[c] = ran[c] \cup {x}
  BY <1>1, <1>3 DEF SubruleDone, IInv, TypeOK, DataTypeOK
<1>5. PICK t \in Task(c) : PartOf(c, x, t) /\ InHand(c, t)
  BY <1>1, <1>3, LinkInHand
<1>6. ~Awaiting(c, t) /\ ~Pushed(c, t) /\ ~Queued(c, t) /\ ~Unscheduled(c, t)
  BY <1>5, HandTask
<1>7. NoneIdle(c)
  BY SubruleDoneTokens
<1>8. ASSUME NEW m \in Node, m.kind # "init", Idle(c, m), PartOf(c, x, m)
      PROVE  FALSE
  <2>1. ASSUME m \in Task(c) PROVE m = t
    BY <1>2, <1>3, <1>5, <1>8, <2>1, TaskOnly
  <2>2. ASSUME NEW i \in DOMAIN wq[c], wq[c][i] = m
        PROVE  FALSE
    <3>1. CASE m = x
      BY <1>5, <1>6, <2>2, <3>1 DEF Queued
    <3>2. CASE m # x
      <4>1. m.kind = "chain"
        BY <1>8, <3>2 DEF PartOf
      <4>2. m \in Task(c)
        BY <2>2, <4>1, <1>8 DEF Tokens, QueueOK, PartOf
      <4> QED
        BY <1>6, <2>1, <2>2, <4>2 DEF Queued, PartOf
    <3> QED
      BY <3>1, <3>2
  <2>3. m \in Task(c) /\ (Unscheduled(c, m) \/ Awaiting(c, m) \/ Pushed(c, m))
    BY <1>1, <1>8, <2>2 DEF Idle
  <2> QED
    BY <1>6, <2>1, <2>3
<1>9. ASSUME NEW m \in Node, m.kind # "init", Idle(c, m)'
      PROVE  NotRun(c, m)'
  <2>1. Idle(c, m)
    BY <1>7, <1>9 DEF NoneIdle
  <2>2. NotRun(c, m) /\ ~PartOf(c, x, m)
    BY <1>8, <1>9, <2>1 DEF RunsOnce
  <2> QED
    BY <1>4, <2>2 DEF NotRun
<1>10. ASSUME pc'[c] \in {"handle", "blocked"}, NEW r \in ran'[c], PartOf(c, r, work'[c])
       PROVE  r.at < Current(c)'
  <2>1. work[c].kind = "chain" /\ link'[c] = link[c] + 1
    BY <1>1, <1>10 DEF SubruleDone, IInv, TypeOK, ThreadTypeOK
  <2>2. Current(c) = link[c] /\ Current(c)' = link[c] + 1 /\ link[c] \in Nat
    BY <1>1, <1>2, <2>1 DEF Current
  <2>3. CASE r = x
    BY <1>2, <1>3, <2>2, <2>3
  <2>4. CASE r \in ran[c]
    <3>1. r.at < link[c] /\ r \in Node
      BY <1>1, <1>10, <2>2, <2>4 DEF RunsOnce, IInv, TypeOK, DataTypeOK
    <3>2. r.at \in Int
      BY <3>1, NodeFields
    <3> QED
      BY <2>2, <3>1, <3>2
  <2> QED
    BY <1>4, <2>3, <2>4
<1> QED
  BY <1>9, <1>10 DEF RunsOnce, PartOf

\* A receive that is not ready leads its chain: nothing of it has been run.
LEMMA FailsRuns ==
    ASSUME NoSelfTransfer, IInv, NEW c \in Comp, Tokens(c), RunsOnce(c), CheckSubFails(c)
    PROVE  RunsOnce(c)'
<1>1. /\ UNCHANGED <<subs, wq, sched, act, pass, pending, work, link, ran>>
      /\ pc[c] = "handle" /\ pc'[c] = "requeue" /\ AtSubrule(c) /\ CurrentType(c) = "sub"
  BY DEF CheckSubFails, AtSubrule, dbVars, IInv, TypeOK, ThreadTypeOK
<1>2. NotRun(c, work[c])
  <2>1. work[c].kind \in {"rule", "chain"}
    BY <1>1 DEF AtSubrule
  <2>2. CASE work[c].kind = "rule"
    BY <1>1, <2>2, HandNotRun
  <2>3. CASE work[c].kind = "chain"
    <3> DEFINE o == work[c].obj
               k == link[c]
               b == work[c].at
    <3>1. /\ work[c] \in Node /\ o \in Obj /\ k \in Steps(o) /\ k \in Nat /\ Current(c) = k
      BY <1>1, <2>3, SubruleInHand DEF Current
    <3>2. b \in Int /\ b <= k /\ \A j \in b .. k : Mine(c, o, j)
      BY <1>1, <2>3, <3>1, NodeFields DEF Tokens, InHandOK
    <3>3. Proc[o][k].type = "sub" /\ k \in DOMAIN Proc[o]
      <4>1. Len(Proc[o]) \in Nat /\ DOMAIN Proc[o] = 1 .. Len(Proc[o])
        BY <3>1, ProcAssumption, LenProperties
      <4> QED
        BY <1>1, <3>1, <4>1 DEF CurrentType, Steps
    <3>4. k > 1 /\ Proc[o][k - 1].type = "pub" /\ Proc[o][k].comp # Proc[o][k - 1].comp
      BY <3>1, <3>3, TransferAssumption DEF NoSelfTransfer
    <3>5. ~(Mine(c, o, k) /\ Mine(c, o, k - 1))
      BY <3>3, <3>4 DEF Mine
    <3> HIDE DEF k, b
    <3>6. b = k
      <4>1. k \in b .. k
        BY <3>1, <3>2
      <4>2. b < k => k - 1 \in b .. k
        BY <3>1, <3>2
      <4> QED
        BY <3>1, <3>2, <3>5, <4>1, <4>2
    <3>7. ASSUME NEW r \in ran[c], PartOf(c, r, work[c])
          PROVE  FALSE
      <4>1. r \in Node /\ r.at < k
        BY <1>1, <2>1, <3>1, <3>7 DEF RunsOnce, IInv, TypeOK, DataTypeOK
      <4>2. r.kind = "rule" => b <= r.at
        BY <2>3, <3>7 DEF PartOf, b
      <4>3. r.kind # "rule" => r.at = b
        BY <3>7 DEF PartOf, b
      <4>4. r.at \in Int
        BY <4>1, NodeFields
      <4> QED
        BY <3>1, <3>6, <4>1, <4>2, <4>3, <4>4
    <3> QED
      BY <3>7 DEF NotRun
  <2> QED
    BY <2>1, <2>2, <2>3
<1>3. ASSUME NEW m \in Node, m.kind # "init", Idle(c, m)'
      PROVE  NotRun(c, m)'
  <2>1. m = work[c] \/ Idle(c, m)
    <3>1. m \in Task(c) /\ (Unscheduled(c, m)' \/ Awaiting(c, m)' \/ Pushed(c, m)')
              => Unscheduled(c, m) \/ Awaiting(c, m) \/ Pushed(c, m)
      BY <1>1 DEF Unscheduled, Awaiting, Pushed, SubAt
    <3> QED
      BY <1>1, <1>3, <3>1 DEF Idle, Task
  <2>2. NotRun(c, m)
    BY <1>2, <1>3, <2>1 DEF RunsOnce
  <2> QED
    BY <1>1, <2>2 DEF NotRun
<1> QED
  BY <1>1, <1>3 DEF RunsOnce

\* A last link that is queued has not been run.
LEMMA QueueLastLinkRuns ==
    ASSUME IInv, NEW c \in Comp, Tokens(c), RunsOnce(c), QueueLastLink(c)
    PROVE  RunsOnce(c)'
<1>1. /\ pc[c] = "handle" /\ work[c].kind = "chain" /\ pc'[c] = "loop"
      /\ wq'[c] = MakeActive(wq[c], CurrentRule(c)) /\ wq[c] \in Seq(Node)
      /\ UNCHANGED <<subs, act, sched, pass, pending, ran>>
  BY DEF QueueLastLink, dbVars, IInv, TypeOK, ThreadTypeOK
<1>2. /\ CurrentRule(c) \in Node /\ Current(c) \in Nat
      /\ CurrentRule(c).at = Current(c) /\ CurrentRule(c).kind = "rule"
  BY <1>1, SubruleInHand DEF CurrentRule, RuleNode, NodeOf
<1>3. PartOf(c, CurrentRule(c), work[c])
  BY <1>1, LinkInHand DEF InHand, PartOf
<1>4. CurrentRule(c) \notin ran[c]
  BY <1>1, <1>2, <1>3 DEF RunsOnce
<1>5. NotRun(c, CurrentRule(c))
  BY <1>2, <1>4 DEF NotRun, PartOf
<1>6. ASSUME NEW m \in Node, m.kind # "init", Idle(c, m)'
      PROVE  NotRun(c, m)'
  <2>1. \A i \in DOMAIN wq'[c] : wq'[c][i] = CurrentRule(c) \/ \E j \in DOMAIN wq[c] : wq[c][j] = wq'[c][i]
    BY <1>1, <1>2, MakeActiveAt
  <2>2. m = CurrentRule(c) \/ Idle(c, m)
    <3>1. m \in Task(c) /\ (Unscheduled(c, m)' \/ Awaiting(c, m)' \/ Pushed(c, m)')
              => Unscheduled(c, m) \/ Awaiting(c, m) \/ Pushed(c, m)
      BY <1>1 DEF Unscheduled, Awaiting, Pushed, SubAt
    <3> QED
      BY <1>1, <1>6, <2>1, <3>1 DEF Idle, Task
  <2>3. NotRun(c, m)
    BY <1>5, <1>6, <2>2 DEF RunsOnce
  <2> QED
    BY <1>1, <2>3 DEF NotRun
<1> QED
  BY <1>1, <1>6 DEF RunsOnce

\* The node that is taken was idle.
LEMMA TakeRuns ==
    ASSUME IInv, NEW c \in Comp, Tokens(c), RunsOnce(c), Take(c)
    PROVE  RunsOnce(c)'
<1>1. /\ wq[c] # <<>> /\ wq[c] \in Seq(Node) /\ work'[c] = Head(wq[c]) /\ ran'[c] = ran[c]
  BY DEF Take, IInv, TypeOK, ThreadTypeOK
<1>2. NoneIdle(c)
  BY TakeTokens
<1>3. \A m \in Node : m.kind # "init" /\ Idle(c, m)' => NotRun(c, m)'
  BY <1>1, <1>2 DEF RunsOnce, NoneIdle, NotRun
<1>4. Head(wq[c]) \in Node /\ \E i \in DOMAIN wq[c] : wq[c][i] = Head(wq[c])
  <2> DEFINE q == wq[c]
  <2> HIDE DEF q
  <2>1. q \in Seq(Node) /\ q # <<>>
    BY <1>1 DEF q
  <2>2. Head(q) = q[1] /\ Head(q) \in Node
    BY <2>1, HeadTailProperties
  <2>3. 1 \in DOMAIN q
    BY <2>1, LenProperties, EmptySeq
  <2> QED
    BY <2>2, <2>3 DEF q
<1>5. work'[c].kind \in {"rule", "chain"} => NotRun(c, work'[c])
  BY <1>1, <1>4 DEF RunsOnce, Idle
<1> QED
  BY <1>1, <1>3, <1>5 DEF RunsOnce, NotRun, PartOf

\* The rest of the main thread's steps run nothing.
LEMMA MovesRun ==
    ASSUME IInv, NEW c \in Comp, Tokens(c), RunsOnce(c),
           \/ EnterIdle(c) \/ Leave(c) \/ Initiate(c) \/ FinishSubrule(c)
           \/ CheckSubRunning(c) \/ Announce(c) \/ RealizeObject(c) \/ Requeue(c)
           \/ Tpoint(c) \/ PollTpoint(c) \/ Fini(c) \/ PollFini(c)
    PROVE  RunsOnce(c)'
<1> USE DEF IInv, TypeOK, ThreadTypeOK
<1>1. SameHand(c)
  <2> USE DEF SameHand
  <2>1. CASE EnterIdle(c) \/ Leave(c) \/ Tpoint(c) \/ PollTpoint(c) \/ Fini(c) \/ PollFini(c)
    BY <2>1 DEF EnterIdle, Leave, Tpoint, PollTpoint, Fini, PollFini
  <2>2. CASE Initiate(c)
    BY <2>2 DEF Initiate, StartActivation
  <2>3. CASE FinishSubrule(c) \/ RealizeObject(c)
    BY <2>3 DEF FinishSubrule, RealizeObject, StartActivation
  <2>4. CASE CheckSubRunning(c) \/ Announce(c) \/ Requeue(c)
    BY <2>4 DEF CheckSubRunning, AtSubrule, Announce, Requeue
  <2> QED
    BY <2>1, <2>2, <2>3, <2>4
<1>2. NoneIdle(c)
  BY MovesTokens, RealizeTokens, RequeueTokens
<1> QED
  BY <1>1, <1>2, RunsStay

AllRunOnce == \A c \in Comp : RunsOnce(c)

LEMMA RunsKept ==
    ASSUME NoSelfTransfer, IInv, AllTokens, AllRunOnce, [Next]_vars
    PROVE  AllRunOnce'
<1> SUFFICES ASSUME NEW d \in Comp
             PROVE  RunsOnce(d)'
  BY DEF AllRunOnce
<1>1. Tokens(d) /\ RunsOnce(d)
  BY DEF AllTokens, AllRunOnce
<1>2. ASSUME Untouched(d), ran'[d] = ran[d]
      PROVE  RunsOnce(d)'
  <2>1. ASSUME NEW m \in Node, m.kind # "init", Idle(d, m)'
        PROVE  NotRun(d, m)'
    <3>1. Idle(d, m)
      BY <1>2, <2>1 DEF Idle, Untouched, Unscheduled, Awaiting, Pushed, SubAt, Task
    <3> QED
      BY <1>1, <1>2, <2>1, <3>1 DEF RunsOnce, NotRun
  <2> QED
    BY <1>1, <1>2, <2>1 DEF RunsOnce, Untouched, Current, PartOf
<1>3. CASE UNCHANGED vars
  BY <1>2, <1>3 DEF Untouched, vars, dbVars, mainVars
<1>4. ASSUME NEW c \in Comp,
             Scheduling(c) \/ Activating(c) \/ Receiving(c) \/ Transferring(c) \/ Working(c)
      PROVE  RunsOnce(d)'
  <2>1. CASE c # d
    BY <1>2, <1>4, <2>1, OthersUntouched
  <2>2. CASE c = d /\ (Scheduling(c) \/ Activating(c) \/ Receiving(c) \/ Transferring(c))
    <3>1. SameHand(d)
      BY <2>2, HandlersKeepHand
    <3>2. NoneIdle(d)
      BY <1>1, <2>2, StepTokens, SchedulingTokens, FindingTokens, HandlersTokens,
         ScanHitTokens, PushTokens, ScanEndTokens DEF Activating, Receiving
    <3> QED
      BY <1>1, <3>1, <3>2, RunsStay
  <2>3. CASE c = d /\ Working(c)
    BY <1>1, <2>3, TakeRuns, MovesRun, SubruleDoneRuns, FailsRuns, QueueLastLinkRuns DEF Working
  <2> QED
    BY <1>4, <2>1, <2>2, <2>3
<1> QED
  BY <1>3, <1>4 DEF Next, Over

\* A component carries out a subrule once in a scheduling pass, however often
\* its chain is requeued, provided that no transfer is from a component to
\* itself: only then does a receive lead its chain, so that handle_work, which
\* begins a requeued chain at its first link, runs nothing again.
THEOREM OnceInAPass ==
    ASSUME NoSelfTransfer
    PROVE  Spec => []OncePerPass
<1>1. Init => AllRunOnce
  BY DEF Init, AllRunOnce, RunsOnce, NotRun
<1>2. IInv /\ AllTokens /\ AllRunOnce /\ [Next]_vars => AllRunOnce'
  BY RunsKept
<1>3. IInv /\ AllTokens /\ AllRunOnce => OncePerPass
  BY HandNotRun DEF AllTokens, AllRunOnce, OncePerPass
<1> QED
  BY <1>1, <1>2, <1>3, TokensAlways, PTL DEF Spec

=============================================================================
