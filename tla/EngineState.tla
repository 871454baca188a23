---------------------------- MODULE EngineState ----------------------------
(***************************************************************************)
(* The data of the workflow engine of benesh.c, as every component keeps   *)
(* them, and the primitives its threads share.  Module Engine has the      *)
(* steps of the threads.                                                   *)
(***************************************************************************)
EXTENDS Rules, FiniteSets, SequencesExt

CONSTANT MaxPass    \* bound on the times one object is scheduled anew

ASSUME CompAssumption == IsFiniteSet(Comp)

ASSUME MaxPassAssumption == MaxPass \in Nat \ {0}

VARIABLES
    \* the object database, known_objs
    realized,   \* realized[c]: the entries with the realized flag
    pending,    \* pending[c]: the objects whose entry 0 is pending
    subs,       \* subs[c][e]: the subscriptions on entry e, oldest first
    deps,       \* deps[c][n]: the counter work_node.deps of node n
    pass,       \* pass[c][o]: times schedule_target has scheduled o
    \* the work queue and the threads
    wq,         \* wq[c]: the work queue, next node to be taken first
    sched,      \* sched[c]: the call stack of schedule_target
    act,        \* act[c]: the activate_subs calls in progress
    pc,         \* pc[c]: where the main thread is
    work,       \* work[c]: the node the main thread has taken
    link,       \* link[c]: the link of a chain it has got to
    tp,         \* tp[c]: touchpoints signalled, then 1 more for benesh_fini
    count,      \* count[c]: comp_count
    \* EKT and DataSpaces
    tpNet, workNet, finiNet,    \* announcements on their way
    published,  \* the publications DataSpaces holds
    xfer,       \* xfer[c][n]: the state of the subscription of SUB node n
    \* history
    ran         \* ran[c]: the RULE nodes whose subrule c has carried out

dbVars == <<realized, pending, subs, deps, pass>>
mainVars == <<pc, work, link, tp>>
netVars == <<tpNet, workNet, finiNet>>
dataVars == <<published, xfer>>

vars == <<dbVars, wq, sched, act, mainVars, count, netVars, dataVars, ran>>

-----------------------------------------------------------------------------
(***************************************************************************)
(* Entries, nodes and the other data.                                      *)
(***************************************************************************)

\* Entry -1 of an object is its initiation, 0 its realization, k subrule k.
Entry == UNION {{o} \X (-1 .. Len(Proc[o])) : o \in Obj}

\* The subrule field of an initiation node: an object without a procedure
\* is realized as soon as it is initiated.
InitAt(o) == IF Proc[o] = <<>> THEN 0 ELSE -1

\* struct work_node.  Nodes of different scheduling passes are different.
NodeOf(kind, o, k, p) == [kind |-> kind, obj |-> o, at |-> k, pass |-> p]

InitNode(o, p) == NodeOf("init", o, InitAt(o), p)
FiniNode(o, p) == NodeOf("fini", o, 0, p)
ChainNode(o, k, p) == NodeOf("chain", o, k, p)
RuleNode(o, k, p) == NodeOf("rule", o, k, p)

Node ==
    UNION {UNION {
        {InitNode(o, p), FiniNode(o, p)}
            \cup {ChainNode(o, k, p) : k \in Steps(o)}
            \cup {RuleNode(o, k, p) : k \in Steps(o)}
        : o \in Obj} : p \in 1 .. MaxPass}

SubNode == {n \in Node : n.kind = "rule" /\ Proc[n.obj][n.at].type = "sub"}

\* The nodes that may subscribe to an entry; rules only ever hang on a chain.
Waiter == {n \in Node : n.kind # "rule"}

NoNode == [kind |-> "none", obj |-> "none", at |-> 0, pass |-> 0]

\* One activation of schedule_target.
Frame == [obj : Obj, pc : {"claim", "deps", "sub", "rules", "chain", "end"},
          i : Nat, met : BOOLEAN]

\* One activate_subs call on entry <<obj, at>>: pos is the subscription it
\* looks at next, push tells that the one at pos is to be queued.
Activation == [by : {"main", "watch", "notify"}, from : Comp, obj : Obj,
               at : Int, pass : 0 .. MaxPass, pos : Nat, push : BOOLEAN]

NewActivation(by, from, o, k, p) ==
    [by |-> by, from |-> from, obj |-> o, at |-> k, pass |-> p,
     pos |-> 1, push |-> FALSE]

TpMsg == [to : Comp, from : Comp, n : Nat]
WorkMsg == [to : Comp, from : Comp, obj : Obj, at : Nat, pass : 1 .. MaxPass]
FiniMsg == [to : Comp, from : Comp]

\* Where the main thread can be: in the application ("app"); between two
\* calls of benesh_handle_work ("poll"), about to enter it ("enter"), in its
\* wait, in its loop; handling a node, down to its cleanup; torn down.
MainPc == {"app", "poll", "enter", "wait", "loop", "handle", "blocked",
           "requeue", "finish", "activate", "announce", "down"}

\* A subscription waits for its data, runs handle_notify, is waited for by
\* check_sub ("claimed"), has copied its data, and is done.
XferState == {"none", "wait", "running", "claimed", "copied", "done"}

DbTypeOK ==
    /\ realized \in [Comp -> SUBSET Entry]
    /\ pending \in [Comp -> SUBSET Obj]
    /\ subs \in [Comp -> [Entry -> Seq([node : Waiter, done : BOOLEAN])]]
    /\ deps \in [Comp -> [Waiter -> Int]]
    /\ pass \in [Comp -> [Obj -> 0 .. MaxPass]]

ThreadTypeOK ==
    /\ wq \in [Comp -> Seq(Node)]
    /\ sched \in [Comp -> Seq(Frame)]
    /\ act \in [Comp -> SUBSET Activation]
    /\ pc \in [Comp -> MainPc]
    /\ work \in [Comp -> Node \cup {NoNode}]
    /\ link \in [Comp -> Nat]
    /\ tp \in [Comp -> Nat]
    /\ count \in [Comp -> Int]

DataTypeOK ==
    /\ tpNet \subseteq TpMsg
    /\ workNet \subseteq WorkMsg
    /\ finiNet \subseteq FiniMsg
    /\ published \subseteq Obj \X Nat
    /\ xfer \in [Comp -> [SubNode -> XferState]]
    /\ ran \in [Comp -> SUBSET Node]

TypeOK == DbTypeOK /\ ThreadTypeOK /\ DataTypeOK

Init ==
    /\ realized = [c \in Comp |-> {}]
    /\ pending = [c \in Comp |-> {}]
    /\ subs = [c \in Comp |-> [e \in Entry |-> <<>>]]
    /\ deps = [c \in Comp |-> [n \in Waiter |-> 0]]
    /\ pass = [c \in Comp |-> [o \in Obj |-> 0]]
    /\ wq = [c \in Comp |-> <<>>]
    /\ sched = [c \in Comp |-> <<>>]
    /\ act = [c \in Comp |-> {}]
    /\ pc = [c \in Comp |-> "app"]
    /\ work = [c \in Comp |-> NoNode]
    /\ link = [c \in Comp |-> 0]
    /\ tp = [c \in Comp |-> 0]
    /\ count = [c \in Comp |-> Cardinality(Comp)]
    /\ tpNet = {} /\ workNet = {} /\ finiNet = {}
    /\ published = {}
    /\ xfer = [c \in Comp |-> [n \in SubNode |-> "none"]]
    /\ ran = [c \in Comp |-> {}]

-----------------------------------------------------------------------------
(***************************************************************************)
(* Locks, queue and database primitives.                                   *)
(***************************************************************************)

LockFree(c) == sched[c] = <<>>

ObjectRealized(c, o) == <<o, 0>> \in realized[c]

\* benesh_make_active links a node in at the head and touches no prev pointer
\* but the old head's.  Queueing a node that is in the queue already
\* therefore makes it the last one that deque_work can reach: what was
\* queued after it is lost.
MakeActive(q, n) ==
    IF n \in Range(q)
      THEN SubSeq(q, 1, CHOOSE i \in DOMAIN q : q[i] = n)
      ELSE Append(q, n)

\* ABT_cond_signal(work_cond): the main thread is the only one that waits.
Signal(c) == pc' = [pc EXCEPT ![c] = IF @ = "wait" THEN "loop" ELSE @]

\* sub_target: node n waits for entry e too.
SubTarget(c, e, n) ==
    /\ subs' = [subs EXCEPT ![c][e] = Append(@, [node |-> n, done |-> FALSE])]
    /\ deps' = [deps EXCEPT ![c][n] = @ + 1]

\* handle_sub for the SUB subrules of the chain that starts at k: dspaces_sub.
Subscribe(c, o, k, p) ==
    xfer' = [xfer EXCEPT ![c] = [n \in SubNode |->
                IF /\ n.obj = o /\ n.pass = p /\ n.at >= k
                   /\ \A j \in k .. n.at : Mine(c, o, j)
                  THEN "wait" ELSE @[n]]]

-----------------------------------------------------------------------------
(***************************************************************************)
(* The call stack of schedule_target.                                      *)
(***************************************************************************)

Top(c) == Last(sched[c])

NewFrame(o) == [obj |-> o, pc |-> "claim", i |-> 1, met |-> TRUE]

SetTop(c, f) == sched' = [sched EXCEPT ![c] = Append(Front(@), f)]

\* schedule_target returns "not realized": its caller subscribes to the
\* object; the outermost call signals the main thread and unlocks.
Return(c) ==
    IF Len(sched[c]) = 1
      THEN /\ sched' = [sched EXCEPT ![c] = <<>>]
           /\ Signal(c)
      ELSE /\ LET caller == Front(sched[c])
              IN  sched' = [sched EXCEPT ![c] =
                      Append(Front(caller), [Last(caller) EXCEPT !.pc = "sub"])]
           /\ UNCHANGED pc

\* The frame of a target whose first i dependencies have been dealt with.
AfterDeps(f, i, met) ==
    [f EXCEPT !.pc = IF i < Len(Deps[f.obj]) THEN "deps" ELSE "rules",
              !.i = IF i < Len(Deps[f.obj]) THEN i + 1 ELSE 1,
              !.met = met]

\* No chain of c is left to schedule from subrule i of the procedure on.
NoChainFrom(c, o, i) == \A k \in Steps(o) : k >= i => ~ChainStart(c, o, k)

\* The entry a chain that starts at k waits for.
ChainEntry(o, k) == <<o, IF k = 1 THEN -1 ELSE k - 1>>

-----------------------------------------------------------------------------
(***************************************************************************)
(* activate_subs: what a call still has to do.                             *)
(***************************************************************************)

\* The subscriptions the call a still has to count down.
Open(c, a) ==
    LET s == subs[c][<<a.obj, a.at>>]
    IN  {i \in DOMAIN s : i >= a.pos /\ ~s[i].done}

\* Those among them that are their node's last unmet dependency.
Due(c, a) ==
    {i \in Open(c, a) : deps[c][subs[c][<<a.obj, a.at>>][i].node] = 1}

CountDown(c, a, positions) ==
    deps' = [deps EXCEPT ![c] = [n \in Waiter |->
        IF \E i \in positions : subs[c][<<a.obj, a.at>>][i].node = n
          THEN @[n] - 1 ELSE @[n]]]

\* activate_subs on behalf of the node in hand.
StartActivation(c) ==
    /\ act' = [act EXCEPT ![c] = @ \cup
                   {NewActivation("main", c, work[c].obj, work[c].at,
                                  work[c].pass)}]
    /\ pc' = [pc EXCEPT ![c] = "activate"]

-----------------------------------------------------------------------------
(***************************************************************************)
(* The node the main thread works on.                                      *)
(***************************************************************************)

\* The subrule in hand: a RULE node's own, or the link a chain has got to.
Current(c) == IF work[c].kind = "chain" THEN link[c] ELSE work[c].at

CurrentRule(c) == RuleNode(work[c].obj, Current(c), work[c].pass)

CurrentType(c) == Proc[work[c].obj][Current(c)].type

\* handle_work calls handle_subrule for a RULE node and for every link of a
\* chain but the last.
AtSubrule(c) ==
    /\ pc[c] = "handle"
    /\ \/ work[c].kind = "rule"
       \/ /\ work[c].kind = "chain"
          /\ ~ChainEnd(c, work[c].obj, link[c])

=============================================================================
