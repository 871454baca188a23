------------------------------ MODULE Workflow ------------------------------
(***************************************************************************)
(* What Benesh promises of a workflow, without queues, locks or messages:  *)
(* the subrules of an object run in the order of its procedure, the first  *)
(* one only when all the object depends on exists, and an object counts as *)
(* realized, on the component that finishes it and then on those that hear *)
(* of it, only when its whole procedure has run.  Running a subrule again  *)
(* changes nothing here: at-most-once is not part of this promise.         *)
(***************************************************************************)
EXTENDS Rules

VARIABLES
    ran,    \* ran[o]: the subrules of o that some component has run
    known   \* known[c]: the objects component c holds for realized

vars == <<ran, known>>

TypeOK ==
    /\ ran \in [Obj -> SUBSET Nat]
    /\ known \in [Comp -> SUBSET Obj]

Init ==
    /\ ran = [o \in Obj |-> {}]
    /\ known = [c \in Comp |-> {}]

\* The objects realized somewhere, and those whose dependencies all are.
Made == UNION {known[c] : c \in Comp}

Ready(o) == \A i \in DOMAIN Deps[o] : Deps[o][i] \in Made

\* What has to be there before subrule k of o may run.
Startable(o, k) == IF k = 1 THEN Ready(o) ELSE k - 1 \in ran[o]

\* What has to be there before o may be realized.
Complete(o) == IF Proc[o] = <<>> THEN Ready(o) ELSE Len(Proc[o]) \in ran[o]

\* Component c runs subrule k of o: an assignment, a publication, a receipt
\* or a method call.
RunSubrule(c, o, k) ==
    /\ Mine(c, o, k)
    /\ Startable(o, k)
    /\ ran' = [ran EXCEPT ![o] = @ \cup {k}]
    /\ UNCHANGED known

\* The component of the last subrule realizes o; an object without a
\* procedure is realized by every component for itself.
Realize(c, o) ==
    /\ Proc[o] = <<>> \/ Finisher(c, o)
    /\ Complete(o)
    /\ known' = [known EXCEPT ![c] = @ \cup {o}]
    /\ UNCHANGED ran

\* Component c hears that o is realized.
Learn(c, o) ==
    /\ o \in Made
    /\ known' = [known EXCEPT ![c] = @ \cup {o}]
    /\ UNCHANGED ran

Next ==
    \E c \in Comp, o \in Obj :
        \/ \E k \in Steps(o) : RunSubrule(c, o, k)
        \/ Realize(c, o)
        \/ Learn(c, o)

Spec == Init /\ [][Next]_vars

-----------------------------------------------------------------------------

\* No subrule has run before the ones written above it, nor before all the
\* object depends on was realized (the order schedule_target and
\* schedule_subrules set up with their subscriptions).
InProcedureOrder ==
    \A o \in Obj : \A k \in ran[o] :
        /\ \A j \in 1 .. k : j \in ran[o]
        /\ Ready(o)

\* An object that any component holds for realized has been through its
\* whole procedure, and so has everything it is made from.
RealizedIsComplete ==
    \A o \in Made : Steps(o) \subseteq ran[o] /\ Ready(o)

=============================================================================
