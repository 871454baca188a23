------------------------------- MODULE Rules -------------------------------
(***************************************************************************)
(* The workflow a configuration (.xc) file describes, after every pattern  *)
(* variable has been given a value: an Obj is one concrete object, such as *)
(* Left.u.3, that benesh.c identifies by a target rule and its var_maps.   *)
(***************************************************************************)
EXTENDS Integers, Sequences

CONSTANTS
    Comp,   \* the coupled components, one rank each (struct wf_component)
    Obj,    \* the concrete objects (a struct wf_target with its var_maps)
    Deps,   \* Deps[o]: the objects o depends on, in the order written
    Proc,   \* Proc[o]: the subrules of o's procedure (struct sub_rule)
    Touch   \* Touch[c]: the targets of the touchpoints c signals, in order

\* struct sub_rule: its type and the component that runs it.
Subrule == [type : {"asg", "pub", "sub", "mth"}, comp : Comp]

ASSUME DepsAssumption ==
    /\ Deps \in [Obj -> Seq(Obj)]
    /\ \A o \in Obj : \A i, j \in DOMAIN Deps[o] :
           i # j => Deps[o][i] # Deps[o][j]

ASSUME ProcAssumption == Proc \in [Obj -> Seq(Subrule)]

\* benesh_load_targets expands one transfer into a publish and a subscribe.
ASSUME TransferAssumption ==
    \A o \in Obj : \A k \in DOMAIN Proc[o] :
        /\ Proc[o][k].type = "pub" =>
               k < Len(Proc[o]) /\ Proc[o][k + 1].type = "sub"
        /\ Proc[o][k].type = "sub" =>
               k > 1 /\ Proc[o][k - 1].type = "pub"

ASSUME TouchAssumption == Touch \in [Comp -> Seq(Obj)]

-----------------------------------------------------------------------------

\* Subrules are numbered from 1; entry 0 of an object is its realization.
Steps(o) == 1 .. Len(Proc[o])

\* A component takes every assignment for its own; the other subrules name
\* the component that runs them.
Mine(c, o, k) == Proc[o][k].type = "asg" \/ Proc[o][k].comp = c

\* A chain is a maximal run of consecutive subrules of one component.
ChainStart(c, o, k) ==
    /\ k \in Steps(o)
    /\ Mine(c, o, k)
    /\ k > 1 => ~Mine(c, o, k - 1)

ChainEnd(c, o, k) == k < Len(Proc[o]) => ~Mine(c, o, k + 1)

\* The last subrule of a chain is announced when another component goes on.
Announced(c, o, k) == k < Len(Proc[o]) /\ ~Mine(c, o, k + 1)

\* The component that takes the last subrule for its own realizes the object.
Finisher(c, o) == Proc[o] # <<>> /\ Mine(c, o, Len(Proc[o]))

=============================================================================
