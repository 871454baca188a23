------------------------------ MODULE Lifecycle ------------------------------
(***************************************************************************)
(* How components come up and go down (benesh_init, benesh_fini), and what *)
(* their EKT handlers do meanwhile: before the configuration is loaded,    *)
(* while others are waited for, and after the library has been left.       *)
(* Engine begins when all of this module's components are up, and knows    *)
(* nothing of components that have not met.                                *)
(*                                                                         *)
(* A component is known by its place in the configuration file, that is in *)
(* bnh->comps.  Of the workflow, it matters here only whose work a         *)
(* touchpoint waits for.                                                   *)
(***************************************************************************)
EXTENDS Integers, FiniteSets

CONSTANTS
    N,          \* the number of components
    Waits,      \* those that call benesh_init with wait = 1
    Needs       \* the components that signal a touchpoint -> those that have
                \* work to do for it

Comp == 1 .. N

ASSUME NAssumption == N \in Nat \ {0}
ASSUME WaitsAssumption == Waits \subseteq Comp
ASSUME NeedsAssumption ==
    /\ DOMAIN Needs \subseteq Comp
    /\ \A c \in DOMAIN Needs : Needs[c] \subseteq Comp \ {c}

VARIABLES
    phase,      \* where the main thread of each component is
    pos,        \* i, in the loop that waits for the others
    count,      \* comp_count
    tables,     \* tph and its rules are there
    enabled,    \* ekt_enable has been called
    known,      \* EKT: whom a component's messages reach
    net,        \* messages on their way
    asleep,     \* handlers that wait for bnh->ready
    todo,       \* the components for whose touchpoint there is work
    got         \* the components that have announced theirs

vars == <<phase, pos, count, tables, enabled, known, net, asleep, todo, got>>

mainVars == <<phase, pos, tables, enabled>>

Before == {"new", "loaded", "linking"}              \* bnh->ready is 0
Using == {"ready", "touchpoint", "returned"}        \* the application's code
Loop == {"fini"}                                    \* in benesh_fini's loop
After == {"closing", "down"}

TpMsg == [kind : {"tpoint"}, from : Comp, to : Comp]
WorkMsg == [kind : {"work"}, from : Comp, for : Comp, to : Comp]
FiniMsg == [kind : {"fini"}, from : Comp, to : Comp]

Msg == TpMsg \cup WorkMsg \cup FiniMsg

TypeOK ==
    /\ phase \in [Comp -> Before \cup Using \cup Loop \cup After]
    /\ pos \in [Comp -> 1 .. N + 1]
    /\ count \in [Comp -> 0 .. N]
    /\ tables \in [Comp -> BOOLEAN]
    /\ enabled \in [Comp -> BOOLEAN]
    /\ known \in [Comp -> SUBSET Comp]
    /\ net \subseteq Msg
    /\ asleep \in [Comp -> SUBSET (TpMsg \cup WorkMsg)]
    /\ todo \in [Comp -> SUBSET Comp]
    /\ got \in [Comp -> SUBSET Comp]

Init ==
    /\ phase = [c \in Comp |-> "new"]
    /\ pos = [c \in Comp |-> 1]
    /\ count = [c \in Comp |-> 0]
    /\ tables = [c \in Comp |-> FALSE]
    /\ enabled = [c \in Comp |-> FALSE]
    /\ known = [c \in Comp |-> {}]
    /\ net = {}
    /\ asleep = [c \in Comp |-> {}]
    /\ todo = [c \in Comp |-> {}]
    /\ got = [c \in Comp |-> {}]

Goto(c, p) == phase' = [phase EXCEPT ![c] = p]

\* ekt_tell to everybody: what is sent to those whom the sender knows.  Its own
\* handlers are called for touchpoints and fini, too; of work they would do
\* nothing, so it is left out.
TpMsgs(c) == [kind : {"tpoint"}, from : {c}, to : known[c] \cup {c}]
WorkMsgs(c, d) == [kind : {"work"}, from : {c}, for : {d}, to : known[c]]
FiniMsgs(c) == [kind : {"fini"}, from : {c}, to : known[c] \cup {c}]

-----------------------------------------------------------------------------
(***************************************************************************)
(* The handlers.                                                           *)
(***************************************************************************)

\* margo_init gives a component one thread for its handlers, and a handler
\* that waits for bnh->ready sleeps on it.
Threads == 1

CanHandle(c) ==
    /\ enabled[c] /\ phase[c] # "down"
    /\ Cardinality(asleep[c]) < Threads

\* EKT: c hears of d.  For c, they can now talk.
Meet(c, d) ==
    /\ CanHandle(c) /\ enabled[d] /\ phase[d] # "down"
    /\ c # d /\ d \notin known[c]
    /\ known' = [known EXCEPT ![c] = @ \cup {d}]
    /\ UNCHANGED <<mainVars, count, net, asleep, todo, got>>

\* tpoint_watch and work_watch before c is ready.
Sleep(c, m) ==
    /\ CanHandle(c) /\ phase[c] \in Before
    /\ m \in net /\ m.to = c /\ m.kind # "fini"
    /\ net' = net \ {m}
    /\ asleep' = [asleep EXCEPT ![c] = @ \cup {m}]
    /\ UNCHANGED <<mainVars, count, known, todo, got>>

\* The two handlers as soon as c is ready.
Handle(c, m) ==
    /\ phase[c] \notin Before \cup {"down"}
    /\ \/ m \in asleep[c]
       \/ CanHandle(c) /\ m \in net /\ m.to = c /\ m.kind # "fini"
    /\ net' = net \ {m}
    /\ asleep' = [asleep EXCEPT ![c] = @ \ {m}]
    /\ todo' = IF m.kind = "tpoint" /\ c \in Needs[m.from]
                 THEN [todo EXCEPT ![c] = @ \cup {m.from}] ELSE todo
    /\ got' = IF m.kind = "work" /\ m.for = c
                THEN [got EXCEPT ![c] = @ \cup {m.from}] ELSE got
    /\ UNCHANGED <<mainVars, count, known>>

\* fini_watch, which does not wait.
FiniWatch(c, m) ==
    /\ CanHandle(c)
    /\ m \in net /\ m.to = c /\ m.kind = "fini"
    /\ net' = net \ {m}
    /\ count' = [count EXCEPT ![c] = @ - 1]
    /\ UNCHANGED <<mainVars, known, asleep, todo, got>>

Handlers(c) ==
    \/ \E d \in Comp : Meet(c, d)
    \/ \E m \in net : Sleep(c, m) \/ FiniWatch(c, m)
    \/ \E m \in net \cup asleep[c] : Handle(c, m)

-----------------------------------------------------------------------------
(***************************************************************************)
(* The main thread.                                                        *)
(***************************************************************************)

\* Faulty variants, which nothing uses, of definitions below: only the others
\* are counted (Load); EKT is enabled before the configuration is loaded
\* (Enable); one component's fini is not waited for (AllFini); benesh_fini does
\* not work for the others (Work).
LoadOthers(c) ==
    /\ phase[c] = "new"
    /\ count' = [count EXCEPT ![c] = N - 1]
    /\ tables' = [tables EXCEPT ![c] = TRUE]
    /\ Goto(c, "loaded")
    /\ UNCHANGED <<pos, enabled, known, net, asleep, todo, got>>

\* benesh_init up to bnsh_tpoint_init.  The handlers have been registered, but
\* nothing reaches them yet.
Load(c) ==
    /\ phase[c] = "new"
    /\ count' = [count EXCEPT ![c] = N]
    /\ tables' = [tables EXCEPT ![c] = TRUE]
    /\ Goto(c, "loaded")
    /\ UNCHANGED <<pos, enabled, known, net, asleep, todo, got>>

EnableEarly(c) ==
    /\ \/ phase[c] = "loaded"
       \/ phase[c] = "new" /\ ~enabled[c]
    /\ enabled' = [enabled EXCEPT ![c] = TRUE]
    /\ IF phase[c] = "new" THEN UNCHANGED phase ELSE Goto(c, "linking")
    /\ UNCHANGED <<pos, tables, count, known, net, asleep, todo, got>>

AllFiniButOne(c) == count[c] = 1

WorkBeforeFini(c, d) ==
    /\ phase[c] = "touchpoint" /\ d \in todo[c]
    /\ net' = net \cup WorkMsgs(c, d)
    /\ todo' = [todo EXCEPT ![c] = @ \ {d}]
    /\ UNCHANGED <<mainVars, count, known, asleep, got>>

\* ekt_enable
Enable(c) ==
    /\ phase[c] = "loaded"
    /\ enabled' = [enabled EXCEPT ![c] = TRUE]
    /\ Goto(c, "linking")
    /\ UNCHANGED <<pos, tables, count, known, net, asleep, todo, got>>

\* What ekt_is_bidi waits for; nobody waits for itself.
Linked(c, d) == c = d \/ (d \in known[c] /\ c \in known[d])

\* The loop of a component that waits for the others.
WaitForNext(c) ==
    /\ phase[c] = "linking" /\ c \in Waits /\ pos[c] <= count[c]
    /\ Linked(c, pos[c])
    /\ pos' = [pos EXCEPT ![c] = @ + 1]
    /\ UNCHANGED <<phase, tables, enabled, count, known, net, asleep, todo, got>>

\* After the loop; at once, "without waiting for other components", if wait = 0.
BecomeReady(c) ==
    /\ phase[c] = "linking" /\ (c \in Waits => pos[c] > count[c])
    /\ Goto(c, "ready")
    /\ UNCHANGED <<pos, tables, enabled, count, known, net, asleep, todo, got>>

\* benesh_tpoint announces the touchpoint ...
Tpoint(c) ==
    /\ phase[c] = "ready" /\ c \in DOMAIN Needs
    /\ net' = net \cup TpMsgs(c)
    /\ Goto(c, "touchpoint")
    /\ UNCHANGED <<pos, tables, enabled, count, known, asleep, todo, got>>

\* ... and returns when the work of the others has been heard of.
Return(c) ==
    /\ phase[c] = "touchpoint" /\ Needs[c] \subseteq got[c]
    /\ Goto(c, "returned")
    /\ UNCHANGED <<pos, tables, enabled, count, known, net, asleep, todo, got>>

\* benesh_handle_work, called from benesh_tpoint and benesh_fini
Work(c, d) ==
    /\ phase[c] \in {"touchpoint", "fini"} /\ d \in todo[c]
    /\ net' = net \cup WorkMsgs(c, d)
    /\ todo' = [todo EXCEPT ![c] = @ \ {d}]
    /\ UNCHANGED <<mainVars, count, known, asleep, got>>

\* benesh_fini
Fini(c) ==
    /\ phase[c] = IF c \in DOMAIN Needs THEN "returned" ELSE "ready"
    /\ net' = net \cup FiniMsgs(c)
    /\ Goto(c, "fini")
    /\ UNCHANGED <<pos, tables, enabled, count, known, asleep, todo, got>>

AllFini(c) == count[c] = 0

\* The loop ends, DataSpaces and the touchpoint tables go ...
Close(c) ==
    /\ phase[c] = "fini" /\ AllFini(c)
    /\ tables' = [tables EXCEPT ![c] = FALSE]
    /\ Goto(c, "closing")
    /\ UNCHANGED <<pos, enabled, count, known, net, asleep, todo, got>>

\* ... and EKT, margo and bnh.
Release(c) ==
    /\ phase[c] = "closing"
    /\ Goto(c, "down")
    /\ UNCHANGED <<pos, tables, enabled, count, known, net, asleep, todo, got>>

Main(c) ==
    \/ Load(c) \/ Enable(c) \/ WaitForNext(c) \/ BecomeReady(c)
    \/ Tpoint(c) \/ Return(c) \/ Fini(c) \/ Close(c) \/ Release(c)
    \/ \E d \in Comp : Work(c, d)

Next == \E c \in Comp : Main(c) \/ Handlers(c)

Spec == Init /\ [][Next]_vars

FairSpec == Spec /\ \A c \in Comp : WF_vars(Main(c)) /\ WF_vars(Handlers(c))

-----------------------------------------------------------------------------
(***************************************************************************)
(* Properties.                                                             *)
(***************************************************************************)

SaidFini(d) == phase[d] \in Loop \cup After

\* Whose fini c has still to hear.
Outstanding(c) ==
    {d \in Comp : ~SaidFini(d) \/ [kind |-> "fini", from |-> d, to |-> c] \in net}

\* comp_count, which init sets and fini_watch counts down whatever the main
\* thread is doing, never falls below the number of components still to come.
CountCovers == \A c \in Comp : phase[c] # "new" => Cardinality(Outstanding(c)) <= count[c]

\* Nobody lets go of the library while another component is coming up or in a
\* touchpoint: what its handlers are called for after that, nobody waits for.
NobodyLeftBehind ==
    \A c \in Comp : phase[c] \in After => \A d \in Comp : SaidFini(d)

\* tpoint_watch takes the rules from bnh->tph before it waits for bnh->ready:
\* they are there, from the first announcement that can come until benesh_fini.
RulesInPlace ==
    \A c \in Comp :
        (\E m \in net \cup asleep[c] : m.kind = "tpoint" /\ m.to = c)
            /\ enabled[c] /\ phase[c] \notin After => tables[c]

\* "waiting for bidirectional communication with other components": who is
\* ready can reach everybody, and be reached.  Nothing makes it so for one that
\* does not wait.
ReadyMeansLinked ==
    \A c \in Comp : phase[c] \notin Before => \A d \in Comp : Linked(c, d)

\* No announcement sleeps on a component's only handler thread while others
\* have yet to introduce themselves to it.
NobodyShutOut ==
    \A c \in Comp : asleep[c] # {} => Comp \ {c} \subseteq known[c]

\* Everybody comes up, through the touchpoints and down, unless a component
\* goes on before it is linked with all, as one that does not wait may, or one
\* shuts others out.  The code guarantees neither.
ComesDown ==
    []ReadyMeansLinked /\ []NobodyShutOut
        => <>(\A c \in Comp : phase[c] = "down")

=============================================================================
