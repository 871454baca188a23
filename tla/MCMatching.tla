----------------------------- MODULE MCMatching -----------------------------
(***************************************************************************)
(* The configurations of the repository's tests, without their procedures, *)
(* for module Matching: the heat equation's heateq2d.xc,                   *)
(* heateq2d_lockstep.xc and heateq2d_async.xc, whose program signals ts.1, *)
(* ts.2 and so on, redev.xc and smoke.xc; a file with a rule twice and     *)
(* lines the parser drops, and one small file's blocks in every order.     *)
(***************************************************************************)
EXTENDS Matching, Functions

CONSTANT Steps

Of(comp, var, t) == <<Id(comp), Id(var), t>>
Left(var, t) == Of("Left", var, t)
Right(var, t) == Of("Right", var, t)

T == PqVar("t")
Before == Pqx("t", -1)
After == Pqx("t", 1)

Signals(comps, tpoint(_)) == [c \in comps |-> [n \in 1 .. Steps |-> tpoint(n)]]

Heat ==
    <<Interface("heateq", {"u", "du"}),
      Domain("Global", {<<"Global", "LeftSide">>, <<"Global", "RightSide">>}),
      Component("Left", "heateq"), Component("Right", "heateq"),
      Assign(Obj(<<"Left", "u">>), <<"Global", "LeftSide">>),
      Assign(Obj(<<"Left", "du">>), <<"Global", "LeftSide">>),
      Assign(Obj(<<"Right", "u">>), <<"Global", "RightSide">>),
      Assign(Obj(<<"Right", "du">>), <<"Global", "RightSide">>),
      Variable("real", "dt")>>

HeatTouch ==
    <<Touchpoint("Left", <<Id("ts"), T>>, <<Left("u", T)>>),
      Touchpoint("Right", <<Id("ts"), T>>, <<Right("u", T)>>)>>

HeatSignals == Signals({"Left", "Right"}, LAMBDA n : <<Id("ts"), Num(n)>>)

HeatFile(tgts) == [blocks |-> Heat \o tgts \o HeatTouch, signals |-> HeatSignals]

Async == HeatFile(
    <<Target(Left("u", Num(0)), <<>>),
      Target(Left("u", T), <<Left("u", Before), Left("du", Before)>>),
      Target(Left("tr", T), <<Left("u", T), Right("u", T)>>),
      Target(Left("du", T), <<Left("tr", T), Right("tr", T)>>),
      Target(Right("u", Num(0)), <<>>),
      Target(Right("u", T), <<Right("u", Before), Right("du", Before)>>),
      Target(Right("tr", T), <<Left("u", T), Right("u", T)>>),
      Target(Right("du", T), <<Left("tr", T), Right("tr", T)>>)>>)

Lockstep == HeatFile(
    <<Target(Left("u", Num(0)), <<>>),
      Target(Left("u", T), <<Left("u", Before), Left("du", Before)>>),
      Target(Left("du", T), <<Left("u", T), Right("u", T)>>),
      Target(Right("u", Num(0)), <<>>),
      Target(Right("du", T), <<Left("u", After), Right("u", T)>>),
      Target(Right("u", T), <<Right("u", Before), Right("du", Before)>>)>>)

\* The rules of versions n, as heateq2d.xc spells them out one by one.
LeftSpelled(n) ==
    <<Target(Left("u", Num(n)), <<Left("u", Num(n - 1)), Left("du", Num(n - 1))>>),
      Target(Left("du", Num(n)), <<Left("u", Num(n)), Right("u", Num(n))>>)>>

RightSpelled(n) ==
    <<Target(Right("du", Num(n)), <<Left("u", Num(n)), Right("u", Num(n - 1))>>),
      Target(Right("u", Num(n)), <<Right("u", Num(n - 1)), Right("du", Num(n))>>)>>

SpelledOut == HeatFile(
    <<Target(Left("u", Num(0)), <<>>), Target(Left("du", Num(0)), <<Left("u", Num(0))>>)>>
    \o LeftSpelled(1) \o LeftSpelled(2) \o LeftSpelled(3) \o LeftSpelled(4)
    \o <<Target(Right("u", Num(0)), <<>>)>>
    \o RightSpelled(1) \o RightSpelled(2) \o RightSpelled(3) \o RightSpelled(4))

\* Lines that are dropped: a second rule for the same object, a component
\* without an interface, an assignment to what is no variable, a type that
\* does not exist.
Dropped == HeatFile(
    <<Target(Left("u", Num(0)), <<>>),
      Component("Mid", "nothing"),
      Target(Left("u", T), <<Left("u", Before), Right("u", Before)>>),
      Assign(Obj(<<"Left", "tr">>), <<"Global", "LeftSide">>),
      Target(Right("u", Num(0)), <<>>),
      Target(Left("u", T), <<Left("u", After)>>),
      Variable("complex", "z"),
      Target(Right("u", T), <<Left("u", T)>>)>>)

Redev ==
    [blocks |->
        <<Interface("participant", {"data"}), Interface("app", {"data"}), Domain("Global", {}),
          Component("Participant", "participant"), Component("App", "app"),
          Assign(Obj(<<"Participant", "data">>), <<"Global">>),
          Assign(Obj(<<"App", "data">>), <<"Global">>),
          Target(Of("Participant", "data", T), <<>>),
          Target(Of("App", "data", T), <<Of("Participant", "data", T)>>),
          Touchpoint("Participant", <<Id("step"), T>>, <<Of("Participant", "data", T)>>),
          Touchpoint("App", <<Id("step"), T>>, <<Of("App", "data", T)>>)>>,
     signals |-> Signals({"Participant", "App"}, LAMBDA n : <<Id("step"), Num(n)>>)]

Smoke ==
    [blocks |->
        <<Interface("simtest", {"u", "incr"}), Interface("antest", {"u", "stat"}),
          Domain("Global", {<<"Global", "LeftSide">>, <<"Global", "RightSide">>}),
          Component("Sim", "simtest"), Component("Analysis", "antest"),
          Assign(Obj(<<"Sim", "u">>), <<"Global", "LeftSide">>),
          Assign(Obj(<<"Analysis", "u">>), <<"Global", "RightSide">>),
          Variable("real", "dt"),
          Target(Of("Analysis", "u", Num(1)), <<>>),
          Target(Of("Sim", "u", T), <<>>),
          Target(Of("Analysis", "u", Num(2)), <<Of("Sim", "u", Num(1))>>),
          Touchpoint("Sim", <<Id("stage"), T, PqVar("s")>>, <<Of("Sim", "u", Num(1))>>),
          Touchpoint("Analysis", <<Id("test"), T>>, <<Of("Analysis", "u", T)>>)>>,
     signals |-> [c \in {"Sim", "Analysis"} |->
                    IF c = "Sim" THEN <<<<Id("stage"), Num(3), Num(2)>>>>
                    ELSE <<<<Id("test"), Num(1)>>, <<Id("test"), Num(2)>>>>]]

Small ==
    <<Interface("part", {"u"}), Domain("Global", {}), Component("Solo", "part"),
      Assign(Obj(<<"Solo", "u">>), <<"Global">>), Target(Of("Solo", "u", T), <<>>)>>

Orders == {f \in [DOMAIN Small -> DOMAIN Small] : IsInjective(f)}

Reordered(p) == [blocks |-> [i \in DOMAIN Small |-> Small[p[i]]], signals |-> <<>>]

Tests == <<Lockstep, Async, SpelledOut, Dropped, Redev, Smoke>>

MCFiles ==
    [f \in {<<n>> : n \in DOMAIN Tests} \cup Orders |->
        IF Len(f) = 1 THEN Tests[f[1]] ELSE Reordered(f)]

\* These files satisfy the hypotheses of the theorems about all files.
ASSUME FilesAreClear == PrintedApart /\ NumbersOnly /\ TouchpointsClear /\ BasesFirst

\* A theorem about one file has a hypothesis that those satisfy that have no
\* rule for each version.
ASSUME FilesCovering == {n \in DOMAIN Tests : Covering(Tests[n])} = {1, 2, 4, 5}

\* Ranks for these files' rules.  In all but heateq2d.xc a Right.du needs the
\* next version of Left.u, and none of its own version needs it.
RankIn(blocks, name) ==
    CASE name[2] = Id("u") /\ name[1] = Id("Right") -> 2
      [] name[2] = Id("data") /\ name[1] = Id("App") -> 2
      [] name[2] = Id("tr") -> 3
      [] name[2] = Id("du") /\ name[1] = Id("Left") -> 4
      [] name[2] = Id("du") /\ name[1] = Id("Right") ->
            IF blocks = SpelledOut.blocks THEN 1 ELSE 9
      [] OTHER -> 0

ASSUME FilesRanked ==
    Ranked(8, [f \in DOMAIN Files |->
                  LET tgts == Loaded(Files[f]).tgts
                  IN  [n \in DOMAIN tgts |-> RankIn(Files[f].blocks, tgts[n].name)]])

=============================================================================
