------------------------------ MODULE Matching ------------------------------
(***************************************************************************)
(* From the rules of a configuration to the objects module Engine works    *)
(* on: how a touchpoint's name is matched to a touchpoint rule             *)
(* (match_rule), its target and the dependencies of each target resolved   *)
(* to concrete names (resolve_obj), and a concrete name matched to the     *)
(* target rule and the values of the pattern variables under which the     *)
(* object database keeps it (find_target_rule).                            *)
(*                                                                         *)
(* schedule_target's recursion is the stack of the names still to be       *)
(* visited, in the database of one component; when what is realized is     *)
(* module Engine's.                                                        *)
(***************************************************************************)
EXTENDS Config, FiniteSets

CONSTANT
    Files       \* configuration files: their blocks and, for each component,
                \* the touchpoints its program signals

\* Where the variables of a pattern are, and which they are.
LocsOf(pattern) == Ascending({i \in DOMAIN pattern : pattern[i][1] = "var"}, Len(pattern))
VarsOf(pattern) == [j \in DOMAIN LocsOf(pattern) |-> pattern[LocsOf(pattern)[j]][2]]

Mentioned(pattern) ==
    {pattern[i][2] : i \in {k \in DOMAIN pattern : ~Literal(pattern[k])}}

RangeOf(f) == {f[x] : x \in DOMAIN f}

\* benesh_load_config and the loops over the kinds of blocks that fill the
\* engine's tables.
Loaded(file) ==
    LET list == Parse(file.blocks, Len(file.blocks))
    IN  [tgts    |-> GetAll(list, "tgtrule"),
         tprules |-> GetAll(list, "tprule"),
         dmaps   |-> GetAll(list, "dmap"),
         members |-> [c \in {list[i].name : i \in {j \in DOMAIN list : list[j].kind = "comp"}} |->
                        Members(list, c)],
         paths   |-> UNION {list[i].paths : i \in {j \in DOMAIN list : list[j].kind = "dom"}},
         signals |-> file.signals]

\* No part of a name is an expression, for which the tables of rules have a null
\* pointer instead of a token.
NoExpression(name) == \A k \in DOMAIN name : name[k][1] # "expr"

IsSequence(s) == Len(s) \in Nat /\ s = [i \in 1 .. Len(s) |-> s[i]]

\* The component of a touchpoint rule is declared before it, where the parser
\* would follow a null pointer, and it has one target at most.  A domain is
\* assigned to a component's variable, where loading the tables would follow
\* one.  The names of rules, of both kinds, have no expressions, where matching
\* (match_rule, match_target_rule_fq) would follow one.  The variables of a dependency occur in its target's name, those of a
\* touchpoint rule's target in the touchpoint, there once each: resolve_obj
\* and match_rule leave the others without a value.
WellMade(b, before) ==
    /\ b.kind = "tprule" =>
          /\ Named(before, "comp", b.comp)
          /\ NoExpression(b.rule)
          /\ Len(b.tgts) <= 1
          /\ \A j \in DOMAIN b.tgts : Mentioned(b.tgts[j]) \subseteq RangeOf(VarsOf(b.rule))
          /\ Len(VarsOf(b.rule)) = Cardinality(RangeOf(VarsOf(b.rule)))
    /\ b.kind = "tgtrule" =>
          /\ NoExpression(b.name)
          /\ \A d \in DOMAIN b.deps : Mentioned(b.deps[d]) \subseteq RangeOf(VarsOf(b.name))
    /\ b.kind = "dmap" => Len(b.obj) = 2

\* Files are sequences of blocks, and touchpoints are signalled by names
\* without variables.
ASSUME FilesAssumption ==
    \A f \in DOMAIN Files :
        LET blocks  == Files[f].blocks
            signals == Files[f].signals
        IN  /\ IsSequence(blocks)
            /\ \A i \in DOMAIN blocks : IsBlock(blocks[i])
            /\ \A c \in DOMAIN signals : signals[c] \in Seq(Seq(Concrete))
            /\ \A i \in DOMAIN blocks : WellMade(blocks[i], Parse(blocks, i - 1))

\* atoi: what is no number reads as 0.
ValueOf(token) == IF token[1] = "num" THEN token[2] ELSE 0

ValuesAt(name, locs) == [j \in DOMAIN locs |-> ValueOf(name[locs[j]])]

-----------------------------------------------------------------------------
\* resolve_obj, with benesh_get_ipqx_val for the expressions.

IndexOf(vars, v) == FirstOf({j \in DOMAIN vars : vars[j] = v})
Mapped(vars, vals, v) == vals[IndexOf(vars, v)]

\* Faulty variants, which nothing uses, of definitions below: an expression
\* without its offset (PqxVal), a match that looks at the component only
\* (MatchTargetRule), and a resolution that leaves variables as they are
\* (ResolveObj).
PqxIgnored(vars, vals, p) == Mapped(vars, vals, p[2])
MatchComponent(obj, r) ==
    Len(r.name) = Len(obj) /\ (Literal(r.name[1]) => r.name[1] = obj[1])

ResolvePqxOnly(pattern, vars, vals) ==
    [i \in DOMAIN pattern |->
        IF pattern[i][1] = "expr" THEN Num(Mapped(vars, vals, pattern[i][2]) + pattern[i][3])
        ELSE pattern[i]]

PqxVal(vars, vals, p) == Mapped(vars, vals, p[2]) + p[3]

ResolveObj(pattern, vars, vals) ==
    [i \in DOMAIN pattern |->
        IF Literal(pattern[i]) THEN pattern[i]
        ELSE IF pattern[i][1] = "var" THEN Num(Mapped(vars, vals, pattern[i][2]))
        ELSE Num(PqxVal(vars, vals, pattern[i]))]

\* match_target_rule_fq: what a rule's name has that is not literal is a variable.
MatchTargetRule(obj, r) ==
    /\ Len(r.name) = Len(obj)
    /\ \A i \in DOMAIN obj : Literal(r.name[i]) => r.name[i] = obj[i]

\* Faulty variants, which nothing uses: searches that leave the first or the
\* last rule out (Matches), and one that takes the last match
\* (FindTargetRule).
MatchesButFirst(tgts, obj) ==
    {n \in 2 .. Len(tgts) : MatchTargetRule(obj, tgts[n])}
MatchesButLast(tgts, obj) ==
    {n \in 1 .. Len(tgts) - 1 : MatchTargetRule(obj, tgts[n])}
FindLast(tgts, obj) ==
    CHOOSE n \in DOMAIN tgts :
        /\ MatchTargetRule(obj, tgts[n])
        /\ \A m \in n + 1 .. Len(tgts) : ~MatchTargetRule(obj, tgts[m])

Matches(tgts, obj) == {n \in DOMAIN tgts : MatchTargetRule(obj, tgts[n])}

\* find_target_rule: the first rule that matches, in the order of the file.
FindTargetRule(tgts, obj) == FirstOf(Matches(tgts, obj))

\* The place of an object in the database: its rule and the values of the
\* rule's variables.
EntryOf(tgts, obj) ==
    LET n == FindTargetRule(tgts, obj)
    IN  [rule |-> n, vals |-> ValuesAt(obj, LocsOf(tgts[n].name))]

\* match_rule, for a touchpoint that component c signals.
MatchRule(r, c, tpoint) ==
    /\ r.comp = c
    /\ Len(r.rule) = Len(tpoint)
    /\ \A i \in DOMAIN tpoint : Literal(r.rule[i]) => r.rule[i] = tpoint[i]

\* What the targets of a touchpoint rule, and the dependencies of an entry,
\* are called.
TargetsOf(r, vals) ==
    [j \in DOMAIN r.tgts |-> ResolveObj(r.tgts[j], VarsOf(r.rule), vals)]
DepsOf(tgts, e) ==
    LET r == tgts[e.rule]
    IN  [d \in DOMAIN r.deps |-> ResolveObj(r.deps[d], VarsOf(r.name), e.vals)]

-----------------------------------------------------------------------------
VARIABLES
    file,       \* the configuration file the components were started with
    conf,       \* the tables made of it
    passed,     \* passed[c]: the touchpoints component c has signalled
    told,       \* touchpoints announced, as rule and values
    todo,       \* names schedule_target is still to be called with, in order
    names       \* names[e]: the names under which entry e was scheduled

vars == <<file, conf, passed, told, todo, names>>

TypeOK ==
    /\ \A c \in DOMAIN conf.signals : passed[c] \in 0 .. Len(conf.signals[c])
    /\ \A msg \in told : msg.rule \in DOMAIN conf.tprules
    /\ \A e \in DOMAIN names : e.rule \in DOMAIN conf.tgts
    /\ \A obj \in RangeOf(todo) : \A i \in DOMAIN obj : Literal(obj[i])

Init ==
    /\ \E f \in DOMAIN Files : file = Files[f] /\ conf = Loaded(Files[f])
    /\ passed = [c \in DOMAIN conf.signals |-> 0]
    /\ told = {} /\ todo = <<>> /\ names = <<>>

\* benesh_tpoint: the first rule of this component that matches; a touchpoint
\* without one is not announced.
BeneshTpoint(c) ==
    /\ passed[c] < Len(conf.signals[c])
    /\ passed' = [passed EXCEPT ![c] = @ + 1]
    /\ LET tpoint  == conf.signals[c][passed[c] + 1]
           matched == {n \in DOMAIN conf.tprules :
                          MatchRule(conf.tprules[n], c, tpoint)}
           vals(n) == ValuesAt(tpoint, LocsOf(conf.tprules[n].rule))
       IN  told' = IF matched = {} THEN told
                   ELSE told \cup {[rule |-> FirstOf(matched),
                                    vals |-> vals(FirstOf(matched))]}
    /\ UNCHANGED <<file, conf, todo, names>>

\* tpoint_watch, which holds work_mutex while it schedules.
TpointWatch(msg) ==
    /\ todo = <<>>
    /\ told' = told \ {msg}
    /\ todo' = TargetsOf(conf.tprules[msg.rule], msg.vals)
    /\ UNCHANGED <<file, conf, passed, names>>

\* schedule_target: the dependencies of an entry that is new are scheduled
\* in turn, before what is left of the caller's.
ScheduleTarget ==
    /\ todo # <<>> /\ Matches(conf.tgts, Head(todo)) # {}
    /\ LET obj == Head(todo)
           e   == EntryOf(conf.tgts, obj)
       IN  IF e \in DOMAIN names
           THEN /\ names' = [names EXCEPT ![e] = @ \cup {obj}]
                /\ todo' = Tail(todo)
           ELSE /\ names' = [x \in DOMAIN names \cup {e} |->
                                IF x = e THEN {obj} ELSE names[x]]
                /\ todo' = DepsOf(conf.tgts, e) \o Tail(todo)
    /\ UNCHANGED <<file, conf, passed, told>>

Next ==
    \/ \E c \in DOMAIN conf.signals : BeneshTpoint(c)
    \/ \E msg \in told : TpointWatch(msg)
    \/ ScheduleTarget

Spec == Init /\ [][Next]_vars

-----------------------------------------------------------------------------
(***************************************************************************)
(* Conditions on files that nothing in the code checks.  Theorems about    *)
(* all files have them as hypotheses.                                      *)
(***************************************************************************)

\* Two rules that print alike are patterns for the same names: where one has
\* a variable, the other has not an identifier spelled like it.
PrintedApart ==
    \A f \in DOMAIN Files :
        LET blocks == Files[f].blocks
            alike(p, q) == \A k \in DOMAIN p : Literal(p[k]) <=> Literal(q[k])
        IN  \A i, j \in DOMAIN blocks :
                blocks[i].kind = blocks[j].kind =>
                    /\ blocks[i].kind = "tgtrule" /\ Key(blocks[i]) = Key(blocks[j]) =>
                          alike(blocks[i].name, blocks[j].name)
                    /\ blocks[i].kind = "tprule" /\ Key(blocks[i]) = Key(blocks[j]) =>
                          alike(blocks[i].rule, blocks[j].rule)

\* The names of objects that a block has.
NamesOf(b) ==
    CASE b.kind = "tgtrule" -> {b.name} \cup RangeOf(b.deps)
      [] b.kind = "tprule" -> RangeOf(b.tgts)
      [] OTHER -> {}

\* Names of the same length have identifiers at the same places, so that a
\* variable only ever stands for a number.
NumbersOnly ==
    \A f \in DOMAIN Files :
        LET blocks == Files[f].blocks
            alike(p, q) == \A k \in DOMAIN p : p[k][1] = "id" <=> q[k][1] = "id"
        IN  \A i, j \in DOMAIN blocks :
                \A p \in NamesOf(blocks[i]), q \in NamesOf(blocks[j]) :
                    Len(p) = Len(q) => alike(p, q)

\* Each touchpoint rule has a target, which can be a variable of what is
\* declared before it, and no touchpoint is signalled that two rules are
\* written for.
TouchpointsClear ==
    \A f \in DOMAIN Files :
        LET blocks  == Files[f].blocks
            signals == Files[f].signals
            meant(b, c, tpoint) == b.kind = "tprule" /\ MatchRule(b, c, tpoint)
        IN  /\ \A i \in DOMAIN blocks :
                  blocks[i].kind = "tprule" =>
                      /\ Len(blocks[i].tgts) = 1
                      /\ CheckUnity(Parse(blocks, i - 1), blocks[i].tgts[1])
            /\ \A c \in DOMAIN signals : \A n \in DOMAIN signals[c] :
                  \A i, j \in DOMAIN blocks :
                      meant(blocks[i], c, signals[c][n]) /\ meant(blocks[j], c, signals[c][n])
                          => i = j

\* Where a variable of a pattern first occurs.
PlaceOf(pattern, v) == LocsOf(pattern)[IndexOf(VarsOf(pattern), v)]

\* q matches the names that p matches and that have number x at place l.
MatchesWith(q, p, l, x) ==
    /\ Len(q) = Len(p)
    /\ \A k \in DOMAIN q : Literal(q[k]) => q[k] = IF k = l THEN Num(x) ELSE p[k]

\* Only the expressions of dependencies count down; where one would count
\* below 0, a rule for just that number comes before the one with the
\* variable.
BasesFirst ==
    \A f \in DOMAIN Files :
        LET blocks  == Files[f].blocks
            signals == Files[f].signals
            tgts    == Loaded(Files[f]).tgts
        IN  /\ \A c \in DOMAIN signals : \A n \in DOMAIN signals[c] :
                  \A k \in DOMAIN signals[c][n] : ValueOf(signals[c][n][k]) >= 0
            /\ \A i \in DOMAIN blocks : \A p \in NamesOf(blocks[i]) : \A k \in DOMAIN p :
                  /\ ValueOf(p[k]) >= 0
                  /\ blocks[i].kind = "tprule" /\ p[k][1] = "expr" => p[k][3] >= 0
            /\ \A n \in DOMAIN tgts : \A d \in DOMAIN tgts[n].deps :
                  LET p == tgts[n].deps[d]
                  IN  \A k \in DOMAIN p :
                          p[k][1] = "expr" =>
                              \A x \in 0 .. -p[k][3] - 1 : \E m \in 1 .. n - 1 :
                                  MatchesWith(tgts[m].name, tgts[n].name,
                                              PlaceOf(tgts[n].name, p[k][2]), x)

\* The last part of a name is its version.  By how much that of a dependency
\* p is above that of the rule's target q, at most:
Ahead(p, q) ==
    LET last == p[Len(p)]
    IN  IF Literal(last) THEN ValueOf(last) - ValueOf(q[Len(q)])
        ELSE IF last[1] = "expr" THEN last[3] ELSE 0

\* The rules have ranks by which each dependency comes before its target: a
\* version counts scale, rule n of the table rank[f][n].
Ranked(scale, rank) ==
    \A f \in DOMAIN Files :
        LET tgts == Loaded(Files[f]).tgts
            mayMatch(q, p) ==
                /\ Len(q) = Len(p)
                /\ \A k \in DOMAIN q : Literal(q[k]) /\ Literal(p[k]) => q[k] = p[k]
        IN  \A n \in DOMAIN tgts :
                /\ rank[f][n] \in Nat /\ tgts[n].name # <<>>
                /\ \A d \in DOMAIN tgts[n].deps, m \in DOMAIN tgts :
                      LET p == tgts[n].deps[d]
                          q == tgts[n].name
                      IN  mayMatch(tgts[m].name, p) =>
                              /\ Literal(p[Len(p)]) \/ PlaceOf(q, p[Len(p)][2]) = Len(q)
                              /\ scale * Ahead(p, q) + rank[f][m] < rank[f][n]

\* Whatever a name of the file's blocks is resolved to, a rule of the table
\* matches it: the rule has no identifier or number that the name has not.
Covering(f) ==
    \A i \in DOMAIN f.blocks : \A p \in NamesOf(f.blocks[i]) :
        \E n \in DOMAIN Loaded(f).tgts :
            LET q == Loaded(f).tgts[n].name
            IN  Len(q) = Len(p) /\ \A k \in DOMAIN q : Literal(q[k]) => q[k] = p[k]

-----------------------------------------------------------------------------
\* No name is scheduled that no rule matches: find_target_rule would return
\* NULL, which schedule_target does not expect.
AllMatched == \A s \in DOMAIN todo : Matches(conf.tgts, todo[s]) # {}

\* An entry of the database stands for one object: names that differ differ
\* in their rule or in their values, whichever rule and whichever dependency
\* or touchpoint they come from.
OneNamePerEntry == \A e \in DOMAIN names : Cardinality(names[e]) = 1

\* The recursion of schedule_target ends: a dependency on the previous version
\* of an object leads to the rule without variables that is written first, and
\* to no version before it.
EndsAtBase == \A e \in DOMAIN names : \A j \in DOMAIN e.vals : e.vals[j] >= 0

\* What of S can be built up, each after the members of S that it needs.
BuiltUp(S, needs) ==
    LET built[n \in 0 .. Cardinality(S)] ==
            IF n = 0 THEN {}
            ELSE LET before == built[n - 1]
                 IN  {e \in S : needs[e] \cap S \subseteq before}
    IN  built[Cardinality(S)]

\* No object waits for itself: what is scheduled can be built up from objects
\* without dependencies, whichever touchpoints led to it.
Grounded ==
    LET needs == [e \in DOMAIN names |->
                     {EntryOf(conf.tgts, obj) : obj \in RangeOf(DepsOf(conf.tgts, e))}]
    IN  todo = <<>> => BuiltUp(DOMAIN names, needs) = DOMAIN names

\* The rules of a file's target blocks are tried in the order in which they
\* are written, whatever the parser drops between them, unless the file ends
\* with such a block.
FirstWritten ==
    LET written == {i \in DOMAIN file.blocks : file.blocks[i].kind = "tgtrule"}
        matching(obj) == {i \in written : MatchTargetRule(obj, file.blocks[i])}
    IN  Len(file.blocks) \notin written =>
            \A e \in DOMAIN names : \A obj \in names[e] :
                conf.tgts[e.rule] = file.blocks[FirstOf(matching(obj))]

\* A touchpoint that was signalled leads to what the file says for it: once
\* nothing is under way, the target written for it has been scheduled.
TouchpointsCount ==
    LET written(c, tpoint) ==
            {i \in DOMAIN file.blocks :
                file.blocks[i].kind = "tprule" /\ MatchRule(file.blocks[i], c, tpoint)}
        obj(b, tpoint) == TargetsOf(b, ValuesAt(tpoint, LocsOf(b.rule)))[1]
    IN  told = {} /\ todo = <<>> =>
            \A c \in DOMAIN passed : \A n \in 1 .. passed[c] :
                LET tpoint == conf.signals[c][n]
                IN  written(c, tpoint) # {} =>
                        obj(file.blocks[FirstOf(written(c, tpoint))], tpoint)
                            \in UNION RangeOf(names)

\* Every domain assignment that is kept, in whichever order the file declares
\* things, leads to a variable and a domain of the tables: loading them
\* follows no null pointer.
AssignmentsLead ==
    \A i \in DOMAIN conf.dmaps :
        LET comp == conf.dmaps[i].obj[1][2]
            var  == conf.dmaps[i].obj[2][2]
        IN  /\ comp \in DOMAIN conf.members /\ var \in conf.members[comp]
            /\ conf.dmaps[i].dom \in conf.paths

=============================================================================
