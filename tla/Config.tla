------------------------------- MODULE Config -------------------------------
(***************************************************************************)
(* What the parser makes of a configuration file (xc.y, xc_config.c): the  *)
(* list of the blocks it keeps, in the order in which later searches go    *)
(* through it.  A file is a sequence of blocks, its lines already grouped  *)
(* by their indentation (module Indent); procedures, attributes and        *)
(* numbers other than a name's are left out.                               *)
(*                                                                         *)
(* A name is a sequence of tokens: an identifier, a number, a variable     *)
(* %{t} of a pattern or an expression %[[t+k]].                            *)
(***************************************************************************)
EXTENDS Integers, Sequences

Id(s) == <<"id", s>>
Num(n) == <<"num", n>>
PqVar(v) == <<"var", v>>
Pqx(v, k) == <<"expr", v, k>>

Literal(token) == token[1] \in {"id", "num"}

\* The tokens of names of objects, and of patterns for them.
Concrete == {"id"} \X STRING \cup {"num"} \X Int
Token == Concrete \cup {"var"} \X STRING \cup {"expr"} \X STRING \X Int

Obj(ids) == [i \in DOMAIN ids |-> Id(ids[i])]

\* The blocks of a file.  An interface has its member variables, a domain the
\* paths of the domains nested in it and its own, a touchpoint rule its
\* targets, a target rule its dependencies.
Interface(name, members) == [kind |-> "iface", name |-> name, members |-> members]
Domain(name, paths) == [kind |-> "dom", name |-> name, paths |-> paths \cup {<<name>>}]
Component(name, iface) == [kind |-> "comp", name |-> name, iface |-> iface]
Variable(type, name) == [kind |-> "var", name |-> name, type |-> type]
Assign(obj, dom) == [kind |-> "dmap", obj |-> obj, dom |-> dom]
Touchpoint(comp, rule, tgts) ==
    [kind |-> "tprule", comp |-> comp, rule |-> rule, tgts |-> tgts]
Target(name, deps) == [kind |-> "tgtrule", name |-> name, deps |-> deps]

IsBlock(b) ==
    CASE b.kind = "iface" -> b \in [kind : {"iface"}, name : STRING, members : SUBSET STRING]
      [] b.kind = "dom" -> b \in [kind : {"dom"}, name : STRING, paths : SUBSET Seq(STRING)]
      [] b.kind = "comp" -> b \in [kind : {"comp"}, name : STRING, iface : STRING]
      [] b.kind = "var" -> b \in [kind : {"var"}, name : STRING, type : STRING]
      [] b.kind = "dmap" -> b \in [kind : {"dmap"}, obj : Seq(Token), dom : Seq(STRING)]
      [] b.kind = "tprule" ->
            b \in [kind : {"tprule"}, comp : STRING, rule : Seq(Token), tgts : Seq(Seq(Token))]
      [] b.kind = "tgtrule" ->
            b \in [kind : {"tgtrule"}, name : Seq(Token), deps : Seq(Seq(Token))]
      [] OTHER -> FALSE

-----------------------------------------------------------------------------
\* The numbers from 1 to n that are in S, in order.
Ascending(S, n) ==
    LET upto[k \in 0 .. n] ==
            IF k = 0 THEN <<>>
            ELSE IF k \in S THEN Append(upto[k - 1], k) ELSE upto[k - 1]
    IN  upto[n]

\* What a sequence has at the places in S, in order.
Selection(s, S) ==
    LET at == Ascending(S, Len(s)) IN [j \in DOMAIN at |-> s[at[j]]]

FirstOf(S) == CHOOSE n \in S : \A m \in S : n <= m

-----------------------------------------------------------------------------
\* xc_obj_tostr: a variable prints as its name, an expression as nothing.
Printed(obj) ==
    [i \in DOMAIN obj |->
        CASE obj[i][1] = "var" -> Id(obj[i][2])
          [] obj[i][1] = "expr" -> Id("")
          [] OTHER -> obj[i]]

\* What xc_in_list compares in two blocks of a kind.
Key(b) ==
    CASE b.kind = "dmap" -> Printed(b.obj)
      [] b.kind = "tprule" -> <<b.comp, Printed(b.rule)>>
      [] b.kind = "tgtrule" -> Printed(b.name)
      [] OTHER -> b.name

InList(list, b) == \E i \in DOMAIN list : list[i].kind = b.kind /\ Key(list[i]) = Key(b)

\* xc_get_all
GetAll(list, kind) == Selection(list, {i \in DOMAIN list : list[i].kind = kind})

\* xc_list_search, for the kinds that are looked up by a name.
Places(list, kind, name) ==
    {i \in DOMAIN list : list[i].kind = kind /\ list[i].name = name}
Named(list, kind, name) == Places(list, kind, name) # {}
Search(list, kind, name) == list[FirstOf(Places(list, kind, name))]

\* The variables of the interface a component of the list implements.
Members(list, comp) == Search(list, "iface", Search(list, "comp", comp).iface).members

\* xc_find_obj, for names without variables or expressions.
FindVar(list, obj) ==
    \/ Len(obj) = 1 /\ Named(list, "var", obj[1][2])
    \/ /\ Len(obj) = 2 /\ Named(list, "comp", obj[1][2])
       /\ obj[2][2] \in Members(list, obj[1][2])
FindComp(list, obj) == Len(obj) = 1 /\ Named(list, "comp", obj[1][2])
FindDom(list, path) ==
    Named(list, "dom", path[1]) /\ path \in Search(list, "dom", path[1]).paths

\* xc_check_unity: whether a name, which may have variables, can be a
\* variable.  A first part that is no identifier is held against the first
\* variable or component of the list only.
UnityWithin(members, obj) ==
    /\ obj # <<>>
    /\ IF obj[1][1] = "id" THEN obj[1][2] \in members ELSE members # {}

CheckUnity(list, obj) ==
    IF obj[1][1] = "id"
    THEN \/ Named(list, "var", obj[1][2])
         \/ /\ Named(list, "comp", obj[1][2])
            /\ UnityWithin(Members(list, obj[1][2]), Tail(obj))
    ELSE LET open  == {i \in DOMAIN list : list[i].kind \in {"var", "comp"}}
             first == list[FirstOf(open)]
         IN  /\ open # {}
             /\ \/ first.kind = "var"
                \/ UnityWithin(Members(list, first.name), Tail(obj))

-----------------------------------------------------------------------------
\* Faulty variant, which nothing uses: what a domain is assigned to is not
\* looked up.
KnownUnless(list, b) == b.kind = "comp" => Named(list, "iface", b.iface)

\* Whether the parser keeps a block, given the list of those before it:
\* compdecl, vartype and dasgstmt.
Known(list, b) ==
    CASE b.kind = "comp" -> Named(list, "iface", b.iface)
      [] b.kind = "var" -> b.type \in {"real", "integer"}
      [] b.kind = "dmap" ->
            /\ FindDom(list, b.dom)
            /\ \A i \in DOMAIN b.obj : b.obj[i][1] = "id"
            /\ FindComp(list, b.obj) \/ FindVar(list, b.obj)
      [] OTHER -> TRUE

\* Faulty variant, which nothing uses: the component's name is not taken off
\* before the rest of a target is looked up in its interface.
KeptWhole(list, b) ==
    LET unity(obj) == \/ Named(list, "var", obj[1][2])
                      \/ /\ Named(list, "comp", obj[1][2])
                         /\ UnityWithin(Members(list, obj[1][2]), obj)
    IN  IF b.kind = "tprule"
        THEN [b EXCEPT !.tgts = Selection(b.tgts, {j \in DOMAIN b.tgts : unity(b.tgts[j])})]
        ELSE b

\* pbblk: a touchpoint rule loses the targets that cannot be variables.
Kept(list, b) ==
    IF b.kind = "tprule"
    THEN [b EXCEPT !.tgts = Selection(b.tgts, {j \in DOMAIN b.tgts : CheckUnity(list, b.tgts[j])})]
    ELSE b

\* The two alternatives of the file rule: blocks are appended, but the one
\* the file ends with goes before all others.
Insert(list, b, last) == IF last THEN <<b>> \o list ELSE Append(list, b)

\* The list after the first n blocks of a file.
Parse(blocks, n) ==
    LET list[k \in 0 .. n] ==
            IF k = 0 THEN <<>>
            ELSE LET before == list[k - 1]
                 IN  IF Known(before, blocks[k]) /\ ~InList(before, blocks[k])
                     THEN Insert(before, Kept(before, blocks[k]), k = Len(blocks))
                     ELSE before
    IN  list[n]

=============================================================================
