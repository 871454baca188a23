------------------------------- MODULE MCIndent -------------------------------
(***************************************************************************)
(* Files for module Indent: all layouts of up to four lines that begin     *)
(* with white space of these kinds, blank lines included.                  *)
(***************************************************************************)
EXTENDS Indent

CONSTANT MaxLines

Whites ==
    {<<>>, <<Space>>, <<Space, Space>>, <<Tab>>, <<Space, Tab>>}

Lines == [white : Whites, blank : {FALSE}] \cup [white : {<<>>, <<Space>>}, blank : {TRUE}]

MCFiles ==
    [lines : UNION {[1 .. n -> Lines] : n \in 1 .. MaxLines}, ended : BOOLEAN]

=============================================================================
