-------------------------------- MODULE Indent --------------------------------
(***************************************************************************)
(* The lexer of configuration files (xc.l) as far as blocks are concerned: *)
(* how it turns the indentation of lines into INDENT and OUTDENT tokens.   *)
(* One step is one rule of the lexer.  It does so by writing back into its *)
(* own input (unput), so that a line that closes several blocks is read    *)
(* several times, with made-up lines before it.                            *)
(*                                                                         *)
(* What a line says, from its first character that is not white space to   *)
(* its end, is one character here: the line's number.                      *)
(***************************************************************************)
EXTENDS Integers, SequencesExt, FiniteSetsExt

CONSTANT Files      \* texts: a file is a sequence of lines, and whether the
                    \* last one ends with a newline

Space == 0
Tab == -1
Newline == -2
Dot == -3           \* the character that stands for a made-up line

\* A line is its white space, and whether anything follows it.
ASSUME FilesAssumption ==
    \A f \in Files :
        /\ f.lines \in Seq([white : Seq({Space, Tab}), blank : BOOLEAN])
        /\ f.lines # <<>> /\ f.ended \in BOOLEAN

TAB_WIDTH == 4

\* The next multiple of TAB_WIDTH: (n + TAB_WIDTH) & ~(TAB_WIDTH - 1).
NextTab(n) == ((n + TAB_WIDTH) \div TAB_WIDTH) * TAB_WIDTH

Spaces(n) == [i \in 1 .. n |-> Space]

\* The characters of a file.
LineChars(f, k) ==
    f.lines[k].white
    \o (IF f.lines[k].blank THEN <<>> ELSE <<k>>)
    \o (IF k < Len(f.lines) \/ f.ended THEN <<Newline>> ELSE <<>>)

Chars(f) == FlattenSeq([k \in DOMAIN f.lines |-> LineChars(f, k)])

VARIABLES
    file,       \* the file that is read
    input,      \* the characters to be scanned, those put back first
    cond,       \* the start condition (normal stands for obj, too)
    levels,     \* g_indent_levels, top first
    current,    \* g_current_indent
    fake,       \* g_fake_symbol
    tokens,     \* what yylex has returned
    over        \* the end of the file has been returned

vars == <<file, input, cond, levels, current, fake, tokens, over>>

INDENT == -1
OUTDENT == -2
NEWLINE == -4

TypeOK ==
    /\ cond \in {"start", "indent", "normal"}
    /\ levels # <<>> /\ Last(levels) = 0
    /\ \A i \in DOMAIN levels : levels[i] \in Nat /\ (i > 1 => levels[i] < levels[i - 1])
    /\ current \in Nat
    /\ fake \in BOOLEAN /\ over \in BOOLEAN

\* YY_USER_INIT
Init ==
    /\ file \in Files
    /\ input = Chars(file)
    /\ cond = "start"
    /\ levels = <<0>>
    /\ current = 0
    /\ fake = FALSE
    /\ tokens = <<>>
    /\ over = FALSE

-----------------------------------------------------------------------------

Ahead(char) == input # <<>> /\ Head(input) = char

Top == Head(levels)

\* Faulty variants, which nothing uses, of definitions below: the first
\* character is put back without leaving the start condition (Begin); the
\* made-up line has the indentation of the line itself (MadeUp); the flag for it
\* is not set, or the block is narrowed instead of closed (Shallower); what is
\* left open at the end of the file is closed once (AtEnd).
BeginAgain ==
    /\ cond = "start" /\ input # <<>>
    /\ UNCHANGED vars

\* The first character of the file is put back.
Begin ==
    /\ cond = "start" /\ input # <<>>
    /\ cond' = "indent"
    /\ UNCHANGED <<file, input, levels, current, fake, tokens, over>>

\* White space before a line, and lines of nothing else.
Measure ==
    /\ cond = "indent"
    /\ \/ Ahead(Space) /\ current' = current + 1
       \/ Ahead(Tab) /\ current' = NextTab(current)
       \/ Ahead(Newline) /\ current' = 0
    /\ input' = Tail(input)
    /\ UNCHANGED <<file, cond, levels, fake, tokens, over>>

\* The rule for the first character of what a line says puts it back, a
\* made-up one excepted.
AtText == cond = "indent" /\ input # <<>> /\ Head(input) \notin {Space, Tab, Newline}

Rest == IF fake THEN Tail(input) ELSE input

Deeper ==
    /\ AtText /\ current > Top
    /\ levels' = <<current>> \o levels
    /\ tokens' = Append(tokens, INDENT)
    /\ cond' = "normal"
    /\ input' = Rest
    /\ UNCHANGED <<file, current, fake, over>>

MadeUpFlat(top) == <<Newline>> \o Spaces(current) \o <<Dot>>

\* Written before a line that closes more blocks than the topmost one: a line
\* as deep as the block under it.
MadeUp(top) == <<Newline>> \o Spaces(top) \o <<Dot>>

ShallowerUnmarked ==
    /\ AtText /\ current < Top
    /\ levels' = Tail(levels)
    /\ tokens' = Append(tokens, OUTDENT)
    /\ IF current = levels[2]
         THEN input' = Rest /\ cond' = "normal"
         ELSE /\ input' = MadeUp(levels[2])
                              \o <<Newline>> \o Spaces(current) \o Rest
              /\ UNCHANGED cond
    /\ UNCHANGED <<file, current, fake, over>>

ShallowerNarrowed ==
    /\ AtText /\ current < Top
    /\ levels' = <<current>> \o Tail(levels)
    /\ tokens' = Append(tokens, OUTDENT)
    /\ input' = Rest /\ cond' = "normal"
    /\ UNCHANGED <<file, current, fake, over>>

\* One block is closed.  If that is not enough, or too much, the line is put
\* back behind one that is not there.
Shallower ==
    /\ AtText /\ current < Top
    /\ levels' = Tail(levels)
    /\ tokens' = Append(tokens, OUTDENT)
    /\ IF current = levels[2]
         THEN input' = Rest /\ cond' = "normal" /\ UNCHANGED fake
         ELSE /\ input' = MadeUp(levels[2])
                              \o <<Newline>> \o Spaces(current) \o Rest
              /\ fake' = TRUE
              /\ UNCHANGED cond
    /\ UNCHANGED <<file, current, over>>

AsDeep ==
    /\ AtText /\ current = Top
    /\ input' = Rest
    /\ fake' = FALSE
    /\ cond' = IF fake THEN "indent" ELSE "normal"
    /\ UNCHANGED <<file, levels, current, tokens, over>>

AtEndOnce ==
    /\ cond = "indent" /\ input = <<>>
    /\ IF Top # 0
         THEN /\ levels' = Tail(levels)
              /\ tokens' = Append(tokens, OUTDENT)
         ELSE UNCHANGED <<levels, tokens>>
    /\ cond' = "normal"
    /\ UNCHANGED <<file, input, current, fake, over>>

\* The end of the file closes one block at a time, and makes up a blank line
\* to come here again.
AtEnd ==
    /\ cond = "indent" /\ input = <<>>
    /\ IF Top # 0
         THEN /\ levels' = Tail(levels)
              /\ tokens' = Append(tokens, OUTDENT)
         ELSE UNCHANGED <<levels, tokens>>
    /\ IF Top # 0 /\ levels[2] # 0
         THEN input' = Spaces(levels[2]) \o <<Newline>> /\ UNCHANGED cond
         ELSE cond' = "normal" /\ UNCHANGED input
    /\ UNCHANGED <<file, current, fake, over>>

\* What the line says.
Text ==
    /\ cond = "normal" /\ input # <<>> /\ Head(input) # Newline
    /\ tokens' = Append(tokens, Head(input))
    /\ input' = Tail(input)
    /\ UNCHANGED <<file, cond, levels, current, fake, over>>

EndLine ==
    /\ cond = "normal" /\ Ahead(Newline)
    /\ current' = 0
    /\ cond' = "indent"
    /\ tokens' = Append(tokens, NEWLINE)
    /\ input' = Tail(input)
    /\ UNCHANGED <<file, levels, fake, over>>

\* Outside the indentation, the end of the file is returned as it is.
EndOfFile ==
    /\ cond # "indent" /\ input = <<>> /\ ~over
    /\ over' = TRUE
    /\ UNCHANGED <<file, input, cond, levels, current, fake, tokens>>

Next ==
    \/ Begin \/ Measure \/ Deeper \/ Shallower \/ AsDeep \/ AtEnd
    \/ Text \/ EndLine \/ EndOfFile

Spec == Init /\ [][Next]_vars /\ WF_vars(Next)

-----------------------------------------------------------------------------
(***************************************************************************)
(* What the tokens should be, without a stack.                             *)
(***************************************************************************)

\* How far to the right white space gets, character by character.
Column(white) ==
    LET col[n \in 0 .. Len(white)] ==
            IF n = 0 THEN 0
            ELSE IF white[n] = Tab THEN NextTab(col[n - 1]) ELSE col[n - 1] + 1
    IN  col

\* How far to the right a line begins; the left margin counts as a line 0.
Width(f, k) ==
    IF k = 0 THEN 0 ELSE Column(f.lines[k].white)[Len(f.lines[k].white)]

Said(f) == {k \in DOMAIN f.lines : ~f.lines[k].blank}

\* The lines whose blocks line k is in: those before it that begin further to
\* the left than k and than every line in between.
Around(f, k) ==
    {j \in Said(f) \cup {0} :
        /\ j < k /\ Width(f, j) < Width(f, k)
        /\ \A m \in Said(f) : j < m /\ m < k => Width(f, j) < Width(f, m)}

Times(t) == Cardinality({i \in DOMAIN tokens : tokens[i] = t})

Depth == Times(INDENT) - Times(OUTDENT)

\* Every line is returned as deep in the blocks as the file's layout has it,
\* whether blocks are closed one at a time, several at once, or to a depth no
\* block has.
NestedAsWritten ==
    tokens # <<>> /\ Last(tokens) > 0
        => Depth = Cardinality(Around(file, Last(tokens)))

\* Each line is returned once, in its order, with a NEWLINE of its own, and
\* nothing that was made up is.
LinesReturnedOnce ==
    LET said == {i \in DOMAIN tokens : tokens[i] \notin {INDENT, OUTDENT, NEWLINE}}
    IN  /\ \A i, j \in said : i < j => tokens[i] < tokens[j]
        /\ \A i \in DOMAIN tokens : tokens[i] = NEWLINE <=> i - 1 \in said
        /\ over => {tokens[i] : i \in said} = Said(file)

\* Blocks are opened and closed at the start of lines only, and all are closed
\* at the end - unless the file ends in the middle of a line that is inside
\* one: the grammar then finds neither NEWLINE nor OUTDENT.
Closed ==
    LET last  == Max(Said(file) \cup {0})
        cut   == /\ ~file.ended /\ last = Len(file.lines)
                 /\ Around(file, last) # {}
        final == Len(tokens)
    IN  /\ final > 1 /\ tokens[final] \in {INDENT, OUTDENT}
               => tokens[final - 1] \in {NEWLINE, OUTDENT}
        /\ over => (Depth = 0 <=> ~cut)

\* The lexer gets through every file.
Ends == <>over

=============================================================================
