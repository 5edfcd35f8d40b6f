---------------------------- MODULE CommentStrip ----------------------------
(***************************************************************************)
(* strip_comments of record_web_replay.py for the script of a page: one    *)
(* pass that tells strings, templates, regular expressions and comments    *)
(* apart by the character before.  A writer puts JavaScript tokens one     *)
(* after the other and knows which characters are comments; the lexer must *)
(* find the same.  "tick" is the backquote, "r" stands for a word like     *)
(* return, "+" for any operator before a regular expression.               *)
(***************************************************************************)
EXTENDS Integers, Sequences, SequencesExt

CONSTANTS
    MaxTokens,  \* bound: tokens of a script
    Puzzles     \* constructs let in, of AllPuzzles

\* What the character before does not tell.
AllPuzzles == {"condition", "object", "postfix", "division", "word behind comment"}

\* src: the characters; comments: the indices of those in a comment; nest: open
\* brackets, inside out; operand: the last token ends a value; last: its kind.
VARIABLES src, comments, nest, operand, last, tokens
vars == <<src, comments, nest, operand, last, tokens>>

Init == src = <<>> /\ comments = {} /\ nest = <<>> /\ operand = FALSE /\ last = "begin" /\ tokens = 0

-----------------------------------------------------------------------------
(* The writer *)

InTemplate == nest # <<>> /\ Last(nest) = "tick"
Put(chars, isComment, nst, isOperand, kind) ==
    /\ tokens < MaxTokens /\ tokens' = tokens + 1
    /\ src' = src \o chars
    /\ comments' = comments \cup (IF isComment THEN {Len(src) + k : k \in {j \in DOMAIN chars : chars[j] # "\n"}} ELSE {})
    /\ nest' = nst /\ operand' = isOperand /\ last' = kind
Code(chars, isOperand, kind) == ~InTemplate /\ Put(chars, FALSE, nest, isOperand, kind)
Statement == last \in {"begin", ";"} /\ nest = <<>>

Name == ~operand /\ Code(<<"x">>, TRUE, "name")
Word == Statement /\ Code(<<"r", " ">>, FALSE, "word")
String == ~operand /\ \E b \in {<<"/", "/">>, <<"\\", "'">>, <<"tick">>} : Code(<<"'">> \o b \o <<"'">>, TRUE, "string")
Regex ==
    /\ ~operand
    /\ "division" \notin Puzzles => last # "/"
    /\ "word behind comment" \notin Puzzles => last # "word, comment"
    /\ \E b \in {<<"'">>, <<"[", "/", "]">>, <<"\\", "/", "tick">>} : Code(<<"/">> \o b \o <<"/">>, TRUE, "regex")
Operator == operand /\ Code(<<"+">>, FALSE, "+")
Postfix == operand /\ "postfix" \in Puzzles /\ last = "name" /\ Code(<<"+", "+">>, TRUE, "+")
Division == operand /\ Code(<<"/", " ">>, FALSE, "/")
Semicolon == operand /\ nest = <<>> /\ Code(<<";">>, FALSE, ";")
Comment ==
    /\ ~InTemplate
    /\ \E b \in {<<"'">>, <<"tick", "/">>} :
         \E c \in {<<"/", "/">> \o b \o <<"\n">>, <<"/", "*">> \o b \o <<"*", "/">>} :
            Put(c, TRUE, nest, operand, IF last = "word" THEN "word, comment" ELSE last)
Open == ~InTemplate /\ ~operand /\ \E c \in {"(", "{"} : Put(<<c>>, FALSE, Append(nest, c), FALSE, "open")
\* A bracket of a condition or of a block ends no value.
Close ==
    /\ nest # <<>> /\ Last(nest) \in {"(", "{"} /\ operand
    /\ \E value \in BOOLEAN :
         /\ (Last(nest) = "(" /\ ~value) => "condition" \in Puzzles
         /\ (Last(nest) = "{" /\ value) => "object" \in Puzzles
         /\ Put(<<IF Last(nest) = "(" THEN ")" ELSE "}">>, FALSE, Front(nest), value, "close")
Template == ~InTemplate /\ ~operand /\ Put(<<"tick">>, FALSE, Append(nest, "tick"), FALSE, "template")
TemplateText == InTemplate /\ \E b \in {<<"/", "/">>, <<"\\", "tick">>, <<"'">>, <<"}">>} : Put(b, FALSE, nest, FALSE, "text")
Substitute == InTemplate /\ Put(<<"$", "{">>, FALSE, Append(nest, "$"), FALSE, "open")
Substituted == nest # <<>> /\ Last(nest) = "$" /\ operand /\ Put(<<"}">>, FALSE, Front(nest), FALSE, "text")
TemplateEnd == InTemplate /\ Put(<<"tick">>, FALSE, Front(nest), TRUE, "string")

Next == \/ Name \/ Word \/ String \/ Regex \/ Operator \/ Postfix \/ Division \/ Semicolon \/ Comment
        \/ Open \/ Close \/ Template \/ TemplateText \/ Substitute \/ Substituted \/ TemplateEnd
Spec == Init /\ [][Next]_vars

-----------------------------------------------------------------------------
(* The lexer: a step for each character *)

\* _prev_word: the word before i, spaces between left out.
BeforeSpaces(i) == LET js == {j \in 1 .. i - 1 : src[j] \notin {" ", "\n"}}
                   IN  IF js = {} THEN 0 ELSE CHOOSE j \in js : \A k \in js : k <= j
WordBefore(i) == LET j == BeforeSpaces(i) IN j > 0 /\ src[j] = "r"
\* Mutant of RegexMayFollow: the character alone.
RegexByCharacter(prev, i) == prev \in {"", "(", "{", "}", "+", ";"}
\* A "/" begins a regular expression behind these.
RegexMayFollow(prev, i) == prev \in {"", "(", "{", "}", "+", ";"} \/ WordBefore(i)

At(i) == IF i \in DOMAIN src THEN src[i] ELSE "eof"
\* Modes: code, string, regex, line, block and template; `up` are the levels of
\* templates around, `skip` characters already taken.
Enter(z, mode, skip) == [z EXCEPT !.mode = mode, !.skip = skip]
InCode(z, i) ==
    LET c == src[i]
    IN  IF c = "/" /\ At(i + 1) = "/" THEN [Enter(z, "line", 1) EXCEPT !.spans = z.spans \cup {i}]
        ELSE IF c = "/" /\ At(i + 1) = "*" THEN [Enter(z, "block", 1) EXCEPT !.spans = z.spans \cup {i}]
        ELSE IF c = "/" /\ RegexMayFollow(z.prev, i) THEN [Enter(z, "regex", 0) EXCEPT !.cls = FALSE]
        ELSE IF c = "'" THEN Enter(z, "string", 0)
        ELSE IF c = "tick" THEN Enter([z EXCEPT !.up = Append(z.up, z.depth)], "template", 0)
        ELSE IF c = "}" /\ z.depth = 0 /\ z.up # <<>> THEN Enter(z, "template", 0)
        ELSE [z EXCEPT !.depth = IF c = "{" THEN z.depth + 1 ELSE IF c = "}" THEN z.depth - 1 ELSE z.depth,
                       !.prev = IF c \in {" ", "\n"} THEN z.prev ELSE c]
InRegex(z, i) ==
    LET c == src[i]
    IN  IF c = "\\" THEN [z EXCEPT !.skip = 1]
        ELSE IF c = "\n" THEN [Enter(z, "code", 0) EXCEPT !.prev = "/"]
        ELSE IF c = "/" /\ ~z.cls THEN [Enter(z, "code", 0) EXCEPT !.prev = "/"]
        ELSE [z EXCEPT !.cls = IF c = "[" THEN TRUE ELSE IF c = "]" THEN FALSE ELSE z.cls]
InTemplateText(z, i) ==
    LET c == src[i]
    IN  IF c = "\\" THEN [z EXCEPT !.skip = 1]
        ELSE IF c = "tick" THEN [Enter(z, "code", 0) EXCEPT !.prev = "tick", !.depth = Last(z.up), !.up = Front(z.up)]
        ELSE IF c = "$" /\ At(i + 1) = "{" THEN [Enter(z, "code", 1) EXCEPT !.prev = "", !.depth = 0]
        ELSE z
Lex(z, i) ==
    LET c == src[i]
        taken == [z EXCEPT !.skip = z.skip - 1]
        inSpan == [z EXCEPT !.spans = z.spans \cup {i}]
    IN  IF z.skip > 0 THEN IF z.mode \in {"line", "block"} THEN [taken EXCEPT !.spans = z.spans \cup {i}] ELSE taken
        ELSE CASE z.mode = "code" -> InCode(z, i)
               [] z.mode = "string" -> IF c = "\\" THEN [z EXCEPT !.skip = 1]
                                       ELSE IF c = "'" THEN [Enter(z, "code", 0) EXCEPT !.prev = "'"] ELSE z
               [] z.mode = "regex" -> InRegex(z, i)
               [] z.mode = "line" -> IF c = "\n" THEN Enter(z, "code", 0) ELSE inSpan
               [] z.mode = "block" -> IF c = "*" /\ At(i + 1) = "/" THEN Enter(inSpan, "block end", 0) ELSE inSpan
               [] z.mode = "block end" -> Enter(inSpan, "code", 0)
               [] z.mode = "template" -> InTemplateText(z, i)
Spans == FoldLeft(Lex, [mode |-> "code", skip |-> 0, prev |-> "", depth |-> 0, cls |-> FALSE,
                        up |-> <<>>, spans |-> {}], [i \in DOMAIN src |-> i]).spans

\* The characters removed are those of the comments: none of the script goes,
\* none of a comment stays.
StripsComments == Spans = comments
=============================================================================
