------------------------------- MODULE Lexer --------------------------------
(***************************************************************************)
(* The tokenizer, src/compiler/lexer.cpp.                                  *)
(*                                                                         *)
(* A source text is a sequence of symbols.  A run of letters is ONE symbol *)
(* ("fn", "x"): which letters spell a word matters to nothing here.        *)
(* Everything else (digits, punctuation, quotes, blanks, line ends) is one *)
(* symbol per character, so that the longest-match rules, the literals,    *)
(* the comments and the automatic semicolons are those of the code.        *)
(*                                                                         *)
(* A token is [k, w, at, end]: kind, lexeme, and the half-open range of    *)
(* source positions it spans.  Line and column are functions of the        *)
(* position and are left out.                                              *)
(***************************************************************************)
EXTENDS Integers, Sequences, FiniteSets

CONSTANTS Keywords,    \* the words that are keywords
          Names        \* the other words

Digits == {"0", "1", "7"}
Letters == Keywords \cup Names
NL == "NL"             \* the line end, '\n'
QUOTE == "QUOTE"       \* '"'
TICK == "TICK"         \* '\''
BACKSLASH == "BSL"     \* '\\'
NON_ASCII == "U+"      \* a UTF-8 lead byte
CONTINUATION == "U-"   \* a UTF-8 continuation byte
HEADER_BUDGET == 16    \* asm_header_token_budget

is_digit(c) == c \in Digits
is_hex_digit(c) == c \in Digits \cup {"e"}
is_alpha(c) == c \in Letters

at_end(src, p) == p > Len(src)
\* The end of the text reads as a line end ...
peek(src, p) == IF at_end(src, p) THEN NL ELSE src[p]
\* ... except to the second symbol of lookahead.
peek_next(src, p) == IF p + 1 > Len(src) THEN "NUL" ELSE src[p + 1]

\* The first position from p on that does not hold a member of S.
RECURSIVE SkipWhile(_, _, _)
SkipWhile(src, p, S) ==
    IF ~at_end(src, p) /\ src[p] \in S THEN SkipWhile(src, p + 1, S) ELSE p

\* The first position from p on that holds a member of S, or the end.
RECURSIVE SkipUntil(_, _, _)
SkipUntil(src, p, S) ==
    IF ~at_end(src, p) /\ src[p] \notin S THEN SkipUntil(src, p + 1, S) ELSE p

\* Where a block comment whose body starts at p ends: past its "*/", or the end.
RECURSIVE CommentEnd(_, _)
CommentEnd(src, p) ==
    IF at_end(src, p) THEN p
    ELSE IF src[p] = "*" /\ peek_next(src, p) = "/" THEN p + 2
    ELSE CommentEnd(src, p + 1)

\* Blanks and comments from p on: where they end, whether a line end was among
\* them, and whether a block comment was left open.
RECURSIVE SkipBlanks(_, _, _)
SkipBlanks(src, p, nl) ==
    IF at_end(src, p) THEN [p |-> p, nl |-> nl, open |-> FALSE]
    ELSE IF src[p] \in {" ", NL} THEN SkipBlanks(src, p + 1, nl \/ src[p] = NL)
    ELSE IF src[p] = "/" /\ peek_next(src, p) = "/"
         THEN SkipBlanks(src, SkipUntil(src, p, {NL}), nl)
    ELSE IF src[p] = "/" /\ peek_next(src, p) = "*"
         THEN LET q == CommentEnd(src, p + 2)
                  closed == q > p + 3 /\ SubSeq(src, q - 2, q - 1) = <<"*", "/">>
                  crossed == nl \/ \E i \in (p + 2)..(q - 1) : src[i] = NL
              IN IF closed THEN SkipBlanks(src, q, crossed)
                 ELSE [p |-> q, nl |-> crossed, open |-> TRUE]
    ELSE [p |-> p, nl |-> nl, open |-> FALSE]
skip_whitespace_and_comments(src, p) == SkipBlanks(src, p, FALSE)

-----------------------------------------------------------------------------
(***************************************************************************)
(* The scanners.  Each starts just past the first symbol of its token, at  *)
(* position s, and yields the kind, the end and what it reports, if        *)
(* anything.                                                               *)
(***************************************************************************)
Lexeme(k, e) == [k |-> k, end |-> e, report |-> "none"]
Bad(k, e, why) == [k |-> k, end |-> e, report |-> why]

skip_digits(src, p) == SkipWhile(src, p, Digits \cup {"_"})

\* The exponent of a float, if one starts at p.
Exponent(src, p, k) ==
    IF peek(src, p) # "e" THEN Lexeme(k, p)
    ELSE LET d == IF peek(src, p + 1) \in {"+", "-"} THEN p + 2 ELSE p + 1
             q == skip_digits(src, d)
         IN IF q = d THEN Bad("FLOAT", q, "exponent") ELSE Lexeme("FLOAT", q)

lex_fractional_number(src, s) == Exponent(src, skip_digits(src, s + 1), "FLOAT")

\* '0x', '0b' and '0o' literals.
Prefixed(src, s, digits) ==
    LET q == SkipWhile(src, s + 2, digits \cup {"_"})
    IN IF \E i \in (s + 2)..(q - 1) : src[i] # "_" THEN Lexeme("INT", q)
       ELSE Bad("INT", q, "base_digits")

lex_number(src, s) ==
    IF src[s] = "0" /\ peek(src, s + 1) = "x" THEN Prefixed(src, s, Digits \cup {"e"})
    ELSE IF src[s] = "0" /\ peek(src, s + 1) = "b" THEN Prefixed(src, s, {"0", "1"})
    ELSE IF src[s] = "0" /\ peek(src, s + 1) = "o" THEN Prefixed(src, s, Digits)
    ELSE LET q == skip_digits(src, s + 1)
             f == peek(src, q) = "." /\ is_digit(peek_next(src, q))
         IN Exponent(src, IF f THEN skip_digits(src, q + 1) ELSE q,
                     IF f THEN "FLOAT" ELSE "INT")

lex_identifier_or_keyword(src, s) ==
    LET q == SkipWhile(src, s + 1, Letters \cup Digits \cup {"_"})
    IN Lexeme(IF q = s + 1 /\ src[s] \in Keywords THEN src[s] ELSE "ID", q)

\* Where a string whose body starts at p stops: at its quote, or at the line end.
RECURSIVE StringEnd(_, _)
StringEnd(src, p) ==
    IF at_end(src, p) \/ src[p] \in {QUOTE, NL} THEN p
    ELSE IF src[p] # BACKSLASH THEN StringEnd(src, p + 1)
    ELSE IF at_end(src, p + 1) \/ src[p + 1] = NL THEN p + 1
    ELSE StringEnd(src, p + 2)
lex_string(src, s) ==
    LET q == StringEnd(src, s + 1)
    IN IF at_end(src, q) \/ src[q] = NL THEN Bad("STR", q, "string") ELSE Lexeme("STR", q + 1)

lex_char(src, s) ==
    LET c == peek(src, s + 1)
        Upto(p, n, S) == IF SkipWhile(src, p, S) > p + n THEN p + n ELSE SkipWhile(src, p, S)
        body == IF c # BACKSLASH \/ peek(src, s + 2) = NL THEN s + 2
                ELSE IF src[s + 2] = "x" THEN Upto(s + 3, 2, Digits \cup {"e"})
                ELSE IF src[s + 2] \in Digits THEN Upto(s + 3, 2, Digits)
                ELSE s + 3
        past == SkipWhile(src, s + 2, {CONTINUATION})
    IN CASE at_end(src, s + 1) -> Bad("CHR", s + 1, "empty_char")
         [] c = TICK -> Bad("CHR", s + 2, "empty_char")
         [] c = NL /\ ~at_end(src, s + 1) -> Bad("CHR", s + 1, "char")
         [] c \in {NON_ASCII, CONTINUATION} -> Bad("CHR", IF ~at_end(src, past) /\ src[past] = TICK
                                        THEN past + 1 ELSE past, "multibyte")
         [] OTHER -> IF ~at_end(src, body) /\ src[body] = TICK
                     THEN Lexeme("CHR", body + 1) ELSE Bad("CHR", body, "char")

Compound == { "..", "...", "++", "+=", "--", "-=", "->", "*=", "/=", "&&", "&=", "||", "|=",
              "^=", "==", "!=", "<=", "<<", "<<=", ">=", ">>", ">>=", ":=", "~=" }
Simple == { "(", ")", "{", "}", "[", "]", ",", "~", "?", ";", "@", "#", "$", ".", "+", "-",
            "*", "/", "%", "&", "|", "^", "=", "!", "<", ">", ":" }

\* The longest mark that starts at s.  Every prefix of a compound mark is a mark,
\* so taking one more symbol while that matches finds the longest.
lex_symbol(src, s) ==
    LET two == src[s] \o peek(src, s + 1)
        three == two \o peek(src, s + 2)
    IN IF three \in Compound THEN Lexeme(three, s + 3)
       ELSE IF two \in Compound THEN Lexeme(two, s + 2)
       ELSE IF src[s] \in Simple THEN Lexeme(src[s], s + 1)
       ELSE Bad("none", s + 1, "character")

Scan(src, s) ==
    CASE is_digit(src[s]) -> lex_number(src, s)
      [] is_alpha(src[s]) \/ src[s] = "_" -> lex_identifier_or_keyword(src, s)
      [] src[s] = "." /\ is_digit(peek(src, s + 1)) -> lex_fractional_number(src, s)
      [] src[s] = QUOTE -> lex_string(src, s)
      [] src[s] = TICK -> lex_char(src, s)
      [] OTHER -> lex_symbol(src, s)

-----------------------------------------------------------------------------
(***************************************************************************)
(* The tokenizer's state: the position, what is remembered of the last     *)
(* real token (its kind, its end, whether it can end a statement), the     *)
(* window in which the body of 'asm -> reg' is awaited, and the output.    *)
(***************************************************************************)
Start == [pos |-> 1, last |-> "none", end |-> 1, asi |-> FALSE,
          awaiting |-> FALSE, budget |-> 0, toks |-> <<>>, errs |-> {}, done |-> FALSE]

is_asi_trigger(k) ==
    k \in {"ID", "INT", "FLOAT", "STR", "CHR", "true", "false", "nil", "default", "undefined",
           ")", "}", "]", "++", "--", "return", "return_ok", "break", "continue", "ASM"}

Token(src, k, a, e) == [k |-> k, w |-> SubSeq(src, a, e - 1), at |-> a, end |-> e]
VirtualSemicolon(s) == [k |-> ";", w |-> <<>>, at |-> s.end, end |-> s.end]
Complain(s, at, why) == [s EXCEPT !.errs = @ \cup {<<"lexer", at, why>>}]

\* Blanks and comments are skipped; an open comment is reported.
SkipTo(s, b) == IF b.open THEN [Complain(s, b.p, "comment") EXCEPT !.pos = b.p]
                          ELSE [s EXCEPT !.pos = b.p]

\* The matching brace of the one at position p, or 0.
RECURSIVE ClosingBrace(_, _, _)
ClosingBrace(src, p, depth) ==
    IF at_end(src, p) THEN 0
    ELSE IF src[p] = "}" /\ depth = 1 THEN p
    ELSE ClosingBrace(src, p + 1, CASE src[p] = "{" -> depth + 1
                                    [] src[p] = "}" -> depth - 1
                                    [] OTHER -> depth)

\* An assembly body, captured whole.  Without one at hand the blanks are gone
\* all the same, and an unclosed body takes the rest of the text with it.
lex_asm_block(src, s) ==
    LET b == skip_whitespace_and_comments(src, s.pos)
        q == IF peek(src, b.p) = "{" THEN ClosingBrace(src, b.p + 1, 1) ELSE 0
    IN IF peek(src, b.p) # "{" THEN SkipTo(s, b)
       ELSE IF q = 0 THEN [Complain(s, b.p, "asm") EXCEPT !.pos = Len(src) + 1]
       ELSE [s EXCEPT !.toks = Append(@, [k |-> "ASM", w |-> SubSeq(src, b.p + 1, q - 1),
                                          at |-> b.p, end |-> q]),
                      !.pos = q + 1, !.end = q + 1, !.last = "ASM", !.asi = TRUE,
                      !.awaiting = FALSE]

\* One token, an automatic semicolon, or the end of the text.
lex_token(src, s) ==
    LET b == skip_whitespace_and_comments(src, s.pos)
        t == SkipTo(s, b)
        x == Scan(src, b.p)
        r == IF x.report = "none" THEN t ELSE Complain(t, b.p, x.report)
    IN IF b.nl /\ s.asi
       THEN [t EXCEPT !.toks = Append(@, VirtualSemicolon(s)), !.last = ";", !.asi = FALSE]
       ELSE IF at_end(src, b.p)
       THEN [t EXCEPT !.toks = (IF s.asi THEN Append(@, VirtualSemicolon(s)) ELSE @)
                               \o <<[k |-> "EOF", w |-> <<>>, at |-> b.p, end |-> b.p]>>,
                      !.asi = FALSE, !.done = TRUE]
       ELSE IF x.k = "none" THEN [r EXCEPT !.pos = x.end]
       ELSE [r EXCEPT !.toks = Append(@, Token(src, x.k, b.p, x.end)),
                      !.pos = x.end, !.end = x.end, !.last = x.k,
                      !.asi = is_asi_trigger(x.k) \/ (x.k = "*" /\ s.last = ".")]

\* What follows the keyword 'asm': its body, or a header that announces one.
AfterAsm(src, s) ==
    LET a == lex_asm_block(src, s)
    IN IF a.last = "ASM" \/ ~(peek(src, a.pos) = "-" /\ peek_next(src, a.pos) = ">") THEN a
       ELSE [a EXCEPT !.awaiting = TRUE, !.budget = HEADER_BUDGET]

\* One turn of the loop of tokenize().
tokenize(src, s) ==
    LET a == IF s.awaiting THEN lex_asm_block(src, s) ELSE s
        b == IF s.awaiting THEN [a EXCEPT !.budget = @ - 1, !.awaiting = s.budget > 1] ELSE s
        t == lex_token(src, b)
    IN IF s.awaiting /\ ~a.awaiting THEN a
       ELSE IF Len(t.toks) > Len(s.toks) /\ t.toks[Len(t.toks)].k = "asm" THEN AfterAsm(src, t)
       ELSE t
=============================================================================
