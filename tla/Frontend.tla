------------------------------ MODULE Frontend ------------------------------
(***************************************************************************)
(* A file on its way through the front end: tokenize() turn by turn, then  *)
(* parse().  The tree a text was written from, when it was written from    *)
(* one, is kept beside it ('meant'), to compare with what is parsed.       *)
(***************************************************************************)
EXTENDS Lexer, Parser

CONSTANTS Files,            \* the files: records [src, meant]
          ParseTokens(_, _) \* parse() of Parser, given by the model

VARIABLES file,             \* the file
          lexer,            \* the tokenizer's state
          parsed            \* the parser once it is done, NotParsed before

vars == <<file, lexer, parsed>>
NotParsed == NewParser(<<>>, {})

Init == /\ file \in Files
        /\ lexer = Start
        /\ parsed = NotParsed

LexToken == /\ ~lexer.done
            /\ lexer' = tokenize(file.src, lexer)
            /\ UNCHANGED <<file, parsed>>

Parse == /\ lexer.done
         /\ parsed = NotParsed
         /\ parsed' = ParseTokens(lexer.toks, lexer.errs)
         /\ UNCHANGED <<file, lexer>>

Next == LexToken \/ Parse
Spec == Init /\ [][Next]_vars

Done == parsed # NotParsed
Accepted == Done /\ parsed.errs = {}

-----------------------------------------------------------------------------
(***************************************************************************)
(* A file written from a tree, in any layout, is accepted and parsed back  *)
(* to that tree: the precedence and associativity of docs/grammar.md's     *)
(* productions, the lookahead rules and the automatic semicolons.  The     *)
(* files put parentheses around a 'when' that ends a ternary: there the    *)
(* production and the prose of grammar.md differ.                          *)
(***************************************************************************)
RoundTrip == Done /\ file.meant # None => parsed.errs = {} /\ parsed.node = file.meant

(***************************************************************************)
(* No parser loop comes round without having consumed a token, whatever    *)
(* the text: LoopProgressGuard, and the loops that do without it, leave no *)
(* text that hangs the compiler.                                           *)
(***************************************************************************)
ParserProgresses == ~parsed.stuck

(***************************************************************************)
(* An accepted file loses nothing: the names and literals of the text, in  *)
(* order, are those of the tree.  An operand read and then dropped         *)
(* ('mut a := 7, b := f()' taken for a group declaration) would compile to *)
(* a program nobody wrote.                                                 *)
(***************************************************************************)
Contextual == {"ext", "self", "packed", "option", "env", "rtti_enabled", "warn", "link",
               "compile_only_if", "import", "_"}
Literals == {"INT", "FLOAT", "STR", "CHR"}
TokenAtoms(toks) ==
    LET atoms == SelectSeq(toks, LAMBDA t : \/ t.k \in Literals
                                            \/ t.k = "ID" /\ t.w \notin {<<w>> : w \in Contextual})
    IN [i \in DOMAIN atoms |-> IF atoms[i].k = "ID" THEN atoms[i].w ELSE <<"literal">>]
RECURSIVE TreeAtoms(_), AtomsOf(_)
TreeAtoms(n) ==
    IF n.t = "name" THEN IF n.w \in {<<w>> : w \in Contextual} THEN <<>> ELSE <<n.w>>
    ELSE IF n.t \in {"int", "float", "string", "char"} THEN <<<<"literal">>>>
    ELSE AtomsOf(n.c)
AtomsOf(ns) == IF ns = <<>> THEN <<>> ELSE TreeAtoms(Head(ns)) \o AtomsOf(Tail(ns))
NothingDropped == Accepted => TokenAtoms(lexer.toks) = TreeAtoms(parsed.node)
=============================================================================
