---------------------------- MODULE MC_Frontend -----------------------------
(***************************************************************************)
(* Files for the front end: trees written out by the rules of              *)
(* docs/grammar.md, in two layouts; short texts over the symbols that the  *)
(* lexical rules turn on; and well-formed texts with one token struck out, *)
(* replaced or put in.                                                     *)
(***************************************************************************)
EXTENDS Frontend

\* The parser Frontend runs.  It comes in as a parameter because TLC's statistics unfold every
\* definition that an action reaches, and the grammar has no end of unfoldings.
MCParse(toks, errs) == LET parser == parse(toks, errs) IN parser

KeywordsUsed == {"fn", "mut", "const", "pub", "if", "else", "while", "for", "in", "when", "switch",
    "match", "return", "return_ok", "return_err", "break", "continue", "defer", "asm", "import",
    "import_bin", "struct", "enum", "union", "error", "bitset", "trait", "impl", "type", "macro",
    "u8", "i32", "usize", "bool", "anyptr", "any", "true", "false", "nil", "default", "undefined",
    "iota", "cast", "size_of", "align_of", "type_of", "type_info_of", "len", "stackalloc", "try"}
NamesUsed == {"a", "b", "c", "x", "e", "o", "n", "self", "ext", "packed", "option", "env",
    "rtti_enabled", "warn", "link", "lib", "compile_only_if", "naked", "section", "rax"}

-----------------------------------------------------------------------------
(***************************************************************************)
(* Writing a tree out.  The result is a sequence of token spellings, with  *)
(* "sep" where a statement or member ends and "brk" where a line may end.  *)
(***************************************************************************)
Ladder == << {"||"}, {"&&"}, {"in"}, {"|"}, {"^"}, {"&"}, {"==", "!="},
             {"<", ">", "<=", ">="}, {"<<", ">>"}, {"+", "-"}, {"*", "/", "%"} >>
Rung(op) == CHOOSE i \in DOMAIN Ladder : op \in Ladder[i]
\* How tightly an expression holds together: the parenthesis-free ladder of grammar.md.
Level(n) ==
    CASE n.t = "assign" -> 0
      [] n.t = "when_value" -> 1
      [] n.t = "ternary" -> 2
      [] n.t = "binary" -> 2 + Rung(n.w[1])
      [] n.t \in {"prefix", "try"} \/ (n.t = "unary" /\ n.w # <<".*">>) -> 14
      [] n.t = "dot" \/ (n.t = "dollar" /\ n.c = <<>>) -> 15
      [] OTHER -> 16

RECURSIVE Cat(_)
Cat(ss) == CASE ss = <<>> -> <<>>
             [] Len(ss) = 1 -> ss[1]
             [] OTHER -> LET h == Len(ss) \div 2
                         IN Cat(SubSeq(ss, 1, h)) \o Cat(SubSeq(ss, h + 1, Len(ss)))
Joined(ss, sep) == Cat([i \in DOMAIN ss |-> IF i = 1 THEN ss[i] ELSE sep \o ss[i]])
BrkComma == <<",", "brk">>

RECURSIVE Show(_)
Show1(ns) == [i \in DOMAIN ns |-> Show(ns[i])]
At(n, level) == IF Level(n) < level THEN <<"(">> \o Show(n) \o <<")">> ELSE Show(n)
\* A list whose last element may be followed by a line end ...
Loose(open, ns, close) ==
    IF ns = <<>> THEN <<open, close>>
    ELSE <<open, "brk">> \o Joined(Show1(ns), BrkComma) \o <<"brk", close>>
\* ... and one where it may not.
Tight(open, ns, close) == <<open>> \o Joined(Show1(ns), BrkComma) \o <<close>>
Members(ns) == <<"{", "brk">> \o Cat([i \in DOMAIN ns |-> Show(ns[i]) \o <<"sep">>]) \o <<"}">>
Opt(before, n) == IF n = None THEN <<>> ELSE before \o Show(n)
Is(n, word) == IF n = None THEN <<>> ELSE <<word>>
Generics(l) == IF l.c = <<>> THEN <<>> ELSE Tight("[", l.c, "]")
Rets(l) == CASE l.c = <<>> -> <<>>
             [] Len(l.c) = 1 -> <<"->">> \o Show(l.c[1])
             [] OTHER -> <<"->">> \o Loose("(", l.c, ")")
Attributes(l) == IF l.c = <<>> THEN <<>>
                 ELSE IF Len(l.c) = 1 THEN <<"@">> \o Show(l.c[1]) \o <<"brk">>
                 ELSE <<"@">> \o Tight("(", l.c, ")") \o <<"brk">>
SelfParams(n) == <<"(">> \o Is(n.c[1], "mut") \o <<"self">>
                 \o Cat([i \in DOMAIN n.c[2].c |-> BrkComma \o Show(n.c[2].c[i])]) \o <<")">>

\* '{.a, ...' opens a bitset value: such a first element is put in parentheses.
FirstValue(n) == IF Show(n)[1] = "." /\ (Len(Show(n)) < 3 \/ Show(n)[3] \notin {"{", "("})
                 THEN <<"(">> \o Show(n) \o <<")">> ELSE Show(n)
ShowExpr(n) ==
    LET c == n.c
    IN CASE n.t = "assign" -> At(c[1], 3) \o n.w \o At(c[2], 0)
         [] n.t = "when_value" -> At(c[1], 3) \o <<"when">> \o At(c[2], 2) \o <<"else">> \o At(c[3], 0)
         [] n.t = "ternary" -> At(c[1], 3) \o <<"?", "brk">> \o At(c[2], 0) \o <<":", "brk">>
                               \o (IF c[3].t = "when_value" THEN <<"(">> \o Show(c[3]) \o <<")">> ELSE At(c[3], 0))
         [] n.t = "binary" -> At(c[1], Level(n) + (IF n.w = <<"in">> THEN 1 ELSE 0))
                              \o n.w \o <<"brk">> \o At(c[2], Level(n) + 1)
         [] n.t = "unary" /\ n.w = <<".*">> -> At(c[1], 15) \o <<".", "*">>
         [] n.t \in {"prefix", "unary"} -> n.w \o At(c[1], 14)
         [] n.t = "postfix" -> At(c[1], 15) \o n.w
         [] n.t = "try" -> <<"try">> \o At(c[1], 15)
         [] n.t = "call" -> At(c[1], 16) \o Loose("(", c[2].c, ")")
         [] n.t = "spread" -> Show(c[1]) \o <<"...">>
         [] n.t = "member" -> At(c[1], 15) \o <<".">> \o Show(c[2])
         [] n.t = "index" -> At(c[1], 15) \o Tight("[", c[2].c, "]")
         [] n.t = "slice" -> At(c[1], 15) \o <<"[">> \o Opt(<<>>, c[2]) \o <<"..">> \o Opt(<<>>, c[3]) \o <<"]">>
         [] n.t = "variant_value" ->
                (IF c[1] = None THEN <<>> ELSE Joined(Show1(c[1].c), <<".">>)) \o <<".">> \o Show(c[2])
                \o (IF c[3].c # <<>> /\ c[3].c[1].t # "dot_field"
                    THEN Tight("(", c[3].c, ")") ELSE Loose("{", c[3].c, "}"))
         [] n.t = "dot" -> <<".">> \o Show(c[1])
         [] n.t = "dot_field" -> <<".">> \o Show(c[1]) \o <<"=">> \o Show(c[2])
         [] n.t = "empty" -> <<"{", "}">>
         [] n.t = "struct_value" -> Loose("{", c, "}")
         [] n.t = "bitset_value" -> <<"{">> \o Joined([i \in DOMAIN c |-> <<".">> \o Show(c[i])], BrkComma) \o <<"brk", "}">>
         [] n.t = "array_value" ->
                LET fill == c[Len(c)].t = "fill"
                    vs == [i \in 1..(Len(c) - (IF fill THEN 1 ELSE 0)) |->
                             IF i = 1 THEN FirstValue(c[1]) ELSE Show(c[i])]
                IN <<"{", "brk">> \o Joined(vs, BrkComma) \o (IF fill THEN <<"...", "}">> ELSE <<"brk", "}">>)
         [] n.t = "cast" -> <<"cast", "(">> \o Show(c[1]) \o BrkComma \o Show(c[2]) \o Opt(<<",">>, c[3]) \o <<")">>
         [] n.t = "intrinsic" -> n.w \o <<"(">> \o Show(c[1]) \o <<")">>
         [] n.t = "dollar" -> <<"$">> \o n.w \o (IF c = <<>> THEN <<>>
                                                ELSE <<"(">> \o Show(c[1]) \o Opt(<<",">>, c[2]) \o <<")">>)
         [] n.t \in {"import", "import_bin"} -> <<n.t, "(">> \o Show(c[1]) \o <<")">>
         [] n.t = "match" -> <<"match">> \o Show(c[1]) \o Loose("{", c[2].c, "}")
         [] n.t = "arm" -> Show(c[1]) \o <<":">> \o Show(c[2])
         [] n.t = "variant" -> <<".">> \o Show(c[1]) \o (IF Len(c) = 1 THEN <<>>
                                   ELSE <<"(">> \o Is(c[2], "&") \o Show(c[3]) \o <<")">>)
         [] n.t = "otherwise" -> <<"_">>
         [] n.t = "asm_value" -> <<"asm", "->">> \o Show(c[1]) \o Opt(<<":">>, c[2]) \o <<"{">> \o c[3].w \o <<"}">>

ShowType(n) ==
    LET c == n.c
    IN CASE n.t = "qualified" -> Show(c[1]) \o <<".">> \o Show(c[2])
         [] n.t = "instance" -> Show(c[1]) \o Tight("[", c[2].c, "]")
         [] n.t = "pointer" -> <<"*">> \o Show(c[1])
         [] n.t = "slice_type" -> <<"[", "]">> \o Show(c[1])
         [] n.t = "array_type" -> <<"[">> \o (IF c[1] = None THEN <<"?">> ELSE Show(c[1])) \o <<"]">> \o Show(c[2])
         [] n.t = "struct" -> <<"struct">> \o (IF c[1] = None THEN <<>> ELSE <<"(", "packed", ")">>) \o Members(c[2].c)
         [] n.t = "struct_field" -> Show(c[1]) \o Opt(<<"=">>, c[2])
         [] n.t = "enum" -> <<"enum">> \o (IF c[1] = None THEN <<>> ELSE <<"(">> \o Show(c[1]) \o <<")">>) \o Members(c[2].c)
         [] n.t = "enum_field" -> Show(c[1]) \o Opt(<<"=">>, c[2])
         [] n.t = "union" -> <<"union">> \o (IF c[1] = None THEN <<>> ELSE <<"(", "enum", ")">>) \o Members(c[2].c)
         [] n.t = "member_decl" -> Show(c[1]) \o Opt(<<":">>, c[2])
         [] n.t = "error" -> <<"error", "(">> \o Joined(Show1(c[1].c), <<"|">>) \o <<")">>
         [] n.t = "bitset" -> <<"bitset", "(">> \o Show(c[1]) \o Opt(<<",">>, c[2]) \o <<")">>
         [] n.t = "fn_type" -> <<"fn">> \o Loose("(", c[1].c, ")") \o Rets(c[2])
         [] n.t = "dots" -> <<"...">>
         [] n.t = "documented" -> (IF c[1] = None THEN <<>> ELSE Show(c[1]) \o <<":">>) \o Show(c[2])
         [] n.t = "optional" -> <<"?">> \o Show(c[1])
         [] n.t = "trait" -> <<"trait">> \o (IF c[1].c = <<>> THEN <<>> ELSE Tight("(", c[1].c, ")"))
                             \o (IF c[2].c = <<>> THEN <<>> ELSE Members(c[2].c))
         [] n.t = "trait_method" -> Attributes(c[1]) \o <<"fn">> \o Show(c[2]) \o SelfParams(c[3]) \o Rets(c[4])
         [] n.t = "typed" -> Show(c[1]) \o <<":">> \o Show(c[2])
         [] n.t = "ext_param" -> Show(c[1]) \o Opt(<<"=">>, c[2])
         [] n.t = "param" -> Is(c[1], "mut") \o Show(c[2])
                             \o (IF c[3] = None THEN <<":=">> \o Show(c[4])
                                 ELSE <<":">> \o Show(c[3]) \o Opt(<<"=">>, c[4]))
         [] n.t = "variadic_param" -> Is(c[1], "mut") \o Show(c[2]) \o <<":", "...">> \o Show(c[3])
         [] n.t = "attribute" -> Show(c[1]) \o (IF c[2].c = <<>> THEN <<>> ELSE Tight("(", c[2].c, ")"))

ShowStmt(n) ==
    LET c == n.c
    IN CASE n.t = "block" -> Members(c)
         [] n.t = "var" -> (IF c[1] = None THEN <<"const">> ELSE <<"mut">>) \o Show(c[2])
                           \o (IF c[3] = None THEN <<":=">> \o Show(c[4])
                               ELSE <<":">> \o Show(c[3]) \o Opt(<<"=">>, c[4]))
         [] n.t = "vars" -> (IF c[1] = None THEN <<"const">> ELSE <<"mut">>)
                            \o Joined(Show1(c[2].c), BrkComma) \o <<":=">> \o Show(c[3])
         [] n.t = "when" -> <<"when">> \o Show(c[1]) \o Show(c[2]) \o Opt(<<"else">>, c[3])
         [] n.t = "list" -> Members(c)
         [] n.t = "if" -> <<"if">> \o Show(c[1]) \o Show(c[2]) \o Opt(<<"else">>, c[3])
         [] n.t = "while" -> <<"while">> \o Show(c[1]) \o Show(c[2])
         [] n.t = "for" -> <<"for">> \o (IF c[1] = None THEN <<>> ELSE Show(c[1]) \o <<",">>)
                           \o Is(c[2], "&") \o Show(c[3]) \o <<"in">> \o Show(c[4]) \o Show(c[5])
         [] n.t = "range" -> Opt(<<>>, c[1]) \o <<"..">> \o Show(c[2])
         [] n.t = "return" -> n.w \o Joined(Show1(c), BrkComma)
         [] n.t = "switch" -> <<"switch">> \o Show(c[1]) \o Loose("{", c[2].c, "}")
         [] n.t = "asm_stmt" -> <<"asm", "{">> \o c[1].w \o <<"}">>
         [] n.t = "defer" -> <<"defer">> \o Show(c[1])

ShowDecl(n) ==
    LET c == n.c
    IN CASE n.t = "fn" -> Attributes(c[1]) \o Is(c[2], "pub") \o <<"fn">> \o Show(c[3]) \o Generics(c[4])
                          \o Loose("(", c[5].c, ")") \o Rets(c[6]) \o Show(c[7])
         [] n.t = "ext_fn" -> Attributes(c[1]) \o Is(c[2], "pub") \o <<"ext", "fn">> \o Show(c[3])
                              \o Loose("(", c[4].c, ")") \o Opt(<<"->">>, c[5])
         [] n.t = "macro" -> Is(c[1], "pub") \o <<"macro">> \o Show(c[2]) \o Loose("(", c[3].c, ")")
                             \o Opt(<<":">>, c[4]) \o <<"->", "brk">> \o Show(c[5])
         [] n.t = "type_decl" -> Is(c[1], "pub") \o <<"type">> \o Show(c[2]) \o Generics(c[3]) \o <<"=">> \o Show(c[4])
         [] n.t = "global" -> Attributes(c[1]) \o Is(c[2], "pub") \o Show(c[3])
         [] n.t = "impl" -> <<"impl">> \o (IF c[1] = None THEN <<>> ELSE Show(c[1]) \o <<"for">>)
                            \o Show(c[2]) \o Generics(c[3]) \o Members(c[4].c)
         [] n.t = "method" -> Attributes(c[1]) \o Is(c[2], "pub") \o <<"fn">> \o Show(c[3]) \o SelfParams(c[4])
                              \o Rets(c[5]) \o Show(c[6])
         [] n.t = "link" -> <<"#", "link", "(">> \o Show(c[1]) \o <<",">> \o Show(c[2]) \o <<")">>
         [] n.t = "directive" -> <<"#">> \o n.w \o <<"(">> \o Show(c[1]) \o <<")">>

TypeTags == {"qualified", "instance", "pointer", "slice_type", "array_type", "struct", "struct_field",
    "enum", "enum_field", "union", "member_decl", "error", "bitset", "fn_type", "dots", "documented", "optional",
    "trait", "trait_method", "typed", "ext_param", "param", "variadic_param", "attribute"}
StmtTags == {"block", "var", "vars", "when", "list", "if", "while", "for", "range", "return", "switch",
    "asm_stmt", "defer"}
DeclTags == {"fn", "ext_fn", "macro", "type_decl", "global", "impl", "method", "link", "directive"}
Show(n) ==
    CASE n.t = "string" -> <<"QUOTE">> \o n.w \o <<"QUOTE">>
      [] n.t = "char" -> <<"TICK">> \o n.w \o <<"TICK">>
      [] n.t \in {"name", "int", "float", "literal", "builtin"} -> n.w
      [] n.t \in {"break", "continue"} -> <<n.t>>
      [] n.t \in TypeTags -> ShowType(n)
      [] n.t \in StmtTags -> ShowStmt(n)
      [] n.t \in DeclTags -> ShowDecl(n)
      [] OTHER -> ShowExpr(n)

-----------------------------------------------------------------------------
(***************************************************************************)
(* Layout.  On one line: ';' ends what a line end would, and a blank keeps *)
(* apart two words, or two marks.  On many: a line end, behind a comment.  *)
(***************************************************************************)
Spelling == [m \in Compound |->
    CASE m = ".." -> <<".", ".">> [] m = "..." -> <<".", ".", ".">> [] m = "++" -> <<"+", "+">>
      [] m = "+=" -> <<"+", "=">> [] m = "--" -> <<"-", "-">> [] m = "-=" -> <<"-", "=">>
      [] m = "->" -> <<"-", ">">> [] m = "*=" -> <<"*", "=">> [] m = "/=" -> <<"/", "=">>
      [] m = "&&" -> <<"&", "&">> [] m = "&=" -> <<"&", "=">> [] m = "||" -> <<"|", "|">>
      [] m = "|=" -> <<"|", "=">> [] m = "^=" -> <<"^", "=">> [] m = "==" -> <<"=", "=">>
      [] m = "!=" -> <<"!", "=">> [] m = "<=" -> <<"<", "=">> [] m = "<<" -> <<"<", "<">>
      [] m = "<<=" -> <<"<", "<", "=">> [] m = ">=" -> <<">", "=">> [] m = ">>" -> <<">", ">">>
      [] m = ">>=" -> <<">", ">", "=">> [] m = ":=" -> <<":", "=">> [] m = "~=" -> <<"~", "=">>]
Symbols(tok) == IF tok \in Compound THEN Spelling[tok] ELSE <<tok>>
IsMark(tok) == tok \in Compound \cup Simple
Quoting(tok) == tok \in {"QUOTE", "TICK"}
Blank(x, y) == ~Quoting(x) /\ ~Quoting(y) /\ (IsMark(x) <=> IsMark(y))

Laid(tok, many) ==
    CASE tok = "sep" -> IF many THEN <<"/", "/", "a", "NL">> ELSE <<";">>
      [] tok = "brk" -> IF many THEN <<"NL">> ELSE <<>>
      [] OTHER -> Symbols(tok)
Layout(toks, many) ==
    LET shown == IF many THEN toks ELSE SelectSeq(toks, LAMBDA t : t # "brk")
        Gap(i) == IF i > 1 /\ shown[i - 1] \notin {"sep", "brk"} /\ Blank(shown[i - 1], shown[i])
                  THEN <<" ">> ELSE <<>>
    IN Cat([i \in DOMAIN shown |-> Gap(i) \o Laid(shown[i], many)])

-----------------------------------------------------------------------------
(***************************************************************************)
(* Trees.                                                                  *)
(***************************************************************************)
Nm(w) == Leaf("name", <<w>>)
A == Nm("a")
B == Nm("b")
L(ns) == N("list", ns)
One == Leaf("int", <<"1">>)
I32 == Leaf("builtin", <<"i32">>)
Str == Leaf("string", <<"a">>)

\* Every form of expression, around one given subexpression.
Around(x) ==
    { Op("binary", op, <<x, B>>) : op \in {"||", "in", "|", "^", "&", "==", "<", ">>", "-", "*"} }
    \cup { Op("binary", op, <<A, x>>) : op \in {"&&", "in", "|", "^", "&", "!=", "<=", "<<", "+", "-", "/"} }
    \cup { Op("assign", "=", <<x, B>>), Op("assign", "<<=", <<A, x>>),
           N("when_value", <<x, A, B>>), N("when_value", <<A, x, B>>), N("when_value", <<A, B, x>>),
           N("ternary", <<x, A, B>>), N("ternary", <<A, x, B>>), N("ternary", <<A, B, x>>),
           Op("unary", "-", <<x>>), Op("unary", "~", <<x>>), Op("unary", "&", <<x>>), Op("prefix", "--", <<x>>),
           Op("unary", ".*", <<x>>), Op("postfix", "++", <<x>>), N("try", <<x>>),
           N("call", <<x, L(<<A, N("spread", <<B>>)>>)>>), N("call", <<A, L(<<x, B>>)>>),
           N("member", <<x, A>>), N("index", <<x, L(<<A>>)>>), N("index", <<A, L(<<x, I32>>)>>),
           N("slice", <<x, A, None>>), N("slice", <<A, None, x>>), N("slice", <<A, x, B>>),
           N("variant_value", <<None, A, L(<<N("dot_field", <<B, x>>)>>)>>),
           N("variant_value", <<None, A, L(<<x>>)>>),
           N("variant_value", <<N("path", <<A, B>>), A, L(<<N("dot_field", <<B, x>>)>>)>>),
           N("struct_value", <<N("dot_field", <<A, x>>), N("dot_field", <<B, One>>)>>),
           N("array_value", <<x, A>>), N("array_value", <<A, x, N("fill", <<>>)>>),
           N("cast", <<x, I32, None>>), N("cast", <<A, N("slice_type", <<I32>>), x>>),
           Op("intrinsic", "size_of", <<x>>), Op("intrinsic", "len", <<x>>),
           N("match", <<x, L(<<N("arm", <<N("variant", <<A>>), One>>), N("arm", <<N("otherwise", <<>>), B>>)>>)>>),
           N("match", <<A, L(<<N("arm", <<N("variant", <<A, N("by_ref", <<>>), B>>), x>>), N("arm", <<x, B>>)>>)>>) }
Plain == {A, One, N("dot", <<A>>), N("empty", <<>>), N("bitset_value", <<A, B>>), Str,
          Leaf("char", <<"a">>), Leaf("literal", <<"nil">>), Leaf("literal", <<"iota">>),
          Op("dollar", "rtti_enabled", <<>>), Op("dollar", "env", <<Str, One>>),
          Op("dollar", "option", <<Str, None>>), N("import_bin", <<Str>>),
          N("asm_value", <<Nm("rax"), I32, Leaf("asm", <<"n">>)>>)}
\* An arm's pattern that starts with '.' is a variant; a struct value never starts one.
Sensible(n) == ~(n.t = "match" /\ n.c[2].c[2].t = "arm"
                 /\ n.c[2].c[2].c[1] # N("otherwise", <<>>)
                 /\ Show(n.c[2].c[2].c[1])[1] \in {".", "_"})
Exprs == {n \in UNION {Around(x) : x \in Plain \cup {n \in Around(A) : Sensible(n)}} : Sensible(n)} \cup Plain
Global(e) == L(<<N("global", <<L(<<>>), None, N("var", <<N("mut", <<>>), A, None, e>>)>>)>>)

Types == LET Over(t) == { N("pointer", <<t>>), N("slice_type", <<t>>), N("array_type", <<None, t>>),
                          N("array_type", <<One, t>>),
                          N("struct", <<N("packed", <<>>), L(<<N("struct_field", <<N("typed", <<A, t>>), None>>),
                                                             N("struct_field", <<N("typed", <<B, I32>>), One>>)>>)>>),
                          N("enum", <<I32, L(<<N("enum_field", <<A, None>>), N("enum_field", <<B, One>>)>>)>>),
                          N("enum", <<None, L(<<>>)>>),
                          N("union", <<N("tagged", <<>>), L(<<N("member_decl", <<A, t>>), N("member_decl", <<B, None>>)>>)>>),
                          N("union", <<None, L(<<N("member_decl", <<A, t>>)>>)>>),
                          N("error", <<L(<<A, B>>)>>), N("bitset", <<A, I32>>), N("bitset", <<A, None>>),
                          N("qualified", <<A, B>>), N("instance", <<A, L(<<I32, One>>)>>),
                          N("fn_type", <<L(<<N("documented", <<A, t>>), N("documented", <<None, I32>>), N("dots", <<>>)>>), L(<<t>>)>>),
                          N("fn_type", <<L(<<>>), L(<<t, N("optional", <<B>>)>>)>>),
                          N("trait", <<L(<<A, B>>), L(<<>>)>>),
                          N("trait", <<L(<<A>>), L(<<N("trait_method",
                              <<L(<<N("attribute", <<Nm("naked"), L(<<>>)>>)>>), B,
                                N("self", <<N("mut", <<>>), L(<<N("param", <<None, A, t, None>>)>>)>>), L(<<N("documented", <<None, t>>)>>)>>)>>)>>) }
         IN Over(I32) \cup UNION {Over(t) : t \in Over(A)}

Blk(ss) == N("block", ss)
Call == N("call", <<A, L(<<>>)>>)
Var(init) == N("var", <<N("mut", <<>>), A, I32, init>>)
Inner == { Blk(<<>>), Blk(<<Call>>), Op("return", "return", <<>>), Op("return", "return_ok", <<A, B>>),
           N("break", <<>>), Call, Op("assign", "+=", <<A, One>>) }
StmtsOver(s) ==
    { N("if", <<A, s, None>>), N("if", <<A, Blk(<<s>>), s>>),
      N("while", <<Op("binary", "<", <<A, B>>), Blk(<<s, s>>)>>),
      N("for", <<None, None, A, N("range", <<None, One>>), Blk(<<s>>)>>),
      N("for", <<A, N("by_ref", <<>>), B, A, Blk(<<s>>)>>),
      N("for", <<None, N("by_ref", <<>>), B, N("range", <<One, A>>), Blk(<<s>>)>>),
      N("when", <<A, Blk(<<s>>), N("when", <<B, Blk(<<>>), Blk(<<s>>)>>)>>),
      N("defer", <<s>>),
      N("switch", <<N("member", <<A, B>>),
                    L(<<N("arm", <<N("variant", <<A, None, B>>), Blk(<<s>>)>>), N("arm", <<One, Blk(<<s, s>>)>>),
                        N("arm", <<N("otherwise", <<>>), Op("return", "return", <<A>>)>>)>>)>>) }
\* An unbraced return in an arm has one value, and an 'if' takes no line end before 'else'.
Stmts == UNION {StmtsOver(s) : s \in Inner}
         \cup { Var(None), Var(One), N("var", <<None, A, None, One>>), N("vars", <<None, L(<<A, B>>), Call>>),
                N("asm_stmt", <<Leaf("asm", <<"n">>)>>), Op("return", "return_err", <<N("dot", <<A>>)>>),
                N("link", <<Nm("lib"), Str>>), Op("directive", "warn", <<Str>>),
                N("if", <<A, N("if", <<B, Blk(<<>>), Blk(<<Call>>)>>), None>>) }

Fn(name, params, rets, body) == N("fn", <<L(<<>>), None, name, L(<<>>), L(params), L(rets), body>>)
InFn(s) == L(<<Fn(A, <<>>, <<>>, Blk(<<s, Var(One)>>))>>)
Param == N("param", <<N("mut", <<>>), A, I32, None>>)
Naked == N("attribute", <<Nm("naked"), L(<<>>)>>)
Ret(t) == N("documented", <<None, t>>)
Method(ps) == N("method", <<L(<<Naked, Naked>>), None, A, N("self", <<None, L(ps)>>), L(<<Ret(I32)>>), Blk(<<Call>>)>>)
Decls == { Fn(A, <<Param, N("param", <<None, B, None, One>>), N("variadic_param", <<None, B, I32, None>>)>>,
              <<Ret(A), N("documented", <<B, N("optional", <<A>>)>>)>>, Blk(<<Call>>)),
           N("fn", <<L(<<N("attribute", <<Nm("section"), L(<<Str>>)>>)>>), N("pub", <<>>), A,
                     L(<<N("typed", <<A, Leaf("builtin", <<"type">>)>>)>>), L(<<>>), L(<<Ret(I32)>>), Blk(<<>>)>>),
           N("ext_fn", <<L(<<N("attribute", <<Nm("import"), L(<<>>)>>)>>), None, A,
                         L(<<N("ext_param", <<N("typed", <<A, I32>>), One>>), N("dots", <<>>)>>), I32>>),
           N("ext_fn", <<L(<<>>), N("pub", <<>>), A, L(<<>>), None>>),
           N("macro", <<None, A, L(<<N("typed", <<A, I32>>), N("typed", <<B, I32>>)>>), I32, Op("binary", "+", <<A, B>>)>>),
           N("impl", <<None, A, L(<<N("typed", <<A, I32>>)>>), L(<<Method(<<Param>>), Method(<<>>)>>)>>),
           N("impl", <<A, B, L(<<>>), L(<<Method(<<>>)>>)>>),
           N("when", <<A, L(<<N("import", <<Str>>), N("link", <<Nm("lib"), Str>>)>>), L(<<>>)>>),
           N("global", <<L(<<Naked>>), None, N("var", <<None, A, None, N("member", <<N("import", <<Str>>), A>>)>>)>>),
           Op("directive", "compile_only_if", <<A>>), Op("directive", "error", <<Str>>), N("import", <<Str>>) }
Trees == {L(<<N("type_decl", <<None, A, L(<<>>), t>>)>>) : t \in Types}
         \cup {InFn(s) : s \in Stmts}
         \cup {L(<<d, e>>) : d \in Decls, e \in Decls}
Tokens(t) == Cat([i \in DOMAIN t.c |-> Show(t.c[i]) \o <<"sep">>])
WrittenOut(t, layouts) == LET toks == Tokens(t)
                          IN {[src |-> Layout(toks, many), meant |-> t] : many \in layouts}
Written == UNION { WrittenOut(Global(e), {TRUE}) : e \in Exprs } \cup UNION { WrittenOut(t, BOOLEAN) : t \in Trees }

-----------------------------------------------------------------------------
(***************************************************************************)
(* Texts that need not be well formed.                                     *)
(***************************************************************************)
Raw(src) == [src |-> src, meant |-> None]
Start4(S) == UNION {[1..n -> S] : n \in 1..4}
\* What the lexical rules turn on: numbers, strings and characters, comments, marks,
\* and the window in which the body of 'asm -> reg' is awaited.
Snippets == Start4({"0", "7", "x", "e", ".", "_", "+"})
            \cup Start4({QUOTE, TICK, BACKSLASH, NL, "x", "7"})
            \cup Start4({"/", "*", NL, "a", " "})
            \cup Start4({".", "<", ">", "=", "-"})
            \cup {<<TICK, u, v, w>> : u, v, w \in {NON_ASCII, CONTINUATION, TICK}}
            \cup {<<"asm">> \o f : f \in Start4({"-", ">", "{", "}", "a", NL})}
            \cup {<<"asm", "-", ">", "rax">> \o [i \in 1..n |-> "*"] \o <<"{", "n", "}">> :
                     n \in (HEADER_BUDGET - 4)..(HEADER_BUDGET + 1)}
AsInitializer(f) == Raw(<<"mut", " ", "a", ":", "=">> \o f)

\* A text with one token struck out, replaced, or put in front, or cut off there.
Edits(ts, i, tok) == { SubSeq(ts, 1, i - 1) \o SubSeq(ts, i + 1, Len(ts)),
                       SubSeq(ts, 1, i - 1) \o <<tok>> \o SubSeq(ts, i + 1, Len(ts)),
                       SubSeq(ts, 1, i - 1) \o <<tok>> \o SubSeq(ts, i, Len(ts)),
                       SubSeq(ts, 1, i) \o <<tok>> }
Sturdy == { L(<<d>>) : d \in Decls }
          \cup { InFn(s) : s \in StmtsOver(Call) }
          \cup { L(<<N("type_decl", <<None, A, L(<<>>), t>>)>>) :
                    t \in {u \in Types : u.t \in {"struct", "enum", "union", "error", "trait", "fn_type"}
                                         /\ Cardinality(Range(Show(u))) > 5 /\ Len(Show(u)) < 20} }
Damaged == UNION { LET ts == Tokens(t)
                   IN UNION {Edits(ts, i, tok) : i \in DOMAIN ts,
                                                 tok \in {"}", ",", "fn"}} : t \in Sturdy }

\* Two declarations run together.
RunOn == {Raw(<<"fn", " ", "a", "(", ")", "{", "mut", " ", "a", ":", "=", "7", sep, "b", ":", "=", "a", "NL", "}">>) :
             sep \in {",", " "}}

MCFiles == RunOn \cup Written \cup {AsInitializer(f) : f \in Snippets} \cup {Raw(Layout(ts, TRUE)) : ts \in Damaged}
=============================================================================
