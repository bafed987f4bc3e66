------------------------------- MODULE Parser -------------------------------
(***************************************************************************)
(* The recursive-descent parser, src/compiler/ast.cpp and ast_parser.cpp:  *)
(* expressions, types, statements, declarations, and the recovery from     *)
(* errors.                                                                 *)
(*                                                                         *)
(* A parser is a record: the tokens, the cursor, the diagnostics, the      *)
(* comma_terminates_stmt flag, and the node parsed last.  Each parse_*     *)
(* takes one and returns one.  'stuck' marks a loop that came round        *)
(* without having consumed a token: the program would spin there for ever. *)
(*                                                                         *)
(* A node is [t, w, c]: a tag, the lexeme of a leaf, and the children in   *)
(* source order.                                                           *)
(***************************************************************************)
EXTENDS Integers, Sequences, FiniteSets, SequencesExt, TLC

CONSTANTS MaxErrors,        \* MAX_ERRORS, past which nothing is reported
          LiteralMax,       \* the largest integer literal, 2^64 - 1
          FloatExpMax       \* the decades an f64 reaches either way, 308

N(tag, children) == [t |-> tag, w |-> <<>>, c |-> children]
Leaf(tag, lexeme) == [t |-> tag, w |-> lexeme, c |-> <<>>]
None == N("none", <<>>)
Flag(name, on) == IF on THEN N(name, <<>>) ELSE None

NewParser(toks, errs) == [toks |-> toks, pos |-> 1, errs |-> errs, comma |-> FALSE,
                          stuck |-> FALSE, node |-> None]

-----------------------------------------------------------------------------
(***************************************************************************)
(* The cursor.                                                             *)
(***************************************************************************)
current(p) == p.toks[p.pos]
peek_at(p, n) == p.toks[IF p.pos + n <= Len(p.toks) THEN p.pos + n ELSE Len(p.toks)]
Cur(p) == current(p).k
check(p, k) == Cur(p) = k
check_at(p, n, k) == p.pos + n <= Len(p.toks) /\ p.toks[p.pos + n].k = k
at_eof(p) == check(p, "EOF")
advance(p) == IF at_eof(p) THEN p ELSE [p EXCEPT !.pos = @ + 1]
IsWord(tok, w) == tok.k = "ID" /\ tok.w = <<w>>

has_reached_max_errors(p) == Cardinality(p.errs) >= MaxErrors
\* Nothing past the cap, and nothing twice: the reports are a set.
ReportAt(p, at, why) == IF has_reached_max_errors(p) THEN p
                        ELSE [p EXCEPT !.errs = @ \cup {<<"parser", at, why>>}]
report_error(p, why) == ReportAt(p, current(p).at, why)

expect(p, k) == IF check(p, k) THEN advance(p) ELSE report_error(p, k)
Optionally(p, k) == IF check(p, k) THEN advance(p) ELSE p

With(p, node) == [p EXCEPT !.node = node]
\* The identifier at the cursor, as a leaf.
expect_identifier(p) ==
    IF check(p, "ID") THEN With(advance(p), Leaf("name", current(p).w))
    ELSE With(report_error(p, "identifier"), Leaf("name", current(p).w))
Absent(p) == With(p, None)

RECURSIVE skip_semicolons(_)
skip_semicolons(p) == IF check(p, ";") THEN skip_semicolons(advance(p)) ELSE p

\* The end of a loop's turn that began at b: a turn that consumed nothing is made
\* to consume one token.
MutProgressGuard(b, p) == p
LoopProgressGuard(b, p) ==
    IF ~at_eof(p) /\ current(p).at = current(b).at THEN advance(p) ELSE p
\* The turn is over; if the cursor is where it was the loop never ends.
TurnOver(b, p) == IF p.pos = b.pos /\ ~at_eof(p) THEN [p EXCEPT !.stuck = TRUE] ELSE p

BuiltinTypes == {"u8", "i32", "usize", "bool", "anyptr", "type", "any"}
starts_type_only(p) ==
    Cur(p) \in {"*", "[", "struct", "enum", "union", "bitset", "fn", "trait", "error"}
               \cup BuiltinTypes

can_start_expr(k) ==
    k \in {"ID", "INT", "FLOAT", "STR", "CHR", "$", "++", "--", "true", "false", "nil", "(",
           "-", "!", "~", "&", "cast", "size_of", "align_of", "type_of", "type_info_of",
           "stackalloc", "len", "import_bin", "default", "undefined", "match", "try", "iota",
           ".", "{", "asm"}
is_asi_gotcha_candidate(p) ==
    check(p, ";") /\ current(p).w = <<>> /\ can_start_expr(peek_at(p, 1).k)

\* Every rule of the grammar that others call, by name; 'before' is what its list
\* holds so far.
RECURSIVE Rule(_, _, _)
Expr(p) == Rule(p, "expr", <<>>)
Type(p) == Rule(p, "type", <<>>)
Stmt(p) == Rule(p, "stmt", <<>>)
Decl(p) == Rule(p, "decl", <<>>)
Unary(p) == Rule(p, "unary", <<>>)

-----------------------------------------------------------------------------
(***************************************************************************)
(* The two shapes of list: elements set apart by commas up to a closing    *)
(* mark, and members that need no separator, up to a closing brace.        *)
(***************************************************************************)
Listed(p, acc) == With(p, N("list", acc))

\* '...' closes the parameter list of an 'ext fn' and of a function type; in the
\* parameter list of a 'fn' it is reported.
EndsInDots(p, what) == check(p, "...") /\ what \in {"param", "ext_param", "fn_type_param"}
Dots(p, what, acc) ==
    LET bad == what = "param" \/ (what = "ext_param" /\ acc = <<>>)
    IN Listed(advance(IF bad THEN report_error(p, "variadic") ELSE p),
              IF what = "param" THEN acc ELSE Append(acc, N("dots", <<>>)))

RECURSIVE CommaList(_, _, _, _)
CommaList(p, what, close, acc) ==
    IF check(p, close) \/ at_eof(p) THEN Listed(p, acc)
    ELSE IF EndsInDots(p, what) THEN Dots(p, what, acc)
    ELSE LET e == Rule(p, what, acc)
             s == IF what \in {"generic_arg", "generic_param"} THEN e ELSE skip_semicolons(e)
             q == IF check(s, close) THEN s ELSE expect(s, ",")
             g == TurnOver(p, LoopProgressGuard(p, q))
         IN IF g.stuck THEN Listed(g, acc) ELSE CommaList(g, what, close, Append(acc, e.node))
Framed(p, open, what, close) ==
    LET l == CommaList(expect(p, open), what, close, <<>>) IN With(expect(l, close), l.node)

RECURSIVE MemberList(_, _, _)
MemberList(p, what, acc) ==
    LET s == skip_semicolons(p)
    IN IF check(s, "}") \/ at_eof(s) \/ has_reached_max_errors(s) THEN Listed(s, acc)
       ELSE LET e == Rule(s, what, <<>>)
                g == TurnOver(s, LoopProgressGuard(s, e))
                members == IF e.node = None THEN acc ELSE Append(acc, e.node)
            IN IF g.stuck THEN Listed(g, members) ELSE MemberList(g, what, members)
Body(p, what) ==
    LET l == MemberList(expect(p, "{"), what, <<>>) IN With(expect(l, "}"), l.node)

\* One element, then one more for each separator that follows.
RECURSIVE Separated(_, _, _, _)
Separated(p, what, sep, acc) ==
    LET e == Rule(p, what, acc)
        all == Append(acc, e.node)
    IN IF check(e, sep) THEN Separated(advance(e), what, sep, all) ELSE Listed(e, all)

-----------------------------------------------------------------------------
(***************************************************************************)
(* Types.                                                                  *)
(***************************************************************************)
RECURSIVE parse_named_type(_, _)
parse_named_type(p, allow_generic_args) ==
    LET n == expect_identifier(p)
        m == parse_named_type(advance(n), allow_generic_args)
        g == Framed(n, "[", "generic_arg", "]")
    IN IF check(n, ".") THEN With(m, N("qualified", <<n.node, m.node>>))
       ELSE IF allow_generic_args /\ check(n, "[")
       THEN With(g, N("instance", <<n.node, g.node>>))
       ELSE n

parse_generic_arg(p) == IF starts_type_only(p) THEN Type(p) ELSE Expr(p)
parse_generic_args(p) == Framed(p, "[", "generic_arg", "]")
\* 'IDENT : type', also the shape of a macro's parameters.
parse_generic_param(p) ==
    LET n == expect_identifier(p)
        t == Type(expect(n, ":"))
    IN With(t, N("typed", <<n.node, t.node>>))
parse_generic_params(p) ==
    IF check(p, "[") THEN Framed(p, "[", "generic_param", "]") ELSE Listed(p, <<>>)

\* '= expr', if it is there.
Initializer(p) == IF check(p, "=") THEN Expr(advance(p)) ELSE Absent(p)

parse_struct_field(p) ==
    LET t == parse_generic_param(p)
        i == Initializer(t)
    IN With(i, N("struct_field", <<t.node, i.node>>))
parse_struct_type(p) ==
    LET s == expect(p, "struct")
        o == advance(s)
        packed == IsWord(current(o), "packed")
        q == IF packed THEN advance(o) ELSE Optionally(report_error(o, "packed"), "ID")
        b == Body(IF check(s, "(") THEN expect(q, ")") ELSE s, "struct_field")
    IN With(b, N("struct", <<Flag("packed", check(s, "(") /\ packed), b.node>>))

parse_enum_field(p) ==
    LET n == expect_identifier(p)
        i == Initializer(n)
    IN With(i, N("enum_field", <<n.node, i.node>>))
parse_enum_type(p) ==
    LET s == expect(p, "enum")
        u == Type(advance(s))
        h == IF check(s, "(") THEN With(expect(u, ")"), u.node) ELSE Absent(s)
        b == Body(h, "enum_field")
    IN With(b, N("enum", <<h.node, b.node>>))

\* A union member; only a tagged union's may go without a payload, and a default
\* is reported and dropped.
parse_union_member(p, tagged) ==
    LET n == expect_identifier(p)
        t == Type(expect(n, ":"))
        d == IF ~tagged /\ check(t, "=")
             THEN Expr(advance(ReportAt(t, current(p).at, "union_default"))) ELSE t
    IN IF tagged /\ ~check(n, ":") THEN With(n, N("member_decl", <<n.node, None>>))
       ELSE With(d, N("member_decl", <<n.node, t.node>>))
parse_union_type(p) ==
    LET s == expect(p, "union")
        tagged == check(s, "(")
        h == IF tagged THEN expect(expect(advance(s), "enum"), ")") ELSE s
        b == Body(h, IF tagged THEN "variant" ELSE "union_member")
    IN With(b, N("union", <<Flag("tagged", tagged), b.node>>))

parse_error_type(p) ==
    LET l == Separated(expect(expect(p, "error"), "("), "named_type", "|", <<>>)
    IN With(expect(l, ")"), N("error", <<l.node>>))

parse_bitset_type(p) ==
    LET n == parse_named_type(expect(expect(p, "bitset"), "("), TRUE)
        s == IF check(n, ",") THEN Type(advance(n)) ELSE Absent(n)
    IN With(expect(s, ")"), N("bitset", <<n.node, s.node>>))

parse_array_or_slice_type(p) ==
    LET o == expect(p, "[")
        n == IF check(o, "?") THEN Absent(advance(o)) ELSE Expr(o)
        e == IF check(o, "]") THEN Type(advance(o)) ELSE Type(expect(n, "]"))
    IN With(e, IF check(o, "]") THEN N("slice_type", <<e.node>>)
               ELSE N("array_type", <<n.node, e.node>>))

\* A return slot, with its '?'.
parse_return_slot_type(p) ==
    IF ~check(p, "?") THEN Type(p)
    ELSE LET t == Type(advance(p)) IN With(t, N("optional", <<t.node>>))
\* 'IDENT :' in front of a return slot, or of a parameter of a function type.
parse_documented(p, what) ==
    LET named == check(p, "ID") /\ check_at(p, 1, ":")
        n == IF named THEN LET i == expect_identifier(p) IN With(expect(i, ":"), i.node)
             ELSE Absent(p)
        t == IF what = "ret" THEN parse_return_slot_type(n) ELSE Type(n)
    IN With(t, N("documented", <<n.node, t.node>>))

SlotType(slot) == IF slot.t = "documented" THEN slot.c[2] ELSE slot
\* '?' on any slot but the last is reported, once per slot.
report_misplaced_optional_errors(p, slots) ==
    FoldLeft(LAMBDA q, i : IF i < Len(slots) /\ SlotType(slots[i]).t = "optional"
                           THEN ReportAt(q, current(p).at - i, "optional") ELSE q,
             p, [i \in DOMAIN slots |-> i])
parse_return_type_clause(p, what) ==
    LET o == advance(p)
        one == Rule(o, what, <<>>)
        l == IF ~check(p, "->") THEN Listed(p, <<>>)
             ELSE IF check(o, "(") THEN Framed(o, "(", what, ")")
             ELSE Listed(one, <<one.node>>)
    IN report_misplaced_optional_errors(l, l.node.c)
parse_function_return_types(p) == parse_return_type_clause(p, "ret")
parse_function_type(p) ==
    LET a == Framed(expect(p, "fn"), "(", "fn_type_param", ")")
        r == parse_return_type_clause(a, "slot")
    IN With(r, N("fn_type", <<a.node, r.node>>))

-----------------------------------------------------------------------------
(***************************************************************************)
(* Parameters, attributes, traits.                                         *)
(***************************************************************************)
\* One parameter: 'mut'? IDENT ( ':' '...'? type ('=' default)? | ':=' default ).
\* A trait's parameters take neither 'mut' nor '...'.
parse_one_param(p, in_trait, before) ==
    LET m == IF in_trait THEN p ELSE Optionally(p, "mut")
        n == expect_identifier(m)
        late == ~in_trait /\ \E i \in DOMAIN before : before[i].t = "variadic_param"
        v == IF late THEN ReportAt(n, current(p).at, "variadic_last") ELSE n
        dots == check(advance(v), "...")
        h == CASE dots /\ in_trait -> advance(ReportAt(advance(v), current(p).at, "variadic_trait"))
               [] dots -> advance(advance(v))
               [] OTHER -> advance(v)
        t == IF check(v, ":") THEN Type(h) ELSE Absent(expect(v, ":="))
        d == IF ~check(v, ":") THEN Expr(t)
             ELSE IF dots /\ ~in_trait THEN Absent(t) ELSE Initializer(t)
    IN With(d, N(IF check(v, ":") /\ dots /\ ~in_trait THEN "variadic_param" ELSE "param",
                 <<Flag("mut", m.pos # p.pos), n.node, t.node, d.node>>))

\* The parameters after 'self', each led by a comma.
RECURSIVE MethodParams(_, _, _)
MethodParams(p, in_trait, acc) ==
    IF check(p, ")") \/ at_eof(p) THEN Listed(p, acc)
    ELSE LET e == parse_one_param(expect(p, ","), in_trait, acc)
             g == TurnOver(p, LoopProgressGuard(p, e))
         IN IF g.stuck THEN Listed(g, acc) ELSE MethodParams(g, in_trait, Append(acc, e.node))

parse_function_params(p) == Framed(p, "(", "param", ")")
parse_ext_function_param(p) ==
    LET t == parse_generic_param(p)
        d == Initializer(t)
    IN With(d, N("ext_param", <<t.node, d.node>>))

KnownAttributes == {"naked", "section", "import"}
parse_attribute_name(p) ==
    IF check(p, "import") THEN With(advance(p), Leaf("name", <<"import">>)) ELSE expect_identifier(p)
\* The name, reported when it is not a known one.
check_known_attribute_name(p, n, at) ==
    IF n.w \in {<<a>> : a \in KnownAttributes} THEN p ELSE ReportAt(p, at, "attribute")
parse_single_attribute(p) ==
    LET n == parse_attribute_name(expect(p, "@"))
        k == check_known_attribute_name(n, n.node, current(p).at)
        o == advance(k)
        a == CASE ~check(k, "(") -> Listed(k, <<>>)
               [] check(o, ")") -> Listed(advance(o), <<>>)
               [] OTHER -> LET l == Separated(o, "expr", ",", <<>>) IN With(expect(l, ")"), l.node)
    IN Listed(a, <<N("attribute", <<n.node, a.node>>)>>)

\* A '(' ... ')' span, skipped whole.
RECURSIVE SkipSpan(_, _)
SkipSpan(p, depth) ==
    IF at_eof(p) \/ depth = 0 THEN p
    ELSE SkipSpan(advance(p), CASE check(p, "(") -> depth + 1
                                [] check(p, ")") -> depth - 1
                                [] OTHER -> depth)
skip_parenthesized_span(p) == IF check(p, "(") THEN SkipSpan(advance(p), 1) ELSE p
\* A name of a grouped clause takes no arguments.
parse_grouped_attribute(p) ==
    LET n == parse_attribute_name(p)
        k == check_known_attribute_name(n, n.node, current(p).at)
        a == IF check(k, "(") THEN skip_parenthesized_span(report_error(k, "grouped_args")) ELSE k
    IN With(a, N("attribute", <<n.node, N("list", <<>>)>>))
parse_grouped_attributes(p) ==
    LET l == Separated(expect(expect(p, "@"), "("), "grouped_attribute", ",", <<>>)
    IN With(expect(l, ")"), l.node)
\* At most one clause, and the automatic semicolon after it.
parse_attribute_clause(p) ==
    IF ~check(p, "@") THEN Listed(p, <<>>)
    ELSE LET a == IF peek_at(p, 1).k = "(" THEN parse_grouped_attributes(p)
                  ELSE parse_single_attribute(p)
         IN skip_semicolons(a)

\* '( self' or '( mut self', and the rest of a method's parameters.
parse_self_and_params(p, at, in_trait) ==
    LET o == expect(p, "(")
        m == Optionally(o, "mut")
        s == expect_identifier(m)
        l == MethodParams(IF s.node.w = <<"self">> THEN s ELSE ReportAt(s, at, "self"), in_trait, <<>>)
    IN With(expect(l, ")"), N("self", <<Flag("mut", m.pos # o.pos), l.node>>))

parse_trait_method_decl(p) ==
    LET a == parse_attribute_clause(p)
        f == IF check(a, "pub") THEN advance(report_error(a, "pub_trait_method")) ELSE a
        n == expect_identifier(expect(f, "fn"))
        s == parse_self_and_params(n, current(a).at, TRUE)
        r == parse_function_return_types(s)
        b == IF check(r, "{") THEN Stmt(report_error(r, "trait_method_body")) ELSE r
    IN With(b, N("trait_method", <<a.node, n.node, s.node, r.node>>))

\* The traits composed: 'match(",")' first, then a guarded turn.
RECURSIVE ComposedTraits(_, _)
ComposedTraits(p, acc) ==
    LET n == parse_named_type(p, FALSE)
        g == IF acc = <<>> THEN n ELSE LoopProgressGuard(p, n)
        all == Append(acc, n.node)
    IN IF check(g, ",") THEN ComposedTraits(advance(g), all) ELSE Listed(g, all)
parse_trait_type(p) ==
    LET s == expect(p, "trait")
        c == ComposedTraits(advance(s), <<>>)
        h == IF check(s, "(") THEN With(expect(c, ")"), c.node) ELSE Listed(s, <<>>)
        b == Body(h, "trait_method")
    IN IF h.node.c # <<>> /\ ~check(h, "{") THEN With(h, N("trait", <<h.node, N("list", <<>>)>>))
       ELSE With(IF b.node.c = <<>> THEN ReportAt(b, current(p).at, "empty_trait") ELSE b,
                 N("trait", <<h.node, b.node>>))

parse_type(p) ==
    CASE check(p, "?") -> Type(advance(report_error(p, "question")))
      [] check(p, "*") -> LET t == Type(advance(p)) IN With(t, N("pointer", <<t.node>>))
      [] check(p, "[") -> parse_array_or_slice_type(p)
      [] check(p, "struct") -> parse_struct_type(p)
      [] check(p, "enum") -> parse_enum_type(p)
      [] check(p, "union") -> parse_union_type(p)
      [] check(p, "error") -> parse_error_type(p)
      [] check(p, "bitset") -> parse_bitset_type(p)
      [] check(p, "fn") -> parse_function_type(p)
      [] check(p, "trait") -> parse_trait_type(p)
      [] check(p, "ID") -> parse_named_type(p, TRUE)
      [] Cur(p) \in BuiltinTypes -> With(advance(p), Leaf("builtin", current(p).w))
      [] OTHER -> Absent(ReportAt(advance(p), current(p).at, "type"))

-----------------------------------------------------------------------------
(***************************************************************************)
(* Literals.  An integer's value is spelled in decimal; the escapes of a   *)
(* string or character are decoded to the byte they stand for, spelled #n. *)
(***************************************************************************)
DigitValue == [c \in {"0", "1", "7", "e"} |->
                 CASE c = "0" -> 0 [] c = "1" -> 1 [] c = "7" -> 7 [] OTHER -> 14]
RECURSIVE Numeral(_)
Numeral(n) == IF n < 10 THEN <<ToString(n)>> ELSE Numeral(n \div 10) \o <<ToString(n % 10)>>

\* The value of the digits, or -1 when they do not fit.
DigitsValue(digits, base) ==
    FoldLeft(LAMBDA v, c : IF c = "_" \/ v < 0 THEN v
                           ELSE IF v > (LiteralMax - DigitValue[c]) \div base THEN 0 - 1
                           ELSE v * base + DigitValue[c],
             0, digits)
parse_literal_integer_expr(p) ==
    LET w == current(p).w
        base == IF Len(w) < 2 THEN 10
                ELSE CASE w[2] = "x" -> 16 [] w[2] = "b" -> 2 [] w[2] = "o" -> 8 [] OTHER -> 10
        v == DigitsValue(IF base = 10 THEN w ELSE SubSeq(w, 3, Len(w)), base)
        q == advance(p)
    IN IF v < 0 THEN With(ReportAt(q, current(p).at, "integer_range"), Leaf("int", <<"0">>))
       ELSE With(q, Leaf("int", Numeral(v)))

\* std::from_chars on a float: what it stops at leaves the literal malformed, and a value
\* whose leading digit is more than FloatExpMax decades from the point is out of range.
parse_float_literal(p) ==
    LET w == SelectSeq(current(p).w, LAMBDA c : c # "_")
        Index(c) == IF c \in Range(w) THEN SelectInSeq(w, LAMBDA d : d = c) ELSE Len(w) + 1
        sign == IF Index("e") < Len(w) /\ w[Index("e") + 1] \in {"+", "-"} THEN 1 ELSE 0
        exp == SubSeq(w, Index("e") + 1 + sign, Len(w))
        point == IF Index(".") < Index("e") THEN Index(".") ELSE Index("e")
        size == IF DigitsValue(exp, 10) < 0 THEN LiteralMax ELSE DigitsValue(exp, 10)
        e == IF sign = 1 /\ w[Index("e") + 1] = "-" THEN 0 - size ELSE size
        lead == SelectInSeq(SubSeq(w, 1, Index("e") - 1), LAMBDA c : c \notin {"0", "."})
        decade == e + (IF lead < point THEN point - 1 - lead ELSE point - lead)
        Report(msg) == With(ReportAt(advance(p), current(p).at, msg), Leaf("float", <<"0">>))
    IN IF Index("e") <= Len(w) /\ exp = <<>> THEN Report("float_malformed")
       ELSE IF lead # 0 /\ decade \notin (0 - FloatExpMax)..FloatExpMax THEN Report("float_range")
       ELSE With(advance(p), Leaf("float", w))

NamedEscapes == [c \in {"BSL", "QUOTE", "TICK", "n", "t", "r"} |->
                   IF c \in {"BSL", "QUOTE", "TICK"} THEN c ELSE "escaped " \o c]
Prefix(s, n, S) ==      \* how many of the first n symbols are in S, from the start
    LET k == CHOOSE k \in 0..Len(s) : /\ \A i \in 1..k : s[i] \in S
                                      /\ k < Len(s) => s[k + 1] \notin S
    IN IF k > n THEN n ELSE k
\* str starts just past the backslash; the byte, and what is left of str.
decode_escape_sequence(p, at, str) ==
    LET c == str[1]
        Rest(n) == SubSeq(str, n + 1, Len(str))
        hex == Prefix(Rest(1), 2, DOMAIN DigitValue)
        oct == Prefix(str, 3, DOMAIN DigitValue \ {"e"})
        Byte(v) == "#" \o ToString(v)
        octal == DigitsValue(SubSeq(str, 1, oct), 8)
    IN CASE c \in DOMAIN NamedEscapes -> [p |-> p, byte |-> NamedEscapes[c], rest |-> Rest(1)]
         [] c = "x" /\ hex < 2 ->
              [p |-> ReportAt(p, at, "hex_escape"), byte |-> Byte(0), rest |-> Rest(1)]
         [] c = "x" -> [p |-> p, byte |-> Byte(DigitsValue(SubSeq(str, 2, 3), 16)), rest |-> Rest(3)]
         [] oct > 0 -> [p |-> IF octal > 255 THEN ReportAt(p, at, "octal_escape") ELSE p,
                        byte |-> Byte(octal % 256), rest |-> Rest(oct)]
         [] OTHER -> [p |-> ReportAt(p, at, "escape"), byte |-> Byte(0), rest |-> Rest(1)]
RECURSIVE Decoded(_, _, _, _)
Decoded(p, at, str, out) ==
    IF str = <<>> \/ str = <<"BSL">> THEN [p |-> p, out |-> out]
    ELSE IF str[1] # "BSL" THEN Decoded(p, at, Tail(str), Append(out, str[1]))
    ELSE LET d == decode_escape_sequence(p, at, Tail(str))
         IN Decoded(d.p, at, d.rest, Append(out, d.byte))

\* A token too short to hold both quotes has been reported already.
parse_string_literal(p) ==
    LET w == current(p).w
        d == Decoded(advance(p), current(p).at, SubSeq(w, 2, Len(w) - 1), <<>>)
    IN IF ~check(p, "STR") THEN With(report_error(p, "STR"), Leaf("string", <<>>))
       ELSE IF Len(w) < 2 THEN With(advance(p), Leaf("string", <<>>))
       ELSE With(d.p, Leaf("string", d.out))
parse_char_literal(p) ==
    LET w == current(p).w
        q == advance(p)
        d == decode_escape_sequence(q, current(p).at, SubSeq(w, 3, Len(w) - 1))
    IN IF Len(w) < 3 THEN With(q, Leaf("char", <<"#0">>))
       ELSE IF w[2] = "BSL" /\ Len(w) > 3 THEN With(d.p, Leaf("char", <<d.byte>>))
       ELSE With(q, Leaf("char", <<w[2]>>))

-----------------------------------------------------------------------------
(***************************************************************************)
(* Expressions.                                                            *)
(***************************************************************************)
Op(tag, op, children) == [t |-> tag, w |-> <<op>>, c |-> children]

parse_dot_field(p) ==
    LET n == expect_identifier(expect(p, "."))
        v == Expr(expect(n, "="))
    IN With(v, N("dot_field", <<n.node, v.node>>))
\* '.field = expr, ... }', the '{' consumed.
parse_dot_field_list(p) ==
    LET l == CommaList(p, "dot_field", "}", <<>>) IN With(expect(l, "}"), l.node)
MutVariantPayload(p) == check(p, "{") /\ check_at(p, 1, ".") /\ check_at(p, 2, "ID")
looks_like_variant_payload(p) ==
    check(p, "{") /\ check_at(p, 1, ".") /\ check_at(p, 2, "ID") /\ check_at(p, 3, "=")

\* The elements of '{ a, b... }'.
RECURSIVE ArrayValues(_, _)
ArrayValues(p, acc) ==
    IF check(p, "}") \/ at_eof(p) THEN Listed(p, acc)
    ELSE LET e == Expr(p)
             all == Append(acc, e.node)
         IN IF check(e, "...") THEN Listed(advance(e), Append(all, N("fill", <<>>)))
            ELSE IF check(e, ",") THEN ArrayValues(advance(e), all)
            ELSE Listed(e, all)
parse_braced_initializer(p) ==
    LET o == expect(p, "{")
        dotted == check(o, ".") /\ peek_at(o, 1).k = "ID" /\ peek_at(o, 2).k \notin {"{", "("}
        s == parse_dot_field_list(o)
        b == CommaList(o, "dot_member", "}", <<>>)
        a == ArrayValues(o, <<>>)
    IN CASE check(o, "}") -> With(advance(o), N("empty", <<>>))
         [] dotted /\ peek_at(o, 2).k = "=" -> With(s, N("struct_value", s.node.c))
         [] dotted /\ peek_at(o, 2).k # "=" -> With(expect(b, "}"), N("bitset_value", b.node.c))
         [] OTHER -> With(expect(skip_semicolons(a), "}"), N("array_value", a.node.c))

parse_match_arm_pattern(p) ==
    LET n == expect_identifier(advance(p))
        r == Optionally(advance(n), "&")
        c == expect_identifier(r)
    IN IF check(p, ".") /\ check(n, "(")
       THEN With(expect(c, ")"), N("variant", <<n.node, Flag("by_ref", check(advance(n), "&")), c.node>>))
       ELSE IF check(p, ".") THEN With(n, N("variant", <<n.node>>))
       ELSE IF IsWord(current(p), "_") THEN With(advance(p), N("otherwise", <<>>))
       ELSE Expr(p)
parse_match_arm(p) ==
    LET a == parse_match_arm_pattern(p)
        v == Expr(expect(a, ":"))
    IN With(v, N("arm", <<a.node, v.node>>))

\* A keyword, '(' expr ')'.
parse_type_or_expr_operand(p) == IF starts_type_only(p) THEN Type(p) ELSE Expr(p)
parse_intrinsic(p) ==
    LET k == Cur(p)
        o == expect(advance(p), "(")
        e == IF k \in {"size_of", "align_of", "type_of"} THEN parse_type_or_expr_operand(o)
             ELSE Expr(o)
    IN With(expect(e, ")"), Op("intrinsic", k, <<e.node>>))
parse_cast_expr(p) ==
    LET e == Expr(expect(expect(p, "cast"), "("))
        t == Type(expect(e, ","))
        n == IF check(t, ",") THEN Expr(advance(t)) ELSE Absent(t)
    IN With(expect(n, ")"), N("cast", <<e.node, t.node, n.node>>))

AsmRegisters == {"rax"}
parse_asm_expr(p) ==
    LET r == expect_identifier(expect(advance(p), "->"))
        k == IF r.node.w \in {<<n>> : n \in AsmRegisters} THEN r
             ELSE ReportAt(r, current(expect(advance(p), "->")).at, "register")
        t == IF check(k, ":") THEN Type(advance(k)) ELSE Absent(k)
    IN With(expect(t, "ASM"),
            N("asm_value", <<r.node, t.node,
                             IF check(t, "ASM") THEN Leaf("asm", current(t).w) ELSE None>>))

parse_key_default_args(p) ==
    LET k == parse_string_literal(expect(p, "("))
        d == IF check(k, ",") THEN Expr(advance(k)) ELSE Absent(k)
    IN With(expect(d, ")"), N("key", <<k.node, d.node>>))
\* '$env(...)', '$rtti_enabled', '$option(...)'.
parse_dollar_expr(p) ==
    LET d == expect(p, "$")
        a == parse_key_default_args(advance(d))
        r == advance(d)
    IN CASE IsWord(current(d), "rtti_enabled") ->
                With(IF check(r, "(") THEN report_error(r, "rtti_args") ELSE r, Op("dollar", "rtti_enabled", <<>>))
         [] IsWord(current(d), "env") \/ IsWord(current(d), "option") ->
                With(a, Op("dollar", current(d).w[1], a.node.c))
         [] OTHER -> With(ReportAt(d, current(p).at, "option"), Leaf("int", <<"0">>))
parse_import_expr(p) ==
    LET m == parse_string_literal(expect(expect(p, "import"), "("))
    IN With(expect(m, ")"), N("import", <<m.node>>))
parse_import_bin_expr(p) ==
    LET m == parse_string_literal(expect(advance(p), "("))
    IN With(expect(m, ")"), N("import_bin", <<m.node>>))

\* '.name', '.name{.f = e}' and '.name(e)'.
parse_dot_primary(p) ==
    LET n == expect_identifier(advance(p))
        f == parse_dot_field_list(advance(n))
        o == advance(n)
        l == Separated(o, "expr", ",", <<>>)
        extra == Len(l.node.c) > 1
        at == current(Expr(o)).at
        v == IF extra THEN ReportAt(l, at, "one_value") ELSE l
    IN CASE looks_like_variant_payload(n) -> With(f, N("variant_value", <<None, n.node, f.node>>))
         [] check(n, "(") /\ check(o, ")") ->
                With(ReportAt(advance(o), current(n).at, "no_value"),
                     N("variant_value", <<None, n.node, N("list", <<>>)>>))
         [] check(n, "(") /\ ~check(o, ")") ->
                With(expect(v, ")"), N("variant_value", <<None, n.node, N("list", <<v.node.c[1]>>)>>))
         [] OTHER -> With(n, N("dot", <<n.node>>))
parse_match_expr(p) ==
    LET o == Expr(advance(p))
        a == Framed(o, "{", "match_arm", "}")
    IN With(a, N("match", <<o.node, a.node>>))

parse_primary(p) ==
    CASE check(p, "INT") -> parse_literal_integer_expr(p)
      [] check(p, "FLOAT") -> parse_float_literal(p)
      [] check(p, "STR") -> parse_string_literal(p)
      [] check(p, "CHR") -> parse_char_literal(p)
      [] check(p, "ID") -> expect_identifier(p)
      [] Cur(p) \in {"true", "false", "nil", "iota", "default", "undefined"} ->
            With(advance(p), Leaf("literal", <<Cur(p)>>))
      [] Cur(p) \in {"size_of", "align_of", "type_of", "type_info_of", "len", "stackalloc"} ->
            parse_intrinsic(p)
      [] check(p, "asm") -> parse_asm_expr(p)
      [] check(p, "$") -> parse_dollar_expr(p)
      [] check(p, "import_bin") -> parse_import_bin_expr(p)
      [] check(p, "cast") -> parse_cast_expr(p)
      [] check(p, "(") -> LET e == Expr(advance(p)) IN With(expect(e, ")"), e.node)
      [] check(p, "{") -> parse_braced_initializer(p)
      [] check(p, ".") -> parse_dot_primary(p)
      [] check(p, "match") -> parse_match_expr(p)
      [] OTHER -> With(advance(report_error(p, "expression")), Leaf("int", <<"0">>))

\* 'a[..j]', 'a[i..]', 'a[i..j]'; otherwise the list of arguments.
parse_index_or_slice_expr(e, p) ==
    LET o == expect(p, "[")
        i == IF check(o, "..") THEN Absent(o) ELSE parse_generic_arg(o)
        sliced == check(i, "..") /\ (check(o, "..") \/ ~starts_type_only(o))
        d == advance(i)
        j == IF check(d, "]") THEN Absent(d) ELSE Expr(d)
        a == CommaList(IF check(i, "]") THEN i ELSE expect(i, ","), "generic_arg", "]", <<i.node>>)
    IN IF sliced THEN With(expect(j, "]"), N("slice", <<e, i.node, j.node>>))
       ELSE With(expect(a, "]"), N("index", <<e, a.node>>))

\* A dotted chain of names, as the path of a type; anything else is no path.
RECURSIVE named_type_from_expr(_)
named_type_from_expr(e) ==
    IF e.t = "name" THEN <<e>>
    ELSE IF e.t # "member" THEN <<>>
    ELSE LET base == named_type_from_expr(e.c[1])
         IN IF base = <<>> THEN <<>> ELSE Append(base, e.c[2])

\* One postfix operator after another.
RECURSIVE PostfixTail(_)
PostfixTail(p) ==
    LET e == p.node
        a == Framed(p, "(", "arg", ")")
        n == expect_identifier(advance(p))
        path == named_type_from_expr(e)
        f == parse_dot_field_list(advance(n))
    IN CASE check(p, "(") -> PostfixTail(With(a, N("call", <<e, a.node>>)))
         [] check(p, ".") /\ check_at(p, 1, "*") ->
                PostfixTail(With(advance(advance(p)), Op("unary", ".*", <<e>>)))
         [] check(p, ".") /\ ~check_at(p, 1, "*") ->
                IF looks_like_variant_payload(n) /\ path # <<>>
                THEN PostfixTail(With(f, N("variant_value", <<N("path", path), n.node, f.node>>)))
                ELSE PostfixTail(With(n, N("member", <<e, n.node>>)))
         [] Cur(p) \in {"++", "--"} -> PostfixTail(With(advance(p), Op("postfix", Cur(p), <<e>>)))
         [] check(p, "[") -> PostfixTail(parse_index_or_slice_expr(e, p))
         [] OTHER -> p
parse_postfix(p) == PostfixTail(parse_primary(p))

parse_unary(p) ==
    LET t == parse_postfix(advance(p))
        u == Unary(advance(p))
    IN CASE check(p, "try") -> With(t, N("try", <<t.node>>))
         [] Cur(p) \in {"++", "--"} -> With(u, Op("prefix", Cur(p), <<u.node>>))
         [] Cur(p) \in {"-", "!", "~", "&"} -> With(u, Op("unary", Cur(p), <<u.node>>))
         [] OTHER -> parse_postfix(p)

\* The tiers of binary operators, loosest first: parse_logical_or ... parse_multiplicative.
Tiers == << {"||"}, {"&&"}, {"in"}, {"|"}, {"^", "~"}, {"&"}, {"==", "!="},
            {"<", ">", "<=", ">="}, {"<<", ">>"}, {"+", "-"}, {"*", "/", "%"} >>
BinaryOps == UNION {Tiers[i] : i \in DOMAIN Tiers}
TierOf(op) == CHOOSE i \in DOMAIN Tiers : op \in Tiers[i]
IN_TIER == 3
Spelled(op) == IF op = "~" THEN "^" ELSE op
RECURSIVE BinaryTail(_, _, _)
\* A tier calls the next tighter one for its operands and loops on its own operators;
\* entered at a tier, the ladder takes that tier's operators and the tighter ones, and
\* what an operator has on its right is one tier tighter.  parse_in_expr does not loop.
BinaryTail(p, tier, last) ==
    LET t == TierOf(Cur(p))
        r == BinaryTail(Unary(advance(p)), t + 1, 0)
    IN IF Cur(p) \notin BinaryOps THEN p
       ELSE IF t < tier \/ (t = IN_TIER /\ last = IN_TIER) THEN p
       ELSE BinaryTail(With(r, Op("binary", Spelled(Cur(p)), <<p.node, r.node>>)), tier, t)
parse_binary(p) == BinaryTail(Unary(p), 1, 0)

parse_ternary_expr(p) ==
    LET c == parse_binary(p)
        a == Expr(advance(c))
        b == Expr(expect(a, ":"))
    IN IF check(c, "?") THEN With(b, N("ternary", <<c.node, a.node, b.node>>)) ELSE c
parse_when_expr(p) ==
    LET a == parse_ternary_expr(p)
        c == parse_ternary_expr(advance(a))
        b == Expr(expect(c, "else"))
    IN IF check(a, "when") THEN With(b, N("when_value", <<a.node, c.node, b.node>>)) ELSE a
AssignOps == {"=", "+=", "-=", "*=", "/=", "&=", "|=", "^=", "<<=", ">>=", "~="}
RECURSIVE parse_assign_expr(_)
parse_assign_expr(p) ==
    LET t == parse_when_expr(p)
        v == parse_assign_expr(advance(t))
    IN IF Cur(t) \in AssignOps THEN With(v, Op("assign", Cur(t), <<t.node, v.node>>)) ELSE t

\* '.field' after '.field' of an import.
RECURSIVE ImportFields(_)
ImportFields(p) ==
    LET n == expect_identifier(advance(p))
    IN IF check(p, ".") THEN ImportFields(With(n, N("member", <<p.node, n.node>>))) ELSE p
\* An initialiser: 'import(...)' is one only of a 'const' with no type.
parse_initializer(p, allow_import) ==
    IF ~check(p, "import") THEN parse_assign_expr(p)
    ELSE IF allow_import THEN ImportFields(parse_import_expr(p))
    ELSE parse_import_expr(report_error(p, "import"))
parse_expr(p) == parse_initializer(p, FALSE)

-----------------------------------------------------------------------------
(***************************************************************************)
(* Statements.                                                             *)
(***************************************************************************)
\* The loop has no progress guard: every statement consumes a token.
RECURSIVE BlockStmts(_, _)
BlockStmts(p, acc) ==
    LET s == skip_semicolons(p)
    IN IF check(s, "}") \/ at_eof(s) THEN Listed(s, acc)
       ELSE LET e == TurnOver(s, Stmt(s))
            IN IF e.stuck THEN Listed(e, acc) ELSE BlockStmts(e, Append(acc, e.node))
\* ScopedCommaTerminatesStmt: the flag is off in a block, and back as it was after.
parse_block_stmt(p) ==
    LET l == BlockStmts(expect([p EXCEPT !.comma = FALSE], "{"), <<>>)
    IN [expect(l, "}") EXCEPT !.comma = p.comma, !.node = N("block", l.node.c)]

\* '(mut|const) name' with ': type [= init]' or ':= init'.
MutVarDeclParts(p, allow_group) ==
    LET m == IF check(p, "mut") THEN advance(p) ELSE expect(p, "const")
        n == expect_identifier(m)
        typed == check(n, ":")
        t == IF typed THEN Type(advance(n)) ELSE Absent(n)
        i == IF ~typed THEN parse_initializer(expect(t, ":="), ~check(p, "mut"))
             ELSE IF check(t, "=") THEN parse_initializer(advance(t), FALSE)
             ELSE Absent(t)
        q == IF i.node = None /\ ~check(p, "mut") THEN report_error(i, "const_init") ELSE i
    IN IF allow_group /\ check(i, ",") THEN With(i, n.node)
       ELSE With(q, N("var", <<Flag("mut", check(p, "mut")), n.node, t.node, i.node>>))
parse_var_decl_parts(p, allow_group) ==
    LET m == IF check(p, "mut") THEN advance(p) ELSE expect(p, "const")
        n == expect_identifier(m)
        typed == check(n, ":")
        t == IF typed THEN Type(advance(n)) ELSE Absent(n)
        i == IF ~typed THEN parse_initializer(expect(t, ":="), ~check(p, "mut"))
             ELSE IF check(t, "=") THEN parse_initializer(advance(t), FALSE)
             ELSE Absent(t)
        q == IF i.node = None /\ ~check(p, "mut") THEN report_error(i, "const_init") ELSE i
    IN IF allow_group /\ check(n, ",") THEN n
       ELSE With(q, N("var", <<Flag("mut", check(p, "mut")), n.node, t.node, i.node>>))
RECURSIVE GroupNames(_, _)
GroupNames(p, acc) ==
    LET q == advance(p)
        missing == Append(acc, Leaf("name", <<>>))
        n == expect_identifier(q)
    IN IF ~check(p, ",") THEN Listed(p, acc)
       ELSE IF at_eof(q) THEN Listed(q, acc)
       ELSE IF check(q, ":=") THEN Listed(report_error(q, "group_name"), missing)
       ELSE IF check(q, ",") THEN GroupNames(report_error(q, "group_name"), missing)
       ELSE GroupNames(n, Append(acc, n.node))
parse_var_decl_stmt(p) ==
    LET v == parse_var_decl_parts(p, TRUE)
        g == GroupNames(v, <<v.node>>)
        i == Expr(expect(g, ":="))
    IN IF v.node.t = "var" THEN v
       ELSE With(i, N("vars", <<Flag("mut", check(p, "mut")), g.node, i.node>>))

\* 'when cond BODY [else (when ... | BODY)]', of statements or of declarations.
RECURSIVE parse_when_chain(_, _)
parse_when_chain(p, of_decls) ==
    LET WhenBody(q) == IF of_decls THEN Body(q, "when_decl") ELSE parse_block_stmt(q)
        c == Expr(expect(p, "when"))
        a == WhenBody(c)
        o == advance(a)
        b == IF ~check(a, "else") THEN Absent(a)
             ELSE IF check(o, "when") THEN parse_when_chain(o, of_decls) ELSE WhenBody(o)
    IN With(b, N("when", <<c.node, a.node, b.node>>))

parse_if_stmt(p) ==
    LET c == Expr(expect(p, "if"))
        a == Stmt(c)
        b == IF check(a, "else") THEN Stmt(advance(a)) ELSE Absent(a)
    IN With(b, N("if", <<c.node, a.node, b.node>>))
parse_while_stmt(p) ==
    LET c == Expr(expect(p, "while"))
        b == parse_block_stmt(c)
    IN With(b, N("while", <<c.node, b.node>>))
parse_iterable(p) ==
    LET open == check(p, "..")
        a == IF open THEN Absent(p) ELSE Expr(p)
        b == Expr(advance(a))
    IN IF check(a, "..") THEN With(b, N("range", <<a.node, b.node>>)) ELSE a
parse_for_in_stmt(p) ==
    LET f == expect(p, "for")
        i == IF check(f, "&") THEN Absent(f) ELSE expect_identifier(f)
        pair == ~check(f, "&") /\ check(i, ",")
        r == IF pair THEN advance(i) ELSE i
        e == IF check(f, "&") \/ pair THEN expect_identifier(Optionally(r, "&")) ELSE i
        t == parse_iterable(expect(e, "in"))
        b == parse_block_stmt(t)
    IN With(b, N("for", <<IF pair THEN i.node ELSE None,
                          Flag("by_ref", (check(f, "&") \/ pair) /\ check(r, "&")),
                          e.node, t.node, b.node>>))

\* The values of 'return' and 'return_ok'; in an unbraced switch arm the comma ends the arm.
RECURSIVE ReturnValues(_, _)
ReturnValues(p, acc) ==
    LET e == Expr(p)
        all == Append(acc, e.node)
    IN IF ~e.comma /\ check(e, ",") THEN ReturnValues(advance(e), all) ELSE Listed(e, all)
parse_return_value_list(p) ==
    IF can_start_expr(Cur(p)) THEN ReturnValues(p, <<>>)
    ELSE Listed(p, IF is_asi_gotcha_candidate(p) THEN <<N("severed", <<>>)>> ELSE <<>>)
parse_return_stmt(p) ==
    LET v == parse_return_value_list(advance(p)) IN With(v, Op("return", Cur(p), v.node.c))
parse_return_err_stmt(p) ==
    LET v == Expr(expect(p, "return_err")) IN With(v, Op("return", "return_err", <<v.node>>))

parse_switch_arm(p) ==
    LET a == expect(parse_match_arm_pattern(p), ":")
        b == Stmt([a EXCEPT !.comma = ~check(a, "{")])
    IN [b EXCEPT !.comma = p.comma, !.node = N("arm", <<a.node, b.node>>)]
parse_switch_stmt(p) ==
    LET o == Expr(expect(p, "switch"))
        a == Framed(o, "{", "switch_arm", "}")
    IN With(a, N("switch", <<o.node, a.node>>))
parse_asm_stmt(p) ==
    LET b == expect(p, "asm")
    IN With(expect(b, "ASM"), N("asm_stmt", IF check(b, "ASM") THEN <<Leaf("asm", current(b).w)>> ELSE <<>>))

peek_link_decl(p) == check(p, "#") /\ IsWord(peek_at(p, 1), "link")
peek_diagnostic_directive_kind(p) ==
    check(p, "#") /\ (peek_at(p, 1).k = "error" \/ IsWord(peek_at(p, 1), "warn"))
peek_compile_only_if_decl(p) == check(p, "#") /\ IsWord(peek_at(p, 1), "compile_only_if")

LinkCategories == {"lib", "system", "flag"}
parse_link_decl(p) ==
    LET o == expect(advance(advance(p)), "(")
        k == CASE ~check(o, "ID") -> report_error(o, "category")
               [] check(o, "ID") /\ current(o).w \in {<<n>> : n \in LinkCategories} -> advance(o)
               [] OTHER -> advance(report_error(o, "category"))
        d == Expr(expect(k, ","))
    IN With(expect(d, ")"), N("link", <<Leaf("name", current(o).w), d.node>>))
\* '#error(e)', '#warn(e)', '#compile_only_if(e)'.
parse_directive(p) ==
    LET e == Expr(expect(advance(advance(p)), "("))
    IN With(expect(e, ")"), Op("directive", peek_at(p, 1).w[1], <<e.node>>))

parse_stmt(p) ==
    CASE check(p, "{") -> parse_block_stmt(p)
      [] Cur(p) \in {"mut", "const"} -> parse_var_decl_stmt(p)
      [] check(p, "if") -> parse_if_stmt(p)
      [] check(p, "while") -> parse_while_stmt(p)
      [] check(p, "when") -> parse_when_chain(p, FALSE)
      [] check(p, "import") -> parse_import_expr(report_error(p, "import_stmt"))
      [] peek_link_decl(p) -> parse_link_decl(p)
      [] peek_diagnostic_directive_kind(p) -> parse_directive(p)
      [] peek_compile_only_if_decl(p) ->
            LET d == parse_directive(report_error(p, "compile_only_if")) IN With(d, d.node.c[1])
      [] check(p, "for") -> parse_for_in_stmt(p)
      [] check(p, "switch") -> parse_switch_stmt(p)
      [] Cur(p) \in {"continue", "break"} -> With(advance(p), N(Cur(p), <<>>))
      [] Cur(p) \in {"return", "return_ok"} -> parse_return_stmt(p)
      [] check(p, "return_err") -> parse_return_err_stmt(p)
      [] check(p, "defer") -> LET b == Stmt(advance(p)) IN With(b, N("defer", <<b.node>>))
      [] check(p, "asm") /\ ~check_at(p, 1, "->") -> parse_asm_stmt(p)
      [] OTHER -> Expr(p)

-----------------------------------------------------------------------------
(***************************************************************************)
(* Declarations.                                                           *)
(***************************************************************************)
parse_impl_method(p, allow_pub) ==
    LET a == parse_attribute_clause(p)
        f == Optionally(a, "pub")
        v == IF check(a, "pub") /\ ~allow_pub THEN ReportAt(f, current(p).at, "pub_method") ELSE f
        n == expect_identifier(expect(v, "fn"))
        s == parse_self_and_params(n, current(p).at, FALSE)
        r == parse_function_return_types(s)
        b == Stmt(r)
    IN With(b, N("method", <<a.node, Flag("pub", check(a, "pub")), n.node, s.node, r.node, b.node>>))
parse_impl_decl(p) ==
    LET n == parse_named_type(expect(p, "impl"), FALSE)
        of_trait == check(n, "for")
        t == IF of_trait THEN parse_named_type(advance(n), FALSE) ELSE n
        g == parse_generic_params(t)
        b == Body(g, IF of_trait THEN "trait_impl_method" ELSE "impl_method")
    IN With(b, N("impl", <<IF of_trait THEN n.node ELSE None, t.node, g.node, b.node>>))

parse_function_decl(p, attributes, is_pub) ==
    LET n == expect_identifier(expect(p, "fn"))
        g == parse_generic_params(n)
        a == parse_function_params(g)
        r == parse_function_return_types(a)
        b == Stmt(r)
    IN With(b, N("fn", <<attributes, is_pub, n.node, g.node, a.node, r.node, b.node>>))
parse_ext_function_return_type(p) == IF check(p, "->") THEN Type(advance(p)) ELSE Absent(p)
parse_ext_function_decl(p, attributes, is_pub) ==
    LET n == expect_identifier(expect(p, "fn"))
        a == Framed(n, "(", "ext_param", ")")
        r == parse_ext_function_return_type(a)
    IN With(r, N("ext_fn", <<attributes, is_pub, n.node, a.node, r.node>>))
parse_macro_decl(p, is_pub) ==
    LET n == expect_identifier(expect(p, "macro"))
        a == Framed(n, "(", "macro_param", ")")
        t == IF check(a, ":") THEN Type(advance(a)) ELSE Absent(a)
        e == Expr(expect(t, "->"))
    IN With(e, N("macro", <<is_pub, n.node, a.node, t.node, e.node>>))
parse_type_decl(p, is_pub) ==
    LET n == expect_identifier(expect(p, "type"))
        g == parse_generic_params(n)
        t == Type(expect(g, "="))
    IN With(t, N("type_decl", <<is_pub, n.node, g.node, t.node>>))

\* 'pub' where it is not allowed is reported, and the declaration parsed all the same.
NotPub(p, is_pub) == IF is_pub # None THEN report_error(p, "pub") ELSE p
parse_decl(p) ==
    LET a == parse_attribute_clause(p)
        q == Optionally(a, "pub")
        is_pub == Flag("pub", check(a, "pub"))
        is_ext_fn == IsWord(current(q), "ext")
        is_var_decl == Cur(q) \in {"mut", "const"}
        d == IF a.node.c # <<>> /\ ~check(q, "fn") /\ ~is_ext_fn /\ ~is_var_decl
             THEN ReportAt(q, current(p).at, "attributes") ELSE q
        v == parse_var_decl_parts(d, FALSE)
    IN CASE is_ext_fn -> parse_ext_function_decl(advance(d), a.node, is_pub)
         [] check(d, "fn") -> parse_function_decl(d, a.node, is_pub)
         [] check(d, "type") -> parse_type_decl(d, is_pub)
         [] is_var_decl -> With(v, N("global", <<a.node, is_pub, v.node>>))
         [] check(d, "macro") -> parse_macro_decl(d, is_pub)
         [] check(d, "import") -> parse_import_expr(NotPub(d, is_pub))
         [] check(d, "impl") -> parse_impl_decl(NotPub(d, is_pub))
         [] check(d, "when") -> parse_when_chain(NotPub(d, is_pub), TRUE)
         [] peek_link_decl(d) -> parse_link_decl(NotPub(d, is_pub))
         [] peek_diagnostic_directive_kind(d) \/ peek_compile_only_if_decl(d) ->
                parse_directive(NotPub(d, is_pub))
         [] check(d, "asm") /\ ~check_at(d, 1, "->") -> parse_asm_stmt(NotPub(d, is_pub))
         [] OTHER -> Absent(advance(report_error(d, "declaration")))
\* A declaration of a module-scope 'when': '#compile_only_if' has no place there.
parse_when_decl_member(p) ==
    LET d == Decl(p)
    IN IF d.node.t = "directive" /\ d.node.w = <<"compile_only_if">>
       THEN Absent(ReportAt(d, current(p).at, "compile_only_if")) ELSE d

Rule(p, what, before) ==
    CASE what = "generic_arg" -> parse_generic_arg(p)
      [] what \in {"generic_param", "macro_param"} -> parse_generic_param(p)
      [] what = "param" -> parse_one_param(p, FALSE, before)
      [] what = "ext_param" -> parse_ext_function_param(p)
      [] what \in {"fn_type_param", "ret"} -> parse_documented(p, what)
      [] what = "slot" -> parse_return_slot_type(p)
      [] what = "named_type" -> parse_named_type(p, TRUE)
      [] what = "grouped_attribute" -> parse_grouped_attribute(p)
      [] what = "dot_field" -> parse_dot_field(p)
      [] what = "dot_member" -> expect_identifier(expect(p, "."))
      [] what = "match_arm" -> parse_match_arm(p)
      [] what = "switch_arm" -> parse_switch_arm(p)
      [] what = "arg" -> LET e == Expr(p)
                         IN IF check(e, "...") THEN With(advance(e), N("spread", <<e.node>>)) ELSE e
      [] what = "struct_field" -> parse_struct_field(p)
      [] what = "enum_field" -> parse_enum_field(p)
      [] what \in {"variant", "union_member"} -> parse_union_member(p, what = "variant")
      [] what = "trait_method" -> parse_trait_method_decl(p)
      [] what = "impl_method" -> parse_impl_method(p, TRUE)
      [] what = "trait_impl_method" -> parse_impl_method(p, FALSE)
      [] what = "when_decl" -> parse_when_decl_member(p)
      [] what = "type" -> parse_type(p)
      [] what = "stmt" -> parse_stmt(p)
      [] what = "decl" -> parse_decl(p)
      [] what = "unary" -> parse_unary(p)
      [] OTHER -> parse_expr(p)

\* The module: declaration after declaration, until the error cap.
RECURSIVE ParseDecls(_, _)
ParseDecls(p, acc) ==
    LET s == skip_semicolons(p)
        d == TurnOver(s, Decl(s))
        all == IF d.node = None THEN acc ELSE Append(acc, d.node)
    IN IF at_eof(s) THEN Listed(s, acc)
       ELSE IF d.stuck \/ has_reached_max_errors(d) THEN Listed(d, all)
       ELSE ParseDecls(d, all)
parse(toks, errs) == ParseDecls(NewParser(toks, errs), <<>>)
=============================================================================
