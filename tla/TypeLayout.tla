---------------------------- MODULE TypeLayout ----------------------------
(***************************************************************************)
(* Sizes, alignments and offsets of the language's types: the layout half  *)
(* of compiler/type_resolver.cpp, with the queries mirgen makes of it.     *)
(*                                                                         *)
(* A type is a record with a kind "k": a scalar, [k |-> "ptr", to],        *)
(* [k |-> "enum", under], [k |-> "bitset", under], [k |-> "array", elem,   *)
(* count], [k |-> "slice", elem], [k |-> "struct", packed, fields] whose   *)
(* fields are [type, init] (init is <<>> or <<expression>>),               *)
(* [k |-> "union", variants] (a payload type each, Void when the variant   *)
(* has none) and [k |-> "error", members], the compiler's own Ok/Failed    *)
(* union.  A u32 tag and an i32 take store_size("i32") bytes.              *)
(***************************************************************************)
EXTENDS MirFunc
LOCAL SX == INSTANCE SequencesExt

Max2(x, y) == IF x > y THEN x ELSE y
RoundUp(n, align) == ((n + align - 1) \div align) * align

Void == [k |-> "void"]
Scalar(kind) == [k |-> kind]

primitive_size(kind) ==
    CASE kind \in {"u8", "i8", "bool"} -> store_size("i8")
      [] kind \in {"u32", "i32"} -> store_size("i32")
      [] kind \in {"u64", "i64"} -> store_size("i64")
      [] kind \in {"usize", "ptr", "anyptr"} -> PointerBytes
      [] kind = "slice" -> 2 * PointerBytes
      [] OTHER -> 0

TagSize == store_size("i32")

compute_tagged_union_layout(size, align) ==
    LET at == RoundUp(TagSize, Max2(align, 1))
        whole == Max2(TagSize, align)
    IN  [payload |-> at, align |-> whole, size |-> RoundUp(at + size, whole)]

\* The payload of an error union's Failed variant: its only member, or the inner union of all.
FailedPayload(ty) == IF Len(ty.members) = 1 THEN ty.members[1]
                     ELSE [k |-> "union", variants |-> ty.members]

RECURSIVE size_of(_), align_of(_), struct_layout(_), union_layout(_)

\* layout_struct: a packed struct keeps its fields back to back.
struct_layout(ty) ==
    LET place(acc, field) ==
          LET align == IF ty.packed THEN 1 ELSE align_of(field.type)
              at == IF align > 0 THEN RoundUp(acc.end, align) ELSE acc.end
          IN  [offsets |-> Append(acc.offsets, at), end |-> at + size_of(field.type),
               align |-> Max2(acc.align, align)]
        laid == SX!FoldLeft(place, [offsets |-> <<>>, end |-> 0, align |-> 1], ty.fields)
    IN  [offsets |-> laid.offsets, align |-> laid.align, size |-> RoundUp(laid.end, laid.align)]

\* layout_union and synthesize_error_union: the tag, then room for the widest payload.
union_layout(ty) ==
    LET payloads == IF ty.k = "error" THEN <<FailedPayload(ty)>>
                    ELSE SelectSeq(ty.variants, LAMBDA p : p # Void)
    IN  compute_tagged_union_layout(
          SX!FoldLeft(LAMBDA n, p : Max2(n, size_of(p)), 0, payloads),
          SX!FoldLeft(LAMBDA n, p : Max2(n, align_of(p)), 1, payloads))

\* resolved_type_size
size_of(ty) ==
    CASE ty.k = "struct" -> struct_layout(ty).size
      [] ty.k = "array" -> size_of(ty.elem) * ty.count
      [] ty.k \in {"enum", "bitset"} -> primitive_size(ty.under.k)
      [] ty.k \in {"union", "error"} -> union_layout(ty).size
      [] OTHER -> primitive_size(ty.k)

\* resolved_type_align
align_of(ty) ==
    CASE ty.k = "struct" -> struct_layout(ty).align
      [] ty.k = "array" -> align_of(ty.elem)
      [] ty.k = "slice" -> PointerBytes
      [] ty.k \in {"enum", "bitset"} -> primitive_size(ty.under.k)
      [] ty.k \in {"union", "error"} -> union_layout(ty).align
      [] OTHER -> primitive_size(ty.k)

field_offset(ty, n) == struct_layout(ty).offsets[n]
payload_offset(ty) == union_layout(ty).payload
SlotSizeOf(ty) == Max2(1, size_of(ty))
SlotOf(ty) == [size |-> SlotSizeOf(ty), align |-> Max2(1, align_of(ty))]
Words(n) == [size |-> n * PointerBytes, align |-> PointerBytes]

(***************************************************************************)
(* What mirgen asks of a type.                                             *)
(***************************************************************************)
RECURSIVE scalar_type(_), signed_type(_), type_has_field_defaults(_)

\* The MIR type of a scalar; "void" for whatever lives in memory.
scalar_type(ty) ==
    CASE ty.k = "bool" -> "i1"
      [] ty.k \in {"u8", "i8"} -> "i8"
      [] ty.k \in {"u32", "i32"} -> "i32"
      [] ty.k \in {"u64", "i64"} -> "i64"
      [] ty.k = "usize" -> usize_ty
      [] ty.k \in {"ptr", "anyptr"} -> "ptr"
      [] ty.k \in {"enum", "bitset"} -> scalar_type(ty.under)
      [] OTHER -> "void"

is_scalar(ty) == scalar_type(ty) # "void"

signed_type(ty) == \/ ty.k \in {"i8", "i32", "i64"}
                   \/ ty.k = "enum" /\ signed_type(ty.under)

is_error_union(ty) == ty.k = "error"

type_has_field_defaults(ty) ==
    \/ ty.k = "struct" /\ \E n \in DOMAIN ty.fields :
         ty.fields[n].init # <<>> \/ type_has_field_defaults(ty.fields[n].type)
    \/ ty.k = "array" /\ ty.count > 0 /\ type_has_field_defaults(ty.elem)

returns_via_sret(returns) ==
    returns # <<>> /\ (Len(returns) > 1 \/ ~is_scalar(returns[1]))

\* The return list's blob: each value at its aligned offset, in order.
multi_return_layout(returns) ==
    LET place(acc, ty) ==
          LET align == Max2(1, align_of(ty))
              at == RoundUp(acc.end, align)
          IN  [offsets |-> Append(acc.offsets, at), end |-> at + SlotSizeOf(ty),
               align |-> Max2(acc.align, align)]
        laid == SX!FoldLeft(place, [offsets |-> <<>>, end |-> 0, align |-> 1], returns)
    IN  [offsets |-> laid.offsets, align |-> laid.align, size |-> Max2(1, RoundUp(laid.end, laid.align))]

\* signature_for: the parameters of a function, the hidden result pointer first.
signature_for(params, returns) ==
    LET own == [n \in DOMAIN params |-> IF is_scalar(params[n]) THEN scalar_type(params[n]) ELSE "ptr"]
    IN  [params |-> IF returns_via_sret(returns) THEN <<"ptr">> \o own ELSE own,
         result |-> IF returns = <<>> \/ returns_via_sret(returns) THEN "void"
                    ELSE scalar_type(returns[1])]
=============================================================================
