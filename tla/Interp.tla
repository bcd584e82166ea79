------------------------------- MODULE Interp -------------------------------
(***************************************************************************)
(* crates/bilbo-json/src/json.rs and interp.rs: the lenient JSON parser    *)
(* and the interpreter that binds its tree to a type.  Values are abstract *)
(* here: what a reader of the destination would see.  Types and tokens are *)
(* those of Emit.                                                          *)
(***************************************************************************)
EXTENDS Integers, Sequences, SequencesExt

CONSTANT Bodies    \* the bodies of recursive types

-----------------------------------------------------------------------------
(* json.rs.                                                                *)

\* parse_string knows no \r, no \u and no other escape than these.
Characters(c) ==
  CASE c = "\\n" -> <<"LF">> [] c = "\\r" -> <<"r">>
    [] c = "\\u00e9" -> <<"u", "0", "0", "e", "9">>
    [] OTHER -> <<c>>
Decode(text) == FlattenSeq([i \in 1..Len(text) |-> Characters(text[i])])

PastComma(toks, i) == IF toks[i].t = "," THEN i + 1 ELSE i

\* parse_value: the tree, and the index after it.
RECURSIVE ParseValue(_, _), ParseArray(_, _, _), ParseObject(_, _, _)

ParseArray(toks, i, items) ==
  IF toks[i].t = "]" THEN [val |-> [k |-> "arr", items |-> items], next |-> i + 1]
  ELSE LET v == ParseValue(toks, i) IN
    ParseArray(toks, PastComma(toks, v.next), Append(items, v.val))

ParseObject(toks, i, kvs) ==
  IF toks[i].t = "}" THEN [val |-> [k |-> "obj", kvs |-> kvs], next |-> i + 1]
  ELSE LET v == ParseValue(toks, i + 2) IN
    ParseObject(toks, PastComma(toks, v.next),
                Append(kvs, [key |-> Decode(toks[i].v), val |-> v.val]))

ParseValue(toks, i) ==
  CASE toks[i].t = "{" -> ParseObject(toks, i + 1, <<>>)
    [] toks[i].t = "[" -> ParseArray(toks, i + 1, <<>>)
    [] toks[i].t = "str" ->
         [val |-> [k |-> "str", v |-> Decode(toks[i].v)], next |-> i + 1]
    [] OTHER -> [val |-> [k |-> toks[i].t, v |-> toks[i].v], next |-> i + 1]

-----------------------------------------------------------------------------
(* interp.rs.                                                              *)

Panic == [k |-> "panic"]
Absent == [k |-> "absent"]

\* Json::get: the first of the key.
Get(j, key) ==
  LET hits == {i \in 1..Len(j.kvs) : j.kvs[i].key = key} IN
    IF hits = {} THEN Absent
    ELSE j.kvs[CHOOSE i \in hits : \A h \in hits : i <= h].val

\* A panic in a part is a panic.
Whole(k, vals) ==
  IF \E i \in 1..Len(vals) : vals[i] = Panic THEN Panic
  ELSE [k |-> k, vals |-> vals]

Smaller(m, n) == IF m < n THEN m ELSE n

RECURSIVE Run(_, _)

RunField(f, j) ==
  LET v == Get(j, f.name) IN
    CASE v # Absent -> Run(f.ty, v)
      [] v = Absent /\ f.ty.k = "opt" -> Run(f.ty, [k |-> "null", v |-> 0])
      [] OTHER -> Panic

\* run
Run(ty, j) ==
  CASE ty.k = "int" -> [k |-> "scalar", v |-> j.v]
    [] ty.k = "bool" -> [k |-> "scalar", v |-> (j.k = "true")]
    [] ty.k = "char" -> [k |-> "scalar", v |-> IF j.v = <<>> THEN "NUL" ELSE j.v[1]]
    [] ty.k = "str" -> [k |-> "text", text |-> j.v]
    [] ty.k = "unit" -> [k |-> "unit"]
    [] ty.k = "struct" ->
         Whole("struct", [i \in 1..Len(ty.fields) |-> RunField(ty.fields[i], j)])
    [] ty.k = "tuple" ->
         IF j.k # "arr" THEN Panic
         ELSE Whole("struct", [i \in 1..Smaller(Len(ty.fields), Len(j.items)) |->
                                 Run(ty.fields[i].ty, j.items[i])])
    [] ty.k = "vec" ->
         IF j.k # "arr" THEN Panic
         ELSE Whole("list", [i \in 1..Len(j.items) |-> Run(ty.elem, j.items[i])])
    [] ty.k = "box" -> Run(ty.inner, j)
    [] ty.k = "opt" ->
         IF j.k = "null" THEN [k |-> "none"] ELSE Whole("some", <<Run(ty.inner, j)>>)
    [] ty.k = "map" -> Panic
    [] ty.k = "ref" -> Run(Bodies[ty.cell], j)
=============================================================================
