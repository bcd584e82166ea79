----------------------------- MODULE MCBinding -----------------------------
(***************************************************************************)
(* The compiled parser and the interpreter on the same documents: for each *)
(* of some types, documents with every part present and absent, in more    *)
(* than one order, with keys that are not fields, escapes, keys twice, and *)
(* all ways of setting commas.                                             *)
(***************************************************************************)
EXTENDS Emit, Interp, TLC

-----------------------------------------------------------------------------
(* Types.                                                                  *)

IntTy == [k |-> "int"]
Bool == [k |-> "bool"]
Char == [k |-> "char"]
Str == [k |-> "str"]
UnitTy == [k |-> "unit"]
Opt(ty) == [k |-> "opt", inner |-> ty, niche |-> ty.k \in {"str", "box", "vec"}]
Box(ty) == [k |-> "box", inner |-> ty]
Vec(ty) == [k |-> "vec", elem |-> ty]
Map(ty) == [k |-> "map", val |-> ty]
Ref(cell) == [k |-> "ref", cell |-> cell]
Struct(fields) == [k |-> "struct", fields |-> fields]
Tuple(tys) ==
  [k |-> "tuple", fields |-> [i \in 1..Len(tys) |-> [name |-> <<>>, ty |-> tys[i]]]]
Field(name, ty) == [name |-> <<name>>, ty |-> ty]

\* Recursive types as classify cuts them: a list entered at its node and at
\* its Option (whose absent key classify_absent_key is about), and a map.
MCCells ==
  "Node" :> Struct(<<Field("v", IntTy), Field("next", Opt(Box(Ref("Node"))))>>) @@
  "List" :> Opt(Box(Struct(<<Field("v", IntTy), Field("next", Ref("List"))>>))) @@
  "Tree" :> Struct(<<Field("kids", Map(Ref("Tree")))>>)

DocTypes ==
  { Struct(<<Field("a", Opt(Str)), Field("b", Opt(IntTy)), Field("c", Bool)>>),
    Vec(Opt(Box(Str))), MCCells["Node"], MCCells["List"],
    Map(Vec(IntTy)), Map(Map(Str)), MCCells["Tree"],
    Tuple(<<UnitTy, Char, Vec(UnitTy), Box(UnitTy)>>),
    Vec(Struct(<<Field("a", Vec(Tuple(<<IntTy, Str>>)))>>)) }

\* A type and its parts, those of recursive types apart.
RECURSIVE PartsOf(_)
PartsOf(ty) ==
  {ty} \union
  CASE ty.k \in {"opt", "box"} -> PartsOf(ty.inner)
    [] ty.k = "vec" -> PartsOf(ty.elem)
    [] ty.k = "map" -> PartsOf(ty.val)
    [] ty.k \in {"struct", "tuple"} ->
         UNION {PartsOf(ty.fields[i].ty) : i \in 1..Len(ty.fields)}
    [] OTHER -> {}

MCTypes ==
  {Str} \union UNION {PartsOf(ty) : ty \in DocTypes \union
                       {MCCells[c] : c \in DOMAIN MCCells}}

-----------------------------------------------------------------------------
(* Documents: trees, and the tokens that they are written with.            *)

CONSTANTS Texts, Chars, Depth

Leaf(k, v) == [k |-> k, v |-> v]
Arr(items) == [k |-> "arr", items |-> items]
Obj(kvs) == [k |-> "obj", kvs |-> kvs]
Num == Leaf("num", <<"7">>)
JsonNull == Leaf("null", <<>>)
Skipped == Obj(<<[key |-> <<"a">>, val |-> Arr(<<Num, Obj(<<>>)>>)]>>)

\* An object with the fields of idx in their order or the other way round,
\* and a key that is no field.
ObjectsOf(kv, idx) ==
  LET some == SelectSeq(kv, LAMBDA e : e.i \in idx)
      strip(q) == [i \in 1..Len(q) |-> [key |-> q[i].key, val |-> q[i].val]]
      other == <<[key |-> <<"z">>, val |-> Skipped]>> IN
    {Obj(strip(some)), Obj(strip(Reverse(some)) \o other)}

\* One of a set that may be empty.
Some(S) == IF S = {} THEN {} ELSE {CHOOSE x \in S : TRUE}

RECURSIVE Trees(_, _)

\* Choices of a value for every field.
RECURSIVE FieldValues(_, _, _)
FieldValues(fields, i, n) ==
  IF i > Len(fields) THEN {<<>>}
  ELSE {<<[i |-> i, key |-> fields[i].name, val |-> v]>> \o rest :
          v \in Trees(fields[i].ty, n), rest \in FieldValues(fields, i + 1, n)}

Trees(ty, n) ==
  CASE ty.k = "int" -> {Num}
    [] ty.k = "bool" -> {Leaf("true", <<>>), Leaf("false", <<>>)}
    [] ty.k = "char" -> {Leaf("str", <<c>>) : c \in Chars}
    [] ty.k = "str" -> {Leaf("str", t) : t \in Texts}
    [] ty.k = "unit" -> {JsonNull, Skipped}
    [] ty.k = "opt" -> {JsonNull} \union Trees(ty.inner, n)
    [] ty.k = "box" -> Trees(ty.inner, n)
    [] ty.k = "ref" -> IF n = 0 THEN {} ELSE Trees(MCCells[ty.cell], n - 1)
    [] ty.k = "vec" ->
         {Arr(<<>>)} \union
         {Arr(<<x, y, x, x, y>>) : x \in Trees(ty.elem, n),
                                   y \in Some(Trees(ty.elem, n))}
    [] ty.k = "map" ->
         LET kv(c, v) == [key |-> <<c>>, val |-> v] IN
           {Obj(<<>>)} \union
           {Obj(<<kv("a", x), kv("b", y), kv("a", y)>>) :
              x \in Trees(ty.val, n), y \in Some(Trees(ty.val, n))}
    [] ty.k = "tuple" ->
         {Arr([i \in 1..Len(c) |-> c[i].val]) : c \in FieldValues(ty.fields, 1, n)}
    [] ty.k = "struct" ->
         LET must == {i \in 1..Len(ty.fields) : ty.fields[i].ty.k # "opt"} IN
           UNION {ObjectsOf(c, idx) :
                    c \in FieldValues(ty.fields, 1, n),
                    idx \in {s \in SUBSET (1..Len(ty.fields)) : must \subseteq s}}

SomeTexts == {<<>>, <<"a", "\\n">>, <<"e'">>}
EscapedTexts == {<<"a", "\\r">>}

Tok(t) == <<[t |-> t, v |-> <<>>]>>

\* Commas between the values, after each of them, or nowhere.
Styles == {"between", "after", "nowhere"}

RECURSIVE Tokens(_, _)

Joined(parts, style) ==
  FlattenSeq([i \in 1..Len(parts) |->
    parts[i] \o IF style = "after" \/ (style = "between" /\ i < Len(parts))
                THEN Tok(",") ELSE <<>>])

Tokens(j, style) ==
  CASE j.k = "arr" ->
         Tok("[") \o Joined([i \in 1..Len(j.items) |-> Tokens(j.items[i], style)], style)
         \o Tok("]")
    [] j.k = "obj" ->
         Tok("{") \o
         Joined([i \in 1..Len(j.kvs) |->
                   <<[t |-> "str", v |-> j.kvs[i].key]>> \o Tok(":")
                   \o Tokens(j.kvs[i].val, style)], style)
         \o Tok("}")
    [] OTHER -> <<[t |-> j.k, v |-> j.v]>>

DocsOf(types) ==
  UNION {{[ty |-> ty, toks |-> Tokens(j, style)] :
            j \in Trees(ty, Depth), style \in Styles} : ty \in types}

MCDocs == DocsOf(DocTypes)

\* A char and a String next to each other, in one document.
TextPair == Tuple(<<Char, Str>>)
TextTypes == PartsOf(TextPair)
TextDocs == DocsOf({TextPair})

\* The phrases of a document, from its first to the end of it, and where the
\* phrase that begins at token i ends.
RECURSIVE Derived(_, _, _, _, _, _)
Derived(toks, op, ty, names, next, i) ==
  LET here == toks[i]
      value(t, j) == Derived(toks, "value", t, {}, 0, j)
      with(rests, to) == [to |-> to, parts |-> rests \union
                            {Phrase(op, ty, names, next, i, to)}]
      only(r) == with(r.parts, r.to)
      token == with({}, i + 1)
      then(r, ns, n) ==
        LET s == Derived(toks, op, ty, ns, n, AfterComma(toks, r.to)) IN
          with(r.parts \union s.parts, s.to)
      skipped(j) == [to |-> Skip(toks, j), parts |-> {}] IN
    CASE op = "value" /\ ty.k \in {"int", "bool", "char", "str"} -> token
      [] op = "value" /\ ty.k = "unit" -> only(skipped(i))
      [] op = "value" /\ ty.k = "opt" ->
           IF here.t = "null" THEN token ELSE only(value(ty.inner, i))
      [] op = "value" /\ ty.k = "box" -> only(value(ty.inner, i))
      [] op = "value" /\ ty.k = "ref" -> only(value(MCCells[ty.cell], i))
      [] op = "value" /\ ty.k = "struct" ->
           only(Derived(toks, "struct", ty, FieldNames(ty), 0, i + 1))
      [] op = "value" /\ ty.k = "tuple" ->
           only(Derived(toks, "tuple", ty, {}, 1, i + 1))
      [] op = "value" /\ ty.k \in {"vec", "map"} ->
           only(Derived(toks, ty.k, ty, {}, 0, i + 1))
      [] op = "tuple" ->
           IF next > Len(ty.fields) THEN token
           ELSE then(value(ty.fields[next].ty, i), {}, next + 1)
      [] op # "value" /\ op # "tuple" /\ here.t \in {"}", "]"} -> token
      [] op = "struct" /\ here.t # "}" ->
           LET idx == {n \in 1..Len(ty.fields) : ty.fields[n].name = here.v} IN
             then(IF idx = {} THEN skipped(i + 2)
                  ELSE value(ty.fields[CHOOSE n \in idx : TRUE].ty, i + 2),
                  names \ {here.v}, next)
      [] op = "vec" /\ here.t # "]" -> then(value(ty.elem, i), {}, 0)
      [] op = "map" /\ here.t # "}" ->
           LET k == value(Str, i)
               v == value(ty.val, i + 2) IN
             then([v EXCEPT !.parts = @ \union k.parts], {}, 0)

PhrasesOf(docs) == [d \in docs |-> Derived(d.toks, "value", d.ty, {}, 0, 1).parts]

MCPhrases == PhrasesOf(MCDocs)
TextPhrases == PhrasesOf(TextDocs)

-----------------------------------------------------------------------------
(* What has been built.                                                    *)

\* The value of type ty at a.
RECURSIVE Load(_, _)
Load(ty, a) ==
  CASE ty.k \in {"int", "bool", "char"} -> mem[a]
    [] ty.k = "str" -> [k |-> "text", text |-> TextAt(a)]
    [] ty.k = "unit" -> [k |-> "unit"]
    [] ty.k \in {"struct", "tuple"} ->
         [k |-> "struct", vals |-> [i \in 1..Len(ty.fields) |->
                                      Load(ty.fields[i].ty, Part(a, i))]]
    [] ty.k = "vec" ->
         [k |-> "list", vals |-> [i \in 1..mem[a].len |->
                                    Load(ty.elem, At(mem[a].ptr, i - 1))]]
    [] ty.k = "box" -> Load(ty.inner, At(mem[a].ptr, 0))
    [] ty.k = "opt" ->
         IF a \in DOMAIN mem /\ mem[a].k = "none" THEN [k |-> "none"]
         ELSE [k |-> "some", vals |->
                 <<Load(ty.inner, IF ty.niche THEN a ELSE Part(a, 0))>>]
    [] ty.k = "map" ->
         [k |-> "map", entries |->
            {<<TextAt(Part(e, 0)), Load(ty.val, Part(e, 1))>> :
               e \in {At(mem[a].ptr, i) : i \in 0..(mem[a].len - 1)}}]
    [] ty.k = "ref" -> Load(Cells[ty.cell], a)

\* What is asked for: what the interpreter makes of the document or, for a
\* map, which it does not build, the last value of every key.
RECURSIVE Wanted(_, _)
Wanted(ty, j) ==
  CASE ty.k = "map" ->
         LET last(i) == \A h \in (i + 1)..Len(j.kvs) : j.kvs[h].key # j.kvs[i].key IN
           [k |-> "map", entries |->
              {<<j.kvs[i].key, Wanted(ty.val, j.kvs[i].val)>> :
                 i \in {h \in 1..Len(j.kvs) : last(h)}}]
    [] ty = Ref("Tree") -> Wanted(MCCells["Tree"], j)
    [] ty = MCCells["Tree"] ->
         [k |-> "struct", vals |->
            <<Wanted(MCCells["Tree"].fields[1].ty, Get(j, <<"kids">>))>>]
    [] OTHER -> Run(ty, j)

Tree == ParseValue(doc.toks, 1)

-----------------------------------------------------------------------------
\* README.md:45, "Output is byte-for-byte identical to serde_json", which the
\* tests ask of both backends (tests/roundtrip.rs:95-120): in one pass over the
\* bytes, with values written before their owners are, buffers that move and
\* temporaries that are moved away, the compiled parser builds the value that
\* the interpreter makes of the whole tree, and reads as far.
BuildsWanted ==
  Done => /\ Load(doc.ty, At(1, 0)) = Wanted(doc.ty, Tree.val)
          /\ cur = Tree.next

\* README.md:127 lists `char` among the supported types, and README.md:45 says
\* "Output is byte-for-byte identical to serde_json", in text with the escapes
\* of JSON too: of a document with a character of two bytes (jit.rs:672) and a
\* string with an escape that json.rs does not know (json.rs:151, jit.rs:1435),
\* the two backends build the same value.
BuildsTexts == BuildsWanted
=============================================================================
