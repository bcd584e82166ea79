-------------------------------- MODULE Emit --------------------------------
(***************************************************************************)
(* crates/bilbo-json/src/jit.rs, Emit, and the runtime it calls: the       *)
(* parser that is compiled for a type, as a machine that reads a document  *)
(* token by token and builds the value in memory.  Compilation unrolls the *)
(* type; here the stack says where in the type the code is.                *)
(*                                                                         *)
(* Memory is words at addresses: a block and a path in it, which begins    *)
(* with the number of an element.  Block 1 is the destination.             *)
(***************************************************************************)
EXTENDS Integers, Sequences, FiniteSets

CONSTANTS
  Docs,    \* pairs [ty, toks] of a type and a document of that type
  Phrases, \* Phrases[d]: what the stretches of document d spell
  Types,   \* the types of documents and of their parts
  Cells    \* the bodies of recursive types

\* Types are records: [k |-> "int"], "bool", "char", "str" and "unit", and
\*   [k |-> "opt", inner, niche], [k |-> "box", inner], [k |-> "vec", elem],
\*   [k |-> "map", val], [k |-> "struct", fields], [k |-> "tuple", fields],
\*   [k |-> "ref", cell], with fields a sequence of [name, ty].
\* Tokens are records [t, v]: punctuation, "null", "true" and "false", "num",
\* and "str", whose v is a text: a sequence of characters and escapes.
ASSUME DocAssumption ==
  \A d \in Docs :
    /\ d.ty \in Types
    /\ d.toks \in Seq([t : STRING, v : Seq(STRING)])

\* Types have their parts; the key of a map is a String.
ASSUME TypeAssumption ==
  /\ [k |-> "str"] \in Types
  /\ \A ty \in Types :
       /\ ty.k \in {"opt", "box"} => ty.inner \in Types
       /\ ty.k = "vec" => ty.elem \in Types
       /\ ty.k = "map" => ty.val \in Types
       /\ ty.k = "ref" => Cells[ty.cell] \in Types
       /\ ty.k \in {"struct", "tuple"} =>
            /\ Len(ty.fields) \in Nat
            /\ \A i \in 1..Len(ty.fields) : ty.fields[i].ty \in Types

\* rt_skip: one value of toks, by counting brackets; the index after it.
Skip(toks, i) ==
  LET opens == {"{", "["}
      closes == {"}", "]"}
      depth(j) == Cardinality({n \in i..j : toks[n].t \in opens})
                  - Cardinality({n \in i..j : toks[n].t \in closes}) IN
    IF toks[i].t \notin opens THEN i + 1
    ELSE 1 + CHOOSE j \in i..Len(toks) :
               depth(j) = 0 /\ \A n \in i..(j - 1) : depth(n) # 0

\* Documents are of their types.  A phrase is a stretch of tokens, from its
\* first to before its end: a value of a type, or what is left of a struct's
\* members (of these names), of a tuple's items (from the next on), of a list
\* or of a map, with its closing bracket.
Phrase(op, ty, names, next, from, to) ==
  [op |-> op, ty |-> ty, names |-> names, next |-> next, from |-> from, to |-> to]
ValuePhrase(ty, from, to) == Phrase("value", ty, {}, 0, from, to)

FieldNames(ty) == {ty.fields[i].name : i \in 1..Len(ty.fields)}

\* A comma may be there or not.
AfterComma(toks, i) == IF toks[i].t = "," THEN i + 1 ELSE i

\* Phrase p is made of phrases of P.  No member's name comes twice.
Spelt(toks, P, p) ==
  LET here == toks[p.from]
      ty == p.ty
      value(t, from, to) == ValuePhrase(t, from, to) \in P
      left(to) == [p EXCEPT !.from = AfterComma(toks, to)] IN
    /\ p.op = "value" =>
         /\ ty.k \in {"int", "bool", "char", "str"} => p.to = p.from + 1
         /\ ty.k = "unit" => p.to = Skip(toks, p.from)
         /\ ty.k = "opt" => IF here.t = "null" THEN p.to = p.from + 1
                            ELSE value(ty.inner, p.from, p.to)
         /\ ty.k = "box" => value(ty.inner, p.from, p.to)
         /\ ty.k = "ref" => value(Cells[ty.cell], p.from, p.to)
         /\ ty.k = "struct" =>
              Phrase("struct", ty, FieldNames(ty), 0, p.from + 1, p.to) \in P
         /\ ty.k = "tuple" => Phrase("tuple", ty, {}, 1, p.from + 1, p.to) \in P
         /\ ty.k \in {"vec", "map"} =>
              Phrase(ty.k, ty, {}, 0, p.from + 1, p.to) \in P
    /\ p.op = "struct" =>
         IF here.t = "}" THEN p.to = p.from + 1
         ELSE \E k \in p.from..p.to :
           /\ [left(k) EXCEPT !.names = @ \ {here.v}] \in P
           /\ IF here.v \in FieldNames(ty)
              THEN /\ here.v \in p.names
                   /\ \A i \in 1..Len(ty.fields) : ty.fields[i].name = here.v =>
                        value(ty.fields[i].ty, p.from + 2, k)
              ELSE k = Skip(toks, p.from + 2)
    /\ p.op = "tuple" =>
         IF p.next > Len(ty.fields) THEN p.to = p.from + 1
         ELSE \E k \in p.from..p.to :
           /\ value(ty.fields[p.next].ty, p.from, k)
           /\ [left(k) EXCEPT !.next = @ + 1] \in P
    /\ p.op = "vec" =>
         IF here.t = "]" THEN p.to = p.from + 1
         ELSE \E k \in p.from..p.to : value(ty.elem, p.from, k) /\ left(k) \in P
    /\ p.op = "map" =>
         IF here.t = "}" THEN p.to = p.from + 1
         ELSE \E k \in p.from..p.to :
           /\ value([k |-> "str"], p.from, p.from + 1)
           /\ value(ty.val, p.from + 2, k)
           /\ left(k) \in P

ASSUME PhraseAssumption ==
  \A d \in Docs :
    /\ ValuePhrase(d.ty, 1, Len(d.toks) + 1) \in Phrases[d]
    /\ \A p \in Phrases[d] :
         /\ p = Phrase(p.op, p.ty, p.names, p.next, p.from, p.to)
         /\ p.from \in 1..Len(d.toks) /\ p.to \in Nat
         /\ p.from < p.to /\ p.to <= Len(d.toks) + 1
         /\ Spelt(d.toks, Phrases[d], p)

VARIABLES
  doc,    \* the document, and its type
  cur,    \* the cursor
  stack,  \* what the code is in the middle of
  mem,    \* from addresses to words
  heap    \* blocks: [room, slot, live], slot for one that is on the stack

vars == <<doc, cur, stack, mem, heap>>

-----------------------------------------------------------------------------
(* Characters.                                                             *)

\* Escapes, and what rt_unescape makes of them.
Escapes == {"\\n", "\\r", "\\u00e9"}
Unescape(c) ==
  CASE c = "\\n" -> "LF" [] c = "\\r" -> "CR" [] c = "\\u00e9" -> "e'"
    [] OTHER -> c

\* The first byte of what follows the opening quote; "e'" has two.
FirstByte(text) ==
  CASE text = <<>> -> "quote"
    [] text # <<>> /\ text[1] \in Escapes -> "backslash"
    [] text # <<>> /\ text[1] = "e'" -> "A~"
    [] OTHER -> text[1]

-----------------------------------------------------------------------------
(* Memory.                                                                 *)

Slot(room) == [room |-> room, slot |-> TRUE, live |-> TRUE]
Block(room) == [room |-> room, slot |-> FALSE, live |-> TRUE]
Null == 0    \* a dangling pointer: nothing was allocated

At(b, i) == <<b, <<i>>>>
Part(a, i) == <<a[1], Append(a[2], i)>>

\* b is at a or in the value that is there.
Within(b, a) ==
  /\ b[1] = a[1]
  /\ Len(b[2]) >= Len(a[2])
  /\ SubSeq(b[2], 1, Len(a[2])) = a[2]

Put(m, a, w) == [b \in DOMAIN m \union {a} |-> IF b = a THEN w ELSE m[b]]
Fill(m, f) ==
  [a \in DOMAIN m \union DOMAIN f |-> IF a \in DOMAIN f THEN f[a] ELSE m[a]]
Clear(m, a) == [b \in {c \in DOMAIN m : ~Within(c, a)} |-> m[b]]

\* Where c, in the value at a, is after the value has moved to b.
Rebase(c, a, b) == <<b[1], b[2] \o SubSeq(c[2], Len(a[2]) + 1, Len(c[2]))>>

\* The value at a is moved to b.
Move(m, a, b) ==
  [d \in {c \in DOMAIN m : ~Within(c, a) /\ ~Within(c, b)}
         \union {Rebase(c, a, b) : c \in {e \in DOMAIN m : Within(e, a)}} |->
     m[IF Within(d, b) THEN Rebase(d, b, a) ELSE d]]

Owning == {"seq", "box", "map"}

\* The blocks that the words of W own.
Pointees(W) == {mem[a].ptr : a \in {b \in W : mem[b].k \in Owning}} \ {Null}

Free(h, S) == [b \in 1..Len(h) |-> [h[b] EXCEPT !.live = @ /\ b \notin S]]
Forget(m, S) == [a \in {b \in DOMAIN m : b[1] \notin S} |-> m[a]]

Scalar(v) == [k |-> "scalar", v |-> v]
None == [k |-> "none"]
SeqWord(ptr, cap, len) == [k |-> "seq", ptr |-> ptr, cap |-> cap, len |-> len]
MapWord(ptr, len) == [k |-> "map", ptr |-> ptr, len |-> len]

\* Types without a size.
ZeroSized(ty) == ty.k = "unit"

-----------------------------------------------------------------------------
(* The code.                                                               *)

\* The token at the cursor, past white space.
tok == doc.toks[cur]
top == stack[Len(stack)]
below == SubSeq(stack, 1, Len(stack) - 1)

Value(ty, dst) == [op |-> "value", ty |-> ty, dst |-> dst]
Comma == [op |-> "comma"]
Colon == [op |-> "colon"]

Init ==
  /\ doc \in Docs
  /\ cur = 1
  /\ stack = <<Value(doc.ty, At(1, 0))>>
  /\ mem = [a \in {} |-> None]
  /\ heap = <<Slot(1)>>

In(op) == stack # <<>> /\ top.op = op
Reads(k) == In("value") /\ top.ty.k = k

ParseInt ==
  /\ Reads("int")
  /\ mem' = Put(mem, top.dst, Scalar(tok.v))
  /\ cur' = cur + 1
  /\ stack' = below
  /\ UNCHANGED <<doc, heap>>

ParseBool ==
  /\ Reads("bool")
  /\ mem' = Put(mem, top.dst, Scalar(tok.t = "true"))
  /\ cur' = cur + 1
  /\ stack' = below
  /\ UNCHANGED <<doc, heap>>

ParseChar ==
  /\ Reads("char")
  /\ mem' = Put(mem, top.dst, Scalar(FirstByte(tok.v)))
  /\ cur' = cur + 1
  /\ stack' = below
  /\ UNCHANGED <<doc, heap>>

\* build_str: the words of a buffer b with the text, escapes decoded.
BuildStr(b, text) ==
  [a \in {At(b, i - 1) : i \in 1..Len(text)} |-> Scalar(Unescape(text[a[2][1] + 1]))]

ParseStr ==
  /\ Reads("str")
  /\ LET n == Len(tok.v)
         b == IF n = 0 THEN Null ELSE Len(heap) + 1 IN
       /\ mem' = Put(Fill(mem, BuildStr(b, tok.v)), top.dst, SeqWord(b, n, n))
       /\ heap' = IF n = 0 THEN heap ELSE Append(heap, Block(n))
  /\ cur' = cur + 1
  /\ stack' = below
  /\ UNCHANGED doc

ParseUnit ==
  /\ Reads("unit")
  /\ cur' = Skip(doc.toks, cur)
  /\ stack' = below
  /\ UNCHANGED <<doc, mem, heap>>

\* memset0 and the tag.
ParseNone ==
  /\ Reads("opt")
  /\ tok.t = "null"
  /\ mem' = Put(Clear(mem, top.dst), top.dst, None)
  /\ cur' = cur + 1
  /\ stack' = below
  /\ UNCHANGED <<doc, heap>>

\* The payload is parsed in place; with the niche encoding it is all of it.
ParseSome ==
  /\ Reads("opt")
  /\ tok.t # "null"
  /\ stack' = IF top.ty.niche
              THEN Append(below, Value(top.ty.inner, top.dst))
              ELSE below \o <<[op |-> "tag", dst |-> top.dst],
                              Value(top.ty.inner, Part(top.dst, 0))>>
  /\ UNCHANGED <<doc, cur, mem, heap>>

StoreTag ==
  /\ In("tag")
  /\ mem' = Put(mem, top.dst, [k |-> "some"])
  /\ stack' = below
  /\ UNCHANGED <<doc, cur, heap>>

ParseBox ==
  /\ Reads("box")
  /\ LET b == IF ZeroSized(top.ty.inner) THEN Null ELSE Len(heap) + 1 IN
       /\ heap' = IF b = Null THEN heap ELSE Append(heap, Block(1))
       /\ stack' = below \o <<[op |-> "box", dst |-> top.dst, ptr |-> b],
                              Value(top.ty.inner, At(b, 0))>>
  /\ UNCHANGED <<doc, cur, mem>>

StoreBox ==
  /\ In("box")
  /\ mem' = Put(mem, top.dst, [k |-> "box", ptr |-> top.ptr])
  /\ stack' = below
  /\ UNCHANGED <<doc, cur, heap>>

\* A call of the function that was compiled for the cell.
CallRef ==
  /\ Reads("ref")
  /\ stack' = Append(below, Value(Cells[top.ty.cell], top.dst))
  /\ UNCHANGED <<doc, cur, mem, heap>>

\* parse_struct: past "{", and None in every Option field.
EnterStruct ==
  /\ Reads("struct")
  /\ LET opts == {Part(top.dst, i) : i \in {j \in 1..Len(top.ty.fields) :
                                             top.ty.fields[j].ty.k = "opt"}}
         kept == {a \in DOMAIN mem : \A o \in opts : ~Within(a, o)} IN
       mem' = [a \in kept \union opts |-> IF a \in opts THEN None ELSE mem[a]]
  /\ cur' = cur + 1
  /\ stack' = Append(below, [op |-> "struct", ty |-> top.ty, dst |-> top.dst])
  /\ UNCHANGED <<doc, heap>>

\* The fields that the key at the cursor names.  Keys are compared byte by
\* byte, escapes and all.
Named == {i \in 1..Len(top.ty.fields) : top.ty.fields[i].name = tok.v}

\* Past the key and ":", then the field's value in its place.
ParseField ==
  /\ In("struct")
  /\ tok.t # "}"
  /\ \E i \in Named :
       stack' = stack \o <<Comma, Value(top.ty.fields[i].ty, Part(top.dst, i))>>
  /\ cur' = cur + 2
  /\ UNCHANGED <<doc, mem, heap>>

SkipField ==
  /\ In("struct")
  /\ tok.t # "}"
  /\ Named = {}
  /\ cur' = Skip(doc.toks, cur + 2)
  /\ stack' = Append(stack, Comma)
  /\ UNCHANGED <<doc, mem, heap>>

\* Deviation: a comma before the end of the list is not consumed.
CommaStuck ==
  /\ In("comma")
  /\ IF tok.t = "," /\ doc.toks[cur + 1].t \in {"}", "]"}
     THEN UNCHANGED vars
     ELSE /\ cur' = IF tok.t = "," THEN cur + 1 ELSE cur
          /\ stack' = below
          /\ UNCHANGED <<doc, mem, heap>>

\* Deviation: a comma is taken for granted.
CommaAlways ==
  /\ In("comma")
  /\ cur' = cur + 1
  /\ stack' = below
  /\ UNCHANGED <<doc, mem, heap>>

\* A comma may be there or not, after the last value too.
ParseComma ==
  /\ In("comma")
  /\ cur' = AfterComma(doc.toks, cur)
  /\ stack' = below
  /\ UNCHANGED <<doc, mem, heap>>

\* The end of a struct, a map or a tuple.
EndStruct ==
  /\ In("struct") \/ In("map")
  /\ tok.t = "}"
  /\ cur' = cur + 1
  /\ stack' = below
  /\ UNCHANGED <<doc, mem, heap>>

\* parse_tuple, which is unrolled.
EnterTuple ==
  /\ Reads("tuple")
  /\ cur' = cur + 1
  /\ stack' = Append(below, [op |-> "tuple", ty |-> top.ty, dst |-> top.dst,
                             next |-> 1])
  /\ UNCHANGED <<doc, mem, heap>>

ParseItem ==
  /\ In("tuple")
  /\ top.next <= Len(top.ty.fields)
  /\ stack' = below \o <<[top EXCEPT !.next = @ + 1], Comma,
                          Value(top.ty.fields[top.next].ty,
                                Part(top.dst, top.next))>>
  /\ UNCHANGED <<doc, cur, mem, heap>>

EndTuple ==
  /\ In("tuple")
  /\ top.next > Len(top.ty.fields)
  /\ cur' = cur + 1
  /\ stack' = below
  /\ UNCHANGED <<doc, mem, heap>>

\* parse_vec: base, capacity and length are in registers.
EnterVec ==
  /\ Reads("vec")
  /\ cur' = cur + 1
  /\ stack' = Append(below, [op |-> "vec", ty |-> top.ty, dst |-> top.dst,
                             base |-> Null, cap |-> 0, len |-> 0])
  /\ UNCHANGED <<doc, mem, heap>>

\* Deviation: the bytes are counted before the capacity is doubled.
GrowShort ==
  /\ In("vec")
  /\ tok.t # "]"
  /\ top.len = top.cap
  /\ LET cap == IF top.cap = 0 THEN 4 ELSE 2 * top.cap
         b == IF ZeroSized(top.ty.elem) THEN Null ELSE Len(heap) + 1 IN
       /\ stack' = Append(below, [top EXCEPT !.base = b, !.cap = cap])
       /\ heap' = IF b = Null THEN heap
                  ELSE Append(Free(heap, {top.base}), Block(top.cap))
       /\ mem' = [a \in {IF c[1] = top.base THEN <<b, c[2]>> ELSE c :
                           c \in DOMAIN mem} |->
                    IF a[1] = b THEN mem[<<top.base, a[2]>>] ELSE mem[a]]
  /\ UNCHANGED <<doc, cur>>

\* rt_realloc: a new block with the old one's elements.
Grow ==
  /\ In("vec")
  /\ tok.t # "]"
  /\ top.len = top.cap
  /\ LET cap == IF top.cap = 0 THEN 4 ELSE 2 * top.cap
         b == IF ZeroSized(top.ty.elem) THEN Null ELSE Len(heap) + 1 IN
       /\ stack' = Append(below, [top EXCEPT !.base = b, !.cap = cap])
       /\ heap' = IF b = Null THEN heap
                  ELSE Append(Free(heap, {top.base}), Block(cap))
       /\ mem' = [a \in {IF c[1] = top.base THEN <<b, c[2]>> ELSE c :
                           c \in DOMAIN mem} |->
                    IF a[1] = b THEN mem[<<top.base, a[2]>>] ELSE mem[a]]
  /\ UNCHANGED <<doc, cur>>

ParseElem ==
  /\ In("vec")
  /\ tok.t # "]"
  /\ top.len # top.cap
  /\ stack' = below \o <<[top EXCEPT !.len = @ + 1], Comma,
                          Value(top.ty.elem, At(top.base, top.len))>>
  /\ UNCHANGED <<doc, cur, mem, heap>>

EndVec ==
  /\ In("vec")
  /\ tok.t = "]"
  /\ mem' = Put(mem, top.dst, SeqWord(top.base, top.cap, top.len))
  /\ cur' = cur + 1
  /\ stack' = below
  /\ UNCHANGED <<doc, heap>>

\* parse_map: the map is constructed in place, and two slots on the stack,
\* the elements of a block here, take a key and a value.  The map's own block
\* stands for its nodes, with an entry for an element.
EnterMap ==
  /\ Reads("map")
  /\ LET b == Len(heap) + 1 IN
       /\ mem' = Put(mem, top.dst, MapWord(b, 0))
       /\ heap' = heap \o <<Block(0), Slot(2)>>
       /\ stack' = Append(below, [op |-> "map", ty |-> top.ty, dst |-> top.dst,
                                  key |-> At(b + 1, 0), val |-> At(b + 1, 1)])
  /\ cur' = cur + 1
  /\ UNCHANGED doc

ParseEntry ==
  /\ In("map")
  /\ tok.t # "}"
  /\ stack' = stack \o
       <<Comma, [op |-> "insert", dst |-> top.dst, key |-> top.key, val |-> top.val],
         Value(top.ty.val, top.val), Colon, Value([k |-> "str"], top.key)>>
  /\ UNCHANGED <<doc, cur, mem, heap>>

ParseColon ==
  /\ In("colon")
  /\ cur' = cur + 1
  /\ stack' = below
  /\ UNCHANGED <<doc, mem, heap>>

\* The text of the String at a.
TextAt(a) == [i \in 1..mem[a].len |-> mem[At(mem[a].ptr, i - 1)].v]

Entry(i) == At(mem[top.dst].ptr, i)
Present == {i \in 0..(mem[top.dst].len - 1) :
              TextAt(Part(Entry(i), 0)) = TextAt(top.key)}

\* Deviation: the temporaries keep what they own.
InsertCopies ==
  /\ In("insert")
  /\ Present = {}
  /\ LET map == mem[top.dst] IN
       /\ mem' = Put(Fill(mem, Move(mem, <<top.key[1], <<>>>>, Entry(map.len))),
                     top.dst, MapWord(map.ptr, map.len + 1))
       /\ heap' = [heap EXCEPT ![map.ptr].room = @ + 1]
  /\ stack' = below
  /\ UNCHANGED <<doc, cur>>

\* map_insert: key and value are moved into the map.
InsertNew ==
  /\ In("insert")
  /\ Present = {}
  /\ LET map == mem[top.dst] IN
       /\ mem' = Put(Move(mem, <<top.key[1], <<>>>>, Entry(map.len)),
                     top.dst, MapWord(map.ptr, map.len + 1))
       /\ heap' = [heap EXCEPT ![map.ptr].room = @ + 1]
  /\ stack' = below
  /\ UNCHANGED <<doc, cur>>

\* The blocks that the value at a owns itself.
BlocksOf(a) == Pointees({b \in DOMAIN mem : Within(b, a)})
Drops(blocks) == [op |-> "drop", blocks |-> blocks]

\* Deviation: the entry that is there is kept.
InsertKeeps ==
  /\ In("insert")
  /\ Present # {}
  /\ mem' = Clear(mem, <<top.key[1], <<>>>>)
  /\ stack' = Append(below, Drops(BlocksOf(top.val) \union BlocksOf(top.key)))
  /\ UNCHANGED <<doc, cur, heap>>

\* Deviation: nobody drops the value that is replaced.
InsertLeaks ==
  /\ In("insert")
  /\ \E i \in Present :
       mem' = Move(Clear(mem, top.key), top.val, Part(Entry(i), 1))
  /\ stack' = Append(below, Drops(BlocksOf(top.key)))
  /\ UNCHANGED <<doc, cur, heap>>

\* If the key is there, the value is replaced, and the old value and the new
\* key are dropped.
InsertOver ==
  /\ In("insert")
  /\ \E i \in Present :
       LET old == Part(Entry(i), 1) IN
         /\ mem' = Move(Clear(mem, top.key), top.val, old)
         /\ stack' = Append(below, Drops(BlocksOf(old) \union BlocksOf(top.key)))
  /\ UNCHANGED <<doc, cur, heap>>

\* Drop: blocks are freed, and then those that the words in them own.
Drop ==
  /\ In("drop")
  /\ LET inner == Pointees({a \in DOMAIN mem : a[1] \in top.blocks}) IN
       stack' = IF inner = {} THEN below ELSE Append(below, Drops(inner))
  /\ heap' = Free(heap, top.blocks)
  /\ mem' = Forget(mem, top.blocks)
  /\ UNCHANGED <<doc, cur>>

-----------------------------------------------------------------------------
Done == stack = <<>>

Parse ==
  \/ ParseInt \/ ParseBool \/ ParseChar \/ ParseStr \/ ParseUnit
  \/ ParseNone \/ ParseSome \/ StoreTag \/ ParseBox \/ StoreBox \/ CallRef
  \/ EnterStruct \/ ParseField \/ SkipField \/ ParseComma \/ EndStruct
  \/ EnterTuple \/ ParseItem \/ EndTuple
  \/ EnterVec \/ Grow \/ ParseElem \/ EndVec
  \/ EnterMap \/ ParseEntry \/ ParseColon \/ InsertNew \/ InsertOver \/ Drop

Next == Parse \/ (Done /\ UNCHANGED vars)

Spec == Init /\ [][Next]_vars

\* The thread that parses runs.
FairSpec == Spec /\ WF_vars(Parse)

-----------------------------------------------------------------------------
(* Properties.                                                             *)

Places == Nat \X Seq(Nat)

\* What the code can be in the middle of.
Frames ==
  [op : {"value", "struct"}, ty : Types, dst : Places]
  \union [op : {"tag"}, dst : Places]
  \union [op : {"box"}, dst : Places, ptr : Nat]
  \union [op : {"tuple"}, ty : Types, dst : Places, next : Nat \ {0}]
  \union [op : {"vec"}, ty : Types, dst : Places, base : Nat, cap : Nat,
          len : Nat]
  \union [op : {"map"}, ty : Types, dst : Places, key : Places, val : Places]
  \union [op : {"insert"}, dst : Places, key : Places, val : Places]
  \union [op : {"comma", "colon"}]
  \union [op : {"drop"}, blocks : SUBSET Nat]

\* The cursor is in the document until the value has been read.
CursorInDoc ==
  /\ cur \in 1..(Len(doc.toks) + 1)
  /\ cur = Len(doc.toks) + 1 => \A i \in 1..Len(stack) : stack[i].op \notin
       {"value", "struct", "map", "vec", "colon"}

\* Types of the variables.
TypeOK ==
  /\ doc \in Docs
  /\ CursorInDoc
  /\ stack \in Seq(Frames)
  /\ heap \in Seq([room : Nat, slot : BOOLEAN, live : BOOLEAN])
  /\ \A a \in DOMAIN mem :
       /\ a \in Places
       /\ mem[a].k \in {"scalar", "none", "some"} \union Owning
       /\ mem[a].k \in Owning => mem[a].ptr \in Nat

\* A place that may be written: in a live block, and inside of it.
InBlock(a) ==
  a[1] # Null => heap[a[1]].live /\ a[2][1] < heap[a[1]].room

\* Frames that mean to write to a place.
Placed(f) == f.op \notin {"comma", "colon", "drop"}

\* Every word is in a live block, inside of it, and so is every place that
\* the code still means to write: buffers grow in time, and no pointer into
\* one is kept while it moves.
InBounds ==
  /\ \A a \in DOMAIN mem : a[1] # Null /\ InBlock(a)
  /\ \A i \in 1..Len(stack) :
       /\ Placed(stack[i]) => InBlock(stack[i].dst)
       /\ stack[i].op = "vec" /\ stack[i].base # Null =>
            heap[stack[i].base].live /\ stack[i].cap = heap[stack[i].base].room

\* Who will free block b: a word in memory, or code that is to store one or
\* that is about to free it.
Owners(b) ==
  {<<"mem", a>> : a \in {c \in DOMAIN mem :
                           mem[c].k \in Owning /\ mem[c].ptr = b}}
  \union
  {<<"code", i>> : i \in {j \in 1..Len(stack) :
     \/ stack[j].op = "vec" /\ stack[j].base = b
     \/ stack[j].op = "box" /\ stack[j].ptr = b
     \/ stack[j].op = "drop" /\ b \in stack[j].blocks}}

\* No block has two owners, from its allocation on, through growth, moves into
\* maps and drops, and a block that was freed has none: nothing is freed twice
\* and nothing is used that was freed.
OneOwner ==
  \A b \in {c \in 1..Len(heap) : ~heap[c].slot} :
    /\ \A x, y \in Owners(b) : x = y
    /\ Owners(b) # {} => heap[b].live

\* Every block has an owner until it is freed: what is built can be dropped
\* whole.  (A struct with a key twice, which serde refuses, is not among the
\* documents: its first value would be left without an owner.)
NothingLeaks ==
  \A b \in 1..Len(heap) : heap[b].live /\ ~heap[b].slot => Owners(b) # {}

\* The parser comes to an end: every way of setting commas, skipping keys and
\* closing brackets moves the cursor on.
ParseEnds == <>Done
=============================================================================
