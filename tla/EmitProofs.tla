----------------------------- MODULE EmitProofs -----------------------------
(***************************************************************************)
(* Theorems about Emit, for any types and any documents of these types:    *)
(* what the compiled parser writes is inside of a live block, no block is  *)
(* owned twice, none is lost, and the parser stops where the document does.*)
(***************************************************************************)
EXTENDS Emit, SequenceTheorems, FiniteSetTheorems, TLAPS

BlockRecs == [room : Nat, slot : BOOLEAN, live : BOOLEAN]

-----------------------------------------------------------------------------
(* The inductive invariant, of a stack, a memory and a heap.               *)

\* Block b is allocated, and somebody has to free it.
Held(b, h) == b \in 1..Len(h) /\ h[b].live /\ ~h[b].slot

\* Place a is inside of a live block.
Inside(a, h) ==
  /\ a \in Places /\ a[2] # <<>>
  /\ a[1] \in 1..Len(h)
  /\ h[a[1]].live
  /\ a[2][1] < h[a[1]].room

\* Word w owns block b.
Owns(w, b) == w.k \in Owning /\ w.ptr = b

\* Frame f owns block b, and keeps it for what is above f.
Keeps(f, b) ==
  \/ f.op = "vec" /\ f.base = b
  \/ f.op = "box" /\ f.ptr = b

\* Frame f owns block b.
Holds(f, b) == Keeps(f, b) \/ (f.op = "drop" /\ b \in f.blocks)

\* Frames of a map that is being built.
OfMap(f) == f.op \in {"map", "insert"}

\* A map's word knows how many entries there are.
WordOK(w, h) ==
  /\ w.k \in {"scalar", "none", "some"} \union Owning
  /\ w.k \in Owning => w.ptr \in Nat /\ (w.ptr # Null => Held(w.ptr, h))
  /\ w.k = "map" => w.ptr # Null /\ w.len = h[w.ptr].room

MemOK(m, h) == \A a \in DOMAIN m : Inside(a, h) /\ WordOK(m[a], h)

\* Only a value without a size is read to nowhere.
DstOK(f, h) ==
  Placed(f) =>
    IF f.dst[1] = Null THEN f.op = "value" /\ ZeroSized(f.ty)
                       ELSE Inside(f.dst, h)

\* The buffer has the room that the registers say.
VecOK(f, h) ==
  f.op = "vec" =>
    /\ f.ty.k = "vec"
    /\ f.len <= f.cap
    /\ IF f.base = Null THEN ZeroSized(f.ty.elem) \/ f.cap = 0
                        ELSE ~ZeroSized(f.ty.elem) /\ h[f.base].room = f.cap

\* The slots for a key and a value are above the map.
SlotsOK(f, h) ==
  OfMap(f) =>
    /\ f.key[1] \in 1..Len(h)
    /\ h[f.key[1]].slot /\ h[f.key[1]].live /\ h[f.key[1]].room = 2
    /\ f.key = At(f.key[1], 0) /\ f.val = At(f.key[1], 1)
    /\ f.dst[1] < f.key[1]

FrameOK(f, h) ==
  /\ DstOK(f, h)
  /\ VecOK(f, h)
  /\ SlotsOK(f, h)
  /\ f.op \in {"struct", "tuple", "map"} => f.ty.k = f.op
  /\ \A b \in Nat \ {Null} : Holds(f, b) => Held(b, h)

\* What is read now goes to a slot, or to a block that the code below owns.
Anchored(stk, h) ==
  \A i \in 1..Len(stk) :
    LET b == stk[i].dst[1] IN
      Placed(stk[i]) /\ b # Null =>
        h[b].slot \/ \E j \in 1..(i - 1) : Keeps(stk[j], b)

\* A map that is being built is where its code looks for it.
Rooted(stk, m) ==
  \A i \in 1..Len(stk) :
    OfMap(stk[i]) => stk[i].dst \in DOMAIN m /\ m[stk[i].dst].k = "map"

\* No block has two owners.
Sole(stk, m) ==
  \A b \in Nat \ {Null} :
    /\ \A a, c \in DOMAIN m : Owns(m[a], b) /\ Owns(m[c], b) => a = c
    /\ \A i, j \in 1..Len(stk) :
         Holds(stk[i], b) /\ Holds(stk[j], b) => i = j
    /\ \A a \in DOMAIN m, i \in 1..Len(stk) :
         ~(Owns(m[a], b) /\ Holds(stk[i], b))

\* Frame f, above frame e of a map, has nothing to do with blocks that are
\* older than the map's slots, but for storing the entry itself.
Newer(e, f) ==
  /\ Placed(f) /\ f.dst[1] # Null =>
       f.dst[1] >= e.key[1] \/ (f.op = "insert" /\ f.dst = e.dst)
  /\ \A b \in Nat \ {Null} : Keeps(f, b) => b >= e.key[1]
  /\ OfMap(f) => f.key[1] >= e.key[1]

Beyond(stk) ==
  \A j \in 1..Len(stk) : \A i \in 1..(j - 1) :
    OfMap(stk[i]) => Newer(stk[i], stk[j])

Safe(stk, m, h) ==
  /\ stk \in Seq(Frames)
  /\ h \in Seq(BlockRecs)
  /\ MemOK(m, h)
  /\ \A i \in 1..Len(stk) : FrameOK(stk[i], h)
  /\ Anchored(stk, h)
  /\ Rooted(stk, m)
  /\ Sole(stk, m)
  /\ Beyond(stk)

IInv == doc \in Docs /\ Safe(stack, mem, heap)

\* Nobody owns block b.
Unowned(stk, m, b) ==
  /\ \A a \in DOMAIN m : ~Owns(m[a], b)
  /\ \A i \in 1..Len(stk) : ~Holds(stk[i], b)

\* A place that the code may write to while it is in the middle of stk.
Writable(a, stk, h) ==
  /\ Inside(a, h)
  /\ h[a[1]].slot \/ \E j \in 1..Len(stk) : Keeps(stk[j], a[1])
  /\ \A i \in 1..Len(stk) : OfMap(stk[i]) => a[1] >= stk[i].key[1]

\* A frame that may come next.
Fits(f, stk, m, h) ==
  /\ f \in Frames /\ FrameOK(f, h)
  /\ Placed(f) /\ f.dst[1] # Null =>
       h[f.dst[1]].slot \/ \E j \in 1..Len(stk) : Keeps(stk[j], f.dst[1])
  /\ OfMap(f) => f.dst \in DOMAIN m /\ m[f.dst].k = "map"
  /\ \A b \in Nat \ {Null} : Holds(f, b) => Unowned(stk, m, b)
  /\ \A i \in 1..Len(stk) : OfMap(stk[i]) => Newer(stk[i], f)

-----------------------------------------------------------------------------
(* Helpers about frames and places.                                        *)

\* The fields of a frame.
LEMMA FrameFields ==
  ASSUME NEW f \in Frames
  PROVE  /\ Placed(f) => f.dst \in Places
         /\ f.op \in {"value", "struct", "tuple", "vec", "map"} => f.ty \in Types
         /\ f.op = "tuple" => f.next \in Nat \ {0}
         /\ f.op = "vec" => f.base \in Nat /\ f.cap \in Nat /\ f.len \in Nat
         /\ f.op = "box" => f.ptr \in Nat
         /\ OfMap(f) => f.key \in Places /\ f.val \in Places
         /\ f.op = "drop" => f.blocks \subseteq Nat
  BY DEF Frames, Placed, OfMap

\* A place is a block and a path.
LEMMA PlaceParts ==
  ASSUME NEW a \in Places
  PROVE  a[1] \in Nat /\ a[2] \in Seq(Nat) /\ a = <<a[1], a[2]>>
  BY DEF Places

\* The element of a block.
LEMMA AtPlace ==
  ASSUME NEW b \in Nat, NEW i \in Nat
  PROVE  /\ At(b, i) \in Places
         /\ At(b, i)[1] = b
         /\ At(b, i)[2] # <<>>
         /\ At(b, i)[2][1] = i
  BY EmptySeq DEF At, Places

\* A part of a value is in the same element of the same block.
LEMMA PartPlace ==
  ASSUME NEW a \in Places, a[2] # <<>>, NEW i \in Nat
  PROVE  /\ Part(a, i) \in Places
         /\ Part(a, i)[1] = a[1]
         /\ Part(a, i)[2] # <<>>
         /\ Part(a, i)[2][1] = a[2][1]
<1>1. a[1] \in Nat /\ a[2] \in Seq(Nat)
  BY PlaceParts
<1>2. Len(a[2]) \in Nat \ {0}
  BY <1>1, EmptySeq, LenProperties
<1>3. /\ Append(a[2], i) \in Seq(Nat)
      /\ Len(Append(a[2], i)) = Len(a[2]) + 1
      /\ \A j \in 1..Len(a[2]) : Append(a[2], i)[j] = a[2][j]
  BY <1>1, AppendProperties
<1>4. Append(a[2], i) # <<>> /\ Append(a[2], i)[1] = a[2][1]
  BY <1>2, <1>3, EmptySeq
<1> QED
  BY <1>1, <1>3, <1>4 DEF Part, Places

\* So it may be written as well.
LEMMA PartWritable ==
  ASSUME NEW a, NEW stk, NEW h, Writable(a, stk, h), NEW i \in Nat
  PROVE  Writable(Part(a, i), stk, h)
<1>1. a \in Places /\ a[2] # <<>>
  BY DEF Writable, Inside
<1> QED
  BY <1>1, PartPlace DEF Writable, Inside

-----------------------------------------------------------------------------
(* Helpers about the stack.                                                *)

\* The stack without its last frame.
LEMMA Beneath ==
  ASSUME NEW stk \in Seq(Frames), stk # <<>>,
         NEW s, s = SubSeq(stk, 1, Len(stk) - 1)
  PROVE  /\ Len(stk) \in Nat \ {0}
         /\ s \in Seq(Frames)
         /\ Len(s) = Len(stk) - 1
         /\ \A i \in 1..Len(s) : i \in 1..Len(stk) /\ s[i] = stk[i]
<1>1. Len(stk) \in Nat \ {0}
  BY EmptySeq, LenProperties
<1>2. \A i \in 1..(Len(stk) - 1) : stk[i] \in Frames
  BY <1>1, ElementOfSeq
<1> DEFINE t == SubSeq(stk, 1, Len(stk) - 1)
<1>3. /\ t \in Seq(Frames)
      /\ Len(t) = IF 1 <= Len(stk) - 1 THEN Len(stk) - 1 - 1 + 1 ELSE 0
      /\ \A i \in 1..(Len(stk) - 1 - 1 + 1) : t[i] = stk[1 + i - 1]
  BY <1>1, <1>2, SubSeqProperties
<1>4. s = t
  OBVIOUS
<1> HIDE DEF t
<1>5. Len(t) = Len(stk) - 1
  <2>1. \A n \in Nat \ {0} : (IF 1 <= n - 1 THEN n - 1 - 1 + 1 ELSE 0) = n - 1
    OBVIOUS
  <2> QED
    BY <1>1, <1>3, <2>1
<1>6. \A i \in 1..Len(t) : t[i] = stk[i]
  BY <1>1, <1>3, <1>5
<1> QED
  BY <1>1, <1>3, <1>4, <1>5, <1>6

\* A frame less.
LEMMA SafePop ==
  ASSUME NEW stk, NEW m, NEW h, Safe(stk, m, h), stk # <<>>,
         NEW s, s = SubSeq(stk, 1, Len(stk) - 1)
  PROVE  Safe(s, m, h)
<1>1. stk \in Seq(Frames)
  BY DEF Safe
<1>2. /\ Len(stk) \in Nat \ {0} /\ s \in Seq(Frames)
      /\ Len(s) = Len(stk) - 1
      /\ \A i \in 1..Len(s) : i \in 1..Len(stk) /\ s[i] = stk[i]
  BY <1>1, Beneath
<1>3. \A i \in 1..Len(s) : FrameOK(s[i], h)
  BY <1>2 DEF Safe
<1>4. \A i \in 1..Len(s) : \A j \in 1..(i - 1) :
        j \in 1..Len(s) /\ s[j] = stk[j]
  BY <1>2
<1>5. Anchored(s, h)
  BY <1>2, <1>4 DEF Safe, Anchored
<1>6. Rooted(s, m)
  BY <1>2 DEF Safe, Rooted
<1>7. Sole(s, m)
  BY <1>2 DEF Safe, Sole
<1>8. Beyond(s)
  BY <1>2, <1>4 DEF Safe, Beyond
<1> QED
  BY <1>2, <1>3, <1>5, <1>6, <1>7, <1>8 DEF Safe

\* What the last frame owned is nobody's once it is gone, and where it meant
\* to write may be written.
LEMMA Released ==
  ASSUME NEW stk, NEW m, NEW h, Safe(stk, m, h), stk # <<>>,
         NEW s, s = SubSeq(stk, 1, Len(stk) - 1),
         NEW f, f = stk[Len(stk)]
  PROVE  /\ f \in Frames /\ FrameOK(f, h)
         /\ \A b \in Nat \ {Null} : Holds(f, b) => Unowned(s, m, b)
         /\ Placed(f) /\ f.op # "insert" /\ f.dst[1] # Null =>
              Writable(f.dst, s, h)
         /\ Placed(f) => f.dst[1] = Null \/ Inside(f.dst, h)
         /\ OfMap(f) => /\ Writable(f.key, s, h) /\ Writable(f.val, s, h)
                        /\ f.dst \in DOMAIN m /\ m[f.dst].k = "map"
         /\ \A i \in 1..Len(s) : OfMap(s[i]) => Newer(s[i], f)
<1>1. stk \in Seq(Frames)
  BY DEF Safe
<1>2. /\ Len(stk) \in Nat \ {0} /\ s \in Seq(Frames)
      /\ Len(s) = Len(stk) - 1
      /\ \A i \in 1..Len(s) : i \in 1..Len(stk) /\ s[i] = stk[i]
  BY <1>1, Beneath
<1>3. Len(stk) \in 1..Len(stk) /\ \A i \in 1..Len(s) : i # Len(stk)
  BY <1>2
<1>4. f \in Frames /\ FrameOK(f, h)
  BY <1>1, <1>3, ElementOfSeq DEF Safe
<1>5. \A b \in Nat \ {Null} : Holds(f, b) => Unowned(s, m, b)
  BY <1>2, <1>3 DEF Safe, Sole, Unowned
<1>6. Placed(f) => f.dst[1] = Null \/ Inside(f.dst, h)
  BY <1>4 DEF FrameOK, DstOK
<1>7. \A i \in 1..Len(s) : OfMap(s[i]) => Newer(s[i], f)
  BY <1>2, <1>3 DEF Safe, Beyond
<1>8. ASSUME Placed(f), f.op # "insert", f.dst[1] # Null
      PROVE  Writable(f.dst, s, h)
  <2>1. h[f.dst[1]].slot \/ \E j \in 1..Len(s) : Keeps(s[j], f.dst[1])
    BY <1>2, <1>3, <1>8 DEF Safe, Anchored
  <2> QED
    BY <1>6, <1>7, <1>8, <2>1 DEF Writable, Newer
<1>9. ASSUME OfMap(f)
      PROVE  Writable(f.key, s, h) /\ Writable(f.val, s, h)
  <2> DEFINE b == f.key[1]
  <2>1. /\ b \in 1..Len(h) /\ h[b].slot /\ h[b].live /\ h[b].room = 2
        /\ f.key = At(b, 0) /\ f.val = At(b, 1)
    BY <1>4, <1>9 DEF FrameOK, SlotsOK
  <2>2. b \in Nat
    BY <1>4, <1>9, FrameFields, PlaceParts
  <2>3. \A i \in 1..Len(s) : OfMap(s[i]) => b >= s[i].key[1]
    BY <1>7, <1>9 DEF Newer
  <2> HIDE DEF b
  <2>4. ASSUME NEW i \in {0, 1} PROVE Writable(At(b, i), s, h)
    BY <2>1, <2>2, <2>3, AtPlace DEF Writable, Inside
  <2> QED
    BY <2>1, <2>4
<1>10. OfMap(f) => f.dst \in DOMAIN m /\ m[f.dst].k = "map"
  BY <1>3 DEF Safe, Rooted
<1> QED
  BY <1>4, <1>5, <1>6, <1>7, <1>8, <1>9, <1>10

\* A frame more.
LEMMA SafePush ==
  ASSUME NEW stk, NEW m, NEW h, Safe(stk, m, h), NEW f, Fits(f, stk, m, h)
  PROVE  Safe(Append(stk, f), m, h)
<1> DEFINE s == Append(stk, f)
           n == Len(stk)
<1>1. stk \in Seq(Frames) /\ f \in Frames
  BY DEF Safe, Fits
<1>2. /\ s \in Seq(Frames) /\ n \in Nat /\ Len(s) = n + 1
      /\ \A i \in 1..n : s[i] = stk[i]
      /\ s[n + 1] = f
  BY <1>1, AppendProperties, LenProperties
<1> HIDE DEF s
<1>3. \A i \in 1..Len(s) : (i \in 1..n /\ i # n + 1) \/ i = n + 1
  BY <1>2
<1>4. \A i \in 1..n : \A j \in 1..(i - 1) : j \in 1..n /\ s[j] = stk[j]
  BY <1>2
<1>5. \A j \in 1..(n + 1 - 1) : j \in 1..n
  BY <1>2
<1>6. \A j \in 1..n : j \in 1..(n + 1 - 1)
  BY <1>2
<1>7. \A i \in 1..Len(s) : FrameOK(s[i], h)
  BY <1>2, <1>3 DEF Safe, Fits
<1>8. Anchored(s, h)
  <2> SUFFICES ASSUME NEW i \in 1..Len(s), Placed(s[i]), s[i].dst[1] # Null
               PROVE  h[s[i].dst[1]].slot
                        \/ \E j \in 1..(i - 1) : Keeps(s[j], s[i].dst[1])
    BY DEF Anchored
  <2>1. CASE i \in 1..n
    BY <1>2, <1>4, <2>1 DEF Safe, Anchored
  <2>2. CASE i = n + 1
    BY <1>2, <1>6, <2>2 DEF Fits
  <2> QED
    BY <1>3, <2>1, <2>2
<1>9. Rooted(s, m)
  BY <1>2, <1>3 DEF Safe, Rooted, Fits
<1>10. Sole(s, m)
  <2> SUFFICES ASSUME NEW b \in Nat \ {Null}
               PROVE  /\ \A a, c \in DOMAIN m :
                           Owns(m[a], b) /\ Owns(m[c], b) => a = c
                      /\ \A i, j \in 1..Len(s) :
                           Holds(s[i], b) /\ Holds(s[j], b) => i = j
                      /\ \A a \in DOMAIN m, i \in 1..Len(s) :
                           ~(Owns(m[a], b) /\ Holds(s[i], b))
    BY DEF Sole
  <2>1. Holds(f, b) => Unowned(stk, m, b)
    BY DEF Fits
  <2>2. \A i, j \in 1..Len(s) : Holds(s[i], b) /\ Holds(s[j], b) => i = j
    BY <1>2, <1>3, <2>1 DEF Safe, Sole, Unowned
  <2>3. \A a \in DOMAIN m, i \in 1..Len(s) :
          ~(Owns(m[a], b) /\ Holds(s[i], b))
    BY <1>2, <1>3, <2>1 DEF Safe, Sole, Unowned
  <2> QED
    BY <2>2, <2>3 DEF Safe, Sole
<1>11. Beyond(s)
  <2> SUFFICES ASSUME NEW j \in 1..Len(s), NEW i \in 1..(j - 1), OfMap(s[i])
               PROVE  Newer(s[i], s[j])
    BY DEF Beyond
  <2>1. CASE j \in 1..n
    BY <1>2, <1>4, <2>1 DEF Safe, Beyond
  <2>2. CASE j = n + 1
    BY <1>2, <1>5, <2>2 DEF Fits
  <2> QED
    BY <1>3, <2>1, <2>2
<1> QED
  BY <1>2, <1>7, <1>8, <1>9, <1>10, <1>11 DEF Safe, s

-----------------------------------------------------------------------------
(* Helpers about memory.                                                   *)

\* Where the maps that are being built are, nothing else is written.
LEMMA NotAtRoot ==
  ASSUME NEW stk, NEW m, NEW h, Safe(stk, m, h),
         NEW a, Writable(a, stk, h),
         NEW i \in 1..Len(stk), OfMap(stk[i])
  PROVE  stk[i].dst \in Places /\ stk[i].dst[1] # a[1]
<1>1. stk[i] \in Frames /\ FrameOK(stk[i], h)
  BY ElementOfSeq DEF Safe
<1>2. Placed(stk[i])
  BY DEF OfMap, Placed
<1>3. stk[i].dst \in Places /\ stk[i].key \in Places
  BY <1>1, <1>2, FrameFields
<1>4. stk[i].dst[1] \in Nat /\ stk[i].key[1] \in Nat /\ a[1] \in Nat
  BY <1>3, PlaceParts DEF Writable, Inside
<1>5. stk[i].dst[1] < stk[i].key[1] /\ a[1] >= stk[i].key[1]
  BY <1>1 DEF FrameOK, SlotsOK, Writable
<1> QED
  BY <1>3, <1>4, <1>5

\* Each word is new and owns nothing, or was there before.
LEMMA Rewritten ==
  ASSUME NEW stk, NEW m, NEW h, Safe(stk, m, h), NEW m2,
         \A a \in DOMAIN m2 :
           \/ a \in DOMAIN m /\ m2[a] = m[a]
           \/ Inside(a, h) /\ m2[a].k \in {"scalar", "none", "some"},
         \A i \in 1..Len(stk) : OfMap(stk[i]) =>
           stk[i].dst \in DOMAIN m2 /\ m2[stk[i].dst] = m[stk[i].dst]
  PROVE  /\ Safe(stk, m2, h)
         /\ \A b : Unowned(stk, m, b) => Unowned(stk, m2, b)
<1>1. \A b : \A a \in DOMAIN m2 : Owns(m2[a], b) => a \in DOMAIN m /\ Owns(m[a], b)
  BY DEF Owns, Owning
<1>2. MemOK(m2, h)
  BY DEF Safe, MemOK, WordOK, Owning
<1>3. Rooted(stk, m2)
  BY DEF Safe, Rooted
<1>4. Sole(stk, m2)
  BY <1>1 DEF Safe, Sole
<1>5. \A b : Unowned(stk, m, b) => Unowned(stk, m2, b)
  BY <1>1 DEF Unowned
<1> QED
  BY <1>2, <1>3, <1>4, <1>5 DEF Safe

\* Words that own nothing are written at places in one block.
LEMMA SafeFill ==
  ASSUME NEW stk, NEW m, NEW h, Safe(stk, m, h),
         NEW p, Writable(p, stk, h), NEW m2,
         \A a \in DOMAIN m : a[1] # p[1] => a \in DOMAIN m2,
         \A a \in DOMAIN m2 :
           \/ a \in DOMAIN m /\ m2[a] = m[a]
           \/ /\ Inside(a, h) /\ a[1] = p[1]
              /\ m2[a].k \in {"scalar", "none", "some"}
  PROVE  /\ Safe(stk, m2, h)
         /\ \A b : Unowned(stk, m, b) => Unowned(stk, m2, b)
<1>1. ASSUME NEW i \in 1..Len(stk), OfMap(stk[i])
      PROVE  stk[i].dst \in DOMAIN m2 /\ m2[stk[i].dst] = m[stk[i].dst]
  <2>1. stk[i].dst[1] # p[1] /\ stk[i].dst \in DOMAIN m
    BY <1>1, NotAtRoot DEF Safe, Rooted
  <2> QED
    BY <2>1
<1> QED
  BY <1>1, Rewritten

\* A word is stored.
LEMMA SafePut ==
  ASSUME NEW stk, NEW m, NEW h, Safe(stk, m, h),
         NEW p, Writable(p, stk, h), NEW w, WordOK(w, h),
         \A b \in Nat \ {Null} : Owns(w, b) => Unowned(stk, m, b)
  PROVE  Safe(stk, Put(m, p, w), h)
<1> DEFINE m2 == Put(m, p, w)
<1>1. /\ DOMAIN m2 = DOMAIN m \union {p}
      /\ m2[p] = w
      /\ \A a \in DOMAIN m : a # p => m2[a] = m[a]
  BY DEF Put
<1> HIDE DEF m2
<1>2. MemOK(m2, h)
  BY <1>1 DEF Safe, MemOK, Writable
<1>3. Rooted(stk, m2)
  <2> SUFFICES ASSUME NEW i \in 1..Len(stk), OfMap(stk[i])
               PROVE  stk[i].dst \in DOMAIN m2 /\ m2[stk[i].dst].k = "map"
    BY DEF Rooted
  <2>1. stk[i].dst # p
    BY NotAtRoot
  <2> QED
    BY <1>1, <2>1 DEF Safe, Rooted
<1>4. Sole(stk, m2)
  <2> SUFFICES ASSUME NEW b \in Nat \ {Null}
               PROVE  /\ \A a, c \in DOMAIN m2 :
                           Owns(m2[a], b) /\ Owns(m2[c], b) => a = c
                      /\ \A i, j \in 1..Len(stk) :
                           Holds(stk[i], b) /\ Holds(stk[j], b) => i = j
                      /\ \A a \in DOMAIN m2, i \in 1..Len(stk) :
                           ~(Owns(m2[a], b) /\ Holds(stk[i], b))
    BY DEF Sole
  <2>1. \A a \in DOMAIN m2 : (a \in DOMAIN m /\ m2[a] = m[a]) \/ (a = p /\ m2[a] = w)
    BY <1>1
  <2>2. Owns(w, b) => Unowned(stk, m, b)
    OBVIOUS
  <2> QED
    BY <2>1, <2>2 DEF Safe, Sole, Unowned
<1> QED
  BY <1>2, <1>3, <1>4 DEF Safe, m2

\* Each word comes from one place of its own.
LEMMA Moved ==
  ASSUME NEW stk, NEW m, NEW h, Safe(stk, m, h), NEW m2, NEW from,
         \A a \in DOMAIN m2 :
           Inside(a, h) /\ from[a] \in DOMAIN m /\ m2[a] = m[from[a]],
         \A a, c \in DOMAIN m2 : from[a] = from[c] => a = c,
         \A i \in 1..Len(stk) : OfMap(stk[i]) =>
           stk[i].dst \in DOMAIN m2 /\ m2[stk[i].dst].k = "map"
  PROVE  /\ Safe(stk, m2, h)
         /\ \A b : Unowned(stk, m, b) => Unowned(stk, m2, b)
         /\ \A b \in Nat \ {Null} : \A c \in DOMAIN m :
              Owns(m[c], b) /\ (\A a \in DOMAIN m2 : from[a] # c)
                => Unowned(stk, m2, b)
<1>1. MemOK(m2, h)
  BY DEF Safe, MemOK
<1>2. Rooted(stk, m2)
  BY DEF Rooted
<1>3. Sole(stk, m2)
  BY DEF Safe, Sole
<1>4. \A b : Unowned(stk, m, b) => Unowned(stk, m2, b)
  BY DEF Unowned
<1>5. ASSUME NEW b \in Nat \ {Null}, NEW c \in DOMAIN m, Owns(m[c], b),
             \A a \in DOMAIN m2 : from[a] # c
      PROVE  Unowned(stk, m2, b)
  <2>1. \A a \in DOMAIN m : Owns(m[a], b) => a = c
    BY <1>5 DEF Safe, Sole
  <2>2. \A i \in 1..Len(stk) : ~Holds(stk[i], b)
    BY <1>5 DEF Safe, Sole
  <2> QED
    BY <1>5, <2>1, <2>2 DEF Unowned
<1> QED
  BY <1>1, <1>2, <1>3, <1>4, <1>5 DEF Safe

-----------------------------------------------------------------------------
(* Helpers about the heap.                                                 *)

\* What the invariant says of a heap that has all that another one has.
LEMMA SafeHeap ==
  ASSUME NEW stk, NEW m, NEW h, Safe(stk, m, h),
         NEW h2 \in Seq(BlockRecs), Len(h2) >= Len(h),
         \A b \in 1..Len(h) :
           /\ h2[b].slot = h[b].slot /\ h2[b].room = h[b].room
           /\ h2[b].live = h[b].live
                \/ (~h[b].slot /\ Unowned(stk, m, b)
                     /\ \A a \in DOMAIN m : a[1] # b)
  PROVE  /\ Safe(stk, m, h2)
         /\ \A p : Writable(p, stk, h) => Writable(p, stk, h2)
<1>0. /\ stk \in Seq(Frames) /\ h \in Seq(BlockRecs)
      /\ Len(h) \in Nat /\ Len(h2) \in Nat
  BY LenProperties DEF Safe
<1>1. \A b \in 1..Len(h) : b \in 1..Len(h2) /\ b \in Nat \ {Null}
  BY <1>0 DEF Null
<1>2. ASSUME NEW a, Inside(a, h), h2[a[1]].live = h[a[1]].live
      PROVE  Inside(a, h2)
  BY <1>1, <1>2 DEF Inside
<1>3. ASSUME NEW b, Held(b, h), ~Unowned(stk, m, b)
      PROVE  Held(b, h2)
  BY <1>1, <1>3 DEF Held
<1>4. MemOK(m, h2)
  <2> SUFFICES ASSUME NEW a \in DOMAIN m
               PROVE  Inside(a, h2) /\ WordOK(m[a], h2)
    BY DEF MemOK
  <2>1. Inside(a, h) /\ WordOK(m[a], h)
    BY DEF Safe, MemOK
  <2>2. Inside(a, h2)
    BY <1>2, <2>1 DEF Inside
  <2>3. m[a].k \in Owning /\ m[a].ptr # Null =>
          Held(m[a].ptr, h2) /\ h2[m[a].ptr].room = h[m[a].ptr].room
    <3> SUFFICES ASSUME m[a].k \in Owning, m[a].ptr # Null
                 PROVE  /\ Held(m[a].ptr, h2)
                        /\ h2[m[a].ptr].room = h[m[a].ptr].room
      OBVIOUS
    <3>1. Held(m[a].ptr, h) /\ ~Unowned(stk, m, m[a].ptr)
      BY <2>1 DEF WordOK, Unowned, Owns
    <3> QED
      BY <1>3, <3>1 DEF Held
  <2>4. "map" \in Owning
    BY DEF Owning
  <2> QED
    BY <2>1, <2>2, <2>3, <2>4 DEF WordOK
<1>5. ASSUME NEW i \in 1..Len(stk)
      PROVE  FrameOK(stk[i], h2)
  <2> DEFINE f == stk[i]
  <2>1. f \in Frames /\ FrameOK(f, h)
    BY <1>0, ElementOfSeq DEF Safe
  <2>2. \A b \in Nat \ {Null} : Holds(f, b) => Held(b, h) /\ ~Unowned(stk, m, b)
    BY <2>1 DEF FrameOK, Unowned
  <2>3. \A b \in Nat \ {Null} : Holds(f, b) => Held(b, h2)
    BY <1>3, <2>2
  <2>4. DstOK(f, h2)
    <3> SUFFICES ASSUME Placed(f), f.dst[1] # Null
                 PROVE  Inside(f.dst, h2)
      BY <2>1 DEF FrameOK, DstOK
    <3>1. Inside(f.dst, h)
      BY <2>1 DEF FrameOK, DstOK
    <3>2. \/ h[f.dst[1]].slot
          \/ \E j \in 1..(i - 1) : Keeps(stk[j], f.dst[1])
      BY DEF Safe, Anchored
    <3>3. \A j \in 1..(i - 1) : j \in 1..Len(stk)
      BY <1>0, LenProperties
    <3>4. h[f.dst[1]].slot \/ ~Unowned(stk, m, f.dst[1])
      BY <3>2, <3>3 DEF Unowned, Holds
    <3> QED
      BY <1>2, <3>1, <3>4 DEF Inside
  <2>5. VecOK(f, h2)
    <3> SUFFICES ASSUME f.op = "vec", f.base # Null
                 PROVE  h2[f.base].room = h[f.base].room
      BY <2>1 DEF FrameOK, VecOK
    <3>1. Held(f.base, h)
      BY <2>1, <2>2, FrameFields DEF Holds, Keeps
    <3> QED
      BY <3>1 DEF Held
  <2>6. SlotsOK(f, h2)
    BY <1>1, <2>1 DEF FrameOK, SlotsOK
  <2> QED
    BY <2>1, <2>3, <2>4, <2>5, <2>6 DEF FrameOK
<1>6. Anchored(stk, h2)
  <2> SUFFICES ASSUME NEW i \in 1..Len(stk), Placed(stk[i]),
                      stk[i].dst[1] # Null
               PROVE  h2[stk[i].dst[1]].slot
                        \/ \E j \in 1..(i - 1) : Keeps(stk[j], stk[i].dst[1])
    BY DEF Anchored
  <2>1. stk[i].dst[1] \in 1..Len(h)
    BY DEF Safe, FrameOK, DstOK, Inside
  <2> QED
    BY <2>1 DEF Safe, Anchored
<1>7. ASSUME NEW p, Writable(p, stk, h) PROVE Writable(p, stk, h2)
  <2>1. p[1] \in 1..Len(h) /\ (h[p[1]].slot \/ ~Unowned(stk, m, p[1]))
    BY <1>7 DEF Writable, Inside, Unowned, Holds
  <2>2. h2[p[1]].slot = h[p[1]].slot /\ h2[p[1]].live = h[p[1]].live
    BY <2>1
  <2> QED
    BY <1>2, <1>7, <2>2 DEF Writable
<1> QED
  BY <1>0, <1>4, <1>5, <1>6, <1>7 DEF Safe

\* A block is allocated: nobody owns it, and nothing is in it.
LEMMA SafeAlloc ==
  ASSUME NEW stk, NEW m, NEW h, Safe(stk, m, h), NEW r \in BlockRecs
  PROVE  /\ Safe(stk, m, Append(h, r))
         /\ Append(h, r)[Len(h) + 1] = r
         /\ Len(Append(h, r)) = Len(h) + 1
         /\ Len(h) + 1 \in 1..Len(Append(h, r))
         /\ Unowned(stk, m, Len(h) + 1)
         /\ \A a \in DOMAIN m : a[1] # Len(h) + 1
         /\ \A i \in 1..Len(stk) : OfMap(stk[i]) => Len(h) + 1 >= stk[i].key[1]
         /\ \A p : Writable(p, stk, h) => Writable(p, stk, Append(h, r))
<1> DEFINE h2 == Append(h, r)
           b == Len(h) + 1
<1>0. stk \in Seq(Frames) /\ h \in Seq(BlockRecs) /\ Len(h) \in Nat
  BY LenProperties DEF Safe
<1>1. /\ h2 \in Seq(BlockRecs) /\ Len(h2) = Len(h) + 1
      /\ \A c \in 1..Len(h) : h2[c] = h[c]
      /\ h2[b] = r
  BY <1>0, AppendProperties
<1>2. \A c \in 1..Len(h) : c # b
  BY <1>0
<1> HIDE DEF h2
<1>3. Safe(stk, m, h2)
  <2>1. Len(h2) >= Len(h)
    BY <1>0, <1>1
  <2> QED
    BY <1>1, <2>1, SafeHeap
<1>4. b \in Nat \ {Null} /\ b \in 1..Len(h2) /\ b \notin 1..Len(h)
  BY <1>0, <1>1 DEF Null
<1> HIDE DEF b
<1>5. Unowned(stk, m, b)
  <2>1. \A a \in DOMAIN m : ~Owns(m[a], b)
    BY <1>4 DEF Safe, MemOK, WordOK, Owns, Held
  <2>2. \A i \in 1..Len(stk) : ~Holds(stk[i], b)
    BY <1>4 DEF Safe, FrameOK, Held
  <2> QED
    BY <2>1, <2>2 DEF Unowned
<1>6. \A a \in DOMAIN m : a[1] # b
  BY <1>4 DEF Safe, MemOK, Inside
<1>7. \A i \in 1..Len(stk) : OfMap(stk[i]) => b >= stk[i].key[1]
  <2>1. \A c \in 1..Len(h) : b >= c
    BY <1>0 DEF b
  <2> QED
    BY <2>1 DEF Safe, FrameOK, SlotsOK
<1>8. ASSUME NEW p, Writable(p, stk, h) PROVE Writable(p, stk, h2)
  <2>1. p[1] \in 1..Len(h)
    BY <1>8 DEF Writable, Inside
  <2>2. h2[p[1]] = h[p[1]] /\ p[1] \in 1..Len(h2)
    BY <1>0, <1>1, <2>1
  <2> QED
    BY <1>8, <2>2 DEF Writable, Inside
<1> QED
  BY <1>1, <1>3, <1>4, <1>5, <1>6, <1>7, <1>8 DEF h2, b

\* What is freed is as large as it was.
LEMMA Freed ==
  ASSUME NEW h \in Seq(BlockRecs), NEW S
  PROVE  /\ Free(h, S) \in Seq(BlockRecs) /\ Len(Free(h, S)) = Len(h)
         /\ \A b \in 1..Len(h) :
              /\ Free(h, S)[b].slot = h[b].slot
              /\ Free(h, S)[b].room = h[b].room
              /\ Free(h, S)[b].live = (h[b].live /\ b \notin S)
              /\ b \notin S => Free(h, S)[b].live = h[b].live
<1> DEFINE h2 == Free(h, S)
<1>0. Len(h) \in Nat
  BY LenProperties
<1>1. \A b \in 1..Len(h) : h[b] \in BlockRecs
  BY <1>0, ElementOfSeq
<1>2. \A b \in 1..Len(h) :
        /\ h2[b].slot = h[b].slot
        /\ h2[b].room = h[b].room
        /\ h2[b].live = (h[b].live /\ b \notin S)
        /\ b \notin S => h2[b].live = h[b].live
        /\ h2[b] \in BlockRecs
  BY <1>1 DEF Free, BlockRecs
<1>3. h2 \in [1..Len(h) -> BlockRecs]
  BY <1>2 DEF Free
<1> HIDE DEF h2
<1>4. h2 \in Seq(BlockRecs)
  BY <1>0, <1>3, SeqDef
<1>5. DOMAIN h2 = 1..Len(h) /\ DOMAIN h2 = 1..Len(h2) /\ Len(h2) \in Nat
  BY <1>3, <1>4, LenProperties
<1>6. Len(h2) = Len(h)
  BY <1>0, <1>5
<1> QED
  BY <1>2, <1>4, <1>6 DEF h2

\* Blocks that nobody owns, with nothing in them, are freed.
LEMMA SafeFree ==
  ASSUME NEW stk, NEW m, NEW h, Safe(stk, m, h), NEW S,
         \A b \in S : b \in 1..Len(h) =>
           ~h[b].slot /\ Unowned(stk, m, b) /\ \A a \in DOMAIN m : a[1] # b
  PROVE  Safe(stk, m, Free(h, S))
<1> DEFINE h2 == Free(h, S)
<1>1. h \in Seq(BlockRecs) /\ Len(h) \in Nat
  BY LenProperties DEF Safe
<1>2. /\ h2 \in Seq(BlockRecs) /\ Len(h2) = Len(h)
      /\ \A b \in 1..Len(h) :
           /\ h2[b].slot = h[b].slot
           /\ h2[b].room = h[b].room
           /\ b \notin S => h2[b].live = h[b].live
  BY <1>1, Freed
<1> HIDE DEF h2
<1>3. Len(h2) >= Len(h)
  BY <1>1, <1>2
<1>4. \A b \in 1..Len(h) :
        \/ h2[b].live = h[b].live
        \/ ~h[b].slot /\ Unowned(stk, m, b) /\ \A a \in DOMAIN m : a[1] # b
  BY <1>2
<1>5. Safe(stk, m, h2)
  BY <1>2, <1>3, <1>4, SafeHeap
<1> QED
  BY <1>5 DEF h2

-----------------------------------------------------------------------------
(* Helpers about the steps of the code.                                    *)

\* A frame that is not of a map comes next.
LEMMA PushFrame ==
  ASSUME NEW stk, NEW m, NEW h, Safe(stk, m, h),
         NEW f \in Frames, ~OfMap(f), FrameOK(f, h),
         Placed(f) => f.dst[1] = Null \/ Writable(f.dst, stk, h),
         \A b \in Nat \ {Null} : Holds(f, b) => Unowned(stk, m, b),
         \A b \in Nat \ {Null} : Keeps(f, b) =>
           \A i \in 1..Len(stk) : OfMap(stk[i]) => b >= stk[i].key[1]
  PROVE  /\ Safe(Append(stk, f), m, h)
         /\ \A p : Writable(p, stk, h) => Writable(p, Append(stk, f), h)
         /\ \A p : p[1] # Null /\ Keeps(f, p[1]) /\ Inside(p, h)
                     => Writable(p, Append(stk, f), h)
<1> DEFINE s == Append(stk, f)
           n == Len(stk)
<1>1. stk \in Seq(Frames)
  BY DEF Safe
<1>2. /\ n \in Nat /\ Len(s) = n + 1
      /\ \A i \in 1..n : s[i] = stk[i]
      /\ s[n + 1] = f
  BY <1>1, AppendProperties, LenProperties
<1>3. \A i \in 1..Len(s) : (i \in 1..n /\ s[i] = stk[i]) \/ s[i] = f
  BY <1>2
<1>4. \A i \in 1..n : i \in 1..Len(s)
  BY <1>2
<1>5. n + 1 \in 1..Len(s)
  BY <1>2
<1>6. Fits(f, stk, m, h)
  <2>1. \A i \in 1..n : OfMap(stk[i]) => Newer(stk[i], f)
    BY DEF Newer, Writable
  <2> QED
    BY <2>1 DEF Fits, Writable
<1> HIDE DEF s, n
<1>7. ASSUME NEW p, Writable(p, stk, h) PROVE Writable(p, s, h)
  <2>1. \A i \in 1..Len(s) : OfMap(s[i]) => p[1] >= s[i].key[1]
    BY <1>3, <1>7 DEF Writable, n
  <2>2. (\E j \in 1..n : Keeps(stk[j], p[1])) => \E j \in 1..Len(s) : Keeps(s[j], p[1])
    BY <1>2, <1>4
  <2> QED
    BY <1>7, <2>1, <2>2 DEF Writable, n
<1>8. ASSUME NEW p, p[1] # Null, Keeps(f, p[1]), Inside(p, h)
      PROVE  Writable(p, s, h)
  <2>1. p[1] \in Nat \ {Null}
    BY <1>8, PlaceParts DEF Inside
  <2>2. \A i \in 1..Len(s) : OfMap(s[i]) => p[1] >= s[i].key[1]
    BY <1>3, <1>8, <2>1 DEF n
  <2>3. \E j \in 1..Len(s) : Keeps(s[j], p[1])
    BY <1>2, <1>5, <1>8
  <2> QED
    BY <1>8, <2>2, <2>3 DEF Writable
<1> QED
  BY <1>6, <1>7, <1>8, SafePush DEF s

\* A frame that owns nothing comes next.
LEMMA PushPlain ==
  ASSUME NEW stk, NEW m, NEW h, Safe(stk, m, h),
         NEW f \in Frames,
         f.op \in {"value", "tag", "struct", "tuple", "comma", "colon"},
         f.op \in {"struct", "tuple"} => f.ty.k = f.op,
         Placed(f) => \/ Writable(f.dst, stk, h)
                      \/ f.op = "value" /\ f.dst[1] = Null /\ ZeroSized(f.ty)
  PROVE  /\ Safe(Append(stk, f), m, h)
         /\ \A p : Writable(p, stk, h) => Writable(p, Append(stk, f), h)
<1>1. ~OfMap(f) /\ \A b : ~Holds(f, b) /\ ~Keeps(f, b)
  BY DEF OfMap, Holds, Keeps
<1>2. FrameOK(f, h)
  <2>1. \A p : Writable(p, stk, h) => p[1] # Null /\ Inside(p, h)
    <3>1. \A b \in 1..Len(h) : b # 0
      BY LenProperties DEF Safe
    <3> QED
      BY <3>1 DEF Writable, Inside, Null
  <2> QED
    BY <1>1, <2>1 DEF FrameOK, DstOK, VecOK, SlotsOK
<1> QED
  BY <1>1, <1>2, PushFrame

\* Blocks are to be freed.
LEMMA PushDrops ==
  ASSUME NEW stk, NEW m, NEW h, Safe(stk, m, h), NEW B,
         \A b \in B : b \in Nat \ {Null} /\ Held(b, h) /\ Unowned(stk, m, b)
  PROVE  Safe(Append(stk, Drops(B)), m, h)
<1> DEFINE f == Drops(B)
<1>1. f.op = "drop" /\ f.blocks = B
  BY DEF Drops
<1>2. f \in Frames
  BY DEF Drops, Frames
<1> HIDE DEF f
<1>3. ~OfMap(f) /\ ~Placed(f) /\ \A b : ~Keeps(f, b) /\ (Holds(f, b) <=> b \in B)
  BY <1>1 DEF OfMap, Placed, Keeps, Holds
<1>4. FrameOK(f, h)
  BY <1>1, <1>3 DEF FrameOK, DstOK, VecOK, SlotsOK
<1>5. Safe(Append(stk, f), m, h)
  BY <1>2, <1>3, <1>4, PushFrame
<1> QED
  BY <1>5 DEF f

\* Places to write to are somewhere.
LEMMA WritableSomewhere ==
  ASSUME NEW stk, NEW m, NEW h, Safe(stk, m, h), NEW p, Writable(p, stk, h)
  PROVE  p \in Places /\ p[1] # Null /\ p[1] \in 1..Len(h) /\ p[2] # <<>>
<1>1. \A b \in 1..Len(h) : b # 0
  BY LenProperties DEF Safe
<1> QED
  BY <1>1 DEF Writable, Inside, Null

\* What has been read of a struct, a tuple or a map is not all: the frame on
\* top writes where it did.
LEMMA StillWritable ==
  ASSUME NEW stk, NEW m, NEW h, Safe(stk, m, h), stk # <<>>,
         NEW f, f = stk[Len(stk)]
  PROVE  /\ Placed(f) /\ ~OfMap(f) /\ f.dst[1] # Null => Writable(f.dst, stk, h)
         /\ OfMap(f) => Writable(f.key, stk, h) /\ Writable(f.val, stk, h)
<1> DEFINE s == SubSeq(stk, 1, Len(stk) - 1)
<1>1. /\ Len(stk) \in Nat \ {0}
      /\ Len(s) = Len(stk) - 1
      /\ \A i \in 1..Len(s) : i \in 1..Len(stk) /\ s[i] = stk[i]
  BY Beneath DEF Safe
<1>2. /\ f \in Frames /\ FrameOK(f, h)
      /\ Placed(f) /\ f.op # "insert" /\ f.dst[1] # Null => Writable(f.dst, s, h)
      /\ OfMap(f) => Writable(f.key, s, h) /\ Writable(f.val, s, h)
  BY Released
<1> HIDE DEF s
<1>3. \A i \in 1..Len(stk) : (i \in 1..Len(s) /\ s[i] = stk[i]) \/ stk[i] = f
  BY <1>1
<1>4. ASSUME NEW p, Writable(p, s, h), OfMap(f) => p[1] >= f.key[1]
      PROVE  Writable(p, stk, h)
  BY <1>1, <1>3, <1>4 DEF Writable
<1>5. OfMap(f) => f.key[1] >= f.key[1] /\ f.val[1] >= f.key[1]
  <2> SUFFICES ASSUME OfMap(f)
               PROVE  f.key[1] >= f.key[1] /\ f.val[1] >= f.key[1]
    OBVIOUS
  <2>1. f.key[1] \in Nat
    BY <1>2, FrameFields, PlaceParts
  <2>2. f.val[1] = f.key[1]
    BY <1>2, <2>1, AtPlace DEF FrameOK, SlotsOK
  <2> QED
    BY <2>1, <2>2
<1> QED
  BY <1>2, <1>4, <1>5 DEF OfMap, Placed

\* Two frames more.
LEMMA PushedTwo ==
  ASSUME NEW s \in Seq(Frames), NEW x \in Frames, NEW y \in Frames
  PROVE  s \o <<x, y>> = Append(Append(s, x), y)
  OBVIOUS

\* Three frames more.
LEMMA PushedThree ==
  ASSUME NEW s \in Seq(Frames), NEW x \in Frames, NEW y \in Frames,
         NEW z \in Frames
  PROVE  s \o <<x, y, z>> = Append(Append(Append(s, x), y), z)
  OBVIOUS

\* The frame on top.
LEMMA TopFrame ==
  ASSUME IInv, stack # <<>>
  PROVE  /\ stack \in Seq(Frames) /\ below \in Seq(Frames)
         /\ Safe(stack, mem, heap) /\ Safe(below, mem, heap)
         /\ top \in Frames /\ FrameOK(top, heap)
         /\ \A b \in Nat \ {Null} : Holds(top, b) => Unowned(below, mem, b)
         /\ Placed(top) => top.dst \in Places
         /\ Placed(top) /\ top.op # "insert" /\ top.dst[1] # Null =>
              Writable(top.dst, below, heap)
         /\ OfMap(top) => /\ Writable(top.key, below, heap)
                          /\ Writable(top.val, below, heap)
                          /\ top.dst \in DOMAIN mem /\ mem[top.dst].k = "map"
         /\ \A i \in 1..Len(below) : OfMap(below[i]) => Newer(below[i], top)
<1>1. stack \in Seq(Frames) /\ Safe(stack, mem, heap)
  BY DEF IInv, Safe
<1>2. Safe(below, mem, heap)
  BY <1>1, SafePop DEF below
<1> QED
  BY <1>1, <1>2, Released, FrameFields DEF below, top, Safe

\* A value is about to be read.
LEMMA Reading ==
  ASSUME IInv, NEW k, Reads(k), k # "unit"
  PROVE  /\ Writable(top.dst, below, heap)
         /\ top.ty \in Types /\ top.ty.k = k
         /\ Safe(below, mem, heap) /\ below \in Seq(Frames)
         /\ top.dst \in Places
<1>1. stack # <<>> /\ top.op = "value" /\ top.ty.k = k
  BY DEF Reads, In
<1>2. top.dst[1] # Null
  BY <1>1, TopFrame DEF FrameOK, DstOK, ZeroSized, Placed
<1> QED
  BY <1>1, <1>2, TopFrame, FrameFields DEF Placed

\* The code is in the middle of a value that it has begun to write.
LEMMA Writing ==
  ASSUME IInv, stack # <<>>, Placed(top), top.op \notin {"value", "insert"}
  PROVE  Writable(top.dst, below, heap) /\ top.dst \in Places
<1>1. top.dst[1] # Null
  BY TopFrame DEF FrameOK, DstOK
<1> QED
  BY <1>1, TopFrame

\* A word that owns nothing.
LEMMA PlainWord ==
  ASSUME NEW w, NEW h, w.k \in {"scalar", "none", "some"}
  PROVE  WordOK(w, h) /\ \A b : ~Owns(w, b)
  BY DEF WordOK, Owns, Owning

\* A value is to be read.
LEMMA ValueFrame ==
  ASSUME NEW ty \in Types, NEW a \in Places
  PROVE  /\ Value(ty, a) \in Frames
         /\ Value(ty, a).op = "value"
         /\ Value(ty, a).ty = ty /\ Value(ty, a).dst = a
  BY DEF Value, Frames

-----------------------------------------------------------------------------
(* The steps of the code, each of which keeps what is safe.                *)

\* Numbers and truth values.
LEMMA ScalarsSafe ==
  ASSUME IInv, ParseInt \/ ParseBool \/ ParseChar
  PROVE  Safe(stack', mem', heap')
<1>1. \E k \in {"int", "bool", "char"} : Reads(k)
  BY DEF ParseInt, ParseBool, ParseChar
<1>2. /\ Writable(top.dst, below, heap) /\ Safe(below, mem, heap)
  BY <1>1, Reading
<1>3. PICK v : /\ mem' = Put(mem, top.dst, Scalar(v))
               /\ stack' = below /\ heap' = heap
  BY DEF ParseInt, ParseBool, ParseChar
<1>4. WordOK(Scalar(v), heap) /\ \A b : ~Owns(Scalar(v), b)
  BY PlainWord DEF Scalar
<1> HIDE DEF Scalar
<1> QED
  BY <1>2, <1>3, <1>4, SafePut

\* A token is a text, as long as there is one.
LEMMA TokenRead ==
  ASSUME IInv, CursorInDoc, In("value")
  PROVE  tok.v \in Seq(STRING) /\ Len(tok.v) \in Nat
<1>1. stack \in Seq(Frames) /\ doc \in Docs
  BY DEF IInv, Safe
<1>2. Len(stack) \in 1..Len(stack)
  BY <1>1, EmptySeq DEF In
<1>3. cur \in 1..Len(doc.toks)
  <2>1. doc.toks \in Seq([t : STRING, v : Seq(STRING)])
    BY <1>1, DocAssumption
  <2>2. Len(doc.toks) \in Nat
    BY <2>1, LenProperties
  <2>3. cur # Len(doc.toks) + 1
    BY <1>2 DEF CursorInDoc, In, top
  <2> QED
    BY <2>2, <2>3 DEF CursorInDoc
<1>4. tok \in [t : STRING, v : Seq(STRING)]
  BY <1>1, <1>3, DocAssumption, ElementOfSeq DEF tok
<1> QED
  BY <1>4, LenProperties

\* A String: its buffer is new, filled, and then owned by the word.
LEMMA StrSafe ==
  ASSUME IInv, CursorInDoc, ParseStr
  PROVE  Safe(stack', mem', heap')
<1> DEFINE n == Len(tok.v)
           b == IF n = 0 THEN Null ELSE Len(heap) + 1
           text == BuildStr(b, tok.v)
           m == Fill(mem, text)
           p == top.dst
<1>1. /\ Writable(p, below, heap) /\ Safe(below, mem, heap) /\ p \in Places
  BY Reading DEF ParseStr
<1>2. n \in Nat
  BY TokenRead DEF ParseStr, Reads
<1>3. /\ mem' = Put(m, p, SeqWord(b, n, n))
      /\ heap' = IF n = 0 THEN heap ELSE Append(heap, Block(n))
      /\ stack' = below
  BY DEF ParseStr
<1>4. /\ DOMAIN m = DOMAIN mem \union {At(b, i - 1) : i \in 1..n}
      /\ \A a \in DOMAIN m :
           \/ a \in DOMAIN mem /\ m[a] = mem[a]
           \/ (\E i \in 1..n : a = At(b, i - 1)) /\ m[a].k = "scalar"
      /\ \A a \in DOMAIN mem : a \notin {At(b, i - 1) : i \in 1..n} => m[a] = mem[a]
  BY DEF Fill, BuildStr, Scalar
<1> HIDE DEF m, p
<1>5. CASE n = 0
  <2>1. {At(b, i - 1) : i \in 1..n} = {}
    BY <1>5
  <2>2. /\ \A a \in DOMAIN m : a \in DOMAIN mem /\ m[a] = mem[a]
        /\ \A a \in DOMAIN mem : a \in DOMAIN m
    BY <1>4, <2>1
  <2>3. Safe(below, m, heap)
    BY <1>1, <2>2, SafeFill
  <2>4. WordOK(SeqWord(Null, 0, 0), heap) /\ \A c \in Nat \ {Null} : ~Owns(SeqWord(Null, 0, 0), c)
    BY DEF WordOK, SeqWord, Owns, Owning, Null
  <2> QED
    BY <1>1, <1>3, <1>5, <2>3, <2>4, SafePut
<1>6. CASE n # 0
  <2> DEFINE h == Append(heap, Block(n))
  <2>1. b = Len(heap) + 1 /\ heap' = h
    BY <1>3, <1>6
  <2>2. Block(n) \in BlockRecs
    BY <1>2 DEF Block, BlockRecs
  <2>3. /\ Safe(below, mem, h)
        /\ h[b] = Block(n) /\ b \in 1..Len(h)
        /\ Unowned(below, mem, b)
        /\ \A a \in DOMAIN mem : a[1] # b
        /\ Writable(p, below, h)
    BY <1>1, <2>1, <2>2, SafeAlloc
  <2>4. b \in Nat \ {Null}
    BY <2>1, LenProperties DEF Null, IInv, Safe
  <2>5. \A i \in 1..n : i - 1 \in Nat /\ i - 1 < n
    BY <1>2
  <2> HIDE DEF b, h
  <2>6. \A i \in 1..n : Inside(At(b, i - 1), h) /\ At(b, i - 1)[1] = b
    <3>1. h[b].live /\ h[b].room = n
      BY <2>3 DEF Block
    <3>2. ASSUME NEW j \in Nat, j < n
          PROVE  Inside(At(b, j), h) /\ At(b, j)[1] = b
      BY <2>3, <2>4, <3>1, <3>2, AtPlace DEF Inside
    <3> QED
      BY <2>5, <3>2
  <2>7. Safe(below, m, h) /\ Unowned(below, m, b)
    <3>1. \A a \in DOMAIN m :
            \/ a \in DOMAIN mem /\ m[a] = mem[a]
            \/ Inside(a, h) /\ m[a].k \in {"scalar", "none", "some"}
      BY <1>4, <2>6
    <3>2. \A a \in DOMAIN mem : a \in DOMAIN m /\ m[a] = mem[a]
      BY <1>4, <2>3, <2>6
    <3>3. \A i \in 1..Len(below) : OfMap(below[i]) =>
            below[i].dst \in DOMAIN m /\ m[below[i].dst] = mem[below[i].dst]
      BY <1>1, <3>2 DEF Safe, Rooted
    <3> QED
      BY <2>3, <3>1, <3>3, Rewritten
  <2>8. WordOK(SeqWord(b, n, n), h) /\ \A c : Owns(SeqWord(b, n, n), c) => c = b
    BY <2>3, <2>4 DEF WordOK, SeqWord, Owns, Owning, Held, Block
  <2> QED
    BY <1>3, <2>1, <2>3, <2>7, <2>8, SafePut
<1> QED
  BY <1>5, <1>6

\* Steps that only end something.
LEMMA EndsSafe ==
  ASSUME IInv, ParseUnit \/ ParseComma \/ EndStruct \/ EndTuple \/ ParseColon
  PROVE  Safe(stack', mem', heap')
<1>1. stack # <<>> /\ stack' = below /\ mem' = mem /\ heap' = heap
  BY DEF ParseUnit, ParseComma, EndStruct, EndTuple, ParseColon, Reads, In
<1> QED
  BY <1>1, TopFrame

\* None is a word in place of the payload.
LEMMA NoneSafe ==
  ASSUME IInv, ParseNone
  PROVE  Safe(stack', mem', heap')
<1> DEFINE p == top.dst
           m == Put(Clear(mem, p), p, None)
<1>1. Writable(p, below, heap) /\ Safe(below, mem, heap)
  BY Reading DEF ParseNone
<1>2. stack' = below /\ mem' = m /\ heap' = heap
  BY DEF ParseNone
<1>3. \A a \in DOMAIN mem : a[1] # p[1] => a \in DOMAIN m
  BY DEF Put, Clear, Within
<1>4. \A a \in DOMAIN m :
        (a \in DOMAIN mem /\ m[a] = mem[a]) \/ (a = p /\ m[a].k = "none")
  BY DEF Put, Clear, None
<1> HIDE DEF m, p
<1>5. Inside(p, heap)
  BY <1>1 DEF Writable
<1> QED
  BY <1>1, <1>2, <1>3, <1>4, <1>5, SafeFill

\* The payload of Some is read in place, or behind a tag.
LEMMA SomeSafe ==
  ASSUME IInv, ParseSome
  PROVE  Safe(stack', mem', heap')
<1> DEFINE p == top.dst
           t == [op |-> "tag", dst |-> p]
           v == Value(top.ty.inner, p)
           w == Value(top.ty.inner, Part(p, 0))
<1>1. /\ Writable(p, below, heap) /\ Safe(below, mem, heap) /\ p \in Places
      /\ top.ty \in Types /\ top.ty.k = "opt" /\ below \in Seq(Frames)
  BY Reading DEF ParseSome
<1>2. top.ty.inner \in Types
  BY <1>1, TypeAssumption
<1>3. /\ stack' = IF top.ty.niche THEN Append(below, v) ELSE below \o <<t, w>>
      /\ UNCHANGED <<mem, heap>>
  BY DEF ParseSome
<1>4. t \in Frames /\ t.op = "tag" /\ t.dst = p
  BY <1>1 DEF Frames
<1>5. Writable(Part(p, 0), below, heap) /\ Part(p, 0) \in Places
  BY <1>1, PartWritable, PartPlace DEF Writable, Inside
<1>6. /\ v \in Frames /\ v.op = "value" /\ v.dst = p
      /\ w \in Frames /\ w.op = "value" /\ w.dst = Part(p, 0)
  BY <1>1, <1>2, <1>5, ValueFrame
<1> HIDE DEF t, v, w, p
<1>7. CASE top.ty.niche
  BY <1>1, <1>3, <1>6, <1>7, PushPlain
<1>8. CASE ~top.ty.niche
  <2>1. stack' = Append(Append(below, t), w)
    BY <1>1, <1>3, <1>4, <1>6, <1>8, PushedTwo
  <2>2. /\ Safe(Append(below, t), mem, heap)
        /\ Writable(Part(p, 0), Append(below, t), heap)
    BY <1>1, <1>4, <1>5, PushPlain
  <2>3. Safe(Append(Append(below, t), w), mem, heap)
    BY <1>6, <2>2, PushPlain
  <2> QED
    BY <1>3, <2>1, <2>3
<1> QED
  BY <1>7, <1>8

\* The tag comes after the payload.
LEMMA TagSafe ==
  ASSUME IInv, StoreTag
  PROVE  Safe(stack', mem', heap')
<1>1. stack # <<>> /\ top.op = "tag" /\ Placed(top)
  BY DEF StoreTag, In, Placed
<1>2. Writable(top.dst, below, heap) /\ Safe(below, mem, heap)
  BY <1>1, Writing, TopFrame
<1> DEFINE w == [k |-> "some"]
<1>3. WordOK(w, heap) /\ \A b : ~Owns(w, b)
  BY PlainWord
<1>4. mem' = Put(mem, top.dst, w) /\ stack' = below /\ heap' = heap
  BY DEF StoreTag
<1> HIDE DEF w
<1> QED
  BY <1>2, <1>3, <1>4, SafePut

\* A block for the pointee, which the code owns until it is read.
LEMMA BoxSafe ==
  ASSUME IInv, ParseBox
  PROVE  Safe(stack', mem', heap')
<1> DEFINE p == top.dst
           b == IF ZeroSized(top.ty.inner) THEN Null ELSE Len(heap) + 1
           f == [op |-> "box", dst |-> p, ptr |-> b]
           v == Value(top.ty.inner, At(b, 0))
           h == Append(heap, Block(1))
<1>1. /\ Writable(p, below, heap) /\ Safe(below, mem, heap) /\ p \in Places
      /\ top.ty \in Types /\ top.ty.k = "box" /\ below \in Seq(Frames)
  BY Reading DEF ParseBox
<1>2. top.ty.inner \in Types
  BY <1>1, TypeAssumption
<1>3. /\ stack' = below \o <<f, v>>
      /\ heap' = IF b = Null THEN heap ELSE h
      /\ mem' = mem
  BY DEF ParseBox
<1>4. Len(heap) \in Nat /\ Len(heap) + 1 \in Nat /\ Len(heap) + 1 # Null
  BY LenProperties DEF IInv, Safe, Null
<1>5. b \in Nat /\ At(b, 0) \in Places /\ At(b, 0)[1] = b
      /\ At(b, 0)[2] # <<>> /\ At(b, 0)[2][1] = 0
  BY <1>4, AtPlace DEF Null
<1>6. f \in Frames /\ f.op = "box" /\ f.dst = p /\ f.ptr = b
  BY <1>1, <1>5 DEF Frames
<1>7. v \in Frames /\ v.op = "value" /\ v.ty = top.ty.inner /\ v.dst = At(b, 0)
  BY <1>2, <1>5, ValueFrame
<1> HIDE DEF f, v
<1>8. stack' = Append(Append(below, f), v)
  BY <1>1, <1>3, <1>6, <1>7, PushedTwo
<1>9. ~OfMap(f) /\ Placed(f) /\ \A c : (Holds(f, c) <=> c = b) /\ (Keeps(f, c) <=> c = b)
  BY <1>6 DEF OfMap, Placed, Holds, Keeps
<1>10. ASSUME NEW g, p[1] # Null, Inside(p, g), b # Null => Held(b, g)
       PROVE  FrameOK(f, g)
  BY <1>6, <1>9, <1>10 DEF FrameOK, DstOK, VecOK, SlotsOK
<1>11. p[1] # Null /\ Inside(p, heap)
  BY <1>1, WritableSomewhere DEF Writable
<1>12. CASE ZeroSized(top.ty.inner)
  <2>1. b = Null /\ heap' = heap
    BY <1>3, <1>12
  <2>2. Safe(Append(below, f), mem, heap)
    BY <1>1, <1>6, <1>9, <1>10, <1>11, <2>1, PushFrame
  <2>3. Safe(Append(Append(below, f), v), mem, heap)
    BY <1>5, <1>7, <1>12, <2>1, <2>2, PushPlain
  <2> QED
    BY <1>3, <1>8, <2>1, <2>3
<1>13. CASE ~ZeroSized(top.ty.inner)
  <2>1. b = Len(heap) + 1 /\ b # Null /\ heap' = h
    BY <1>3, <1>4, <1>13
  <2>2. Block(1) \in BlockRecs
    BY DEF Block, BlockRecs
  <2>3. /\ Safe(below, mem, h)
        /\ h[b] = Block(1) /\ b \in 1..Len(h)
        /\ Unowned(below, mem, b)
        /\ \A i \in 1..Len(below) : OfMap(below[i]) => b >= below[i].key[1]
        /\ Writable(p, below, h)
    BY <1>1, <2>1, <2>2, SafeAlloc
  <2> HIDE DEF h, b
  <2>4. Held(b, h) /\ Inside(At(b, 0), h)
    BY <1>5, <2>3 DEF Held, Inside, Block
  <2>5. FrameOK(f, h)
    BY <1>10, <1>11, <2>3, <2>4 DEF Writable
  <2>6. /\ Safe(Append(below, f), mem, h)
        /\ Writable(At(b, 0), Append(below, f), h)
    BY <1>5, <1>6, <1>9, <2>1, <2>3, <2>4, <2>5, PushFrame
  <2>7. Safe(Append(Append(below, f), v), mem, h)
    BY <1>7, <2>6, PushPlain
  <2> QED
    BY <1>3, <1>8, <2>1, <2>7
<1> QED
  BY <1>12, <1>13

\* The block that the code owned is the word's.
LEMMA BoxStored ==
  ASSUME IInv, StoreBox
  PROVE  Safe(stack', mem', heap')
<1> DEFINE w == [k |-> "box", ptr |-> top.ptr]
<1>1. stack # <<>> /\ top.op = "box" /\ Placed(top)
  BY DEF StoreBox, In, Placed
<1>2. /\ Writable(top.dst, below, heap) /\ Safe(below, mem, heap)
      /\ \A b \in Nat \ {Null} : Holds(top, b) => Unowned(below, mem, b)
      /\ FrameOK(top, heap) /\ top.ptr \in Nat
  BY <1>1, Writing, TopFrame, FrameFields
<1>3. top.ptr # Null => Holds(top, top.ptr) /\ Held(top.ptr, heap)
  BY <1>1, <1>2 DEF FrameOK, Holds, Keeps
<1>4. WordOK(w, heap) /\ \A b : Owns(w, b) => b = top.ptr
  BY <1>2, <1>3 DEF WordOK, Owns, Owning
<1>5. mem' = Put(mem, top.dst, w) /\ stack' = below /\ heap' = heap
  BY DEF StoreBox
<1> HIDE DEF w
<1> QED
  BY <1>2, <1>3, <1>4, <1>5, SafePut

\* The function of a recursive type reads to the same place.
LEMMA RefSafe ==
  ASSUME IInv, CallRef
  PROVE  Safe(stack', mem', heap')
<1> DEFINE v == Value(Cells[top.ty.cell], top.dst)
<1>1. /\ Writable(top.dst, below, heap) /\ Safe(below, mem, heap)
      /\ top.dst \in Places /\ top.ty \in Types /\ top.ty.k = "ref"
  BY Reading DEF CallRef
<1>2. v \in Frames /\ v.op = "value" /\ v.dst = top.dst
  BY <1>1, TypeAssumption, ValueFrame
<1>3. stack' = Append(below, v) /\ UNCHANGED <<mem, heap>>
  BY DEF CallRef
<1> HIDE DEF v
<1> QED
  BY <1>1, <1>2, <1>3, PushPlain

\* Punctuation to come.
LEMMA MarkFrame ==
  /\ Comma \in Frames /\ Comma.op = "comma"
  /\ Colon \in Frames /\ Colon.op = "colon"
  BY DEF Comma, Colon, Frames

\* A comma is to come, and before it a value.
LEMMA PushItem ==
  ASSUME NEW stk, NEW m, NEW h, Safe(stk, m, h),
         NEW v \in Frames, v.op = "value",
         \/ Writable(v.dst, stk, h)
         \/ v.dst[1] = Null /\ ZeroSized(v.ty)
  PROVE  /\ Safe(Append(Append(stk, Comma), v), m, h)
         /\ stk \o <<Comma, v>> = Append(Append(stk, Comma), v)
<1>1. ~Placed(Comma)
  BY MarkFrame DEF Placed
<1>2. /\ Safe(Append(stk, Comma), m, h)
      /\ Writable(v.dst, stk, h) => Writable(v.dst, Append(stk, Comma), h)
  BY <1>1, MarkFrame, PushPlain
<1>3. Safe(Append(Append(stk, Comma), v), m, h)
  BY <1>2, PushPlain
<1> QED
  BY <1>3, MarkFrame, PushedTwo DEF Safe

\* Option fields are None until their keys are read.
LEMMA StructSafe ==
  ASSUME IInv, EnterStruct
  PROVE  Safe(stack', mem', heap')
<1> DEFINE p == top.dst
           n == Len(top.ty.fields)
           opts == {Part(p, i) : i \in {j \in 1..n : top.ty.fields[j].ty.k = "opt"}}
           kept == {a \in DOMAIN mem : \A o \in opts : ~Within(a, o)}
           m == [a \in kept \union opts |-> IF a \in opts THEN None ELSE mem[a]]
           f == [op |-> "struct", ty |-> top.ty, dst |-> p]
<1>1. /\ Writable(p, below, heap) /\ Safe(below, mem, heap) /\ p \in Places
      /\ top.ty \in Types /\ top.ty.k = "struct"
  BY Reading DEF EnterStruct
<1>2. n \in Nat
  BY <1>1, TypeAssumption
<1>3. stack' = Append(below, f) /\ mem' = m /\ heap' = heap
  BY DEF EnterStruct
<1>4. p[2] # <<>>
  BY <1>1 DEF Writable, Inside
<1>5. \A o \in opts : Inside(o, heap) /\ o[1] = p[1]
  <2> SUFFICES ASSUME NEW i \in 1..n
               PROVE  Inside(Part(p, i), heap) /\ Part(p, i)[1] = p[1]
    OBVIOUS
  <2>1. i \in Nat
    BY <1>2
  <2> QED
    BY <1>1, <1>4, <2>1, PartPlace, PartWritable DEF Writable
<1> HIDE DEF opts
<1>6. \A a \in DOMAIN mem : a[1] # p[1] => a \in DOMAIN m
  BY <1>5 DEF Within
<1>7. \A a \in DOMAIN m :
        \/ a \in DOMAIN mem /\ m[a] = mem[a]
        \/ Inside(a, heap) /\ a[1] = p[1] /\ m[a].k \in {"scalar", "none", "some"}
  BY <1>5 DEF None
<1>8. f \in Frames /\ f.op = "struct" /\ f.ty = top.ty /\ f.dst = p
  BY <1>1 DEF Frames
<1> HIDE DEF f, m, p
<1>9. Safe(below, m, heap)
  BY <1>1, <1>6, <1>7, SafeFill
<1> QED
  BY <1>1, <1>3, <1>8, <1>9, PushPlain

\* A field is read in its place.
LEMMA FieldSafe ==
  ASSUME IInv, ParseField
  PROVE  Safe(stack', mem', heap')
<1>1. stack # <<>> /\ top.op = "struct" /\ Placed(top) /\ ~OfMap(top)
  BY DEF ParseField, In, Placed, OfMap
<1>2. /\ Safe(stack, mem, heap) /\ top.ty \in Types /\ top.ty.k = "struct"
      /\ top.dst \in Places /\ top.dst[1] # Null
  BY <1>1, TopFrame, FrameFields DEF FrameOK, DstOK
<1>3. Writable(top.dst, stack, heap)
  BY <1>1, <1>2, StillWritable DEF top
<1>4. PICK i \in Named :
        stack' = stack \o <<Comma, Value(top.ty.fields[i].ty, Part(top.dst, i))>>
  BY DEF ParseField
<1>5. i \in Nat /\ top.ty.fields[i].ty \in Types
  BY <1>2, TypeAssumption DEF Named
<1>6. Writable(Part(top.dst, i), stack, heap) /\ Part(top.dst, i) \in Places
  BY <1>2, <1>3, <1>5, PartWritable, PartPlace DEF Writable, Inside
<1> DEFINE v == Value(top.ty.fields[i].ty, Part(top.dst, i))
<1>7. v \in Frames /\ v.op = "value" /\ v.dst = Part(top.dst, i)
  BY <1>5, <1>6, ValueFrame
<1>8. stack' = stack \o <<Comma, v>> /\ mem' = mem /\ heap' = heap
  BY <1>4 DEF ParseField
<1> HIDE DEF v
<1> QED
  BY <1>2, <1>6, <1>7, <1>8, PushItem

\* A key that is no field's is passed over with its value.
LEMMA SkipSafe ==
  ASSUME IInv, SkipField
  PROVE  Safe(stack', mem', heap')
<1>1. stack' = Append(stack, Comma) /\ mem' = mem /\ heap' = heap
  BY DEF SkipField
<1>2. ~Placed(Comma) /\ Safe(stack, mem, heap)
  BY MarkFrame DEF Placed, IInv
<1> QED
  BY <1>1, <1>2, MarkFrame, PushPlain

\* A tuple's items are read one after the other.
LEMMA TupleSafe ==
  ASSUME IInv, EnterTuple
  PROVE  Safe(stack', mem', heap')
<1> DEFINE f == [op |-> "tuple", ty |-> top.ty, dst |-> top.dst, next |-> 1]
<1>1. /\ Writable(top.dst, below, heap) /\ Safe(below, mem, heap)
      /\ top.dst \in Places /\ top.ty \in Types /\ top.ty.k = "tuple"
  BY Reading DEF EnterTuple
<1>2. f \in Frames /\ f.op = "tuple" /\ f.ty = top.ty /\ f.dst = top.dst
  BY <1>1 DEF Frames
<1>3. stack' = Append(below, f) /\ mem' = mem /\ heap' = heap
  BY DEF EnterTuple
<1> HIDE DEF f
<1> QED
  BY <1>1, <1>2, <1>3, PushPlain

\* The next item, in its place.
LEMMA ItemSafe ==
  ASSUME IInv, ParseItem
  PROVE  Safe(stack', mem', heap')
<1> DEFINE f == [top EXCEPT !.next = @ + 1]
           i == top.next
           v == Value(top.ty.fields[i].ty, Part(top.dst, i))
<1>1. stack # <<>> /\ top.op = "tuple" /\ Placed(top) /\ ~OfMap(top)
  BY DEF ParseItem, In, Placed, OfMap
<1>2. /\ Safe(below, mem, heap) /\ below \in Seq(Frames)
      /\ top.ty \in Types /\ top.ty.k = "tuple"
      /\ Writable(top.dst, below, heap) /\ top.dst \in Places
      /\ top \in Frames /\ i \in Nat \ {0}
  BY <1>1, TopFrame, Writing, FrameFields DEF FrameOK
<1>3. f \in Frames /\ f.op = "tuple" /\ f.ty = top.ty /\ f.dst = top.dst
  <2>1. top \in [op : {"tuple"}, ty : Types, dst : Places, next : Nat \ {0}]
    BY <1>1, <1>2 DEF Frames
  <2>2. f \in [op : {"tuple"}, ty : Types, dst : Places, next : Nat \ {0}]
    BY <2>1
  <2> QED
    BY <2>1, <2>2 DEF Frames
<1>4. /\ stack' = below \o <<f, Comma, v>>
      /\ mem' = mem /\ heap' = heap
  BY DEF ParseItem
<1>5. i \in 1..Len(top.ty.fields)
  BY <1>2, TypeAssumption DEF ParseItem
<1>6. top.ty.fields[i].ty \in Types
  BY <1>2, <1>5, TypeAssumption
<1>7. Writable(Part(top.dst, i), below, heap) /\ Part(top.dst, i) \in Places
  BY <1>2, PartWritable, PartPlace DEF Writable, Inside
<1>8. v \in Frames /\ v.op = "value" /\ v.dst = Part(top.dst, i)
  BY <1>6, <1>7, ValueFrame
<1> HIDE DEF f, v
<1>9. stack' = Append(Append(Append(below, f), Comma), v)
  BY <1>2, <1>3, <1>4, <1>8, MarkFrame, PushedThree
<1>10. /\ Safe(Append(below, f), mem, heap)
       /\ Writable(v.dst, Append(below, f), heap)
  BY <1>2, <1>3, <1>7, <1>8, PushPlain
<1> QED
  BY <1>4, <1>8, <1>9, <1>10, PushItem

\* A vector starts without a buffer.
LEMMA VecSafe ==
  ASSUME IInv, EnterVec
  PROVE  Safe(stack', mem', heap')
<1> DEFINE f == [op |-> "vec", ty |-> top.ty, dst |-> top.dst, base |-> Null,
                 cap |-> 0, len |-> 0]
<1>1. /\ Writable(top.dst, below, heap) /\ Safe(below, mem, heap)
      /\ top.dst \in Places /\ top.ty \in Types /\ top.ty.k = "vec"
  BY Reading DEF EnterVec
<1>2. /\ f \in Frames /\ f.op = "vec" /\ f.ty = top.ty /\ f.dst = top.dst
      /\ f.base = Null /\ f.cap = 0 /\ f.len = 0
  BY <1>1 DEF Frames, Null
<1>3. stack' = Append(below, f) /\ mem' = mem /\ heap' = heap
  BY DEF EnterVec
<1> HIDE DEF f
<1>4. ~OfMap(f) /\ \A b \in Nat \ {Null} : ~Holds(f, b) /\ ~Keeps(f, b)
  BY <1>2 DEF OfMap, Holds, Keeps
<1>5. Inside(f.dst, heap)
  BY <1>1, <1>2 DEF Writable
<1>6. FrameOK(f, heap)
  BY <1>1, <1>2, <1>4, <1>5, WritableSomewhere DEF FrameOK, DstOK, VecOK, SlotsOK
<1> QED
  BY <1>1, <1>2, <1>3, <1>4, <1>6, PushFrame

\* The vector on top.
LEMMA TopVec ==
  ASSUME IInv, In("vec")
  PROVE  /\ Safe(below, mem, heap) /\ below \in Seq(Frames)
         /\ top \in [op : {"vec"}, ty : Types, dst : Places, base : Nat,
                     cap : Nat, len : Nat]
         /\ top.ty.k = "vec" /\ top.ty.elem \in Types
         /\ Writable(top.dst, below, heap)
         /\ VecOK(top, heap) /\ Inside(top.dst, heap) /\ top.dst[1] # Null
         /\ top.base # Null =>
              /\ Held(top.base, heap) /\ Unowned(below, mem, top.base)
              /\ \A i \in 1..Len(below) :
                   OfMap(below[i]) => top.base >= below[i].key[1]
<1>1. stack # <<>> /\ top.op = "vec" /\ Placed(top)
  BY DEF In, Placed
<1>2. /\ Safe(below, mem, heap) /\ below \in Seq(Frames) /\ top \in Frames
      /\ FrameOK(top, heap) /\ Writable(top.dst, below, heap)
      /\ \A b \in Nat \ {Null} : Holds(top, b) => Unowned(below, mem, b)
      /\ \A i \in 1..Len(below) : OfMap(below[i]) => Newer(below[i], top)
  BY <1>1, TopFrame, Writing
<1>3. top \in [op : {"vec"}, ty : Types, dst : Places, base : Nat,
               cap : Nat, len : Nat]
  BY <1>1, <1>2 DEF Frames
<1>4. top.ty.k = "vec" /\ top.ty.elem \in Types
  BY <1>1, <1>2, <1>3, TypeAssumption DEF FrameOK, VecOK
<1>5. ASSUME top.base # Null
      PROVE  /\ Held(top.base, heap) /\ Unowned(below, mem, top.base)
             /\ \A i \in 1..Len(below) :
                  OfMap(below[i]) => top.base >= below[i].key[1]
  <2>1. top.base \in Nat \ {Null} /\ Keeps(top, top.base) /\ Holds(top, top.base)
    BY <1>1, <1>3, <1>5 DEF Keeps, Holds
  <2> QED
    BY <1>2, <2>1 DEF FrameOK, Newer
<1> QED
  BY <1>2, <1>3, <1>4, <1>5, WritableSomewhere DEF FrameOK, Writable

\* The same vector later: it goes on in a buffer that it owns.
LEMMA PushVec ==
  ASSUME NEW stk, NEW m, NEW h, Safe(stk, m, h),
         NEW f \in [op : {"vec"}, ty : Types, dst : Places, base : Nat,
                    cap : Nat, len : Nat],
         VecOK(f, h), Writable(f.dst, stk, h),
         f.base # Null =>
           /\ Held(f.base, h) /\ Unowned(stk, m, f.base)
           /\ \A i \in 1..Len(stk) : OfMap(stk[i]) => f.base >= stk[i].key[1]
  PROVE  /\ Safe(Append(stk, f), m, h)
         /\ \A p : p[1] # Null /\ p[1] = f.base /\ Inside(p, h)
                     => Writable(p, Append(stk, f), h)
<1>1. f \in Frames /\ f.op = "vec"
  BY DEF Frames
<1>2. /\ ~OfMap(f) /\ Placed(f)
      /\ \A b : (Holds(f, b) <=> b = f.base) /\ (Keeps(f, b) <=> b = f.base)
  BY <1>1 DEF OfMap, Placed, Holds, Keeps
<1>3. Inside(f.dst, h) /\ f.dst[1] # Null
  BY WritableSomewhere DEF Writable
<1>4. FrameOK(f, h)
  BY <1>1, <1>2, <1>3 DEF FrameOK, DstOK, SlotsOK
<1> QED
  BY <1>1, <1>2, <1>4, PushFrame

\* An element is read to its place in the buffer.
LEMMA ElemSafe ==
  ASSUME IInv, ParseElem
  PROVE  Safe(stack', mem', heap')
<1> DEFINE f == [top EXCEPT !.len = @ + 1]
           a == At(top.base, top.len)
           v == Value(top.ty.elem, a)
           V == [op : {"vec"}, ty : Types, dst : Places, base : Nat,
                 cap : Nat, len : Nat]
<1>1. In("vec") /\ top.len # top.cap
  BY DEF ParseElem
<1>2. top \in V /\ top.ty.elem \in Types
  BY <1>1, TopVec
<1>3. /\ f \in V /\ f.op = "vec" /\ f.ty = top.ty /\ f.dst = top.dst
      /\ f.base = top.base /\ f.cap = top.cap /\ f.len = top.len + 1
  BY <1>2
<1>4. /\ stack' = below \o <<f, Comma, v>>
      /\ mem' = mem /\ heap' = heap
  BY DEF ParseElem
<1>5. /\ a \in Places /\ a[1] = top.base /\ a[2] # <<>> /\ a[2][1] = top.len
      /\ v \in Frames /\ v.op = "value" /\ v.ty = top.ty.elem /\ v.dst = a
  BY <1>2, AtPlace, ValueFrame
<1> HIDE DEF f, v, a, V
<1>6. top.base \in Nat /\ top.len \in Nat /\ top.cap \in Nat /\ top.op = "vec"
  BY <1>2 DEF V
<1>7. VecOK(top, heap)
  BY <1>1, TopVec
<1>8. top.len < top.cap
  BY <1>1, <1>6, <1>7 DEF VecOK
<1>9. VecOK(f, heap)
  BY <1>3, <1>6, <1>7, <1>8 DEF VecOK
<1>10. /\ Safe(Append(below, f), mem, heap)
       /\ \A p : p[1] # Null /\ p[1] = f.base /\ Inside(p, heap)
                   => Writable(p, Append(below, f), heap)
  BY <1>1, <1>3, <1>9, TopVec, PushVec DEF V
<1>11. Writable(v.dst, Append(below, f), heap) \/ (v.dst[1] = Null /\ ZeroSized(v.ty))
  <2>1. CASE top.base = Null
    <3>1. top.cap # 0
      BY <1>6, <1>8
    <3> QED
      BY <1>5, <1>6, <1>7, <2>1, <3>1 DEF VecOK
  <2>2. CASE top.base # Null
    <3>1. Held(top.base, heap) /\ heap[top.base].room = top.cap
      BY <1>1, <1>6, <1>7, <2>2, TopVec DEF VecOK
    <3>2. Inside(a, heap)
      BY <1>5, <1>8, <3>1 DEF Inside, Held
    <3> QED
      BY <1>3, <1>5, <1>10, <2>2, <3>2
  <2> QED
    BY <2>1, <2>2
<1>12. f \in Frames
  BY <1>3 DEF Frames, V
<1>13. stack' = Append(Append(Append(below, f), Comma), v)
  BY <1>1, <1>4, <1>5, <1>12, TopVec, MarkFrame, PushedThree
<1> QED
  BY <1>4, <1>5, <1>10, <1>11, <1>13, PushItem

\* The buffer is the word's.
LEMMA VecStored ==
  ASSUME IInv, EndVec
  PROVE  Safe(stack', mem', heap')
<1> DEFINE w == SeqWord(top.base, top.cap, top.len)
<1>1. In("vec")
  BY DEF EndVec
<1>2. top.base \in Nat
  BY <1>1, TopVec
<1>3. WordOK(w, heap) /\ \A b : Owns(w, b) => b = top.base
  BY <1>1, <1>2, TopVec DEF WordOK, Owns, Owning, SeqWord
<1>4. mem' = Put(mem, top.dst, w) /\ stack' = below /\ heap' = heap
  BY DEF EndVec
<1> HIDE DEF w
<1> QED
  BY <1>1, <1>3, <1>4, TopVec, SafePut

\* A vector that is full moves to a larger buffer, elements and all.
LEMMA GrowSafe ==
  ASSUME IInv, Grow
  PROVE  Safe(stack', mem', heap')
<1> DEFINE cap == IF top.cap = 0 THEN 4 ELSE 2 * top.cap
           b == IF ZeroSized(top.ty.elem) THEN Null ELSE Len(heap) + 1
           f == [top EXCEPT !.base = b, !.cap = cap]
           m == [a \in {IF c[1] = top.base THEN <<b, c[2]>> ELSE c :
                          c \in DOMAIN mem} |->
                   IF a[1] = b THEN mem[<<top.base, a[2]>>] ELSE mem[a]]
           h1 == Append(heap, Block(cap))
           h2 == Append(Free(heap, {top.base}), Block(cap))
           V == [op : {"vec"}, ty : Types, dst : Places, base : Nat,
                 cap : Nat, len : Nat]
<1>1. In("vec")
  BY DEF Grow
<1>2. /\ Safe(below, mem, heap)
      /\ top \in V
      /\ Writable(top.dst, below, heap)
      /\ VecOK(top, heap) /\ Inside(top.dst, heap) /\ top.dst[1] # Null
      /\ top.base # Null =>
           /\ Held(top.base, heap) /\ Unowned(below, mem, top.base)
           /\ \A i \in 1..Len(below) :
                OfMap(below[i]) => top.base >= below[i].key[1]
  BY <1>1, TopVec
<1>3. /\ stack' = Append(below, f) /\ mem' = m
      /\ heap' = IF b = Null THEN heap ELSE h2
  BY DEF Grow
<1>4. /\ heap \in Seq(BlockRecs) /\ Len(heap) \in Nat /\ Len(heap) + 1 \in Nat
      /\ Len(heap) + 1 # Null /\ Len(heap) + 1 \notin 1..Len(heap)
  BY LenProperties DEF IInv, Safe, Null
<1>5. cap \in Nat /\ top.cap <= cap /\ cap # 0
  BY <1>2
<1>6. b \in Nat
  BY <1>4 DEF Null
<1>7. /\ f \in V /\ f.op = "vec" /\ f.ty = top.ty /\ f.dst = top.dst
      /\ f.base = b /\ f.cap = cap /\ f.len = top.len
  BY <1>2, <1>5, <1>6
<1>8. \A c \in DOMAIN mem :
        /\ Inside(c, heap) /\ c = <<c[1], c[2]>>
        /\ c[1] \in 1..Len(heap) /\ c[1] # Null /\ c[1] # Len(heap) + 1
  <2>1. \A i \in 1..Len(heap) : i # Null
    BY <1>4 DEF Null
  <2> QED
    BY <1>2, <1>4, <2>1, PlaceParts DEF Safe, MemOK, Inside
<1>9. /\ \A a \in DOMAIN m :
           \/ \E c \in DOMAIN mem : c[1] = top.base /\ a = <<b, c[2]>>
           \/ a \in DOMAIN mem /\ a[1] # top.base
      /\ \A a \in DOMAIN mem : a[1] # top.base => a \in DOMAIN m
      /\ \A a \in DOMAIN m :
           m[a] = IF a[1] = b THEN mem[<<top.base, a[2]>>] ELSE mem[a]
  OBVIOUS
<1>10. top.ty.k = "vec" /\ top.len <= top.cap /\ top.len \in Nat /\ top.cap \in Nat
       /\ top.base \in Nat /\ top.op = "vec"
  BY <1>2 DEF VecOK
<1> HIDE DEF f, m, V, cap
<1>11. CASE ZeroSized(top.ty.elem)
  <2>1. b = Null /\ top.base = Null
    BY <1>2, <1>10, <1>11 DEF VecOK
  <2>2. \A a \in DOMAIN m : a \in DOMAIN mem /\ m[a] = mem[a]
    BY <1>8, <1>9, <2>1
  <2>3. \A a \in DOMAIN mem : a \in DOMAIN m
    BY <1>8, <1>9, <2>1
  <2>4. Safe(below, m, heap)
    BY <1>2, <2>2, <2>3, SafeFill
  <2>5. VecOK(f, heap)
    BY <1>5, <1>7, <1>10, <1>11, <2>1 DEF VecOK
  <2>6. Safe(Append(below, f), m, heap)
    BY <1>2, <1>7, <2>1, <2>4, <2>5, PushVec DEF V
  <2> QED
    BY <1>3, <2>1, <2>6
<1>12. CASE ~ZeroSized(top.ty.elem)
  <2>1. b = Len(heap) + 1 /\ b # Null
    BY <1>4, <1>12
  <2>2. Block(cap) \in BlockRecs
    BY <1>5 DEF Block, BlockRecs
  <2>3. /\ Safe(below, mem, h1)
        /\ h1[b] = Block(cap) /\ b \in 1..Len(h1) /\ Len(h1) = Len(heap) + 1
        /\ Unowned(below, mem, b)
        /\ \A i \in 1..Len(below) : OfMap(below[i]) => b >= below[i].key[1]
        /\ Writable(top.dst, below, h1)
    BY <1>2, <2>1, <2>2, SafeAlloc
  <2>4. \A c \in 1..Len(heap) : h1[c] = heap[c]
    BY <1>4, <2>2, AppendProperties
  <2>5. /\ h2 \in Seq(BlockRecs) /\ Len(h2) = Len(heap) + 1
        /\ h2[b] = Block(cap)
        /\ \A c \in 1..Len(heap) :
             /\ h2[c].slot = heap[c].slot /\ h2[c].room = heap[c].room
             /\ c # top.base => h2[c].live = heap[c].live
    <3> DEFINE g == Free(heap, {top.base})
    <3>1. /\ g \in Seq(BlockRecs) /\ Len(g) = Len(heap)
          /\ \A c \in 1..Len(heap) :
               /\ g[c].slot = heap[c].slot /\ g[c].room = heap[c].room
               /\ c # top.base => g[c].live = heap[c].live
      BY <1>4, Freed
    <3> HIDE DEF g
    <3>2. /\ Append(g, Block(cap)) \in Seq(BlockRecs)
          /\ Len(Append(g, Block(cap))) = Len(heap) + 1
          /\ Append(g, Block(cap))[b] = Block(cap)
          /\ \A c \in 1..Len(heap) : Append(g, Block(cap))[c] = g[c]
      BY <2>1, <2>2, <3>1, AppendProperties
    <3> QED
      BY <3>1, <3>2 DEF g
  <2>6. Block(cap).live /\ ~Block(cap).slot /\ Block(cap).room = cap
    BY DEF Block
  <2> HIDE DEF b, h1, h2
  <2> DEFINE from == [a \in DOMAIN m |-> IF a[1] = b THEN <<top.base, a[2]>> ELSE a]
  <2>7. \A a \in DOMAIN m :
          /\ Inside(a, h1) /\ from[a] \in DOMAIN mem /\ m[a] = mem[from[a]]
          /\ a[1] # top.base
    <3> SUFFICES ASSUME NEW a \in DOMAIN m
                 PROVE  /\ Inside(a, h1) /\ from[a] \in DOMAIN mem
                        /\ m[a] = mem[from[a]] /\ a[1] # top.base
      OBVIOUS
    <3>1. CASE a \in DOMAIN mem /\ a[1] # top.base
      <4>1. a[1] # b
        BY <1>8, <2>1, <3>1
      <4>2. Inside(a, h1)
        BY <2>3, <3>1 DEF Safe, MemOK
      <4> QED
        BY <1>9, <3>1, <4>1, <4>2
    <3>2. ASSUME NEW c \in DOMAIN mem, c[1] = top.base, a = <<b, c[2]>>
          PROVE  /\ Inside(a, h1) /\ from[a] \in DOMAIN mem
                 /\ m[a] = mem[from[a]] /\ a[1] # top.base
      <4>1. a[1] = b /\ a[2] = c[2] /\ from[a] = c
        BY <1>8, <3>2
      <4>2. Inside(c, heap) /\ c[1] # b /\ c[1] # Null /\ c[1] \in 1..Len(heap)
        BY <1>8, <2>1, <3>2
      <4>3. c[2] \in Seq(Nat) /\ c[2] # <<>> /\ c[2][1] < top.cap
        BY <1>2, <1>10, <3>2, <4>2, PlaceParts DEF Inside, VecOK
      <4>4. c[2][1] \in Nat
        BY <4>3, EmptySeq, LenProperties, ElementOfSeq
      <4>5. c[2][1] < cap
        BY <1>5, <1>10, <4>3, <4>4
      <4>6. a \in Places
        BY <1>6, <2>1, <3>2, <4>3 DEF Places
      <4> QED
        BY <1>9, <2>3, <2>6, <3>2, <4>1, <4>2, <4>3, <4>5, <4>6 DEF Inside
    <3> QED
      BY <1>9, <3>1, <3>2
  <2>8. \A a \in DOMAIN m : a = <<a[1], a[2]>> /\ from[a] = IF a[1] = b THEN <<top.base, a[2]>> ELSE a
    BY <2>7, PlaceParts DEF Inside
  <2>9. \A a, c \in DOMAIN m : from[a] = from[c] => a = c
    <3> SUFFICES ASSUME NEW a \in DOMAIN m, NEW c \in DOMAIN m, from[a] = from[c]
                 PROVE  a = c
      OBVIOUS
    <3>1. a[1] # top.base /\ c[1] # top.base
      BY <2>7
    <3> QED
      BY <2>8, <3>1
  <2>10. \A i \in 1..Len(below) : OfMap(below[i]) =>
           below[i].dst \in DOMAIN m /\ m[below[i].dst].k = "map"
    <3> SUFFICES ASSUME NEW i \in 1..Len(below), OfMap(below[i])
                 PROVE  below[i].dst \in DOMAIN m /\ m[below[i].dst].k = "map"
      OBVIOUS
    <3>1. /\ below[i].dst \in DOMAIN mem /\ mem[below[i].dst].k = "map"
          /\ FrameOK(below[i], heap)
      BY <1>2 DEF Safe, Rooted
    <3>2. /\ below[i].dst[1] < below[i].key[1]
          /\ below[i].dst[1] \in 1..Len(heap)
          /\ below[i].dst[1] # Null
          /\ below[i].key[1] \in 1..Len(heap)
      BY <1>8, <3>1 DEF FrameOK, SlotsOK
    <3>3. below[i].dst[1] # top.base
      BY <1>2, <1>4, <1>10, <3>2
    <3>4. below[i].dst[1] # b
      BY <1>4, <2>1, <3>2
    <3> QED
      BY <1>9, <3>1, <3>3, <3>4
  <2>11. /\ Safe(below, m, h1)
         /\ \A c : Unowned(below, mem, c) => Unowned(below, m, c)
    <3> HIDE DEF from
    <3> QED
      BY <2>3, <2>7, <2>9, <2>10, Moved
  <2>12. /\ Safe(below, m, h2) /\ Writable(top.dst, below, h2)
    <3>1. Len(h2) >= Len(h1)
      BY <1>4, <2>3, <2>5
    <3>2. \A c \in 1..Len(h1) : c \in 1..Len(heap) \/ c = b
      BY <1>4, <2>1, <2>3
    <3>3. \A c \in 1..Len(heap) : c # Null
      BY <1>4 DEF Null
    <3>4. \A c \in 1..Len(h1) :
            /\ h2[c].slot = h1[c].slot /\ h2[c].room = h1[c].room
            /\ h2[c].live = h1[c].live
                 \/ (~h1[c].slot /\ Unowned(below, m, c)
                      /\ \A a \in DOMAIN m : a[1] # c)
      <4>1. ASSUME NEW c \in 1..Len(heap)
            PROVE  /\ h2[c].slot = h1[c].slot /\ h2[c].room = h1[c].room
                   /\ c # top.base => h2[c].live = h1[c].live
                   /\ c = top.base =>
                        /\ ~h1[c].slot /\ Unowned(below, m, c)
                        /\ \A a \in DOMAIN m : a[1] # c
        <5>1. c = top.base => ~heap[c].slot /\ Unowned(below, mem, c)
          BY <1>2, <3>3 DEF Held
        <5>2. \A a \in DOMAIN m : a[1] # top.base
          BY <2>7
        <5> QED
          BY <2>4, <2>5, <2>11, <5>1, <5>2
      <4>2. h2[b] = h1[b]
        BY <2>3, <2>5
      <4> QED
        BY <3>2, <4>1, <4>2
    <3> QED
      BY <2>3, <2>5, <2>11, <3>1, <3>4, SafeHeap
  <2>13. VecOK(f, h2)
    BY <1>5, <1>7, <1>10, <1>12, <2>1, <2>5, <2>6 DEF VecOK
  <2>14. Held(b, h2)
    BY <2>3, <2>5, <2>6 DEF Held
  <2>15. Safe(Append(below, f), m, h2)
    BY <1>7, <2>3, <2>11, <2>12, <2>13, <2>14, PushVec DEF V
  <2> QED
    BY <1>3, <2>1, <2>15
<1> QED
  BY <1>11, <1>12

\* A map is constructed in place, and slots for a key and a value above it.
LEMMA MapSafe ==
  ASSUME IInv, EnterMap
  PROVE  Safe(stack', mem', heap')
<1> DEFINE p == top.dst
           b == Len(heap) + 1
           s == b + 1
           h1 == Append(heap, Block(0))
           h2 == Append(h1, Slot(2))
           w == MapWord(b, 0)
           m == Put(mem, p, w)
           f == [op |-> "map", ty |-> top.ty, dst |-> p,
                 key |-> At(s, 0), val |-> At(s, 1)]
<1>1. /\ Writable(p, below, heap) /\ Safe(below, mem, heap) /\ p \in Places
      /\ top.ty \in Types /\ top.ty.k = "map"
  BY Reading DEF EnterMap
<1>2. /\ stack' = Append(below, f) /\ mem' = m
      /\ heap' = heap \o <<Block(0), Slot(2)>>
  BY DEF EnterMap
<1>3. heap \in Seq(BlockRecs) /\ Len(heap) \in Nat
  BY LenProperties DEF IInv, Safe
<1>4. /\ Block(0) \in BlockRecs /\ Slot(2) \in BlockRecs
      /\ Block(0).live /\ ~Block(0).slot /\ Block(0).room = 0
      /\ Slot(2).live /\ Slot(2).slot /\ Slot(2).room = 2
  BY DEF Block, Slot, BlockRecs
<1>5. heap' = h2
  <2>1. \A x, y \in BlockRecs : heap \o <<x, y>> = Append(Append(heap, x), y)
    BY <1>3
  <2> QED
    BY <1>2, <1>4, <2>1
<1>6. /\ b \in Nat /\ b # Null /\ s \in Nat /\ b < s
      /\ \A c \in 1..Len(heap) : c < s
  BY <1>3 DEF Null
<1>7. /\ At(s, 0) \in Places /\ At(s, 1) \in Places /\ At(s, 0)[1] = s
  BY <1>6, AtPlace
<1>8. /\ f \in Frames /\ f.op = "map" /\ f.ty = top.ty /\ f.dst = p
      /\ f.key = At(s, 0) /\ f.val = At(s, 1)
  BY <1>1, <1>7 DEF Frames
<1>9. p \in DOMAIN m /\ m[p].k = "map"
  BY DEF Put, MapWord
<1>10. /\ Safe(below, mem, h1) /\ h1[b] = Block(0)
       /\ Len(h1) = b /\ b \in 1..Len(h1)
       /\ Unowned(below, mem, b) /\ Writable(p, below, h1)
  BY <1>1, <1>4, SafeAlloc
<1> HIDE DEF f, m, h1, b
<1>11. /\ Safe(below, mem, h2) /\ h2[s] = Slot(2) /\ s \in 1..Len(h2)
       /\ \A i \in 1..Len(below) : OfMap(below[i]) => s >= below[i].key[1]
       /\ Writable(p, below, h2)
  <2>1. Len(h1) + 1 = s
    BY <1>10
  <2> QED
    BY <1>4, <1>10, <2>1, SafeAlloc
<1>12. h2[b] = Block(0) /\ b \in 1..Len(h2)
  <2>1. h1 \in Seq(BlockRecs)
    BY <1>10 DEF Safe
  <2> QED
    BY <1>4, <1>10, <2>1, AppendProperties
<1> HIDE DEF s, h2
<1>13. WordOK(w, h2) /\ \A c : Owns(w, c) => c = b
  BY <1>4, <1>6, <1>12 DEF WordOK, Owns, Owning, Held, MapWord
<1>14. Safe(below, m, h2)
  BY <1>10, <1>11, <1>13, SafePut DEF m
<1>15. OfMap(f) /\ Placed(f) /\ \A c : ~Holds(f, c) /\ ~Keeps(f, c)
  BY <1>8 DEF OfMap, Placed, Holds, Keeps
<1>16. p[1] < s /\ p[1] # Null
  BY <1>1, <1>6, WritableSomewhere
<1>17. FrameOK(f, h2)
  BY <1>1, <1>4, <1>7, <1>8, <1>11, <1>15, <1>16
     DEF FrameOK, DstOK, VecOK, SlotsOK, Writable
<1>18. \A i \in 1..Len(below) : OfMap(below[i]) => Newer(below[i], f)
  BY <1>7, <1>8, <1>11, <1>15 DEF Newer, Writable
<1>19. Fits(f, below, m, h2)
  BY <1>8, <1>9, <1>11, <1>15, <1>17, <1>18 DEF Fits, Writable
<1> QED
  BY <1>2, <1>5, <1>14, <1>19, SafePush

\* An entry's key and value are read into the slots, then it is inserted.
LEMMA EntrySafe ==
  ASSUME IInv, ParseEntry
  PROVE  Safe(stack', mem', heap')
<1> DEFINE e == [op |-> "insert", dst |-> top.dst, key |-> top.key, val |-> top.val]
           v == Value(top.ty.val, top.val)
           k == Value([k |-> "str"], top.key)
           n == Len(stack)
           s1 == Append(stack, Comma)
           s2 == Append(s1, e)
           s3 == Append(s2, v)
           s4 == Append(s3, Colon)
<1>1. stack # <<>> /\ top.op = "map" /\ Placed(top) /\ OfMap(top)
  BY DEF ParseEntry, In, Placed, OfMap
<1>2. /\ stack \in Seq(Frames) /\ Safe(stack, mem, heap)
      /\ top \in Frames /\ FrameOK(top, heap) /\ top.dst \in Places
      /\ top.dst \in DOMAIN mem /\ mem[top.dst].k = "map"
  BY <1>1, TopFrame
<1>3. /\ top.ty.k = "map" /\ top.ty.val \in Types /\ [k |-> "str"] \in Types
      /\ top.key \in Places /\ top.val \in Places
  BY <1>1, <1>2, FrameFields, TypeAssumption DEF FrameOK
<1>4. top.key[1] \in Nat /\ top.val[1] = top.key[1]
  <2>1. top.key[1] \in Nat
    BY <1>3, PlaceParts
  <2> QED
    BY <1>1, <1>2, <2>1, AtPlace DEF FrameOK, SlotsOK
<1>5. /\ Writable(top.key, stack, heap) /\ Writable(top.val, stack, heap)
      /\ heap[top.key[1]].slot
  BY <1>1, <1>2, StillWritable DEF top, FrameOK, SlotsOK
<1>6. Inside(top.dst, heap) /\ top.dst[1] # Null
  BY <1>1, <1>2 DEF FrameOK, DstOK
<1>7. /\ e \in Frames /\ e.op = "insert" /\ e.dst = top.dst
      /\ e.key = top.key /\ e.val = top.val
  BY <1>2, <1>3 DEF Frames
<1>8. /\ v \in Frames /\ v.op = "value" /\ v.dst = top.val
      /\ k \in Frames /\ k.op = "value" /\ k.dst = top.key
  BY <1>3, ValueFrame
<1>9. stack' = stack \o <<Comma, e, v, Colon, k>> /\ mem' = mem /\ heap' = heap
  BY DEF ParseEntry
<1> HIDE DEF e, v, k
<1>10. stack' = Append(s4, k)
  <2>1. \A a, b, c, d, f \in Frames :
          stack \o <<a, b, c, d, f>> =
            Append(Append(Append(Append(Append(stack, a), b), c), d), f)
    BY <1>2
  <2> QED
    BY <1>7, <1>8, <1>9, <2>1, MarkFrame
<1>11. ~Placed(Comma) /\ ~Placed(Colon) /\ ~OfMap(Comma)
  BY MarkFrame DEF Placed, OfMap
<1>12. /\ Safe(s1, mem, heap)
       /\ Writable(top.key, s1, heap) /\ Writable(top.val, s1, heap)
  BY <1>2, <1>5, <1>11, MarkFrame, PushPlain
<1>13. /\ n \in Nat \ {0} /\ Len(s1) = n + 1
       /\ \A i \in 1..n : s1[i] = stack[i]
       /\ s1[n + 1] = Comma
       /\ s1 \in Seq(Frames)
  <2>1. n \in Nat \ {0}
    BY <1>1, <1>2, EmptySeq, LenProperties
  <2> QED
    BY <1>2, <2>1, MarkFrame, AppendProperties
<1> HIDE DEF s1
<1>14. OfMap(e) /\ Placed(e) /\ \A b : ~Holds(e, b) /\ ~Keeps(e, b)
  BY <1>7 DEF OfMap, Placed, Holds, Keeps
<1>15. FrameOK(e, heap)
  BY <1>1, <1>2, <1>6, <1>7, <1>14 DEF FrameOK, DstOK, VecOK, SlotsOK
<1>16. \A i \in 1..Len(s1) : OfMap(s1[i]) => Newer(s1[i], e)
  <2> SUFFICES ASSUME NEW i \in 1..Len(s1), OfMap(s1[i])
               PROVE  Newer(s1[i], e)
    OBVIOUS
  <2>1. i \in 1..n /\ s1[i] = stack[i]
    BY <1>11, <1>13
  <2>2. CASE i = n
    <3>1. s1[i] = top
      BY <2>1, <2>2 DEF top
    <3> QED
      BY <1>4, <1>7, <1>14, <3>1 DEF Newer
  <2>3. CASE i # n
    <3>1. i \in 1..(n - 1) /\ n \in 1..n
      BY <1>13, <2>1, <2>3
    <3>2. Newer(stack[i], stack[n])
      BY <1>2, <2>1, <3>1 DEF Safe, Beyond
    <3> QED
      BY <1>1, <1>6, <1>7, <1>14, <2>1, <3>2 DEF Newer, top
  <2> QED
    BY <2>2, <2>3
<1>17. heap[e.dst[1]].slot \/ \E j \in 1..Len(s1) : Keeps(s1[j], e.dst[1])
  <2>1. n \in 1..n
    BY <1>13
  <2>2. \/ heap[top.dst[1]].slot
        \/ \E j \in 1..(n - 1) : Keeps(stack[j], top.dst[1])
    BY <1>1, <1>2, <1>6, <2>1 DEF Safe, Anchored, top
  <2>3. \A j \in 1..(n - 1) : j \in 1..Len(s1) /\ s1[j] = stack[j]
    BY <1>13
  <2> QED
    BY <1>7, <2>2, <2>3
<1>18. Safe(s2, mem, heap)
  <2>1. Fits(e, s1, mem, heap)
    BY <1>2, <1>7, <1>14, <1>15, <1>16, <1>17 DEF Fits
  <2> QED
    BY <1>12, <2>1, SafePush
<1>19. ASSUME NEW p, Writable(p, s1, heap), p[1] = top.key[1]
       PROVE  Writable(p, s2, heap)
  <2>1. \A i \in 1..Len(s2) : (i \in 1..Len(s1) /\ s2[i] = s1[i]) \/ s2[i] = e
    BY <1>7, <1>13, AppendProperties
  <2>2. \A i \in 1..Len(s2) : OfMap(s2[i]) => p[1] >= s2[i].key[1]
    BY <1>4, <1>7, <1>19, <2>1 DEF Writable
  <2> QED
    BY <1>5, <1>19, <2>2 DEF Writable
<1>20. Writable(top.key, s2, heap) /\ Writable(top.val, s2, heap)
  BY <1>4, <1>12, <1>19
<1> HIDE DEF s2
<1>21. Safe(s3, mem, heap) /\ Writable(top.key, s3, heap)
  BY <1>8, <1>18, <1>20, PushPlain
<1> HIDE DEF s3
<1>22. Safe(s4, mem, heap) /\ Writable(top.key, s4, heap)
  BY <1>11, <1>21, MarkFrame, PushPlain
<1> HIDE DEF s4
<1>23. Safe(Append(s4, k), mem, heap)
  BY <1>8, <1>22, PushPlain
<1> QED
  BY <1>9, <1>10, <1>23

-----------------------------------------------------------------------------
(* Helpers about moves.                                                    *)

\* Two sequences are found again in their concatenation.
LEMMA Glued ==
  ASSUME NEW s \in Seq(Nat), NEW t \in Seq(Nat)
  PROVE  /\ s \o t \in Seq(Nat) /\ Len(s \o t) = Len(s) + Len(t)
         /\ SubSeq(s \o t, 1, Len(s)) = s
         /\ SubSeq(s \o t, Len(s) + 1, Len(s \o t)) = t
<1>1. /\ s \o t \in Seq(Nat) /\ Len(s \o t) = Len(s) + Len(t)
      /\ Len(s) \in Nat /\ Len(t) \in Nat
  BY ConcatProperties, LenProperties
<1>2. SubSeq(s \o t, 1, Len(s)) = s
  <2>1. CASE Len(s) = 0
    BY <2>1, EmptySeq, SubSeqEmpty
  <2>2. CASE Len(s) # 0
    <3>1. 1 \in 1..Len(s) /\ Len(s) \in 1..Len(s)
      BY <1>1, <2>2
    <3> QED
      BY <3>1, SubSeqOfConcat1, SubSeqFull
  <2> QED
    BY <2>1, <2>2
<1>3. SubSeq(s \o t, Len(s) + 1, Len(s \o t)) = t
  <2>1. CASE Len(t) = 0
    <3>1. Len(s \o t) < Len(s) + 1
      BY <1>1, <2>1
    <3>2. SubSeq(s \o t, Len(s) + 1, Len(s \o t)) = <<>>
      BY <1>1, <3>1, SubSeqEmpty
    <3> QED
      BY <2>1, <3>2, EmptySeq
  <2>2. CASE Len(t) # 0
    <3>1. /\ Len(s) + 1 \in Len(s) + 1..Len(s) + Len(t)
          /\ Len(s) + Len(t) \in Len(s) + 1..Len(s) + Len(t)
          /\ Len(s) + 1 - Len(s) = 1
          /\ Len(s) + Len(t) - Len(s) = Len(t)
      BY <1>1, <2>2
    <3>2. SubSeq(s \o t, Len(s) + 1, Len(s) + Len(t))
            = SubSeq(t, Len(s) + 1 - Len(s), Len(s) + Len(t) - Len(s))
      BY <3>1, SubSeqOfConcat2
    <3> QED
      BY <1>1, <3>1, <3>2, SubSeqFull
  <2> QED
    BY <2>1, <2>2
<1> QED
  BY <1>1, <1>2, <1>3

\* What was moved could be moved back.
LEMMA RebaseBack ==
  ASSUME NEW a \in Places, NEW b \in Places, NEW c \in Places, Within(c, a)
  PROVE  /\ Rebase(c, a, b) \in Places
         /\ Within(Rebase(c, a, b), b)
         /\ Rebase(Rebase(c, a, b), b, a) = c
<1> DEFINE r == SubSeq(c[2], Len(a[2]) + 1, Len(c[2]))
           d == Rebase(c, a, b)
<1>1. /\ a[2] \in Seq(Nat) /\ b[2] \in Seq(Nat) /\ c[2] \in Seq(Nat)
      /\ b[1] \in Nat /\ c = <<c[1], c[2]>> /\ c[1] = a[1]
  BY PlaceParts DEF Within
<1>2. Len(a[2]) \in Nat /\ Len(c[2]) \in Nat /\ Len(a[2]) <= Len(c[2])
  BY <1>1, LenProperties DEF Within
<1>3. r \in Seq(Nat)
  <2>1. \A i \in (Len(a[2]) + 1)..Len(c[2]) : c[2][i] \in Nat
    BY <1>1, <1>2, ElementOfSeq
  <2> QED
    BY <1>2, <2>1, SubSeqProperties
<1>4. a[2] \o r = c[2]
  <2>1. /\ 1 \in 1..Len(c[2]) + 1 /\ Len(a[2]) \in 1 - 1..Len(c[2])
        /\ Len(c[2]) \in Len(a[2])..Len(c[2])
    BY <1>2
  <2>2. SubSeq(c[2], 1, Len(a[2])) \o r = SubSeq(c[2], 1, Len(c[2]))
    BY <1>1, <2>1, ConcatAdjacentSubSeq
  <2> QED
    BY <1>1, <2>2, SubSeqFull DEF Within
<1>5. d[1] = b[1] /\ d[2] = b[2] \o r
  BY DEF Rebase
<1> HIDE DEF r
<1>6. /\ d[2] \in Seq(Nat) /\ Len(d[2]) = Len(b[2]) + Len(r)
      /\ SubSeq(d[2], 1, Len(b[2])) = b[2]
      /\ SubSeq(d[2], Len(b[2]) + 1, Len(d[2])) = r
  <2>1. /\ b[2] \o r \in Seq(Nat) /\ Len(b[2] \o r) = Len(b[2]) + Len(r)
        /\ SubSeq(b[2] \o r, 1, Len(b[2])) = b[2]
        /\ SubSeq(b[2] \o r, Len(b[2]) + 1, Len(b[2] \o r)) = r
    BY <1>1, <1>3, Glued
  <2> QED
    BY <1>5, <2>1
<1>7. Len(b[2]) \in Nat /\ Len(r) \in Nat
  BY <1>1, <1>3, LenProperties
<1>8. d \in Places
  BY <1>1, <1>5, <1>6 DEF Places, Rebase
<1>9. Within(d, b)
  BY <1>5, <1>6, <1>7 DEF Within
<1>10. Rebase(d, b, a) = c
  BY <1>1, <1>4, <1>6 DEF Rebase
<1> QED
  BY <1>8, <1>9, <1>10

\* What is in a value is in the same element of the same block.
LEMMA WithinElement ==
  ASSUME NEW a \in Places, NEW b \in Places, Within(b, a), a[2] # <<>>
  PROVE  b[1] = a[1] /\ b[2] # <<>> /\ b[2][1] = a[2][1]
<1>1. a[2] \in Seq(Nat) /\ b[2] \in Seq(Nat)
  BY PlaceParts
<1>2. /\ Len(a[2]) \in Nat \ {0} /\ Len(b[2]) \in Nat /\ Len(b[2]) >= Len(a[2])
      /\ SubSeq(b[2], 1, Len(a[2])) = a[2]
  BY <1>1, EmptySeq, LenProperties DEF Within
<1>3. 1 \in 1..(Len(a[2]) - 1 + 1) /\ 1 + 1 - 1 = 1
  BY <1>2
<1>4. \A i \in 1..Len(a[2]) : b[2][i] \in Nat
  BY <1>1, <1>2, ElementOfSeq
<1>5. SubSeq(b[2], 1, Len(a[2]))[1] = b[2][1 + 1 - 1]
  BY <1>2, <1>3, <1>4, SubSeqProperties
<1> QED
  BY <1>2, <1>3, <1>5, EmptySeq DEF Within

\* Where the word at d was, before what was at a moved to b.
Origin(d, a, b) == IF Within(d, b) THEN Rebase(d, b, a) ELSE d

\* A move between blocks: each word comes from a place of its own.
LEMMA MoveParts ==
  ASSUME NEW m, \A c \in DOMAIN m : c \in Places,
         NEW a \in Places, NEW b \in Places, a[1] # b[1]
  PROVE  /\ \A d \in DOMAIN Move(m, a, b) :
              /\ d \in Places
              /\ Origin(d, a, b) \in DOMAIN m
              /\ Move(m, a, b)[d] = m[Origin(d, a, b)]
              /\ IF Within(d, b) THEN Within(Origin(d, a, b), a)
                 ELSE Origin(d, a, b) = d /\ ~Within(d, a)
         /\ \A d, e \in DOMAIN Move(m, a, b) :
              Origin(d, a, b) = Origin(e, a, b) => d = e
         /\ \A c \in DOMAIN m : ~Within(c, a) /\ ~Within(c, b) =>
              c \in DOMAIN Move(m, a, b) /\ Move(m, a, b)[c] = m[c]
<1> DEFINE n == Move(m, a, b)
           rest == {c \in DOMAIN m : ~Within(c, a) /\ ~Within(c, b)}
           moved == {Rebase(c, a, b) : c \in {e \in DOMAIN m : Within(e, a)}}
<1>1. DOMAIN n = rest \union moved /\ \A d \in DOMAIN n : n[d] = m[Origin(d, a, b)]
  BY DEF Move, Origin
<1>2. \A d : Within(d, a) => ~Within(d, b)
  BY DEF Within
<1>3. ASSUME NEW c \in DOMAIN m, Within(c, a)
      PROVE  /\ Rebase(c, a, b) \in Places /\ Within(Rebase(c, a, b), b)
             /\ Origin(Rebase(c, a, b), a, b) = c
  BY <1>3, RebaseBack DEF Origin
<1>4. \A d \in DOMAIN n :
        /\ d \in Places
        /\ Origin(d, a, b) \in DOMAIN m
        /\ IF Within(d, b)
           THEN Within(Origin(d, a, b), a) /\ d = Rebase(Origin(d, a, b), a, b)
           ELSE Origin(d, a, b) = d /\ ~Within(d, a)
  <2> SUFFICES ASSUME NEW d \in DOMAIN n
               PROVE  /\ d \in Places
                      /\ Origin(d, a, b) \in DOMAIN m
                      /\ IF Within(d, b)
                         THEN /\ Within(Origin(d, a, b), a)
                              /\ d = Rebase(Origin(d, a, b), a, b)
                         ELSE Origin(d, a, b) = d /\ ~Within(d, a)
    OBVIOUS
  <2>1. CASE d \in rest
    BY <2>1 DEF Origin
  <2>2. ASSUME NEW c \in DOMAIN m, Within(c, a), d = Rebase(c, a, b)
        PROVE  /\ d \in Places
               /\ Origin(d, a, b) \in DOMAIN m
               /\ Within(d, b)
               /\ Within(Origin(d, a, b), a)
               /\ d = Rebase(Origin(d, a, b), a, b)
    BY <1>3, <2>2
  <2> QED
    BY <1>1, <2>1, <2>2
<1> HIDE DEF n
<1>5. ASSUME NEW d \in DOMAIN n, NEW e \in DOMAIN n,
             Origin(d, a, b) = Origin(e, a, b)
      PROVE  d = e
  <2>1. Within(d, b) <=> Within(e, b)
    BY <1>4, <1>5
  <2> QED
    BY <1>4, <1>5, <2>1
<1>6. \A c \in rest : c \in DOMAIN n /\ n[c] = m[c]
  BY <1>1 DEF Origin
<1> QED
  BY <1>1, <1>4, <1>5, <1>6 DEF n

\* Nothing that is being written is in a block that a word owns.
LEMMA NotInOwned ==
  ASSUME NEW stk, NEW m, NEW h, Safe(stk, m, h),
         NEW a \in DOMAIN m, NEW b \in Nat \ {Null}, Owns(m[a], b),
         NEW i \in 1..Len(stk), Placed(stk[i]), stk[i].dst[1] # Null
  PROVE  stk[i].dst[1] # b
<1>1. Held(b, h)
  BY DEF Safe, MemOK, WordOK, Owns
<1>2. \A j \in 1..(i - 1) : j \in 1..Len(stk)
  BY LenProperties DEF Safe
<1>3. \A j \in 1..Len(stk) : ~Keeps(stk[j], b)
  BY DEF Safe, Sole, Holds
<1> QED
  BY <1>1, <1>2, <1>3 DEF Safe, Anchored, Held

\* A map gets an entry: its word and its block know.
LEMMA GrowMap ==
  ASSUME NEW stk, NEW m, NEW h, Safe(stk, m, h),
         NEW p \in DOMAIN m, m[p].k = "map", NEW b, b = m[p].ptr
  PROVE  LET w == MapWord(b, m[p].len + 1)
             h2 == [h EXCEPT ![b].room = @ + 1] IN
         /\ b \in 1..Len(h) /\ b # Null /\ h2 \in Seq(BlockRecs)
         /\ h[b].live /\ ~h[b].slot
         /\ Len(h2) = Len(h)
         /\ m[p].len \in Nat /\ h[b].room = m[p].len
         /\ h2[b].room = m[p].len + 1 /\ h2[b].live
         /\ Safe(stk, Put(m, p, w), h2)
<1> DEFINE w == MapWord(b, m[p].len + 1)
           h2 == [h EXCEPT ![b].room = @ + 1]
           m2 == Put(m, p, w)
<1>1. h \in Seq(BlockRecs) /\ stk \in Seq(Frames) /\ Len(h) \in Nat
  BY LenProperties DEF Safe
<1>2. Inside(p, h) /\ WordOK(m[p], h)
  BY DEF Safe, MemOK
<1>3. b \in Nat \ {Null} /\ Held(b, h) /\ m[p].len = h[b].room /\ Owns(m[p], b)
  BY <1>2 DEF WordOK, Owning, Owns
<1>4. b \in 1..Len(h) /\ h[b] \in BlockRecs
  BY <1>1, <1>3, ElementOfSeq DEF Held
<1>5. /\ h2[b] \in BlockRecs /\ h2[b].room = m[p].len + 1
      /\ h2[b].live = h[b].live /\ h2[b].slot = h[b].slot
      /\ m[p].len \in Nat
      /\ \A c \in 1..Len(h) : c # b => h2[c] = h[c]
  BY <1>1, <1>3, <1>4 DEF BlockRecs
<1>6. h2 \in Seq(BlockRecs) /\ Len(h2) = Len(h)
  <2>1. h2 = [h EXCEPT ![b] = [h[b] EXCEPT !.room = @ + 1]]
    OBVIOUS
  <2>2. [h[b] EXCEPT !.room = @ + 1] \in BlockRecs
    BY <1>4 DEF BlockRecs
  <2> QED
    BY <1>1, <1>4, <2>1, <2>2, ExceptSeq
<1> HIDE DEF h2
<1>7. \A c \in 1..Len(h) :
        /\ h2[c].live = h[c].live /\ h2[c].slot = h[c].slot
        /\ c # b => h2[c].room = h[c].room
        /\ \A i \in Nat : i < h[c].room => i < h2[c].room
  <2>1. \A i \in Nat : i < m[p].len => i < m[p].len + 1
    BY <1>5
  <2> QED
    BY <1>3, <1>5, <2>1
<1>8. /\ DOMAIN m2 = DOMAIN m
      /\ m2[p] = w
      /\ \A a \in DOMAIN m : a # p => m2[a] = m[a]
  BY DEF Put
<1>9. w.k = "map" /\ w.ptr = b /\ w.len = m[p].len + 1
  BY DEF MapWord
<1> HIDE DEF m2, w
<1>10. \A a \in DOMAIN m : /\ m2[a].k = "map" <=> m[a].k = "map"
                           /\ \A c : Owns(m2[a], c) <=> Owns(m[a], c)
  BY <1>3, <1>8, <1>9 DEF Owns, Owning
<1>11. ASSUME NEW a, Inside(a, h) PROVE Inside(a, h2)
  <2>1. a[2] \in Seq(Nat) /\ a[2] # <<>>
    BY <1>11, PlaceParts DEF Inside
  <2>2. a[2][1] \in Nat
    BY <2>1, EmptySeq, LenProperties, ElementOfSeq
  <2> QED
    BY <1>6, <1>7, <1>11, <2>2 DEF Inside
<1>12. \A c : Held(c, h) => Held(c, h2)
  BY <1>6, <1>7 DEF Held
<1>13. MemOK(m2, h2)
  <2> SUFFICES ASSUME NEW a \in DOMAIN m
               PROVE  Inside(a, h2) /\ WordOK(m2[a], h2)
    BY <1>8 DEF MemOK
  <2>1. Inside(a, h) /\ WordOK(m[a], h)
    BY DEF Safe, MemOK
  <2>2. CASE a = p
    BY <1>2, <1>3, <1>5, <1>8, <1>9, <1>11, <1>12, <2>2 DEF WordOK, Owning
  <2>3. CASE a # p
    <3>1. ~Owns(m[a], b)
      BY <1>3, <2>3 DEF Safe, Sole
    <3>2. m2[a] = m[a]
      BY <1>8, <2>3
    <3>3. m[a].k = "map" => h2[m[a].ptr].room = h[m[a].ptr].room
      BY <1>7, <2>1, <3>1 DEF WordOK, Owns, Owning, Held
    <3> QED
      BY <1>11, <1>12, <2>1, <3>2, <3>3 DEF WordOK
  <2> QED
    BY <2>2, <2>3
<1>14. ASSUME NEW i \in 1..Len(stk) PROVE FrameOK(stk[i], h2)
  <2>1. FrameOK(stk[i], h) /\ stk[i] \in Frames
    BY <1>1, ElementOfSeq DEF Safe
  <2>2. ~Holds(stk[i], b)
    BY <1>3 DEF Safe, Sole
  <2>3. VecOK(stk[i], h2)
    <3> SUFFICES ASSUME stk[i].op = "vec", stk[i].base # Null
                 PROVE  h2[stk[i].base].room = h[stk[i].base].room
      BY <2>1 DEF FrameOK, VecOK
    <3>1. Holds(stk[i], stk[i].base) /\ stk[i].base \in Nat \ {Null}
      BY <2>1, FrameFields DEF Holds, Keeps
    <3>2. stk[i].base \in 1..Len(h) /\ stk[i].base # b
      BY <2>1, <2>2, <3>1 DEF FrameOK, Held
    <3> QED
      BY <1>7, <3>2
  <2>4. SlotsOK(stk[i], h2)
    BY <1>3, <1>6, <1>7, <2>1 DEF FrameOK, SlotsOK, Held
  <2>5. DstOK(stk[i], h2)
    BY <1>11, <2>1 DEF FrameOK, DstOK
  <2> QED
    BY <1>12, <2>1, <2>3, <2>4, <2>5 DEF FrameOK
<1>15. Anchored(stk, h2)
  <2>1. \A i \in 1..Len(stk) : Placed(stk[i]) /\ stk[i].dst[1] # Null =>
          stk[i].dst[1] \in 1..Len(h)
    BY DEF Safe, FrameOK, DstOK, Inside
  <2> QED
    BY <1>7, <2>1 DEF Safe, Anchored
<1>16. Rooted(stk, m2)
  BY <1>8, <1>10 DEF Safe, Rooted
<1>17. Sole(stk, m2)
  BY <1>8, <1>10 DEF Safe, Sole
<1>18. Safe(stk, m2, h2)
  BY <1>1, <1>6, <1>13, <1>14, <1>15, <1>16, <1>17 DEF Safe
<1> QED
  BY <1>3, <1>4, <1>5, <1>6, <1>18 DEF m2, w, h2, Held

\* The frame that inserts an entry.
LEMMA TopInsert ==
  ASSUME IInv, In("insert")
  PROVE  LET p == top.dst
             s == top.key[1] IN
         /\ Safe(below, mem, heap) /\ below \in Seq(Frames)
         /\ p \in DOMAIN mem /\ mem[p].k = "map"
         /\ s \in Nat /\ s \in 1..Len(heap) /\ heap[s].slot
         /\ top.key = At(s, 0) /\ top.val = At(s, 1)
         /\ p[1] # s /\ p[1] # mem[p].ptr /\ mem[p].ptr # s
         /\ mem[p].ptr \in Nat \ {Null} /\ Held(mem[p].ptr, heap)
         /\ mem[p].len \in Nat /\ heap[mem[p].ptr].room = mem[p].len
         /\ \A c \in DOMAIN mem : c \in Places
         /\ \A i \in 1..Len(below) : OfMap(below[i]) =>
              /\ below[i].dst \in DOMAIN mem /\ mem[below[i].dst].k = "map"
              /\ below[i].dst[1] # s /\ below[i].dst[1] # mem[p].ptr
<1> DEFINE p == top.dst
           s == top.key[1]
<1>1. stack # <<>> /\ top.op = "insert" /\ OfMap(top) /\ Placed(top)
  BY DEF In, OfMap, Placed
<1>2. /\ stack \in Seq(Frames) /\ Safe(stack, mem, heap)
      /\ Safe(below, mem, heap) /\ below \in Seq(Frames)
      /\ top \in Frames /\ FrameOK(top, heap) /\ p \in Places
      /\ p \in DOMAIN mem /\ mem[p].k = "map"
      /\ Writable(top.key, below, heap)
  BY <1>1, TopFrame
<1>3. Len(heap) \in Nat /\ \A b \in 1..Len(heap) : b \in Nat \ {Null}
  BY <1>2, LenProperties DEF Safe, Null
<1>4. /\ s \in 1..Len(heap) /\ heap[s].slot
      /\ top.key = At(s, 0) /\ top.val = At(s, 1)
      /\ p[1] < s
  BY <1>1, <1>2 DEF FrameOK, SlotsOK
<1>5. p[1] # Null /\ p[1] \in Nat /\ p[1] # s
  BY <1>1, <1>2, <1>3, <1>4, PlaceParts DEF FrameOK, DstOK
<1>6. Inside(p, heap) /\ WordOK(mem[p], heap)
  BY <1>2 DEF Safe, MemOK
<1>7. /\ mem[p].ptr \in Nat \ {Null} /\ Held(mem[p].ptr, heap)
      /\ heap[mem[p].ptr].room = mem[p].len
      /\ Owns(mem[p], mem[p].ptr)
  BY <1>2, <1>6 DEF WordOK, Owning, Owns
<1>8. mem[p].len \in Nat
  <2>1. heap \in Seq(BlockRecs)
    BY <1>2 DEF Safe
  <2>2. heap[mem[p].ptr] \in BlockRecs
    BY <1>7, <2>1, ElementOfSeq DEF Held
  <2> QED
    BY <1>7, <2>2 DEF BlockRecs
<1>9. mem[p].ptr # s
  BY <1>4, <1>7 DEF Held
<1>10. p[1] # mem[p].ptr
  <2>1. Len(stack) \in 1..Len(stack)
    BY <1>1, <1>2, EmptySeq, LenProperties
  <2> QED
    BY <1>1, <1>2, <1>5, <1>7, <2>1, NotInOwned DEF top
<1>11. \A c \in DOMAIN mem : c \in Places
  BY <1>2 DEF Safe, MemOK, Inside
<1>12. ASSUME NEW i \in 1..Len(below), OfMap(below[i])
       PROVE  /\ below[i].dst \in DOMAIN mem /\ mem[below[i].dst].k = "map"
              /\ below[i].dst[1] # s /\ below[i].dst[1] # mem[p].ptr
  <2>1. below[i].dst \in DOMAIN mem /\ mem[below[i].dst].k = "map"
    BY <1>2, <1>12 DEF Safe, Rooted
  <2>2. below[i].dst[1] # s
    BY <1>2, <1>12, NotAtRoot
  <2>3. Placed(below[i]) /\ below[i].dst[1] # Null
    BY <1>2, <1>3, <1>12, <2>1 DEF OfMap, Placed, Safe, MemOK, Inside
  <2> QED
    BY <1>2, <1>7, <2>1, <2>2, <2>3, NotInOwned
<1> QED
  BY <1>2, <1>3, <1>4, <1>5, <1>7, <1>8, <1>9, <1>10, <1>11, <1>12

\* A new key: the entry that the slots hold moves into the map.
LEMMA InsertNewSafe ==
  ASSUME IInv, InsertNew
  PROVE  Safe(stack', mem', heap')
<1> DEFINE p == top.dst
           s == top.key[1]
           map == mem[p]
           a == <<s, <<>>>>
           b == Entry(map.len)
           w == MapWord(map.ptr, map.len + 1)
           m1 == Put(mem, p, w)
           m2 == Put(Move(mem, a, b), p, w)
           h == [heap EXCEPT ![map.ptr].room = @ + 1]
<1>1. In("insert")
  BY DEF InsertNew
<1>2. /\ Safe(below, mem, heap)
      /\ p \in DOMAIN mem /\ map.k = "map"
      /\ s \in Nat /\ p[1] # s /\ p[1] # map.ptr /\ map.ptr # s
      /\ map.ptr \in Nat \ {Null} /\ map.len \in Nat
      /\ \A c \in DOMAIN mem : c \in Places
      /\ \A i \in 1..Len(below) : OfMap(below[i]) =>
           /\ below[i].dst \in DOMAIN mem /\ mem[below[i].dst].k = "map"
           /\ below[i].dst[1] # s /\ below[i].dst[1] # map.ptr
  BY <1>1, TopInsert
<1>3. stack' = below /\ mem' = m2 /\ heap' = h
  BY DEF InsertNew
<1>4. /\ map.ptr \in 1..Len(heap) /\ Len(h) = Len(heap)
      /\ h[map.ptr].room = map.len + 1 /\ h[map.ptr].live
      /\ Safe(below, m1, h)
  BY <1>2, GrowMap
<1>5. /\ DOMAIN m1 = DOMAIN mem /\ m1[p] = w
      /\ \A c \in DOMAIN mem : c # p => m1[c] = mem[c]
  BY <1>2 DEF Put
<1>6. w.k = "map"
  BY DEF MapWord
<1>7. a \in Places /\ a[1] = s
  BY <1>2, EmptySeq DEF Places
<1>8. /\ b \in Places /\ b[1] = map.ptr /\ b[2] # <<>> /\ b[2][1] = map.len
  BY <1>2, AtPlace DEF Entry
<1>9. /\ DOMAIN m2 = DOMAIN Move(mem, a, b) \union {p}
      /\ m2[p] = w
      /\ \A d \in DOMAIN Move(mem, a, b) : d # p => m2[d] = Move(mem, a, b)[d]
  BY DEF Put
<1> HIDE DEF a, b, h, m1, m2, w
<1>10. a[1] # b[1]
  BY <1>2, <1>7, <1>8
<1> DEFINE from == [d \in DOMAIN m2 |-> IF d = p THEN p ELSE Origin(d, a, b)]
<1>11. ~Within(p, a) /\ ~Within(p, b)
  BY <1>2, <1>7, <1>8 DEF Within
<1>12. ASSUME NEW d \in DOMAIN m2, d # p
       PROVE  /\ d \in DOMAIN Move(mem, a, b) /\ d \in Places
              /\ Origin(d, a, b) \in DOMAIN mem /\ Origin(d, a, b) # p
              /\ m2[d] = mem[Origin(d, a, b)]
              /\ Within(d, b) \/ Origin(d, a, b) = d
  <2>1. d \in DOMAIN Move(mem, a, b)
    BY <1>9, <1>12
  <2>2. /\ d \in Places
        /\ Origin(d, a, b) \in DOMAIN mem
        /\ Move(mem, a, b)[d] = mem[Origin(d, a, b)]
        /\ IF Within(d, b) THEN Within(Origin(d, a, b), a)
                           ELSE Origin(d, a, b) = d /\ ~Within(d, a)
    BY <1>2, <1>7, <1>8, <1>10, <2>1, MoveParts
  <2> QED
    BY <1>9, <1>11, <1>12, <2>1, <2>2
<1>13. ASSUME NEW d \in DOMAIN m2
       PROVE  /\ Inside(d, h) /\ from[d] \in DOMAIN m1 /\ m2[d] = m1[from[d]]
  <2>1. \A c \in DOMAIN mem : Inside(c, h)
    BY <1>4, <1>5 DEF Safe, MemOK
  <2>2. CASE d = p
    BY <1>2, <1>5, <1>9, <2>1, <2>2
  <2>3. CASE d # p
    <3>1. from[d] \in DOMAIN m1 /\ m2[d] = m1[from[d]]
      BY <1>5, <1>12, <2>3
    <3>2. CASE Within(d, b)
      <4>1. d \in Places /\ d[1] = b[1] /\ d[2] # <<>> /\ d[2][1] = b[2][1]
        BY <1>8, <1>12, <2>3, <3>2, WithinElement
      <4>2. map.len < map.len + 1
        BY <1>2
      <4> QED
        BY <1>4, <1>8, <3>1, <4>1, <4>2 DEF Inside
    <3>3. CASE ~Within(d, b)
      BY <1>12, <2>1, <2>3, <3>1, <3>3
    <3> QED
      BY <3>2, <3>3
  <2> QED
    BY <2>2, <2>3
<1>14. \A d, e \in DOMAIN m2 : from[d] = from[e] => d = e
  <2> SUFFICES ASSUME NEW d \in DOMAIN m2, NEW e \in DOMAIN m2, from[d] = from[e]
               PROVE  d = e
    OBVIOUS
  <2>1. (d = p) <=> (e = p)
    BY <1>12
  <2>2. CASE d # p
    <3>1. /\ d \in DOMAIN Move(mem, a, b) /\ e \in DOMAIN Move(mem, a, b)
          /\ Origin(d, a, b) = Origin(e, a, b)
      BY <1>12, <2>1, <2>2
    <3> QED
      BY <1>2, <1>7, <1>8, <1>10, <3>1, MoveParts
  <2> QED
    BY <2>1, <2>2
<1>15. ASSUME NEW i \in 1..Len(below), OfMap(below[i])
       PROVE  below[i].dst \in DOMAIN m2 /\ m2[below[i].dst].k = "map"
  <2> DEFINE r == below[i].dst
  <2>1. r \in DOMAIN mem /\ mem[r].k = "map" /\ r[1] # s /\ r[1] # map.ptr
    BY <1>2, <1>15
  <2> HIDE DEF r
  <2>2. ~Within(r, a) /\ ~Within(r, b)
    BY <1>7, <1>8, <2>1 DEF Within
  <2>3. r \in DOMAIN Move(mem, a, b) /\ Move(mem, a, b)[r] = mem[r]
    BY <1>2, <1>7, <1>8, <1>10, <2>1, <2>2, MoveParts
  <2>4. r \in DOMAIN m2 /\ m2[r].k = "map"
    BY <1>6, <1>9, <2>1, <2>3
  <2> QED
    BY <2>4 DEF r
<1>16. Safe(below, m2, h)
  <2>1. \A d \in DOMAIN m2 :
          Inside(d, h) /\ from[d] \in DOMAIN m1 /\ m2[d] = m1[from[d]]
    BY <1>13
  <2>2. \A i \in 1..Len(below) : OfMap(below[i]) =>
          below[i].dst \in DOMAIN m2 /\ m2[below[i].dst].k = "map"
    BY <1>15
  <2>3. Safe(below, m1, h)
    BY <1>4
  <2> HIDE DEF from, map
  <2> QED
    BY <1>14, <2>1, <2>2, <2>3, Moved
<1> QED
  BY <1>3, <1>16

\* A key that is there: the value moves over the old one, and the code is to
\* free what the old value and the new key owned.
LEMMA InsertOverSafe ==
  ASSUME IInv, InsertOver
  PROVE  Safe(stack', mem', heap')
<1> DEFINE p == top.dst
           s == top.key[1]
           map == mem[p]
           a == top.val
           m1 == Clear(mem, top.key)
<1>1. In("insert")
  BY DEF InsertOver
<1>2. PICK i \in Present :
        /\ mem' = Move(m1, a, Part(Entry(i), 1))
        /\ stack' = Append(below, Drops(BlocksOf(Part(Entry(i), 1))
                                          \union BlocksOf(top.key)))
  BY DEF InsertOver
<1> DEFINE b == Part(Entry(i), 1)
           B == BlocksOf(b) \union BlocksOf(top.key)
           m2 == Move(m1, a, b)
           f == Drops(B)
<1>3. heap' = heap
  BY DEF InsertOver
<1>4. /\ Safe(below, mem, heap)
      /\ s \in Nat /\ map.ptr # s /\ top.key = At(s, 0) /\ a = At(s, 1)
      /\ map.ptr \in Nat \ {Null} /\ map.len \in Nat
      /\ Held(map.ptr, heap) /\ heap[map.ptr].room = map.len
      /\ \A c \in DOMAIN mem : c \in Places
      /\ \A j \in 1..Len(below) : OfMap(below[j]) =>
           /\ below[j].dst \in DOMAIN mem /\ mem[below[j].dst].k = "map"
           /\ below[j].dst[1] # s /\ below[j].dst[1] # map.ptr
  BY <1>1, TopInsert
<1>5. i \in 0..(map.len - 1)
  BY DEF Present
<1>6. i \in Nat /\ i < map.len
  BY <1>4, <1>5
<1>7. /\ a \in Places /\ a[1] = s
      /\ top.key \in Places /\ top.key[1] = s
  BY <1>4, AtPlace
<1>8. /\ b \in Places /\ b[1] = map.ptr /\ b[2] # <<>> /\ b[2][1] = i
  <2>1. /\ Entry(i) \in Places /\ Entry(i)[1] = map.ptr
        /\ Entry(i)[2] # <<>> /\ Entry(i)[2][1] = i
    BY <1>4, <1>6, AtPlace DEF Entry
  <2> QED
    BY <2>1, PartPlace
<1>9. /\ DOMAIN m1 \subseteq DOMAIN mem
      /\ \A c \in DOMAIN m1 : m1[c] = mem[c] /\ ~Within(c, top.key)
      /\ \A c \in DOMAIN mem : ~Within(c, top.key) => c \in DOMAIN m1
  BY DEF Clear
<1>10. f.op = "drop" /\ f.blocks = B
  BY DEF Drops
<1>11. \A c \in B : \E d \in DOMAIN mem :
         /\ Within(d, b) \/ Within(d, top.key)
         /\ Owns(mem[d], c) /\ c # Null
  BY DEF BlocksOf, Pointees, Owns
<1> HIDE DEF b, m1, m2, f, B
<1>12. a[1] # b[1] /\ \A c \in DOMAIN m1 : c \in Places
  BY <1>4, <1>7, <1>8, <1>9
<1> DEFINE from == [d \in DOMAIN m2 |-> Origin(d, a, b)]
<1>13. ASSUME NEW d \in DOMAIN m2
       PROVE  /\ d \in Places /\ Origin(d, a, b) \in DOMAIN m1
              /\ m2[d] = m1[Origin(d, a, b)]
              /\ IF Within(d, b) THEN Within(Origin(d, a, b), a)
                                 ELSE Origin(d, a, b) = d
  BY <1>7, <1>8, <1>12, MoveParts DEF m2
<1>14. ASSUME NEW d \in DOMAIN m2
       PROVE  Inside(d, heap) /\ from[d] \in DOMAIN mem /\ m2[d] = mem[from[d]]
  <2>1. \A c \in DOMAIN mem : Inside(c, heap)
    BY <1>4 DEF Safe, MemOK
  <2>2. from[d] \in DOMAIN mem /\ m2[d] = mem[from[d]]
    BY <1>9, <1>13
  <2>3. CASE Within(d, b)
    <3>1. d \in Places /\ d[1] = b[1] /\ d[2] # <<>> /\ d[2][1] = b[2][1]
      BY <1>8, <1>13, <2>3, WithinElement
    <3> QED
      BY <1>4, <1>6, <1>8, <2>2, <3>1 DEF Inside, Held
  <2>4. CASE ~Within(d, b)
    BY <1>9, <1>13, <2>1, <2>2, <2>4
  <2> QED
    BY <2>3, <2>4
<1>15. \A d, e \in DOMAIN m2 : from[d] = from[e] => d = e
  BY <1>7, <1>8, <1>12, MoveParts DEF m2
<1>16. ASSUME NEW j \in 1..Len(below), OfMap(below[j])
       PROVE  below[j].dst \in DOMAIN m2 /\ m2[below[j].dst].k = "map"
  <2> DEFINE r == below[j].dst
  <2>1. r \in DOMAIN mem /\ mem[r].k = "map" /\ r[1] # s /\ r[1] # map.ptr
    BY <1>4, <1>16
  <2> HIDE DEF r
  <2>2. ~Within(r, a) /\ ~Within(r, b) /\ ~Within(r, top.key)
    BY <1>7, <1>8, <2>1 DEF Within
  <2>3. r \in DOMAIN m1 /\ m1[r] = mem[r]
    BY <1>9, <2>1, <2>2
  <2>4. r \in DOMAIN m2 /\ m2[r] = m1[r]
    BY <1>7, <1>8, <1>12, <2>2, <2>3, MoveParts DEF m2
  <2>5. r \in DOMAIN m2 /\ m2[r].k = "map"
    BY <2>1, <2>3, <2>4
  <2> QED
    BY <2>5 DEF r
<1>17. ASSUME NEW c \in DOMAIN mem, Within(c, b) \/ Within(c, top.key),
              NEW d \in DOMAIN m2
       PROVE  from[d] # c
  <2>1. from[d] \in DOMAIN m1 /\ ~Within(from[d], top.key)
    BY <1>9, <1>13
  <2>2. ~Within(from[d], b)
    BY <1>12, <1>13 DEF Within
  <2> QED
    BY <1>17, <2>1, <2>2
<1>18. /\ Safe(below, m2, heap)
       /\ \A c \in Nat \ {Null} : \A d \in DOMAIN mem :
            Owns(mem[d], c) /\ (Within(d, b) \/ Within(d, top.key))
              => Unowned(below, m2, c)
  <2>1. \A d \in DOMAIN m2 :
          Inside(d, heap) /\ from[d] \in DOMAIN mem /\ m2[d] = mem[from[d]]
    BY <1>14
  <2>2. \A j \in 1..Len(below) : OfMap(below[j]) =>
          below[j].dst \in DOMAIN m2 /\ m2[below[j].dst].k = "map"
    BY <1>16
  <2>3. Safe(below, mem, heap)
    BY <1>4
  <2>4. \A c \in DOMAIN mem : Within(c, b) \/ Within(c, top.key) =>
          \A d \in DOMAIN m2 : from[d] # c
    BY <1>17
  <2> HIDE DEF from, map
  <2>5. /\ Safe(below, m2, heap)
        /\ \A c \in Nat \ {Null} : \A d \in DOMAIN mem :
             Owns(mem[d], c) /\ (\A e \in DOMAIN m2 : from[e] # d)
               => Unowned(below, m2, c)
    BY <1>15, <2>1, <2>2, <2>3, Moved
  <2> QED
    BY <2>4, <2>5
<1>19. \A c \in B : c \in Nat \ {Null} /\ Held(c, heap) /\ Unowned(below, m2, c)
  <2> SUFFICES ASSUME NEW c \in B
               PROVE  /\ c \in Nat \ {Null} /\ Held(c, heap)
                      /\ Unowned(below, m2, c)
    OBVIOUS
  <2>1. PICK d \in DOMAIN mem : /\ Within(d, b) \/ Within(d, top.key)
                                /\ Owns(mem[d], c) /\ c # Null
    BY <1>11
  <2>2. c \in Nat \ {Null} /\ Held(c, heap)
    BY <1>4, <2>1 DEF Safe, MemOK, WordOK, Owns
  <2> QED
    BY <1>18, <2>1, <2>2
<1>20. Safe(Append(below, f), m2, heap)
  BY <1>10, <1>18, <1>19, PushDrops DEF f
<1> QED
  BY <1>2, <1>3, <1>20 DEF m2, f, B, b

\* Blocks are freed, and the code is to free those that were owned in them.
LEMMA DropSafe ==
  ASSUME IInv, Drop
  PROVE  Safe(stack', mem', heap')
<1> DEFINE B == top.blocks
           C == Pointees({a \in DOMAIN mem : a[1] \in B})
           m == Forget(mem, B)
           h == Free(heap, B)
<1>1. stack # <<>> /\ top.op = "drop"
  BY DEF Drop, In
<1>2. /\ stack \in Seq(Frames) /\ Safe(stack, mem, heap)
      /\ Safe(below, mem, heap) /\ FrameOK(top, heap)
      /\ \A b \in Nat \ {Null} : Holds(top, b) => Unowned(below, mem, b)
  BY <1>1, TopFrame
<1>3. \A b \in Nat \ {Null} : b \in B =>
        Held(b, heap) /\ Unowned(below, mem, b) /\ Holds(top, b)
  BY <1>1, <1>2 DEF FrameOK, Holds
<1>4. /\ stack' = IF C = {} THEN below ELSE Append(below, Drops(C))
      /\ heap' = h /\ mem' = m
  BY DEF Drop
<1>5. /\ \A a \in DOMAIN m : a \in DOMAIN mem /\ m[a] = mem[a] /\ a[1] \notin B
      /\ \A a \in DOMAIN mem : a[1] \notin B => a \in DOMAIN m /\ m[a] = mem[a]
  BY DEF Forget
<1>6. heap \in Seq(BlockRecs) /\ \A b \in 1..Len(heap) : b \in Nat \ {Null}
  BY <1>2, LenProperties DEF Safe, Null
<1>7. /\ Len(h) = Len(heap)
      /\ \A b \in 1..Len(heap) :
           h[b].slot = heap[b].slot /\ (b \notin B => h[b].live = heap[b].live)
  BY <1>6, Freed
<1>8. \A c \in C : \E a \in DOMAIN mem :
        a[1] \in B /\ Owns(mem[a], c) /\ c # Null
  BY DEF Pointees, Owns
<1> HIDE DEF m, h, B, C
<1>9. ASSUME NEW i \in 1..Len(below), OfMap(below[i])
      PROVE  below[i].dst \in DOMAIN m /\ m[below[i].dst] = mem[below[i].dst]
  <2> DEFINE r == below[i].dst
  <2>1. r \in DOMAIN mem /\ r[1] \in 1..Len(heap) /\ Placed(below[i])
    BY <1>2, <1>9 DEF Safe, Rooted, MemOK, Inside, OfMap, Placed
  <2>2. r[1] \in Nat \ {Null}
    BY <1>6, <2>1
  <2>3. \A j \in 1..(i - 1) : j \in 1..Len(below)
    BY <1>2, LenProperties DEF Safe
  <2>4. heap[r[1]].slot \/ \E j \in 1..Len(below) : Keeps(below[j], r[1])
    BY <1>2, <2>1, <2>2, <2>3 DEF Safe, Anchored
  <2>5. r[1] \notin B
    BY <1>3, <2>2, <2>4 DEF Held, Unowned, Holds
  <2> QED
    BY <1>5, <2>1, <2>5
<1>10. /\ Safe(below, m, heap)
       /\ \A b : Unowned(below, mem, b) => Unowned(below, m, b)
  BY <1>2, <1>5, <1>9, Rewritten
<1>11. Safe(below, m, h)
  <2>1. \A b \in B : b \in 1..Len(heap) =>
          ~heap[b].slot /\ Unowned(below, m, b) /\ \A a \in DOMAIN m : a[1] # b
    BY <1>3, <1>5, <1>6, <1>10 DEF Held
  <2> QED
    BY <1>10, <2>1, SafeFree DEF h
<1>12. \A c \in C : c \in Nat \ {Null} /\ Held(c, h) /\ Unowned(below, m, c)
  <2> SUFFICES ASSUME NEW c \in C
               PROVE  c \in Nat \ {Null} /\ Held(c, h) /\ Unowned(below, m, c)
    OBVIOUS
  <2>1. PICK a \in DOMAIN mem : a[1] \in B /\ Owns(mem[a], c) /\ c # Null
    BY <1>8
  <2>2. c \in Nat \ {Null} /\ Held(c, heap)
    BY <1>2, <2>1 DEF Safe, MemOK, WordOK, Owns
  <2>3. ~Holds(top, c)
    <3>1. Len(stack) \in 1..Len(stack)
      BY <1>1, <1>2, EmptySeq, LenProperties
    <3> QED
      BY <1>2, <2>1, <2>2, <3>1 DEF Safe, Sole, top
  <2>4. c \notin B
    BY <1>3, <2>2, <2>3
  <2>5. Held(c, h)
    BY <1>7, <2>2, <2>4 DEF Held
  <2>6. \A d \in DOMAIN m : ~Owns(m[d], c)
    BY <1>2, <1>5, <2>1, <2>2 DEF Safe, Sole
  <2>7. \A i \in 1..Len(below) : ~Holds(below[i], c)
    BY <1>2, <2>1, <2>2 DEF Safe, Sole
  <2> QED
    BY <2>2, <2>5, <2>6, <2>7 DEF Unowned
<1>13. Safe(Append(below, Drops(C)), m, h)
  BY <1>11, <1>12, PushDrops
<1> QED
  BY <1>4, <1>11, <1>13

-----------------------------------------------------------------------------
(* The invariant, and what it says.                                        *)

\* Before the first token the code is to write to a slot of its own.
LEMMA InitSafe ==
  ASSUME Init
  PROVE  IInv
<1> DEFINE a == At(1, 0)
           f == Value(doc.ty, a)
           h == <<Slot(1)>>
<1>1. doc \in Docs /\ doc.ty \in Types
  BY DocAssumption DEF Init
<1>2. /\ Slot(1) \in BlockRecs
      /\ Slot(1).slot /\ Slot(1).live /\ Slot(1).room = 1
  BY DEF Slot, BlockRecs
<1>3. h \in Seq(BlockRecs) /\ Len(h) = 1 /\ h[1] = Slot(1)
  BY <1>2
<1>4. a \in Places /\ a[1] = 1 /\ a[2] # <<>> /\ a[2][1] = 0
  BY AtPlace
<1>5. f \in Frames /\ f.op = "value" /\ f.dst = a
  BY <1>1, <1>4, ValueFrame
<1>6. stack = <<f>> /\ heap = h /\ DOMAIN mem = {}
  BY DEF Init
<1> HIDE DEF f, h, a
<1>7. stack \in Seq(Frames) /\ Len(stack) = 1 /\ stack[1] = f
  BY <1>5, <1>6
<1>8. \A i \in 1..Len(stack) : i = 1 /\ stack[i] = f
  BY <1>7
<1>9. ~OfMap(f) /\ \A b \in Nat \ {Null} : ~Holds(f, b) /\ ~Keeps(f, b)
  BY <1>5 DEF OfMap, Holds, Keeps
<1>10. Inside(f.dst, heap) /\ f.dst[1] # Null
  <2>1. 1 \in 1..Len(heap) /\ heap[1].live /\ heap[1].room = 1
    <3>1. heap[1] = Slot(1) /\ Len(heap) = 1
      BY <1>3, <1>6
    <3>2. 1 \in 1..1
      OBVIOUS
    <3> QED
      BY <1>2, <3>1, <3>2
  <2>2. 0 < 1 /\ 1 # Null
    BY DEF Null
  <2> QED
    BY <1>4, <1>5, <2>1, <2>2 DEF Inside
<1>11. FrameOK(f, heap)
  BY <1>5, <1>9, <1>10 DEF FrameOK, DstOK, VecOK, SlotsOK
<1>12. Anchored(stack, heap)
  BY <1>2, <1>3, <1>4, <1>5, <1>6, <1>8 DEF Anchored
<1>13. Beyond(stack)
  BY <1>8, <1>9 DEF Beyond
<1>14. MemOK(mem, heap) /\ Rooted(stack, mem) /\ Sole(stack, mem)
  BY <1>6, <1>8, <1>9 DEF MemOK, Rooted, Sole
<1> QED
  BY <1>1, <1>3, <1>6, <1>7, <1>8, <1>11, <1>12, <1>13, <1>14 DEF IInv, Safe

\* Every step of the code keeps the invariant.
LEMMA StepSafe ==
  ASSUME IInv, CursorInDoc, [Next]_vars
  PROVE  IInv'
<1>1. Safe(stack, mem, heap)
  BY DEF IInv
<1>2. CASE UNCHANGED vars
  BY <1>1, <1>2 DEF vars, IInv
<1>3. CASE Parse
  <2>1. doc' = doc
    BY <1>3 DEF Parse, ParseInt, ParseBool, ParseChar, ParseStr, ParseUnit,
       ParseNone, ParseSome, StoreTag, ParseBox, StoreBox, CallRef,
       EnterStruct, ParseField, SkipField, ParseComma, EndStruct,
       EnterTuple, ParseItem, EndTuple, EnterVec, Grow, ParseElem, EndVec,
       EnterMap, ParseEntry, ParseColon, InsertNew, InsertOver, Drop
  <2>2. Safe(stack', mem', heap')
    BY <1>3, ScalarsSafe, StrSafe, EndsSafe, NoneSafe, SomeSafe, TagSafe,
       BoxSafe, BoxStored, RefSafe, StructSafe, FieldSafe, SkipSafe,
       TupleSafe, ItemSafe, VecSafe, GrowSafe, ElemSafe, VecStored,
       MapSafe, EntrySafe, InsertNewSafe, InsertOverSafe, DropSafe DEF Parse
  <2> QED
    BY <2>1, <2>2 DEF IInv
<1> QED
  BY <1>2, <1>3 DEF Next

-----------------------------------------------------------------------------
(* The document, and who may write where.                                  *)

\* A plan says of a frame where its phrase ends, and which members of its
\* struct may still come.
Plans == [names : {{}} \union {p.names : p \in UNION {Phrases[d] : d \in Docs}},
          to : Nat]

\* Where frame i goes on: at the cursor, or where the frame above it ends.
Resumes(stk, pl, c, i) == IF i = Len(stk) THEN c ELSE pl[i + 1].to

\* Frame f of plan r, going on at token c, reads a phrase of document d.
Follows(d, f, r, c) ==
  /\ f.op \in {"value", "vec", "map"} =>
       Phrase(f.op, f.ty, {}, 0, c, r.to) \in Phrases[d]
  /\ f.op = "struct" => Phrase("struct", f.ty, r.names, 0, c, r.to) \in Phrases[d]
  /\ f.op = "tuple" => Phrase("tuple", f.ty, {}, f.next, c, r.to) \in Phrases[d]
  /\ f.op = "comma" => r.to = AfterComma(d.toks, c)
  /\ f.op = "colon" => r.to = c + 1
  /\ f.op \in {"tag", "box", "insert", "drop"} => r.to = c

\* The stack reads what is left of the document.
Planned(d, stk, pl, c) ==
  /\ pl \in Seq(Plans) /\ Len(pl) = Len(stk)
  /\ c \in 1..(Len(d.toks) + 1)
  /\ \A i \in 1..Len(stk) :
       /\ Follows(d, stk[i], pl[i], Resumes(stk, pl, c, i))
       /\ c <= pl[i].to /\ pl[i].to <= Len(d.toks) + 1
       /\ \A j \in 1..i : pl[i].to <= pl[j].to

\* Places in a block.
Spots == {a \in Places : a[1] # Null /\ a[2] # <<>>}

\* Frame f of plan r has still to write a value at a, and nothing is there.
Claims(f, r, a) ==
  \/ f.op \in {"value", "box", "vec"} /\ Within(a, f.dst)
  \/ f.op = "vec" /\ a[1] = f.base /\ a[2][1] >= f.len
  \/ f.op = "tag" /\ a = f.dst
  \/ f.op = "struct" /\ \E i \in 1..Len(f.ty.fields) :
       f.ty.fields[i].name \in r.names /\ Within(a, Part(f.dst, i))
  \/ f.op = "tuple" /\ \E i \in 1..Len(f.ty.fields) :
       f.next <= i /\ Within(a, Part(f.dst, i))
  \/ f.op = "map" /\ a[1] = f.key[1]

\* Frame f, or a value that it waits for, may write to a.
Reaches(f, a) ==
  /\ Placed(f)
  /\ \/ Within(a, f.dst)
     \/ f.op = "vec" /\ a[1] = f.base
     \/ f.op = "box" /\ a[1] = f.ptr
     \/ OfMap(f) /\ a[1] = f.key[1]

\* Frame i is a map that has lent its slots to an entry below frame j.
Lent(stk, i, j) ==
  /\ stk[i].op = "map"
  /\ \E l \in (i + 1)..j : stk[l].op = "insert" /\ stk[l].key[1] = stk[i].key[1]

\* No frame claims a, but for a map that has lent it.
Open(stk, pl, a) ==
  \A i \in 1..Len(stk) : Claims(stk[i], pl[i], a) => Lent(stk, i, Len(stk))

\* What a frame reaches is claimed by none below it.
Separate(stk, pl) ==
  \A j \in 1..Len(stk) : \A i \in 1..(j - 1) : \A a \in Spots :
    Reaches(stk[j], a) /\ Claims(stk[i], pl[i], a) => Lent(stk, i, j)

\* Where a value is still to be written, no word owns a block.
Vacant(stk, pl, m) == \A a \in DOMAIN m : m[a].k \in Owning => Open(stk, pl, a)

Tidy(d, stk, pl, c, m) ==
  Planned(d, stk, pl, c) /\ Separate(stk, pl) /\ Vacant(stk, pl, m)

\* Every block that is to be freed has an owner.
Kept(stk, m, h) ==
  \A b \in 1..Len(h) : h[b].live /\ ~h[b].slot => ~Unowned(stk, m, b)

\* The plan without that of the last frame.
LEMMA PlanBeneath ==
  ASSUME NEW pl \in Seq(Plans), pl # <<>>,
         NEW q, q = SubSeq(pl, 1, Len(pl) - 1)
  PROVE  /\ q \in Seq(Plans)
         /\ Len(q) = Len(pl) - 1 /\ Len(pl) \in Nat \ {0}
         /\ \A i \in 1..Len(q) : i \in 1..Len(pl) /\ q[i] = pl[i]
         /\ \A i \in 1..Len(pl) : pl[i] \in Plans
<1>1. Len(pl) \in Nat \ {0}
  BY EmptySeq, LenProperties
<1>2. \A i \in 1..Len(pl) : pl[i] \in Plans
  BY ElementOfSeq
<1>3. \A i \in 1..(Len(pl) - 1) : pl[i] \in Plans
  BY <1>1, <1>2
<1> DEFINE t == SubSeq(pl, 1, Len(pl) - 1)
<1>4. /\ t \in Seq(Plans)
      /\ Len(t) = IF 1 <= Len(pl) - 1 THEN Len(pl) - 1 - 1 + 1 ELSE 0
      /\ \A i \in 1..(Len(pl) - 1 - 1 + 1) : t[i] = pl[1 + i - 1]
  BY <1>1, <1>3, SubSeqProperties
<1>5. q = t
  OBVIOUS
<1> HIDE DEF t
<1>6. Len(t) = Len(pl) - 1
  <2>1. \A n \in Nat \ {0} : (IF 1 <= n - 1 THEN n - 1 - 1 + 1 ELSE 0) = n - 1
    OBVIOUS
  <2> QED
    BY <1>1, <1>4, <2>1
<1>7. \A i \in 1..Len(t) : t[i] = pl[i] /\ i \in 1..Len(pl)
  BY <1>1, <1>4, <1>6
<1> QED
  BY <1>1, <1>2, <1>4, <1>5, <1>6, <1>7

\* When the last frame is done, the one below it goes on where it ended.
LEMMA PlannedPop ==
  ASSUME NEW d, Len(d.toks) \in Nat,
         NEW stk \in Seq(Frames), NEW pl, NEW c, Planned(d, stk, pl, c),
         stk # <<>>,
         NEW s, s = SubSeq(stk, 1, Len(stk) - 1),
         NEW q, q = SubSeq(pl, 1, Len(pl) - 1)
  PROVE  /\ Planned(d, s, q, pl[Len(stk)].to)
         /\ Follows(d, stk[Len(stk)], pl[Len(stk)], c)
         /\ pl[Len(stk)] \in Plans
         /\ c \in Nat \ {0} /\ c <= pl[Len(stk)].to
<1> DEFINE n == Len(stk)
           e == pl[n].to
<1>1. /\ n \in Nat \ {0} /\ s \in Seq(Frames) /\ Len(s) = n - 1
      /\ \A i \in 1..Len(s) : i \in 1..n /\ s[i] = stk[i]
  BY Beneath
<1>2. pl \in Seq(Plans) /\ Len(pl) = n
  BY DEF Planned
<1>3. /\ q \in Seq(Plans) /\ Len(q) = n - 1
      /\ \A i \in 1..Len(q) : i \in 1..n /\ q[i] = pl[i]
      /\ \A i \in 1..n : pl[i] \in Plans
  BY <1>1, <1>2, PlanBeneath, EmptySeq
<1>4. n \in 1..n /\ pl[n] \in Plans /\ e \in Nat
  BY <1>1, <1>3 DEF Plans
<1>5. Follows(d, stk[n], pl[n], c)
  BY <1>4 DEF Planned, Resumes
<1>6. c \in Nat \ {0} /\ c <= e /\ e <= Len(d.toks) + 1
  BY <1>4 DEF Planned
<1>7. e \in 1..(Len(d.toks) + 1)
  BY <1>4, <1>6
<1>8. ASSUME NEW i \in 1..Len(s)
      PROVE  /\ Follows(d, s[i], q[i], Resumes(s, q, e, i))
             /\ e <= q[i].to /\ q[i].to <= Len(d.toks) + 1
             /\ \A j \in 1..i : q[i].to <= q[j].to
  <2>1. i \in 1..n /\ i \in 1..(n - 1) /\ s[i] = stk[i] /\ q[i] = pl[i]
    BY <1>1, <1>3
  <2>2. \A j \in 1..i : j \in 1..(n - 1) /\ q[j] = pl[j]
    BY <1>1, <1>3, <2>1
  <2>3. Resumes(stk, pl, c, i) = Resumes(s, q, e, i)
    <3>1. CASE i = n - 1
      <4>1. i # n /\ i = Len(s) /\ i + 1 = n
        <5>1. n \in Nat /\ Len(s) = n - 1
          BY <1>1
        <5> QED
          BY <3>1, <5>1
      <4> QED
        BY <4>1 DEF Resumes
    <3>2. CASE i # n - 1
      <4>1. i + 1 \in 1..(n - 1) /\ i # n /\ i # Len(s)
        BY <1>1, <2>1, <3>2
      <4>2. i + 1 \in 1..Len(q)
        BY <1>1, <1>3, <4>1
      <4>3. q[i + 1] = pl[i + 1]
        BY <1>3, <4>2
      <4> QED
        BY <4>1, <4>3 DEF Resumes
    <3> QED
      BY <3>1, <3>2
  <2>4. i \in 1..n /\ \A j \in 1..i : pl[i].to <= pl[j].to
    BY <2>1 DEF Planned
  <2>5. e <= pl[i].to
    BY <1>4, <2>1 DEF Planned
  <2>6. Follows(d, stk[i], pl[i], Resumes(stk, pl, c, i)) /\ pl[i].to <= Len(d.toks) + 1
    BY <2>1 DEF Planned
  <2> QED
    BY <2>1, <2>2, <2>3, <2>4, <2>5, <2>6
<1>9. Planned(d, s, q, e)
  BY <1>1, <1>3, <1>7, <1>8 DEF Planned
<1> QED
  BY <1>4, <1>5, <1>6, <1>9

\* A frame more, whose phrase ends where the one below it goes on.
LEMMA PlannedPush ==
  ASSUME NEW d, Len(d.toks) \in Nat,
         NEW stk \in Seq(Frames), NEW pl, NEW e, Planned(d, stk, pl, e),
         NEW f \in Frames, NEW r \in Plans, r.to = e,
         NEW c \in Nat \ {0}, c <= e, Follows(d, f, r, c)
  PROVE  Planned(d, Append(stk, f), Append(pl, r), c)
<1> DEFINE n == Len(stk)
           s == Append(stk, f)
           q == Append(pl, r)
<1>1. /\ pl \in Seq(Plans) /\ Len(pl) = n /\ n \in Nat
      /\ e \in 1..(Len(d.toks) + 1)
  BY LenProperties DEF Planned
<1>2. /\ s \in Seq(Frames) /\ Len(s) = n + 1 /\ s[n + 1] = f
      /\ \A i \in 1..n : s[i] = stk[i]
  BY <1>1, AppendProperties
<1>3. /\ q \in Seq(Plans) /\ Len(q) = n + 1 /\ q[n + 1] = r
      /\ \A i \in 1..n : q[i] = pl[i]
  BY <1>1, AppendProperties
<1> HIDE DEF s, q
<1>4. c \in 1..(Len(d.toks) + 1) /\ e \in Nat
  BY <1>1
<1>5. ASSUME NEW i \in 1..Len(s)
      PROVE  /\ Follows(d, s[i], q[i], Resumes(s, q, c, i))
             /\ c <= q[i].to /\ q[i].to <= Len(d.toks) + 1
             /\ \A j \in 1..i : q[i].to <= q[j].to
  <2>1. CASE i = n + 1
    <3>1. Resumes(s, q, c, i) = c
      BY <1>2, <2>1 DEF Resumes
    <3>2. \A j \in 1..n : e <= pl[j].to
      BY <1>1 DEF Planned
    <3>3. \A j \in 1..i : q[i].to <= q[j].to
      BY <1>1, <1>3, <1>4, <2>1, <3>2
    <3> QED
      BY <1>1, <1>2, <1>3, <2>1, <3>1, <3>3
  <2>2. CASE i # n + 1
    <3>1. i \in 1..n /\ s[i] = stk[i] /\ q[i] = pl[i] /\ i # Len(s)
      BY <1>1, <1>2, <1>3, <2>2
    <3>2. Resumes(s, q, c, i) = Resumes(stk, pl, e, i)
      <4>1. CASE i = n
        BY <1>3, <3>1, <4>1 DEF Resumes
      <4>2. CASE i # n
        <5>1. i + 1 \in 1..n
          BY <1>1, <3>1, <4>2
        <5> QED
          BY <1>3, <3>1, <4>2, <5>1 DEF Resumes
      <4> QED
        BY <4>1, <4>2
    <3>3. /\ Follows(d, stk[i], pl[i], Resumes(stk, pl, e, i))
          /\ e <= pl[i].to /\ pl[i].to <= Len(d.toks) + 1
          /\ \A j \in 1..i : pl[i].to <= pl[j].to
      BY <3>1 DEF Planned
    <3>4. \A j \in 1..i : q[j] = pl[j]
      BY <1>1, <1>3, <3>1
    <3>5. pl[i].to \in Nat
      <4>1. \A j \in 1..n : pl[j] \in Plans
        BY <1>1, ElementOfSeq
      <4> QED
        BY <3>1, <4>1 DEF Plans
    <3>6. c <= pl[i].to
      BY <1>4, <3>3, <3>5
    <3> QED
      BY <3>1, <3>2, <3>3, <3>4, <3>6
  <2> QED
    BY <2>1, <2>2
<1>6. Planned(d, s, q, c)
  BY <1>2, <1>3, <1>4, <1>5 DEF Planned
<1> QED
  BY <1>6 DEF s, q

\* Which slots are lent, when a frame is pushed or popped.
LEMMA Lending ==
  ASSUME NEW n \in Nat, NEW s, NEW t, Len(s) = n, Len(t) = n + 1,
         \A i \in 1..n : t[i] = s[i],
         NEW i \in 1..n
  PROVE  /\ \A j \in 1..n : Lent(t, i, j) <=> Lent(s, i, j)
         /\ Lent(t, i, n + 1) <=>
              \/ Lent(s, i, n)
              \/ /\ s[i].op = "map" /\ t[n + 1].op = "insert"
                 /\ t[n + 1].key[1] = s[i].key[1]
<1>1. \A j \in 1..n : \A l \in (i + 1)..j : t[l] = s[l]
  OBVIOUS
<1>2. \A l \in (i + 1)..(n + 1) : (l \in (i + 1)..n /\ t[l] = s[l]) \/ l = n + 1
  OBVIOUS
<1>3. n + 1 \in (i + 1)..(n + 1) /\ \A l \in (i + 1)..n : l \in (i + 1)..(n + 1)
  OBVIOUS
<1>4. t[i] = s[i]
  OBVIOUS
<1>5. \A j \in 1..n : Lent(t, i, j) <=> Lent(s, i, j)
  BY <1>1, <1>4 DEF Lent
<1>6. \A l \in (i + 1)..n : t[l] = s[l]
  OBVIOUS
<1>7. Lent(t, i, n + 1) <=>
        \/ Lent(s, i, n)
        \/ /\ s[i].op = "map" /\ t[n + 1].op = "insert"
           /\ t[n + 1].key[1] = s[i].key[1]
  BY <1>2, <1>3, <1>4, <1>6 DEF Lent
<1> QED
  BY <1>5, <1>7

\* Which places are open, when a frame is pushed or popped.
LEMMA Opening ==
  ASSUME NEW n \in Nat, NEW s, NEW t, Len(s) = n, Len(t) = n + 1,
         \A i \in 1..n : t[i] = s[i],
         NEW q, NEW p, \A i \in 1..n : p[i] = q[i],
         NEW a
  PROVE  /\ Open(t, p, a) /\ (t[n + 1].op = "insert" => a[1] # t[n + 1].key[1])
              => Open(s, q, a)
         /\ Open(t, p, a) => ~Claims(t[n + 1], p[n + 1], a)
         /\ Open(s, q, a) /\ ~Claims(t[n + 1], p[n + 1], a) => Open(t, p, a)
<1>1. \A i \in 1..Len(t) : i \in 1..n \/ i = n + 1
  OBVIOUS
<1>2. n + 1 \in 1..Len(t) /\ \A i \in 1..n : i \in 1..Len(t)
  OBVIOUS
<1>3. ASSUME NEW i \in 1..n
      PROVE  /\ Lent(t, i, n + 1) <=>
                  \/ Lent(s, i, n)
                  \/ /\ s[i].op = "map" /\ t[n + 1].op = "insert"
                     /\ t[n + 1].key[1] = s[i].key[1]
             /\ Claims(t[i], p[i], a) <=> Claims(s[i], q[i], a)
             /\ s[i].op = "map" /\ Claims(s[i], q[i], a) => a[1] = s[i].key[1]
  <2>1. t[i] = s[i] /\ p[i] = q[i]
    OBVIOUS
  <2>2. s[i].op = "map" /\ Claims(s[i], q[i], a) => a[1] = s[i].key[1]
    BY DEF Claims
  <2> QED
    BY <2>1, <2>2, Lending
<1>4. ~Lent(t, n + 1, n + 1)
  <2>1. \A l \in (n + 1 + 1)..(n + 1) : FALSE
    OBVIOUS
  <2> QED
    BY <2>1 DEF Lent
<1>5. Open(t, p, a) <=> \A i \in 1..Len(t) : Claims(t[i], p[i], a) => Lent(t, i, n + 1)
  BY DEF Open
<1>6. Open(s, q, a) <=> \A i \in 1..n : Claims(s[i], q[i], a) => Lent(s, i, n)
  BY DEF Open
<1>7. Open(t, p, a) /\ (t[n + 1].op = "insert" => a[1] # t[n + 1].key[1])
        => Open(s, q, a)
  BY <1>2, <1>3, <1>5, <1>6
<1>8. Open(s, q, a) /\ ~Claims(t[n + 1], p[n + 1], a) => Open(t, p, a)
  BY <1>1, <1>3, <1>5, <1>6
<1> QED
  BY <1>2, <1>4, <1>5, <1>7, <1>8

\* What a frame reaches, when it is pushed or popped.
LEMMA Separating ==
  ASSUME NEW n \in Nat, NEW s, NEW t, Len(s) = n, Len(t) = n + 1,
         \A i \in 1..n : t[i] = s[i],
         NEW q, NEW p, \A i \in 1..n : p[i] = q[i]
  PROVE  Separate(t, p) <=>
           /\ Separate(s, q)
           /\ \A i \in 1..n : \A a \in Spots :
                Reaches(t[n + 1], a) /\ Claims(s[i], q[i], a) => Lent(t, i, n + 1)
<1> DEFINE Apart(u, r, i, j) == \A a \in Spots :
             Reaches(u[j], a) /\ Claims(u[i], r[i], a) => Lent(u, i, j)
<1>1. \A j \in 1..n : \A i \in 1..(j - 1) : i \in 1..n
  OBVIOUS
<1>2. \A i, j \in 1..n : Apart(t, p, i, j) <=> Apart(s, q, i, j)
  <2> SUFFICES ASSUME NEW i \in 1..n, NEW j \in 1..n
               PROVE  Apart(t, p, i, j) <=> Apart(s, q, i, j)
    OBVIOUS
  <2>1. t[i] = s[i] /\ t[j] = s[j] /\ p[i] = q[i]
    OBVIOUS
  <2>2. Lent(t, i, j) <=> Lent(s, i, j)
    BY Lending
  <2> QED
    BY <2>1, <2>2
<1>3. \A i \in 1..n : Apart(t, p, i, n + 1) <=>
        \A a \in Spots :
          Reaches(t[n + 1], a) /\ Claims(s[i], q[i], a) => Lent(t, i, n + 1)
  OBVIOUS
<1>4. Separate(t, p) <=> \A j \in 1..(n + 1) : \A i \in 1..(j - 1) : Apart(t, p, i, j)
  BY DEF Separate
<1>5. Separate(s, q) <=> \A j \in 1..n : \A i \in 1..(j - 1) : Apart(s, q, i, j)
  BY DEF Separate
<1> HIDE DEF Apart
<1>6. 1..(n + 1) = 1..n \union {n + 1} /\ 1..(n + 1 - 1) = 1..n
  OBVIOUS
<1>7. Separate(t, p) <=> /\ \A j \in 1..n : \A i \in 1..(j - 1) : Apart(t, p, i, j)
                         /\ \A i \in 1..n : Apart(t, p, i, n + 1)
  <2>1. \A i : i \in 1..(n + 1 - 1) <=> i \in 1..n
    BY <1>6
  <2> QED
    BY <1>4, <1>6, <2>1
<1> QED
  BY <1>1, <1>2, <1>3, <1>5, <1>7

\* The document is read where the code writes, and nothing that is owned is
\* lost.
Whole(d, stk, c, m, h) ==
  /\ Kept(stk, m, h)
  /\ \E pl : Tidy(d, stk, pl, c, m)

\* Below the frame on top, of plan r, the code is in plan q.
Topped(q, r) ==
  /\ Planned(doc, below, q, r.to) /\ Separate(below, q)
  /\ r \in Plans /\ Follows(doc, top, r, cur)
  /\ cur \in Nat \ {0} /\ cur <= r.to
  /\ \A a \in DOMAIN mem : mem[a].k \in Owning =>
       /\ ~Claims(top, r, a)
       /\ (top.op = "insert" => a[1] # top.key[1]) => Open(below, q, a)
  /\ \A a \in Spots :
       Reaches(top, a) /\ (top.op = "insert" => a[1] # top.key[1])
         => Open(below, q, a)

\* The tokens of a document.
LEMMA DocTokens ==
  ASSUME IInv
  PROVE  /\ doc \in Docs /\ Len(doc.toks) \in Nat
         /\ doc.toks \in Seq([t : STRING, v : Seq(STRING)])
<1>1. doc \in Docs
  BY DEF IInv
<1>2. doc.toks \in Seq([t : STRING, v : Seq(STRING)])
  BY <1>1, DocAssumption
<1> QED
  BY <1>1, <1>2, LenProperties

\* The plan of the frame on top, and the rest.
LEMMA TopPlan ==
  ASSUME IInv, Whole(doc, stack, cur, mem, heap), stack # <<>>
  PROVE  \E q, r : Topped(q, r)
<1>1. PICK pl : Tidy(doc, stack, pl, cur, mem)
  BY DEF Whole
<1> DEFINE n == Len(stack) - 1
           q == SubSeq(pl, 1, Len(pl) - 1)
           r == pl[Len(stack)]
<1>2. stack \in Seq(Frames) /\ Len(doc.toks) \in Nat
  BY DocTokens DEF IInv, Safe
<1>3. /\ Len(stack) \in Nat \ {0} /\ Len(below) = n
      /\ below \in Seq(Frames)
      /\ \A i \in 1..n : stack[i] = below[i]
  <2>1. below = SubSeq(stack, 1, Len(stack) - 1)
    BY DEF below
  <2>2. /\ Len(stack) \in Nat \ {0} /\ below \in Seq(Frames)
        /\ Len(below) = Len(stack) - 1
        /\ \A i \in 1..Len(below) : below[i] = stack[i]
    BY <1>2, <2>1, Beneath
  <2> QED
    BY <2>2
<1>4. Planned(doc, stack, pl, cur) /\ Separate(stack, pl) /\ Vacant(stack, pl, mem)
  BY <1>1 DEF Tidy
<1>5. pl \in Seq(Plans) /\ Len(pl) = Len(stack) /\ pl # <<>>
  BY <1>3, <1>4, EmptySeq DEF Planned
<1>6. Len(q) = n /\ \A i \in 1..n : pl[i] = q[i]
  BY <1>3, <1>5, PlanBeneath
<1>7. /\ Planned(doc, below, q, r.to)
      /\ Follows(doc, top, r, cur)
      /\ r \in Plans
      /\ cur \in Nat \ {0} /\ cur <= r.to
  <2>1. q = SubSeq(pl, 1, Len(pl) - 1) /\ q = SubSeq(pl, 1, Len(stack) - 1)
    BY <1>5
  <2> HIDE DEF q
  <2> QED
    BY <1>2, <1>3, <1>4, <1>5, <2>1, PlannedPop DEF below, top
<1> HIDE DEF q
<1>8. n \in Nat /\ Len(stack) = n + 1
  BY <1>3
<1>9. stack[n + 1] = top /\ pl[n + 1] = r
  BY <1>8 DEF top
<1> HIDE DEF n, r
<1>10. /\ Separate(below, q)
       /\ \A i \in 1..n : \A a \in Spots :
            Reaches(top, a) /\ Claims(below[i], q[i], a) => Lent(stack, i, n + 1)
  BY <1>3, <1>4, <1>6, <1>8, <1>9, Separating
<1>11. ASSUME NEW a
       PROVE  /\ Open(stack, pl, a) /\ (top.op = "insert" => a[1] # top.key[1])
                   => Open(below, q, a)
              /\ Open(stack, pl, a) => ~Claims(top, r, a)
  BY <1>3, <1>6, <1>8, <1>9, Opening
<1>12. ASSUME NEW a \in Spots, Reaches(top, a),
              top.op = "insert" => a[1] # top.key[1]
       PROVE  Open(below, q, a)
  <2> SUFFICES ASSUME NEW i \in 1..n, Claims(below[i], q[i], a)
               PROVE  Lent(below, i, n)
    BY <1>3 DEF Open
  <2>1. Lent(stack, i, n + 1)
    BY <1>10, <1>12
  <2>2. below[i].op = "map" => a[1] = below[i].key[1]
    BY DEF Claims
  <2>3. \/ Lent(below, i, n)
        \/ /\ below[i].op = "map" /\ top.op = "insert"
           /\ top.key[1] = below[i].key[1]
    BY <1>3, <1>8, <1>9, <2>1, Lending
  <2> QED
    BY <1>12, <2>2, <2>3
<1>13. Topped(q, r)
  BY <1>4, <1>7, <1>10, <1>11, <1>12 DEF Topped, Vacant
<1> QED
  BY <1>13

\* Another memory.
LEMMA TidyWords ==
  ASSUME NEW d, NEW stk, NEW pl, NEW c, NEW m, Tidy(d, stk, pl, c, m), NEW m2,
         \A a \in DOMAIN m2 : m2[a].k \in Owning => Open(stk, pl, a)
  PROVE  Tidy(d, stk, pl, c, m2)
  BY DEF Tidy, Vacant

\* A frame that lends nothing comes next, and reads what comes first.
LEMMA TidyPush ==
  ASSUME NEW d, Len(d.toks) \in Nat,
         NEW stk \in Seq(Frames), NEW pl, NEW e, NEW m, Tidy(d, stk, pl, e, m),
         NEW f \in Frames, NEW r \in Plans, r.to = e,
         NEW c \in Nat \ {0}, c <= e, Follows(d, f, r, c),
         \A a \in Spots : Reaches(f, a) => Open(stk, pl, a),
         \A a \in DOMAIN m : m[a].k \in Owning => ~Claims(f, r, a)
  PROVE  /\ Tidy(d, Append(stk, f), Append(pl, r), c, m)
         /\ Append(stk, f) \in Seq(Frames)
         /\ \A a : Open(stk, pl, a) /\ ~Claims(f, r, a)
                     => Open(Append(stk, f), Append(pl, r), a)
<1> DEFINE n == Len(stk)
           t == Append(stk, f)
           p == Append(pl, r)
<1>1. Planned(d, stk, pl, e) /\ Separate(stk, pl) /\ Vacant(stk, pl, m)
  BY DEF Tidy
<1>2. pl \in Seq(Plans) /\ Len(pl) = n /\ n \in Nat
  BY <1>1, LenProperties DEF Planned
<1>3. /\ t \in Seq(Frames) /\ Len(t) = n + 1 /\ t[n + 1] = f
      /\ \A i \in 1..n : t[i] = stk[i]
  BY <1>2, AppendProperties
<1>4. p[n + 1] = r /\ \A i \in 1..n : p[i] = pl[i]
  BY <1>2, AppendProperties
<1>5. Planned(d, t, p, c)
  BY <1>1, PlannedPush
<1> HIDE DEF t, p, n
<1>6. Separate(t, p)
  <2>1. ASSUME NEW i \in 1..n, NEW a \in Spots, Reaches(f, a), Claims(stk[i], pl[i], a)
        PROVE  Lent(t, i, n + 1)
    <3>1. Lent(stk, i, n)
      BY <2>1 DEF Open, n
    <3> QED
      BY <1>2, <1>3, <3>1, Lending DEF n
  <2>2. Len(stk) = n
    BY DEF n
  <2> QED
    BY <1>1, <1>2, <1>3, <1>4, <2>1, <2>2, Separating
<1>7. \A a : Open(stk, pl, a) /\ ~Claims(f, r, a) => Open(t, p, a)
  <2>1. Len(stk) = n
    BY DEF n
  <2> QED
    BY <1>2, <1>3, <1>4, <2>1, Opening
<1>8. Vacant(t, p, m)
  BY <1>1, <1>7 DEF Vacant
<1> QED
  BY <1>3, <1>5, <1>6, <1>7, <1>8 DEF Tidy, t, p

\* Words outlive a step, or what they own gets another owner.
LEMMA Keeping ==
  ASSUME NEW stk \in Seq(Frames), stk # <<>>, NEW m, NEW h, Kept(stk, m, h),
         NEW s, s = SubSeq(stk, 1, Len(stk) - 1),
         NEW stk2, NEW m2, NEW h2,
         Len(stk2) \in Nat, Len(stk2) >= Len(s),
         \A i \in 1..Len(s) : stk2[i] = s[i],
         \A b : Held(b, h2) => Held(b, h) \/ ~Unowned(stk2, m2, b),
         \A b : \A a \in DOMAIN m :
           Owns(m[a], b) /\ Held(b, h2) => ~Unowned(stk2, m2, b),
         \A b : Holds(stk[Len(stk)], b) /\ Held(b, h2) => ~Unowned(stk2, m2, b)
  PROVE  Kept(stk2, m2, h2)
<1> SUFFICES ASSUME NEW b, Held(b, h2), Held(b, h)
             PROVE  ~Unowned(stk2, m2, b)
  BY DEF Kept, Held
<1>1. /\ Len(stk) \in Nat \ {0} /\ Len(s) = Len(stk) - 1
      /\ \A i \in 1..Len(s) : s[i] = stk[i]
  BY Beneath
<1>2. ~Unowned(stk, m, b)
  BY DEF Kept, Held
<1>3. ASSUME NEW i \in 1..Len(stk), Holds(stk[i], b)
      PROVE  ~Unowned(stk2, m2, b)
  <2>1. CASE i = Len(stk)
    BY <1>3, <2>1
  <2>2. CASE i # Len(stk)
    <3>1. i \in 1..Len(s) /\ i \in 1..Len(stk2)
      BY <1>1, <2>2
    <3>2. stk2[i] = stk[i]
      BY <1>1, <3>1
    <3> QED
      BY <1>3, <3>1, <3>2 DEF Unowned
  <2> QED
    BY <2>1, <2>2
<1> QED
  BY <1>2, <1>3 DEF Unowned

-----------------------------------------------------------------------------
(* Helpers about places in values.                                         *)

\* A value is where it is.
LEMMA WithinSelf ==
  ASSUME NEW a \in Places
  PROVE  Within(a, a)
<1>1. a[2] \in Seq(Nat) /\ Len(a[2]) \in Nat
  BY PlaceParts, LenProperties
<1>2. SubSeq(a[2], 1, Len(a[2])) = a[2]
  BY <1>1, SubSeqFull
<1> QED
  BY <1>1, <1>2 DEF Within

\* A path that begins with another one has its numbers.
LEMMA WithinPath ==
  ASSUME NEW a \in Places, NEW b \in Places
  PROVE  Within(a, b) <=> /\ a[1] = b[1] /\ Len(a[2]) >= Len(b[2])
                          /\ \A j \in 1..Len(b[2]) : a[2][j] = b[2][j]
<1> DEFINE n == Len(b[2])
           s == SubSeq(a[2], 1, n)
<1>1. a[2] \in Seq(Nat) /\ b[2] \in Seq(Nat) /\ n \in Nat /\ Len(a[2]) \in Nat
  BY PlaceParts, LenProperties
<1>2. ASSUME Len(a[2]) >= n
      PROVE  s = b[2] <=> \A j \in 1..n : a[2][j] = b[2][j]
  <2>1. \A j \in 1..n : a[2][j] \in Nat
    BY <1>1, <1>2, ElementOfSeq
  <2>2. /\ s \in Seq(Nat)
        /\ Len(s) = IF 1 <= n THEN n - 1 + 1 ELSE 0
        /\ \A j \in 1..(n - 1 + 1) : s[j] = a[2][1 + j - 1]
    BY <1>1, <2>1, SubSeqProperties
  <2> HIDE DEF s, n
  <2>3. Len(s) = n /\ \A j \in 1..n : s[j] = a[2][j]
    BY <1>1, <2>2
  <2>4. Len(b[2]) = n
    BY DEF n
  <2>5. ASSUME \A j \in 1..n : a[2][j] = b[2][j]
        PROVE  s = b[2]
    <3>1. \A j \in 1..Len(s) : s[j] = b[2][j]
      BY <2>3, <2>5
    <3>2. s \in Seq(Nat) /\ b[2] \in Seq(Nat) /\ Len(s) = Len(b[2])
      BY <1>1, <2>2, <2>3, <2>4
    <3> QED
      BY <3>1, <3>2, SeqEqual
  <2> QED
    BY <2>3, <2>5
<1> QED
  BY <1>2 DEF Within

\* What is in a part of a value is in the value, and in no other part.
LEMMA WithinPart ==
  ASSUME NEW p \in Places, NEW i \in Nat, NEW a \in Places, Within(a, Part(p, i))
  PROVE  /\ Within(a, p) /\ a # p
         /\ \A j \in Nat : Within(a, Part(p, j)) => j = i
<1> DEFINE n == Len(p[2])
<1>1. p[1] \in Nat /\ p[2] \in Seq(Nat) /\ n \in Nat
  BY PlaceParts, LenProperties
<1>2. ASSUME NEW j \in Nat
      PROVE  /\ Part(p, j) \in Places /\ Part(p, j)[1] = p[1]
             /\ Len(Part(p, j)[2]) = n + 1 /\ Part(p, j)[2][n + 1] = j
             /\ \A l \in 1..n : Part(p, j)[2][l] = p[2][l]
  <2>1. /\ Append(p[2], j) \in Seq(Nat) /\ Len(Append(p[2], j)) = n + 1
        /\ Append(p[2], j)[n + 1] = j
        /\ \A l \in 1..n : Append(p[2], j)[l] = p[2][l]
    BY <1>1, AppendProperties
  <2>2. Part(p, j)[1] = p[1] /\ Part(p, j)[2] = Append(p[2], j)
    BY DEF Part
  <2>3. Part(p, j) \in Places
    BY <1>1, <2>1 DEF Part, Places
  <2> QED
    BY <2>1, <2>2, <2>3
<1>3. Len(a[2]) \in Nat
  BY PlaceParts, LenProperties
<1>4. ASSUME NEW j \in Nat, Within(a, Part(p, j))
      PROVE  /\ a[1] = p[1] /\ Len(a[2]) >= n + 1 /\ a[2][n + 1] = j
             /\ \A l \in 1..n : a[2][l] = p[2][l]
  <2>1. /\ a[1] = p[1] /\ Len(a[2]) >= n + 1
        /\ \A l \in 1..(n + 1) : a[2][l] = Part(p, j)[2][l]
    BY <1>2, <1>4, WithinPath
  <2>2. n + 1 \in 1..(n + 1) /\ \A l \in 1..n : l \in 1..(n + 1)
    BY <1>1
  <2> QED
    BY <1>2, <2>1, <2>2
<1>5. Within(a, p)
  <2>1. Len(a[2]) >= n
    BY <1>1, <1>3, <1>4
  <2> QED
    BY <1>4, <2>1, WithinPath
<1>6. a # p
  BY <1>1, <1>3, <1>4
<1> QED
  BY <1>4, <1>5, <1>6

\* An element of a block.
LEMMA WithinAt ==
  ASSUME NEW b \in Nat, NEW i \in Nat, NEW a \in Places, a[2] # <<>>
  PROVE  Within(a, At(b, i)) <=> a[1] = b /\ a[2][1] = i
<1>1. /\ At(b, i) \in Places /\ At(b, i)[1] = b /\ At(b, i)[2] = <<i>>
  BY AtPlace DEF At
<1>2. a[2] \in Seq(Nat) /\ Len(a[2]) \in Nat \ {0}
  BY PlaceParts, EmptySeq, LenProperties
<1>3. Len(<<i>>) = 1 /\ <<i>>[1] = i /\ 1..1 = {1}
  OBVIOUS
<1>4. Len(a[2]) >= 1
  BY <1>2
<1>5. Within(a, At(b, i)) <=>
        /\ a[1] = At(b, i)[1] /\ Len(a[2]) >= Len(At(b, i)[2])
        /\ \A j \in 1..Len(At(b, i)[2]) : a[2][j] = At(b, i)[2][j]
  BY <1>1, WithinPath
<1> QED
  BY <1>1, <1>3, <1>4, <1>5

-----------------------------------------------------------------------------
(* Helpers about what is open.                                             *)

\* A place in a block that no frame has to do with is open.
LEMMA ElsewhereOpen ==
  ASSUME NEW stk, NEW pl, NEW a,
         \A i \in 1..Len(stk) :
           /\ ~Keeps(stk[i], a[1])
           /\ Placed(stk[i]) => stk[i].dst[1] # a[1]
           /\ OfMap(stk[i]) => stk[i].key[1] # a[1]
  PROVE  Open(stk, pl, a)
<1> SUFFICES ASSUME NEW i \in 1..Len(stk) PROVE ~Claims(stk[i], pl[i], a)
  BY DEF Open
<1>1. \A p : Within(a, p) => a[1] = p[1]
  BY DEF Within
<1>2. \A p, j : Part(p, j)[1] = p[1]
  BY DEF Part
<1>3. \A p, j : Within(a, Part(p, j)) => a[1] = p[1]
  BY <1>1, <1>2
<1> QED
  BY <1>1, <1>3 DEF Claims, Keeps, Placed, OfMap

\* So is one in a block that is new.
LEMMA FreshOpen ==
  ASSUME NEW stk, NEW m, NEW h, Safe(stk, m, h), NEW pl,
         NEW a, a[1] \in Nat \ {Null}, a[1] \notin 1..Len(h)
  PROVE  Open(stk, pl, a)
<1> SUFFICES ASSUME NEW i \in 1..Len(stk)
             PROVE  /\ ~Keeps(stk[i], a[1])
                    /\ Placed(stk[i]) => stk[i].dst[1] # a[1]
                    /\ OfMap(stk[i]) => stk[i].key[1] # a[1]
  BY ElsewhereOpen
<1>1. FrameOK(stk[i], h)
  BY DEF Safe
<1> QED
  BY <1>1 DEF FrameOK, DstOK, SlotsOK, Inside, Holds, Held

\* So is one in a block that a word owns.
LEMMA OwnedOpen ==
  ASSUME NEW stk, NEW m, NEW h, Safe(stk, m, h), NEW pl,
         NEW a, a[1] \in Nat \ {Null}, NEW c \in DOMAIN m, Owns(m[c], a[1])
  PROVE  Open(stk, pl, a)
<1> SUFFICES ASSUME NEW i \in 1..Len(stk)
             PROVE  /\ ~Keeps(stk[i], a[1])
                    /\ Placed(stk[i]) => stk[i].dst[1] # a[1]
                    /\ OfMap(stk[i]) => stk[i].key[1] # a[1]
  BY ElsewhereOpen
<1>1. ~Keeps(stk[i], a[1])
  BY DEF Safe, Sole, Holds
<1>2. Placed(stk[i]) => stk[i].dst[1] # a[1]
  BY NotInOwned
<1>3. Held(a[1], h)
  BY DEF Safe, MemOK, WordOK, Owns
<1> QED
  BY <1>1, <1>2, <1>3 DEF Safe, FrameOK, SlotsOK, Held

\* A place to write to is a spot, and so is each word's.
LEMMA SpotsOf ==
  ASSUME NEW stk, NEW m, NEW h, Safe(stk, m, h)
  PROVE  /\ \A a : Inside(a, h) => a \in Spots
         /\ \A a \in DOMAIN m : a \in Spots
         /\ \A a : Writable(a, stk, h) => a \in Spots
<1>1. \A b \in 1..Len(h) : b # Null
  BY LenProperties DEF Safe, Null
<1> QED
  BY <1>1 DEF Spots, Inside, Safe, MemOK, Writable

-----------------------------------------------------------------------------
(* Helpers about phrases.                                                  *)

\* A phrase is a stretch of the document, and spelt.
LEMMA PhraseRead ==
  ASSUME NEW d \in Docs, NEW op, NEW ty, NEW names, NEW next, NEW from, NEW to,
         Phrase(op, ty, names, next, from, to) \in Phrases[d]
  PROVE  /\ from \in 1..Len(d.toks) /\ from \in Nat \ {0} /\ to \in Nat
         /\ from < to /\ to <= Len(d.toks) + 1 /\ from + 1 <= to
         /\ Spelt(d.toks, Phrases[d], Phrase(op, ty, names, next, from, to))
<1> DEFINE p == Phrase(op, ty, names, next, from, to)
<1>1. p.from = from /\ p.to = to
  BY DEF Phrase
<1>2. /\ p.from \in 1..Len(d.toks) /\ p.to \in Nat
      /\ p.from < p.to /\ p.to <= Len(d.toks) + 1
      /\ Spelt(d.toks, Phrases[d], p)
  BY PhraseAssumption
<1> HIDE DEF p
<1>3. Len(d.toks) \in Nat
  BY DocAssumption, LenProperties
<1> QED
  BY <1>1, <1>2, <1>3 DEF p

\* A comma that is there is one token.
LEMMA CommaRead ==
  ASSUME NEW toks, NEW i \in Nat
  PROVE  AfterComma(toks, i) \in Nat /\ i <= AfterComma(toks, i)
<1>1. AfterComma(toks, i) = i + 1 \/ AfterComma(toks, i) = i
  BY Zenon DEF AfterComma
<1> QED
  BY <1>1

\* How a value is spelt.
LEMMA ValueRead ==
  ASSUME NEW d \in Docs, NEW ty, NEW from, NEW to,
         Phrase("value", ty, {}, 0, from, to) \in Phrases[d]
  PROVE  LET P == Phrases[d] IN
         /\ ty.k \in {"int", "bool", "char", "str"} => to = from + 1
         /\ ty.k = "unit" => to = Skip(d.toks, from)
         /\ ty.k = "opt" =>
              IF d.toks[from].t = "null" THEN to = from + 1
              ELSE Phrase("value", ty.inner, {}, 0, from, to) \in P
         /\ ty.k = "box" => Phrase("value", ty.inner, {}, 0, from, to) \in P
         /\ ty.k = "ref" => Phrase("value", Cells[ty.cell], {}, 0, from, to) \in P
         /\ ty.k = "struct" =>
              Phrase("struct", ty, FieldNames(ty), 0, from + 1, to) \in P
         /\ ty.k = "tuple" => Phrase("tuple", ty, {}, 1, from + 1, to) \in P
         /\ ty.k = "vec" => Phrase("vec", ty, {}, 0, from + 1, to) \in P
         /\ ty.k = "map" => Phrase("map", ty, {}, 0, from + 1, to) \in P
<1> DEFINE p == Phrase("value", ty, {}, 0, from, to)
<1>1. p.op = "value" /\ p.ty = ty /\ p.from = from /\ p.to = to
  BY DEF Phrase
<1>2. Spelt(d.toks, Phrases[d], p)
  BY PhraseRead
<1> HIDE DEF p
<1>3. Phrase(ty.k, ty, {}, 0, from + 1, to) \in Phrases[d]
        => /\ ty.k = "vec" => Phrase("vec", ty, {}, 0, from + 1, to) \in Phrases[d]
           /\ ty.k = "map" => Phrase("map", ty, {}, 0, from + 1, to) \in Phrases[d]
  OBVIOUS
<1> QED
  BY <1>1, <1>2, <1>3 DEF Spelt, ValuePhrase

\* How what is left of a struct's members is spelt.
LEMMA StructRead ==
  ASSUME NEW d \in Docs, NEW ty, NEW names, NEW from, NEW to,
         Phrase("struct", ty, names, 0, from, to) \in Phrases[d]
  PROVE  LET P == Phrases[d]
             here == d.toks[from] IN
         IF here.t = "}" THEN to = from + 1
         ELSE \E k \in Nat :
           /\ Phrase("struct", ty, names \ {here.v}, 0, AfterComma(d.toks, k), to) \in P
           /\ IF here.v \in FieldNames(ty)
              THEN /\ here.v \in names
                   /\ \A i \in 1..Len(ty.fields) : ty.fields[i].name = here.v =>
                        Phrase("value", ty.fields[i].ty, {}, 0, from + 2, k) \in P
              ELSE k = Skip(d.toks, from + 2) /\ from <= k
<1> DEFINE p == Phrase("struct", ty, names, 0, from, to)
           v == d.toks[from].v
           left(k) == [p EXCEPT !.from = AfterComma(d.toks, k)]
<1>1. p.op = "struct" /\ p.ty = ty /\ p.names = names /\ p.from = from /\ p.to = to
  BY DEF Phrase
<1>2. Spelt(d.toks, Phrases[d], p) /\ from \in Nat /\ to \in Nat
  BY PhraseRead
<1>3. ASSUME NEW x, NEW y
      PROVE  [[p EXCEPT !.from = x] EXCEPT !.names = @ \ {y}]
               = Phrase("struct", ty, names \ {y}, 0, x, to)
  <2>1. [p EXCEPT !.from = x] = Phrase("struct", ty, names, 0, x, to)
    BY DEF Phrase
  <2>2. [p EXCEPT !.from = x].names = names
    BY <2>1 DEF Phrase
  <2>3. [Phrase("struct", ty, names, 0, x, to) EXCEPT !.names = names \ {y}]
          = Phrase("struct", ty, names \ {y}, 0, x, to)
    BY DEF Phrase
  <2> QED
    BY <2>1, <2>2, <2>3
<1> HIDE DEF p
<1>4. \A k \in from..to : k \in Nat /\ from <= k
  BY <1>2
<1>5. IF d.toks[from].t = "}" THEN to = from + 1
      ELSE \E k \in from..to :
        /\ [left(k) EXCEPT !.names = @ \ {v}] \in Phrases[d]
        /\ IF v \in FieldNames(ty)
           THEN /\ v \in names
                /\ \A i \in 1..Len(ty.fields) : ty.fields[i].name = v =>
                     ValuePhrase(ty.fields[i].ty, from + 2, k) \in Phrases[d]
           ELSE k = Skip(d.toks, from + 2)
  BY <1>1, <1>2, Zenon DEF Spelt
<1> QED
  BY <1>3, <1>4, <1>5 DEF ValuePhrase

\* How what is left of a tuple's items is spelt.
LEMMA TupleRead ==
  ASSUME NEW d \in Docs, NEW ty, NEW next, NEW from, NEW to,
         Phrase("tuple", ty, {}, next, from, to) \in Phrases[d]
  PROVE  IF next > Len(ty.fields) THEN to = from + 1
         ELSE \E k \in Nat :
           /\ Phrase("value", ty.fields[next].ty, {}, 0, from, k) \in Phrases[d]
           /\ Phrase("tuple", ty, {}, next + 1, AfterComma(d.toks, k), to)
                \in Phrases[d]
<1> DEFINE p == Phrase("tuple", ty, {}, next, from, to)
           left(k) == [p EXCEPT !.from = AfterComma(d.toks, k)]
<1>1. p.op = "tuple" /\ p.ty = ty /\ p.next = next /\ p.from = from /\ p.to = to
  BY DEF Phrase
<1>2. Spelt(d.toks, Phrases[d], p) /\ from \in Nat /\ to \in Nat
  BY PhraseRead
<1>3. ASSUME NEW x
      PROVE  [[p EXCEPT !.from = x] EXCEPT !.next = @ + 1]
               = Phrase("tuple", ty, {}, next + 1, x, to)
  <2>1. [p EXCEPT !.from = x] = Phrase("tuple", ty, {}, next, x, to)
    BY DEF Phrase
  <2>2. [p EXCEPT !.from = x].next = next
    BY <2>1 DEF Phrase
  <2>3. [Phrase("tuple", ty, {}, next, x, to) EXCEPT !.next = next + 1]
          = Phrase("tuple", ty, {}, next + 1, x, to)
    BY DEF Phrase
  <2> QED
    BY <2>1, <2>2, <2>3
<1> HIDE DEF p
<1>4. \A k \in from..to : k \in Nat
  BY <1>2
<1>5. IF next > Len(ty.fields) THEN to = from + 1
      ELSE \E k \in from..to :
        /\ ValuePhrase(ty.fields[next].ty, from, k) \in Phrases[d]
        /\ [left(k) EXCEPT !.next = @ + 1] \in Phrases[d]
  BY <1>1, <1>2, Zenon DEF Spelt
<1>6. ASSUME NEW k \in from..to, 
             ValuePhrase(ty.fields[next].ty, from, k) \in Phrases[d],
             [left(k) EXCEPT !.next = @ + 1] \in Phrases[d]
      PROVE  /\ k \in Nat
             /\ Phrase("value", ty.fields[next].ty, {}, 0, from, k) \in Phrases[d]
             /\ Phrase("tuple", ty, {}, next + 1, AfterComma(d.toks, k), to)
                  \in Phrases[d]
  BY <1>3, <1>4, <1>6 DEF ValuePhrase
<1> QED
  BY <1>5, <1>6

\* How what is left of a list is spelt.
LEMMA VecRead ==
  ASSUME NEW d \in Docs, NEW ty, NEW from, NEW to,
         Phrase("vec", ty, {}, 0, from, to) \in Phrases[d]
  PROVE  IF d.toks[from].t = "]" THEN to = from + 1
         ELSE \E k \in Nat :
           /\ Phrase("value", ty.elem, {}, 0, from, k) \in Phrases[d]
           /\ Phrase("vec", ty, {}, 0, AfterComma(d.toks, k), to) \in Phrases[d]
<1> DEFINE p == Phrase("vec", ty, {}, 0, from, to)
<1>1. p.op = "vec" /\ p.ty = ty /\ p.from = from /\ p.to = to
  BY DEF Phrase
<1>2. Spelt(d.toks, Phrases[d], p) /\ from \in Nat /\ to \in Nat
  BY PhraseRead
<1>3. \A x : [p EXCEPT !.from = x] = Phrase("vec", ty, {}, 0, x, to)
  BY DEF Phrase
<1> HIDE DEF p
<1>4. \A k \in from..to : k \in Nat
  BY <1>2
<1>5. IF d.toks[from].t = "]" THEN to = from + 1
      ELSE \E k \in from..to :
        /\ ValuePhrase(ty.elem, from, k) \in Phrases[d]
        /\ [p EXCEPT !.from = AfterComma(d.toks, k)] \in Phrases[d]
  BY <1>1, <1>2, Zenon DEF Spelt
<1>6. ASSUME NEW k \in from..to, 
             ValuePhrase(ty.elem, from, k) \in Phrases[d],
             [p EXCEPT !.from = AfterComma(d.toks, k)] \in Phrases[d]
      PROVE  /\ k \in Nat
             /\ Phrase("value", ty.elem, {}, 0, from, k) \in Phrases[d]
             /\ Phrase("vec", ty, {}, 0, AfterComma(d.toks, k), to) \in Phrases[d]
  BY <1>3, <1>4, <1>6 DEF ValuePhrase
<1> QED
  BY <1>5, <1>6

\* How what is left of a map is spelt.
LEMMA MapRead ==
  ASSUME NEW d \in Docs, NEW ty, NEW from, NEW to,
         Phrase("map", ty, {}, 0, from, to) \in Phrases[d]
  PROVE  IF d.toks[from].t = "}" THEN to = from + 1
         ELSE \E k \in Nat :
           /\ Phrase("value", [k |-> "str"], {}, 0, from, from + 1) \in Phrases[d]
           /\ Phrase("value", ty.val, {}, 0, from + 2, k) \in Phrases[d]
           /\ Phrase("map", ty, {}, 0, AfterComma(d.toks, k), to) \in Phrases[d]
<1> DEFINE p == Phrase("map", ty, {}, 0, from, to)
<1>1. p.op = "map" /\ p.ty = ty /\ p.from = from /\ p.to = to
  BY DEF Phrase
<1>2. Spelt(d.toks, Phrases[d], p) /\ from \in Nat /\ to \in Nat
  BY PhraseRead
<1>3. \A x : [p EXCEPT !.from = x] = Phrase("map", ty, {}, 0, x, to)
  BY DEF Phrase
<1> HIDE DEF p
<1>4. \A k \in from..to : k \in Nat
  BY <1>2
<1>5. IF d.toks[from].t = "}" THEN to = from + 1
      ELSE \E k \in from..to :
        /\ ValuePhrase([k |-> "str"], from, from + 1) \in Phrases[d]
        /\ ValuePhrase(ty.val, from + 2, k) \in Phrases[d]
        /\ [p EXCEPT !.from = AfterComma(d.toks, k)] \in Phrases[d]
  BY <1>1, <1>2, Zenon DEF Spelt
<1>6. ASSUME NEW k \in from..to, 
             ValuePhrase([k |-> "str"], from, from + 1) \in Phrases[d],
             ValuePhrase(ty.val, from + 2, k) \in Phrases[d],
             [p EXCEPT !.from = AfterComma(d.toks, k)] \in Phrases[d]
      PROVE  /\ k \in Nat
             /\ Phrase("value", [k |-> "str"], {}, 0, from, from + 1) \in Phrases[d]
             /\ Phrase("value", ty.val, {}, 0, from + 2, k) \in Phrases[d]
             /\ Phrase("map", ty, {}, 0, AfterComma(d.toks, k), to) \in Phrases[d]
  BY <1>3, <1>4, <1>6 DEF ValuePhrase
<1> QED
  BY <1>5, <1>6

\* While the stack reads a document, there are tokens for it.
LEMMA CursorPlanned ==
  ASSUME IInv, NEW pl, Planned(doc, stack, pl, cur)
  PROVE  CursorInDoc
<1> DEFINE n == Len(stack)
           e == Len(doc.toks) + 1
<1>1. /\ stack \in Seq(Frames) /\ n \in Nat /\ doc \in Docs
      /\ Len(doc.toks) \in Nat
  BY DocTokens, LenProperties DEF IInv, Safe
<1>2. /\ cur \in 1..e /\ cur \in Nat /\ e \in Nat
      /\ pl \in Seq(Plans) /\ Len(pl) = n
  BY <1>1 DEF Planned
<1>3. \A i \in 1..n : pl[i] \in Plans /\ pl[i].to \in Nat
  <2>1. \A i \in 1..n : pl[i] \in Plans
    BY <1>1, <1>2, ElementOfSeq
  <2> QED
    BY <2>1 DEF Plans
<1>4. \A i \in 1..n : /\ Follows(doc, stack[i], pl[i], Resumes(stack, pl, cur, i))
                      /\ cur <= pl[i].to /\ pl[i].to <= e
  BY DEF Planned
<1> HIDE DEF n, e
<1>5. ASSUME cur = e, NEW i \in 1..n,
             stack[i].op \in {"value", "struct", "map", "vec", "colon"}
      PROVE  FALSE
  <2> DEFINE c == Resumes(stack, pl, cur, i)
  <2>1. c \in Nat /\ cur <= c
    <3>1. CASE i = n
      BY <1>2, <3>1 DEF Resumes, n
    <3>2. CASE i # n
      <4>1. i + 1 \in 1..n
        BY <1>1, <3>2
      <4> QED
        BY <1>3, <1>4, <3>2, <4>1 DEF Resumes, n
    <3> QED
      BY <3>1, <3>2
  <2>2. c < pl[i].to
    <3> HIDE DEF c
    <3>1. Follows(doc, stack[i], pl[i], c)
      BY <1>4 DEF c
    <3>2. CASE stack[i].op = "colon"
      BY <2>1, <3>1, <3>2 DEF Follows
    <3>3. CASE stack[i].op \in {"value", "vec", "map"}
      BY <1>1, <3>1, <3>3, PhraseRead DEF Follows
    <3>4. CASE stack[i].op = "struct"
      BY <1>1, <3>1, <3>4, PhraseRead DEF Follows
    <3> QED
      BY <1>5, <3>2, <3>3, <3>4
  <2>3. pl[i].to <= e /\ pl[i].to \in Nat
    BY <1>3, <1>4
  <2> HIDE DEF c
  <2> QED
    BY <1>2, <1>5, <2>1, <2>2, <2>3
<1> QED
  BY <1>2, <1>5 DEF CursorInDoc, n, e

-----------------------------------------------------------------------------
(* Helpers about steps.                                                    *)

\* What was on the stack s still is.
OnTop(s, stk) == Len(stk) \in Nat /\ Len(stk) >= Len(s) /\ \A i \in 1..Len(s) : stk[i] = s[i]

\* Memory m2 has the words of m that own blocks, but for what frame f claims.
Plainly(m, m2, f, r) ==
  /\ \A a \in DOMAIN m2 : m2[a].k \in Owning => a \in DOMAIN m /\ m2[a] = m[a]
  /\ \A a \in DOMAIN m : (a \in DOMAIN m2 /\ m2[a] = m[a]) \/ Claims(f, r, a)

\* A frame more on top.
LEMMA OnTopPush ==
  ASSUME NEW s \in Seq(Frames), NEW stk \in Seq(Frames), OnTop(s, stk),
         NEW f \in Frames
  PROVE  /\ OnTop(s, s) /\ OnTop(s, Append(stk, f))
         /\ \A m, b : Unowned(Append(stk, f), m, b)
                        <=> Unowned(stk, m, b) /\ ~Holds(f, b)
<1> DEFINE t == Append(stk, f)
           n == Len(stk)
<1>1. /\ Len(s) \in Nat /\ n \in Nat /\ Len(t) = n + 1 /\ t[n + 1] = f
      /\ \A i \in 1..n : t[i] = stk[i]
  BY LenProperties, AppendProperties
<1> HIDE DEF t
<1>2. OnTop(s, s)
  BY <1>1 DEF OnTop
<1>3. OnTop(s, t)
  <2>1. Len(s) <= n /\ \A i \in 1..Len(s) : stk[i] = s[i]
    BY DEF OnTop
  <2>2. \A i \in 1..Len(s) : i \in 1..n
    BY <1>1, <2>1
  <2> QED
    BY <1>1, <2>1, <2>2 DEF OnTop
<1>4. \A b : (\A i \in 1..Len(t) : ~Holds(t[i], b))
               <=> (\A i \in 1..n : ~Holds(stk[i], b)) /\ ~Holds(f, b)
  <2>1. \A i \in 1..Len(t) : i \in 1..n \/ i = n + 1
    BY <1>1
  <2>2. n + 1 \in 1..Len(t) /\ \A i \in 1..n : i \in 1..Len(t)
    BY <1>1
  <2> QED
    BY <1>1, <2>1, <2>2
<1>5. \A m, b : Unowned(t, m, b) <=> Unowned(stk, m, b) /\ ~Holds(f, b)
  BY <1>4 DEF Unowned
<1> QED
  BY <1>2, <1>3, <1>5 DEF t

\* A step that leaves nothing behind.
LEMMA WholeStep ==
  ASSUME IInv, Whole(doc, stack, cur, mem, heap), stack # <<>>,
         NEW stk, NEW pl, NEW c, NEW m, NEW h,
         OnTop(below, stk), Tidy(doc, stk, pl, c, m),
         \A b : Held(b, h) => Held(b, heap) \/ ~Unowned(stk, m, b),
         \A b : \A a \in DOMAIN mem :
           Owns(mem[a], b) /\ Held(b, h) => ~Unowned(stk, m, b),
         \A b : Holds(top, b) /\ Held(b, h) => ~Unowned(stk, m, b)
  PROVE  Whole(doc, stk, c, m, h)
<1>1. stack \in Seq(Frames) /\ Kept(stack, mem, heap)
  BY DEF IInv, Safe, Whole
<1>2. Kept(stk, m, h)
  BY <1>1, Keeping DEF OnTop, below, top
<1> QED
  BY <1>2 DEF Whole

\* What is owned, after a write where nothing was.
LEMMA PlainWords ==
  ASSUME IInv, NEW q, NEW r, Topped(q, r), NEW m, Plainly(mem, m, top, r)
  PROVE  /\ \A a \in DOMAIN m : m[a].k \in Owning =>
              /\ ~Claims(top, r, a) /\ a \in Spots
              /\ (top.op = "insert" => a[1] # top.key[1]) => Open(below, q, a)
         /\ top.op # "insert" => Tidy(doc, below, q, r.to, m)
         /\ \A b : \A a \in DOMAIN mem : Owns(mem[a], b) =>
              \A stk : ~Unowned(stk, m, b)
<1>1. \A a \in DOMAIN mem : a \in Spots
  BY SpotsOf DEF IInv
<1>2. \A a \in DOMAIN m : m[a].k \in Owning =>
        /\ ~Claims(top, r, a) /\ a \in Spots
        /\ (top.op = "insert" => a[1] # top.key[1]) => Open(below, q, a)
  BY <1>1 DEF Topped, Plainly
<1>3. top.op # "insert" => Tidy(doc, below, q, r.to, m)
  BY <1>2 DEF Topped, Tidy, Vacant
<1>4. \A b : \A a \in DOMAIN mem : Owns(mem[a], b) => \A stk : ~Unowned(stk, m, b)
  BY DEF Topped, Plainly, Unowned, Owns
<1> QED
  BY <1>2, <1>3, <1>4

\* A step that writes words that own nothing, where nothing was.
LEMMA WholePlain ==
  ASSUME IInv, Whole(doc, stack, cur, mem, heap), stack # <<>>,
         NEW q, NEW r, Topped(q, r), NEW m, Plainly(mem, m, top, r),
         NEW stk, NEW pl, NEW c, OnTop(below, stk), Tidy(doc, stk, pl, c, m),
         \A b : Holds(top, b) => ~Unowned(stk, m, b)
  PROVE  Whole(doc, stk, c, m, heap)
<1>1. \A b : \A a \in DOMAIN mem : Owns(mem[a], b) => ~Unowned(stk, m, b)
  BY PlainWords
<1> QED
  BY <1>1, WholeStep

\* A step that ends a frame that owns nothing.
LEMMA PlainPop ==
  ASSUME IInv, Whole(doc, stack, cur, mem, heap), stack # <<>>,
         top.op \notin {"insert", "vec", "box", "drop"},
         NEW q, NEW r, Topped(q, r), NEW m, Plainly(mem, m, top, r)
  PROVE  Whole(doc, below, r.to, m, heap)
<1>1. Tidy(doc, below, q, r.to, m)
  BY PlainWords
<1>2. \A b : ~Holds(top, b)
  BY DEF Holds, Keeps
<1>3. OnTop(below, below)
  <2>1. below \in Seq(Frames)
    BY TopFrame
  <2> QED
    BY <2>1, LenProperties DEF OnTop
<1> QED
  BY <1>1, <1>2, <1>3, WholePlain

\* The memory that there is.
LEMMA PlainSame ==
  ASSUME NEW m, NEW f, NEW r
  PROVE  Plainly(m, m, f, r)
  BY DEF Plainly

-----------------------------------------------------------------------------
(* The steps of the code, each of which reads what is to be read, and loses *)
(* nothing.                                                                *)

\* Numbers and truth values.
LEMMA ScalarsWhole ==
  ASSUME IInv, Whole(doc, stack, cur, mem, heap),
         ParseInt \/ ParseBool \/ ParseChar
  PROVE  Whole(doc, stack', cur', mem', heap')
<1>1. PICK k \in {"int", "bool", "char"} : Reads(k)
  BY DEF ParseInt, ParseBool, ParseChar
<1>2. /\ stack # <<>> /\ top.op = "value" /\ top.ty.k = k
      /\ top.dst \in Places /\ doc \in Docs
  BY <1>1, Reading DEF Reads, In, IInv
<1>3. PICK q, r : Topped(q, r)
  BY <1>2, TopPlan
<1>4. PICK v : /\ mem' = Put(mem, top.dst, Scalar(v))
               /\ stack' = below /\ heap' = heap /\ cur' = cur + 1
  BY DEF ParseInt, ParseBool, ParseChar
<1>5. r.to = cur + 1
  BY <1>2, <1>3, ValueRead DEF Topped, Follows
<1>6. Claims(top, r, top.dst)
  BY <1>2, WithinSelf DEF Claims
<1>7. Plainly(mem, mem', top, r)
  BY <1>4, <1>6 DEF Plainly, Put, Scalar, Owning
<1> QED
  BY <1>2, <1>3, <1>4, <1>5, <1>7, PlainPop

\* What is passed over, and closing brackets.
LEMMA EndsWhole ==
  ASSUME IInv, Whole(doc, stack, cur, mem, heap),
         ParseUnit \/ ParseComma \/ EndStruct \/ EndTuple \/ ParseColon
  PROVE  Whole(doc, stack', cur', mem', heap')
<1>1. stack # <<>> /\ stack' = below /\ mem' = mem /\ heap' = heap /\ doc \in Docs
  BY DEF ParseUnit, ParseComma, EndStruct, EndTuple, ParseColon, Reads, In, IInv
<1>2. PICK q, r : Topped(q, r)
  BY <1>1, TopPlan
<1>3. top.op \in {"value", "comma", "struct", "map", "tuple", "colon"}
  BY DEF ParseUnit, ParseComma, EndStruct, EndTuple, ParseColon, Reads, In
<1>4. Follows(doc, top, r, cur)
  BY <1>2 DEF Topped
<1>5. cur' = r.to
  <2>1. CASE ParseUnit
    BY <1>1, <1>4, <2>1, ValueRead DEF ParseUnit, Reads, In, Follows
  <2>2. CASE ParseComma
    BY <1>4, <2>2 DEF ParseComma, In, Follows
  <2>3. CASE EndStruct
    <3>1. cur' = cur + 1 /\ doc.toks[cur].t = "}"
      BY <2>3 DEF EndStruct, tok
    <3>2. CASE top.op = "struct"
      <4>1. Phrase("struct", top.ty, r.names, 0, cur, r.to) \in Phrases[doc]
        BY <1>4, <3>2 DEF Follows
      <4>2. r.to = cur + 1
        BY <1>1, <3>1, <4>1, StructRead
      <4> QED
        BY <3>1, <4>2
    <3>3. CASE top.op = "map"
      <4>1. Phrase("map", top.ty, {}, 0, cur, r.to) \in Phrases[doc]
        BY <1>4, <3>3 DEF Follows
      <4>2. r.to = cur + 1
        BY <1>1, <3>1, <4>1, MapRead
      <4> QED
        BY <3>1, <4>2
    <3> QED
      BY <2>3, <3>2, <3>3 DEF EndStruct, In
  <2>4. CASE EndTuple
    <3>1. /\ cur' = cur + 1 /\ top.next > Len(top.ty.fields)
          /\ Phrase("tuple", top.ty, {}, top.next, cur, r.to) \in Phrases[doc]
      BY <1>4, <2>4 DEF EndTuple, In, Follows
    <3>2. r.to = cur + 1
      BY <1>1, <3>1, TupleRead
    <3> QED
      BY <3>1, <3>2
  <2>5. CASE ParseColon
    BY <1>4, <2>5 DEF ParseColon, In, Follows
  <2> QED
    BY <2>1, <2>2, <2>3, <2>4, <2>5
<1> QED
  BY <1>1, <1>2, <1>3, <1>5, PlainSame, PlainPop

\* None is a word in place of the payload.
LEMMA NoneWhole ==
  ASSUME IInv, Whole(doc, stack, cur, mem, heap), ParseNone
  PROVE  Whole(doc, stack', cur', mem', heap')
<1>1. /\ stack # <<>> /\ top.op = "value" /\ top.ty.k = "opt"
      /\ top.dst \in Places /\ doc \in Docs
  BY Reading DEF ParseNone, Reads, In, IInv
<1>2. PICK q, r : Topped(q, r)
  BY <1>1, TopPlan
<1>3. /\ mem' = Put(Clear(mem, top.dst), top.dst, None)
      /\ stack' = below /\ heap' = heap /\ cur' = cur + 1 /\ tok.t = "null"
  BY DEF ParseNone
<1>4. r.to = cur + 1
  BY <1>1, <1>2, <1>3, ValueRead DEF Topped, Follows, tok
<1>5. \A a : Within(a, top.dst) => Claims(top, r, a)
  BY <1>1 DEF Claims
<1>6. Plainly(mem, mem', top, r)
  BY <1>1, <1>3, <1>5, WithinSelf DEF Plainly, Put, Clear, None, Owning
<1> QED
  BY <1>1, <1>2, <1>3, <1>4, <1>6, PlainPop

\* The tag comes after the payload.
LEMMA TagWhole ==
  ASSUME IInv, Whole(doc, stack, cur, mem, heap), StoreTag
  PROVE  Whole(doc, stack', cur', mem', heap')
<1>1. stack # <<>> /\ top.op = "tag"
  BY DEF StoreTag, In
<1>2. PICK q, r : Topped(q, r)
  BY <1>1, TopPlan
<1>3. /\ mem' = Put(mem, top.dst, [k |-> "some"])
      /\ stack' = below /\ heap' = heap /\ cur' = cur
  BY DEF StoreTag
<1>4. r.to = cur
  BY <1>1, <1>2 DEF Topped, Follows
<1>5. Claims(top, r, top.dst)
  BY <1>1 DEF Claims
<1>6. Plainly(mem, mem', top, r)
  BY <1>3, <1>5 DEF Plainly, Put, Owning
<1> QED
  BY <1>1, <1>2, <1>3, <1>4, <1>6, PlainPop

\* A value comes next.
LEMMA TidyValue ==
  ASSUME NEW d \in Docs,
         NEW stk \in Seq(Frames), NEW pl, NEW e, NEW m, Tidy(d, stk, pl, e, m),
         NEW ty \in Types, NEW dst \in Places, NEW r \in Plans, r.to = e,
         NEW c, Phrase("value", ty, {}, 0, c, e) \in Phrases[d],
         \A a \in Spots : Within(a, dst) => Open(stk, pl, a),
         \A a \in DOMAIN m : m[a].k \in Owning => ~Within(a, dst)
  PROVE  /\ Tidy(d, Append(stk, Value(ty, dst)), Append(pl, r), c, m)
         /\ Append(stk, Value(ty, dst)) \in Seq(Frames)
         /\ Value(ty, dst) \in Frames
         /\ \A a : Open(stk, pl, a) /\ ~Within(a, dst)
                     => Open(Append(stk, Value(ty, dst)), Append(pl, r), a)
<1> DEFINE f == Value(ty, dst)
<1>1. f \in Frames /\ f.op = "value" /\ f.ty = ty /\ f.dst = dst
  BY ValueFrame
<1> HIDE DEF f
<1>2. c \in Nat \ {0} /\ c <= e
  BY PhraseRead
<1>3. Follows(d, f, r, c)
  BY <1>1 DEF Follows
<1>4. \A a \in Spots : Reaches(f, a) => Open(stk, pl, a)
  BY <1>1 DEF Reaches, OfMap
<1>5. \A a : Claims(f, r, a) => Within(a, dst)
  BY <1>1 DEF Claims
<1>6. Len(d.toks) \in Nat
  BY DocAssumption, LenProperties
<1> QED
  BY <1>1, <1>2, <1>3, <1>4, <1>5, <1>6, TidyPush DEF f

\* A comma comes next, or a colon.
LEMMA TidyMark ==
  ASSUME NEW d \in Docs,
         NEW stk \in Seq(Frames), NEW pl, NEW e, NEW m, Tidy(d, stk, pl, e, m),
         NEW f \in {Comma, Colon}, NEW c \in Nat \ {0},
         f.op = "comma" => e = AfterComma(d.toks, c),
         f.op = "colon" => e = c + 1
  PROVE  LET r == [names |-> {}, to |-> e] IN
         /\ Tidy(d, Append(stk, f), Append(pl, r), c, m)
         /\ Append(stk, f) \in Seq(Frames)
         /\ \A a : ~Claims(f, r, a)
         /\ \A a : Open(stk, pl, a) => Open(Append(stk, f), Append(pl, r), a)
<1> DEFINE r == [names |-> {}, to |-> e]
<1>1. f \in Frames /\ f.op \in {"comma", "colon"}
  BY MarkFrame
<1>2. e \in Nat /\ c <= e
  BY <1>1, CommaRead
<1>3. r \in Plans /\ r.to = e
  BY <1>2 DEF Plans
<1> HIDE DEF r
<1>4. Follows(d, f, r, c)
  BY <1>1, <1>3 DEF Follows
<1>5. \A a : ~Reaches(f, a) /\ ~Claims(f, r, a)
  BY <1>1 DEF Reaches, Placed, Claims
<1>6. Len(d.toks) \in Nat
  BY DocAssumption, LenProperties
<1>7. /\ Tidy(d, Append(stk, f), Append(pl, r), c, m)
      /\ Append(stk, f) \in Seq(Frames)
      /\ \A a : Open(stk, pl, a) => Open(Append(stk, f), Append(pl, r), a)
  BY <1>1, <1>2, <1>3, <1>4, <1>5, <1>6, TidyPush
<1> QED
  BY <1>5, <1>7 DEF r

\* The value on top.
LEMMA TopValue ==
  ASSUME IInv, Whole(doc, stack, cur, mem, heap), NEW k, Reads(k), k # "unit",
         NEW q, NEW r, Topped(q, r)
  PROVE  /\ stack # <<>> /\ doc \in Docs /\ below \in Seq(Frames)
         /\ top.op = "value" /\ top.ty.k = k /\ top.ty \in Types
         /\ top.dst \in Places /\ top.dst \in Spots
         /\ Phrase("value", top.ty, {}, 0, cur, r.to) \in Phrases[doc]
         /\ r \in Plans /\ r.to \in Nat /\ cur \in Nat \ {0}
         /\ Tidy(doc, below, q, r.to, mem)
         /\ \A a \in Spots : Within(a, top.dst) => Open(below, q, a)
         /\ \A a \in DOMAIN mem : mem[a].k \in Owning => ~Within(a, top.dst)
         /\ \A b : ~Holds(top, b)
<1>1. /\ stack # <<>> /\ doc \in Docs /\ top.op = "value" /\ top.ty.k = k
  BY DEF Reads, In, IInv
<1>2. /\ Writable(top.dst, below, heap) /\ Safe(below, mem, heap)
      /\ top.ty \in Types /\ below \in Seq(Frames) /\ top.dst \in Places
  BY Reading
<1>3. top.dst \in Spots
  BY <1>2, SpotsOf
<1>4. Tidy(doc, below, q, r.to, mem)
  BY <1>1, PlainSame, PlainWords
<1>5. \A a \in Spots : Within(a, top.dst) => Open(below, q, a)
  BY <1>1 DEF Topped, Reaches, Placed
<1>6. \A a \in DOMAIN mem : mem[a].k \in Owning => ~Within(a, top.dst)
  BY <1>1 DEF Topped, Claims
<1>7. /\ Phrase("value", top.ty, {}, 0, cur, r.to) \in Phrases[doc]
      /\ r \in Plans /\ r.to \in Nat /\ cur \in Nat \ {0}
  BY <1>1 DEF Topped, Follows, Plans
<1>8. \A b : ~Holds(top, b)
  BY <1>1 DEF Holds, Keeps
<1> QED
  BY <1>1, <1>2, <1>3, <1>4, <1>5, <1>6, <1>7, <1>8

\* The function of a recursive type reads to the same place.
LEMMA RefWhole ==
  ASSUME IInv, Whole(doc, stack, cur, mem, heap), CallRef
  PROVE  Whole(doc, stack', cur', mem', heap')
<1> DEFINE ty == Cells[top.ty.cell]
           v == Value(ty, top.dst)
<1>1. stack # <<>> /\ Reads("ref")
  BY DEF CallRef, Reads, In
<1>2. PICK q, r : Topped(q, r)
  BY <1>1, TopPlan
<1>3. /\ stack' = Append(below, v) /\ mem' = mem /\ heap' = heap /\ cur' = cur
  BY DEF CallRef
<1>4. /\ doc \in Docs /\ below \in Seq(Frames)
      /\ top.ty \in Types /\ top.ty.k = "ref" /\ top.dst \in Places
      /\ Phrase("value", top.ty, {}, 0, cur, r.to) \in Phrases[doc]
      /\ r \in Plans /\ Tidy(doc, below, q, r.to, mem)
      /\ \A a \in Spots : Within(a, top.dst) => Open(below, q, a)
      /\ \A a \in DOMAIN mem : mem[a].k \in Owning => ~Within(a, top.dst)
      /\ \A b : ~Holds(top, b)
  BY <1>1, <1>2, TopValue
<1>5. ty \in Types /\ Phrase("value", ty, {}, 0, cur, r.to) \in Phrases[doc]
  BY <1>4, TypeAssumption, ValueRead
<1> HIDE DEF ty
<1>6. Tidy(doc, Append(below, v), Append(q, r), cur, mem) /\ v \in Frames
  BY <1>4, <1>5, TidyValue
<1> HIDE DEF v
<1>7. OnTop(below, Append(below, v))
  BY <1>4, <1>6, OnTopPush DEF OnTop
<1> QED
  BY <1>1, <1>2, <1>3, <1>4, <1>6, <1>7, PlainSame, WholePlain

\* The payload of Some is read in place, or behind a tag.
LEMMA SomeWhole ==
  ASSUME IInv, Whole(doc, stack, cur, mem, heap), ParseSome
  PROVE  Whole(doc, stack', cur', mem', heap')
<1> DEFINE p == top.dst
           ty == top.ty.inner
           t == [op |-> "tag", dst |-> p]
           v == Value(ty, p)
           w == Value(ty, Part(p, 0))
<1>1. stack # <<>> /\ Reads("opt") /\ tok.t # "null"
  BY DEF ParseSome, Reads, In
<1>2. PICK q, r : Topped(q, r)
  BY <1>1, TopPlan
<1>3. /\ stack' = IF top.ty.niche THEN Append(below, v) ELSE below \o <<t, w>>
      /\ mem' = mem /\ heap' = heap /\ cur' = cur
  BY DEF ParseSome
<1>4. /\ doc \in Docs /\ below \in Seq(Frames)
      /\ top.ty \in Types /\ top.ty.k = "opt" /\ p \in Places /\ p[2] # <<>>
      /\ Phrase("value", top.ty, {}, 0, cur, r.to) \in Phrases[doc]
      /\ r \in Plans /\ r.to \in Nat /\ cur \in Nat \ {0}
      /\ Tidy(doc, below, q, r.to, mem)
      /\ \A a \in Spots : Within(a, p) => Open(below, q, a)
      /\ \A a \in DOMAIN mem : mem[a].k \in Owning => ~Within(a, p)
      /\ \A b : ~Holds(top, b)
  BY <1>1, <1>2, TopValue DEF Spots
<1>5. ty \in Types /\ Phrase("value", ty, {}, 0, cur, r.to) \in Phrases[doc]
  BY <1>1, <1>4, TypeAssumption, ValueRead DEF tok
<1> HIDE DEF ty, p
<1>6. CASE top.ty.niche
  <2>1. Tidy(doc, Append(below, v), Append(q, r), cur, mem) /\ v \in Frames
    BY <1>4, <1>5, TidyValue
  <2> HIDE DEF v
  <2>2. OnTop(below, Append(below, v))
    BY <1>4, <2>1, OnTopPush DEF OnTop
  <2> QED
    BY <1>1, <1>2, <1>3, <1>4, <1>6, <2>1, <2>2, PlainSame, WholePlain
<1>7. CASE ~top.ty.niche
  <2> DEFINE s == Append(below, t)
  <2>1. t \in Frames /\ t.op = "tag" /\ t.dst = p
    BY <1>4 DEF Frames
  <2>2. /\ Part(p, 0) \in Places
        /\ \A a \in Places : Within(a, Part(p, 0)) => Within(a, p) /\ a # p
    BY <1>4, PartPlace, WithinPart
  <2>3. stack' = Append(Append(below, t), w)
    BY <1>3, <1>4, <1>5, <1>7, <2>1, <2>2, ValueFrame, PushedTwo
  <2> HIDE DEF t, w
  <2>4. \A a : Reaches(t, a) => Within(a, p)
    BY <2>1 DEF Reaches, OfMap
  <2>5. \A a : Claims(t, r, a) => a = p
    BY <2>1 DEF Claims
  <2>6. Follows(doc, t, r, r.to)
    BY <2>1 DEF Follows
  <2>7. r.to \in Nat \ {0}
    BY <1>4, PhraseRead
  <2>8. Within(p, p)
    BY <1>4, WithinSelf
  <2>9. Len(doc.toks) \in Nat
    BY DocTokens
  <2>10. /\ Tidy(doc, s, Append(q, r), r.to, mem)
         /\ s \in Seq(Frames)
         /\ \A a : Open(below, q, a) /\ ~Claims(t, r, a) => Open(s, Append(q, r), a)
    BY <1>4, <2>1, <2>4, <2>5, <2>6, <2>7, <2>8, <2>9, TidyPush
  <2>11. OnTop(below, s)
    BY <1>4, <2>1, OnTopPush DEF OnTop
  <2> HIDE DEF s
  <2>12. \A a \in DOMAIN mem : a \in Spots
    BY SpotsOf DEF IInv
  <2>13. /\ Tidy(doc, Append(s, w), Append(Append(q, r), r), cur, mem)
         /\ w \in Frames
    <3>1. \A a \in Spots : Within(a, Part(p, 0)) => Open(s, Append(q, r), a)
      BY <1>4, <2>2, <2>5, <2>10 DEF Spots
    <3>2. \A a \in DOMAIN mem : mem[a].k \in Owning => ~Within(a, Part(p, 0))
      BY <1>4, <2>2, <2>12 DEF Spots
    <3> QED
      BY <1>4, <1>5, <2>2, <2>10, <3>1, <3>2, TidyValue DEF w
  <2>14. OnTop(below, Append(s, w))
    BY <1>4, <2>10, <2>11, <2>13, OnTopPush
  <2> QED
    BY <1>1, <1>2, <1>3, <1>4, <2>3, <2>13, <2>14, PlainSame, WholePlain DEF s
<1> QED
  BY <1>6, <1>7

\* A word is stored that owns what the code has owned till then.
LEMMA StoredWhole ==
  ASSUME IInv, Whole(doc, stack, cur, mem, heap), stack # <<>>,
         NEW q, NEW r, Topped(q, r), top.op \in {"value", "box", "vec"},
         top.dst \in Spots, NEW m, Plainly(mem, m, top, r), NEW w, NEW h,
         \A b : Held(b, h) => Held(b, heap) \/ Owns(w, b),
         \A b : Holds(top, b) => Owns(w, b)
  PROVE  Whole(doc, below, r.to, Put(m, top.dst, w), h)
<1> DEFINE p == top.dst
           m2 == Put(m, p, w)
<1>1. /\ DOMAIN m2 = DOMAIN m \union {p} /\ m2[p] = w
      /\ \A a \in DOMAIN m : a # p => m2[a] = m[a]
  BY DEF Put
<1> HIDE DEF m2
<1>2. Claims(top, r, p)
  BY WithinSelf DEF Claims, Spots
<1>3. Open(below, q, p)
  BY WithinSelf DEF Topped, Reaches, Placed, Spots
<1>4. Tidy(doc, below, q, r.to, m)
  BY PlainWords
<1>5. Tidy(doc, below, q, r.to, m2)
  <2>1. \A a \in DOMAIN m2 : m2[a].k \in Owning => Open(below, q, a)
    BY <1>1, <1>3, <1>4 DEF Tidy, Vacant
  <2> QED
    BY <1>4, <2>1, TidyWords
<1>6. \A b : Owns(w, b) => ~Unowned(below, m2, b)
  BY <1>1 DEF Unowned
<1>7. \A b : \A a \in DOMAIN mem : Owns(mem[a], b) => ~Unowned(below, m2, b)
  <2> SUFFICES ASSUME NEW b, NEW a \in DOMAIN mem, Owns(mem[a], b)
               PROVE  ~Unowned(below, m2, b)
    OBVIOUS
  <2>1. ~Claims(top, r, a) /\ a # p
    BY <1>2 DEF Topped, Owns
  <2>2. a \in DOMAIN m2 /\ m2[a] = mem[a]
    BY <1>1, <2>1 DEF Plainly
  <2> QED
    BY <2>2 DEF Unowned
<1>8. OnTop(below, below)
  <2>1. below \in Seq(Frames)
    BY TopFrame
  <2> QED
    BY <2>1, LenProperties DEF OnTop
<1>9. Whole(doc, below, r.to, m2, h)
  BY <1>5, <1>6, <1>7, <1>8, WholeStep
<1> QED
  BY <1>9 DEF m2

\* The place of a frame that has begun to write.
LEMMA WritingSpot ==
  ASSUME IInv, stack # <<>>, Placed(top), top.op \notin {"value", "insert"}
  PROVE  top.dst \in Spots /\ top.dst \in Places
<1>1. Writable(top.dst, below, heap) /\ Safe(below, mem, heap) /\ top.dst \in Places
  BY Writing, TopFrame
<1> QED
  BY <1>1, SpotsOf

\* The block that the code owned is the word's.
LEMMA BoxKept ==
  ASSUME IInv, Whole(doc, stack, cur, mem, heap), StoreBox
  PROVE  Whole(doc, stack', cur', mem', heap')
<1> DEFINE w == [k |-> "box", ptr |-> top.ptr]
<1>1. stack # <<>> /\ top.op = "box" /\ Placed(top)
  BY DEF StoreBox, In, Placed
<1>2. PICK q, r : Topped(q, r)
  BY <1>1, TopPlan
<1>3. mem' = Put(mem, top.dst, w) /\ stack' = below /\ heap' = heap /\ cur' = cur
  BY DEF StoreBox
<1>4. r.to = cur
  BY <1>1, <1>2 DEF Topped, Follows
<1>5. \A b : Holds(top, b) => Owns(w, b)
  BY <1>1 DEF Holds, Keeps, Owns, Owning
<1>6. top.dst \in Spots
  BY <1>1, WritingSpot
<1> HIDE DEF w
<1> QED
  BY <1>1, <1>2, <1>3, <1>4, <1>5, <1>6, PlainSame, StoredWhole

\* The buffer is the word's.
LEMMA VecKept ==
  ASSUME IInv, Whole(doc, stack, cur, mem, heap), EndVec
  PROVE  Whole(doc, stack', cur', mem', heap')
<1> DEFINE w == SeqWord(top.base, top.cap, top.len)
<1>1. stack # <<>> /\ top.op = "vec" /\ Placed(top) /\ doc \in Docs
  BY DEF EndVec, In, Placed, IInv
<1>2. PICK q, r : Topped(q, r)
  BY <1>1, TopPlan
<1>3. /\ mem' = Put(mem, top.dst, w) /\ stack' = below /\ heap' = heap
      /\ cur' = cur + 1 /\ doc.toks[cur].t = "]"
  BY DEF EndVec, tok
<1>4. r.to = cur + 1
  <2>1. Phrase("vec", top.ty, {}, 0, cur, r.to) \in Phrases[doc]
    BY <1>1, <1>2 DEF Topped, Follows
  <2> QED
    BY <1>1, <1>3, <2>1, VecRead
<1>5. \A b : Holds(top, b) => Owns(w, b)
  BY <1>1 DEF Holds, Keeps, Owns, Owning, SeqWord
<1>6. top.dst \in Spots
  BY <1>1, WritingSpot
<1> HIDE DEF w
<1> QED
  BY <1>1, <1>2, <1>3, <1>4, <1>5, <1>6, PlainSame, StoredWhole

\* A String owns its buffer.
LEMMA StrWhole ==
  ASSUME IInv, Whole(doc, stack, cur, mem, heap), ParseStr
  PROVE  Whole(doc, stack', cur', mem', heap')
<1> DEFINE n == Len(tok.v)
           b == IF n = 0 THEN Null ELSE Len(heap) + 1
           m == Fill(mem, BuildStr(b, tok.v))
           w == SeqWord(b, n, n)
<1>1. stack # <<>> /\ Reads("str")
  BY DEF ParseStr, Reads, In
<1>2. PICK q, r : Topped(q, r)
  BY <1>1, TopPlan
<1>3. /\ mem' = Put(m, top.dst, w) /\ stack' = below
      /\ heap' = IF n = 0 THEN heap ELSE Append(heap, Block(n))
      /\ cur' = cur + 1
  BY DEF ParseStr
<1>4. /\ top.op = "value" /\ top.ty.k = "str" /\ top.dst \in Spots /\ doc \in Docs
      /\ Phrase("value", top.ty, {}, 0, cur, r.to) \in Phrases[doc]
      /\ \A c : ~Holds(top, c)
  BY <1>1, <1>2, TopValue
<1>5. r.to = cur + 1
  BY <1>4, ValueRead
<1>6. heap \in Seq(BlockRecs) /\ Len(heap) \in Nat
  BY LenProperties DEF IInv, Safe
<1>7. \A a \in DOMAIN mem : a[1] \in 1..Len(heap) /\ a \in Spots
  BY SpotsOf DEF IInv, Safe, MemOK, Inside
<1>8. \A a \in DOMAIN mem : a[1] # b
  BY <1>6, <1>7 DEF Spots
<1>9. Plainly(mem, m, top, r)
  <2>1. /\ \A a \in DOMAIN m :
             \/ a \in DOMAIN mem /\ m[a] = mem[a]
             \/ m[a].k = "scalar"
        /\ \A a \in DOMAIN mem : a[1] # b => a \in DOMAIN m /\ m[a] = mem[a]
    BY DEF Fill, BuildStr, Scalar, At
  <2> HIDE DEF m, b
  <2> QED
    BY <1>8, <2>1 DEF Plainly, Owning
<1>10. \A c : Held(c, heap') => Held(c, heap) \/ Owns(w, c)
  <2>1. CASE n = 0
    BY <1>3, <2>1
  <2>2. CASE n # 0
    <3> DEFINE h == Append(heap, Block(n))
    <3>1. Len(h) = Len(heap) + 1 /\ \A c \in 1..Len(heap) : h[c] = heap[c]
      BY <1>6, AppendProperties, LenProperties
    <3>2. \A c \in 1..Len(h) : c \in 1..Len(heap) \/ c = Len(heap) + 1
      BY <1>6, <3>1
    <3>3. Owns(w, Len(heap) + 1)
      BY <2>2 DEF Owns, SeqWord, Owning
    <3> HIDE DEF h, w
    <3>4. heap' = h
      BY <1>3, <2>2 DEF h
    <3> QED
      BY <3>1, <3>2, <3>3, <3>4 DEF Held
  <2> QED
    BY <2>1, <2>2
<1> HIDE DEF m, w
<1> QED
  BY <1>1, <1>2, <1>3, <1>4, <1>5, <1>9, <1>10, StoredWhole

\* A phrase's names may be planned for.
LEMMA PhrasePlan ==
  ASSUME NEW d \in Docs, NEW op, NEW ty, NEW names, NEW next, NEW from, NEW to,
         Phrase(op, ty, names, next, from, to) \in Phrases[d]
  PROVE  [names |-> names, to |-> to] \in Plans /\ [names |-> {}, to |-> to] \in Plans
<1>1. to \in Nat
  BY PhraseRead
<1>2. Phrase(op, ty, names, next, from, to).names = names
  BY DEF Phrase
<1> QED
  BY <1>1, <1>2 DEF Plans

\* Who has to free what, when a block is allocated.
LEMMA HeldThen ==
  ASSUME NEW h \in Seq(BlockRecs), NEW r \in BlockRecs
  PROVE  /\ \A b : Held(b, Append(h, r)) => Held(b, h) \/ b = Len(h) + 1
         /\ r.slot => \A b : Held(b, Append(h, r)) => Held(b, h)
<1> DEFINE g == Append(h, r)
<1>1. /\ Len(h) \in Nat /\ Len(g) = Len(h) + 1 /\ g[Len(h) + 1] = r
      /\ \A b \in 1..Len(h) : g[b] = h[b]
  BY AppendProperties, LenProperties
<1> HIDE DEF g
<1>2. \A b \in 1..Len(g) : b \in 1..Len(h) \/ b = Len(h) + 1
  BY <1>1
<1>3. \A b : Held(b, g) => Held(b, h) \/ b = Len(h) + 1
  BY <1>1, <1>2 DEF Held
<1>4. r.slot => ~Held(Len(h) + 1, g)
  BY <1>1 DEF Held
<1> QED
  BY <1>3, <1>4 DEF g

\* A Box's value is read to a block that the code owns till then.
LEMMA BoxWhole ==
  ASSUME IInv, Whole(doc, stack, cur, mem, heap), ParseBox
  PROVE  Whole(doc, stack', cur', mem', heap')
<1> DEFINE p == top.dst
           ty == top.ty.inner
           b == IF ZeroSized(ty) THEN Null ELSE Len(heap) + 1
           f == [op |-> "box", dst |-> p, ptr |-> b]
           v == Value(ty, At(b, 0))
           s == Append(below, f)
<1>1. stack # <<>> /\ Reads("box")
  BY DEF ParseBox, Reads, In
<1>2. PICK q, r : Topped(q, r)
  BY <1>1, TopPlan
<1>3. /\ stack' = below \o <<f, v>> /\ mem' = mem /\ cur' = cur
      /\ heap' = IF b = Null THEN heap ELSE Append(heap, Block(1))
  BY DEF ParseBox
<1>4. /\ doc \in Docs /\ below \in Seq(Frames)
      /\ top.ty \in Types /\ top.ty.k = "box" /\ p \in Places
      /\ Phrase("value", top.ty, {}, 0, cur, r.to) \in Phrases[doc]
      /\ r \in Plans /\ r.to \in Nat /\ cur \in Nat \ {0}
      /\ Tidy(doc, below, q, r.to, mem)
      /\ \A a \in Spots : Within(a, p) => Open(below, q, a)
      /\ \A a \in DOMAIN mem : mem[a].k \in Owning => ~Within(a, p)
      /\ \A c : ~Holds(top, c)
  BY <1>1, <1>2, TopValue
<1>5. ty \in Types /\ Phrase("value", ty, {}, 0, cur, r.to) \in Phrases[doc]
  BY <1>4, TypeAssumption, ValueRead
<1>6. heap \in Seq(BlockRecs) /\ Len(heap) \in Nat /\ Block(1) \in BlockRecs
  BY LenProperties DEF IInv, Safe, Block, BlockRecs
<1>7. Writable(p, below, heap) /\ Safe(below, mem, heap)
  BY <1>1, Reading
<1>8. p[1] \in 1..Len(heap)
  BY <1>7 DEF Writable, Inside
<1>9. /\ b \in Nat /\ (b # Null => b \notin 1..Len(heap) /\ b = Len(heap) + 1)
      /\ b # p[1]
  BY <1>6, <1>8 DEF Null
<1>10. \A a \in DOMAIN mem : a \in Spots /\ a[1] # b
  <2>1. \A a \in DOMAIN mem : a \in Spots /\ a[1] \in 1..Len(heap)
    BY SpotsOf DEF IInv, Safe, MemOK, Inside
  <2> HIDE DEF b
  <2> QED
    BY <1>9, <2>1 DEF Spots
<1> HIDE DEF ty, p, b
<1>11. \A a \in Spots : a[1] = b => Open(below, q, a)
  BY <1>7, <1>9, FreshOpen DEF Spots
<1>12. f \in Frames /\ f.op = "box" /\ f.dst = p /\ f.ptr = b
  BY <1>4, <1>9 DEF Frames
<1>13. At(b, 0) \in Places /\ \A a : Within(a, At(b, 0)) => a[1] = b
  BY <1>9, AtPlace DEF Within
<1>14. v \in Frames
  BY <1>5, <1>13, ValueFrame
<1>15. stack' = Append(s, v)
  BY <1>3, <1>4, <1>12, <1>14, PushedTwo
<1> HIDE DEF f, v
<1>16. /\ \A a : Claims(f, r, a) => Within(a, p)
       /\ \A a : Reaches(f, a) => Within(a, p) \/ a[1] = b
       /\ Follows(doc, f, r, r.to) /\ Keeps(f, b)
  BY <1>12 DEF Claims, Reaches, OfMap, Follows, Keeps
<1>17. r.to \in Nat \ {0} /\ Len(doc.toks) \in Nat
  BY <1>4, PhraseRead, DocTokens
<1>18. /\ Tidy(doc, s, Append(q, r), r.to, mem) /\ s \in Seq(Frames)
       /\ \A a : Open(below, q, a) /\ ~Claims(f, r, a) => Open(s, Append(q, r), a)
  BY <1>4, <1>11, <1>12, <1>16, <1>17, TidyPush
<1>19. OnTop(below, s) /\ \A c : Holds(f, c) => ~Unowned(s, mem, c)
  BY <1>4, <1>12, OnTopPush DEF OnTop
<1> HIDE DEF s
<1>20. \A a \in Spots : a[1] = b => Open(s, Append(q, r), a)
  BY <1>9, <1>11, <1>16, <1>18 DEF Within
<1>21. Tidy(doc, Append(s, v), Append(Append(q, r), r), cur, mem)
  BY <1>4, <1>5, <1>10, <1>13, <1>18, <1>20, TidyValue DEF v
<1>22. OnTop(below, Append(s, v))
       /\ \A c : Holds(f, c) => ~Unowned(Append(s, v), mem, c)
  BY <1>4, <1>14, <1>18, <1>19, OnTopPush
<1>23. \A c : Held(c, heap') => Held(c, heap) \/ c = b
  BY <1>3, <1>6, <1>9, HeldThen
<1>24. \A c : \A a \in DOMAIN mem : Owns(mem[a], c) => ~Unowned(Append(s, v), mem, c)
  BY DEF Unowned
<1> QED
  BY <1>1, <1>3, <1>4, <1>15, <1>16, <1>21, <1>22, <1>23, <1>24, WholeStep DEF Holds

\* A value is entered: what its frame claims is in the value's place.
LEMMA Entered ==
  ASSUME IInv, Whole(doc, stack, cur, mem, heap), NEW k, Reads(k), k # "unit",
         NEW q, NEW r, Topped(q, r), NEW m, Plainly(mem, m, top, r),
         NEW f \in Frames, NEW names, NEW next, NEW c,
         Phrase(f.op, f.ty, names, next, c, r.to) \in Phrases[doc],
         Follows(doc, f, [names |-> names, to |-> r.to], c),
         \A a \in Spots :
           Reaches(f, a) \/ Claims(f, [names |-> names, to |-> r.to], a)
             => Within(a, top.dst)
  PROVE  Whole(doc, Append(below, f), c, m, heap)
<1> DEFINE r2 == [names |-> names, to |-> r.to]
<1>1. /\ stack # <<>> /\ doc \in Docs /\ below \in Seq(Frames)
      /\ top.op = "value"
      /\ \A a \in Spots : Within(a, top.dst) => Open(below, q, a)
      /\ \A b : ~Holds(top, b)
  BY TopValue
<1>2. r2 \in Plans /\ c \in Nat \ {0} /\ c <= r.to
  <2>1. r2 \in Plans
    BY <1>1, PhrasePlan
  <2> HIDE DEF r2
  <2>2. c \in Nat \ {0} /\ r.to \in Nat /\ c < r.to
    BY <1>1, PhraseRead
  <2> QED
    BY <2>1, <2>2
<1>3. /\ Tidy(doc, below, q, r.to, m)
      /\ \A a \in DOMAIN m : m[a].k \in Owning => a \in Spots /\ ~Claims(top, r, a)
  BY <1>1, PlainWords
<1>4. \A a \in DOMAIN m : m[a].k \in Owning => ~Within(a, top.dst)
  BY <1>1, <1>3 DEF Claims
<1>5. Len(doc.toks) \in Nat /\ r2.to = r.to
  BY DocTokens
<1> HIDE DEF r2
<1>6. \A a \in DOMAIN m : m[a].k \in Owning => ~Claims(f, r2, a)
  BY <1>3, <1>4 DEF r2
<1>7. \A a \in Spots : Reaches(f, a) => Open(below, q, a)
  BY <1>1
<1>8. Follows(doc, f, r2, c)
  BY DEF r2
<1>9. Tidy(doc, Append(below, f), Append(q, r2), c, m)
  BY <1>1, <1>2, <1>3, <1>5, <1>6, <1>7, <1>8, TidyPush
<1>10. OnTop(below, Append(below, f))
  BY <1>1, OnTopPush DEF OnTop
<1> QED
  BY <1>1, <1>9, <1>10, WholePlain

\* The members of a struct are what it may write to, by their names.
LEMMA StructWhole ==
  ASSUME IInv, Whole(doc, stack, cur, mem, heap), EnterStruct
  PROVE  Whole(doc, stack', cur', mem', heap')
<1> DEFINE p == top.dst
           ty == top.ty
           f == [op |-> "struct", ty |-> ty, dst |-> p]
           names == FieldNames(ty)
           opts == {Part(p, i) : i \in {j \in 1..Len(ty.fields) :
                                          ty.fields[j].ty.k = "opt"}}
           kept == {a \in DOMAIN mem : \A o \in opts : ~Within(a, o)}
<1>1. stack # <<>> /\ Reads("struct")
  BY DEF EnterStruct, Reads, In
<1>2. PICK q, r : Topped(q, r)
  BY <1>1, TopPlan
<1>3. /\ mem' = [a \in kept \union opts |-> IF a \in opts THEN None ELSE mem[a]]
      /\ stack' = Append(below, f) /\ cur' = cur + 1 /\ heap' = heap
  BY DEF EnterStruct
<1>4. /\ doc \in Docs /\ ty \in Types /\ ty.k = "struct" /\ p \in Places
      /\ Phrase("value", ty, {}, 0, cur, r.to) \in Phrases[doc]
      /\ top.op = "value"
  BY <1>1, <1>2, TopValue
<1>5. Len(ty.fields) \in Nat
  BY <1>4, TypeAssumption
<1> HIDE DEF p, ty
<1>6. Phrase("struct", ty, names, 0, cur + 1, r.to) \in Phrases[doc]
  BY <1>4, ValueRead
<1>7. f \in Frames /\ f.op = "struct" /\ f.ty = ty /\ f.dst = p
  BY <1>4 DEF Frames
<1> HIDE DEF f, names
<1>8. \A a \in Places : \A i \in 1..Len(ty.fields) : Within(a, Part(p, i)) => Within(a, p)
  BY <1>4, <1>5, WithinPart
<1>9. \A a : Within(a, p) => Claims(top, r, a)
  BY <1>4 DEF Claims, p
<1>10. \A a \in DOMAIN mem : a \in Places
  BY DEF IInv, Safe, MemOK, Inside
<1>11. Plainly(mem, mem', top, r)
  <2>1. \A a \in DOMAIN mem : a \in kept \/ Within(a, p)
    BY <1>8, <1>10
  <2>2. ASSUME NEW o \in opts PROVE o \in DOMAIN mem => Within(o, p)
    <3>1. PICK i \in 1..Len(ty.fields) : o = Part(p, i)
      OBVIOUS
    <3> QED
      BY <1>8, <1>10, <3>1, WithinSelf
  <2> HIDE DEF opts
  <2>3. \A a \in DOMAIN mem' :
          \/ a \in opts /\ mem'[a] = None
          \/ a \in DOMAIN mem /\ mem'[a] = mem[a]
    BY <1>3
  <2>4. \A a \in DOMAIN mem :
          \/ a \in DOMAIN mem' /\ mem'[a] = mem[a]
          \/ Within(a, p)
    BY <1>3, <2>1, <2>2
  <2> QED
    BY <1>9, <2>3, <2>4 DEF Plainly, None, Owning
<1>12. Follows(doc, f, [names |-> names, to |-> r.to], cur + 1)
  BY <1>6, <1>7 DEF Follows
<1>13. \A a \in Spots :
         Reaches(f, a) \/ Claims(f, [names |-> names, to |-> r.to], a)
           => Within(a, p)
  BY <1>7, <1>8 DEF Reaches, OfMap, Claims, Spots
<1> QED
  BY <1>1, <1>2, <1>3, <1>6, <1>7, <1>11, <1>12, <1>13, Entered DEF p

\* The items of a tuple are what it may write to.
LEMMA TupleWhole ==
  ASSUME IInv, Whole(doc, stack, cur, mem, heap), EnterTuple
  PROVE  Whole(doc, stack', cur', mem', heap')
<1> DEFINE p == top.dst
           ty == top.ty
           f == [op |-> "tuple", ty |-> ty, dst |-> p, next |-> 1]
<1>1. stack # <<>> /\ Reads("tuple")
  BY DEF EnterTuple, Reads, In
<1>2. PICK q, r : Topped(q, r)
  BY <1>1, TopPlan
<1>3. stack' = Append(below, f) /\ mem' = mem /\ cur' = cur + 1 /\ heap' = heap
  BY DEF EnterTuple
<1>4. /\ doc \in Docs /\ ty \in Types /\ ty.k = "tuple" /\ p \in Places
      /\ Phrase("value", ty, {}, 0, cur, r.to) \in Phrases[doc]
  BY <1>1, <1>2, TopValue
<1>5. Len(ty.fields) \in Nat
  BY <1>4, TypeAssumption
<1> HIDE DEF p, ty
<1>6. Phrase("tuple", ty, {}, 1, cur + 1, r.to) \in Phrases[doc]
  BY <1>4, ValueRead
<1>7. f \in Frames /\ f.op = "tuple" /\ f.ty = ty /\ f.dst = p /\ f.next = 1
  BY <1>4 DEF Frames
<1> HIDE DEF f
<1>8. \A a \in Places : \A i \in 1..Len(ty.fields) : Within(a, Part(p, i)) => Within(a, p)
  BY <1>4, <1>5, WithinPart
<1>9. Follows(doc, f, [names |-> {}, to |-> r.to], cur + 1)
  BY <1>6, <1>7 DEF Follows
<1>10. \A a \in Spots :
         Reaches(f, a) \/ Claims(f, [names |-> {}, to |-> r.to], a) => Within(a, p)
  BY <1>7, <1>8 DEF Reaches, OfMap, Claims, Spots
<1> QED
  BY <1>1, <1>2, <1>3, <1>6, <1>7, <1>9, <1>10, PlainSame, Entered DEF p

\* A list has no buffer yet.
LEMMA VecWhole ==
  ASSUME IInv, Whole(doc, stack, cur, mem, heap), EnterVec
  PROVE  Whole(doc, stack', cur', mem', heap')
<1> DEFINE p == top.dst
           ty == top.ty
           f == [op |-> "vec", ty |-> ty, dst |-> p, base |-> Null, cap |-> 0,
                 len |-> 0]
<1>1. stack # <<>> /\ Reads("vec")
  BY DEF EnterVec, Reads, In
<1>2. PICK q, r : Topped(q, r)
  BY <1>1, TopPlan
<1>3. stack' = Append(below, f) /\ mem' = mem /\ cur' = cur + 1 /\ heap' = heap
  BY DEF EnterVec
<1>4. /\ doc \in Docs /\ ty \in Types /\ ty.k = "vec" /\ p \in Places
      /\ Phrase("value", ty, {}, 0, cur, r.to) \in Phrases[doc]
  BY <1>1, <1>2, TopValue
<1> HIDE DEF p, ty
<1>5. Phrase("vec", ty, {}, 0, cur + 1, r.to) \in Phrases[doc]
  BY <1>4, ValueRead
<1>6. /\ f \in Frames /\ f.op = "vec" /\ f.ty = ty /\ f.dst = p /\ f.base = Null
  BY <1>4 DEF Frames, Null
<1> HIDE DEF f
<1>7. Follows(doc, f, [names |-> {}, to |-> r.to], cur + 1)
  BY <1>5, <1>6 DEF Follows
<1>8. \A a \in Spots :
        Reaches(f, a) \/ Claims(f, [names |-> {}, to |-> r.to], a) => Within(a, p)
  BY <1>6 DEF Reaches, OfMap, Claims, Spots
<1> QED
  BY <1>1, <1>2, <1>3, <1>5, <1>6, <1>7, <1>8, PlainSame, Entered DEF p

\* The stack is its last frame on the ones below.
LEMMA StackTop ==
  ASSUME NEW stk \in Seq(Frames), stk # <<>>,
         NEW s, s = SubSeq(stk, 1, Len(stk) - 1)
  PROVE  stk = Append(s, stk[Len(stk)])
<1> DEFINE n == Len(stk)
           t == Append(s, stk[n])
<1>1. /\ n \in Nat \ {0} /\ s \in Seq(Frames) /\ Len(s) = n - 1
      /\ \A i \in 1..Len(s) : i \in 1..n /\ s[i] = stk[i]
  BY Beneath
<1>2. n \in 1..n /\ stk[n] \in Frames
  BY <1>1, ElementOfSeq
<1>3. /\ t \in Seq(Frames) /\ Len(t) = Len(s) + 1 /\ t[Len(s) + 1] = stk[n]
      /\ \A i \in 1..Len(s) : t[i] = s[i]
  BY <1>1, <1>2, AppendProperties
<1> HIDE DEF t
<1>4. Len(t) = n /\ t[n] = stk[n]
  <2>1. Len(s) + 1 = n
    BY <1>1
  <2> QED
    BY <1>3, <2>1
<1>5. \A i \in 1..n : t[i] = stk[i]
  <2>1. \A i \in 1..n : i = n \/ i \in 1..Len(s)
    BY <1>1
  <2> QED
    BY <1>1, <1>3, <1>4, <2>1
<1>6. stk = t
  BY <1>3, <1>4, <1>5, SeqEqual DEF n
<1> QED
  BY <1>6 DEF t

\* A frame that goes on after a comma, with less to write to.
LEMMA Resumed ==
  ASSUME IInv, Whole(doc, stack, cur, mem, heap), stack # <<>>, top.op # "insert",
         NEW q, NEW r, Topped(q, r),
         NEW f \in Frames, NEW names, NEW op, NEW next, NEW k \in Nat \ {0},
         Phrase(op, f.ty, names, next, AfterComma(doc.toks, k), r.to) \in Phrases[doc],
         Follows(doc, f, [names |-> names, to |-> r.to], AfterComma(doc.toks, k)),
         \A a \in Spots : Reaches(f, a) => Reaches(top, a),
         \A a \in Spots : Claims(f, [names |-> names, to |-> r.to], a)
           => Claims(top, r, a),
         \A b : Holds(top, b) => Holds(f, b)
  PROVE  \E pl :
           LET s == Append(Append(below, f), Comma) IN
           /\ Tidy(doc, s, pl, k, mem) /\ s \in Seq(Frames) /\ OnTop(below, s)
           /\ \A b : Holds(top, b) => ~Unowned(s, mem, b)
           /\ \A a \in Spots :
                Reaches(top, a) /\ ~Claims(f, [names |-> names, to |-> r.to], a)
                  => Open(s, pl, a)
<1> DEFINE r2 == [names |-> names, to |-> r.to]
           c == AfterComma(doc.toks, k)
           t == Append(below, f)
           s == Append(t, Comma)
           pl == Append(q, r2)
           pl2 == Append(pl, [names |-> {}, to |-> c])
<1>1. doc \in Docs /\ below \in Seq(Frames) /\ Len(doc.toks) \in Nat
  BY TopFrame, DocTokens DEF IInv
<1>2. r2 \in Plans /\ r2.to = r.to
  BY <1>1, PhrasePlan
<1> HIDE DEF r2
<1>3. c \in Nat \ {0} /\ c <= r.to
  BY <1>1, PhraseRead
<1>4. Tidy(doc, below, q, r.to, mem)
  BY PlainSame, PlainWords
<1>5. \A a \in Spots : Reaches(f, a) => Open(below, q, a)
  BY DEF Topped
<1>6. \A a \in DOMAIN mem : mem[a].k \in Owning => ~Claims(f, r2, a)
  <2>1. \A a \in DOMAIN mem : a \in Spots
    BY SpotsOf DEF IInv
  <2> QED
    BY <2>1 DEF Topped, r2
<1>7. Follows(doc, f, r2, c)
  BY DEF r2
<1> HIDE DEF c
<1>8. /\ Tidy(doc, t, pl, c, mem) /\ t \in Seq(Frames)
      /\ \A a : Open(below, q, a) /\ ~Claims(f, r2, a) => Open(t, pl, a)
  BY <1>1, <1>2, <1>3, <1>4, <1>5, <1>6, <1>7, TidyPush
<1>9. OnTop(below, t) /\ \A b : Holds(f, b) => ~Unowned(t, mem, b)
  BY <1>1, OnTopPush DEF OnTop
<1> HIDE DEF t, pl
<1>10. /\ Tidy(doc, s, pl2, k, mem) /\ s \in Seq(Frames)
       /\ \A a : Open(t, pl, a) => Open(s, pl2, a)
  <2>1. Comma \in {Comma, Colon} /\ Comma.op = "comma" /\ Comma.op # "colon"
    BY MarkFrame
  <2>2. c = AfterComma(doc.toks, k)
    BY DEF c
  <2> QED
    BY <1>1, <1>8, <2>1, <2>2, TidyMark
<1>11. OnTop(below, s) /\ \A b : Holds(f, b) => ~Unowned(s, mem, b)
  BY <1>1, <1>8, <1>9, MarkFrame, OnTopPush
<1>12. \A a \in Spots : Reaches(top, a) /\ ~Claims(f, r2, a) => Open(s, pl2, a)
  BY <1>8, <1>10 DEF Topped
<1> HIDE DEF s, pl2
<1> QED
  BY <1>10, <1>11, <1>12 DEF s, t, r2

\* Before it, a value is read to where the frame had to write.
LEMMA ResumedValue ==
  ASSUME IInv, Whole(doc, stack, cur, mem, heap), stack # <<>>, top.op # "insert",
         NEW q, NEW r, Topped(q, r),
         NEW f \in Frames, NEW names, NEW op, NEW next, NEW k,
         Phrase(op, f.ty, names, next, AfterComma(doc.toks, k), r.to) \in Phrases[doc],
         Follows(doc, f, [names |-> names, to |-> r.to], AfterComma(doc.toks, k)),
         \A a \in Spots : Reaches(f, a) => Reaches(top, a),
         \A a \in Spots : Claims(f, [names |-> names, to |-> r.to], a)
           => Claims(top, r, a),
         \A b : Holds(top, b) => Holds(f, b),
         NEW ty \in Types, NEW dst \in Places, NEW c,
         Phrase("value", ty, {}, 0, c, k) \in Phrases[doc],
         \A a \in Spots : Within(a, dst) =>
           /\ Reaches(top, a) /\ Claims(top, r, a)
           /\ ~Claims(f, [names |-> names, to |-> r.to], a)
  PROVE  /\ Whole(doc, Append(Append(Append(below, f), Comma), Value(ty, dst)), c,
                  mem, heap)
         /\ Append(Append(Append(below, f), Comma), Value(ty, dst))
              = below \o <<f, Comma, Value(ty, dst)>>
<1> DEFINE s == Append(Append(below, f), Comma)
           v == Value(ty, dst)
<1>1. doc \in Docs /\ k \in Nat \ {0} /\ [names |-> {}, to |-> k] \in Plans
  <2>1. doc \in Docs
    BY DEF IInv
  <2>2. c \in Nat \ {0} /\ k \in Nat /\ c < k
    BY <2>1, PhraseRead
  <2>3. [names |-> {}, to |-> k] \in Plans
    BY <2>1, PhrasePlan
  <2>4. k \in Nat \ {0}
    BY <2>2
  <2> QED
    BY <2>1, <2>3, <2>4
<1>2. PICK pl :
        /\ Tidy(doc, s, pl, k, mem) /\ s \in Seq(Frames) /\ OnTop(below, s)
        /\ \A b : Holds(top, b) => ~Unowned(s, mem, b)
        /\ \A a \in Spots :
             Reaches(top, a) /\ ~Claims(f, [names |-> names, to |-> r.to], a)
               => Open(s, pl, a)
  BY <1>1, Resumed
<1>3. below \in Seq(Frames) /\ v \in Frames
  BY TopFrame, ValueFrame
<1>4. Append(s, v) = below \o <<f, Comma, v>>
  BY <1>3, MarkFrame, PushedThree
<1> HIDE DEF s
<1>5. \A a \in Spots : Within(a, dst) => Open(s, pl, a)
  BY <1>2
<1>6. \A a \in DOMAIN mem : mem[a].k \in Owning => ~Within(a, dst)
  <2>1. \A a \in DOMAIN mem : a \in Spots
    BY SpotsOf DEF IInv
  <2> QED
    BY <2>1 DEF Topped
<1>7. Tidy(doc, Append(s, v), Append(pl, [names |-> {}, to |-> k]), c, mem)
  <2> DEFINE u == [names |-> {}, to |-> k]
  <2>1. u.to = k
    OBVIOUS
  <2> HIDE DEF u
  <2>2. u \in Plans
    BY <1>1 DEF u
  <2>3. Tidy(doc, Append(s, v), Append(pl, u), c, mem)
    BY <1>1, <1>2, <1>5, <1>6, <2>1, <2>2, TidyValue
  <2> QED
    BY <2>3 DEF u
<1>8. /\ OnTop(below, Append(s, v))
      /\ \A b : Holds(top, b) => ~Unowned(Append(s, v), mem, b)
  BY <1>2, <1>3, OnTopPush
<1>9. Whole(doc, Append(s, v), c, mem, heap)
  BY <1>7, <1>8, PlainSame, WholePlain
<1> QED
  BY <1>4, <1>9 DEF s

\* A member of a struct is read to its place, which is then done with.
LEMMA FieldWhole ==
  ASSUME IInv, Whole(doc, stack, cur, mem, heap), ParseField
  PROVE  Whole(doc, stack', cur', mem', heap')
<1> DEFINE p == top.dst
           ty == top.ty
           v == tok.v
<1>1. stack # <<>> /\ top.op = "struct" /\ tok.t # "}"
  BY DEF ParseField, In
<1>2. PICK i \in Named :
        stack' = stack \o <<Comma, Value(ty.fields[i].ty, Part(p, i))>>
  BY DEF ParseField
<1>3. cur' = cur + 2 /\ mem' = mem /\ heap' = heap
  BY DEF ParseField
<1>4. PICK q, r : Topped(q, r)
  BY <1>1, TopPlan
<1>5. /\ doc \in Docs /\ top \in Frames /\ below \in Seq(Frames)
      /\ stack \in Seq(Frames) /\ ty.k = "struct" /\ ty \in Types
      /\ p \in Places /\ p[2] # <<>>
  <2>1. /\ top \in Frames /\ below \in Seq(Frames) /\ stack \in Seq(Frames)
        /\ FrameOK(top, heap)
    BY <1>1, TopFrame
  <2>2. p \in Spots
    BY <1>1, WritingSpot DEF Placed
  <2> QED
    BY <1>1, <2>1, <2>2, FrameFields DEF FrameOK, Spots, IInv
<1>6. /\ Len(ty.fields) \in Nat /\ i \in 1..Len(ty.fields) /\ ty.fields[i].name = v
      /\ ty.fields[i].ty \in Types
  BY <1>5, TypeAssumption DEF Named
<1>7. Phrase("struct", ty, r.names, 0, cur, r.to) \in Phrases[doc]
  BY <1>1, <1>4 DEF Topped, Follows
<1>8. v \in FieldNames(ty)
  BY <1>6 DEF FieldNames
<1>9. doc.toks[cur].t # "}" /\ v = doc.toks[cur].v
  BY <1>1 DEF tok
<1> HIDE DEF p, ty, v
<1>10. PICK k \in Nat :
         /\ Phrase("struct", ty, r.names \ {v}, 0, AfterComma(doc.toks, k), r.to)
              \in Phrases[doc]
         /\ v \in r.names
         /\ \A j \in 1..Len(ty.fields) : ty.fields[j].name = v =>
              Phrase("value", ty.fields[j].ty, {}, 0, cur + 2, k) \in Phrases[doc]
  BY <1>5, <1>7, <1>8, <1>9, StructRead
<1>11. Phrase("value", ty.fields[i].ty, {}, 0, cur + 2, k) \in Phrases[doc]
  BY <1>6, <1>10
<1> DEFINE r2 == [names |-> r.names \ {v}, to |-> r.to]
<1>12. \A a : Reaches(top, a) <=> Within(a, p)
  BY <1>1 DEF Reaches, OfMap, Placed, p
<1>13. \A a, o : Claims(top, o, a) <=> \E j \in 1..Len(ty.fields) :
                   ty.fields[j].name \in o.names /\ Within(a, Part(p, j))
  BY <1>1 DEF Claims, p, ty
<1>14. \A a \in Spots : Claims(top, r2, a) => Claims(top, r, a)
  BY <1>13
<1>15. Part(p, i) \in Places
  BY <1>5, <1>6, PartPlace
<1>16. ASSUME NEW a \in Spots, Within(a, Part(p, i))
       PROVE  Reaches(top, a) /\ Claims(top, r, a) /\ ~Claims(top, r2, a)
  <2>1. a \in Places
    BY DEF Spots
  <2>2. Within(a, p) /\ \A j \in Nat : Within(a, Part(p, j)) => j = i
    BY <1>5, <1>6, <1>16, <2>1, WithinPart
  <2>3. Claims(top, r, a)
    BY <1>6, <1>10, <1>13, <1>16
  <2>4. ~Claims(top, r2, a)
    <3>1. \A j \in 1..Len(ty.fields) : Within(a, Part(p, j)) => j = i
      BY <1>6, <2>2
    <3>2. ty.fields[i].name \notin r2.names
      BY <1>6
    <3> HIDE DEF r2
    <3> QED
      BY <1>13, <3>1, <3>2
  <2> QED
    BY <1>12, <2>2, <2>3, <2>4
<1>17. Follows(doc, top, r2, AfterComma(doc.toks, k))
  BY <1>1, <1>10 DEF Follows, ty
<1>18. top.ty = ty
  BY DEF ty
<1> DEFINE u == Append(Append(Append(below, top), Comma),
                       Value(ty.fields[i].ty, Part(p, i)))
<1>19. Whole(doc, u, cur + 2, mem, heap)
  BY <1>1, <1>4, <1>5, <1>6, <1>10, <1>11, <1>14, <1>15, <1>16, <1>17, <1>18,
     ResumedValue
<1>20. stack' = u
  <2>1. stack = Append(below, top)
    BY <1>1, <1>5, StackTop DEF below, top
  <2>2. stack' = Append(Append(stack, Comma), Value(ty.fields[i].ty, Part(p, i)))
    BY <1>2, <1>5, <1>6, <1>15, MarkFrame, ValueFrame, PushedTwo DEF p, ty
  <2> QED
    BY <2>1, <2>2
<1> QED
  BY <1>3, <1>19, <1>20

\* A member that no field is for is passed over.
LEMMA SkipWhole ==
  ASSUME IInv, Whole(doc, stack, cur, mem, heap), SkipField
  PROVE  Whole(doc, stack', cur', mem', heap')
<1> DEFINE p == top.dst
           ty == top.ty
           v == tok.v
<1>1. stack # <<>> /\ top.op = "struct" /\ tok.t # "}"
  BY DEF SkipField, In
<1>2. /\ cur' = Skip(doc.toks, cur + 2) /\ stack' = Append(stack, Comma)
      /\ mem' = mem /\ heap' = heap /\ Named = {}
  BY DEF SkipField
<1>3. PICK q, r : Topped(q, r)
  BY <1>1, TopPlan
<1>4. /\ doc \in Docs /\ top \in Frames /\ below \in Seq(Frames)
      /\ stack \in Seq(Frames) /\ cur \in Nat \ {0}
  BY <1>1, <1>3, TopFrame DEF IInv, Topped
<1>5. v \notin FieldNames(ty)
  BY <1>2 DEF Named, FieldNames
<1>6. Phrase("struct", ty, r.names, 0, cur, r.to) \in Phrases[doc]
  BY <1>1, <1>3 DEF Topped, Follows
<1>7. doc.toks[cur].t # "}" /\ v = doc.toks[cur].v
  BY <1>1 DEF tok
<1>8. stack = Append(below, top) /\ top.ty = ty
  BY <1>1, <1>4, StackTop DEF below, top
<1> HIDE DEF p, ty, v
<1>9. PICK k \in Nat :
        /\ Phrase("struct", ty, r.names \ {v}, 0, AfterComma(doc.toks, k), r.to)
             \in Phrases[doc]
        /\ k = Skip(doc.toks, cur + 2) /\ cur <= k
  BY <1>4, <1>5, <1>6, <1>7, StructRead
<1>10. k \in Nat \ {0}
  BY <1>4, <1>9
<1> DEFINE r2 == [names |-> r.names \ {v}, to |-> r.to]
<1>11. \A a \in Spots : Claims(top, r2, a) => Claims(top, r, a)
  BY <1>1 DEF Claims
<1>12. Follows(doc, top, r2, AfterComma(doc.toks, k))
  BY <1>1, <1>8, <1>9 DEF Follows
<1>13. PICK pl :
         LET s == Append(Append(below, top), Comma) IN
         /\ Tidy(doc, s, pl, k, mem) /\ s \in Seq(Frames) /\ OnTop(below, s)
         /\ \A b : Holds(top, b) => ~Unowned(s, mem, b)
  BY <1>1, <1>3, <1>4, <1>8, <1>9, <1>10, <1>11, <1>12, Resumed
<1> HIDE DEF r2
<1>14. Whole(doc, Append(Append(below, top), Comma), k, mem, heap)
  BY <1>1, <1>3, <1>13, PlainSame, WholePlain
<1> QED
  BY <1>2, <1>8, <1>9, <1>14

\* The items of a tuple come one after the other.
LEMMA ItemWhole ==
  ASSUME IInv, Whole(doc, stack, cur, mem, heap), ParseItem
  PROVE  Whole(doc, stack', cur', mem', heap')
<1> DEFINE p == top.dst
           ty == top.ty
           n == top.next
           f == [top EXCEPT !.next = @ + 1]
<1>1. stack # <<>> /\ top.op = "tuple" /\ n <= Len(ty.fields)
  BY DEF ParseItem, In
<1>2. /\ stack' = below \o <<f, Comma, Value(ty.fields[n].ty, Part(p, n))>>
      /\ cur' = cur /\ mem' = mem /\ heap' = heap
  BY DEF ParseItem
<1>3. PICK q, r : Topped(q, r)
  BY <1>1, TopPlan
<1>4. /\ doc \in Docs /\ top \in Frames
      /\ ty.k = "tuple" /\ ty \in Types /\ n \in Nat \ {0}
      /\ p \in Places /\ p[2] # <<>>
  <2>1. top \in Frames /\ FrameOK(top, heap)
    BY <1>1, TopFrame
  <2>2. p \in Spots
    BY <1>1, WritingSpot DEF Placed
  <2> QED
    BY <1>1, <2>1, <2>2, FrameFields DEF FrameOK, Spots, IInv
<1>5. /\ f \in Frames /\ f.op = "tuple" /\ f.ty = ty /\ f.dst = p
      /\ f.next = n + 1
  BY <1>1, <1>4 DEF Frames
<1>6. Len(ty.fields) \in Nat /\ n \in 1..Len(ty.fields) /\ ty.fields[n].ty \in Types
  <2>1. Len(ty.fields) \in Nat
    BY <1>4, TypeAssumption
  <2>2. n \in 1..Len(ty.fields)
    BY <1>1, <1>4, <2>1
  <2> QED
    BY <1>4, <2>1, <2>2, TypeAssumption
<1>7. Phrase("tuple", ty, {}, n, cur, r.to) \in Phrases[doc]
  BY <1>1, <1>3 DEF Topped, Follows
<1> HIDE DEF f
<1>8. \A a : Reaches(top, a) <=> Within(a, p)
  BY <1>1 DEF Reaches, OfMap, Placed
<1>9. \A a : Reaches(f, a) <=> Within(a, p)
  BY <1>5 DEF Reaches, OfMap, Placed
<1>10. \A a, o : Claims(top, o, a) <=> \E j \in 1..Len(ty.fields) :
                   n <= j /\ Within(a, Part(p, j))
  BY <1>1 DEF Claims
<1>11. \A a, o : Claims(f, o, a) <=> \E j \in 1..Len(ty.fields) :
                   n + 1 <= j /\ Within(a, Part(p, j))
  BY <1>5 DEF Claims
<1> HIDE DEF p, ty, n
<1> DEFINE r2 == [names |-> {}, to |-> r.to]
<1>12. PICK k \in Nat :
         /\ Phrase("value", ty.fields[n].ty, {}, 0, cur, k) \in Phrases[doc]
         /\ Phrase("tuple", ty, {}, n + 1, AfterComma(doc.toks, k), r.to)
              \in Phrases[doc]
  <2>1. ~(n > Len(ty.fields))
    BY <1>6
  <2> QED
    BY <1>4, <1>7, <2>1, TupleRead
<1>13. \A a \in Spots : Claims(f, r2, a) => Claims(top, r, a)
  <2>1. \A j \in 1..Len(ty.fields) : n + 1 <= j => n <= j
    BY <1>4, <1>6
  <2> QED
    BY <1>10, <1>11, <2>1
<1>14. Part(p, n) \in Places
  BY <1>4, <1>6, PartPlace
<1>15. ASSUME NEW a \in Spots, Within(a, Part(p, n))
       PROVE  Reaches(top, a) /\ Claims(top, r, a) /\ ~Claims(f, r2, a)
  <2>1. a \in Places
    BY DEF Spots
  <2>2. Within(a, p) /\ \A j \in Nat : Within(a, Part(p, j)) => j = n
    BY <1>4, <1>6, <1>15, <2>1, WithinPart
  <2>3. n <= n /\ ~(n + 1 <= n)
    BY <1>4
  <2>4. \A j \in 1..Len(ty.fields) : n + 1 <= j => ~Within(a, Part(p, j))
    BY <1>6, <2>2, <2>3
  <2> QED
    BY <1>6, <1>8, <1>10, <1>11, <1>15, <2>2, <2>3, <2>4
<1>16. Follows(doc, f, r2, AfterComma(doc.toks, k))
  BY <1>5, <1>12 DEF Follows
<1>17. \A b : ~Holds(top, b)
  BY <1>1 DEF Holds, Keeps
<1> HIDE DEF r2
<1> DEFINE u == below \o <<f, Comma, Value(ty.fields[n].ty, Part(p, n))>>
<1>18. Whole(doc, u, cur, mem, heap)
  BY <1>1, <1>3, <1>5, <1>6, <1>8, <1>9, <1>12, <1>13, <1>14, <1>15, <1>16, <1>17,
     ResumedValue DEF r2
<1> QED
  BY <1>2, <1>18 DEF p, ty, n

\* A list that goes on is not in its own buffer.
LEMMA NotInBuffer ==
  ASSUME IInv, In("vec"), top.base # Null
  PROVE  top.dst[1] # top.base
<1>1. /\ Writable(top.dst, below, heap)
      /\ Held(top.base, heap) /\ Unowned(below, mem, top.base)
  BY TopVec
<1> QED
  BY <1>1 DEF Writable, Unowned, Holds, Held

\* The elements of a list come one after the other.
LEMMA ElemWhole ==
  ASSUME IInv, Whole(doc, stack, cur, mem, heap), ParseElem
  PROVE  Whole(doc, stack', cur', mem', heap')
<1> DEFINE p == top.dst
           ty == top.ty
           n == top.len
           b == top.base
           f == [top EXCEPT !.len = @ + 1]
           V == [op : {"vec"}, ty : Types, dst : Places, base : Nat, cap : Nat,
                 len : Nat]
<1>1. stack # <<>> /\ top.op = "vec" /\ tok.t # "]" /\ In("vec")
  BY DEF ParseElem, In
<1>2. /\ stack' = below \o <<f, Comma, Value(ty.elem, At(b, n))>>
      /\ cur' = cur /\ mem' = mem /\ heap' = heap
  BY DEF ParseElem
<1>3. PICK q, r : Topped(q, r)
  BY <1>1, TopPlan
<1>4. doc \in Docs /\ top \in V /\ ty.elem \in Types
  BY <1>1, TopVec DEF IInv
<1>5. /\ f \in V /\ f.op = "vec" /\ f.ty = ty /\ f.dst = p
      /\ f.base = b /\ f.len = n + 1
  BY <1>4
<1>6. f \in Frames /\ b \in Nat /\ n \in Nat /\ p \in Places
  BY <1>4, <1>5 DEF Frames
<1>7. b # Null => p[1] # b
  BY <1>1, NotInBuffer
<1>8. Phrase("vec", ty, {}, 0, cur, r.to) \in Phrases[doc]
  BY <1>1, <1>3 DEF Topped, Follows
<1>9. doc.toks[cur].t # "]"
  BY <1>1 DEF tok
<1> HIDE DEF f, V
<1>10. \A a : Reaches(top, a) <=> Within(a, p) \/ a[1] = b
  BY <1>1 DEF Reaches, OfMap, Placed
<1>11. \A a : Reaches(f, a) <=> Within(a, p) \/ a[1] = b
  BY <1>5 DEF Reaches, OfMap, Placed
<1>12. \A a, o : Claims(top, o, a) <=> Within(a, p) \/ (a[1] = b /\ a[2][1] >= n)
  BY <1>1 DEF Claims
<1>13. \A a, o : Claims(f, o, a) <=> Within(a, p) \/ (a[1] = b /\ a[2][1] >= n + 1)
  BY <1>5 DEF Claims
<1>14. top.ty = ty /\ \A c : Holds(top, c) => Holds(f, c)
  BY <1>1, <1>5 DEF Holds, Keeps
<1> HIDE DEF p, ty, n, b
<1> DEFINE r2 == [names |-> {}, to |-> r.to]
<1>15. PICK k \in Nat :
         /\ Phrase("value", ty.elem, {}, 0, cur, k) \in Phrases[doc]
         /\ Phrase("vec", ty, {}, 0, AfterComma(doc.toks, k), r.to) \in Phrases[doc]
  BY <1>4, <1>8, <1>9, VecRead
<1>16. \A a \in Spots : a[2][1] \in Nat
  <2> SUFFICES ASSUME NEW a \in Spots PROVE a[2][1] \in Nat
    OBVIOUS
  <2>1. a[2] \in Seq(Nat) /\ a[2] # <<>>
    BY PlaceParts DEF Spots
  <2>2. 1 \in 1..Len(a[2])
    BY <2>1, EmptySeq, LenProperties
  <2> QED
    BY <2>1, <2>2, ElementOfSeq
<1>17. \A a \in Spots : Claims(f, r2, a) => Claims(top, r, a)
  <2>1. \A x \in Nat : x >= n + 1 => x >= n
    BY <1>6
  <2> QED
    BY <1>12, <1>13, <1>16, <2>1
<1>18. At(b, n) \in Places
  BY <1>6, AtPlace
<1>19. ASSUME NEW a \in Spots, Within(a, At(b, n))
       PROVE  Reaches(top, a) /\ Claims(top, r, a) /\ ~Claims(f, r2, a)
  <2>1. a \in Places /\ a[2] # <<>> /\ a[1] # Null
    BY DEF Spots
  <2>2. a[1] = b /\ a[2][1] = n
    BY <1>6, <1>19, <2>1, WithinAt
  <2>3. n >= n /\ ~(n >= n + 1)
    BY <1>6
  <2>4. ~Within(a, p)
    BY <1>7, <2>1, <2>2 DEF Within
  <2> QED
    BY <1>10, <1>12, <1>13, <2>2, <2>3, <2>4
<1>20. Follows(doc, f, r2, AfterComma(doc.toks, k))
  BY <1>5, <1>15 DEF Follows
<1>21. \A a \in Spots : Reaches(f, a) => Reaches(top, a)
  BY <1>10, <1>11
<1>22. top.op # "insert" /\ f.ty = ty
  BY <1>1, <1>5
<1> HIDE DEF r2
<1> DEFINE a == At(b, n)
           u == below \o <<f, Comma, Value(ty.elem, a)>>
<1> HIDE DEF a
<1>23. Whole(doc, u, cur, mem, heap)
  BY <1>1, <1>3, <1>4, <1>6, <1>14, <1>15, <1>17, <1>18, <1>19, <1>20, <1>21,
     <1>22, ResumedValue DEF r2, a
<1> QED
  BY <1>2, <1>23 DEF f, p, ty, n, b, a

\* What is in the buffer goes along when it grows.
LEMMA GrowWhole ==
  ASSUME IInv, Whole(doc, stack, cur, mem, heap), Grow
  PROVE  Whole(doc, stack', cur', mem', heap')
<1> DEFINE cap == IF top.cap = 0 THEN 4 ELSE 2 * top.cap
           b == IF ZeroSized(top.ty.elem) THEN Null ELSE Len(heap) + 1
           o == top.base
           p == top.dst
           n == top.len
           f == [top EXCEPT !.base = b, !.cap = cap]
           m == [a \in {IF c[1] = o THEN <<b, c[2]>> ELSE c : c \in DOMAIN mem} |->
                   IF a[1] = b THEN mem[<<o, a[2]>>] ELSE mem[a]]
           h == Free(heap, {o})
           V == [op : {"vec"}, ty : Types, dst : Places, base : Nat, cap : Nat,
                 len : Nat]
           s == Append(below, f)
<1>1. stack # <<>> /\ top.op = "vec" /\ In("vec")
  BY DEF Grow, In
<1>2. /\ stack' = s /\ mem' = m /\ cur' = cur
      /\ heap' = IF b = Null THEN heap ELSE Append(h, Block(cap))
  BY DEF Grow
<1>3. PICK q, r : Topped(q, r)
  BY <1>1, TopPlan
<1>4. /\ top \in V /\ Safe(below, mem, heap) /\ below \in Seq(Frames)
      /\ p \in Spots /\ p[1] \in 1..Len(heap)
  BY <1>1, TopVec, WritingSpot DEF Placed, Inside
<1>5. heap \in Seq(BlockRecs) /\ Len(heap) \in Nat
  BY LenProperties DEF IInv, Safe
<1>6. /\ b \in Nat /\ (b # Null => b \notin 1..Len(heap) /\ b = Len(heap) + 1)
      /\ b # p[1]
  BY <1>4, <1>5 DEF Null, Spots
<1>7. cap \in Nat
  BY <1>4
<1>8. /\ f \in V /\ f.op = "vec" /\ f.ty = top.ty /\ f.dst = p
      /\ f.base = b /\ f.len = n
  BY <1>4, <1>6, <1>7
<1>9. f \in Frames
  BY <1>8 DEF Frames
<1>10. \A c \in DOMAIN mem :
         /\ c \in Spots /\ c = <<c[1], c[2]>> /\ c[1] # b
         /\ c[1] \in 1..Len(heap)
  <2>1. \A c \in DOMAIN mem : c \in Spots /\ c[1] \in 1..Len(heap)
    BY SpotsOf DEF IInv, Safe, MemOK, Inside
  <2> HIDE DEF b
  <2> QED
    BY <1>6, <2>1, PlaceParts DEF Spots
<1>11. /\ \A a \in DOMAIN m :
            \/ \E c \in DOMAIN mem : c[1] = o /\ a = <<b, c[2]>>
            \/ a \in DOMAIN mem /\ a[1] # o
       /\ \A a \in DOMAIN mem : a[1] # o => a \in DOMAIN m
       /\ \A c \in DOMAIN mem : c[1] = o => <<b, c[2]>> \in DOMAIN m
       /\ \A a \in DOMAIN m :
            m[a] = IF a[1] = b THEN mem[<<o, a[2]>>] ELSE mem[a]
  OBVIOUS
<1>12. b # Null \/ o = Null
  <2>1. VecOK(top, heap)
    BY <1>1, TopVec
  <2> QED
    BY <1>1, <1>5, <2>1 DEF VecOK, Null
<1> HIDE DEF f, m, V, cap, b, h
<1>13. \A a \in DOMAIN m :
         \/ /\ a[1] = b /\ b # Null /\ <<o, a[2]>> \in DOMAIN mem
            /\ m[a] = mem[<<o, a[2]>>]
         \/ a \in DOMAIN mem /\ m[a] = mem[a]
  <2> SUFFICES ASSUME NEW a \in DOMAIN m
               PROVE  \/ /\ a[1] = b /\ b # Null /\ <<o, a[2]>> \in DOMAIN mem
                         /\ m[a] = mem[<<o, a[2]>>]
                      \/ a \in DOMAIN mem /\ m[a] = mem[a]
    OBVIOUS
  <2>1. ASSUME NEW c \in DOMAIN mem, c[1] = o, a = <<b, c[2]>>
        PROVE  /\ a[1] = b /\ b # Null /\ <<o, a[2]>> \in DOMAIN mem
               /\ m[a] = mem[<<o, a[2]>>]
    BY <1>10, <1>11, <1>12, <2>1 DEF Spots
  <2>2. ASSUME a \in DOMAIN mem, a[1] # o
        PROVE  m[a] = mem[a]
    BY <1>10, <1>11, <2>2
  <2> QED
    BY <1>11, <2>1, <2>2
<1>14. \A c \in DOMAIN mem : \E a \in DOMAIN m : m[a] = mem[c]
  <2> SUFFICES ASSUME NEW c \in DOMAIN mem
               PROVE  \E a \in DOMAIN m : m[a] = mem[c]
    OBVIOUS
  <2>1. CASE c[1] = o
    <3> DEFINE a == <<b, c[2]>>
    <3>1. a \in DOMAIN m /\ a[1] = b /\ a[2] = c[2]
      BY <1>11, <2>1
    <3> HIDE DEF a
    <3>2. m[a] = mem[<<o, c[2]>>]
      BY <1>11, <3>1
    <3>3. <<o, c[2]>> = c
      BY <1>10, <2>1
    <3> QED
      BY <3>1, <3>2, <3>3
  <2>2. CASE c[1] # o
    BY <1>10, <1>11, <2>2
  <2> QED
    BY <2>1, <2>2
<1>15. \A a \in Spots : a[1] = b => Open(below, q, a)
  BY <1>4, <1>6, FreshOpen DEF Spots
<1>16. \A a, x : Claims(top, x, a) <=> Within(a, p) \/ (a[1] = o /\ a[2][1] >= n)
  BY <1>1 DEF Claims
<1>17. \A a, x : Claims(f, x, a) <=> Within(a, p) \/ (a[1] = b /\ a[2][1] >= n)
  BY <1>8 DEF Claims
<1>18. \A a : Reaches(f, a) <=> Within(a, p) \/ a[1] = b
  BY <1>8 DEF Reaches, OfMap, Placed
<1>19. \A a : Within(a, p) => Reaches(top, a)
  BY <1>1 DEF Reaches, OfMap, Placed
<1>20. \A a \in DOMAIN m : m[a].k \in Owning =>
         Open(below, q, a) /\ ~Claims(f, r, a)
  <2> SUFFICES ASSUME NEW a \in DOMAIN m, m[a].k \in Owning
               PROVE  Open(below, q, a) /\ ~Claims(f, r, a)
    OBVIOUS
  <2>1. ASSUME a[1] = b, b # Null, <<o, a[2]>> \in DOMAIN mem,
               m[a] = mem[<<o, a[2]>>]
        PROVE  Open(below, q, a) /\ ~Claims(f, r, a)
    <3> DEFINE c == <<o, a[2]>>
    <3>1. c[1] = o /\ c[2] = a[2]
      OBVIOUS
    <3> HIDE DEF c
    <3>2. ~Claims(top, r, c)
      BY <1>3, <2>1 DEF Topped, c
    <3>3. Open(below, q, a)
      BY <1>4, <1>6, <2>1, FreshOpen
    <3>4. ~Within(a, p)
      BY <1>6, <2>1 DEF Within
    <3> QED
      BY <1>16, <1>17, <3>1, <3>2, <3>3, <3>4
  <2>2. ASSUME a \in DOMAIN mem, m[a] = mem[a]
        PROVE  Open(below, q, a) /\ ~Claims(f, r, a)
    <3>1. ~Claims(top, r, a) /\ Open(below, q, a)
      BY <1>1, <1>3, <2>2 DEF Topped
    <3>2. a[1] # b
      BY <1>10, <2>2
    <3> QED
      BY <1>16, <1>17, <3>1, <3>2
  <2> QED
    BY <1>13, <2>1, <2>2
<1>21. Tidy(doc, below, q, r.to, m)
  BY <1>1, <1>3, <1>20 DEF Topped, Tidy, Vacant
<1>22. /\ r \in Plans /\ cur \in Nat \ {0} /\ cur <= r.to /\ Len(doc.toks) \in Nat
       /\ Follows(doc, f, r, cur)
  BY <1>1, <1>3, <1>8, DocTokens DEF Topped, Follows
<1>23. \A a \in Spots : Reaches(f, a) => Open(below, q, a)
  BY <1>1, <1>3, <1>15, <1>18, <1>19 DEF Topped
<1>24. Tidy(doc, s, Append(q, r), cur, m)
  BY <1>4, <1>9, <1>20, <1>21, <1>22, <1>23, TidyPush
<1>25. OnTop(below, s) /\ \A c : Holds(f, c) => ~Unowned(s, m, c)
  BY <1>4, <1>9, OnTopPush DEF OnTop
<1> HIDE DEF s
<1>26. \A c : Held(c, heap') => (Held(c, heap) /\ (b # Null => c # o)) \/ c = b
  <2>1. CASE b = Null
    BY <1>2, <2>1
  <2>2. CASE b # Null
    <3>1. /\ h \in Seq(BlockRecs) /\ Len(h) = Len(heap)
          /\ \A c \in 1..Len(heap) :
               /\ h[c].slot = heap[c].slot
               /\ h[c].live = (heap[c].live /\ c \notin {o})
      BY <1>5, Freed DEF h
    <3>2. Block(cap) \in BlockRecs
      BY <1>7 DEF Block, BlockRecs
    <3>3. \A c : Held(c, heap') => Held(c, h) \/ c = Len(h) + 1
      BY <1>2, <2>2, <3>1, <3>2, HeldThen
    <3>4. \A c : Held(c, h) => Held(c, heap) /\ c # o
      BY <3>1 DEF Held
    <3> QED
      BY <1>6, <2>2, <3>1, <3>3, <3>4
  <2> QED
    BY <2>1, <2>2
<1>27. Holds(f, b) /\ \A c : Holds(top, c) => c = o
  BY <1>1, <1>8 DEF Holds, Keeps
<1>28. \A c : Held(c, heap') => Held(c, heap) \/ ~Unowned(s, m, c)
  BY <1>25, <1>26, <1>27
<1>29. \A c : \A a \in DOMAIN mem : Owns(mem[a], c) => ~Unowned(s, m, c)
  BY <1>14 DEF Unowned
<1>30. \A c : Holds(top, c) /\ Held(c, heap') => ~Unowned(s, m, c)
  <2> SUFFICES ASSUME Held(o, heap') PROVE ~Unowned(s, m, o)
    BY <1>27
  <2>1. b = Null \/ o = b
    BY <1>26
  <2>2. o = b
    BY <1>12, <2>1
  <2> QED
    BY <1>25, <1>27, <2>2
<1>31. Whole(doc, s, cur, m, heap')
  BY <1>1, <1>24, <1>25, <1>28, <1>29, <1>30, WholeStep
<1> QED
  BY <1>2, <1>31

\* A map is where it is to be; its slots are new.
LEMMA MapWhole ==
  ASSUME IInv, Whole(doc, stack, cur, mem, heap), EnterMap
  PROVE  Whole(doc, stack', cur', mem', heap')
<1> DEFINE p == top.dst
           ty == top.ty
           b == Len(heap) + 1
           w == MapWord(b, 0)
           m == Put(mem, p, w)
           h == Append(heap, Block(0))
           f == [op |-> "map", ty |-> ty, dst |-> p,
                 key |-> At(b + 1, 0), val |-> At(b + 1, 1)]
           s == Append(below, f)
<1>1. stack # <<>> /\ Reads("map")
  BY DEF EnterMap, Reads, In
<1>2. PICK q, r : Topped(q, r)
  BY <1>1, TopPlan
<1>3. /\ mem' = m /\ heap' = heap \o <<Block(0), Slot(2)>>
      /\ stack' = s /\ cur' = cur + 1
  BY DEF EnterMap
<1>4. /\ doc \in Docs /\ below \in Seq(Frames)
      /\ ty \in Types /\ ty.k = "map" /\ p \in Places /\ p \in Spots
      /\ Phrase("value", ty, {}, 0, cur, r.to) \in Phrases[doc]
      /\ r \in Plans /\ r.to \in Nat /\ cur \in Nat \ {0}
      /\ Tidy(doc, below, q, r.to, mem)
      /\ \A a \in Spots : Within(a, p) => Open(below, q, a)
      /\ \A a \in DOMAIN mem : mem[a].k \in Owning => ~Within(a, p)
      /\ \A c : ~Holds(top, c)
  BY <1>1, <1>2, TopValue
<1>5. heap \in Seq(BlockRecs) /\ Len(heap) \in Nat
  BY LenProperties DEF IInv, Safe
<1>6. /\ b \in Nat /\ b + 1 \in Nat /\ b # Null
      /\ b + 1 \notin 1..Len(heap) /\ b + 1 # Null
  BY <1>5 DEF Null
<1>7. Writable(p, below, heap) /\ Safe(below, mem, heap)
  BY <1>1, Reading
<1>8. p[1] # b + 1 /\ \A a \in DOMAIN mem : a[1] # b + 1
  BY <1>6, <1>7 DEF Writable, Safe, MemOK, Inside
<1>9. Phrase("map", ty, {}, 0, cur + 1, r.to) \in Phrases[doc]
  BY <1>4, ValueRead
<1>10. At(b + 1, 0) \in Places /\ At(b + 1, 1) \in Places /\ At(b + 1, 0)[1] = b + 1
  BY <1>6, AtPlace
<1>11. f \in Frames /\ f.op = "map" /\ f.ty = ty /\ f.dst = p /\ f.key[1] = b + 1
  BY <1>4, <1>10 DEF Frames
<1>12. \A c : Held(c, heap') => Held(c, heap) \/ c = b
  <2>1. /\ Block(0) \in BlockRecs /\ Slot(2) \in BlockRecs /\ Slot(2).slot
        /\ Len(h) = b /\ h \in Seq(BlockRecs)
    BY <1>5, AppendProperties DEF Block, Slot, BlockRecs
  <2>2. heap \o <<Block(0), Slot(2)>> = Append(h, Slot(2))
    <3>1. \A x, y \in BlockRecs : heap \o <<x, y>> = Append(Append(heap, x), y)
      BY <1>5
    <3> QED
      BY <2>1, <3>1
  <2> QED
    BY <1>3, <1>5, <2>1, <2>2, HeldThen
<1>13. /\ DOMAIN m = DOMAIN mem \union {p} /\ m[p] = w
       /\ \A a \in DOMAIN mem : a # p => m[a] = mem[a]
  BY DEF Put
<1>14. w.k \in Owning /\ Owns(w, b)
  BY DEF MapWord, Owns, Owning
<1> HIDE DEF f, m, b, h, p, ty, w
<1>15. Within(p, p)
  BY <1>4, WithinSelf
<1>16. Tidy(doc, below, q, r.to, m)
  <2>1. \A a \in DOMAIN m : m[a].k \in Owning => Open(below, q, a)
    BY <1>4, <1>13, <1>15 DEF Tidy, Vacant
  <2> QED
    BY <1>4, <2>1, TidyWords
<1>17. \A a : Claims(f, r, a) => a[1] = b + 1
  BY <1>11 DEF Claims
<1>18. \A a : Reaches(f, a) => Within(a, p) \/ a[1] = b + 1
  BY <1>11 DEF Reaches, OfMap
<1>19. \A a \in Spots : Reaches(f, a) => Open(below, q, a)
  BY <1>4, <1>6, <1>7, <1>18, FreshOpen
<1>20. \A a \in DOMAIN m : ~Claims(f, r, a)
  BY <1>8, <1>13, <1>17
<1>21. Follows(doc, f, r, cur + 1)
  BY <1>9, <1>11 DEF Follows
<1>22. cur + 1 \in Nat \ {0} /\ cur + 1 <= r.to /\ Len(doc.toks) \in Nat
  <2>1. cur + 1 \in Nat \ {0} /\ cur + 1 < r.to
    BY <1>4, <1>9, PhraseRead
  <2> QED
    BY <1>4, <2>1, DocTokens
<1>23. Tidy(doc, s, Append(q, r), cur + 1, m)
  BY <1>4, <1>11, <1>16, <1>19, <1>20, <1>21, <1>22, TidyPush
<1>24. OnTop(below, s)
  BY <1>4, <1>11, OnTopPush DEF OnTop
<1> HIDE DEF s
<1>25. ~Unowned(s, m, b)
  BY <1>13, <1>14 DEF Unowned
<1>26. \A c : \A a \in DOMAIN mem : Owns(mem[a], c) => ~Unowned(s, m, c)
  <2> SUFFICES ASSUME NEW c, NEW a \in DOMAIN mem, Owns(mem[a], c)
               PROVE  ~Unowned(s, m, c)
    OBVIOUS
  <2>1. a # p
    BY <1>4, <1>15 DEF Owns
  <2>2. a \in DOMAIN m /\ m[a] = mem[a]
    BY <1>13, <2>1
  <2> QED
    BY <2>2 DEF Unowned
<1>27. Whole(doc, s, cur + 1, m, heap')
  BY <1>1, <1>4, <1>12, <1>23, <1>24, <1>25, <1>26, WholeStep
<1> QED
  BY <1>3, <1>27

\* No frame claims a, but for a map that has lent it or may lend it: the map
\* with the slots of block b.
OpenBut(stk, pl, a, b) ==
  \A i \in 1..Len(stk) : Claims(stk[i], pl[i], a) =>
    Lent(stk, i, Len(stk)) \/ (stk[i].op = "map" /\ stk[i].key[1] = b)

\* It stays so when the map comes next.
LEMMA StillOpenBut ==
  ASSUME NEW stk \in Seq(Frames), NEW pl, NEW d, NEW c, Planned(d, stk, pl, c),
         NEW f \in Frames, NEW r, NEW a, NEW b, OpenBut(stk, pl, a, b),
         Claims(f, r, a) => f.op = "map" /\ f.key[1] = b
  PROVE  OpenBut(Append(stk, f), Append(pl, r), a, b)
<1> DEFINE n == Len(stk)
           t == Append(stk, f)
           p == Append(pl, r)
<1>1. pl \in Seq(Plans) /\ Len(pl) = n /\ n \in Nat
  BY LenProperties DEF Planned
<1>2. /\ Len(t) = n + 1 /\ t[n + 1] = f
      /\ \A i \in 1..n : t[i] = stk[i]
  BY <1>1, AppendProperties
<1>3. p[n + 1] = r /\ \A i \in 1..n : p[i] = pl[i]
  <2> DEFINE X == {pl[i] : i \in 1..n} \union {r}
  <2>1. pl \in Seq(X)
    <3>1. \A i \in 1..n : pl[i] \in X
      OBVIOUS
    <3> HIDE DEF X
    <3>2. pl = [i \in 1..n |-> pl[i]]
      BY <1>1
    <3> QED
      BY <1>1, <3>1, <3>2, SeqDef
  <2>2. r \in X
    OBVIOUS
  <2> HIDE DEF X
  <2> QED
    BY <1>1, <2>1, <2>2, AppendProperties
<1> HIDE DEF t, p
<1>4. ASSUME NEW i \in 1..Len(t), Claims(t[i], p[i], a)
      PROVE  Lent(t, i, Len(t)) \/ (t[i].op = "map" /\ t[i].key[1] = b)
  <2>1. CASE i = n + 1
    BY <1>2, <1>3, <1>4, <2>1
  <2>2. CASE i # n + 1
    <3>1. i \in 1..n /\ t[i] = stk[i] /\ p[i] = pl[i]
      BY <1>1, <1>2, <1>3, <2>2
    <3>2. Lent(stk, i, n) \/ (stk[i].op = "map" /\ stk[i].key[1] = b)
      BY <1>4, <3>1 DEF OpenBut
    <3>3. Lent(stk, i, n) => Lent(t, i, n + 1)
      BY <1>1, <1>2, <3>1, Lending
    <3> QED
      BY <1>2, <3>1, <3>2, <3>3
  <2> QED
    BY <2>1, <2>2
<1>5. OpenBut(t, p, a, b)
  BY <1>4 DEF OpenBut
<1> QED
  BY <1>5 DEF t, p

\* An insertion comes next, which the map lends its slots.
LEMMA TidyInsert ==
  ASSUME NEW d, Len(d.toks) \in Nat,
         NEW stk \in Seq(Frames), NEW pl, NEW e, NEW m, Tidy(d, stk, pl, e, m),
         NEW f \in Frames, f.op = "insert", NEW r \in Plans, r.to = e,
         \A a \in Spots : Reaches(f, a) => OpenBut(stk, pl, a, f.key[1])
  PROVE  /\ Tidy(d, Append(stk, f), Append(pl, r), e, m)
         /\ Append(stk, f) \in Seq(Frames)
         /\ \A a : OpenBut(stk, pl, a, f.key[1])
                     => Open(Append(stk, f), Append(pl, r), a)
<1> DEFINE n == Len(stk)
           t == Append(stk, f)
           p == Append(pl, r)
<1>1. Planned(d, stk, pl, e) /\ Separate(stk, pl) /\ Vacant(stk, pl, m)
  BY DEF Tidy
<1>2. /\ pl \in Seq(Plans) /\ Len(pl) = n /\ n \in Nat
      /\ e \in 1..(Len(d.toks) + 1)
  BY <1>1, LenProperties DEF Planned
<1>3. /\ t \in Seq(Frames) /\ Len(t) = n + 1 /\ t[n + 1] = f
      /\ \A i \in 1..n : t[i] = stk[i]
  BY <1>2, AppendProperties
<1>4. p[n + 1] = r /\ \A i \in 1..n : p[i] = pl[i]
  BY <1>2, AppendProperties
<1>5. e \in Nat \ {0} /\ e <= e /\ Follows(d, f, r, e)
  BY <1>2 DEF Follows
<1>6. Planned(d, t, p, e)
  BY <1>1, <1>5, PlannedPush
<1>7. \A a : ~Claims(f, r, a)
  BY DEF Claims
<1> HIDE DEF t, p, n
<1>8. Len(stk) = n
  BY DEF n
<1>9. ASSUME NEW i \in 1..n
      PROVE  Lent(t, i, n + 1) <=>
               \/ Lent(stk, i, n)
               \/ stk[i].op = "map" /\ f.key[1] = stk[i].key[1]
  BY <1>2, <1>3, <1>8, Lending
<1>10. Separate(t, p)
  <2>1. ASSUME NEW i \in 1..n, NEW a \in Spots, Reaches(f, a), Claims(stk[i], pl[i], a)
        PROVE  Lent(t, i, n + 1)
    BY <1>8, <1>9, <2>1 DEF OpenBut
  <2> QED
    BY <1>1, <1>2, <1>3, <1>4, <1>8, <2>1, Separating
<1>11. ASSUME NEW a, OpenBut(stk, pl, a, f.key[1])
       PROVE  Open(t, p, a)
  <2> SUFFICES ASSUME NEW i \in 1..Len(t), Claims(t[i], p[i], a)
               PROVE  Lent(t, i, n + 1)
    BY <1>3 DEF Open
  <2>1. i # n + 1
    BY <1>3, <1>4, <1>7
  <2>2. i \in 1..n /\ t[i] = stk[i] /\ p[i] = pl[i]
    BY <1>2, <1>3, <1>4, <2>1
  <2> QED
    BY <1>8, <1>9, <1>11, <2>2 DEF OpenBut
<1>12. Vacant(t, p, m)
  <2>1. \A a : Open(stk, pl, a) => OpenBut(stk, pl, a, f.key[1])
    BY DEF Open, OpenBut
  <2> QED
    BY <1>1, <1>11, <2>1 DEF Vacant
<1> QED
  BY <1>3, <1>6, <1>10, <1>11, <1>12 DEF Tidy, t, p

\* An entry is read to the slots that its map lends.
LEMMA EntryWhole ==
  ASSUME IInv, Whole(doc, stack, cur, mem, heap), ParseEntry
  PROVE  Whole(doc, stack', cur', mem', heap')
<1> DEFINE ty == top.ty
           b == top.key[1]
           str == [k |-> "str"]
           f == [op |-> "insert", dst |-> top.dst, key |-> top.key, val |-> top.val]
           v == Value(ty.val, top.val)
           w == Value(str, top.key)
           t2 == Append(stack, Comma)
           t3 == Append(t2, f)
           t4 == Append(t3, v)
           t5 == Append(t4, Colon)
           t6 == Append(t5, w)
<1>1. stack # <<>> /\ top.op = "map" /\ tok.t # "}" /\ OfMap(top)
  BY DEF ParseEntry, In, OfMap
<1>2. /\ stack' = stack \o <<Comma, f, v, Colon, w>>
      /\ cur' = cur /\ mem' = mem /\ heap' = heap
  BY DEF ParseEntry
<1>3. PICK q, r : Topped(q, r)
  BY <1>1, TopPlan
<1>4. /\ doc \in Docs /\ stack \in Seq(Frames) /\ below \in Seq(Frames)
      /\ top \in Frames /\ FrameOK(top, heap) /\ Len(doc.toks) \in Nat
      /\ cur \in Nat \ {0}
  BY <1>1, <1>3, TopFrame, DocTokens DEF Topped
<1>5. /\ ty.k = "map" /\ ty.val \in Types /\ str \in Types
      /\ top.key \in Places /\ top.val \in Places /\ top.dst \in Places
      /\ top.key = At(b, 0) /\ top.val = At(b, 1) /\ b \in Nat
  <2>1. ty.k = "map" /\ top.key = At(b, 0) /\ top.val = At(b, 1)
    BY <1>1, <1>4 DEF FrameOK, SlotsOK
  <2>2. /\ top.key \in Places /\ top.val \in Places /\ top.dst \in Places
        /\ ty \in Types
    BY <1>1, <1>4, FrameFields DEF Placed
  <2> QED
    BY <2>1, <2>2, TypeAssumption, PlaceParts
<1>6. stack = Append(below, top)
  BY <1>1, <1>4, StackTop DEF below, top
<1>7. Phrase("map", ty, {}, 0, cur, r.to) \in Phrases[doc]
  BY <1>1, <1>3 DEF Topped, Follows
<1>8. doc.toks[cur].t # "}"
  BY <1>1 DEF tok
<1>9. /\ f \in Frames /\ f.op = "insert" /\ f.dst = top.dst
      /\ f.key = top.key /\ f.val = top.val
  BY <1>5 DEF Frames
<1>10. v \in Frames /\ w \in Frames
  BY <1>5, ValueFrame
<1>11. \A a, x : Claims(top, x, a) <=> a[1] = b
  BY <1>1 DEF Claims
<1>12. \A a : Reaches(top, a) <=> Within(a, top.dst) \/ a[1] = b
  BY <1>1 DEF Reaches, OfMap, Placed
<1>13. \A a : Reaches(f, a) <=> Within(a, top.dst) \/ a[1] = b
  BY <1>9 DEF Reaches, OfMap, Placed
<1>14. top.ty = ty /\ top.key[1] = b /\ f.key[1] = b
  BY <1>9
<1>15. stack' = t6
  <2> HIDE DEF f, v, w
  <2>1. \A x1, x2, x3, x4, x5 \in Frames :
          stack \o <<x1, x2, x3, x4, x5>> =
            Append(Append(Append(Append(Append(stack, x1), x2), x3), x4), x5)
    BY <1>4
  <2> QED
    BY <1>2, <1>9, <1>10, <2>1, MarkFrame
<1> HIDE DEF ty, b, str, f
<1>16. PICK k \in Nat :
         /\ Phrase("value", str, {}, 0, cur, cur + 1) \in Phrases[doc]
         /\ Phrase("value", ty.val, {}, 0, cur + 2, k) \in Phrases[doc]
         /\ Phrase("map", ty, {}, 0, AfterComma(doc.toks, k), r.to) \in Phrases[doc]
  BY <1>4, <1>7, <1>8, MapRead DEF str
<1> DEFINE c == AfterComma(doc.toks, k)
           q1 == Append(q, r)
           q2 == Append(q1, [names |-> {}, to |-> c])
           rk == [names |-> {}, to |-> k]
           q3 == Append(q2, rk)
           q4 == Append(q3, rk)
           q5 == Append(q4, [names |-> {}, to |-> cur + 2])
           rs == [names |-> {}, to |-> cur + 1]
<1>17. rk \in Plans /\ rk.to = k /\ rs \in Plans /\ rs.to = cur + 1
  BY <1>4, <1>16, PhrasePlan
<1>18. k \in Nat \ {0}
  <2>1. cur + 2 \in Nat \ {0} /\ cur + 2 < k
    BY <1>4, <1>16, PhraseRead
  <2> QED
    BY <1>16, <2>1
<1>19. c \in Nat \ {0} /\ c <= r.to /\ r \in Plans
  <2>1. c \in Nat \ {0} /\ r.to \in Nat /\ c < r.to
    BY <1>4, <1>16, PhraseRead
  <2> QED
    BY <1>3, <2>1 DEF Topped
<1>20. Follows(doc, top, r, c)
  BY <1>1, <1>14, <1>16 DEF Follows
<1>21. c = AfterComma(doc.toks, k)
  OBVIOUS
<1> HIDE DEF c, rk, rs
<1>22. /\ Tidy(doc, below, q, r.to, mem)
       /\ \A a \in Spots : Reaches(top, a) => Open(below, q, a)
       /\ \A a \in DOMAIN mem : mem[a].k \in Owning => ~Claims(top, r, a)
  BY <1>1, <1>3, PlainSame, PlainWords DEF Topped
<1>23. Tidy(doc, stack, q1, c, mem)
  BY <1>4, <1>6, <1>19, <1>20, <1>22, TidyPush
<1>24. Tidy(doc, t2, q2, k, mem) /\ t2 \in Seq(Frames)
  <2>1. Comma \in {Comma, Colon} /\ Comma.op = "comma" /\ Comma.op # "colon"
    BY MarkFrame
  <2> QED
    BY <1>4, <1>18, <1>21, <1>23, <2>1, TidyMark
<1>25. ASSUME NEW a, Open(below, q, a)
       PROVE  OpenBut(t2, q2, a, b)
  <2>1. OpenBut(below, q, a, b)
    BY <1>25 DEF Open, OpenBut
  <2>2. Planned(doc, below, q, r.to) /\ Planned(doc, stack, q1, c)
    BY <1>22, <1>23 DEF Tidy
  <2>3. OpenBut(Append(below, top), q1, a, b)
    BY <1>1, <1>4, <1>14, <2>1, <2>2, StillOpenBut
  <2>4. OpenBut(stack, q1, a, b)
    BY <1>6, <2>3
  <2>5. ~Claims(Comma, [names |-> {}, to |-> c], a)
    BY MarkFrame DEF Claims
  <2> HIDE DEF q1
  <2> QED
    BY <1>4, <2>2, <2>4, <2>5, MarkFrame, StillOpenBut
<1>26. \A a \in Spots : Reaches(f, a) => OpenBut(t2, q2, a, f.key[1])
  BY <1>12, <1>13, <1>14, <1>22, <1>25
<1> HIDE DEF t2, q2
<1>27. /\ Tidy(doc, t3, q3, k, mem) /\ t3 \in Seq(Frames)
       /\ \A a : OpenBut(t2, q2, a, f.key[1]) => Open(t3, q3, a)
  BY <1>4, <1>9, <1>17, <1>24, <1>26, TidyInsert
<1>28. \A a \in Spots : a[1] = b => Open(t3, q3, a)
  BY <1>13, <1>14, <1>26, <1>27
<1>29. \A a \in DOMAIN mem : mem[a].k \in Owning => a[1] # b
  BY <1>11, <1>22
<1>30. \A a : Within(a, top.key) \/ Within(a, top.val) => a[1] = b
  <2>1. \A a, x : Within(a, x) => a[1] = x[1]
    BY DEF Within
  <2>2. At(b, 1)[1] = b
    BY <1>5, AtPlace
  <2> QED
    BY <1>5, <1>14, <2>1, <2>2
<1> HIDE DEF t3, q3
<1>31. /\ Tidy(doc, t4, q4, cur + 2, mem) /\ t4 \in Seq(Frames)
       /\ \A a : Open(t3, q3, a) /\ ~Within(a, top.val) => Open(t4, q4, a)
  BY <1>4, <1>5, <1>16, <1>17, <1>27, <1>28, <1>29, <1>30, TidyValue
<1> HIDE DEF t4, q4
<1>32. /\ Tidy(doc, t5, q5, cur + 1, mem) /\ t5 \in Seq(Frames)
       /\ \A a : Open(t4, q4, a) => Open(t5, q5, a)
  <2>1. Colon \in {Comma, Colon} /\ Colon.op = "colon" /\ Colon.op # "comma"
    BY MarkFrame
  <2>2. cur + 1 \in Nat \ {0} /\ cur + 2 = cur + 1 + 1
    BY <1>4
  <2> QED
    BY <1>4, <1>31, <2>1, <2>2, TidyMark
<1>33. \A a \in Spots : Within(a, top.key) => Open(t5, q5, a)
  <2> SUFFICES ASSUME NEW a \in Spots, Within(a, top.key)
               PROVE  Open(t5, q5, a)
    OBVIOUS
  <2>1. a \in Places /\ a[2] # <<>>
    BY DEF Spots
  <2>2. a[1] = b /\ a[2][1] = 0
    BY <1>5, <2>1, WithinAt
  <2>3. ~Within(a, top.val)
    BY <1>5, <2>1, <2>2, WithinAt
  <2> QED
    BY <1>28, <1>31, <1>32, <2>2, <2>3
<1> HIDE DEF t5, q5
<1>34. Tidy(doc, t6, Append(q5, rs), cur, mem)
  BY <1>4, <1>5, <1>16, <1>17, <1>29, <1>30, <1>32, <1>33, TidyValue
<1>35. OnTop(below, t6)
  <2>1. OnTop(below, stack)
    BY <1>4, <1>6, OnTopPush DEF OnTop
  <2>2. OnTop(below, t2)
    BY <1>4, <2>1, MarkFrame, OnTopPush DEF t2
  <2>3. OnTop(below, t3)
    BY <1>4, <1>9, <1>24, <2>2, OnTopPush DEF t3
  <2>4. OnTop(below, t4)
    BY <1>4, <1>10, <1>27, <2>3, OnTopPush DEF t4
  <2>5. OnTop(below, t5)
    BY <1>4, <1>31, <2>4, MarkFrame, OnTopPush DEF t5
  <2> QED
    BY <1>4, <1>10, <1>32, <2>5, OnTopPush
<1>36. \A c2 : ~Holds(top, c2)
  BY <1>1 DEF Holds, Keeps
<1> HIDE DEF t6
<1>37. Whole(doc, t6, cur, mem, heap)
  BY <1>1, <1>3, <1>34, <1>35, <1>36, PlainSame, WholePlain
<1> QED
  BY <1>2, <1>15, <1>37

\* What was moved is where it was moved to.
LEMMA MoveKeeps ==
  ASSUME NEW m, \A c \in DOMAIN m : c \in Places,
         NEW a \in Places, NEW b \in Places, a[1] # b[1],
         NEW c \in DOMAIN m, Within(c, a) \/ ~Within(c, b)
  PROVE  \E d \in DOMAIN Move(m, a, b) :
           /\ Move(m, a, b)[d] = m[c]
           /\ Within(d, b) \/ d = c
<1>1. CASE Within(c, a)
  <2> DEFINE d == Rebase(c, a, b)
  <2>1. Within(d, b) /\ Rebase(d, b, a) = c
    BY <1>1, RebaseBack
  <2>2. d \in DOMAIN Move(m, a, b)
    BY <1>1 DEF Move
  <2> HIDE DEF d
  <2>3. Origin(d, a, b) = c
    BY <2>1 DEF Origin
  <2>4. Move(m, a, b)[d] = m[Origin(d, a, b)]
    BY <2>2, MoveParts
  <2> QED
    BY <2>1, <2>2, <2>3, <2>4
<1>2. CASE ~Within(c, a)
  BY <1>2, MoveParts
<1> QED
  BY <1>1, <1>2

\* The slots' words are a key's and a value's.
LEMMA InSlots ==
  ASSUME IInv, In("insert"), NEW a \in DOMAIN mem
  PROVE  /\ a[1] = top.key[1] <=> Within(a, <<top.key[1], <<>>>>)
         /\ a[1] = top.key[1] <=> Within(a, top.key) \/ Within(a, top.val)
         /\ ~(Within(a, top.key) /\ Within(a, top.val))
<1> DEFINE s == top.key[1]
<1>1. stack # <<>> /\ top.op = "insert"
  BY DEF In
<1>2. s \in Nat /\ top.key = At(s, 0) /\ top.val = At(s, 1) /\ Safe(below, mem, heap)
  BY TopInsert
<1>3. a \in Places /\ a[2] # <<>> /\ a[2][1] < heap[a[1]].room
  BY <1>2 DEF Safe, MemOK, Inside
<1>4. heap[s].room = 2
  BY <1>1, TopFrame DEF FrameOK, SlotsOK, OfMap
<1>5. a[2] \in Seq(Nat) /\ Len(a[2]) \in Nat \ {0} /\ a[2][1] \in Nat
  <2>1. a[2] \in Seq(Nat) /\ Len(a[2]) \in Nat \ {0}
    BY <1>3, PlaceParts, EmptySeq, LenProperties
  <2>2. 1 \in 1..Len(a[2])
    BY <2>1
  <2> QED
    BY <2>1, <2>2, ElementOfSeq
<1>6. a[1] = s => a[2][1] \in {0, 1}
  BY <1>3, <1>4, <1>5
<1> HIDE DEF s
<1>7. Within(a, <<s, <<>>>>) <=> a[1] = s
  <2>1. <<s, <<>>>> \in Places /\ Len(<<>>) = 0
    BY <1>2, EmptySeq DEF Places
  <2>2. Within(a, <<s, <<>>>>) <=>
          /\ a[1] = <<s, <<>>>>[1] /\ Len(a[2]) >= Len(<<s, <<>>>>[2])
          /\ \A j \in 1..Len(<<s, <<>>>>[2]) : a[2][j] = <<s, <<>>>>[2][j]
    BY <1>3, <2>1, WithinPath
  <2> QED
    BY <1>5, <2>1, <2>2
<1>8. /\ Within(a, At(s, 0)) <=> a[1] = s /\ a[2][1] = 0
      /\ Within(a, At(s, 1)) <=> a[1] = s /\ a[2][1] = 1
  BY <1>2, <1>3, WithinAt
<1> QED
  BY <1>2, <1>6, <1>7, <1>8 DEF s

\* A key and a value that are new go to the map, and what they own with them.
LEMMA InsertNewWhole ==
  ASSUME IInv, Whole(doc, stack, cur, mem, heap), InsertNew
  PROVE  Whole(doc, stack', cur', mem', heap')
<1> DEFINE p == top.dst
           s == top.key[1]
           map == mem[p]
           a == <<s, <<>>>>
           b == Entry(map.len)
           w == MapWord(map.ptr, map.len + 1)
           n == Move(mem, a, b)
           m == Put(n, p, w)
           h == [heap EXCEPT ![map.ptr].room = @ + 1]
<1>1. In("insert") /\ stack # <<>> /\ top.op = "insert"
  BY DEF InsertNew, In
<1>2. stack' = below /\ mem' = m /\ heap' = h /\ cur' = cur
  BY DEF InsertNew
<1>3. PICK q, r : Topped(q, r)
  BY <1>1, TopPlan
<1>4. /\ Safe(below, mem, heap) /\ below \in Seq(Frames)
      /\ p \in DOMAIN mem /\ map.k = "map"
      /\ s \in Nat /\ p[1] # s /\ p[1] # map.ptr /\ map.ptr # s
      /\ map.ptr \in Nat \ {Null} /\ map.len \in Nat
      /\ heap[map.ptr].room = map.len
      /\ \A c \in DOMAIN mem : c \in Places
  BY <1>1, TopInsert
<1>5. a \in Places /\ a[1] = s
  BY <1>4, EmptySeq DEF Places
<1>6. /\ b \in Places /\ b[1] = map.ptr /\ b[2] # <<>> /\ b[2][1] = map.len
  BY <1>4, AtPlace DEF Entry
<1>7. \A c \in DOMAIN mem : c[1] = s <=> Within(c, a)
  BY <1>1, InSlots
<1>8. /\ DOMAIN m = DOMAIN n \union {p} /\ m[p] = w
      /\ \A c \in DOMAIN n : c # p => m[c] = n[c]
  BY DEF Put
<1>9. \A c \in DOMAIN mem : ~Within(c, b)
  <2> SUFFICES ASSUME NEW c \in DOMAIN mem, Within(c, b) PROVE FALSE
    OBVIOUS
  <2>1. c[1] = map.ptr /\ c[2][1] = map.len
    BY <1>4, <1>6, WithinElement
  <2>2. c[2][1] < heap[c[1]].room
    BY <1>4 DEF Safe, MemOK, Inside
  <2> QED
    BY <1>4, <2>1, <2>2
<1>10. \A c : Held(c, h) => Held(c, heap)
  <2>1. /\ Len(h) = Len(heap)
        /\ \A c \in 1..Len(heap) : h[c].live = heap[c].live /\ h[c].slot = heap[c].slot
    <3>1. heap \in Seq(BlockRecs)
      BY <1>4 DEF Safe
    <3> QED
      BY <1>4, <3>1, GrowMap DEF BlockRecs
  <2> QED
    BY <2>1 DEF Held
<1>11. w.k = "map" /\ w.ptr = map.ptr /\ map.k \in Owning /\ Owns(map, map.ptr)
  BY <1>4 DEF MapWord, Owning, Owns
<1> HIDE DEF a, b, w, n, m, h
<1>12. a[1] # b[1]
  BY <1>4, <1>5, <1>6
<1>13. \A d \in DOMAIN n :
         \/ Within(d, b)
         \/ d \in DOMAIN mem /\ n[d] = mem[d] /\ ~Within(d, a)
  <2> SUFFICES ASSUME NEW d \in DOMAIN n, ~Within(d, b)
               PROVE  d \in DOMAIN mem /\ n[d] = mem[d] /\ ~Within(d, a)
    OBVIOUS
  <2> QED
    BY <1>4, <1>5, <1>6, <1>12, MoveParts DEF n
<1>14. \A d \in DOMAIN m : m[d].k \in Owning => Open(below, q, d)
  <2> SUFFICES ASSUME NEW d \in DOMAIN m, m[d].k \in Owning
               PROVE  Open(below, q, d)
    OBVIOUS
  <2>1. CASE d = p
    BY <1>1, <1>3, <1>4, <1>11, <2>1 DEF Topped
  <2>2. CASE d # p /\ Within(d, b)
    <3>1. d[1] = map.ptr
      BY <1>6, <2>2 DEF Within
    <3> QED
      BY <1>4, <1>11, <3>1, OwnedOpen
  <2>3. CASE d # p /\ ~Within(d, b)
    <3>1. d \in DOMAIN mem /\ m[d] = mem[d] /\ d[1] # s
      BY <1>7, <1>8, <1>13, <2>3
    <3> QED
      BY <1>1, <1>3, <3>1 DEF Topped
  <2> QED
    BY <2>1, <2>2, <2>3
<1>15. Tidy(doc, below, q, r.to, m) /\ r.to = cur
  BY <1>1, <1>3, <1>14 DEF Topped, Tidy, Vacant, Follows
<1>16. OnTop(below, below)
  BY <1>4, LenProperties DEF OnTop
<1>17. \A c : \A e \in DOMAIN mem : Owns(mem[e], c) => ~Unowned(below, m, c)
  <2> SUFFICES ASSUME NEW c, NEW e \in DOMAIN mem, Owns(mem[e], c)
               PROVE  ~Unowned(below, m, c)
    OBVIOUS
  <2>1. CASE e = p
    <3>1. c = map.ptr
      BY <2>1 DEF Owns
    <3>2. w.k \in Owning
      BY <1>11 DEF Owning
    <3>3. Owns(m[p], c) /\ p \in DOMAIN m
      BY <1>8, <1>11, <3>1, <3>2 DEF Owns
    <3> QED
      BY <3>3 DEF Unowned
  <2>2. CASE e # p
    <3>1. PICK d \in DOMAIN n : n[d] = mem[e] /\ (Within(d, b) \/ d = e)
      BY <1>4, <1>5, <1>6, <1>9, <1>12, MoveKeeps DEF n
    <3>2. d # p
      BY <1>4, <1>6, <2>2, <3>1 DEF Within
    <3>3. d \in DOMAIN m /\ m[d] = mem[e]
      BY <1>8, <3>1, <3>2
    <3> QED
      BY <3>3 DEF Unowned
  <2> QED
    BY <2>1, <2>2
<1>18. \A c : ~Holds(top, c)
  BY <1>1 DEF Holds, Keeps
<1>19. Whole(doc, below, cur, m, h)
  BY <1>1, <1>10, <1>15, <1>16, <1>17, <1>18, WholeStep
<1> QED
  BY <1>2, <1>19

\* Blocks are to be freed next.
LEMMA TidyDrops ==
  ASSUME NEW d \in Docs,
         NEW stk \in Seq(Frames), NEW pl, NEW c \in Nat \ {0}, NEW m,
         Tidy(d, stk, pl, c, m), NEW B \in SUBSET Nat
  PROVE  /\ \E pl2 : Tidy(d, Append(stk, Drops(B)), pl2, c, m)
         /\ Drops(B) \in Frames
         /\ \A b \in B : Holds(Drops(B), b)
<1> DEFINE f == Drops(B)
           r == [names |-> {}, to |-> c]
<1>1. f \in Frames /\ f.op = "drop" /\ f.blocks = B
  BY DEF Frames, Drops
<1> HIDE DEF f
<1>2. r \in Plans /\ r.to = c /\ c <= c
  BY DEF Plans
<1> HIDE DEF r
<1>3. Follows(d, f, r, c) /\ \A a : ~Reaches(f, a) /\ ~Claims(f, r, a)
  BY <1>1, <1>2 DEF Follows, Reaches, Placed, Claims
<1>4. Len(d.toks) \in Nat
  BY DocAssumption, LenProperties
<1>5. Tidy(d, Append(stk, f), Append(pl, r), c, m)
  BY <1>1, <1>2, <1>3, <1>4, TidyPush
<1>6. \A b \in B : Holds(f, b)
  BY <1>1 DEF Holds
<1> QED
  BY <1>1, <1>5, <1>6 DEF f

\* A value that is replaced is dropped, and the key that is not needed.
LEMMA InsertOverWhole ==
  ASSUME IInv, Whole(doc, stack, cur, mem, heap), InsertOver
  PROVE  Whole(doc, stack', cur', mem', heap')
<1> DEFINE p == top.dst
           s == top.key[1]
           map == mem[p]
           a == top.val
           m1 == Clear(mem, top.key)
<1>1. In("insert") /\ stack # <<>> /\ top.op = "insert"
  BY DEF InsertOver, In
<1>2. PICK i \in Present :
        /\ mem' = Move(m1, a, Part(Entry(i), 1))
        /\ stack' = Append(below, Drops(BlocksOf(Part(Entry(i), 1))
                                          \union BlocksOf(top.key)))
  BY DEF InsertOver
<1>3. heap' = heap /\ cur' = cur
  BY DEF InsertOver
<1>4. PICK q, r : Topped(q, r)
  BY <1>1, TopPlan
<1> DEFINE b == Part(Entry(i), 1)
           B == BlocksOf(b) \union BlocksOf(top.key)
           m == Move(m1, a, b)
           f == Drops(B)
           t == Append(below, f)
<1>5. /\ Safe(below, mem, heap) /\ below \in Seq(Frames) /\ p \in DOMAIN mem
      /\ map.k = "map"
      /\ s \in Nat /\ map.ptr # s /\ top.key = At(s, 0) /\ a = At(s, 1)
      /\ map.ptr \in Nat \ {Null} /\ map.len \in Nat
      /\ \A c \in DOMAIN mem : c \in Places
  BY <1>1, TopInsert
<1>6. i \in Nat
  BY <1>5 DEF Present
<1>7. a \in Places /\ a[1] = s /\ top.key \in Places
  BY <1>5, AtPlace
<1>8. b \in Places /\ b[1] = map.ptr
  <2>1. /\ Entry(i) \in Places /\ Entry(i)[1] = map.ptr /\ Entry(i)[2] # <<>>
    BY <1>5, <1>6, AtPlace DEF Entry
  <2> QED
    BY <2>1, PartPlace
<1>9. /\ DOMAIN m1 \subseteq DOMAIN mem
      /\ \A c \in DOMAIN m1 : m1[c] = mem[c] /\ ~Within(c, top.key)
      /\ \A c \in DOMAIN mem : ~Within(c, top.key) => c \in DOMAIN m1
  BY DEF Clear
<1>10. \A c : \A e \in DOMAIN mem :
         Owns(mem[e], c) /\ c # Null /\ (Within(e, b) \/ Within(e, top.key))
           => c \in B
  BY DEF BlocksOf, Pointees, Owns
<1>11. B \in SUBSET Nat
  <2>1. \A c \in B : \E e \in DOMAIN mem : mem[e].k \in Owning /\ c = mem[e].ptr
    BY DEF BlocksOf, Pointees
  <2> HIDE DEF B
  <2> QED
    BY <1>5, <2>1 DEF Safe, MemOK, WordOK
<1>12. Owns(map, map.ptr) /\ map.k \in Owning
  BY <1>5 DEF Owns, Owning
<1>13. \A c \in DOMAIN mem : c[1] = s <=> Within(c, top.key) \/ Within(c, a)
  BY <1>1, InSlots
<1>14. \A c \in DOMAIN mem : ~(Within(c, top.key) /\ Within(c, a))
  BY <1>1, InSlots
<1>15. stack' = t /\ mem' = m
  BY <1>2
<1> HIDE DEF b, m1, m, B
<1>16. a[1] # b[1] /\ \A c \in DOMAIN m1 : c \in Places
  BY <1>5, <1>7, <1>8, <1>9
<1>17. \A d \in DOMAIN m :
         \/ Within(d, b)
         \/ d \in DOMAIN mem /\ m[d] = mem[d] /\ d[1] # s
  <2> SUFFICES ASSUME NEW d \in DOMAIN m, ~Within(d, b)
               PROVE  d \in DOMAIN mem /\ m[d] = mem[d] /\ d[1] # s
    OBVIOUS
  <2>1. d \in DOMAIN m1 /\ m[d] = m1[d] /\ ~Within(d, a)
    BY <1>7, <1>8, <1>16, MoveParts DEF m
  <2> QED
    BY <1>9, <1>13, <2>1
<1>18. \A d \in DOMAIN m : m[d].k \in Owning => Open(below, q, d)
  <2> SUFFICES ASSUME NEW d \in DOMAIN m, m[d].k \in Owning
               PROVE  Open(below, q, d)
    OBVIOUS
  <2>1. CASE Within(d, b)
    <3>1. d[1] = map.ptr
      BY <1>8, <2>1 DEF Within
    <3> QED
      BY <1>5, <1>12, <3>1, OwnedOpen
  <2>2. CASE ~Within(d, b)
    BY <1>1, <1>4, <1>17, <2>2 DEF Topped
  <2> QED
    BY <2>1, <2>2
<1>19. /\ Tidy(doc, below, q, cur, m) /\ cur \in Nat \ {0} /\ doc \in Docs
  BY <1>1, <1>4, <1>18 DEF Topped, Tidy, Vacant, Follows, IInv
<1>20. PICK pl : Tidy(doc, t, pl, cur, m)
  BY <1>5, <1>11, <1>19, TidyDrops
<1>21. f \in Frames /\ \A c \in B : Holds(f, c)
  BY <1>5, <1>11, <1>19, TidyDrops
<1> HIDE DEF f
<1>22. OnTop(below, t) /\ \A c : Holds(f, c) => ~Unowned(t, m, c)
  BY <1>5, <1>21, OnTopPush DEF OnTop
<1> HIDE DEF t
<1>23. \A c : \A e \in DOMAIN mem :
         Owns(mem[e], c) /\ Held(c, heap) => ~Unowned(t, m, c)
  <2> SUFFICES ASSUME NEW c, NEW e \in DOMAIN mem, Owns(mem[e], c), Held(c, heap)
               PROVE  ~Unowned(t, m, c)
    OBVIOUS
  <2>1. c # Null
    BY LenProperties DEF Held, Null
  <2>2. CASE Within(e, b) \/ Within(e, top.key)
    BY <1>10, <1>21, <1>22, <2>1, <2>2
  <2>3. CASE ~Within(e, b) /\ ~Within(e, top.key)
    <3>1. e \in DOMAIN m1 /\ m1[e] = mem[e]
      BY <1>9, <2>3
    <3>2. \E d \in DOMAIN Move(m1, a, b) : Move(m1, a, b)[d] = m1[e]
      <4> HIDE DEF a
      <4> QED
        BY <1>7, <1>8, <1>16, <2>3, <3>1, MoveKeeps
    <3>3. PICK d \in DOMAIN m : m[d] = mem[e]
      BY <3>1, <3>2 DEF m
    <3> QED
      BY <3>3 DEF Unowned
  <2> QED
    BY <2>2, <2>3
<1>24. \A c : ~Holds(top, c)
  BY <1>1 DEF Holds, Keeps
<1>25. Whole(doc, t, cur, m, heap)
  BY <1>1, <1>20, <1>22, <1>23, <1>24, WholeStep
<1> QED
  BY <1>3, <1>15, <1>25

\* What the words in freed blocks own is freed next.
LEMMA DropWhole ==
  ASSUME IInv, Whole(doc, stack, cur, mem, heap), Drop
  PROVE  Whole(doc, stack', cur', mem', heap')
<1> DEFINE B == top.blocks
           C == Pointees({a \in DOMAIN mem : a[1] \in B})
           m == Forget(mem, B)
           h == Free(heap, B)
           t == Append(below, Drops(C))
<1>1. stack # <<>> /\ top.op = "drop" /\ top.op # "insert"
  BY DEF Drop, In
<1>2. /\ stack' = IF C = {} THEN below ELSE t
      /\ heap' = h /\ mem' = m /\ cur' = cur
  BY DEF Drop
<1>3. PICK q, r : Topped(q, r)
  BY <1>1, TopPlan
<1>4. Safe(below, mem, heap) /\ below \in Seq(Frames) /\ heap \in Seq(BlockRecs)
  BY <1>1, TopFrame DEF Safe
<1>5. /\ \A a \in DOMAIN m : a \in DOMAIN mem /\ m[a] = mem[a]
      /\ \A a \in DOMAIN mem : a[1] \notin B => a \in DOMAIN m /\ m[a] = mem[a]
  BY DEF Forget
<1>6. /\ Len(h) = Len(heap)
      /\ \A b \in 1..Len(heap) :
           h[b].slot = heap[b].slot /\ h[b].live = (heap[b].live /\ b \notin B)
  BY <1>4, Freed
<1>7. \A c : \A a \in DOMAIN mem :
        Owns(mem[a], c) /\ c # Null /\ a[1] \in B => c \in C
  BY DEF Pointees, Owns
<1>8. C \in SUBSET Nat
  <2>1. \A c \in C : \E e \in DOMAIN mem : mem[e].k \in Owning /\ c = mem[e].ptr
    BY DEF Pointees
  <2> HIDE DEF C
  <2> QED
    BY <1>4, <2>1 DEF Safe, MemOK, WordOK
<1> HIDE DEF m, h, C
<1>9. \A c : Held(c, h) => Held(c, heap) /\ c # Null /\ c \notin B
  <2>1. \A c \in 1..Len(heap) : c # Null
    BY <1>4, LenProperties DEF Null
  <2> QED
    BY <1>6, <2>1 DEF Held
<1>10. \A a \in DOMAIN m : m[a].k \in Owning => Open(below, q, a)
  BY <1>1, <1>3, <1>5 DEF Topped
<1>11. /\ Tidy(doc, below, q, cur, m) /\ cur \in Nat \ {0} /\ doc \in Docs
  BY <1>1, <1>3, <1>10 DEF Topped, Tidy, Vacant, Follows, IInv
<1>12. \A c : Holds(top, c) => c \in B
  BY <1>1 DEF Holds, Keeps
<1>13. ASSUME NEW stk, NEW pl, OnTop(below, stk), Tidy(doc, stk, pl, cur, m),
              \A c \in C : ~Unowned(stk, m, c)
       PROVE  Whole(doc, stk, cur, m, h)
  <2>1. \A c : \A a \in DOMAIN mem :
          Owns(mem[a], c) /\ Held(c, h) => ~Unowned(stk, m, c)
    <3> SUFFICES ASSUME NEW c, NEW a \in DOMAIN mem, Owns(mem[a], c), Held(c, h)
                 PROVE  ~Unowned(stk, m, c)
      OBVIOUS
    <3>1. CASE a[1] \in B
      BY <1>7, <1>9, <1>13, <3>1
    <3>2. CASE a[1] \notin B
      BY <1>5, <3>2 DEF Unowned
    <3> QED
      BY <3>1, <3>2
  <2> QED
    BY <1>1, <1>9, <1>12, <1>13, <2>1, WholeStep
<1>14. CASE C = {}
  <2>1. OnTop(below, below)
    BY <1>4, LenProperties DEF OnTop
  <2>2. Whole(doc, below, cur, m, h)
    BY <1>11, <1>13, <1>14, <2>1
  <2> QED
    BY <1>2, <1>14, <2>2
<1>15. CASE C # {}
  <2>1. PICK pl : Tidy(doc, t, pl, cur, m)
    BY <1>4, <1>8, <1>11, TidyDrops
  <2>2. Drops(C) \in Frames /\ \A c \in C : Holds(Drops(C), c)
    BY <1>4, <1>8, <1>11, TidyDrops
  <2>3. OnTop(below, t) /\ \A c \in C : ~Unowned(t, m, c)
    BY <1>4, <2>2, OnTopPush DEF OnTop
  <2> HIDE DEF t
  <2>4. Whole(doc, t, cur, m, h)
    BY <1>13, <2>1, <2>3
  <2> QED
    BY <1>2, <1>15, <2>4
<1> QED
  BY <1>14, <1>15

-----------------------------------------------------------------------------
(* All that the code does.                                                 *)

\* Before the first token all of the document is to be read.
LEMMA InitWhole ==
  ASSUME Init
  PROVE  Whole(doc, stack, cur, mem, heap)
<1> DEFINE a == At(1, 0)
           e == Len(doc.toks) + 1
           r == [names |-> {}, to |-> e]
           f == Value(doc.ty, a)
<1>1. doc \in Docs /\ doc.ty \in Types /\ Len(doc.toks) \in Nat
  BY DocAssumption, LenProperties DEF Init
<1>2. Phrase("value", doc.ty, {}, 0, 1, e) \in Phrases[doc]
  BY <1>1, PhraseAssumption DEF ValuePhrase
<1>3. r \in Plans /\ r.to = e /\ e \in 1..e
  <2>1. r \in Plans
    BY <1>1, <1>2, PhrasePlan
  <2>2. e \in 1..e
    BY <1>1
  <2> QED
    BY <2>1, <2>2
<1>4. a \in Places
  BY AtPlace
<1> DEFINE none == [i \in {} |-> None]
<1>5. stack = <<f>> /\ cur = 1 /\ mem = none /\ heap = <<Slot(1)>>
  BY DEF Init
<1> HIDE DEF e, r, a
<1>6. Tidy(doc, <<>>, <<>>, e, none)
  <2>1. Planned(doc, <<>>, <<>>, e)
    <3>1. <<>> \in Seq(Plans) /\ Len(<<>>) = 0
      BY EmptySeq
    <3> QED
      BY <1>3, <3>1 DEF Planned, e
  <2>2. Separate(<<>>, <<>>) /\ Vacant(<<>>, <<>>, none)
    BY DEF Separate, Vacant
  <2> QED
    BY <2>1, <2>2 DEF Tidy
<1>7. <<>> \in Seq(Frames) /\ \A x : Open(<<>>, <<>>, x)
  BY EmptySeq DEF Open
<1>8. Tidy(doc, Append(<<>>, f), Append(<<>>, r), 1, none)
  <2>1. \A x \in DOMAIN none : FALSE
    OBVIOUS
  <2> HIDE DEF none
  <2> QED
    BY <1>1, <1>2, <1>3, <1>4, <1>6, <1>7, <2>1, TidyValue
<1>9. Append(<<>>, f) = <<f>>
  OBVIOUS
<1>10. Kept(stack, mem, heap)
  <2>1. Len(heap) = 1 /\ heap[1] = Slot(1)
    BY <1>5
  <2>2. \A b \in 1..Len(heap) : b = 1
    BY <2>1
  <2> QED
    BY <2>1, <2>2 DEF Kept, Slot
<1> QED
  BY <1>5, <1>8, <1>9, <1>10 DEF Whole

\* Every step of the code reads what is to be read, and loses nothing.
LEMMA StepWhole ==
  ASSUME IInv, Whole(doc, stack, cur, mem, heap), [Next]_vars
  PROVE  Whole(doc, stack, cur, mem, heap)'
<1>1. CASE UNCHANGED vars
  BY <1>1 DEF vars
<1>2. CASE Parse
  <2>1. doc' = doc
    BY <1>2 DEF Parse, ParseInt, ParseBool, ParseChar, ParseStr, ParseUnit,
       ParseNone, ParseSome, StoreTag, ParseBox, StoreBox, CallRef,
       EnterStruct, ParseField, SkipField, ParseComma, EndStruct,
       EnterTuple, ParseItem, EndTuple, EnterVec, Grow, ParseElem, EndVec,
       EnterMap, ParseEntry, ParseColon, InsertNew, InsertOver, Drop
  <2>2. Whole(doc, stack', cur', mem', heap')
    BY <1>2, ScalarsWhole, StrWhole, EndsWhole, NoneWhole, SomeWhole, TagWhole,
       BoxWhole, BoxKept, RefWhole, StructWhole, FieldWhole, SkipWhole,
       TupleWhole, ItemWhole, VecWhole, GrowWhole, ElemWhole, VecKept,
       MapWhole, EntryWhole, InsertNewWhole, InsertOverWhole, DropWhole DEF Parse
  <2> QED
    BY <2>1, <2>2
<1> QED
  BY <1>1, <1>2 DEF Next

\* The inductive invariant: memory is safe, the stack reads what is left of
\* the document, and nothing that is owned is written over.
JInv == IInv /\ Whole(doc, stack, cur, mem, heap)

\* While the code reads, there are tokens for it.
LEMMA TokensLeft ==
  ASSUME JInv
  PROVE  CursorInDoc
  BY CursorPlanned DEF JInv, Whole, Tidy

\* The invariant holds throughout.
THEOREM StaysWhole == Spec => []JInv
<1>1. Init => JInv
  BY InitSafe, InitWhole DEF JInv
<1>2. JInv /\ [Next]_vars => JInv'
  <2> SUFFICES ASSUME JInv, [Next]_vars PROVE JInv'
    OBVIOUS
  <2>1. IInv'
    BY TokensLeft, StepSafe DEF JInv
  <2>2. Whole(doc, stack, cur, mem, heap)'
    BY StepWhole DEF JInv
  <2> QED
    BY <2>1, <2>2 DEF JInv
<1> QED
  BY <1>1, <1>2, PTL DEF Spec

\* What the parser writes stays safe.
THEOREM StaysSafe == Spec => []IInv
<1>1. JInv => IInv
  BY DEF JInv
<1> QED
  BY <1>1, StaysWhole, PTL

\* There is a token wherever the code reads one.
THEOREM ReadsTokens == Spec => []CursorInDoc
<1>1. JInv => CursorInDoc
  BY TokensLeft
<1> QED
  BY <1>1, StaysWhole, PTL

\* Every word is in a live block and inside of it, and so is every place that
\* the code still means to write.
THEOREM WritesInBounds == Spec => []InBounds
<1>1. IInv => InBounds
  <2> SUFFICES ASSUME IInv PROVE InBounds
    OBVIOUS
  <2>1. Safe(stack, mem, heap) /\ stack \in Seq(Frames)
    BY DEF IInv, Safe
  <2>2. \A b \in 1..Len(heap) : b # Null
    BY <2>1, LenProperties DEF Safe, Null
  <2>3. \A a \in DOMAIN mem : a[1] # Null /\ InBlock(a)
    BY <2>1, <2>2 DEF Safe, MemOK, Inside, InBlock
  <2>4. ASSUME NEW i \in 1..Len(stack)
        PROVE  /\ Placed(stack[i]) => InBlock(stack[i].dst)
               /\ stack[i].op = "vec" /\ stack[i].base # Null =>
                    /\ heap[stack[i].base].live
                    /\ stack[i].cap = heap[stack[i].base].room
    <3>1. stack[i] \in Frames /\ FrameOK(stack[i], heap)
      BY <2>1, ElementOfSeq DEF Safe
    <3>2. Placed(stack[i]) => InBlock(stack[i].dst)
      BY <3>1 DEF FrameOK, DstOK, Inside, InBlock
    <3>3. stack[i].op = "vec" /\ stack[i].base # Null =>
            stack[i].base \in Nat \ {Null} /\ Holds(stack[i], stack[i].base)
      BY <3>1, FrameFields DEF Holds, Keeps
    <3> QED
      BY <3>1, <3>2, <3>3 DEF FrameOK, VecOK, Held
  <2> QED
    BY <2>3, <2>4 DEF InBounds
<1> QED
  BY <1>1, StaysSafe, PTL

\* No block has two owners, and what was freed has none.
THEOREM OwnedOnce == Spec => []OneOwner
<1>1. IInv => OneOwner
  <2> SUFFICES ASSUME IInv, NEW b \in 1..Len(heap), ~heap[b].slot
               PROVE  /\ \A x, y \in Owners(b) : x = y
                      /\ Owners(b) # {} => heap[b].live
    BY DEF OneOwner
  <2>1. Safe(stack, mem, heap)
    BY DEF IInv
  <2>2. b \in Nat \ {Null}
    BY <2>1, LenProperties DEF Safe, Null
  <2>3. \A x \in Owners(b) :
          \/ \E a \in DOMAIN mem : Owns(mem[a], b) /\ x = <<"mem", a>>
          \/ \E i \in 1..Len(stack) : Holds(stack[i], b) /\ x = <<"code", i>>
    BY DEF Owners, Owns, Holds, Keeps
  <2>4. Sole(stack, mem)
    BY <2>1 DEF Safe
  <2>5. \A x, y \in Owners(b) : x = y
    BY <2>2, <2>3, <2>4 DEF Sole
  <2>6. ASSUME NEW x \in Owners(b) PROVE heap[b].live
    <3>1. ASSUME NEW a \in DOMAIN mem, Owns(mem[a], b) PROVE heap[b].live
      BY <2>1, <2>2, <3>1 DEF Safe, MemOK, WordOK, Owns, Held
    <3>2. ASSUME NEW i \in 1..Len(stack), Holds(stack[i], b) PROVE heap[b].live
      BY <2>1, <2>2, <3>2 DEF Safe, FrameOK, Held
    <3> QED
      BY <2>3, <3>1, <3>2
  <2> QED
    BY <2>5, <2>6
<1> QED
  BY <1>1, StaysSafe, PTL

\* The variables have their types.
THEOREM TypesKept == Spec => []TypeOK
<1>1. IInv /\ CursorInDoc => TypeOK
  BY DEF IInv, Safe, MemOK, WordOK, Inside, TypeOK, BlockRecs
<1> QED
  BY <1>1, StaysSafe, ReadsTokens, PTL

\* Every block has an owner until it is freed.
THEOREM NothingIsLost == Spec => []NothingLeaks
<1>1. JInv => NothingLeaks
  <2> SUFFICES ASSUME JInv, NEW b \in 1..Len(heap), heap[b].live, ~heap[b].slot
               PROVE  Owners(b) # {}
    BY DEF NothingLeaks
  <2>1. ~Unowned(stack, mem, b)
    BY DEF JInv, Whole, Kept
  <2>2. ASSUME NEW a \in DOMAIN mem, Owns(mem[a], b) PROVE Owners(b) # {}
    BY <2>2 DEF Owns, Owners
  <2>3. ASSUME NEW i \in 1..Len(stack), Holds(stack[i], b) PROVE Owners(b) # {}
    BY <2>3 DEF Holds, Keeps, Owners
  <2> QED
    BY <2>1, <2>2, <2>3 DEF Unowned
<1> QED
  BY <1>1, StaysWhole, PTL
=============================================================================
