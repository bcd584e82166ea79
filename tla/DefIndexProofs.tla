--------------------------- MODULE DefIndexProofs ---------------------------
(***************************************************************************)
(* Theorems about DefIndex, for any number of units and any DIEs, in any   *)
(* number and in any order that a tree can have.                           *)
(***************************************************************************)
EXTENDS DefIndex, SequenceTheorems, TLAPS

-----------------------------------------------------------------------------
(* The inductive invariant.                                                *)

\* The DIEs that have been dealt with: all, or all but the last.
Dealt == IF placed THEN Len(doc) ELSE Len(doc) - 1

\* By the depths, the next DIE may be in the subtree of DIE i.
Rightmost(i) == \A k \in (i + 1)..Len(doc) : doc[k].depth > doc[i].depth

\* No DIE to come is in the subtree of DIE i.
Closed(i) == ~Rightmost(i) \/ doc[i].unit < unit \/ ending

\* A structure on the stack has everything dealt with since in its subtree,
\* and knows whether a member of its own was among it.
Open(f) ==
  /\ f.off <= Dealt
  /\ \A j \in (f.off + 1)..Dealt :
       doc[j].depth > doc[f.off].depth /\ doc[j].unit = unit
  /\ f.child <=> \E j \in 1..Dealt : Child(j, f.off) /\ doc[j].die.tag = "member"

\* Every other structure has all of its members, and its name in the index if
\* it is a definition.
OnStack(i) == \E k \in 1..Len(stack) : stack[k].off = i
Heard(i) == Closed(i) /\ (Complete(i) => doc[i].die.name \in DOMAIN map)

\* Units are read one after the other.
InOrder ==
  /\ \A i \in 1..Len(doc) : doc[i].unit <= unit
  /\ ~placed => last.unit = unit

\* Of two structures on the stack the upper one is deeper.
Nested ==
  \A i, j \in 1..Len(stack) :
    i < j => doc[stack[i].off].depth < doc[stack[j].off].depth

AllOpen == \A k \in 1..Len(stack) : Open(stack[k])

AllSettled ==
  \A i \in 1..Dealt : doc[i].die.tag = "su" => OnStack(i) \/ Heard(i)

\* What is in the index has a layout.
AllComplete == \A n \in DOMAIN map : Complete(map[n]) /\ doc[map[n]].die.name = n

\* The pass ends with nothing open.
AtEnd == Done => stack = <<>> /\ placed /\ ~ending

IInv ==
  /\ TypeOK /\ InOrder /\ Nested /\ AllOpen /\ AllSettled
  /\ AllComplete /\ FirstWins /\ AtEnd

-----------------------------------------------------------------------------
(* The tree, as more of it is read.                                        *)

Dies == [unit : 1..Units, depth : Nat, die : Entries]
Frames == [off : Nat \ {0}, child : BOOLEAN]

\* While no DIE is read the tree is what it was.
LEMMA SameTree ==
  ASSUME doc' = doc
  PROVE  /\ \A i : Complete(i)' <=> Complete(i)
         /\ \A i, j : Child(j, i)' <=> Child(j, i)
BY DEF Complete, HasMember, Child, Inside

\* The list after a DIE has been read.
LEMMA ReadList ==
  ASSUME TypeOK, NEW e \in Entries, NEW depth \in 0..MaxEntries, Read(e, depth)
  PROVE  /\ Len(doc) \in Nat
         /\ doc' \in Seq(Dies)
         /\ Len(doc') = Len(doc) + 1
         /\ \A i \in 1..Len(doc) : doc'[i] = doc[i]
         /\ doc'[Len(doc) + 1].unit = unit
         /\ doc'[Len(doc) + 1].die = e
<1> DEFINE d == [unit |-> unit, depth |-> depth, die |-> e]
<1>1. doc \in Seq(Dies)
  BY DEF TypeOK, Dies
<1>2. d \in Dies
  BY EntryAssumption DEF TypeOK, Read, Done, Dies
<1>3. doc' = Append(doc, d)
  BY DEF Read
<1>4. d.unit = unit /\ d.die = e
  OBVIOUS
<1> HIDE DEF d
<1>5. QED
  BY <1>1, <1>2, <1>3, <1>4, AppendProperties, LenProperties

\* The DIEs read before are where they were in the tree.
LEMMA ReadTree ==
  ASSUME TypeOK, NEW e \in Entries, NEW depth \in 0..MaxEntries, Read(e, depth),
         NEW i \in 1..Len(doc)
  PROVE  /\ \A j \in 1..Len(doc) : Child(j, i)' <=> Child(j, i)
         /\ Complete(i) => Complete(i)'
         /\ Complete(i)' => Complete(i) \/ (doc[i].unit = unit /\ Rightmost(i))
<1>0. /\ Len(doc) \in Nat
      /\ Len(doc') = Len(doc) + 1
      /\ \A k \in 1..Len(doc) : doc'[k] = doc[k]
      /\ doc'[Len(doc) + 1].unit = unit
  BY ReadList
<1>1. \A j \in 1..Len(doc) : Child(j, i)' <=> Child(j, i)
  BY <1>0 DEF Child, Inside
<1>2. HasMember(i) => HasMember(i)'
  BY <1>0, <1>1 DEF HasMember
<1>3. HasMember(i)' => HasMember(i) \/ (doc[i].unit = unit /\ Rightmost(i))
  <2> SUFFICES ASSUME HasMember(i)', ~HasMember(i)
               PROVE  doc[i].unit = unit /\ Rightmost(i)
    OBVIOUS
  <2>1. PICK j \in 1..Len(doc') : Child(j, i)' /\ doc'[j].die.tag = "member"
    BY DEF HasMember
  <2>2. j = Len(doc) + 1
    BY <1>0, <1>1, <2>1 DEF HasMember
  <2>3. doc'[j].unit = unit
    BY <1>0, <2>2
  <2>4. QED
    BY <1>0, <2>1, <2>2, <2>3 DEF Child, Inside, Rightmost
<1>4. QED
  BY <1>0, <1>1, <1>2, <1>3 DEF Complete

\* The last DIE has no member yet.
LEMMA LastHasNoMember ==
  ASSUME TypeOK PROVE ~HasMember(Len(doc))
<1>1. Len(doc) \in Nat
  BY LenProperties DEF TypeOK
<1>2. QED
  BY <1>1 DEF HasMember, Child, Inside

-----------------------------------------------------------------------------
(* Every step preserves the invariant.                                     *)

\* What TypeOK says of single DIEs and of single structures on the stack.
LEMMA TypeFacts ==
  ASSUME TypeOK
  PROVE  /\ doc \in Seq(Dies) /\ Len(doc) \in Nat
         /\ \A i \in 1..Len(doc) :
              /\ doc[i].unit \in Nat
              /\ doc[i].depth \in Nat
              /\ doc[i].die \in Entries
         /\ stack \in Seq(Frames) /\ Len(stack) \in Nat
         /\ \A k \in 1..Len(stack) :
              /\ stack[k].off \in 1..Len(doc)
              /\ stack[k].child \in BOOLEAN
              /\ stack[k] = [off |-> stack[k].off, child |-> stack[k].child]
         /\ unit \in Nat \ {0}
<1>1. doc \in Seq(Dies) /\ Len(doc) \in Nat
  BY LenProperties DEF TypeOK, Dies
<1>2. stack \in Seq(Frames) /\ Len(stack) \in Nat
  BY LenProperties DEF TypeOK, Frames
<1>3. \A i \in 1..Len(doc) : doc[i] \in Dies
  BY <1>1, ElementOfSeq
<1>4. \A k \in 1..Len(stack) : stack[k] \in Frames /\ stack[k].off <= Len(doc)
  BY <1>2, ElementOfSeq DEF TypeOK
<1>5. \A k \in 1..Len(stack) : stack[k].off \in 1..Len(doc)
  BY <1>1, <1>4 DEF Frames
<1>6. unit \in Nat \ {0}
  BY EntryAssumption DEF TypeOK
<1>7. QED
  BY <1>1, <1>2, <1>3, <1>4, <1>5, <1>6, EntryAssumption DEF Dies, Frames

\* Reading a DIE gives members only to structures that are open, or new names
\* to DIEs of this unit.
LEMMA ReadStep ==
  ASSUME IInv, NEW e \in Entries, NEW depth \in 0..MaxEntries, Read(e, depth)
  PROVE  IInv'
<1>0. /\ placed /\ ~ending /\ ~placed' /\ ~ending'
      /\ unit' = unit /\ stack' = stack /\ map' = map
      /\ ~Done
  BY DEF Read, IInv, TypeOK
<1>1. /\ doc' \in Seq(Dies)
      /\ Len(doc') = Len(doc) + 1
      /\ \A i \in 1..Len(doc) : doc'[i] = doc[i]
      /\ doc'[Len(doc) + 1].unit = unit
      /\ doc'[Len(doc) + 1].die = e
  <2>1. TypeOK
    BY DEF IInv
  <2>2. QED
    BY <2>1, ReadList
<1>2. /\ Len(doc) \in Nat /\ Len(stack) \in Nat /\ unit \in Nat \ {0}
      /\ \A k \in 1..Len(stack) : stack[k].off \in 1..Len(doc)
      /\ \A i \in 1..Len(doc) : doc[i].unit \in Nat /\ doc[i].depth \in Nat
  <2>1. TypeOK
    BY DEF IInv
  <2>2. QED
    BY <2>1, TypeFacts
<1>3. Dealt = Len(doc) /\ Dealt' = Len(doc)
  BY <1>0, <1>1, <1>2 DEF Dealt
<1>4. ASSUME NEW i \in 1..Len(doc)
      PROVE  /\ \A j \in 1..Len(doc) : Child(j, i)' <=> Child(j, i)
             /\ Complete(i) => Complete(i)'
             /\ Complete(i)' => Complete(i) \/ (doc[i].unit = unit /\ Rightmost(i))
  BY ReadTree DEF IInv
<1>5. TypeOK'
  <2>1. doc' # <<>>
    BY <1>1, <1>2, EmptySeq
  <2>2. Len(doc') <= MaxEntries
    BY <1>1, <1>2, EntryAssumption DEF Read
  <2>3. \A i \in 1..Len(stack) :
          /\ stack[i].off <= Len(doc')
          /\ doc'[stack[i].off].unit = unit
          /\ doc'[stack[i].off].die.tag = "su"
          /\ i > 1 => doc'[stack[i - 1].off].depth < doc'[stack[i].off].depth
    <3> TAKE i \in 1..Len(stack)
    <3>1. i > 1 => i - 1 \in 1..Len(stack)
      BY <1>2
    <3>2. /\ stack[i].off \in 1..Len(doc)
          /\ i > 1 => stack[i - 1].off \in 1..Len(doc)
      BY <1>2, <3>1
    <3>3. /\ doc[stack[i].off].unit = unit
          /\ doc[stack[i].off].die.tag = "su"
          /\ i > 1 => doc[stack[i - 1].off].depth < doc[stack[i].off].depth
      BY DEF IInv, TypeOK
    <3>4. QED
      BY <1>1, <1>2, <3>2, <3>3
  <2>4. \A n \in DOMAIN map : map[n] \in 1..Len(doc')
    BY <1>1, <1>2 DEF IInv, TypeOK
  <2>5. TypeOK
    BY DEF IInv
  <2>6. doc' \in Seq([unit : 1..Units, depth : Nat, die : Entries])
    BY <1>1 DEF Dies
  <2>7. /\ unit \in 1..(Units + 1) /\ placed' = FALSE /\ ending' = FALSE
        /\ stack \in Seq([off : Nat \ {0}, child : BOOLEAN])
    BY <1>0, <2>5 DEF TypeOK, Read
  <2>8. QED
    BY <1>0, <2>1, <2>2, <2>3, <2>4, <2>6, <2>7 DEF TypeOK
<1>6. InOrder'
  BY <1>0, <1>1, <1>2 DEF IInv, InOrder, last
<1>7. Nested'
  BY <1>0, <1>1, <1>2 DEF IInv, Nested
<1>8. AllOpen'
  <2> SUFFICES ASSUME NEW k \in 1..Len(stack) PROVE Open(stack[k])'
    BY <1>0 DEF AllOpen
  <2>1. PICK i \in 1..Len(doc) : i = stack[k].off
    BY <1>2
  <2>2. Open(stack[k])
    BY DEF IInv, AllOpen
  <2>3. \A j \in 1..Len(doc) :
          Child(j, i)' /\ doc'[j].die.tag = "member"
            <=> Child(j, i) /\ doc[j].die.tag = "member"
    BY <1>1, <1>4
  <2>4. stack'[k].off = i /\ stack'[k].child = stack[k].child
    BY <1>0, <2>1
  <2>5. \A j \in (i + 1)..Len(doc) :
          doc'[j].depth > doc'[i].depth /\ doc'[j].unit = unit'
    <3> TAKE j \in (i + 1)..Len(doc)
    <3>1. j \in 1..Len(doc)
      BY <1>2
    <3>2. QED
      BY <1>0, <1>1, <1>3, <2>1, <2>2, <3>1 DEF Open
  <2>6. stack[k].child <=> \E j \in 1..Len(doc) : Child(j, i)' /\ doc'[j].die.tag = "member"
    BY <1>3, <2>1, <2>2, <2>3 DEF Open
  <2>7. QED
    BY <1>2, <1>3, <2>1, <2>4, <2>5, <2>6 DEF Open
<1>9. AllSettled'
  <2> SUFFICES ASSUME NEW i \in 1..Len(doc), doc[i].die.tag = "su", ~OnStack(i)
               PROVE  Heard(i)'
    BY <1>0, <1>1, <1>3 DEF AllSettled, OnStack
  <2>1. Heard(i)
    BY <1>3 DEF IInv, AllSettled
  <2>2. Rightmost(i)' => Rightmost(i)
    BY <1>1, <1>2 DEF Rightmost
  <2>3. ~(doc[i].unit = unit /\ Rightmost(i))
    BY <1>0, <1>2, <2>1 DEF Heard, Closed
  <2>4. Complete(i)' => Complete(i)
    BY <1>4, <2>3
  <2>5. Closed(i)'
    BY <1>0, <1>1, <2>1, <2>2 DEF Heard, Closed
  <2>6. QED
    BY <1>0, <1>1, <2>1, <2>4, <2>5 DEF Heard
<1>10. AllComplete'
  <2> SUFFICES ASSUME NEW n \in DOMAIN map, NEW i \in 1..Len(doc), i = map[n]
               PROVE  Complete(i)' /\ doc'[i].die.name = n
    BY <1>0 DEF AllComplete, IInv, TypeOK
  <2>1. QED
    BY <1>1, <1>4 DEF IInv, AllComplete
<1>11. FirstWins'
  <2> SUFFICES ASSUME NEW n \in DOMAIN map, NEW i \in 1..Len(doc'),
                      Complete(i)', doc'[i].die.name = n
               PROVE  doc'[map[n]].unit <= doc'[i].unit
    BY <1>0 DEF FirstWins
  <2>0. map[n] \in 1..Len(doc)
    BY DEF IInv, TypeOK
  <2>1. doc'[map[n]].unit = doc[map[n]].unit /\ doc[map[n]].unit <= unit
    BY <1>1, <2>0 DEF IInv, InOrder
  <2>2. CASE i \in 1..Len(doc)
    <3>1. Complete(i) \/ doc[i].unit = unit
      BY <1>4, <2>2
    <3>2. QED
      BY <1>1, <1>2, <2>0, <2>1, <2>2, <3>1 DEF IInv, FirstWins
  <2>3. CASE i = Len(doc) + 1
    BY <1>1, <1>2, <2>1, <2>3
  <2>4. QED
    BY <1>1, <1>2, <2>2, <2>3
<1>12. AtEnd'
  BY <1>0 DEF AtEnd, Done
<1>13. QED
  BY <1>5, <1>6, <1>7, <1>8, <1>9, <1>10, <1>11, <1>12 DEF IInv

\* What is on the stack when the innermost structure is closed.
LEMMA BelowTop ==
  ASSUME IInv, stack # <<>>
  PROVE  /\ Len(stack) \in Nat \ {0}
         /\ below \in Seq(Frames)
         /\ Len(below) = Len(stack) - 1
         /\ \A k \in 1..Len(below) : k \in 1..Len(stack) /\ below[k] = stack[k]
         /\ top.off \in 1..Len(doc)
         /\ Open(top)
         /\ doc[top.off].unit = unit
         /\ doc[top.off].die.tag = "su"
         /\ doc[top.off].die \in Entries
<1>1. TypeOK /\ AllOpen
  BY DEF IInv
<1>2. stack \in Seq(Frames) /\ Len(stack) \in Nat \ {0}
  BY <1>1, TypeFacts, EmptySeq
<1>3. \A k \in 1..(Len(stack) - 1) : stack[k] \in Frames
  <2> TAKE k \in 1..(Len(stack) - 1)
  <2>1. k \in 1..Len(stack)
    BY <1>2
  <2>2. QED
    BY <1>2, <2>1, ElementOfSeq
<1>4. /\ below \in Seq(Frames)
      /\ Len(below) = IF 1 <= Len(stack) - 1 THEN (Len(stack) - 1) - 1 + 1 ELSE 0
      /\ \A k \in 1..((Len(stack) - 1) - 1 + 1) : below[k] = stack[1 + k - 1]
  <2>1. Len(stack) - 1 \in Int /\ 1 \in Int
    BY <1>2
  <2>2. QED
    BY ONLY <1>3, <2>1, SubSeqProperties DEF below
<1>5. Len(below) = Len(stack) - 1
  <2>1. Len(stack) \in Nat \ {0}
    BY <1>2
  <2>2. Len(below) = IF 1 <= Len(stack) - 1 THEN (Len(stack) - 1) - 1 + 1 ELSE 0
    BY <1>4
  <2>3. \A n \in Nat \ {0} : (IF 1 <= n - 1 THEN (n - 1) - 1 + 1 ELSE 0) = n - 1
    OBVIOUS
  <2>4. QED
    BY <2>1, <2>2, <2>3, Zenon
<1>6. \A k \in 1..Len(below) : k \in 1..Len(stack) /\ below[k] = stack[k]
  <2> TAKE k \in 1..Len(below)
  <2>1. k \in 1..((Len(stack) - 1) - 1 + 1) /\ 1 + k - 1 = k
    BY <1>2, <1>5
  <2>2. below[k] = stack[1 + k - 1]
    BY <1>4, <2>1
  <2>3. QED
    BY <1>2, <1>5, <2>1, <2>2
<1>7. Len(stack) \in 1..Len(stack)
  BY <1>2
<1>8. top.off \in 1..Len(doc) /\ Open(top)
  BY <1>1, <1>7, TypeFacts DEF AllOpen, top
<1>9. doc[top.off].unit = unit /\ doc[top.off].die.tag = "su"
  BY <1>1, <1>7 DEF TypeOK, top
<1>10. doc[top.off].die \in Entries
  BY <1>1, <1>8, TypeFacts
<1>11. QED
  BY <1>2, <1>4, <1>5, <1>6, <1>8, <1>9, <1>10

\* idx_close takes a structure off the stack that has all of its members.
LEMMA CloseStep ==
  ASSUME IInv, Close
  PROVE  IInv'
<1> DEFINE o == top.off
           d == doc[o].die
           entered == top.child /\ ~d.decl /\ d.name # NoName /\ d.name \notin DOMAIN map
<1>0. /\ doc' = doc /\ unit' = unit /\ placed' = placed /\ ending' = ending
      /\ stack' = below /\ stack # <<>>
      /\ ending \/ (~placed /\ last.depth <= doc[o].depth)
      /\ TypeOK
  BY DEF Close, Left, IInv
<1>1. /\ Len(stack) \in Nat \ {0}
      /\ below \in Seq(Frames)
      /\ Len(below) = Len(stack) - 1
      /\ \A k \in 1..Len(below) : k \in 1..Len(stack) /\ below[k] = stack[k]
      /\ o \in 1..Len(doc)
      /\ Open(top)
      /\ doc[o].unit = unit
      /\ d.tag = "su"
      /\ d \in Entries
  BY <1>0, BelowTop
<1>2. /\ Len(doc) \in Nat /\ unit \in Nat \ {0}
      /\ \A i \in 1..Len(doc) : doc[i].unit \in Nat /\ doc[i].depth \in Nat
  BY <1>0, TypeFacts
<1>3. /\ \A i : Complete(i)' <=> Complete(i)
      /\ \A i, j : Child(j, i)' <=> Child(j, i)
  BY <1>0, SameTree
<1>4. map' = IF entered THEN Enter(map, d.name, o) ELSE map
  BY DEF Close
<1>5. /\ DOMAIN map' = IF entered THEN DOMAIN map \union {d.name} ELSE DOMAIN map
      /\ \A n \in DOMAIN map : map'[n] = map[n]
      /\ entered => map'[d.name] = o
  BY <1>4 DEF Enter
<1>6. ending => Dealt = Len(doc)
  BY <1>0 DEF Dealt, TypeOK
\* The subtree is complete: no member is among what has not been dealt with.
<1>7. ~Rightmost(o) \/ ending
  <2>1. CASE ~ending
    <3>1. o <= Len(doc) - 1
      BY <1>0, <1>1, <2>1 DEF Open, Dealt
    <3>2. Len(doc) \in (o + 1)..Len(doc)
      BY <1>1, <1>2, <3>1
    <3>3. ~(doc[Len(doc)].depth > doc[o].depth)
      BY <1>0, <1>1, <1>2, <2>1, <3>2 DEF last
    <3>4. QED
      BY <3>2, <3>3 DEF Rightmost
  <2>2. QED
    BY <2>1
<1>8. top.child <=> HasMember(o)
  <2>1. ASSUME NEW j \in 1..Len(doc), Child(j, o), ~ending
        PROVE  j \in 1..Dealt
    <3>1. Dealt = Len(doc) - 1 /\ o <= Dealt
      BY <1>0, <1>1, <2>1 DEF Dealt, Open
    <3>2. j = Len(doc) => ~Rightmost(o) /\ Rightmost(o)
      BY <1>7, <2>1 DEF Child, Inside, Rightmost
    <3>3. QED
      BY <1>2, <3>1, <3>2
  <2>2. \A j \in 1..Len(doc) : Child(j, o) => j \in 1..Dealt
    BY <1>6, <2>1
  <2>3. 1..Dealt \subseteq 1..Len(doc)
    BY <1>2 DEF Dealt
  <2>4. QED
    BY <1>1, <2>2, <2>3 DEF HasMember, Open
<1>9. entered => Complete(o)
  BY <1>1, <1>8 DEF Complete
<1>10. Complete(o) => d.name \in DOMAIN map'
  BY <1>1, <1>5, <1>8 DEF Complete
<1> HIDE DEF entered, o, d
<1>11. TypeOK'
  <2>1. \A i \in 1..Len(below) :
          /\ below[i].off <= Len(doc)
          /\ doc[below[i].off].unit = unit
          /\ doc[below[i].off].die.tag = "su"
          /\ i > 1 => doc[below[i - 1].off].depth < doc[below[i].off].depth
    <3> TAKE i \in 1..Len(below)
    <3>1. i \in 1..Len(stack) /\ below[i] = stack[i]
      BY <1>1
    <3>2. i > 1 => below[i - 1] = stack[i - 1]
      <4>1. i > 1 => i - 1 \in 1..Len(below)
        BY <1>1
      <4>2. QED
        BY <1>1, <4>1
    <3>3. QED
      BY <1>0, <3>1, <3>2 DEF TypeOK
  <2>2. \A n \in DOMAIN map' : map'[n] \in 1..Len(doc)
    BY <1>0, <1>1, <1>5 DEF TypeOK
  <2>3. below \in Seq([off : Nat \ {0}, child : BOOLEAN])
    BY <1>1 DEF Frames
  <2>4. QED
    BY <1>0, <2>1, <2>2, <2>3 DEF TypeOK
<1>12. InOrder'
  BY <1>0 DEF IInv, InOrder, last
<1>13. Nested'
  BY <1>0, <1>1 DEF IInv, Nested
<1>14. AllOpen'
  <2> SUFFICES ASSUME NEW k \in 1..Len(below) PROVE Open(stack[k])'
    BY <1>0 DEF AllOpen
  <2>1. Open(stack[k]) /\ stack'[k] = stack[k]
    BY <1>0, <1>1 DEF IInv, AllOpen
  <2>2. Dealt' = Dealt
    BY <1>0 DEF Dealt
  <2>3. QED
    BY <1>0, <1>3, <2>1, <2>2 DEF Open
<1>15. AllSettled'
  <2> SUFFICES ASSUME NEW i \in 1..Dealt, doc[i].die.tag = "su", ~OnStack(i)'
               PROVE  Heard(i)'
    BY <1>0 DEF AllSettled, Dealt
  <2>1. CASE i = o
    BY <1>0, <1>3, <1>7, <1>10, <2>1 DEF Heard, Closed, Rightmost, d
  <2>2. CASE i # o
    <3>1. ~OnStack(i)
      <4> SUFFICES ASSUME NEW k \in 1..Len(stack), stack[k].off = i PROVE FALSE
        BY DEF OnStack
      <4>1. k # Len(stack)
        BY <2>2 DEF o, top
      <4>2. k \in 1..Len(below)
        BY <1>1, <4>1
      <4>3. QED
        BY <1>0, <1>1, <4>2 DEF OnStack
    <3>2. Heard(i)
      BY <3>1 DEF IInv, AllSettled
    <3>3. QED
      BY <1>0, <1>3, <1>5, <3>2 DEF Heard, Closed, Rightmost
  <2>3. QED
    BY <2>1, <2>2
<1>16. AllComplete'
  BY <1>0, <1>3, <1>5, <1>9 DEF IInv, AllComplete, d
\* A unit read before has entered the names it defines.
<1>17. FirstWins'
  <2> SUFFICES ASSUME NEW n \in DOMAIN map', NEW i \in 1..Len(doc),
                      Complete(i), doc[i].die.name = n
               PROVE  doc[map'[n]].unit <= doc[i].unit
    BY <1>0, <1>3 DEF FirstWins
  <2>1. CASE n \in DOMAIN map
    BY <1>5, <2>1 DEF IInv, FirstWins
  <2>2. CASE n \notin DOMAIN map
    <3>1. entered /\ n = d.name /\ map'[n] = o
      BY <1>5, <2>2
    <3>2. doc[i].unit = unit
      <4> SUFFICES ASSUME doc[i].unit # unit PROVE FALSE
        OBVIOUS
      <4>1. i \in 1..Dealt
        BY <1>2 DEF IInv, InOrder, Dealt, last
      <4>2. ~OnStack(i)
        BY <1>0 DEF OnStack, TypeOK
      <4>3. doc[i].die.tag = "su"
        BY DEF Complete
      <4>4. Heard(i)
        BY <4>1, <4>2, <4>3 DEF IInv, AllSettled
      <4>5. QED
        BY <2>2, <4>4 DEF Heard
    <3>3. QED
      BY <1>1, <1>2, <3>1, <3>2
  <2>3. QED
    BY <2>1, <2>2
<1>18. AtEnd'
  BY <1>0 DEF IInv, AtEnd, Done
<1>19. QED
  BY <1>11, <1>12, <1>13, <1>14, <1>15, <1>16, <1>17, <1>18 DEF IInv

\* What is on the stack after a DIE has been dealt with.
LEMMA PlaceStack ==
  ASSUME TypeOK, Place
  PROVE  /\ stack' \in Seq(Frames)
         /\ Len(stack') = IF last.die.tag = "su" THEN Len(stack) + 1 ELSE Len(stack)
         /\ \A k \in 1..Len(stack) :
              /\ stack'[k].off = stack[k].off
              /\ stack'[k].child <=>
                   \/ stack[k].child
                   \/ /\ k = Len(stack)
                      /\ last.die.tag = "member"
                      /\ last.depth = doc[stack[k].off].depth + 1
         /\ last.die.tag = "su" =>
              stack'[Len(stack) + 1] = [off |-> Len(doc), child |-> FALSE]
<1>1. /\ stack \in Seq(Frames) /\ Len(stack) \in Nat
      /\ Len(doc) \in Nat
      /\ \A k \in 1..Len(stack) :
           /\ stack[k].off \in Nat \ {0}
           /\ stack[k].child \in BOOLEAN
           /\ stack[k] = [off |-> stack[k].off, child |-> stack[k].child]
  BY TypeFacts
<1>2. Len(doc) # 0
  BY EmptySeq DEF TypeOK, Place
<1>3. CASE last.die.tag = "su"
  <2> DEFINE f == [off |-> Len(doc), child |-> FALSE]
  <2>1. f \in Frames
    BY <1>1, <1>2 DEF Frames
  <2>2. stack' = Append(stack, f)
    BY <1>3 DEF Place
  <2> HIDE DEF f
  <2>3. /\ stack' \in Seq(Frames)
        /\ Len(stack') = Len(stack) + 1
        /\ \A k \in 1..Len(stack) : stack'[k] = stack[k]
        /\ stack'[Len(stack) + 1] = f
    BY <1>1, <2>1, <2>2, AppendProperties
  <2>4. last.die.tag # "member"
    BY <1>3
  <2>5. QED
    BY <1>1, <1>3, <2>3, <2>4 DEF f
<1>4. CASE /\ last.die.tag = "member" /\ stack # <<>>
           /\ last.depth = doc[top.off].depth + 1
  <2>1. stack' = [stack EXCEPT ![Len(stack)].child = TRUE]
    BY <1>4 DEF Place
  <2>2. Len(stack) \in 1..Len(stack)
    BY <1>1, <1>4, EmptySeq
  <2> DEFINE n == Len(stack)
             f == [stack[n] EXCEPT !.child = TRUE]
  <2>3. stack' = [stack EXCEPT ![n] = f]
    BY <2>1
  <2>4. f \in Frames /\ f.off = stack[n].off /\ f.child = TRUE
    <3>1. stack[n] \in Frames
      BY <1>1, <2>2, ElementOfSeq
    <3>2. QED
      BY <3>1 DEF Frames
  <2> HIDE DEF f
  <2>5. /\ stack' \in Seq(Frames)
        /\ Len(stack') = n
        /\ \A k \in 1..n : stack'[k] = IF k = n THEN f ELSE stack[k]
    BY <1>1, <2>2, <2>3, <2>4, ExceptSeq
  <2>6. QED
    BY <1>4, <2>4, <2>5 DEF top
<1>5. CASE /\ last.die.tag # "su"
           /\ ~(/\ last.die.tag = "member" /\ stack # <<>>
                /\ last.depth = doc[top.off].depth + 1)
  <2>1. stack' = stack
    BY <1>5 DEF Place
  <2>2. \A k \in 1..Len(stack) : stack # <<>>
    BY <1>1, EmptySeq
  <2>3. QED
    BY <1>1, <1>5, <2>1, <2>2 DEF top
<1>6. QED
  BY <1>3, <1>4, <1>5

\* Of the structures on the stack at most the innermost has a new member.
LEMMA PlaceStep ==
  ASSUME IInv, Place
  PROVE  IInv'
<1> DEFINE n == Len(stack)
           m == Len(doc)
<1>0. /\ doc' = doc /\ unit' = unit /\ ending' = ending /\ map' = map
      /\ ~placed /\ placed' /\ ~ending /\ doc # <<>> /\ TypeOK
  BY DEF Place, IInv, TypeOK
<1>1. /\ m \in Nat \ {0} /\ n \in Nat
      /\ \A i \in 1..m : doc[i].depth \in Nat
      /\ \A k \in 1..n : stack[k].off \in 1..m
  BY <1>0, TypeFacts, EmptySeq
<1>2. /\ stack' \in Seq(Frames)
      /\ Len(stack') = IF last.die.tag = "su" THEN n + 1 ELSE n
      /\ \A k \in 1..n :
           /\ stack'[k].off = stack[k].off
           /\ stack'[k].child <=>
                \/ stack[k].child
                \/ /\ k = n
                   /\ last.die.tag = "member"
                   /\ last.depth = doc[stack[k].off].depth + 1
      /\ last.die.tag = "su" => stack'[n + 1] = [off |-> m, child |-> FALSE]
  BY <1>0, PlaceStack
<1>3. /\ \A i : Complete(i)' <=> Complete(i)
      /\ \A i, j : Child(j, i)' <=> Child(j, i)
  BY <1>0, SameTree
<1>4. Dealt = m - 1 /\ Dealt' = m
  BY <1>0 DEF Dealt
<1>5. last.unit = unit /\ last = doc[m]
  BY <1>0 DEF IInv, InOrder, last
<1> HIDE DEF n, m
\* The DIE is inside of all that is on the stack.
<1>6. \A k \in 1..n : doc[stack[k].off].depth < last.depth
  <2> TAKE k \in 1..n
  <2>1. stack # <<>> /\ n \in 1..n
    BY <1>0, <1>1 DEF n
  <2>2. doc[stack[n].off].depth < last.depth
    BY <1>0, <1>1, <1>5, <2>1 DEF Place, Left, top, n
  <2>3. k = n \/ doc[stack[k].off].depth < doc[stack[n].off].depth
    BY <1>1, <2>1 DEF IInv, Nested, n
  <2>4. QED
    BY <1>1, <1>5, <2>1, <2>2, <2>3
<1>7. \A k \in 1..n : Open(stack[k])
  BY DEF IInv, AllOpen, n
<1>8. \A k \in 1..n :
        Child(m, stack[k].off) <=> k = n /\ last.depth = doc[stack[k].off].depth + 1
  <2> TAKE k \in 1..n
  <2>1. Inside(m, stack[k].off)
    <3>1. /\ stack[k].off <= m - 1
          /\ \A j \in (stack[k].off + 1)..(m - 1) : doc[j].depth > doc[stack[k].off].depth
      BY <1>4, <1>7 DEF Open
    <3>2. doc[stack[k].off].unit = unit
      BY <1>0 DEF TypeOK, n
    <3>3. doc[m].depth > doc[stack[k].off].depth
      BY <1>1, <1>5, <1>6
    <3>4. QED
      BY <1>1, <1>5, <3>1, <3>2, <3>3 DEF Inside
  <2>2. k # n => last.depth # doc[stack[k].off].depth + 1
    <3> SUFFICES ASSUME k # n PROVE last.depth # doc[stack[k].off].depth + 1
      OBVIOUS
    <3>1. n \in 1..n /\ k < n
      BY <1>1
    <3>2. doc[stack[k].off].depth < doc[stack[n].off].depth
      BY <3>1 DEF IInv, Nested, n
    <3>3. QED
      BY <1>1, <1>5, <1>6, <3>1, <3>2
  <2>3. QED
    BY <1>5, <2>1, <2>2 DEF Child
<1>9. \A k \in 1..Len(stack') : k \in 1..n \/ (last.die.tag = "su" /\ k = n + 1)
  BY <1>1, <1>2
<1>10. last.die.tag = "su" => stack'[n + 1].off = m /\ ~stack'[n + 1].child
  BY <1>2
<1>11. Nested'
  <2> SUFFICES ASSUME NEW i \in 1..Len(stack'), NEW j \in 1..Len(stack'), i < j
               PROVE  doc[stack'[i].off].depth < doc[stack'[j].off].depth
    BY <1>0 DEF Nested
  <2>1. i \in 1..n
    BY <1>1, <1>9
  <2>2. CASE j \in 1..n
    BY <1>2, <2>1, <2>2 DEF IInv, Nested, n
  <2>3. CASE last.die.tag = "su" /\ j = n + 1
    BY <1>2, <1>5, <1>6, <1>10, <2>1, <2>3
  <2>4. QED
    BY <1>9, <2>2, <2>3
<1>12. TypeOK'
  <2>1. \A k \in 1..Len(stack') :
          /\ stack'[k].off <= m
          /\ doc[stack'[k].off].unit = unit
          /\ doc[stack'[k].off].die.tag = "su"
    <3> TAKE k \in 1..Len(stack')
    <3>1. CASE k \in 1..n
      <4>1. stack'[k].off = stack[k].off /\ stack[k].off <= m
        BY <1>1, <1>2, <3>1
      <4>2. QED
        BY <1>0, <3>1, <4>1 DEF TypeOK, n
    <3>2. CASE last.die.tag = "su" /\ k = n + 1
      BY <1>1, <1>5, <1>10, <3>2
    <3>3. QED
      BY <1>9, <3>1, <3>2
  <2>2. \A k \in 1..Len(stack') :
          k > 1 => doc[stack'[k - 1].off].depth < doc[stack'[k].off].depth
    <3> SUFFICES ASSUME NEW k \in 1..Len(stack'), k > 1
                 PROVE  doc[stack'[k - 1].off].depth < doc[stack'[k].off].depth
      OBVIOUS
    <3>1. k - 1 \in 1..Len(stack') /\ k - 1 < k
      BY <1>1, <1>2
    <3>2. QED
      BY <1>0, <1>11, <3>1 DEF Nested
  <2>3. stack' \in Seq([off : Nat \ {0}, child : BOOLEAN])
    BY <1>2 DEF Frames
  <2>4. placed' \in BOOLEAN
    BY DEF Place
  <2>5. QED
    BY <1>0, <2>1, <2>2, <2>3, <2>4 DEF TypeOK, m
<1>13. InOrder'
  BY <1>0 DEF IInv, InOrder
<1>14. AllOpen'
  <2> SUFFICES ASSUME NEW k \in 1..Len(stack') PROVE Open(stack[k])'
    BY DEF AllOpen
  <2> DEFINE o == stack'[k].off
  <2>1. CASE k \in 1..n
    <3>1. Open(stack[k]) /\ o = stack[k].off /\ o \in 1..m
      BY <1>1, <1>2, <1>7, <2>1
    <3>2. \A j \in (o + 1)..m : doc[j].depth > doc[o].depth /\ doc[j].unit = unit
      <4> TAKE j \in (o + 1)..m
      <4>1. CASE j = m
        BY <1>1, <1>5, <1>6, <2>1, <3>1, <4>1
      <4>2. CASE j # m
        BY <1>1, <1>4, <3>1, <4>2 DEF Open
      <4>3. QED
        BY <4>1, <4>2
    <3>3. stack'[k].child <=>
            \/ \E j \in 1..(m - 1) : Child(j, o) /\ doc[j].die.tag = "member"
            \/ Child(m, o) /\ doc[m].die.tag = "member"
      BY <1>2, <1>4, <1>5, <1>8, <2>1, <3>1 DEF Open
    <3>4. stack'[k].child <=> \E j \in 1..m : Child(j, o) /\ doc[j].die.tag = "member"
      BY <1>1, <3>3
    <3>5. QED
      BY <1>0, <1>1, <1>3, <1>4, <3>1, <3>2, <3>4 DEF Open
  <2>2. CASE last.die.tag = "su" /\ k = n + 1
    <3>1. o = m /\ ~stack'[k].child
      BY <1>10, <2>2
    <3>2. \A j \in 1..m : ~Child(j, m)
      BY <1>1 DEF Child, Inside
    <3>3. QED
      BY <1>0, <1>1, <1>3, <1>4, <3>1, <3>2 DEF Open
  <2>3. QED
    BY <1>9, <2>1, <2>2
<1>15. AllSettled'
  <2> SUFFICES ASSUME NEW i \in 1..m, doc[i].die.tag = "su", ~OnStack(i)'
               PROVE  Heard(i)'
    BY <1>0, <1>4 DEF AllSettled
  <2>1. i # m
    <3>1. last.die.tag = "su" => n + 1 \in 1..Len(stack')
      BY <1>1, <1>2
    <3>2. QED
      BY <1>5, <1>10, <3>1 DEF OnStack
  <2>2. i \in 1..Dealt
    BY <1>1, <1>4, <2>1
  <2>3. \A k \in 1..n : k \in 1..Len(stack')
    BY <1>1, <1>2
  <2>4. ~OnStack(i)
    BY <1>2, <2>3 DEF OnStack, n
  <2>5. Heard(i)
    BY <2>2, <2>4 DEF IInv, AllSettled
  <2>6. QED
    BY <1>0, <1>3, <2>5 DEF Heard, Closed, Rightmost
<1>16. AllComplete'
  BY <1>0, <1>3 DEF IInv, AllComplete
<1>17. FirstWins'
  BY <1>0, <1>3 DEF IInv, FirstWins
<1>18. AtEnd'
  BY <1>0 DEF IInv, AtEnd, Done
<1>19. QED
  BY <1>11, <1>12, <1>13, <1>14, <1>15, <1>16, <1>17, <1>18 DEF IInv

\* The list of a unit ends, and the next one begins.
LEMMA EndStep ==
  ASSUME IInv, EndUnit \/ NextUnit \/ UNCHANGED vars
  PROVE  IInv'
<1>0. doc' = doc /\ placed' = placed /\ stack' = stack /\ map' = map /\ Dealt' = Dealt
  BY DEF EndUnit, NextUnit, vars, Dealt
<1>1. TypeOK
  BY DEF IInv
<1>2. /\ unit \in Nat \ {0}
      /\ \A i \in 1..Len(doc) : doc[i].unit \in Nat
  BY <1>1, TypeFacts
<1>3. /\ \A i : Complete(i)' <=> Complete(i)
      /\ \A i, j : Child(j, i)' <=> Child(j, i)
  BY <1>0, SameTree
<1>4. \/ unit' = unit /\ stack' = stack
      \/ NextUnit /\ unit' = unit + 1 /\ ending /\ stack = <<>> /\ placed /\ ~ending'
  BY <1>1 DEF EndUnit, NextUnit, vars, TypeOK
<1>5. ending => ~Done
  BY DEF IInv, AtEnd
<1>6. stack = <<>> => Len(stack) = 0
  BY EmptySeq
<1>7. TypeOK'
  <2>1. unit' \in 1..(Units + 1)
    BY <1>1, <1>2, <1>4, <1>5, EntryAssumption DEF TypeOK, Done
  <2>2. ending' \in BOOLEAN /\ (~placed' => doc' # <<>> /\ ~ending')
    <3>1. ending \in BOOLEAN /\ (~placed => doc # <<>> /\ ~ending)
      BY <1>1 DEF TypeOK
    <3>2. EndUnit => placed /\ ending' = TRUE
      BY DEF EndUnit
    <3>3. NextUnit => ending' = FALSE /\ ending = TRUE
      BY <3>1 DEF NextUnit
    <3>4. UNCHANGED vars => ending' = ending
      BY DEF vars
    <3>5. CASE EndUnit
      BY <1>0, <3>2, <3>5, Zenon
    <3>6. CASE NextUnit
      BY <1>0, <3>1, <3>3, <3>6, Zenon
    <3>7. CASE UNCHANGED vars
      BY <1>0, <3>1, <3>4, <3>7
    <3>8. QED
      BY <3>5, <3>6, <3>7
  <2>3. \A i \in 1..Len(stack) : unit' = unit
    BY <1>4, <1>6
  <2>4. QED
    BY <1>0, <1>1, <2>1, <2>2, <2>3 DEF TypeOK
<1>8. InOrder'
  BY <1>0, <1>2, <1>4 DEF IInv, InOrder, last
<1>9. Nested'
  BY <1>0 DEF IInv, Nested
<1>10. AllOpen'
  <2> SUFFICES ASSUME NEW k \in 1..Len(stack) PROVE Open(stack[k])'
    BY <1>0 DEF AllOpen
  <2>1. unit' = unit
    BY <1>4, <1>6
  <2>2. Open(stack[k])
    BY DEF IInv, AllOpen
  <2>3. QED
    BY <1>0, <1>3, <2>1, <2>2 DEF Open
<1>11. AllSettled'
  <2> SUFFICES ASSUME NEW i \in 1..Dealt, doc[i].die.tag = "su", ~OnStack(i)
               PROVE  Heard(i)'
    BY <1>0 DEF AllSettled, OnStack
  <2>1. Heard(i)
    BY DEF IInv, AllSettled
  <2>2. i \in 1..Len(doc)
    BY <1>1, TypeFacts DEF Dealt
  <2>3. Closed(i)'
    <3>1. CASE unit' = unit /\ ending'
      BY <3>1 DEF Closed
    <3>2. CASE unit' = unit /\ ~ending'
      <4>1. ~EndUnit
        BY <3>2 DEF EndUnit
      <4>2. ~NextUnit
        BY <1>2, <3>2 DEF NextUnit
      <4>3. ending' = ending
        BY <4>1, <4>2 DEF vars
      <4>4. QED
        BY <1>0, <2>1, <3>2, <4>3 DEF Heard, Closed, Rightmost
    <3>3. CASE unit' = unit + 1
      BY <1>0, <1>2, <2>2, <3>3 DEF IInv, InOrder, Closed
    <3>4. QED
      BY <1>4, <3>1, <3>2, <3>3
  <2>4. QED
    BY <1>0, <1>3, <2>1, <2>3 DEF Heard
<1>12. AllComplete'
  BY <1>0, <1>3 DEF IInv, AllComplete
<1>13. FirstWins'
  BY <1>0, <1>3 DEF IInv, FirstWins
<1>14. AtEnd'
  <2>1. CASE NextUnit
    BY <1>0, <1>4, <2>1 DEF AtEnd, NextUnit, IInv, TypeOK
  <2>2. CASE EndUnit
    BY <2>2 DEF AtEnd, EndUnit, Done
  <2>3. CASE UNCHANGED vars
    BY <2>3 DEF IInv, AtEnd, Done, vars
  <2>4. QED
    BY <2>1, <2>2, <2>3
<1>15. QED
  BY <1>7, <1>8, <1>9, <1>10, <1>11, <1>12, <1>13, <1>14 DEF IInv

-----------------------------------------------------------------------------
(* The theorems.                                                           *)

\* Before the first DIE nothing is open and the index is empty.
LEMMA InitInv == Init => IInv
<1> SUFFICES ASSUME Init PROVE IInv
  OBVIOUS
<1>1. /\ doc = <<>> /\ stack = <<>> /\ map = <<>>
      /\ unit = 1 /\ placed = TRUE /\ ending = FALSE
      /\ Len(doc) = 0 /\ Len(stack) = 0 /\ DOMAIN map = {}
  BY EmptySeq DEF Init
<1>2. TypeOK
  <2>1. /\ doc \in Seq([unit : 1..Units, depth : Nat, die : Entries])
        /\ stack \in Seq([off : Nat \ {0}, child : BOOLEAN])
    BY <1>1, EmptySeq
  <2>2. Len(doc) <= MaxEntries /\ unit \in 1..(Units + 1)
    BY <1>1, EntryAssumption
  <2>3. (\A i \in 1..Len(stack) : FALSE) /\ (\A m \in DOMAIN map : FALSE)
    BY <1>1
  <2>4. QED
    BY <1>1, <2>1, <2>2, <2>3 DEF TypeOK
<1>3. AtEnd
  BY <1>1 DEF AtEnd
<1>4. QED
  BY <1>1, <1>2, <1>3
  DEF IInv, InOrder, Nested, AllOpen, AllSettled, AllComplete, FirstWins, Dealt

\* Every step of def_index's pass keeps the invariant.
THEOREM Invariant == Spec => []IInv
<1>1. IInv /\ [Next]_vars => IInv'
  <2> SUFFICES ASSUME IInv, [Next]_vars PROVE IInv'
    OBVIOUS
  <2>1. CASE \E e \in Entries, depth \in 0..MaxEntries : Read(e, depth)
    BY <2>1, ReadStep
  <2>2. CASE Close
    BY <2>2, CloseStep
  <2>3. CASE Place
    BY <2>3, PlaceStep
  <2>4. CASE EndUnit \/ NextUnit \/ UNCHANGED vars
    BY <2>4, EndStep
  <2>5. QED
    BY <2>1, <2>2, <2>3, <2>4 DEF Next
<1>2. QED
  BY <1>1, InitInv, PTL DEF Spec

\* The stack holds structures of the unit being read, each inside of the one
\* below, and the index points into the debug information.
THEOREM TypeCorrect == Spec => []TypeOK
<1>1. IInv => TypeOK
  BY DEF IInv
<1>2. QED
  BY <1>1, Invariant, PTL

\* A definition is in the index by the end of the pass, and only definitions
\* ever are: idx_close is called for every structure, after its last member.
LEMMA CompleteIndex == IInv => IndexIsComplete
<1> SUFFICES ASSUME IInv PROVE IndexIsComplete
  OBVIOUS
<1>1. ASSUME Done, NEW i \in 1..Len(doc), Complete(i)
      PROVE  doc[i].die.name \in DOMAIN map
  <2>1. i \in 1..Dealt /\ doc[i].die.tag = "su" /\ Len(stack) = 0
    BY <1>1, EmptySeq DEF IInv, AtEnd, Dealt, Complete
  <2>2. Heard(i)
    BY <2>1 DEF IInv, AllSettled, OnStack
  <2>3. QED
    BY <1>1, <2>2 DEF Heard
<1>2. QED
  BY <1>1 DEF IInv, AllComplete, IndexIsComplete

\* The index has the names of the complete definitions of the debug
\* information when def_index returns, and of nothing else at any time.
THEOREM Completeness == Spec => []IndexIsComplete
BY CompleteIndex, Invariant, PTL

\* What def_site answers for a stub is a layout, if the program has one.
THEOREM Redirection == Spec => []OneRedirect
<1>1. ASSUME IInv, Done,
             NEW i \in 1..Len(doc), IsStub(DefSite(i)),
             NEW j \in 1..Len(doc), Complete(j), doc[j].die.name = doc[i].die.name
      PROVE  FALSE
  <2>1. doc[i].die.name \in DOMAIN map
    BY <1>1, CompleteIndex DEF IndexIsComplete
  <2>2. IsStub(i)
    BY <1>1 DEF DefSite
  <2>3. DefSite(i) = map[doc[i].die.name]
    BY <2>1, <2>2 DEF DefSite
  <2>4. Complete(DefSite(i))
    BY <1>1, <2>1, <2>3 DEF IInv, AllComplete
  <2>5. QED
    BY <1>1, <2>4 DEF IsStub, Complete
<1>2. IInv => OneRedirect
  BY <1>1 DEF OneRedirect
<1>3. QED
  BY <1>2, Invariant, PTL

\* A name keeps the definition of the first unit that has one (or_insert),
\* in whatever order a unit's structures are closed.
THEOREM FirstDefinition == Spec => []FirstWins
<1>1. IInv => FirstWins
  BY DEF IInv
<1>2. QED
  BY <1>1, Invariant, PTL
=============================================================================
