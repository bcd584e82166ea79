------------------------------ MODULE DefIndex ------------------------------
(***************************************************************************)
(* crates/bilbo/src/dwarf.rs, def_index, is_stub and def_site: the index   *)
(* of complete struct and union definitions by name, built in one pass     *)
(* over the DIEs of every unit.  The DIEs of a unit come as a list in      *)
(* document order, each with its depth; a stack keeps the structures whose *)
(* subtree is still being read.                                            *)
(***************************************************************************)
EXTENDS Integers, Sequences, FiniteSets

CONSTANTS
  Units,      \* number of compilation units
  Entries,    \* what a DIE may be: [tag, decl, name, size]
  NoName,     \* no DW_AT_name
  MaxEntries  \* bound: DIEs of all units

\* "su" is a structure or a union, "member" a member or a variant_part.
Tags == {"su", "member", "other"}

\* The DIE of a unit.
UnitDie == [tag |-> "other", decl |-> FALSE, name |-> NoName, size |-> 0]

ASSUME EntryAssumption ==
  /\ Units \in Nat /\ MaxEntries \in Nat
  /\ UnitDie \in Entries
  /\ \A e \in Entries : e.tag \in Tags /\ e.decl \in BOOLEAN /\ e.size \in Nat

VARIABLES
  doc,     \* the DIEs read so far: [unit, depth, die]
  unit,    \* the unit being read
  placed,  \* the last DIE of doc has been dealt with
  ending,  \* next_dfs has returned None, or an error
  stack,   \* open structures: [off, child], off the index into doc, child
           \* that it has a member (IdxFrame)
  map      \* the index: from names to indices into doc

vars == <<doc, unit, placed, ending, stack, map>>

Init ==
  /\ doc = <<>>
  /\ unit = 1
  /\ placed = TRUE
  /\ ending = FALSE
  /\ stack = <<>>
  /\ map = <<>>

last == doc[Len(doc)]
top == stack[Len(stack)]
below == SubSeq(stack, 1, Len(stack) - 1)
Done == unit > Units

-----------------------------------------------------------------------------
\* next_dfs: a unit begins with its own DIE, and every other DIE is a child
\* of the one before or of an ancestor of it.
Read(e, depth) ==
  /\ ~Done /\ placed /\ ~ending
  /\ Len(doc) < MaxEntries
  /\ IF Len(doc) = 0 \/ last.unit # unit
     THEN depth = 0 /\ e = UnitDie
     ELSE depth \in 1..(last.depth + 1)
  /\ doc' = Append(doc, [unit |-> unit, depth |-> depth, die |-> e])
  /\ placed' = FALSE
  /\ UNCHANGED <<unit, ending, stack, map>>

\* The last DIE is outside of the innermost open structure, or there are no
\* more DIEs in this unit.
Left ==
  /\ stack # <<>>
  /\ ending \/ (~placed /\ last.depth <= doc[top.off].depth)

Enter(m, n, off) == [k \in DOMAIN m \union {n} |-> IF k = n THEN off ELSE m[k]]

\* Deviation: insert for or_insert.
CloseOver ==
  /\ Left
  /\ LET d == doc[top.off].die IN
       map' = IF top.child /\ ~d.decl /\ d.name # NoName
              THEN Enter(map, d.name, top.off) ELSE map
  /\ stack' = below
  /\ UNCHANGED <<doc, unit, placed, ending>>

\* Deviation: a declaration with members is as good as a definition.
CloseDeclared ==
  /\ Left
  /\ LET d == doc[top.off].die IN
       map' = IF top.child /\ d.name # NoName /\ d.name \notin DOMAIN map
              THEN Enter(map, d.name, top.off) ELSE map
  /\ stack' = below
  /\ UNCHANGED <<doc, unit, placed, ending>>

\* idx_close: a named structure with members that is no declaration goes to
\* the index, unless its name is there.
Close ==
  /\ Left
  /\ LET d == doc[top.off].die IN
       map' = IF top.child /\ ~d.decl /\ d.name # NoName
                 /\ d.name \notin DOMAIN map
              THEN Enter(map, d.name, top.off) ELSE map
  /\ stack' = below
  /\ UNCHANGED <<doc, unit, placed, ending>>

\* Deviation: a member at any depth is a member.
PlaceDeep ==
  /\ ~placed /\ ~Left
  /\ CASE last.die.tag = "su" ->
            stack' = Append(stack, [off |-> Len(doc), child |-> FALSE])
       [] last.die.tag = "member" /\ stack # <<>> ->
            stack' = [stack EXCEPT ![Len(stack)].child = TRUE]
       [] OTHER -> UNCHANGED stack
  /\ placed' = TRUE
  /\ UNCHANGED <<doc, unit, ending, map>>

\* A structure is opened; a member is noted if it is the structure's own.
Place ==
  /\ ~placed /\ ~Left
  /\ CASE last.die.tag = "su" ->
            stack' = Append(stack, [off |-> Len(doc), child |-> FALSE])
       [] last.die.tag = "member" /\ stack # <<>>
            /\ last.depth = doc[top.off].depth + 1 ->
            stack' = [stack EXCEPT ![Len(stack)].child = TRUE]
       [] OTHER -> UNCHANGED stack
  /\ placed' = TRUE
  /\ UNCHANGED <<doc, unit, ending, map>>

\* The unit's list ends, or cannot be read further (`.ok().flatten()`).
EndUnit ==
  /\ ~Done /\ placed /\ ~ending
  /\ ending' = TRUE
  /\ UNCHANGED <<doc, unit, placed, stack, map>>

\* Deviation: what is open at the end of a unit stays open.
NextUnitOpen ==
  /\ ending
  /\ unit' = unit + 1
  /\ ending' = FALSE
  /\ UNCHANGED <<doc, placed, stack, map>>

\* All structures of the unit are closed.
NextUnit ==
  /\ ending /\ stack = <<>>
  /\ unit' = unit + 1
  /\ ending' = FALSE
  /\ UNCHANGED <<doc, placed, stack, map>>

-----------------------------------------------------------------------------
Next ==
  \/ \E e \in Entries, depth \in 0..MaxEntries : Read(e, depth)
  \/ Close \/ Place \/ EndUnit \/ NextUnit
  \/ Done /\ UNCHANGED vars

Spec == Init /\ [][Next]_vars

-----------------------------------------------------------------------------
(* The tree that the list stands for, and what the code asks of it later.  *)

\* DIE j is in the subtree of DIE i, or its child.
Inside(j, i) ==
  /\ j > i
  /\ doc[j].unit = doc[i].unit
  /\ \A k \in (i + 1)..j : doc[k].depth > doc[i].depth
Child(j, i) == Inside(j, i) /\ doc[j].depth = doc[i].depth + 1

HasMember(i) ==
  \E j \in 1..Len(doc) : Child(j, i) /\ doc[j].die.tag = "member"

\* A definition that has a layout to read.
Complete(i) ==
  /\ doc[i].die.tag = "su"
  /\ ~doc[i].die.decl
  /\ doc[i].die.name # NoName
  /\ HasMember(i)

\* is_stub: a declaration, or a structure with a size and no members.
IsStub(i) ==
  /\ doc[i].die.tag = "su"
  /\ doc[i].die.decl \/ (doc[i].die.size # 0 /\ ~HasMember(i))

\* def_site: a stub becomes the definition of its name, if there is one.
DefSite(i) ==
  IF IsStub(i) /\ doc[i].die.name \in DOMAIN map
  THEN map[doc[i].die.name] ELSE i

-----------------------------------------------------------------------------
(* Properties.                                                             *)

\* Types of the variables; what is open is a structure of this unit, and
\* inside the one below it on the stack.
TypeOK ==
  /\ doc \in Seq([unit : 1..Units, depth : Nat, die : Entries])
  /\ Len(doc) <= MaxEntries
  /\ unit \in 1..(Units + 1)
  /\ placed \in BOOLEAN /\ ending \in BOOLEAN
  /\ ~placed => doc # <<>> /\ ~ending
  /\ stack \in Seq([off : Nat \ {0}, child : BOOLEAN])
  /\ \A i \in 1..Len(stack) :
       /\ stack[i].off <= Len(doc)
       /\ doc[stack[i].off].unit = unit
       /\ doc[stack[i].off].die.tag = "su"
       /\ i > 1 => doc[stack[i - 1].off].depth < doc[stack[i].off].depth
  /\ \A n \in DOMAIN map : map[n] \in 1..Len(doc)

\* The index has the names of all complete definitions, and nothing else,
\* when it is done: the stack gives each member to its own structure.
IndexIsComplete ==
  /\ \A n \in DOMAIN map : Complete(map[n]) /\ doc[map[n]].die.name = n
  /\ Done => \A i \in 1..Len(doc) : Complete(i) => doc[i].die.name \in DOMAIN map

\* def_site leads to a layout if there is one to be had, so one redirect is
\* enough (DwarfAssumption of Classify).
OneRedirect ==
  Done => \A i \in 1..Len(doc) :
    IsStub(DefSite(i)) =>
      \A j \in 1..Len(doc) : Complete(j) => doc[j].die.name # doc[i].die.name

\* Of several definitions of a name the index has one of the first unit that
\* defines it ("exactly once", dwarf.rs:528): it does not depend on what later
\* units say.
FirstWins ==
  \A n \in DOMAIN map : \A i \in 1..Len(doc) :
    Complete(i) /\ doc[i].die.name = n => doc[map[n]].unit <= doc[i].unit
=============================================================================
