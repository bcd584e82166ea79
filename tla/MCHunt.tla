------------------------------- MODULE MCHunt -------------------------------
(***************************************************************************)
(* An instance of Hunt: three subprograms, of which one has code in two    *)
(* pieces around the others'; the caller's has a DIE of another kind, an   *)
(* inlined subroutine with a variable without a type and one that is no    *)
(* MaybeUninit, a block with a local and a block too deep to be looked at, *)
(* and two locals of different types.                                      *)
(***************************************************************************)
EXTENDS Hunt, TLC

CONSTANTS sub, near, far, q, x, u, block, y, deep, z, inlined, v, w, label,
          tX, tX2, tY, tU

MCDies == {sub, near, far, q, x, u, block, y, deep, z, inlined, v, w, label}
MCKids == [d \in MCDies |->
  CASE d = sub -> <<label, inlined, block, x, v>>
    [] d = far -> <<q>>
    [] d = block -> <<deep, y>>
    [] d = deep -> <<z>>
    [] d = inlined -> <<w, u>>
    [] OTHER -> <<>>]
MCTag == [d \in MCDies |->
  CASE d \in {sub, near, far} -> "subprogram"
    [] d \in {block, deep, inlined} -> "scope"
    [] d \in {x, u, y, z, v, w, q} -> "local"
    [] OTHER -> "other"]
MCTypeOf == (q :> tX) @@ (x :> tX) @@ (y :> tX2) @@ (z :> tX) @@ (v :> tY) @@ (u :> tU)
         @@ (w :> NoType)
MCNameOf == (tX :> "MaybeUninit<X>") @@ (tX2 :> "MaybeUninit<X>")
         @@ (tY :> "MaybeUninit<Y>") @@ (tU :> "u64")
MCMaybeUninits == {"MaybeUninit<X>", "MaybeUninit<Y>"}
MCLive == [d \in MCDies |->
  CASE d = sub -> {1, 2, 3}
    [] d = block -> {1, 2}
    [] d = deep -> {2}
    [] d = inlined -> {3}
    [] OTHER -> {}]

Piece(begin, end) == [begin |-> begin, end |-> end]
MCSubprograms == <<far, near, sub>>
MCCode == [d \in {sub, near, far} |->
  CASE d = sub -> <<Piece(2, 4), Piece(1, 2)>>
    [] d = near -> <<Piece(0, 1)>>
    [] d = far -> <<Piece(6, 9), Piece(4, 5)>>]

E(base, off, more) == [base |-> base, off |-> off, more |-> more]
R(begin, end, e) == [begin |-> begin, end |-> end, expr |-> e]

\* No location; a slot; a value that is read from memory; a list of two
\* ranges, with the slot in the one and in the other a slot whose offset
\* wraps around the end of the address space.  Offsets of both signs take two
\* bytes, and -1 takes one.
None == <<>>
Slot == <<R(0, 9, E("frame", -4, FALSE))>>
Value == <<R(0, 9, E("sp", 2, TRUE))>>
List == <<R(1, 2, E("fp", 2, FALSE)), R(2, 4, E("frame", -4, FALSE))>>

MCLocations == [d \in {q, x, u, y, z, v, w} |->
  CASE d \in {x, y, v} -> {None, Slot, Value, List}
    [] d = u -> {None, List}
    [] d = w -> {None, Slot}
    [] d \in {z, q} -> {Slot}]
MCFrameBases ==
  {E("cfa", 0, TRUE), E("fp", -1, FALSE), E("sp", 0, FALSE)}
=============================================================================
