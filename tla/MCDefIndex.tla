----------------------------- MODULE MCDefIndex -----------------------------
(***************************************************************************)
(* All lists of at most MaxEntries DIEs of two units, out of a definition, *)
(* a declaration, an empty structure and a nameless one, a member and any  *)
(* other DIE.                                                              *)
(***************************************************************************)
EXTENDS DefIndex

Structure(decl, name, size) ==
  [tag |-> "su", decl |-> decl, name |-> name, size |-> size]
Member == [UnitDie EXCEPT !.tag = "member"]

MCEntries ==
  { UnitDie, Member,
    Structure(FALSE, "A", 8), Structure(TRUE, "A", 0),
    Structure(FALSE, "B", 0), Structure(FALSE, NoName, 8) }
=============================================================================
