----------------------------- MODULE HuntProofs -----------------------------
(***************************************************************************)
(* Proofs about Hunt: the walk over the DIEs of a subprogram, with its     *)
(* early return and its fallbacks, finds the local that the documentation  *)
(* of local_at_address promises, for any tree, locations and pointer.      *)
(*                                                                         *)
(* The walk is where its stack says; behind it are the locals it has seen. *)
(* That every local is behind it in the end, and that those behind it come *)
(* before those ahead, is argued by the ancestors of a DIE, and not by its *)
(* path: paths enter by one lemma, Order.                                  *)
(*                                                                         *)
(* That an offset is decoded to what was encoded, in a word, is argued     *)
(* group by group; it joins the walk in the theorems, and not before.      *)
(***************************************************************************)
EXTENDS Hunt, FiniteSetTheorems, SequenceTheorems, WellFoundedInduction, TLAPS

-----------------------------------------------------------------------------
(* Trees.                                                                  *)

\* Every DIE but the roots has a parent, and is in one place below it.
LEMMA ParentIs ==
  ASSUME NEW d \in Dies, d \notin Roots
  PROVE  /\ Parent(d) \in Dies
         /\ Index(d) \in 1..Len(Kids[Parent(d)])
         /\ Kids[Parent(d)][Index(d)] = d
<1>1. \E p \in Dies : \E i \in 1..Len(Kids[p]) : Kids[p][i] = d
  BY TreeAssumption
<1>2. Parent(d) \in Dies
      /\ \E i \in 1..Len(Kids[Parent(d)]) : Kids[Parent(d)][i] = d
  BY <1>1, Zenon DEF Parent
<1> QED
  BY <1>2, Zenon DEF Index

\* A child is in Dies, is no root, and its parent and place are the ones it
\* was found by.
LEMMA KidIs ==
  ASSUME NEW p \in Dies, NEW i \in 1..Len(Kids[p])
  PROVE  /\ Kids[p][i] \in Dies \ Roots
         /\ Parent(Kids[p][i]) = p
         /\ Index(Kids[p][i]) = i
<1> DEFINE d == Kids[p][i]
<1>1. Kids[p] \in Seq(Dies)
  BY DieAssumption
<1>2. d \in Dies /\ d \notin Roots
  BY <1>1, ElementOfSeq, TreeAssumption
<1>3. PICK q \in Dies : \E j \in 1..Len(Kids[q]) :
        /\ Kids[q][j] = d
        /\ \A r \in Dies : \A k \in 1..Len(Kids[r]) :
             Kids[r][k] = d => r = q /\ k = j
  BY <1>2, TreeAssumption
<1>4. PICK j \in 1..Len(Kids[q]) :
        \A r \in Dies : \A k \in 1..Len(Kids[r]) :
          Kids[r][k] = d => r = q /\ k = j
  BY <1>3, Zenon
<1>5. p = q /\ i = j
  BY <1>4, Zenon
<1>6. /\ Parent(d) \in Dies /\ Index(d) \in 1..Len(Kids[Parent(d)])
      /\ Kids[Parent(d)][Index(d)] = d
  BY <1>2, ParentIs
<1>7. Parent(d) = q /\ Index(d) = j
  BY <1>4, <1>6, Zenon
<1> QED
  BY <1>2, <1>5, <1>7

\* Roots are DIEs, and the caller's subprogram is one.
LEMMA RootsAre ==
  /\ Roots \subseteq Dies /\ Subprogram \in Roots
  /\ \A d \in Roots : Tag[d] = "subprogram"
<1>1. \A i \in DOMAIN Subprograms : Subprograms[i] \in Dies
  BY DieAssumption, ElementOfSeq, LenProperties
<1> QED
  BY <1>1, DieAssumption DEF Roots

\* What roots have, and children have from their parents, all DIEs have.
LEMMA Descent ==
  ASSUME NEW S, Roots \subseteq S,
         \A d \in Dies \ Roots : Parent(d) \in S => d \in S
  PROVE  Dies \subseteq S
<1> DEFINE bad == Dies \ S
<1> SUFFICES ASSUME bad # {}
             PROVE  FALSE
  OBVIOUS
<1>1. bad \in SUBSET Dies
  OBVIOUS
<1>2. PICK d \in bad : \A p \in bad : \A i \in 1..Len(Kids[p]) : Kids[p][i] # d
  BY <1>1, TreeAssumption, Zenon
<1>3. d \in Dies /\ d \notin Roots
  OBVIOUS
<1>4. Parent(d) \in Dies /\ Parent(d) \notin bad
  BY <1>2, <1>3, ParentIs
<1> QED
  BY <1>3, <1>4

\* f is defined from the roots down.
Defined(f, base, step) ==
  \A d \in Dies :
    f[d] = IF d \in Roots THEN base[d] ELSE step[<<d, f[Parent(d)]>>]

\* There is such a function.
LEMMA Recursion ==
  ASSUME NEW R, NEW base \in [Dies -> R], NEW step \in [Dies \X R -> R]
  PROVE  \E f \in [Dies -> R] : Defined(f, base, step)
<1> DEFINE Closed(P) ==
      /\ \A d \in Roots : <<d, base[d]>> \in P
      /\ \A d \in Dies \ Roots : \A v \in R :
           <<Parent(d), v>> \in P => <<d, step[<<d, v>>]>> \in P
    G == {x \in Dies \X R : \A P \in SUBSET (Dies \X R) : Closed(P) => x \in P}
    One(d) == \E v \in R : \A w \in R : <<d, w>> \in G <=> w = v
<1>0. Roots \subseteq Dies
  BY RootsAre
<1>1. G \subseteq Dies \X R
  OBVIOUS
<1>2. \A P \in SUBSET (Dies \X R) : Closed(P) => G \subseteq P
  BY Zenon
<1>3. \A d \in Roots : base[d] \in R /\ <<d, base[d]>> \in G
  BY <1>0
<1>4. ASSUME NEW d \in Dies, d \notin Roots, NEW v \in R, <<Parent(d), v>> \in G
      PROVE  step[<<d, v>>] \in R /\ <<d, step[<<d, v>>]>> \in G
  <2>1. step[<<d, v>>] \in R
    OBVIOUS
  <2>2. ASSUME NEW P \in SUBSET (Dies \X R), Closed(P)
        PROVE  <<d, step[<<d, v>>]>> \in P
    <3>1. <<Parent(d), v>> \in P
      BY <1>2, <1>4, <2>2, Zenon
    <3> QED
      BY <1>4, <2>2, <3>1
  <2> QED
    BY <2>1, <2>2
<1>5. Closed(G)
  BY <1>3, <1>4
<1> HIDE DEF G
<1>6. ASSUME NEW d \in Roots, NEW w \in R, <<d, w>> \in G
      PROVE  w = base[d]
  <2> SUFFICES ASSUME w # base[d]
               PROVE  FALSE
    OBVIOUS
  <2> DEFINE P == G \ {<<d, w>>}
  <2>1. Closed(P)
    BY <1>5, <1>6
  <2> QED
    BY <1>1, <1>2, <1>6, <2>1
<1>7. ASSUME NEW d \in Dies, d \notin Roots, NEW v \in R,
             \A x \in R : <<Parent(d), x>> \in G <=> x = v,
             NEW w \in R, <<d, w>> \in G
      PROVE  w = step[<<d, v>>]
  <2> SUFFICES ASSUME w # step[<<d, v>>]
               PROVE  FALSE
    OBVIOUS
  <2> DEFINE P == G \ {<<d, w>>}
  <2>1. \A e \in Roots : <<e, base[e]>> \in P
    BY <1>5, <1>7
  <2>2. \A e \in Dies \ Roots : \A x \in R :
          <<Parent(e), x>> \in P => <<e, step[<<e, x>>]>> \in P
    BY <1>5, <1>7
  <2> QED
    BY <1>1, <1>2, <1>7, <2>1, <2>2
<1> DEFINE S == {d \in Dies : One(d)}
<1>8. Roots \subseteq S
  BY <1>0, <1>3, <1>6
<1>9. ASSUME NEW d \in Dies \ Roots, Parent(d) \in S
      PROVE  d \in S
  <2>1. PICK v \in R : \A x \in R : <<Parent(d), x>> \in G <=> x = v
    BY <1>9
  <2>2. step[<<d, v>>] \in R /\ <<d, step[<<d, v>>]>> \in G
    BY <1>4, <2>1
  <2>3. \A w \in R : <<d, w>> \in G => w = step[<<d, v>>]
    BY <1>7, <2>1
  <2> QED
    BY <2>2, <2>3
<1>10. \A d \in Dies \ Roots : Parent(d) \in S => d \in S
  BY <1>9
<1>11. Dies \subseteq S
  BY <1>8, <1>10, Descent
<1> DEFINE f == [d \in Dies |-> CHOOSE v \in R : <<d, v>> \in G]
<1>12. \A d \in Dies : f[d] \in R /\ <<d, f[d]>> \in G
  BY <1>11
<1>13. f \in [Dies -> R]
  BY <1>12
<1>14. \A d \in Dies : \A v \in R : <<d, v>> \in G => v = f[d]
  BY <1>11, <1>12
<1> HIDE DEF f, S
<1>15. ASSUME NEW d \in Dies
       PROVE  f[d] = IF d \in Roots THEN base[d] ELSE step[<<d, f[Parent(d)]>>]
  <2>1. CASE d \in Roots
    BY <1>6, <1>12, <2>1
  <2>2. CASE d \notin Roots
    <3>1. Parent(d) \in Dies
      BY <2>2, ParentIs
    <3>2. f[Parent(d)] \in R /\ <<Parent(d), f[Parent(d)]>> \in G
      BY <1>12, <3>1
    <3>3. step[<<d, f[Parent(d)]>>] \in R
          /\ <<d, step[<<d, f[Parent(d)]>>]>> \in G
      BY <1>4, <2>2, <3>2
    <3> QED
      BY <1>14, <2>2, <3>3
  <2> QED
    BY <2>1, <2>2
<1> QED
  BY <1>13, <1>15 DEF Defined

\* The path of a DIE is its parent's, and its place there (Path).
LEMMA PathIs ==
  /\ Path \in [Dies -> Seq(Nat)]
  /\ \A d \in Roots : Path[d] = <<>>
  /\ \A p \in Dies : \A i \in 1..Len(Kids[p]) :
       Path[Kids[p][i]] = Append(Path[p], i)
<1> DEFINE base == [d \in Dies |-> <<>>]
           step == [x \in Dies \X Seq(Nat) |->
                      IF x[1] \in Roots THEN <<>> ELSE Append(x[2], Index(x[1]))]
<1>1. base \in [Dies -> Seq(Nat)]
  OBVIOUS
<1>2. ASSUME NEW d \in Dies, NEW s \in Seq(Nat)
      PROVE  /\ step[<<d, s>>] \in Seq(Nat)
             /\ d \notin Roots => step[<<d, s>>] = Append(s, Index(d))
  <2>1. d \notin Roots => Index(d) \in Nat
    <3>1. Len(Kids[Parent(d)]) \in Nat => 1..Len(Kids[Parent(d)]) \subseteq Nat
      OBVIOUS
    <3>2. d \notin Roots => Kids[Parent(d)] \in Seq(Dies)
      BY ParentIs, DieAssumption
    <3> QED
      BY <3>1, <3>2, ParentIs, LenProperties
  <2>2. step[<<d, s>>] = IF d \in Roots THEN <<>> ELSE Append(s, Index(d))
    OBVIOUS
  <2> QED
    BY <2>1, <2>2, AppendProperties, EmptySeq
<1>3. step \in [Dies \X Seq(Nat) -> Seq(Nat)]
  <2>1. \A x \in Dies \X Seq(Nat) : x = <<x[1], x[2]>> /\ x[1] \in Dies
          /\ x[2] \in Seq(Nat)
    OBVIOUS
  <2>2. \A x \in Dies \X Seq(Nat) : step[x] \in Seq(Nat)
    BY <1>2, <2>1
  <2> QED
    BY <2>2
<1> HIDE DEF base, step
<1> DEFINE R == Seq(Nat)
<1>4. base \in [Dies -> R] /\ step \in [Dies \X R -> R]
  BY <1>1, <1>3
<1> HIDE DEF R
<1>5. \E f \in [Dies -> R] : Defined(f, base, step)
  BY <1>4, Recursion
<1>6. PICK f \in [Dies -> Seq(Nat)] : \A d \in Dies :
        f[d] = IF d \in Roots THEN base[d] ELSE step[<<d, f[Parent(d)]>>]
  BY <1>5, Zenon DEF R, Defined
<1>7. ASSUME NEW d \in Dies
      PROVE  f[d] = IF d \in Roots THEN <<>>
                    ELSE Append(f[Parent(d)], Index(d))
  <2>1. d \notin Roots => f[Parent(d)] \in Seq(Nat)
    BY <1>6, ParentIs
  <2>2. base[d] = <<>>
    BY DEF base
  <2> QED
    BY <1>2, <1>6, <2>1, <2>2
<1>8. f = [d \in Dies |-> IF d \in Roots THEN <<>>
                          ELSE Append(f[Parent(d)], Index(d))]
  BY <1>6, <1>7
<1>9. Path = [d \in Dies |-> IF d \in Roots THEN <<>>
                             ELSE Append(Path[Parent(d)], Index(d))]
  BY <1>8, Zenon DEF Path
<1>10. ASSUME NEW d \in Dies
      PROVE  Path[d] \in Seq(Nat)
  <2> DEFINE S == {e \in Dies : Path[e] \in Seq(Nat)}
  <2>1. \A e \in Dies : Path[e] = IF e \in Roots THEN <<>>
                                  ELSE Append(Path[Parent(e)], Index(e))
    BY <1>9
  <2>2. Roots \subseteq S
    BY <2>1, RootsAre, EmptySeq
  <2>3. ASSUME NEW e \in Dies \ Roots, Parent(e) \in S
        PROVE  e \in S
    <3>1. Kids[Parent(e)] \in Seq(Dies) /\ Index(e) \in 1..Len(Kids[Parent(e)])
      BY ParentIs, DieAssumption
    <3>2. Len(Kids[Parent(e)]) \in Nat
      BY <3>1, LenProperties
    <3>3. Index(e) \in Nat
      BY <3>1, <3>2
    <3>4. Path[Parent(e)] \in Seq(Nat)
      BY <2>3
    <3>5. Append(Path[Parent(e)], Index(e)) \in Seq(Nat)
      BY <3>3, <3>4, AppendProperties
    <3>6. Path[e] = Append(Path[Parent(e)], Index(e))
      BY <2>1
    <3> QED
      BY <3>5, <3>6
  <2>4. \A e \in Dies \ Roots : Parent(e) \in S => e \in S
    BY <2>3
  <2>5. Dies \subseteq S
    BY <2>2, <2>4, Descent
  <2> QED
    BY <2>5
<1>11. Path \in [Dies -> Seq(Nat)]
  BY <1>9, <1>10
<1>12. \A d \in Roots : Path[d] = <<>>
  BY <1>9, RootsAre
<1>13. ASSUME NEW p \in Dies, NEW i \in 1..Len(Kids[p])
       PROVE  Path[Kids[p][i]] = Append(Path[p], i)
  <2>1. /\ Kids[p][i] \in Dies \ Roots /\ Parent(Kids[p][i]) = p
        /\ Index(Kids[p][i]) = i
    BY KidIs
  <2> QED
    BY <1>9, <2>1
<1> QED
  BY <1>11, <1>12, <1>13

\* The depth of a scope (Scanned).
Depth(d) == Len(Path[d])

\* Depths are numbers, and grow by one from a parent to its children.
LEMMA DepthIs ==
  /\ \A d \in Dies : Depth(d) \in Nat
  /\ \A p \in Dies : \A i \in 1..Len(Kids[p]) :
       Depth(Kids[p][i]) = Depth(p) + 1
<1>1. \A d \in Dies : Path[d] \in Seq(Nat)
  BY PathIs
<1>2. \A d \in Dies : Depth(d) \in Nat
  BY <1>1, LenProperties DEF Depth
<1>3. ASSUME NEW p \in Dies, NEW i \in 1..Len(Kids[p])
      PROVE  Depth(Kids[p][i]) = Depth(p) + 1
  <2>1. Len(Kids[p]) \in Nat
    BY DieAssumption, LenProperties
  <2>2. i \in Nat
    BY <2>1
  <2> QED
    BY <1>1, <2>2, PathIs, AppendProperties DEF Depth
<1> QED
  BY <1>2, <1>3

\* The walk gets to the caller's subprogram, and from a scope to the scopes in
\* it that are not too deep (Scanned).
LEMMA ScannedIs ==
  /\ Scanned[Subprogram]
  /\ \A d \in Dies : Scanned[d] <=>
       \/ d = Subprogram
       \/ Tag[d] = "scope" /\ Scanned[Parent(d)] /\ Depth(d) <= MaxDepth
<1> DEFINE base == [d \in Dies |-> d = Subprogram]
           step == [x \in Dies \X BOOLEAN |->
                      Tag[x[1]] = "scope" /\ x[2] /\ Depth(x[1]) <= MaxDepth]
<1>1. base \in [Dies -> BOOLEAN] /\ step \in [Dies \X BOOLEAN -> BOOLEAN]
  OBVIOUS
<1>2. \A d \in Dies : base[d] = (d = Subprogram)
  OBVIOUS
<1>3. \A d \in Dies : \A b \in BOOLEAN :
        step[<<d, b>>] = (Tag[d] = "scope" /\ b /\ Depth(d) <= MaxDepth)
  OBVIOUS
<1> HIDE DEF base, step
<1>4. \E f \in [Dies -> BOOLEAN] : Defined(f, base, step)
  BY <1>1, Recursion
<1>5. PICK f \in [Dies -> BOOLEAN] : \A d \in Dies :
        f[d] = IF d \in Roots THEN base[d] ELSE step[<<d, f[Parent(d)]>>]
  BY <1>4, Zenon DEF Defined
<1>6. ASSUME NEW d \in Dies
      PROVE  f[d] = (\/ d = Subprogram
                     \/ /\ Tag[d] = "scope" /\ f[Parent(d)]
                        /\ Depth(d) <= MaxDepth)
  <2>1. CASE d \in Roots
    BY <1>2, <1>5, <2>1, RootsAre
  <2>2. CASE d \notin Roots
    <3>1. f[Parent(d)] \in BOOLEAN /\ d # Subprogram
      BY <1>5, <2>2, ParentIs, RootsAre
    <3> QED
      BY <1>3, <1>5, <2>2, <3>1
  <2> QED
    BY <2>1, <2>2
<1>7. f = [d \in Dies |-> \/ d = Subprogram
                          \/ /\ Tag[d] = "scope" /\ f[Parent(d)]
                             /\ Depth(d) <= MaxDepth]
  BY <1>5, <1>6
<1>8. Scanned = [d \in Dies |-> \/ d = Subprogram
                                \/ /\ Tag[d] = "scope" /\ Scanned[Parent(d)]
                                   /\ Depth(d) <= MaxDepth]
  BY <1>7, Zenon DEF Scanned, Depth
<1> QED
  BY <1>8, RootsAre

-----------------------------------------------------------------------------
(* Ancestors.                                                              *)

\* With a DIE, its parent.
Up(S) == \A x \in S \ Roots : Parent(x) \in S

\* A DIE and those it is below: they are in every set that has it and, with
\* each, its parent.
Anc(d) == {a \in Dies : \A S \in SUBSET Dies : d \in S /\ Up(S) => a \in S}

\* The ancestors of a DIE are such a set, the least.
LEMMA AncIs ==
  ASSUME NEW d \in Dies
  PROVE  /\ Anc(d) \subseteq Dies /\ d \in Anc(d) /\ Up(Anc(d))
         /\ \A S \in SUBSET Dies : d \in S /\ Up(S) => Anc(d) \subseteq S
<1>1. ASSUME NEW x \in Anc(d), x \notin Roots
      PROVE  Parent(x) \in Anc(d)
  <2>1. Parent(x) \in Dies
    BY <1>1, ParentIs DEF Anc
  <2>2. \A S \in SUBSET Dies : d \in S /\ Up(S) => Parent(x) \in S
    BY <1>1 DEF Anc, Up
  <2> QED
    BY <2>1, <2>2 DEF Anc
<1>2. Up(Anc(d))
  BY <1>1 DEF Up
<1> QED
  BY <1>2 DEF Anc

\* Ancestors of ancestors are ancestors.
LEMMA AncTrans ==
  ASSUME NEW d \in Dies, NEW a \in Anc(d)
  PROVE  Anc(a) \subseteq Anc(d)
<1>1. Anc(d) \in SUBSET Dies /\ Up(Anc(d)) /\ a \in Dies
  BY AncIs
<1> QED
  BY <1>1, AncIs

\* The ancestors of a child are itself and its parent's.
LEMMA AncOfKid ==
  ASSUME NEW p \in Dies, NEW i \in 1..Len(Kids[p])
  PROVE  Anc(Kids[p][i]) = Anc(p) \union {Kids[p][i]}
<1> DEFINE d == Kids[p][i]
           S == Anc(p) \union {d}
<1>1. d \in Dies \ Roots /\ Parent(d) = p
  BY KidIs
<1>2. Anc(p) \subseteq Dies /\ p \in Anc(p) /\ Up(Anc(p))
  BY AncIs
<1>3. S \in SUBSET Dies /\ d \in S /\ Up(S)
  BY <1>1, <1>2 DEF Up
<1>4. Anc(d) \subseteq S
  BY <1>1, <1>3, AncIs
<1>5. d \in Anc(d) /\ p \in Anc(d)
  BY <1>1, AncIs DEF Up
<1>6. Anc(p) \subseteq Anc(d)
  BY <1>1, <1>5, AncTrans
<1> QED
  BY <1>4, <1>5, <1>6

\* From an ancestor, there is a way down.
LEMMA WayDown ==
  ASSUME NEW d \in Dies, NEW a \in Anc(d), a # d
  PROVE  \E i \in 1..Len(Kids[a]) : Kids[a][i] \in Anc(d)
<1> DEFINE S == {x \in Anc(d) :
                   x = d \/ \E i \in 1..Len(Kids[x]) : Kids[x][i] \in Anc(d)}
<1>1. Anc(d) \subseteq Dies /\ d \in Anc(d) /\ Up(Anc(d))
  BY AncIs
<1>2. ASSUME NEW x \in S, x \notin Roots
      PROVE  Parent(x) \in S
  <2>1. x \in Anc(d) /\ x \in Dies /\ Parent(x) \in Anc(d)
    BY <1>1, <1>2 DEF Up
  <2>2. /\ Index(x) \in 1..Len(Kids[Parent(x)])
        /\ Kids[Parent(x)][Index(x)] = x
    BY <1>2, <2>1, ParentIs
  <2> QED
    BY <2>1, <2>2
<1>3. Up(S) /\ S \in SUBSET Dies /\ d \in S
  BY <1>1, <1>2 DEF Up
<1>4. Anc(d) \subseteq S
  BY <1>3, AncIs
<1> QED
  BY <1>4

\* s begins with t.
Prefixed(s, t) ==
  Len(t) <= Len(s) /\ \A m \in 1..Len(t) : s[m] = t[m]

\* The path of a DIE begins with its ancestors'.
LEMMA PathsOfAnc ==
  ASSUME NEW d \in Dies, NEW a \in Anc(d)
  PROVE  Prefixed(Path[d], Path[a])
<1> DEFINE S == {x \in Dies : Prefixed(Path[d], Path[x])}
<1>0. \A x \in Dies : Path[x] \in Seq(Nat) /\ Len(Path[x]) \in Nat
  BY PathIs, LenProperties
<1>1. d \in S
  BY <1>0 DEF Prefixed
<1>2. ASSUME NEW x \in S, x \notin Roots
      PROVE  Parent(x) \in S
  <2> DEFINE p == Parent(x)
  <2>1. /\ p \in Dies /\ Index(x) \in 1..Len(Kids[p])
        /\ Kids[p][Index(x)] = x
    BY <1>2, ParentIs
  <2>2. Len(Kids[p]) \in Nat
    BY <2>1, DieAssumption, LenProperties
  <2>3. Index(x) \in Nat
    BY <2>1, <2>2
  <2>4. Path[x] = Append(Path[p], Index(x))
    BY <2>1, PathIs
  <2> HIDE DEF p
  <2>5. /\ Len(Path[x]) = Len(Path[p]) + 1
        /\ \A m \in 1..Len(Path[p]) : Path[x][m] = Path[p][m]
    BY <1>0, <2>1, <2>3, <2>4, AppendProperties
  <2>6. Prefixed(Path[d], Path[p])
    <3>1. /\ Len(Path[x]) <= Len(Path[d])
          /\ \A m \in 1..Len(Path[x]) : Path[d][m] = Path[x][m]
      BY <1>2 DEF Prefixed
    <3>2. Len(Path[p]) \in Nat /\ Len(Path[d]) \in Nat
      BY <1>0, <2>1
    <3>3. Len(Path[p]) <= Len(Path[d])
      BY <2>5, <3>1, <3>2
    <3>4. \A m \in 1..Len(Path[p]) : m \in 1..Len(Path[x])
      BY <2>5, <3>2
    <3> QED
      BY <2>5, <3>1, <3>3, <3>4 DEF Prefixed
  <2> QED
    BY <2>1, <2>6 DEF p
<1>3. Up(S) /\ S \in SUBSET Dies
  BY <1>2 DEF Up
<1>4. Anc(d) \subseteq S
  BY <1>1, <1>3, AncIs
<1> QED
  BY <1>4

\* Path below a child: its place is where the parent's path ends.
LEMMA PathBelow ==
  ASSUME NEW d \in Dies, NEW p \in Dies, NEW i \in 1..Len(Kids[p]),
         Kids[p][i] \in Anc(d)
  PROVE  /\ Depth(p) + 1 <= Len(Path[d]) /\ Depth(p) \in Nat
         /\ Path[d][Depth(p) + 1] = i
         /\ \A m \in 1..Depth(p) : Path[d][m] = Path[p][m]
<1>1. Path[p] \in Seq(Nat) /\ Len(Path[p]) \in Nat
  BY PathIs, LenProperties
<1>2. i \in Nat
  <2>1. Len(Kids[p]) \in Nat
    BY DieAssumption, LenProperties
  <2> QED
    BY <2>1
<1>3. Path[Kids[p][i]] = Append(Path[p], i)
  BY PathIs
<1>4. /\ Len(Path[Kids[p][i]]) = Len(Path[p]) + 1
      /\ \A m \in 1..Len(Path[p]) : Path[Kids[p][i]][m] = Path[p][m]
      /\ Path[Kids[p][i]][Len(Path[p]) + 1] = i
  BY <1>1, <1>2, <1>3, AppendProperties
<1>5. Prefixed(Path[d], Path[Kids[p][i]])
  BY PathsOfAnc
<1>6. Len(Path[p]) + 1 \in 1..(Len(Path[p]) + 1)
      /\ \A m \in 1..Len(Path[p]) : m \in 1..(Len(Path[p]) + 1)
  BY <1>1
<1> QED
  BY <1>1, <1>4, <1>5, <1>6 DEF Prefixed, Depth

\* A DIE is below one child of an ancestor only.
LEMMA OneWay ==
  ASSUME NEW d \in Dies, NEW p \in Dies, NEW i \in 1..Len(Kids[p]),
         NEW j \in 1..Len(Kids[p]),
         Kids[p][i] \in Anc(d), Kids[p][j] \in Anc(d)
  PROVE  i = j
BY PathBelow

\* Document order: what is below an earlier child comes first (Before).
LEMMA Order ==
  ASSUME NEW d \in Dies, NEW e \in Dies, NEW p \in Dies,
         NEW i \in 1..Len(Kids[p]), NEW j \in 1..Len(Kids[p]), i < j,
         Kids[p][i] \in Anc(d), Kids[p][j] \in Anc(e)
  PROVE  Before(d, e)
<1> DEFINE n == Depth(p) + 1
<1>1. /\ n <= Len(Path[d]) /\ n <= Len(Path[e]) /\ Depth(p) \in Nat
      /\ Path[d][n] = i /\ Path[e][n] = j
      /\ \A m \in 1..(n - 1) : Path[d][m] = Path[e][m]
  BY PathBelow
<1>2. Path[d] \in Seq(Nat) /\ Path[e] \in Seq(Nat)
      /\ Len(Path[d]) \in Nat /\ Len(Path[e]) \in Nat
  BY PathIs, LenProperties
<1>3. n - 1 \in Nat /\ n \in 1..Len(Path[d])
  BY <1>1, <1>2
<1> HIDE DEF n
<1>4. SubSeq(Path[d], 1, n - 1) = [m \in 1..(n - 1) |-> Path[d][m]]
      /\ SubSeq(Path[e], 1, n - 1) = [m \in 1..(n - 1) |-> Path[e][m]]
  BY <1>1, <1>2, <1>3
<1>5. SubSeq(Path[d], 1, n - 1) = SubSeq(Path[e], 1, n - 1)
  BY <1>1, <1>4
<1> QED
  BY <1>1, <1>3, <1>5 DEF Before

\* No two DIEs come before each other.
LEMMA OneOrder ==
  ASSUME NEW d \in Dies, NEW e \in Dies, Before(d, e), Before(e, d)
  PROVE  FALSE
<1>1. Path[d] \in Seq(Nat) /\ Path[e] \in Seq(Nat)
      /\ Len(Path[d]) \in Nat /\ Len(Path[e]) \in Nat
  BY PathIs, LenProperties
<1>2. ASSUME NEW a \in Dies, NEW b \in Dies, Before(a, b)
      PROVE  \E n \in Nat \ {0} :
               /\ n <= Len(Path[a]) /\ n <= Len(Path[b])
               /\ \A m \in 1..(n - 1) : Path[a][m] = Path[b][m]
               /\ Path[a][n] < Path[b][n]
  <2>1. Path[a] \in Seq(Nat) /\ Path[b] \in Seq(Nat)
        /\ Len(Path[a]) \in Nat /\ Len(Path[b]) \in Nat
    BY PathIs, LenProperties
  <2>2. PICK n \in 1..Len(Path[a]) :
          /\ n <= Len(Path[b])
          /\ SubSeq(Path[a], 1, n - 1) = SubSeq(Path[b], 1, n - 1)
          /\ Path[a][n] < Path[b][n]
    BY <1>2 DEF Before
  <2>3. n \in Nat \ {0} /\ n - 1 \in Nat
        /\ n <= Len(Path[a])
    BY <2>1
  <2>4. SubSeq(Path[a], 1, n - 1) = [m \in 1..(n - 1) |-> Path[a][m]]
        /\ SubSeq(Path[b], 1, n - 1) = [m \in 1..(n - 1) |-> Path[b][m]]
    BY <2>1, <2>2, <2>3
  <2>5. \A m \in 1..(n - 1) : Path[a][m] = Path[b][m]
    BY <2>2, <2>4
  <2> QED
    BY <2>2, <2>3, <2>5
<1>3. PICK n \in Nat \ {0} :
        /\ n <= Len(Path[d]) /\ n <= Len(Path[e])
        /\ \A m \in 1..(n - 1) : Path[d][m] = Path[e][m]
        /\ Path[d][n] < Path[e][n]
  BY <1>2
<1>4. PICK k \in Nat \ {0} :
        /\ k <= Len(Path[e]) /\ k <= Len(Path[d])
        /\ \A m \in 1..(k - 1) : Path[e][m] = Path[d][m]
        /\ Path[e][k] < Path[d][k]
  BY <1>2
<1>5. Path[d][n] \in Nat /\ Path[e][n] \in Nat
      /\ Path[d][k] \in Nat /\ Path[e][k] \in Nat
  <2>1. n \in 1..Len(Path[d]) /\ n \in 1..Len(Path[e])
        /\ k \in 1..Len(Path[d]) /\ k \in 1..Len(Path[e])
    BY <1>1, <1>3, <1>4
  <2> QED
    BY <1>1, <2>1, ElementOfSeq
<1>6. n < k => n \in 1..(k - 1)
  OBVIOUS
<1>7. k < n => k \in 1..(n - 1)
  OBVIOUS
<1> QED
  BY <1>3, <1>4, <1>5, <1>6, <1>7

\* The first of a set is the one that comes before the others (First).
LEMMA FirstIs ==
  ASSUME NEW S \in SUBSET Dies, NEW d \in S,
         \A e \in S \ {d} : Before(d, e)
  PROVE  First(S) = d
<1>1. First(S) \in S /\ \A e \in S \ {First(S)} : Before(First(S), e)
  BY Zenon DEF First
<1> QED
  BY <1>1, OneOrder

-----------------------------------------------------------------------------
(* What the walk should get to.                                            *)

\* The walk gets to a scope through scopes, from the caller's subprogram.
LEMMA ScannedUp ==
  ASSUME NEW x \in Dies, Scanned[x]
  PROVE  /\ Subprogram \in Anc(x)
         /\ \A a \in Anc(x) : Scanned[a]
<1>1. ASSUME NEW y \in Dies, Scanned[y], y \notin Roots
      PROVE  Parent(y) \in Dies /\ Scanned[Parent(y)]
  BY <1>1, ScannedIs, RootsAre, ParentIs
<1>2. \A a \in Anc(x) : Scanned[a]
  <2> DEFINE S == {y \in Dies : Scanned[y]}
  <2>1. Up(S) /\ S \in SUBSET Dies /\ x \in S
    BY <1>1 DEF Up
  <2>2. Anc(x) \subseteq S
    BY <2>1, AncIs
  <2> QED
    BY <2>2
<1>3. Subprogram \in Anc(x)
  <2> DEFINE S == {y \in Dies : Scanned[y] => Subprogram \in Anc(y)}
  <2>1. ASSUME NEW y \in Roots
        PROVE  y \in S
    <3>1. y \in Dies /\ Tag[y] = "subprogram"
      BY RootsAre
    <3>2. Scanned[y] => y = Subprogram
      BY <3>1, ScannedIs
    <3> QED
      BY <3>1, <3>2, AncIs
  <2>2. ASSUME NEW y \in Dies \ Roots, Parent(y) \in S
        PROVE  y \in S
    <3>1. SUFFICES ASSUME Scanned[y]
                   PROVE  Subprogram \in Anc(y)
      OBVIOUS
    <3>2. Subprogram \in Anc(Parent(y))
      BY <1>1, <2>2, <3>1
    <3>3. Parent(y) \in Anc(y)
      BY AncIs DEF Up
    <3> QED
      BY <3>2, <3>3, AncTrans
  <2>3. Roots \subseteq S /\ \A y \in Dies \ Roots : Parent(y) \in S => y \in S
    BY <2>1, <2>2
  <2> HIDE DEF S
  <2>4. Dies \subseteq S
    BY <2>3, Descent
  <2> QED
    BY <2>4 DEF S
<1> QED
  BY <1>2, <1>3

\* What is scanned is the subprogram or a scope.
LEMMA ScannedTags ==
  ASSUME NEW x \in Dies, Scanned[x]
  PROVE  Tag[x] \in {"subprogram", "scope"}
         /\ (Tag[x] = "scope" => Depth(x) <= MaxDepth)
BY ScannedIs, RootsAre

\* A reachable local is below scopes that are scanned.
LEMMA ReachableIs ==
  ASSUME NEW d \in Reachable
  PROVE  /\ d \in Dies /\ Tag[d] = "local"
         /\ Subprogram \in Anc(d)
         /\ \A a \in Anc(d) : a # d => Scanned[a]
<1>1. d \in Dies /\ Tag[d] = "local" /\ Scanned[Parent(d)]
  BY DEF Reachable, Locals
<1>2. d \notin Roots
  BY <1>1, RootsAre
<1> DEFINE p == Parent(d)
           i == Index(d)
<1>3. p \in Dies /\ i \in 1..Len(Kids[p]) /\ Kids[p][i] = d /\ Scanned[p]
  BY <1>1, <1>2, ParentIs
<1> HIDE DEF p, i
<1>4. Anc(d) = Anc(p) \union {d}
  BY <1>3, AncOfKid
<1> QED
  BY <1>1, <1>3, <1>4, ScannedUp

\* Nothing reachable is below a local, another DIE, or a scope too deep.
LEMMA Barren ==
  ASSUME NEW d \in Reachable, NEW a \in Anc(d),
         \/ Tag[a] \in {"local", "other"}
         \/ Tag[a] = "scope" /\ ~(Depth(a) <= MaxDepth)
  PROVE  a = d
<1>1. SUFFICES ASSUME a # d  PROVE FALSE
  OBVIOUS
<1>2. a \in Dies /\ Scanned[a]
  BY <1>1, ReachableIs DEF Anc
<1> QED
  BY <1>2, ScannedTags

-----------------------------------------------------------------------------
(* Where the walk is.                                                      *)

Level == [scope : Dies, next : Nat \ {0}]

\* The scopes of the stack are scanned, each in the one before, at the child
\* that was looked at last.
Chain(st) ==
  /\ st \in Seq(Level) /\ Len(st) \in Nat \ {0}
  /\ st[1].scope = Subprogram
  /\ \A n \in 1..Len(st) :
       /\ st[n].scope \in Dies /\ st[n].next \in Nat \ {0}
       /\ st[n].next <= Len(Kids[st[n].scope]) + 1
       /\ Scanned[st[n].scope]
       /\ Depth(st[n].scope) = n - 1
  /\ \A n \in 1..(Len(st) - 1) :
       /\ st[n].next - 1 \in 1..Len(Kids[st[n].scope])
       /\ st[n + 1].scope = Kids[st[n].scope][st[n].next - 1]
  /\ \A n \in 1..Len(st) : \A m \in 1..n : st[m].scope \in Anc(st[n].scope)

\* d is below a child that the walk is past, at some level.
BehindAt(st, d, n) ==
  \E j \in 1..Len(Kids[st[n].scope]) :
    /\ j < st[n].next
    /\ n < Len(st) => j + 1 < st[n].next
    /\ Kids[st[n].scope][j] \in Anc(d)
Behind(st, d) == \E n \in 1..Len(st) : BehindAt(st, d, n)

\* The next child of the innermost scope, if there is one.
NextOf(st) == Kids[st[Len(st)].scope][st[Len(st)].next]
HasNext(st) == st[Len(st)].next <= Len(Kids[st[Len(st)].scope])

\* Numbers of children.
LEMMA KidsLen ==
  \A p \in Dies : Kids[p] \in Seq(Dies) /\ Len(Kids[p]) \in Nat
BY DieAssumption, LenProperties

\* The next child and its place.
LEMMA NextIs ==
  ASSUME NEW st, Chain(st), HasNext(st)
  PROVE  LET t == st[Len(st)] IN
           /\ t.scope \in Dies /\ t.next \in 1..Len(Kids[t.scope])
           /\ NextOf(st) = Kids[t.scope][t.next]
           /\ NextOf(st) \in Dies \ Roots
           /\ Parent(NextOf(st)) = t.scope
           /\ Depth(NextOf(st)) = Len(st)
           /\ Scanned[t.scope]
           /\ Anc(NextOf(st)) = Anc(t.scope) \union {NextOf(st)}
<1> DEFINE t == st[Len(st)]
<1>1. Len(st) \in Nat \ {0} /\ Len(st) \in 1..Len(st)
  BY DEF Chain
<1>2. t.scope \in Dies /\ t.next \in Nat \ {0} /\ Scanned[t.scope]
      /\ Depth(t.scope) = Len(st) - 1
  BY <1>1 DEF Chain
<1>3. t.next \in 1..Len(Kids[t.scope])
  BY <1>2, KidsLen DEF HasNext
<1>4. NextOf(st) = Kids[t.scope][t.next]
  BY DEF NextOf
<1> HIDE DEF t
<1>5. /\ NextOf(st) \in Dies \ Roots /\ Parent(NextOf(st)) = t.scope
      /\ Anc(NextOf(st)) = Anc(t.scope) \union {NextOf(st)}
  BY <1>2, <1>3, <1>4, KidIs, AncOfKid
<1>6. Depth(NextOf(st)) = Len(st)
  BY <1>1, <1>2, <1>3, <1>4, DepthIs
<1> QED
  BY <1>2, <1>3, <1>4, <1>5, <1>6 DEF t

\* Below an outer level, the next child is where the inner one is.
LEMMA NextBelow ==
  ASSUME NEW st, Chain(st), HasNext(st), NEW n \in 1..(Len(st) - 1)
  PROVE  Kids[st[n].scope][st[n].next - 1] \in Anc(NextOf(st))
<1>1. Len(st) \in Nat \ {0} /\ n + 1 \in 1..Len(st) /\ Len(st) \in 1..Len(st)
  BY DEF Chain
<1>2. st[n + 1].scope \in Anc(st[Len(st)].scope)
      /\ st[n + 1].scope = Kids[st[n].scope][st[n].next - 1]
  BY <1>1 DEF Chain
<1> QED
  BY <1>2, NextIs

-----------------------------------------------------------------------------
(* What is behind and what is ahead.                                       *)

\* What is behind comes before the next child.
LEMMA BehindBefore ==
  ASSUME NEW st, Chain(st), HasNext(st), NEW e \in Dies, Behind(st, e)
  PROVE  Before(e, NextOf(st))
<1>1. PICK n \in 1..Len(st) : BehindAt(st, e, n)
  BY DEF Behind
<1>2. Len(st) \in Nat \ {0} /\ st[n].scope \in Dies /\ st[n].next \in Nat
      /\ Len(Kids[st[n].scope]) \in Nat
  BY KidsLen DEF Chain
<1>3. PICK j \in 1..Len(Kids[st[n].scope]) :
        /\ j < st[n].next
        /\ n < Len(st) => j + 1 < st[n].next
        /\ Kids[st[n].scope][j] \in Anc(e)
  BY <1>1 DEF BehindAt
<1>4. NextOf(st) \in Dies /\ NextOf(st) \in Anc(NextOf(st))
  BY NextIs, AncIs
<1>5. CASE n < Len(st)
  <2>1. n \in 1..(Len(st) - 1)
    BY <1>2, <1>5
  <2>2. /\ st[n].next - 1 \in 1..Len(Kids[st[n].scope])
        /\ Kids[st[n].scope][st[n].next - 1] \in Anc(NextOf(st))
    BY <2>1, NextBelow DEF Chain
  <2>3. j < st[n].next - 1
    BY <1>2, <1>3, <1>5
  <2> QED
    BY <1>2, <1>3, <1>4, <2>2, <2>3, Order
<1>6. CASE n = Len(st)
  <2>1. st[n].next \in 1..Len(Kids[st[n].scope])
        /\ Kids[st[n].scope][st[n].next] = NextOf(st)
    BY <1>6, NextIs
  <2> QED
    BY <1>2, <1>3, <1>4, <2>1, Order
<1> QED
  BY <1>2, <1>5, <1>6

\* A set of levels has an innermost one.
LEMMA Innermost ==
  ASSUME NEW N \in Nat, NEW S, S \subseteq 1..N, S # {}
  PROVE  \E n \in S : \A m \in S : m <= n
<1> DEFINE T == {k \in 0..N : N - k \in S}
<1>1. PICK s \in S : TRUE
  OBVIOUS
<1>2. N - s \in T
  BY <1>1
<1>3. T \subseteq Nat
  OBVIOUS
<1>4. T \subseteq Nat /\ T # {}
  BY <1>2, <1>3, Zenon
<1> HIDE DEF T
<1>5. PICK k \in T : \A y \in T : ~(<<y, k>> \in OpToRel(<, Nat))
  BY <1>4, WFMin, NatLessThanWellFounded, Zenon
<1>6. ASSUME NEW y \in T
      PROVE  k <= y
  <2>1. <<y, k>> \notin OpToRel(<, Nat)
    BY <1>5, Zenon
  <2>2. k \in Nat /\ y \in Nat
    BY <1>4
  <2>3. ~(y < k)
    BY <2>1, <2>2, Zenon DEF OpToRel
  <2> QED
    BY <2>2, <2>3
<1>7. N - k \in S /\ k \in 0..N
  BY DEF T
<1>8. ASSUME NEW m \in S
      PROVE  m <= N - k
  <2>1. m \in 1..N
    OBVIOUS
  <2>2. N - m \in T
    BY <2>1 DEF T
  <2>3. k <= N - m
    BY <1>6, <2>2
  <2> QED
    BY <1>7, <2>1, <2>3
<1> QED
  BY <1>7, <1>8

\* A reachable local that is not behind, nor below the next child, comes after.
LEMMA AheadAfter ==
  ASSUME NEW st, Chain(st), HasNext(st), NEW d \in Reachable,
         ~Behind(st, d), NextOf(st) \notin Anc(d)
  PROVE  Before(NextOf(st), d)
<1>1. Len(st) \in Nat \ {0} /\ Len(st) \in Nat
      /\ 1 \in 1..Len(st) /\ st[1].scope = Subprogram
  BY DEF Chain
<1>2. d \in Dies /\ Tag[d] = "local" /\ Subprogram \in Anc(d)
  BY ReachableIs
<1> DEFINE S == {n \in 1..Len(st) : st[n].scope \in Anc(d)}
<1>3. S \subseteq 1..Len(st) /\ S # {}
  BY <1>1, <1>2
<1>4. PICK n \in S : \A m \in S : m <= n
  BY <1>1, <1>3, Innermost
<1>5. n \in 1..Len(st) /\ st[n].scope \in Anc(d) /\ st[n].scope \in Dies
      /\ st[n].next \in Nat \ {0} /\ Scanned[st[n].scope]
      /\ Len(Kids[st[n].scope]) \in Nat
  BY KidsLen DEF Chain
<1>6. st[n].scope # d
  BY <1>2, <1>5, ScannedTags
<1>7. PICK i \in 1..Len(Kids[st[n].scope]) : Kids[st[n].scope][i] \in Anc(d)
  BY <1>2, <1>5, <1>6, WayDown
<1>8. i \in Nat /\ ~(i < st[n].next /\ (n < Len(st) => i + 1 < st[n].next))
  BY <1>5, <1>7 DEF Behind, BehindAt
<1>9. NextOf(st) \in Dies /\ NextOf(st) \in Anc(NextOf(st))
  BY NextIs, AncIs
<1>10. CASE n < Len(st)
  <2>1. n \in 1..(Len(st) - 1) /\ n + 1 \in 1..Len(st) /\ ~(n + 1 <= n)
    BY <1>1, <1>5, <1>10
  <2>2. /\ st[n].next - 1 \in 1..Len(Kids[st[n].scope])
        /\ Kids[st[n].scope][st[n].next - 1] \in Anc(NextOf(st))
        /\ st[n + 1].scope = Kids[st[n].scope][st[n].next - 1]
    BY <2>1, NextBelow DEF Chain
  <2>3. st[n + 1].scope \notin Anc(d)
    BY <1>4, <2>1
  <2>4. i # st[n].next - 1
    BY <1>7, <2>2, <2>3
  <2>5. st[n].next - 1 < i
    BY <1>5, <1>8, <1>10, <2>4
  <2> QED
    BY <1>2, <1>5, <1>7, <1>9, <2>2, <2>5, Order
<1>11. CASE n = Len(st)
  <2>1. st[n].next \in 1..Len(Kids[st[n].scope])
        /\ Kids[st[n].scope][st[n].next] = NextOf(st)
    BY <1>11, NextIs
  <2>2. i # st[n].next
    BY <1>7, <2>1
  <2>3. st[n].next < i
    BY <1>1, <1>5, <1>8, <1>11, <2>2
  <2> QED
    BY <1>2, <1>5, <1>7, <1>9, <2>1, <2>3, Order
<1> QED
  BY <1>1, <1>5, <1>10, <1>11

\* When the subprogram's own children are all looked at, all is behind.
LEMMA AllBehind ==
  ASSUME NEW st, Chain(st), Len(st) = 1, ~HasNext(st), NEW d \in Reachable
  PROVE  Behind(st, d)
<1>1. st[1].scope = Subprogram /\ st[1].next \in Nat /\ 1 \in 1..Len(st)
      /\ Scanned[st[1].scope] /\ Subprogram \in Dies
      /\ Len(Kids[Subprogram]) \in Nat
  BY RootsAre, KidsLen DEF Chain
<1>2. d \in Dies /\ Subprogram \in Anc(d) /\ Tag[d] = "local"
  BY ReachableIs
<1>3. Subprogram # d
  BY <1>1, <1>2, ScannedTags
<1>4. PICK i \in 1..Len(Kids[Subprogram]) : Kids[Subprogram][i] \in Anc(d)
  BY <1>2, <1>3, WayDown
<1>5. i < st[1].next
  BY <1>1, <1>4 DEF HasNext
<1> QED
  BY <1>1, <1>4, <1>5 DEF Behind, BehindAt

\* In the beginning, nothing is behind (Enter).
LEMMA StartChain ==
  LET st == <<[scope |-> Subprogram, next |-> 1]>> IN
    Chain(st) /\ \A d \in Reachable : ~Behind(st, d)
<1> DEFINE t == [scope |-> Subprogram, next |-> 1]
           st == <<t>>
<1>1. Subprogram \in Dies /\ Scanned[Subprogram] /\ Path[Subprogram] = <<>>
      /\ Len(Kids[Subprogram]) \in Nat
  BY RootsAre, ScannedIs, PathIs, KidsLen
<1>2. t \in Level /\ t.scope = Subprogram /\ t.next = 1
  BY <1>1 DEF Level
<1> HIDE DEF t
<1>3. st \in Seq(Level) /\ Len(st) = 1 /\ st[1] = t
  BY <1>2
<1>4. Depth(Subprogram) = 0
  BY <1>1, EmptySeq DEF Depth
<1>5. Subprogram \in Anc(Subprogram)
  BY <1>1, AncIs
<1> HIDE DEF st
<1>6. \A n \in 1..Len(st) : n = 1
  BY <1>3
<1>7. Chain(st)
  BY <1>1, <1>2, <1>3, <1>4, <1>5, <1>6 DEF Chain
<1>8. ASSUME NEW d \in Reachable, Behind(st, d)
      PROVE  FALSE
  <2>1. PICK n \in 1..Len(st) : BehindAt(st, d, n)
    BY <1>8 DEF Behind
  <2>2. n = 1
    BY <1>3
  <2>3. PICK j \in 1..Len(Kids[Subprogram]) : j < 1
    BY <1>2, <1>3, <2>1, <2>2 DEF BehindAt
  <2> QED
    BY <1>1, <2>3
<1> QED
  BY <1>7, <1>8 DEF st, t

-----------------------------------------------------------------------------
(* How the stack moves.                                                    *)

\* Past the next child (Advanced).
Forward(st) == [st EXCEPT ![Len(st)].next = @ + 1]

\* Only the innermost level changes.
LEMMA ForwardIs ==
  ASSUME NEW st, Chain(st)
  PROVE  /\ Forward(st) \in Seq(Level) /\ Len(Forward(st)) = Len(st)
         /\ Len(st) \in Nat \ {0}
         /\ \A n \in 1..Len(st) : /\ Forward(st)[n].scope = st[n].scope
                                  /\ n # Len(st) => Forward(st)[n] = st[n]
         /\ Forward(st)[Len(st)].next = st[Len(st)].next + 1
<1>1. st \in Seq(Level) /\ Len(st) \in Nat \ {0} /\ Len(st) \in 1..Len(st)
  BY DEF Chain
<1>2. st[Len(st)] \in Level
  BY <1>1, ElementOfSeq
<1> DEFINE t == [st[Len(st)] EXCEPT !.next = @ + 1]
<1>3. t \in Level /\ t.scope = st[Len(st)].scope
      /\ t.next = st[Len(st)].next + 1
  BY <1>2 DEF Level
<1>4. Forward(st) = [st EXCEPT ![Len(st)] = t]
  BY DEF Forward
<1> HIDE DEF t
<1>5. Forward(st) \in Seq(Level) /\ Len(Forward(st)) = Len(st)
      /\ \A n \in 1..Len(st) :
           Forward(st)[n] = IF n = Len(st) THEN t ELSE st[n]
  BY <1>1, <1>3, <1>4, ExceptSeq
<1> QED
  BY <1>1, <1>3, <1>5

\* One child more is behind, with all below it.
LEMMA ForwardBehind ==
  ASSUME NEW st, Chain(st), HasNext(st)
  PROVE  /\ Chain(Forward(st))
         /\ \A d : Behind(Forward(st), d)
                     <=> Behind(st, d) \/ NextOf(st) \in Anc(d)
<1> DEFINE f == Forward(st)
           l == Len(st)
<1>1. /\ f \in Seq(Level) /\ Len(f) = l /\ l \in Nat \ {0} /\ l \in 1..l
      /\ \A n \in 1..l : f[n].scope = st[n].scope /\ (n # l => f[n] = st[n])
      /\ f[l].next = st[l].next + 1
  BY ForwardIs
<1>2. st[l].next \in Nat \ {0} /\ st[l].next <= Len(Kids[st[l].scope])
      /\ Len(Kids[st[l].scope]) \in Nat
      /\ NextOf(st) = Kids[st[l].scope][st[l].next]
  BY <1>1, KidsLen DEF Chain, HasNext, NextOf
<1> HIDE DEF f, l
<1>3. Chain(f)
  <2>1. \A n \in 1..l :
          /\ f[n].scope \in Dies /\ f[n].next \in Nat \ {0}
          /\ f[n].next <= Len(Kids[f[n].scope]) + 1
          /\ Scanned[f[n].scope] /\ Depth(f[n].scope) = n - 1
    <3> SUFFICES ASSUME NEW n \in 1..l
                 PROVE  /\ f[n].scope \in Dies /\ f[n].next \in Nat \ {0}
                        /\ f[n].next <= Len(Kids[f[n].scope]) + 1
                        /\ Scanned[f[n].scope] /\ Depth(f[n].scope) = n - 1
      OBVIOUS
    <3>1. /\ st[n].scope \in Dies /\ st[n].next \in Nat \ {0}
          /\ st[n].next <= Len(Kids[st[n].scope]) + 1
          /\ Scanned[st[n].scope] /\ Depth(st[n].scope) = n - 1
      BY DEF Chain, l
    <3>2. f[n].scope = st[n].scope
      BY <1>1
    <3>3. CASE n = l
      BY <1>1, <1>2, <3>1, <3>2, <3>3
    <3>4. CASE n # l
      BY <1>1, <3>1, <3>4
    <3> QED
      BY <3>3, <3>4
  <2>2. \A n \in 1..(l - 1) :
          /\ f[n].next - 1 \in 1..Len(Kids[f[n].scope])
          /\ f[n + 1].scope = Kids[f[n].scope][f[n].next - 1]
    <3> SUFFICES ASSUME NEW n \in 1..(l - 1)
                 PROVE  /\ f[n].next - 1 \in 1..Len(Kids[f[n].scope])
                        /\ f[n + 1].scope = Kids[f[n].scope][f[n].next - 1]
      OBVIOUS
    <3>1. n \in 1..l /\ n + 1 \in 1..l /\ n # l
      BY <1>1
    <3>2. f[n] = st[n] /\ f[n + 1].scope = st[n + 1].scope
      BY <1>1, <3>1
    <3> QED
      BY <3>2 DEF Chain, l
  <2>3. \A n \in 1..l : \A m \in 1..n : f[m].scope \in Anc(f[n].scope)
    <3> SUFFICES ASSUME NEW n \in 1..l, NEW m \in 1..n
                 PROVE  f[m].scope \in Anc(f[n].scope)
      OBVIOUS
    <3>1. m \in 1..l
      BY <1>1
    <3>2. f[m].scope = st[m].scope /\ f[n].scope = st[n].scope
      BY <1>1, <3>1
    <3> QED
      BY <3>2 DEF Chain, l
  <2>4. f[1].scope = Subprogram
    BY <1>1 DEF Chain
  <2> QED
    BY <1>1, <2>1, <2>2, <2>3, <2>4 DEF Chain
<1>4. ASSUME NEW d
      PROVE  Behind(f, d) <=> Behind(st, d) \/ NextOf(st) \in Anc(d)
  <2>1. ASSUME NEW n \in 1..l, n # l
        PROVE  BehindAt(f, d, n) <=> BehindAt(st, d, n)
    <3>1. f[n] = st[n]
      BY <1>1, <2>1
    <3>2. Len(f) = Len(st)
      BY <1>1 DEF l
    <3> QED
      BY <3>1, <3>2, Zenon DEF BehindAt
  <2>2. BehindAt(f, d, l) <=>
          \E j \in 1..Len(Kids[st[l].scope]) :
            j < st[l].next + 1 /\ Kids[st[l].scope][j] \in Anc(d)
    BY <1>1 DEF BehindAt
  <2>3. BehindAt(st, d, l) <=>
          \E j \in 1..Len(Kids[st[l].scope]) :
            j < st[l].next /\ Kids[st[l].scope][j] \in Anc(d)
    BY <1>1 DEF BehindAt, l
  <2>4. \A j \in 1..Len(Kids[st[l].scope]) :
          j < st[l].next + 1 <=> j < st[l].next \/ j = st[l].next
    BY <1>2
  <2>5. st[l].next \in 1..Len(Kids[st[l].scope])
    BY <1>2
  <2>6. BehindAt(f, d, l) <=> BehindAt(st, d, l) \/ NextOf(st) \in Anc(d)
    BY <1>2, <2>2, <2>3, <2>4, <2>5
  <2>7. Behind(f, d) <=> \E n \in 1..l : BehindAt(f, d, n)
    BY <1>1 DEF Behind
  <2>8. Behind(st, d) <=> \E n \in 1..l : BehindAt(st, d, n)
    BY DEF Behind, l
  <2> QED
    BY <1>1, <2>1, <2>6, <2>7, <2>8, Zenon
<1> QED
  BY <1>3, <1>4 DEF f

\* Into the next child (Descend): nothing more is behind.
LEMMA DownBehind ==
  ASSUME NEW st, Chain(st), HasNext(st),
         Tag[NextOf(st)] = "scope", Len(st) <= MaxDepth
  PROVE  LET g == Append(Forward(st), [scope |-> NextOf(st), next |-> 1]) IN
           Chain(g) /\ \A d : Behind(g, d) <=> Behind(st, d)
<1> DEFINE f == Forward(st)
           l == Len(st)
           e == NextOf(st)
           t == [scope |-> e, next |-> 1]
           g == Append(f, t)
<1>1. /\ f \in Seq(Level) /\ Len(f) = l /\ l \in Nat \ {0} /\ l \in 1..l
      /\ \A n \in 1..l : f[n].scope = st[n].scope /\ (n # l => f[n] = st[n])
      /\ f[l].next = st[l].next + 1
  BY ForwardIs
<1>2. Chain(f)
  BY ForwardBehind
<1>3. /\ e \in Dies \ Roots /\ Depth(e) = l /\ Parent(e) = st[l].scope
      /\ Scanned[st[l].scope] /\ e = Kids[st[l].scope][st[l].next]
      /\ st[l].next \in 1..Len(Kids[st[l].scope])
      /\ Anc(e) = Anc(st[l].scope) \union {e}
      /\ Len(Kids[e]) \in Nat /\ Len(Kids[st[l].scope]) \in Nat
      /\ st[l].next \in Nat
  BY <1>1, NextIs, KidsLen DEF Chain
<1>4. Scanned[e]
  BY <1>3, ScannedIs
<1>5. t \in Level /\ t.scope = e /\ t.next = 1
  BY <1>3 DEF Level
<1> HIDE DEF t, f, l, e
<1>6. /\ g \in Seq(Level) /\ Len(g) = l + 1 /\ g[l + 1] = t
      /\ \A n \in 1..l : g[n] = f[n]
  BY <1>1, <1>5, AppendProperties
<1> HIDE DEF g
<1>7. \A n \in 1..(l + 1) : n \in 1..l \/ n = l + 1
  BY <1>1
<1>8. Chain(g)
  <2>1. ASSUME NEW n \in 1..(l + 1)
        PROVE  /\ g[n].scope \in Dies /\ g[n].next \in Nat \ {0}
               /\ g[n].next <= Len(Kids[g[n].scope]) + 1
               /\ Scanned[g[n].scope] /\ Depth(g[n].scope) = n - 1
    <3>1. CASE n \in 1..l
      BY <1>1, <1>2, <1>6, <3>1 DEF Chain
    <3>2. CASE n = l + 1
      BY <1>1, <1>3, <1>4, <1>5, <1>6, <3>2
    <3> QED
      BY <1>7, <3>1, <3>2
  <2>2. ASSUME NEW n \in 1..l
        PROVE  /\ g[n].next - 1 \in 1..Len(Kids[g[n].scope])
               /\ g[n + 1].scope = Kids[g[n].scope][g[n].next - 1]
    <3>1. CASE n = l
      <4>1. g[l].scope = st[l].scope /\ g[l].next = st[l].next + 1
        BY <1>1, <1>6
      <4>2. (st[l].next + 1) - 1 = st[l].next
        BY <1>3
      <4>3. g[l + 1].scope = e
        BY <1>5, <1>6
      <4> QED
        BY <1>3, <3>1, <4>1, <4>2, <4>3
    <3>2. CASE n # l
      <4>1. n \in 1..(l - 1) /\ n + 1 \in 1..l
        BY <1>1, <3>2
      <4> QED
        BY <1>1, <1>2, <1>6, <4>1 DEF Chain
    <3> QED
      BY <3>1, <3>2
  <2>3. ASSUME NEW n \in 1..(l + 1), NEW m \in 1..n
        PROVE  g[m].scope \in Anc(g[n].scope)
    <3>1. CASE n \in 1..l
      <4>1. m \in 1..l
        BY <1>1, <3>1
      <4> QED
        BY <1>1, <1>2, <1>6, <3>1, <4>1 DEF Chain
    <3>2. CASE n = l + 1
      <4>1. m \in 1..l \/ m = l + 1
        BY <1>7, <3>2
      <4>2. CASE m \in 1..l
        <5>1. f[m].scope \in Anc(f[l].scope)
          BY <1>1, <1>2, <4>2 DEF Chain
        <5>2. g[n].scope = e /\ g[m].scope = f[m].scope
              /\ f[l].scope = st[l].scope
          BY <1>1, <1>5, <1>6, <3>2, <4>2
        <5> QED
          BY <1>3, <5>1, <5>2
      <4>3. CASE m = l + 1
        BY <1>3, <1>5, <1>6, <3>2, <4>3
      <4> QED
        BY <4>1, <4>2, <4>3
    <3> QED
      BY <1>7, <3>1, <3>2
  <2>4. g[1].scope = Subprogram
    <3>1. 1 \in 1..l
      BY <1>1
    <3> QED
      BY <1>2, <1>6, <3>1 DEF Chain
  <2>5. (l + 1) - 1 = l /\ l + 1 \in Nat \ {0}
    BY <1>1
  <2> QED
    BY <1>6, <2>1, <2>2, <2>3, <2>4, <2>5 DEF Chain
<1>9. ASSUME NEW d
      PROVE  Behind(g, d) <=> Behind(st, d)
  <2>1. ~BehindAt(g, d, l + 1)
    BY <1>3, <1>5, <1>6 DEF BehindAt
  <2>2. ASSUME NEW n \in 1..l, n # l
        PROVE  BehindAt(g, d, n) <=> BehindAt(st, d, n)
    <3>1. g[n] = st[n]
      BY <1>1, <1>6, <2>2
    <3>2. n < Len(g) /\ n < Len(st)
      BY <1>1, <1>6, <2>2 DEF l
    <3> QED
      BY <3>1, <3>2, Zenon DEF BehindAt
  <2>3. BehindAt(g, d, l) <=> BehindAt(st, d, l)
    <3>1. g[l].scope = st[l].scope /\ g[l].next = st[l].next + 1
          /\ l < Len(g) /\ ~(l < Len(st))
      BY <1>1, <1>6 DEF l
    <3>2. \A j \in 1..Len(Kids[st[l].scope]) :
            j < st[l].next <=> j + 1 < st[l].next + 1 /\ j < st[l].next + 1
      BY <1>3
    <3> QED
      BY <3>1, <3>2 DEF BehindAt
  <2>4. Behind(g, d) <=> \E n \in 1..(l + 1) : BehindAt(g, d, n)
    BY <1>6 DEF Behind
  <2>5. Behind(st, d) <=> \E n \in 1..l : BehindAt(st, d, n)
    BY DEF Behind, l
  <2>6. \A n \in 1..l : n \in 1..(l + 1)
    BY <1>1
  <2> QED
    BY <1>7, <2>1, <2>2, <2>3, <2>4, <2>5, <2>6, Zenon
<1> QED
  BY <1>8, <1>9 DEF g, f, e, t

\* Out of a scope whose children are all looked at (Ascend): of the reachable
\* locals, nothing more is behind.
LEMMA UpBehind ==
  ASSUME NEW st, Chain(st), ~HasNext(st), Len(st) > 1
  PROVE  LET h == SubSeq(st, 1, Len(st) - 1) IN
           Chain(h) /\ \A d \in Reachable : Behind(h, d) <=> Behind(st, d)
<1> DEFINE h == SubSeq(st, 1, Len(st) - 1)
           l == Len(st)
           k == l - 1
<1>1. l \in Nat \ {0} /\ k \in Nat \ {0} /\ k \in 1..l /\ l \in 1..l
      /\ k + 1 = l /\ st \in Seq(Level)
      /\ \A n \in 1..k : n \in 1..l
  BY DEF Chain
<1>2. /\ h \in Seq(Level) /\ Len(h) = k
      /\ \A n \in 1..k : h[n] = st[n]
  BY <1>1, SubSeqProperties
<1> HIDE DEF h
<1> HIDE DEF l
<1>3. st[l].scope = Kids[st[k].scope][st[k].next - 1]
      /\ st[k].next - 1 \in 1..Len(Kids[st[k].scope])
  <2>1. k \in 1..(Len(st) - 1)
    BY <1>1 DEF l
  <2>2. /\ st[k].next - 1 \in 1..Len(Kids[st[k].scope])
        /\ st[k + 1].scope = Kids[st[k].scope][st[k].next - 1]
    BY ONLY <2>1, Chain(st), Zenon DEF Chain
  <2> QED
    BY <1>1, <2>2
<1>4. /\ st[l].scope \in Dies /\ st[k].scope \in Dies
      /\ st[l].next \in Nat /\ st[k].next \in Nat /\ Scanned[st[l].scope]
      /\ Len(Kids[st[l].scope]) \in Nat /\ Len(Kids[st[k].scope]) \in Nat
      /\ ~(st[l].next <= Len(Kids[st[l].scope]))
  BY <1>1, KidsLen DEF Chain, HasNext, l
<1> HIDE DEF k
<1>5. Chain(h)
  <2>1. \A n \in 1..(k - 1) : n \in 1..k /\ n + 1 \in 1..k /\ n \in 1..(l - 1)
    BY <1>1
  <2>2. \A n \in 1..(k - 1) :
          /\ h[n].next - 1 \in 1..Len(Kids[h[n].scope])
          /\ h[n + 1].scope = Kids[h[n].scope][h[n].next - 1]
    BY <1>2, <2>1 DEF Chain, l
  <2>3. \A n \in 1..k :
          /\ h[n].scope \in Dies /\ h[n].next \in Nat \ {0}
          /\ h[n].next <= Len(Kids[h[n].scope]) + 1
          /\ Scanned[h[n].scope] /\ Depth(h[n].scope) = n - 1
    BY <1>1, <1>2 DEF Chain, l
  <2>4. \A n \in 1..k : \A m \in 1..n : m \in 1..k
    BY <1>1
  <2>5. \A n \in 1..k : \A m \in 1..n : h[m].scope \in Anc(h[n].scope)
    BY <1>1, <1>2, <2>4 DEF Chain, l
  <2>6. 1 \in 1..k
    BY <1>1
  <2>7. h[1].scope = Subprogram
    BY <1>2, <2>6 DEF Chain
  <2> QED
    BY <1>1, <1>2, <2>2, <2>3, <2>5, <2>7 DEF Chain
<1>6. ASSUME NEW d \in Reachable
      PROVE  Behind(h, d) <=> Behind(st, d)
  <2>0. d \in Dies /\ Tag[d] = "local"
    BY ReachableIs
  <2>1. ASSUME NEW n \in 1..k, n # k
        PROVE  BehindAt(h, d, n) <=> BehindAt(st, d, n)
    <3>1. h[n] = st[n] /\ n < Len(h) /\ n < Len(st)
      BY <1>1, <1>2, <2>1 DEF l
    <3> QED
      BY <3>1, Zenon DEF BehindAt
  <2>2. k \in 1..k /\ h[k] = st[k] /\ ~(k < Len(h)) /\ k < Len(st)
        /\ ~(l < Len(st))
    BY <1>1, <1>2 DEF l
  <2>3. BehindAt(st, d, k) => BehindAt(h, d, k)
    BY <2>2 DEF BehindAt
  <2>4. BehindAt(st, d, l) => BehindAt(h, d, k)
    <3> SUFFICES ASSUME BehindAt(st, d, l)
                 PROVE  BehindAt(h, d, k)
      OBVIOUS
    <3>1. PICK j \in 1..Len(Kids[st[l].scope]) : Kids[st[l].scope][j] \in Anc(d)
      BY DEF BehindAt
    <3>2. st[l].scope \in Anc(Kids[st[l].scope][j])
      BY <1>4, AncOfKid, AncIs
    <3>3. st[l].scope \in Anc(d)
      BY <2>0, <3>1, <3>2, AncTrans
    <3>4. st[k].next - 1 < st[k].next
      BY <1>4
    <3> QED
      BY <1>3, <2>2, <3>3, <3>4 DEF BehindAt
  <2>5. BehindAt(h, d, k) => BehindAt(st, d, k) \/ BehindAt(st, d, l)
    <3> SUFFICES ASSUME BehindAt(h, d, k), ~BehindAt(st, d, k)
                 PROVE  BehindAt(st, d, l)
      OBVIOUS
    <3>1. PICK j \in 1..Len(Kids[st[k].scope]) :
            j < st[k].next /\ Kids[st[k].scope][j] \in Anc(d)
      BY <2>2 DEF BehindAt
    <3>2. ~(j + 1 < st[k].next)
      BY <2>2, <3>1 DEF BehindAt
    <3>3. j = st[k].next - 1
      BY <1>4, <3>1, <3>2
    <3>4. st[l].scope \in Anc(d) /\ st[l].scope # d
      BY <1>3, <1>4, <2>0, <3>1, <3>3, ScannedTags
    <3>5. PICK i \in 1..Len(Kids[st[l].scope]) :
            Kids[st[l].scope][i] \in Anc(d)
      BY <2>0, <3>4, WayDown
    <3>6. i < st[l].next
      BY <1>4
    <3> QED
      BY <2>2, <3>5, <3>6 DEF BehindAt
  <2>6. Behind(h, d) <=> \E n \in 1..k : BehindAt(h, d, n)
    BY <1>2 DEF Behind
  <2>7. Behind(st, d) <=> \E n \in 1..l : BehindAt(st, d, n)
    BY DEF Behind, l
  <2>8. \A n \in 1..l : n \in 1..k \/ n = l
    BY <1>1
  <2> QED
    BY <1>1, <2>1, <2>2, <2>3, <2>4, <2>5, <2>6, <2>7, <2>8, Zenon
<1> QED
  BY <1>5, <1>6 DEF h, k, l

-----------------------------------------------------------------------------
(* The inductive invariant.                                                *)

Seen == {seen[i] : i \in 1..Len(seen)}
Mus == {mu[i] : i \in 1..Len(mu)}

\* What the walk finds, by the addresses as they are decoded: Wanted, with
\* Addr for Meant.
Chosen(f) ==
  LET there == {d \in Reachable : Match(f, d)}
      mus == {d \in Reachable : IsMu(d)} IN
    CASE there \intersect mus # {} -> First(there \intersect mus)
      [] there \intersect mus = {} /\ there # {} -> First(there)
      [] there = {} /\ Cardinality({NameOf[TypeOf[d]] : d \in mus}) = 1 ->
           First(mus)
      [] OTHER -> NoDie

\* What is found is at the pointer, or, if no local is, a MaybeUninit of the
\* one type there is.
Justified ==
  found # NoDie =>
    \/ found \in Reachable /\ Match(frame, found)
    \/ \A d \in Reachable : IsMu(d) => SameType(d, found)

\* What is behind the walk has been seen, and nothing else.
SeenIsBehind == Seen = {d \in Reachable : Behind(stack, d)}

\* No MaybeUninit at the pointer has been seen, or the walk had ended there.
NoHit == \A d \in Seen : ~(Match(frame, d) /\ IsMu(d))

\* The fallback is the first seen at the pointer.
FallbackFirst ==
  /\ fallback = NoDie => \A d \in Seen : ~Match(frame, d)
  /\ fallback # NoDie =>
       /\ fallback \in Seen /\ Match(frame, fallback)
       /\ \A d \in Seen \ {fallback} :
            Match(frame, d) => Before(fallback, d)

\* The MaybeUninits are those seen, the first of them first.
MusFirst ==
  /\ Mus = {d \in Seen : IsMu(d)}
  /\ mu # <<>> => \A d \in Mus \ {mu[1]} : Before(mu[1], d)

Begun ==
  phase = "called" => /\ seen = <<>> /\ mu = <<>>
                      /\ fallback = NoDie /\ found = NoDie

Walking ==
  phase = "scan" =>
    /\ Usable(frame.base) /\ found = NoDie
    /\ Chain(stack) /\ SeenIsBehind /\ NoHit /\ FallbackFirst /\ MusFirst

Ended ==
  phase = "done" =>
    IF Usable(frame.base) THEN found = Chosen(frame) /\ Justified
    ELSE found = NoDie

WalkInv == frame \in Frames /\ TypeOK /\ Begun /\ Walking /\ Ended

-----------------------------------------------------------------------------
(* The steps.                                                              *)

\* The subprogram of the return address is the caller's (subprogram_at).
LEMMA CallerIs ==
  ASSUME NEW pc \in Pcs
  PROVE  SubprogramAt(pc) = Subprogram
<1> DEFINE hit(i) == HasCode(Subprograms[i], pc)
           S == {i \in DOMAIN Subprograms : hit(i)}
<1>1. DOMAIN Subprograms = 1..Len(Subprograms) /\ Len(Subprograms) \in Nat
  BY DieAssumption, LenProperties
<1>2. \A i \in DOMAIN Subprograms : hit(i) <=> Subprograms[i] = Subprogram
  BY CodeAssumption, Zenon
<1> HIDE DEF hit
<1>3. S \subseteq Nat
  BY <1>1
<1>4. S # {}
  BY <1>2, DieAssumption
<1> HIDE DEF S
<1>5. PICK i \in S : \A y \in S : ~(<<y, i>> \in OpToRel(<, Nat))
  BY <1>3, <1>4, WFMin, NatLessThanWellFounded, Zenon
<1>6. ASSUME NEW h \in 1..(i - 1), hit(h)
      PROVE  FALSE
  <2>1. i \in DOMAIN Subprograms /\ i \in Nat
    BY <1>3 DEF S
  <2>2. h \in DOMAIN Subprograms /\ h \in Nat /\ h < i
    BY <1>1, <2>1
  <2>3. h \in S
    BY <1>6, <2>2 DEF S
  <2>4. <<h, i>> \notin OpToRel(<, Nat)
    BY <1>5, <2>3, Zenon
  <2>5. ~(h < i)
    BY <2>1, <2>2, <2>4, Zenon DEF OpToRel
  <2> QED
    BY <2>2, <2>5
<1>7. \E j \in DOMAIN Subprograms : hit(j) /\ \A h \in 1..(j - 1) : ~hit(h)
  BY <1>5, <1>6, Zenon DEF S
<1> DEFINE c == CHOOSE j \in DOMAIN Subprograms :
                  hit(j) /\ \A h \in 1..(j - 1) : ~hit(h)
<1>8. c \in DOMAIN Subprograms /\ hit(c)
  BY <1>7, Zenon
<1>9. SubprogramAt(pc) = Subprograms[c]
  BY Zenon DEF SubprogramAt, hit
<1> QED
  BY <1>2, <1>8, <1>9, Zenon

\* What a list has after one more.
LEMMA AppendSet ==
  ASSUME NEW S, NEW s \in Seq(S), NEW e \in S
  PROVE  /\ Append(s, e) \in Seq(S)
         /\ {Append(s, e)[i] : i \in 1..Len(Append(s, e))}
              = {s[i] : i \in 1..Len(s)} \union {e}
         /\ s # <<>> => Append(s, e)[1] = s[1]
         /\ s = <<>> => Append(s, e)[1] = e
<1>1. /\ Append(s, e) \in Seq(S) /\ Len(Append(s, e)) = Len(s) + 1
      /\ \A i \in 1..Len(s) : Append(s, e)[i] = s[i]
      /\ Append(s, e)[Len(s) + 1] = e /\ Len(s) \in Nat
  BY AppendProperties, LenProperties
<1>2. \A i \in 1..(Len(s) + 1) : i \in 1..Len(s) \/ i = Len(s) + 1
  BY <1>1
<1>3. \A i \in 1..Len(s) : i \in 1..(Len(s) + 1)
  BY <1>1
<1>4. Len(s) + 1 \in 1..(Len(s) + 1)
  BY <1>1
<1>5. {Append(s, e)[i] : i \in 1..(Len(s) + 1)}
        = {s[i] : i \in 1..Len(s)} \union {e}
  BY <1>1, <1>2, <1>3, <1>4
<1>6. s # <<>> => 1 \in 1..Len(s)
  BY <1>1, EmptySeq
<1>7. s = <<>> => Len(s) + 1 = 1
  BY EmptySeq
<1> QED
  BY <1>1, <1>5, <1>6, <1>7

\* The child that is looked at, in the words of the lemmas above.
LEMMA DieIs ==
  ASSUME WalkInv, More
  PROVE  /\ Chain(stack) /\ HasNext(stack)
         /\ die = NextOf(stack) /\ Advanced = Forward(stack)
         /\ die \in Dies /\ die # NoDie
         /\ Tag[die] = "local" => die \in Reachable /\ die \in Locals
<1>1. Chain(stack) /\ HasNext(stack)
  BY DEF WalkInv, Walking, More, HasNext, top
<1>2. die = NextOf(stack) /\ Advanced = Forward(stack)
  BY DEF die, NextOf, top, Advanced, Forward
<1>3. die \in Dies /\ Parent(die) = stack[Len(stack)].scope
      /\ Scanned[stack[Len(stack)].scope]
  BY <1>1, <1>2, NextIs
<1>4. die # NoDie
  BY <1>3, DieAssumption
<1>5. Tag[die] = "local" => die \in Reachable /\ die \in Locals
  BY <1>3 DEF Reachable, Locals
<1> QED
  BY <1>1, <1>2, <1>3, <1>4, <1>5

\* A step that moves the stack only, past nothing reachable.
LEMMA Moves ==
  ASSUME WalkInv, phase = "scan",
         UNCHANGED <<frame, phase, seen, fallback, mu, found>>,
         Chain(stack'),
         \A d \in Reachable : Behind(stack', d) <=> Behind(stack, d)
  PROVE  WalkInv'
<1>1. TypeOK /\ Walking /\ Begun /\ Ended /\ frame \in Frames
  BY DEF WalkInv
<1>2. TypeOK'
  <2>1. stack' \in Seq(Level) /\ stack' # <<>>
        /\ \A i \in 1..Len(stack') :
             stack'[i].next <= Len(Kids[stack'[i].scope]) + 1
    BY EmptySeq DEF Chain
  <2> QED
    BY <1>1, <2>1 DEF TypeOK, Level
<1>3. SeenIsBehind'
  <2>1. Seen' = Seen
    BY DEF Seen
  <2>2. Seen = {d \in Reachable : Behind(stack, d)}
    BY <1>1 DEF Walking, SeenIsBehind
  <2>3. Seen' = {d \in Reachable : Behind(stack', d)}
    BY <2>1, <2>2
  <2> QED
    BY <2>3 DEF SeenIsBehind
<1>4. NoHit' /\ FallbackFirst' /\ MusFirst'
  BY <1>1 DEF Walking, NoHit, FallbackFirst, MusFirst, Seen, Mus
<1>5. Walking'
  BY <1>1, <1>3, <1>4 DEF Walking
<1>6. Begun' /\ Ended' /\ frame' \in Frames
  BY <1>1 DEF Begun, Ended
<1> QED
  BY <1>2, <1>5, <1>6 DEF WalkInv

\* What the frames are (Init).
LEMMA FrameIs ==
  ASSUME NEW f \in Frames
  PROVE  /\ f.base \in FrameBases /\ f.pc \in Pcs
         /\ f.ptr \in Addresses /\ f.target \in Locals
         /\ f.target \in Reachable /\ IsMu(f.target)
BY DEF Frames

\* At the beginning, nothing has been looked at.
LEMMA WalkInit ==
  ASSUME Init
  PROVE  WalkInv
<1>1. frame \in Frames /\ phase = "called" /\ stack = <<>> /\ seen = <<>>
      /\ fallback = NoDie /\ mu = <<>> /\ found = NoDie
  BY DEF Init
<1>2. frame.base \in FrameBases /\ frame.pc \in Pcs
      /\ frame.ptr \in Addresses /\ frame.target \in Locals
  BY <1>1, FrameIs
<1>3. TypeOK
  BY <1>1, <1>2, EmptySeq DEF TypeOK
<1> QED
  BY <1>1, <1>3 DEF WalkInv, Begun, Walking, Ended

\* Into the subprogram.
LEMMA EnterStep ==
  ASSUME WalkInv, Enter
  PROVE  WalkInv'
<1>1. TypeOK /\ Begun /\ frame \in Frames /\ phase = "called"
      /\ Usable(frame.base) /\ phase' = "scan"
      /\ UNCHANGED <<frame, seen, fallback, mu, found>>
      /\ stack' = <<[scope |-> SubprogramAt(frame.pc), next |-> 1]>>
  BY DEF WalkInv, Enter
<1>2. SubprogramAt(frame.pc) = Subprogram
  BY <1>1, FrameIs, CallerIs
<1>3. Chain(stack') /\ \A d \in Reachable : ~Behind(stack', d)
  BY <1>1, <1>2, StartChain
<1>4. stack' \in Seq(Level) /\ stack' # <<>>
      /\ \A i \in 1..Len(stack') :
           stack'[i].next <= Len(Kids[stack'[i].scope]) + 1
  BY <1>3, EmptySeq DEF Chain
<1>5. TypeOK'
  BY <1>1, <1>4 DEF TypeOK, Level
<1>6. seen = <<>> /\ mu = <<>> /\ fallback = NoDie /\ found = NoDie
  BY <1>1 DEF Begun
<1>7. Seen' = {} /\ Mus' = {}
  BY <1>1, <1>6, EmptySeq DEF Seen, Mus
<1>8. SeenIsBehind'
  BY <1>3, <1>7 DEF SeenIsBehind
<1>9. NoHit' /\ FallbackFirst' /\ MusFirst'
  BY <1>1, <1>6, <1>7 DEF NoHit, FallbackFirst, MusFirst
<1>10. Walking' /\ Begun' /\ Ended'
  BY <1>1, <1>3, <1>6, <1>8, <1>9 DEF Walking, Begun, Ended
<1> QED
  BY <1>1, <1>5, <1>10 DEF WalkInv

\* A frame base that the code does not know.
LEMMA RefuseStep ==
  ASSUME WalkInv, Refuse
  PROVE  WalkInv'
<1>1. TypeOK /\ Begun /\ frame \in Frames /\ phase = "called"
      /\ ~Usable(frame.base) /\ phase' = "done"
      /\ UNCHANGED <<frame, stack, seen, fallback, mu, found>>
  BY DEF WalkInv, Refuse
<1>2. TypeOK'
  BY <1>1 DEF TypeOK
<1>3. Walking' /\ Begun' /\ Ended'
  BY <1>1 DEF Walking, Begun, Ended
<1> QED
  BY <1>1, <1>2, <1>3 DEF WalkInv

\* Into a scope.
LEMMA DescendStep ==
  ASSUME WalkInv, Descend
  PROVE  WalkInv'
<1>1. /\ More /\ Tag[die] = "scope" /\ Len(stack) <= MaxDepth
      /\ UNCHANGED <<frame, phase, seen, fallback, mu, found>>
      /\ stack' = Append(Advanced, [scope |-> die, next |-> 1])
      /\ phase = "scan"
  BY DEF Descend, More
<1>2. Chain(stack) /\ HasNext(stack) /\ die = NextOf(stack)
      /\ Advanced = Forward(stack)
  BY <1>1, DieIs
<1>3. stack' = Append(Forward(stack), [scope |-> NextOf(stack), next |-> 1])
  BY <1>1, <1>2
<1>4. Chain(stack') /\ \A d \in Reachable : Behind(stack', d) <=> Behind(stack, d)
  BY <1>1, <1>2, <1>3, DownBehind
<1> QED
  BY <1>1, <1>4, Moves

\* Past a DIE that nothing reachable is below.
LEMMA SkipStep ==
  ASSUME WalkInv, Skip
  PROVE  WalkInv'
<1>1. /\ More
      /\ Tag[die] = "other" \/ (Tag[die] = "scope" /\ Len(stack) > MaxDepth)
      /\ UNCHANGED <<frame, phase, seen, fallback, mu, found>>
      /\ stack' = Advanced /\ phase = "scan"
  BY DEF Skip, More
<1>2. Chain(stack) /\ HasNext(stack) /\ die = NextOf(stack)
      /\ Advanced = Forward(stack) /\ die \in Dies
  BY <1>1, DieIs
<1>3. Chain(stack') /\ \A d : Behind(stack', d) <=>
                                Behind(stack, d) \/ die \in Anc(d)
  BY <1>1, <1>2, ForwardBehind
<1>4. ASSUME NEW d \in Reachable
      PROVE  die \notin Anc(d)
  <2>1. Depth(die) = Len(stack) /\ Len(stack) \in Nat
    BY <1>2, NextIs DEF Chain
  <2>2. MaxDepth \in Nat
    BY DieAssumption
  <2>3. Tag[die] = "other" \/ (Tag[die] = "scope" /\ ~(Depth(die) <= MaxDepth))
    BY <1>1, <2>1, <2>2
  <2>4. die \in Anc(d) => die = d
    BY <2>3, Barren
  <2>5. Tag[d] = "local"
    BY ReachableIs
  <2> QED
    BY <2>3, <2>4, <2>5
<1>5. \A d \in Reachable : Behind(stack', d) <=> Behind(stack, d)
  BY <1>3, <1>4
<1> QED
  BY <1>1, <1>3, <1>5, Moves

\* Out of a scope.
LEMMA AscendStep ==
  ASSUME WalkInv, Ascend
  PROVE  WalkInv'
<1>1. /\ Exhausted /\ Len(stack) > 1 /\ phase = "scan"
      /\ UNCHANGED <<frame, phase, seen, fallback, mu, found>>
      /\ stack' = SubSeq(stack, 1, Len(stack) - 1)
  BY DEF Ascend, Exhausted
<1>2. Chain(stack)
  BY <1>1 DEF WalkInv, Walking
<1>3. ~HasNext(stack)
  <2>1. stack[Len(stack)].scope \in Dies /\ stack[Len(stack)].next \in Nat
    BY <1>2 DEF Chain
  <2>2. Len(Kids[stack[Len(stack)].scope]) \in Nat
    BY <2>1, KidsLen
  <2> QED
    BY <1>1, <2>1, <2>2 DEF Exhausted, HasNext, top
<1>4. Chain(stack') /\ \A d \in Reachable : Behind(stack', d) <=> Behind(stack, d)
  BY <1>1, <1>2, <1>3, UpBehind
<1> QED
  BY <1>1, <1>4, Moves

\* No reachable local but itself is below a local.
LEMMA BelowLocal ==
  ASSUME WalkInv, More, Tag[die] = "local"
  PROVE  /\ \A d \in Reachable : die \in Anc(d) <=> d = die
         /\ Seen = {d \in Reachable : Behind(stack, d)}
         /\ \A e \in Seen : e \in Dies /\ Before(e, die)
         /\ \A e \in Reachable : e \notin Seen /\ e # die => Before(die, e)
         /\ die \notin Seen
<1>1. Chain(stack) /\ HasNext(stack) /\ die = NextOf(stack)
      /\ die \in Reachable /\ die \in Dies
  BY DieIs
<1>2. ASSUME NEW d \in Reachable
      PROVE  die \in Anc(d) <=> d = die
  BY <1>1, Barren, AncIs
<1>3. Seen = {d \in Reachable : Behind(stack, d)}
  BY DEF WalkInv, Walking, More, SeenIsBehind
<1>4. ASSUME NEW e \in Seen
      PROVE  e \in Dies /\ Before(e, die)
  <2>1. e \in Reachable /\ Behind(stack, e)
    BY <1>3
  <2>2. e \in Dies
    BY <2>1, ReachableIs
  <2> QED
    BY <1>1, <2>1, <2>2, BehindBefore
<1>5. ASSUME NEW e \in Reachable, e \notin Seen, e # die
      PROVE  Before(die, e)
  BY <1>1, <1>2, <1>3, <1>5, AheadAfter
<1>6. die \notin Seen
  BY <1>1, <1>4, OneOrder
<1> QED
  BY <1>2, <1>3, <1>4, <1>5, <1>6

\* A local that is not the one.
LEMMA PassStep ==
  ASSUME WalkInv, Pass
  PROVE  WalkInv'
<1>1. /\ More /\ Tag[die] = "local" /\ phase = "scan"
      /\ ~(Match(frame, die) /\ IsMu(die))
      /\ fallback' = IF Match(frame, die) /\ fallback = NoDie
                     THEN die ELSE fallback
      /\ mu' = IF IsMu(die) THEN Append(mu, die) ELSE mu
      /\ seen' = Append(seen, die) /\ stack' = Advanced
      /\ UNCHANGED <<frame, phase, found>>
  BY DEF Pass, More
<1>2. /\ Chain(stack) /\ HasNext(stack) /\ die = NextOf(stack)
      /\ Advanced = Forward(stack)
      /\ die \in Dies /\ die # NoDie /\ die \in Reachable /\ die \in Locals
  BY <1>1, DieIs
<1>3. Chain(stack') /\ \A d : Behind(stack', d) <=>
                                Behind(stack, d) \/ die \in Anc(d)
  BY <1>1, <1>2, ForwardBehind
<1>4. /\ \A d \in Reachable : die \in Anc(d) <=> d = die
      /\ Seen = {d \in Reachable : Behind(stack, d)}
      /\ \A e \in Seen : e \in Dies /\ Before(e, die)
      /\ die \notin Seen
  BY <1>1, BelowLocal
<1>5. /\ frame \in Frames /\ TypeOK /\ Usable(frame.base) /\ found = NoDie
      /\ NoHit /\ FallbackFirst /\ MusFirst
  BY <1>1 DEF WalkInv, Walking
<1>6. /\ seen' \in Seq(Locals) /\ Seen' = Seen \union {die}
  <2>1. seen \in Seq(Locals)
    BY <1>5 DEF TypeOK
  <2>2. Append(seen, die) \in Seq(Locals)
        /\ {Append(seen, die)[i] : i \in 1..Len(Append(seen, die))}
             = {seen[i] : i \in 1..Len(seen)} \union {die}
    BY <1>2, <2>1, AppendSet
  <2> QED
    BY <1>1, <2>2 DEF Seen
<1>7. /\ mu' \in Seq({d \in Typed : IsMu(d)})
      /\ Mus' = Mus \union (IF IsMu(die) THEN {die} ELSE {})
      /\ mu # <<>> => mu' # <<>> /\ mu'[1] = mu[1]
      /\ mu = <<>> /\ IsMu(die) => mu'[1] = die
  <2> DEFINE M == {d \in Typed : IsMu(d)}
  <2>1. mu \in Seq(M)
    BY <1>5 DEF TypeOK
  <2>2. IsMu(die) => die \in M
    BY <1>2 DEF IsMu, Typed
  <2> HIDE DEF M
  <2>3. CASE IsMu(die)
    <3>1. mu' = Append(mu, die)
      BY <1>1, <2>3
    <3>2. /\ Append(mu, die) \in Seq(M)
          /\ {Append(mu, die)[i] : i \in 1..Len(Append(mu, die))}
               = {mu[i] : i \in 1..Len(mu)} \union {die}
          /\ mu # <<>> => Append(mu, die)[1] = mu[1]
          /\ mu = <<>> => Append(mu, die)[1] = die
      BY <2>1, <2>2, <2>3, AppendSet
    <3>3. Append(mu, die) # <<>>
      BY <2>1, <2>2, <2>3, AppendProperties
    <3> QED
      BY <2>3, <3>1, <3>2, <3>3 DEF M, Mus
  <2>4. CASE ~IsMu(die)
    <3>1. mu' = mu
      BY <1>1, <2>4
    <3> QED
      BY <2>1, <2>4, <3>1 DEF M, Mus
  <2> QED
    BY <2>3, <2>4
<1>8. SeenIsBehind'
  <2>1. Seen' = {d \in Reachable : Behind(stack', d)}
    BY <1>2, <1>3, <1>4, <1>6
  <2> QED
    BY <2>1 DEF SeenIsBehind
<1>9. NoHit'
  <2>1. \A d \in Seen' : ~(Match(frame, d) /\ IsMu(d))
    BY <1>1, <1>5, <1>6 DEF NoHit
  <2> QED
    BY <1>1, <2>1 DEF NoHit
<1>10. FallbackFirst'
  <2>1. CASE fallback # NoDie
    <3>1. fallback' = fallback /\ fallback \in Seen
      BY <1>1, <1>5, <2>1 DEF FallbackFirst
    <3>2. \A d \in Seen' \ {fallback} : Match(frame, d) => Before(fallback, d)
      BY <1>4, <1>5, <1>6, <2>1, <3>1 DEF FallbackFirst
    <3> QED
      BY <1>1, <1>5, <1>6, <2>1, <3>1, <3>2 DEF FallbackFirst
  <2>2. CASE fallback = NoDie /\ Match(frame, die)
    <3>1. fallback' = die
      BY <1>1, <2>2
    <3>2. \A d \in Seen' \ {die} : ~Match(frame, d)
      BY <1>5, <1>6, <2>2 DEF FallbackFirst
    <3> QED
      BY <1>1, <1>2, <1>6, <2>2, <3>1, <3>2 DEF FallbackFirst
  <2>3. CASE fallback = NoDie /\ ~Match(frame, die)
    <3>1. fallback' = NoDie
      BY <1>1, <2>3
    <3>2. \A d \in Seen' : ~Match(frame, d)
      BY <1>5, <1>6, <2>3 DEF FallbackFirst
    <3> QED
      BY <1>1, <3>1, <3>2 DEF FallbackFirst
  <2> QED
    BY <2>1, <2>2, <2>3
<1>11. MusFirst'
  <2>1. Mus = {d \in Seen : IsMu(d)}
        /\ (mu # <<>> => \A d \in Mus \ {mu[1]} : Before(mu[1], d))
    BY <1>5 DEF MusFirst
  <2>2. Mus' = {d \in Seen' : IsMu(d)}
    BY <1>6, <1>7, <2>1
  <2>3. ASSUME mu' # <<>>, NEW d \in Mus', d # mu'[1]
        PROVE  Before(mu'[1], d)
    <3>1. CASE mu = <<>>
      <4>1. IsMu(die)
        BY <1>1, <2>3, <3>1
      <4>2. Mus = {}
        BY <3>1, EmptySeq DEF Mus
      <4> QED
        BY <1>7, <2>3, <3>1, <4>1, <4>2
    <3>2. CASE mu # <<>>
      <4>1. mu'[1] = mu[1]
        BY <1>7, <3>2
      <4>2. CASE d \in Mus
        BY <2>1, <2>3, <3>2, <4>1, <4>2
      <4>3. CASE d \notin Mus
        <5>1. d = die
          BY <1>7, <2>3, <4>3
        <5>2. mu[1] \in Mus
          <6>1. 1 \in 1..Len(mu)
            BY <1>5, <3>2, EmptySeq, LenProperties DEF TypeOK
          <6> QED
            BY <6>1 DEF Mus
        <5>3. mu[1] \in Seen
          BY <2>1, <5>2
        <5> QED
          BY <1>4, <4>1, <5>1, <5>3
      <4> QED
        BY <4>2, <4>3
    <3> QED
      BY <3>1, <3>2
  <2> QED
    BY <2>2, <2>3 DEF MusFirst
<1>12. TypeOK'
  <2>1. stack' \in Seq(Level) /\ stack' # <<>>
        /\ \A i \in 1..Len(stack') :
             stack'[i].next <= Len(Kids[stack'[i].scope]) + 1
    BY <1>3, EmptySeq DEF Chain
  <2>2. fallback' \in Typed \union {NoDie}
    BY <1>1, <1>2, <1>5 DEF TypeOK, Match, Typed
  <2> QED
    BY <1>1, <1>5, <1>6, <1>7, <2>1, <2>2 DEF TypeOK, Level
<1>13. Walking' /\ Begun' /\ Ended'
  BY <1>1, <1>3, <1>5, <1>8, <1>9, <1>10, <1>11
     DEF Walking, Begun, Ended
<1> QED
  BY <1>1, <1>5, <1>12, <1>13 DEF WalkInv

\* A MaybeUninit at the pointer: the first, of those that are behind and
\* those that are ahead.
LEMMA HitStep ==
  ASSUME WalkInv, Hit
  PROVE  WalkInv'
<1>1. /\ More /\ Tag[die] = "local" /\ phase = "scan"
      /\ Match(frame, die) /\ IsMu(die)
      /\ phase' = "done" /\ found' = die
      /\ seen' = Append(seen, die) /\ stack' = <<>>
      /\ UNCHANGED <<frame, fallback, mu>>
  BY DEF Hit, More
<1>2. die \in Dies /\ die # NoDie /\ die \in Reachable /\ die \in Locals
  BY <1>1, DieIs
<1>3. /\ frame \in Frames /\ TypeOK /\ Usable(frame.base) /\ NoHit
  BY <1>1 DEF WalkInv, Walking
<1>4. \A e \in Reachable : e \notin Seen /\ e # die => Before(die, e)
  BY <1>1, BelowLocal
<1> DEFINE S == {d \in Reachable : Match(frame, d)}
                  \intersect {d \in Reachable : IsMu(d)}
<1>5. die \in S /\ S \in SUBSET Dies
  BY <1>1, <1>2 DEF Reachable, Locals
<1>6. \A e \in S \ {die} : Before(die, e)
  BY <1>3, <1>4 DEF NoHit
<1>7. First(S) = die
  BY <1>5, <1>6, FirstIs
<1>8. Chosen(frame) = die
  BY <1>5, <1>7 DEF Chosen
<1>9. Ended'
  BY <1>1, <1>2, <1>3, <1>8 DEF Ended, Justified
<1>10. TypeOK'
  <2>1. seen \in Seq(Locals)
    BY <1>3 DEF TypeOK
  <2>2. seen' \in Seq(Locals)
    BY <1>1, <1>2, <2>1, AppendProperties
  <2>3. found' \in Typed
    BY <1>1, <1>2 DEF Typed, Match
  <2>4. stack' \in Seq([scope : Dies, next : Nat \ {0}]) /\ Len(stack') = 0
    BY <1>1, EmptySeq
  <2> QED
    BY <1>1, <1>3, <2>2, <2>3, <2>4 DEF TypeOK
<1> QED
  BY <1>1, <1>3, <1>9, <1>10 DEF WalkInv, Walking, Begun

\* The names of the types of some locals are finitely many.
LEMMA NamesFinite ==
  ASSUME NEW M \in SUBSET Dies
  PROVE  IsFiniteSet({NameOf[TypeOf[d]] : d \in M})
<1> DEFINE T == {NameOf[TypeOf[d]] : d \in M}
           f == [d \in M |-> NameOf[TypeOf[d]]]
<1>1. IsFiniteSet(M)
  BY DieAssumption, FS_Subset
<1>2. f \in [M -> T] /\ \A t \in T : \E d \in M : f[d] = t
  OBVIOUS
<1>3. f \in Surjection(M, T)
  BY <1>2, Zenon DEF Surjection
<1> QED
  BY <1>1, <1>3, FS_Surjection

\* The walk has got to everything: a fallback, or a guess, or nothing.
LEMMA GiveUpStep ==
  ASSUME WalkInv, GiveUp
  PROVE  WalkInv'
<1>1. /\ Exhausted /\ Len(stack) = 1 /\ phase = "scan" /\ phase' = "done"
      /\ found' = IF fallback # NoDie THEN fallback ELSE SoleMaybeUninit
      /\ fallback' = NoDie /\ stack' = <<>>
      /\ UNCHANGED <<frame, seen, mu>>
  BY DEF GiveUp, Exhausted
<1>2. /\ frame \in Frames /\ TypeOK /\ Usable(frame.base) /\ Chain(stack)
      /\ SeenIsBehind /\ NoHit /\ FallbackFirst /\ MusFirst
  BY <1>1 DEF WalkInv, Walking
<1>3. ~HasNext(stack)
  <2>1. 1 \in 1..Len(stack)
    BY <1>1
  <2>2. stack[1].scope \in Dies /\ stack[1].next \in Nat
    BY <1>2, <2>1 DEF Chain
  <2>3. Len(Kids[stack[1].scope]) \in Nat
    BY <2>2, KidsLen
  <2> QED
    BY <1>1, <2>2, <2>3 DEF Exhausted, HasNext, top
<1>4. Seen = Reachable
  <2>1. \A d \in Reachable : Behind(stack, d)
    BY <1>1, <1>2, <1>3, AllBehind
  <2> QED
    BY <1>2, <2>1 DEF SeenIsBehind
<1> DEFINE there == {d \in Reachable : Match(frame, d)}
           mus == {d \in Reachable : IsMu(d)}
           names == {NameOf[TypeOf[d]] : d \in mus}
<1>5. there \intersect mus = {} /\ there \in SUBSET Dies /\ mus \in SUBSET Dies
  BY <1>2, <1>4 DEF NoHit, Reachable, Locals
<1>6. Mus = mus
  BY <1>2, <1>4 DEF MusFirst
<1>7. {NameOf[TypeOf[mu[i]]] : i \in 1..Len(mu)} = names
  <2>1. \A i \in 1..Len(mu) : mu[i] \in mus
    BY <1>6 DEF Mus
  <2>2. \A d \in mus : \E i \in 1..Len(mu) : mu[i] = d
    BY <1>6 DEF Mus
  <2> HIDE DEF mus
  <2> QED
    BY <2>1, <2>2
<1>8. Chosen(frame) = CASE there \intersect mus # {} ->
                             First(there \intersect mus)
                        [] there \intersect mus = {} /\ there # {} -> First(there)
                        [] there = {} /\ Cardinality(names) = 1 -> First(mus)
                        [] OTHER -> NoDie
  BY DEF Chosen
<1>9. ASSUME fallback # NoDie
      PROVE  found' = Chosen(frame) /\ Justified' /\ found' \in Typed \union {NoDie}
  <2>1. fallback \in there
        /\ \A e \in there \ {fallback} : Before(fallback, e)
    BY <1>2, <1>4, <1>9 DEF FallbackFirst
  <2>2. First(there) = fallback
    BY <1>5, <2>1, FirstIs
  <2>3. found' = fallback /\ Chosen(frame) = fallback
    BY <1>1, <1>5, <1>8, <1>9, <2>1, <2>2
  <2>4. Justified'
    BY <1>1, <2>1, <2>3 DEF Justified
  <2>5. found' \in Typed
    BY <1>2, <1>9, <2>3 DEF TypeOK
  <2> QED
    BY <1>1, <2>3, <2>4, <2>5
<1>10. ASSUME fallback = NoDie
       PROVE  found' = Chosen(frame) /\ Justified' /\ found' \in Typed \union {NoDie}
  <2>1. there = {}
    BY <1>2, <1>4, <1>10 DEF FallbackFirst
  <2>2. found' = IF Cardinality(names) = 1 THEN mu[1] ELSE NoDie
    BY <1>1, <1>7, <1>10 DEF SoleMaybeUninit
  <2>3. CASE Cardinality(names) = 1
    <3>1. IsFiniteSet(names)
      BY <1>5, NamesFinite
    <3>2. PICK t : names = {t}
      BY <2>3, <3>1, FS_Singleton
    <3>3. mus # {}
      BY <3>2
    <3>4. 1 \in 1..Len(mu) /\ mu # <<>>
      <4>1. \E i \in 1..Len(mu) : TRUE
        BY <1>6, <3>3 DEF Mus
      <4>2. Len(mu) \in Nat
        BY <1>2, LenProperties DEF TypeOK
      <4> QED
        BY <4>1, <4>2, EmptySeq
    <3>5. mu[1] \in mus /\ \A e \in mus \ {mu[1]} : Before(mu[1], e)
      BY <1>2, <1>6, <3>4 DEF MusFirst, Mus
    <3>6. First(mus) = mu[1]
      BY <1>5, <3>5, FirstIs
    <3>7. found' = mu[1] /\ Chosen(frame) = mu[1]
      BY <1>5, <1>8, <2>1, <2>2, <2>3, <3>6
    <3>8. \A d \in mus : NameOf[TypeOf[d]] = t
      BY <3>2
    <3>9. Justified'
      BY <3>5, <3>7, <3>8 DEF Justified, SameType
    <3>10. found' \in Typed
      BY <3>5, <3>7 DEF Typed, IsMu, Reachable
    <3> QED
      BY <1>1, <3>7, <3>9, <3>10
  <2>4. CASE Cardinality(names) # 1
    <3>1. found' = NoDie /\ Chosen(frame) = NoDie
      BY <1>5, <1>8, <2>1, <2>2, <2>4
    <3>2. Justified'
      BY <3>1 DEF Justified
    <3> QED
      BY <1>1, <3>1, <3>2
  <2> QED
    BY <2>3, <2>4
<1>11. found' = Chosen(frame) /\ Justified' /\ found' \in Typed \union {NoDie}
  BY <1>9, <1>10
<1>12. TypeOK'
  <2>1. stack' \in Seq([scope : Dies, next : Nat \ {0}]) /\ Len(stack') = 0
    BY <1>1, EmptySeq
  <2> QED
    BY <1>1, <1>2, <1>11, <2>1 DEF TypeOK
<1>13. Ended'
  BY <1>1, <1>2, <1>11 DEF Ended
<1> QED
  BY <1>1, <1>2, <1>12, <1>13 DEF WalkInv, Walking, Begun

\* Every step keeps the invariant.
LEMMA WalkStep ==
  ASSUME WalkInv, [Next]_vars
  PROVE  WalkInv'
<1>1. CASE UNCHANGED vars
  <2>1. UNCHANGED <<frame, phase, stack, seen, fallback, mu, found>>
    BY <1>1 DEF vars
  <2>2. TypeOK'
    BY <2>1 DEF WalkInv, TypeOK
  <2>3. Begun'
    BY <2>1 DEF WalkInv, Begun
  <2>4. Seen' = Seen /\ Mus' = Mus
    BY <2>1 DEF Seen, Mus
  <2>5. (SeenIsBehind <=> SeenIsBehind') /\ (NoHit <=> NoHit')
    BY <2>1, <2>4, Zenon DEF SeenIsBehind, NoHit
  <2>6. FallbackFirst <=> FallbackFirst'
    BY <2>1, <2>4, Zenon DEF FallbackFirst
  <2>7. MusFirst <=> MusFirst'
    BY <2>1, <2>4, Zenon DEF MusFirst
  <2>8. Walking'
    BY <2>1, <2>5, <2>6, <2>7 DEF WalkInv, Walking
  <2>9. Ended'
    BY <2>1, Zenon DEF WalkInv, Ended, Justified
  <2> QED
    BY <2>1, <2>2, <2>3, <2>8, <2>9 DEF WalkInv
<1> QED
  BY <1>1, EnterStep, RefuseStep, DescendStep, SkipStep, HitStep, PassStep,
     AscendStep, GiveUpStep DEF Next, Scan, AllDone

-----------------------------------------------------------------------------
(* Numbers.                                                                *)

\* A set of numbers has a least.
LEMMA Least ==
  ASSUME NEW S, S \subseteq Nat, S # {}
  PROVE  \E x \in S : \A y \in S : x <= y
<1>1. PICK x \in S : \A y \in S : ~(<<y, x>> \in OpToRel(<, Nat))
  BY WFMin, NatLessThanWellFounded, Zenon
<1>2. ASSUME NEW y \in S
      PROVE  x <= y
  <2>1. <<y, x>> \notin OpToRel(<, Nat)
    BY <1>1, Zenon
  <2>2. x \in Nat /\ y \in Nat
    OBVIOUS
  <2>3. ~(y < x)
    BY <2>1, <2>2, Zenon DEF OpToRel
  <2> QED
    BY <2>2, <2>3
<1> QED
  BY <1>2

\* A set of numbers that has 0, and the next of each of its numbers up to N,
\* has them all: it has the one before the least that is missing.
LEMMA UpToAll ==
  ASSUME NEW N \in Nat, NEW S, 0 \in S,
         \A n \in 0..(N - 1) : n \in S => n + 1 \in S
  PROVE  0..N \subseteq S
<1> DEFINE bad == (0..N) \ S
<1> SUFFICES ASSUME bad # {} PROVE FALSE
  OBVIOUS
<1>1. bad \subseteq Nat
  OBVIOUS
<1>2. PICK m \in bad : \A y \in bad : m <= y
  BY <1>1, Least
<1>3. m \in 1..N /\ m - 1 \in 0..(N - 1) /\ (m - 1) + 1 = m /\ ~(m <= m - 1)
  OBVIOUS
<1>4. m - 1 \in S
  BY <1>2, <1>3
<1> QED
  BY <1>3, <1>4

\* Quotient and rest are the only ones.
LEMMA DivMod ==
  ASSUME NEW W \in Nat \ {0}, NEW q \in Int, NEW r \in 0..(W - 1)
  PROVE  (W * q + r) \div W = q /\ (W * q + r) % W = r
OBVIOUS

LEMMA DivRest ==
  ASSUME NEW W \in Nat \ {0}, NEW x \in Int
  PROVE  x \div W \in Int /\ x % W \in 0..(W - 1)
         /\ x = W * (x \div W) + (x % W)
OBVIOUS

LEMMA ModShift ==
  ASSUME NEW W \in Nat \ {0}, NEW q \in Int, NEW x \in Int
  PROVE  (W * q + x) % W = x % W
<1> DEFINE p == x \div W
           s == x % W
<1>1. p \in Int /\ s \in 0..(W - 1) /\ x = W * p + s
  BY DivRest
<1> HIDE DEF p, s
<1>2. W * q + x = W * (q + p) + s /\ q + p \in Int
  BY <1>1
<1>3. (W * (q + p) + s) % W = s
  BY <1>1, <1>2, DivMod
<1> QED
  BY <1>2, <1>3 DEF s

\* Words may be reduced before they are added.
LEMMA ModAdd ==
  ASSUME NEW W \in Nat \ {0}, NEW x \in Int, NEW y \in Int
  PROVE  ((x % W) + y) % W = (x + y) % W
<1> DEFINE p == x \div W
           s == x % W
<1>1. p \in Int /\ s \in Int /\ x = W * p + s
  BY DivRest
<1> HIDE DEF p, s
<1>2. x + y = W * p + (s + y) /\ s + y \in Int
  BY <1>1
<1>3. (W * p + (s + y)) % W = (s + y) % W
  BY <1>1, <1>2, ModShift
<1> QED
  BY <1>2, <1>3 DEF s

\* What is above one more group, and what is below it.
LEMMA Regroup ==
  ASSUME NEW X \in Nat \ {0}, NEW B \in Nat \ {0}, NEW x \in Int
  PROVE  /\ x \div (X * B) = (x \div X) \div B
         /\ x % (X * B) = (x % X) + ((x \div X) % B) * X
<1> DEFINE a == x \div X
           r == x % X
           q == a \div B
           s == a % B
<1>1. a \in Int /\ r \in 0..(X - 1) /\ x = X * a + r
  BY DivRest
<1> HIDE DEF a, r
<1>2. q \in Int /\ s \in 0..(B - 1) /\ a = B * q + s
  BY <1>1, DivRest
<1> HIDE DEF q, s
<1>3. X * B \in Nat \ {0}
  OBVIOUS
<1>4. X * a = (X * B) * q + X * s
  <2>1. X * (B * q + s) = (X * B) * q + X * s
    BY <1>2
  <2> QED
    BY <1>2, <2>1
<1>5. X * s + r \in 0..(X * B - 1)
  <2>1. B - 1 - s \in Nat /\ s \in Nat
    BY <1>2
  <2>2. X * (B - 1 - s) \in Nat /\ X * s \in Nat
    BY <2>1
  <2>3. X * (B - 1 - s) = X * B - X - X * s
    BY <2>1
  <2> QED
    BY <1>1, <1>3, <2>2, <2>3
<1>6. x = (X * B) * q + (X * s + r)
  BY <1>1, <1>2, <1>3, <1>4, <1>5
<1> HIDE DEF a
<1> DEFINE W == X * B
           t == X * s + r
<1>7. W \in Nat \ {0} /\ t \in 0..(W - 1) /\ x = W * q + t
  BY <1>3, <1>5, <1>6
<1>8. t = r + s * X
  BY <1>1, <1>2
<1> HIDE DEF W, t
<1>9. x \div W = q /\ x % W = t
  BY <1>2, <1>7, DivMod
<1> QED
  BY <1>8, <1>9 DEF W, q, s, a, r

-----------------------------------------------------------------------------
(* Powers of two.                                                          *)

Top == GroupBits * WordBits

\* As far as groups reach: the exponents that are used.
LEMMA Exponents ==
  /\ WordBits \in Nat \ {0} /\ GroupBits \in Nat \ {0, 1}
  /\ Top \in Nat /\ WordBits \in 0..Top /\ GroupBits \in 0..Top
  /\ \A k \in 0..WordBits : GroupBits * k \in 0..Top
  /\ \A k \in 1..WordBits :
       GroupBits * k = GroupBits * (k - 1) + GroupBits
       /\ k - 1 <= GroupBits * (k - 1)
<1>1. WordBits \in Nat \ {0} /\ GroupBits \in Nat \ {0, 1}
  BY DieAssumption
<1>2. ASSUME NEW a \in Nat \ {0}, NEW b \in Nat
      PROVE  a * b \in Nat /\ b <= a * b
  <2>1. (a - 1) * b \in Nat /\ (a - 1) * b = a * b - b
    OBVIOUS
  <2> QED
    BY <2>1
<1>3. Top \in Nat /\ WordBits \in 0..Top /\ GroupBits \in 0..Top
  <2>1. GroupBits * WordBits = WordBits * GroupBits
    BY <1>1
  <2> QED
    BY <1>1, <1>2, <2>1 DEF Top
<1>4. ASSUME NEW k \in 0..WordBits PROVE GroupBits * k \in 0..Top
  <2>1. k \in Nat /\ WordBits - k \in Nat
    BY <1>1
  <2>2. GroupBits * k \in Nat /\ GroupBits * (WordBits - k) \in Nat
    BY <1>1, <2>1
  <2>3. GroupBits * (WordBits - k) = GroupBits * WordBits - GroupBits * k
    BY <1>1
  <2> QED
    BY <1>3, <2>2, <2>3 DEF Top
<1>5. ASSUME NEW k \in 1..WordBits
      PROVE  GroupBits * k = GroupBits * (k - 1) + GroupBits
             /\ k - 1 <= GroupBits * (k - 1)
  <2>1. k - 1 \in Nat
    BY <1>1
  <2>2. k - 1 <= GroupBits * (k - 1)
    BY <1>1, <1>2, <2>1
  <2>3. GroupBits * k = GroupBits * (k - 1) + GroupBits
    BY <1>1
  <2> QED
    BY <2>2, <2>3
<1> QED
  BY <1>1, <1>3, <1>4, <1>5

\* Powers are positive, and multiply by adding the exponents.
LEMMA Powers ==
  /\ \A n \in 0..Top : 2^n \in Nat \ {0}
  /\ \A a, b \in 0..Top : a + b <= Top => 2^(a + b) = 2^a * 2^b
<1>1. Top \in Nat
  BY Exponents
<1>2. 2^0 = 1 /\ \A n \in 1..Top : 2^n = 2 * 2^(n - 1)
  BY PowerAssumption DEF Top
<1> DEFINE S == {n \in Nat : 2^n \in Nat \ {0}}
<1>3. 0 \in S
  BY <1>2
<1>4. ASSUME NEW n \in 0..(Top - 1), n \in S PROVE n + 1 \in S
  <2>1. n + 1 \in 1..Top /\ (n + 1) - 1 = n
    BY <1>1
  <2> DEFINE x == 2^n
             y == 2^(n + 1)
  <2>2. x \in Nat \ {0} /\ y = 2 * x
    BY <1>2, <1>4, <2>1
  <2> HIDE DEF x, y
  <2>3. y \in Nat \ {0}
    BY <2>2
  <2> QED
    BY <2>1, <2>3 DEF y
<1>5. \A n \in 0..Top : 2^n \in Nat \ {0}
  <2>1. 0..Top \subseteq S
    <3> HIDE DEF S
    <3> QED
      BY <1>1, <1>3, <1>4, UpToAll
  <2> QED
    BY <2>1
<1>6. ASSUME NEW a \in 0..Top
      PROVE  \A b \in 0..Top : a + b <= Top => 2^(a + b) = 2^a * 2^b
  <2> DEFINE T == {b \in Nat : a + b <= Top => 2^(a + b) = 2^a * 2^b}
  <2>1. 0 \in T
    <3>1. a + 0 = a /\ 2^0 = 1
      BY <1>1, <1>2
    <3> DEFINE x == 2^a
    <3>2. x \in Nat
      BY <1>5
    <3> HIDE DEF x
    <3>3. x = x * 1
      BY <3>2
    <3> QED
      BY <3>1, <3>3 DEF x
  <2>2. ASSUME NEW b \in 0..(Top - 1), b \in T PROVE b + 1 \in T
    <3>1. SUFFICES ASSUME a + (b + 1) <= Top
                   PROVE  2^(a + (b + 1)) = 2^a * 2^(b + 1)
      BY <1>1
    <3>2. /\ b + 1 \in 1..Top /\ (b + 1) - 1 = b /\ a + b <= Top
          /\ a + (b + 1) \in 1..Top /\ (a + (b + 1)) - 1 = a + b
          /\ b \in 0..Top /\ a + b \in 0..Top
      BY <1>1, <3>1
    <3> DEFINE x == 2^a
               y == 2^b
               y1 == 2^(b + 1)
               z == 2^(a + b)
               z1 == 2^(a + (b + 1))
    <3>3. x \in Nat /\ y \in Nat /\ z = x * y
      BY <1>5, <2>2, <3>2
    <3>4. y1 = 2 * y /\ z1 = 2 * z
      BY <1>2, <3>2
    <3> HIDE DEF x, y, y1, z, z1
    <3>5. z1 = x * y1
      BY <3>3, <3>4
    <3> QED
      BY <3>5 DEF x, y1, z1
  <2>3. 0..Top \subseteq T
    <3> HIDE DEF T
    <3> QED
      BY <1>1, <2>1, <2>2, UpToAll
  <2> QED
    BY <2>3
<1> QED
  BY <1>5, <1>6

-----------------------------------------------------------------------------
(* Groups of an offset.                                                    *)

\* What the first k groups have.
Below(off, k) == off % 2^(GroupBits * k)

\* No group is below the first.
LEMMA NoGroups ==
  ASSUME NEW off \in Int
  PROVE  Above(off, 0) = off /\ Below(off, 0) = 0
<1>1. GroupBits * 0 = 0 /\ 2^0 = 1
  BY Exponents, PowerAssumption
<1>2. off \div 1 = off /\ off % 1 = 0
  OBVIOUS
<1> QED
  BY <1>1, <1>2 DEF Above, Below

\* What is above k groups and what is below make up the offset.
LEMMA Halves ==
  ASSUME NEW off \in Int, NEW k \in 0..WordBits
  PROVE  /\ 2^(GroupBits * k) \in Nat \ {0}
         /\ Above(off, k) \in Int /\ Below(off, k) \in Nat
         /\ off = 2^(GroupBits * k) * Above(off, k) + Below(off, k)
<1> DEFINE X == 2^(GroupBits * k)
<1>1. X \in Nat \ {0}
  BY Exponents, Powers
<1>2. Above(off, k) = off \div X /\ Below(off, k) = off % X
  BY DEF Above, Below
<1> HIDE DEF X
<1>3. off \div X \in Int /\ off % X \in Nat
      /\ off = X * (off \div X) + (off % X)
  BY <1>1, DivRest
<1> QED
  BY <1>1, <1>2, <1>3 DEF X

\* The k-th group goes from above to below.
LEMMA NextGroup ==
  ASSUME NEW off \in Int, NEW k \in 1..WordBits
  PROVE  /\ Group(off, k) \in 0..(2^GroupBits - 1)
         /\ Above(off, k) = Above(off, k - 1) \div 2^GroupBits
         /\ Below(off, k) = Below(off, k - 1)
                              + Group(off, k) * 2^(GroupBits * (k - 1))
<1>1. /\ k - 1 \in 0..WordBits /\ k \in 0..WordBits
      /\ GroupBits * (k - 1) \in 0..Top /\ GroupBits \in 0..Top
      /\ GroupBits * k \in 0..Top
      /\ GroupBits * k = GroupBits * (k - 1) + GroupBits
  BY Exponents
<1> DEFINE X == 2^(GroupBits * (k - 1))
           Y == 2^(GroupBits * k)
           B == 2^GroupBits
<1>2. X \in Nat \ {0} /\ B \in Nat \ {0} /\ Y = X * B
  <2>1. GroupBits * (k - 1) + GroupBits <= Top
    BY <1>1
  <2>2. 2^(GroupBits * (k - 1) + GroupBits) = X * B
    BY <1>1, <2>1, Powers
  <2> QED
    BY <1>1, <2>2, Powers
<1>3. /\ Above(off, k - 1) = off \div X /\ Above(off, k) = off \div Y
      /\ Below(off, k - 1) = off % X /\ Below(off, k) = off % Y
      /\ Group(off, k) = (off \div X) % B
  BY DEF Above, Below, Group
<1> HIDE DEF X, Y, B
<1>4. /\ off \div (X * B) = (off \div X) \div B
      /\ off % (X * B) = (off % X) + ((off \div X) % B) * X
  BY <1>2, Regroup
<1>5. (off \div X) % B \in 0..(B - 1)
  <2>1. off \div X \in Int
    BY <1>2, DivRest
  <2> QED
    BY <1>2, <2>1, DivRest
<1> QED
  BY <1>2, <1>3, <1>4, <1>5 DEF X, Y, B

\* Of an offset in a word, all that is above the last group but one is its
\* sign, if there are as many groups as bits.
LEMMA EndsThere ==
  ASSUME NEW off \in Offsets
  PROVE  off \in Int /\ Ends(off, WordBits)
<1> DEFINE k == WordBits - 1
           H == 2^k
           X == 2^(GroupBits * k)
           B == 2^GroupBits
           h == 2^(GroupBits - 1)
<1>1. /\ k \in 0..Top /\ k \in 0..WordBits /\ WordBits \in 1..WordBits
      /\ GroupBits * k \in 0..Top /\ GroupBits * k - k \in 0..Top
      /\ k + (GroupBits * k - k) = GroupBits * k
      /\ GroupBits \in 1..Top /\ GroupBits - 1 \in 0..Top
  <2>1. k \in 0..WordBits /\ WordBits \in 1..WordBits /\ k \in 0..Top
        /\ GroupBits \in 1..Top /\ GroupBits - 1 \in 0..Top
    BY Exponents
  <2>2. GroupBits * k \in 0..Top /\ k <= GroupBits * k
    BY <2>1, Exponents
  <2> HIDE DEF k
  <2> DEFINE g == GroupBits * k
  <2>3. g \in 0..Top /\ k <= g
    BY <2>2
  <2> HIDE DEF g
  <2>4. g - k \in 0..Top /\ k + (g - k) = g
    BY <2>1, <2>3, Exponents
  <2> QED
    BY <2>1, <2>2, <2>4 DEF g
<1>2. H \in Nat \ {0} /\ X \in Nat \ {0} /\ B \in Nat \ {0} /\ h \in Nat \ {0}
  BY <1>1, Powers
<1>3. H <= X
  <2> DEFINE m == 2^(GroupBits * k - k)
  <2>1. X = H * m /\ m \in Nat \ {0}
    BY <1>1, Powers
  <2> HIDE DEF m, H, X
  <2>2. H * (m - 1) \in Nat /\ H * (m - 1) = H * m - H
    BY <1>2, <2>1
  <2> QED
    BY <1>2, <2>1, <2>2
<1>4. B = 2 * h
  BY <1>1, PowerAssumption DEF Top
<1>5. off \in (-H)..(H - 1)
  BY DEF Offsets
<1>6. /\ Above(off, k) = off \div X
      /\ Above(off, WordBits) = Above(off, k) \div B
      /\ Group(off, WordBits) = Above(off, k) % B
  <2>1. off \in Int
    BY <1>2, <1>5
  <2>2. Above(off, WordBits) = Above(off, WordBits - 1) \div 2^GroupBits
    BY <1>1, <2>1, NextGroup
  <2> QED
    BY <2>2 DEF Above, Group
<1> DEFINE g == Group(off, WordBits)
           a == Above(off, k)
<1>7. Ends(off, WordBits) <=> Above(off, WordBits) = IF g >= h THEN -1 ELSE 0
  BY DEF Ends
<1> HIDE DEF H, X, B, h, g, k, a
<1>8. off \in Int
  BY <1>2, <1>5
<1>9. CASE off >= 0
  <2>1. off \in 0..(X - 1) /\ X * 0 + off = off
    BY <1>2, <1>3, <1>5, <1>9
  <2>2. off \div X = 0
    BY <1>2, <2>1, DivMod
  <2>3. 0 \in 0..(B - 1) /\ B * 0 + 0 = 0
    BY <1>2
  <2>4. 0 \div B = 0 /\ 0 % B = 0
    BY <1>2, <2>3, DivMod
  <2>5. Above(off, WordBits) = 0 /\ g = 0
    BY <1>6, <2>2, <2>4 DEF g
  <2> QED
    BY <1>2, <1>7, <1>8, <2>5
<1>10. CASE off < 0
  <2>1. X + off \in 0..(X - 1) /\ X * (-1) + (X + off) = off
    BY <1>2, <1>3, <1>5, <1>10
  <2>2. off \div X = -1
    BY <1>2, <2>1, DivMod
  <2>3. B - 1 \in 0..(B - 1) /\ B * (-1) + (B - 1) = -1
    BY <1>2
  <2>4. (-1) \div B = -1 /\ (-1) % B = B - 1
    BY <1>2, <2>3, DivMod
  <2>5. Above(off, WordBits) = -1 /\ g = B - 1
    BY <1>6, <2>2, <2>4 DEF g
  <2>6. g >= h
    BY <1>2, <1>4, <2>5
  <2> QED
    BY <1>7, <1>8, <2>5, <2>6
<1> QED
  BY <1>8, <1>9, <1>10

\* An encoding: groups to the first that has the sign of all that is above.
LEMMA EncodedIs ==
  ASSUME NEW off \in Offsets
  PROVE  \E n \in 1..WordBits :
           /\ Ends(off, n)
           /\ Encoded[off] = [i \in 1..n |-> Byte(Group(off, i), i = n)]
<1> DEFINE IsEnd(n) == Ends(off, n) /\ \A i \in 1..(n - 1) : ~Ends(off, i)
           S == {n \in 1..WordBits : Ends(off, n)}
           m == CHOOSE n \in 1..WordBits : IsEnd(n)
<1>1. WordBits \in Nat \ {0}
  BY Exponents
<1>2. S # {} /\ S \subseteq Nat
  BY <1>1, EndsThere
<1>3. PICK n \in S : \A y \in S : n <= y
  <2> HIDE DEF S
  <2> QED
    BY <1>2, Least
<1>4. IsEnd(n)
  <2>1. ASSUME NEW i \in 1..(n - 1), Ends(off, i) PROVE FALSE
    <3>1. i \in 1..WordBits /\ ~(n <= i)
      BY <1>1
    <3> QED
      BY <1>3, <2>1, <3>1
  <2> QED
    BY <2>1
<1>5. m \in 1..WordBits /\ IsEnd(m)
  BY <1>4, Zenon
<1>6. Encoded[off] = [i \in 1..m |-> Byte(Group(off, i), i = m)]
  BY Zenon DEF Encoded
<1> HIDE DEF m
<1> QED
  BY <1>5, <1>6

-----------------------------------------------------------------------------
(* Reading the groups.                                                     *)

\* A value for 0, and for each number a value by that of the one before.
Recurs(f, N, base, step) ==
  f[0] = base /\ \A n \in 1..N : f[n] = step[<<n, f[n - 1]>>]

\* There is such a function.
LEMMA NatRecursion ==
  ASSUME NEW N \in Nat, NEW R, NEW base \in R, NEW step \in [Nat \X R -> R]
  PROVE  \E f \in [0..N -> R] : Recurs(f, N, base, step)
<1> DEFINE S == {k \in Nat : \E f \in [0..k -> R] : Recurs(f, k, base, step)}
<1>1. 0 \in S
  <2> DEFINE f == [n \in 0..0 |-> base]
  <2>1. f \in [0..0 -> R] /\ Recurs(f, 0, base, step)
    BY DEF Recurs
  <2> QED
    BY <2>1
<1>2. ASSUME NEW k \in 0..(N - 1), k \in S
      PROVE  k + 1 \in S
  <2>1. PICK g \in [0..k -> R] : Recurs(g, k, base, step)
    BY <1>2
  <2> DEFINE h == [n \in 0..(k + 1) |->
                     IF n = k + 1 THEN step[<<k + 1, g[k]>>] ELSE g[n]]
  <2>2. k \in Nat /\ g[k] \in R /\ step[<<k + 1, g[k]>>] \in R
    OBVIOUS
  <2>3. h \in [0..(k + 1) -> R] /\ h[0] = base
    BY <2>1, <2>2 DEF Recurs
  <2>4. ASSUME NEW n \in 1..(k + 1) PROVE h[n] = step[<<n, h[n - 1]>>]
    <3>1. CASE n = k + 1
      <4>1. h[n] = step[<<k + 1, g[k]>>] /\ h[n - 1] = g[k]
        BY <2>2, <3>1
      <4> QED
        BY <3>1, <4>1
    <3>2. CASE n # k + 1
      <4>1. n \in 1..k /\ h[n] = g[n] /\ h[n - 1] = g[n - 1]
        BY <2>2, <3>2
      <4> QED
        BY <2>1, <4>1 DEF Recurs
    <3> QED
      BY <3>1, <3>2
  <2> HIDE DEF h
  <2>5. Recurs(h, k + 1, base, step)
    BY <2>3, <2>4 DEF Recurs
  <2> QED
    BY <2>2, <2>3, <2>5
<1> HIDE DEF S
<1>3. 0..N \subseteq S
  BY <1>1, <1>2, UpToAll
<1> QED
  BY <1>3 DEF S

\* The sums, group by group.
LEMMA SumsIs ==
  ASSUME NEW bytes, NEW N \in 0..(WordBits + 1), Len(bytes) = N,
         \A i \in 1..N : bytes[i].bits \in Nat
  PROVE  /\ Sums(bytes)[0] = 0
         /\ \A i \in 1..N :
              Sums(bytes)[i] =
                (Sums(bytes)[i - 1] + bytes[i].bits * 2^(GroupBits * (i - 1)))
                  % Word
<1> DEFINE Here(i, sum) ==
             (sum + bytes[i].bits * 2^(GroupBits * (i - 1))) % Word
           Is(f) == f = [i \in 0..N |-> IF i = 0 THEN 0 ELSE Here(i, f[i - 1])]
           u == CHOOSE f : Is(f)
           step == [x \in Nat \X Nat |->
                      IF x[1] \in 1..N THEN Here(x[1], x[2]) ELSE 0]
<1>1. N \in Nat
  BY Exponents
<1>2. ASSUME NEW i \in 1..N, NEW sum \in Nat PROVE Here(i, sum) \in Nat
  <2>1. i - 1 \in 0..WordBits /\ WordBits \in 0..Top
    BY Exponents
  <2>2. GroupBits * (i - 1) \in 0..Top
    BY <2>1, Exponents
  <2> DEFINE x == 2^(GroupBits * (i - 1))
             b == bytes[i].bits
  <2>3. x \in Nat /\ Word \in Nat \ {0} /\ b \in Nat
    BY <2>1, <2>2, Powers DEF Word
  <2> HIDE DEF x, b
  <2>4. b * x \in Nat
    BY <2>3
  <2> DEFINE y == sum + b * x
  <2>5. y \in Int
    BY <2>4
  <2> HIDE DEF y
  <2>6. y % Word \in Nat
    BY <2>3, <2>5, DivRest
  <2> QED
    BY <2>6 DEF x, b, y
<1>3. Sums(bytes) = u
  BY Zenon DEF Sums
<1> HIDE DEF Here
<1>4. step \in [Nat \X Nat -> Nat]
  BY <1>2
<1> HIDE DEF step
<1>5. PICK g \in [0..N -> Nat] : Recurs(g, N, 0, step)
  <2>1. 0 \in Nat
    OBVIOUS
  <2> QED
    BY <1>1, <1>4, <2>1, NatRecursion, Zenon
<1>6. g[0] = 0 /\ \A i \in 1..N : g[i] = Here(i, g[i - 1])
  <2>1. ASSUME NEW i \in 1..N PROVE g[i] = Here(i, g[i - 1])
    <3>1. i \in Nat /\ i - 1 \in 0..N /\ g[i - 1] \in Nat
      BY <1>1
    <3>2. g[i] = step[<<i, g[i - 1]>>]
      BY <1>5 DEF Recurs
    <3> QED
      BY <3>1, <3>2 DEF step
  <2> QED
    BY <1>5, <2>1 DEF Recurs
<1>7. Is(g)
  <2>1. \A i \in 0..N : i # 0 => i \in 1..N
    BY <1>1
  <2> QED
    BY <1>6, <2>1
<1>8. Is(u)
  BY <1>7, Zenon
<1> HIDE DEF u
<1>9. u[0] = 0 /\ \A i \in 1..N : u[i] = Here(i, u[i - 1])
  <2>1. 0 \in 0..N /\ \A i \in 1..N : i \in 0..N /\ i # 0
    BY <1>1
  <2> QED
    BY <1>8, <2>1
<1> QED
  BY <1>3, <1>9 DEF Here

\* Bytes that begin with the first n groups of an offset; behind them there is
\* at most one more.
Groups(bytes, off, n) ==
  /\ Len(bytes) \in n..(n + 1)
  /\ \A i \in 1..n : bytes[i] = Byte(Group(off, i), i = n)
  /\ \A i \in 1..Len(bytes) : bytes[i].bits \in Nat

\* A sequence of one.
LEMMA Single ==
  ASSUME NEW S, NEW x \in S
  PROVE  /\ <<x>> \in Seq(S) /\ Len(<<x>>) \in 0..1
         /\ Len(<<x>>) # 0 /\ <<x>> # <<>>
<1>1. Len(<<x>>) = 1 /\ Len(<<>>) = 0
  OBVIOUS
<1> QED
  BY <1>1

\* The fields of a byte.
LEMMA ByteIs ==
  ASSUME NEW b, NEW l
  PROVE  Byte(b, l).bits = b /\ Byte(b, l).last = l
BY Zenon DEF Byte

\* The sum of the groups is what they have, but for the bits above a word.
LEMMA SumIs ==
  ASSUME NEW off \in Int, NEW n \in 1..WordBits, NEW bytes,
         Groups(bytes, off, n)
  PROVE  Sums(bytes)[n] = Below(off, n) % Word
<1> DEFINE N == Len(bytes)
           T == {i \in Nat : i <= n => Sums(bytes)[i] = Below(off, i) % Word}
<1>1. /\ n \in Nat /\ N \in n..(n + 1) /\ N \in 0..(WordBits + 1)
      /\ \A i \in 1..N : bytes[i].bits \in Nat
      /\ Word \in Nat \ {0}
  <2>1. WordBits \in Nat /\ WordBits \in 0..Top
    BY Exponents
  <2>2. Word \in Nat \ {0}
    BY <2>1, Powers DEF Word
  <2> QED
    BY <2>1, <2>2 DEF Groups
<1> HIDE DEF N
<1>2. Sums(bytes)[0] = 0
      /\ \A i \in 1..N :
           Sums(bytes)[i] =
             (Sums(bytes)[i - 1] + bytes[i].bits * 2^(GroupBits * (i - 1))) % Word
  <2>1. Len(bytes) = N
    BY DEF N
  <2> QED
    BY <1>1, <2>1, SumsIs
<1>3. 0 \in T
  <2>1. 0 \in 0..(Word - 1) /\ Word * 0 + 0 = 0
    BY <1>1
  <2>2. 0 % Word = 0
    BY <1>1, <2>1, DivMod
  <2> QED
    BY <1>2, <2>2, NoGroups
<1>4. ASSUME NEW k \in 0..(n - 1), k \in T PROVE k + 1 \in T
  <2> DEFINE i == k + 1
             x == Group(off, i) * 2^(GroupBits * k)
             y == Below(off, k)
  <2>1. /\ i \in 1..n /\ i \in 1..N /\ i \in 1..WordBits /\ i - 1 = k /\ k <= n
        /\ k \in 0..WordBits /\ i \in Nat
    BY <1>1, Exponents
  <2>2. bytes[i].bits = Group(off, i)
    <3> DEFINE l == i = n
    <3>1. bytes[i] = Byte(Group(off, i), l)
      BY <2>1 DEF Groups
    <3>2. Byte(Group(off, i), l).bits = Group(off, i)
      BY ByteIs
    <3> HIDE DEF l, i
    <3> QED
      BY <3>1, <3>2, Zenon
  <2>3. Sums(bytes)[k] = y % Word
    BY <1>4, <2>1
  <2>4. Sums(bytes)[i] = ((y % Word) + x) % Word
    BY <1>2, <2>1, <2>2, <2>3
  <2>5. x \in Int /\ y \in Int
    <3>1. Group(off, i) \in Int
      <4>1. 2^GroupBits \in Nat /\ Group(off, i) \in 0..(2^GroupBits - 1)
        BY <2>1, NextGroup, Exponents, Powers
      <4> QED
        BY <4>1
    <3>2. 2^(GroupBits * k) \in Int /\ y \in Int
      BY <2>1, Halves
    <3> QED
      BY <3>1, <3>2
  <2>6. Below(off, i) = y + x
    BY <2>1, NextGroup
  <2> HIDE DEF i, x, y
  <2>7. ((y % Word) + x) % Word = (y + x) % Word
    BY <1>1, <2>5, ModAdd
  <2>8. Sums(bytes)[i] = Below(off, i) % Word
    BY <2>4, <2>6, <2>7
  <2> QED
    BY <2>1, <2>8 DEF i
<1>5. 0..n \subseteq T
  <2> HIDE DEF T
  <2> QED
    BY <1>1, <1>3, <1>4, UpToAll
<1> QED
  BY <1>1, <1>5

\* The bytes of an offset are read up to its end, and to a number that is the
\* offset but for a multiple of a word.
LEMMA Decodes ==
  ASSUME NEW off \in Offsets, NEW n \in 1..WordBits, Ends(off, n), NEW bytes,
         Groups(bytes, off, n)
  PROVE  /\ Sleb128(bytes).used = n
         /\ \E q \in Int : Sleb128(bytes).value = off + Word * q
<1> DEFINE used == CHOOSE i \in 1..Len(bytes) :
                     bytes[i].last /\ \A h \in 1..(i - 1) : ~bytes[h].last
           neg == /\ GroupBits * used < WordBits
                  /\ bytes[used].bits >= 2^(GroupBits - 1)
           g == Group(off, n)
           a == Above(off, n)
           b == Below(off, n)
           X == 2^(GroupBits * n)
<1>1. off \in Int /\ n \in Nat /\ n \in 0..WordBits /\ WordBits \in Nat
  BY EndsThere, Exponents
<1>2. used = n
  <2>1. ASSUME NEW i \in 1..n PROVE bytes[i].last <=> i = n
    <3> DEFINE l == i = n
    <3>1. bytes[i] = Byte(Group(off, i), l)
      BY DEF Groups
    <3> HIDE DEF l
    <3>2. bytes[i].last = l
      BY <3>1, ByteIs, Zenon
    <3> QED
      BY <3>2, Zenon DEF l
  <2>2. n \in 1..Len(bytes) /\ n \in 1..n
    BY <1>1 DEF Groups
  <2>3. \A h \in 1..(n - 1) : h \in 1..n /\ h # n
    BY <1>1
  <2>4. bytes[n].last /\ \A h \in 1..(n - 1) : ~bytes[h].last
    BY <2>1, <2>2, <2>3
  <2>5. used \in 1..Len(bytes)
        /\ bytes[used].last /\ \A h \in 1..(used - 1) : ~bytes[h].last
    BY <2>2, <2>4, Zenon
  <2> HIDE DEF used
  <2>6. used \in Nat /\ ~(n < used)
    <3>1. used \in Nat
      BY <1>1, <2>5 DEF Groups
    <3>2. n < used => n \in 1..(used - 1)
      BY <1>1, <3>1
    <3> QED
      BY <2>4, <2>5, <3>1, <3>2
  <2>7. used \in 1..n
    BY <1>1, <2>5, <2>6
  <2> QED
    BY <2>1, <2>5, <2>7
<1>3. /\ Sleb128(bytes).used = used
      /\ Sleb128(bytes).value = Sums(bytes)[used]
                                  - IF neg THEN 2^(GroupBits * used) ELSE 0
  BY DEF Sleb128
<1> HIDE DEF used
<1>4. bytes[n].bits = g
  <2>1. n \in 1..n
    BY <1>1
  <2>2. bytes[n] = Byte(g, n = n)
    BY <2>1 DEF Groups
  <2> QED
    BY <2>2, ByteIs, Zenon
<1>5. X \in Nat \ {0} /\ b \in Nat /\ off = X * a + b
  BY <1>1, Halves
<1>6. a = IF g >= 2^(GroupBits - 1) THEN -1 ELSE 0
  BY DEF Ends
<1>7. Word \in Nat \ {0}
  BY Exponents, Powers DEF Word
<1>8. Sums(bytes)[n] = b % Word
  BY <1>1, SumIs
<1>9. GroupBits * n >= WordBits => \E m \in Int : X = Word * m
  <2>1. SUFFICES ASSUME GroupBits * n >= WordBits
                 PROVE  \E m \in Int : X = Word * m
    OBVIOUS
  <2> DEFINE e == GroupBits * n
  <2>2. e \in 0..Top /\ WordBits \in 0..Top
    BY <1>1, Exponents
  <2> HIDE DEF e
  <2>3. e - WordBits \in 0..Top /\ WordBits + (e - WordBits) = e
    BY <1>1, <2>1, <2>2, Exponents DEF e
  <2>4. WordBits + (e - WordBits) <= Top
    BY <2>2, <2>3, Exponents
  <2>5. 2^(WordBits + (e - WordBits)) = 2^WordBits * 2^(e - WordBits)
        /\ 2^(e - WordBits) \in Int
    BY <2>2, <2>3, <2>4, Powers
  <2> QED
    BY <2>3, <2>5 DEF Word, e
<1>10. GroupBits * n \in Nat
  BY <1>1, Exponents
<1> DEFINE wide == GroupBits * n >= WordBits
<1>11. neg <=> ~wide /\ a = -1
  BY <1>1, <1>2, <1>4, <1>6, <1>10
<1>12. a = -1 \/ a = 0
  BY <1>6
<1> DEFINE v == Sleb128(bytes).value
<1>13. v = (b % Word) - IF neg THEN X ELSE 0
  BY <1>2, <1>3, <1>8
<1> HIDE DEF neg, X, g, a, b, wide, v
<1>14. PICK p \in Int : b % Word = b + Word * p
  <2>1. b \div Word \in Int /\ b % Word \in Int
        /\ b = Word * (b \div Word) + (b % Word)
    BY <1>5, <1>7, DivRest
  <2> DEFINE d == b \div Word
             r == b % Word
  <2>2. d \in Int /\ r \in Int /\ b = Word * d + r
    BY <2>1
  <2> HIDE DEF d, r
  <2>3. r = b + Word * (-d) /\ -d \in Int
    BY <1>7, <2>2
  <2> QED
    BY <2>3 DEF r
<1>15. \E q \in Int : v = off + Word * q
  <2>1. CASE a = 0
    <3>1. off = b
      BY <1>5, <2>1
    <3>2. v = b + Word * p /\ Word * p \in Int
      BY <1>5, <1>7, <1>11, <1>13, <1>14, <2>1
    <3> QED
      BY <3>1, <3>2
  <2>2. CASE a = -1 /\ ~wide
    <3>1. off = b - X /\ v = b + Word * p - X /\ Word * p \in Int
      BY <1>5, <1>7, <1>11, <1>13, <1>14, <2>2
    <3>2. v = off + Word * p
      BY <1>5, <3>1
    <3> QED
      BY <3>2
  <2>3. CASE a = -1 /\ wide
    <3>1. PICK m \in Int : X = Word * m
      BY <1>9, <2>3 DEF X, wide
    <3>2. v = off + X + Word * p
      BY <1>5, <1>7, <1>11, <1>13, <1>14, <2>3
    <3>3. v = off + Word * (m + p) /\ m + p \in Int
      BY <1>1, <1>7, <3>1, <3>2
    <3> QED
      BY <3>3
  <2> QED
    BY <1>12, <2>1, <2>2, <2>3
<1> QED
  BY <1>2, <1>3, <1>15 DEF v

-----------------------------------------------------------------------------
(* Addresses.                                                              *)

\* An offset that is encoded is read as it was meant, in an address.
Reads(bytes, off) ==
  \A x \in Int : (x + Sleb128(bytes).value) % Word = (x + off) % Word

LEMMA WordIs == Word \in Nat \ {0}
BY Exponents, Powers DEF Word

\* An encoding is a sequence of bytes.
LEMMA EncodedSeq ==
  ASSUME NEW off \in Offsets
  PROVE  \E n \in 1..WordBits :
           /\ Ends(off, n)
           /\ Encoded[off] \in Seq([bits : Nat, last : BOOLEAN])
           /\ Len(Encoded[off]) = n
           /\ \A i \in 1..n : Encoded[off][i] = Byte(Group(off, i), i = n)
<1> DEFINE B == [bits : Nat, last : BOOLEAN]
           enc == Encoded[off]
<1>1. PICK n \in 1..WordBits :
        /\ Ends(off, n)
        /\ enc = [i \in 1..n |-> Byte(Group(off, i), i = n)]
  BY EncodedIs
<1>2. off \in Int /\ n \in Nat /\ WordBits \in Nat /\ 2^GroupBits \in Nat
  BY EndsThere, Exponents, Powers
<1>3. ASSUME NEW i \in 1..n PROVE Byte(Group(off, i), i = n) \in B
  <2>1. i \in 1..WordBits
    BY <1>2
  <2>2. Group(off, i) \in 0..(2^GroupBits - 1)
    BY <1>2, <2>1, NextGroup
  <2>3. Group(off, i) \in Nat
    BY <1>2, <2>2
  <2> QED
    BY <2>3 DEF Byte
<1> HIDE DEF B, enc
<1>4. /\ enc \in Seq(B) /\ Len(enc) = n
      /\ \A i \in 1..n : enc[i] = Byte(Group(off, i), i = n)
  BY <1>1, <1>2, <1>3
<1> QED
  BY <1>1, <1>4 DEF enc, B

\* An offset, and what may follow it.
LEMMA OffsetRead ==
  ASSUME NEW off \in Offsets, NEW tail \in {<<>>, <<Byte(0, TRUE)>>}
  PROVE  LET bytes == Encoded[off] \o tail IN
           /\ Sleb128(bytes).value \in Int
           /\ Sleb128(bytes).used = Len(bytes) <=> tail = <<>>
           /\ Reads(bytes, off)
<1> DEFINE bytes == Encoded[off] \o tail
           B == [bits : Nat, last : BOOLEAN]
           enc == Encoded[off]
<1>1. off \in Int
  BY EndsThere
<1>2. PICK n \in 1..WordBits :
        /\ Ends(off, n)
        /\ enc \in Seq(B) /\ Len(enc) = n
        /\ \A i \in 1..n : enc[i] = Byte(Group(off, i), i = n)
  BY EncodedSeq
<1>3. n \in Nat /\ WordBits \in Nat
  BY Exponents
<1>6. tail \in Seq(B) /\ Len(tail) \in 0..1 /\ (Len(tail) = 0 <=> tail = <<>>)
  <2>1. Byte(0, TRUE) \in B
    BY DEF Byte
  <2> HIDE DEF B
  <2>2. CASE tail = <<>>
    BY <2>2
  <2>3. CASE tail = <<Byte(0, TRUE)>>
    <3> DEFINE y == Byte(0, TRUE)
    <3>1. y \in B /\ tail = <<y>>
      BY <2>1, <2>3
    <3> HIDE DEF y
    <3>2. /\ <<y>> \in Seq(B) /\ Len(<<y>>) \in 0..1
          /\ Len(<<y>>) # 0 /\ <<y>> # <<>>
      BY <3>1, Single
    <3> QED
      BY <3>1, <3>2, Zenon
  <2> QED
    BY <2>2, <2>3
<1> HIDE DEF enc
<1>7. /\ bytes = enc \o tail /\ bytes \in Seq(B)
      /\ Len(bytes) = n + Len(tail)
      /\ \A i \in 1..n : bytes[i] = enc[i]
  <2> HIDE DEF B
  <2>1. bytes = enc \o tail
    BY DEF enc
  <2>2. enc \o tail \in Seq(B) /\ Len(enc \o tail) = n + Len(tail)
        /\ \A i \in 1..n : (enc \o tail)[i] = enc[i]
    BY <1>2, <1>3, <1>6, ConcatProperties
  <2> QED
    BY <2>1, <2>2
<1> HIDE DEF bytes
<1>8. Groups(bytes, off, n)
  <2>1. \A i \in 1..Len(bytes) : bytes[i] \in B
    <3> HIDE DEF B
    <3> QED
      BY <1>7, ElementOfSeq
  <2>2. Len(bytes) \in n..(n + 1)
    <3> DEFINE l == Len(tail)
    <3>1. l \in 0..1 /\ Len(bytes) = n + l
      BY <1>6, <1>7
    <3> HIDE DEF l
    <3> QED
      BY <1>3, <3>1
  <2>3. \A i \in 1..Len(bytes) : bytes[i].bits \in Nat
    BY <2>1
  <2>4. \A i \in 1..n : bytes[i] = Byte(Group(off, i), i = n)
    BY <1>2, <1>7, Zenon
  <2> QED
    BY <2>2, <2>3, <2>4 DEF Groups
<1>9. /\ Sleb128(bytes).used = n
      /\ \E q \in Int : Sleb128(bytes).value = off + Word * q
  BY <1>2, <1>8, Decodes
<1> DEFINE v == Sleb128(bytes).value
<1>10. PICK q \in Int : v = off + Word * q
  BY <1>9
<1> HIDE DEF v
<1>11. v \in Int
  BY <1>1, <1>10, WordIs
<1>12. Reads(bytes, off)
  <2>1. ASSUME NEW x \in Int PROVE (x + v) % Word = (x + off) % Word
    <3>1. x + v = Word * q + (x + off) /\ x + off \in Int
      BY <1>1, <1>10, WordIs
    <3>2. (Word * q + (x + off)) % Word = (x + off) % Word
      BY <3>1, ModShift, WordIs
    <3> QED
      BY <3>1, <3>2
  <2> QED
    BY <2>1 DEF Reads, v
<1>13. Sleb128(bytes).used = Len(bytes) <=> tail = <<>>
  BY <1>3, <1>6, <1>7, <1>9
<1> QED
  BY <1>11, <1>12, <1>13 DEF v, bytes

\* The frame base is the one that is meant, in an address.
LEMMA FrameBaseRead ==
  ASSUME NEW base \in Exprs, Usable(base)
  PROVE  FrameBase(base) =
           IF base.base = "cfa" THEN Sp ELSE (Fp + base.off) % Word
<1> DEFINE enc == Encoded[base.off]
<1>1. base.off \in Offsets
  BY DEF Exprs
<1>2. enc \o <<>> = enc
  <2>1. PICK n \in 1..WordBits : enc \in Seq([bits : Nat, last : BOOLEAN])
    BY <1>1, EncodedSeq
  <2> HIDE DEF enc
  <2> QED
    BY <2>1, ConcatEmptySeq
<1>3. Reads(enc, base.off)
  <2>1. <<>> \in {<<>>, <<Byte(0, TRUE)>>}
    OBVIOUS
  <2>2. Reads(enc \o <<>>, base.off)
    BY <1>1, <2>1, OffsetRead
  <2> QED
    BY <1>2, <2>2
<1>4. Fp \in Int
  BY DieAssumption, WordIs DEF Addresses
<1>5. (Fp + Sleb128(enc).value) % Word = (Fp + base.off) % Word
  BY <1>3, <1>4 DEF Reads
<1> QED
  BY <1>5 DEF FrameBase

\* An expression is evaluated to the address that is meant, or to none.
LEMMA EvalRead ==
  ASSUME NEW e \in Exprs, NEW x \in Int
  PROVE  EvalAddr(e, x % Word) =
           CASE e.base = "cfa" -> Sp
             [] e.base = "other" \/ (e.base # "cfa" /\ e.more) -> NoAddr
             [] OTHER -> ([frame |-> x, sp |-> Sp, fp |-> Fp][e.base] + e.off)
                           % Word
<1> DEFINE tail == IF e.more THEN <<Byte(0, TRUE)>> ELSE <<>>
           bytes == Encoded[e.off] \o tail
           v == Sleb128(bytes).value
<1>1. /\ e.off \in Offsets /\ e.off \in Int /\ e.more \in BOOLEAN
      /\ e.base \in {"frame", "cfa", "sp", "fp", "other"}
  BY EndsThere DEF Exprs
<1>2. tail \in {<<>>, <<Byte(0, TRUE)>>} /\ (tail = <<>> <=> ~e.more)
  <2> DEFINE y == Byte(0, TRUE)
  <2>1. <<y>> # <<>>
    <3> HIDE DEF y
    <3>1. y \in {y}
      OBVIOUS
    <3> QED
      BY <3>1, Single
  <2> QED
    BY <1>1, <2>1
<1>3. Rest(e) = bytes
  BY DEF Rest
<1> HIDE DEF tail
<1>4. /\ v \in Int
      /\ Sleb128(bytes).used = Len(bytes) <=> tail = <<>>
      /\ Reads(bytes, e.off)
  BY <1>1, <1>2, OffsetRead
<1>5. Sp \in Int /\ Fp \in Int
  BY DieAssumption, WordIs DEF Addresses
<1>6. \A z \in Int : (z + v) % Word = (z + e.off) % Word
  BY <1>4 DEF Reads
<1>7. ((x % Word) + v) % Word = (x + e.off) % Word
  <2>1. ((x % Word) + v) % Word = (x + v) % Word
    BY <1>4, WordIs, ModAdd
  <2> QED
    BY <1>6, <2>1
<1>8. Sleb128(bytes).used # Len(bytes) <=> e.more
  BY <1>1, <1>2, <1>4
<1>9. EvalAddr(e, x % Word) =
        CASE e.base = "cfa" -> Sp
          [] e.base = "other" \/ (e.base # "cfa" /\ e.more) -> NoAddr
          [] OTHER -> ([frame |-> x % Word, sp |-> Sp, fp |-> Fp][e.base] + v)
                        % Word
  BY <1>3, <1>8 DEF EvalAddr
<1> HIDE DEF v, bytes
<1>10. ASSUME e.base \in {"frame", "sp", "fp"}
       PROVE  ([frame |-> x % Word, sp |-> Sp, fp |-> Fp][e.base] + v) % Word
                = ([frame |-> x, sp |-> Sp, fp |-> Fp][e.base] + e.off) % Word
  <2>1. CASE e.base = "frame"
    BY <1>7, <2>1
  <2>2. CASE e.base = "sp"
    BY <1>5, <1>6, <2>2
  <2>3. CASE e.base = "fp"
    BY <1>5, <1>6, <2>3
  <2> QED
    BY <1>10, <2>1, <2>2, <2>3
<1> QED
  BY <1>1, <1>9, <1>10

\* A local is in one place at most.
LEMMA OneLocation ==
  ASSUME NEW f \in Frames, NEW d \in Locals
  PROVE  VarLocation(f, d) = {} \/ \E e \in Exprs : VarLocation(f, d) = {e}
<1> DEFINE loc == f.loc[d]
           hits == {i \in 1..Len(loc) : Within(f.pc, loc[i])}
           firsts == {j \in hits : \A k \in hits : j <= k}
<1>1. loc \in Seq(Ranges)
  <2>1. f.loc[d] \in Locations[d]
    BY DEF Frames
  <2> QED
    BY <2>1, DieAssumption
<1>2. VarLocation(f, d) = {loc[i].expr : i \in firsts}
  BY DEF VarLocation
<1>3. CASE firsts = {}
  BY <1>2, <1>3
<1>4. CASE firsts # {}
  <2>1. PICK i \in firsts : TRUE
    BY <1>4
  <2>2. Len(loc) \in Nat /\ i \in 1..Len(loc)
    BY <1>1, LenProperties
  <2>3. loc[i].expr \in Exprs
    <3>1. loc[i] \in Ranges
      BY <1>1, <2>2, ElementOfSeq
    <3> QED
      BY <3>1 DEF Ranges
  <2>4. \A j \in firsts : j = i
    BY <2>1, <2>2
  <2>5. VarLocation(f, d) = {loc[i].expr}
    <3> HIDE DEF firsts, loc
    <3> QED
      BY <1>2, <2>1, <2>4
  <2> QED
    BY <2>3, <2>5
<1> QED
  BY <1>3, <1>4

-----------------------------------------------------------------------------
(* Theorems.                                                               *)

\* The invariant holds: the walk has seen what is behind it, keeps the first
\* of what it may need, and ends with the local of its choice, for any tree of
\* scopes and any locations (local_at_address).
THEOREM WalkInvariance == Spec => []WalkInv
<1>1. Init => WalkInv
  BY WalkInit
<1>2. WalkInv /\ [Next]_vars => WalkInv'
  BY WalkStep
<1> QED
  BY <1>1, <1>2, PTL DEF Spec

\* Type correctness; what is found has a type (resolved needs one).
THEOREM TypeCorrect == Spec => []TypeOK
<1>1. WalkInv => TypeOK
  BY DEF WalkInv
<1> QED
  BY <1>1, WalkInvariance, PTL

\* An address that is evaluated is the one that is meant, for words and groups
\* of any length: an offset is decoded as it was encoded, with its sign extended
\* where there is room, and sums wrap as they should (eval_addr, sleb128).
THEOREM Decoding == DecodesRight
<1> SUFFICES ASSUME NEW f \in Frames, NEW d \in Locals, Usable(f.base)
             PROVE  Addr(f, d) = Meant(f, d)
  BY DEF DecodesRight
<1> DEFINE base == IF f.base.base = "cfa" THEN Sp ELSE Fp + f.base.off
           from == [frame |-> base, sp |-> Sp, fp |-> Fp]
           there == {e \in VarLocation(f, d) :
                       e.base = "cfa" \/ (e.base \in DOMAIN from /\ ~e.more)}
           one == CHOOSE e \in there : TRUE
<1>1. Meant(f, d) =
        IF there = {} THEN NoAddr
        ELSE IF one.base = "cfa" THEN Sp ELSE (from[one.base] + one.off) % Word
  BY DEF Meant
<1>2. f.base \in Exprs
  BY DieAssumption DEF Frames
<1>3. base \in Int /\ FrameBase(f.base) = base % Word
  <2>1. Sp \in 0..(Word - 1) /\ Fp \in Int /\ f.base.off \in Int
    BY <1>2, DieAssumption, WordIs, EndsThere DEF Addresses, Exprs
  <2>2. Sp % Word = Sp
    <3>1. Word * 0 + Sp = Sp
      BY <2>1, WordIs
    <3> QED
      BY <2>1, <3>1, WordIs, DivMod
  <2> QED
    BY <1>2, <2>1, <2>2, WordIs, FrameBaseRead
<1>4. CASE VarLocation(f, d) = {}
  BY <1>1, <1>4 DEF Addr
<1>5. ASSUME NEW e \in Exprs, VarLocation(f, d) = {e}
      PROVE  Addr(f, d) = Meant(f, d)
  <2>1. Addr(f, d) = EvalAddr(e, base % Word)
    <3>1. (CHOOSE y \in {e} : TRUE) = e /\ {e} # {}
      OBVIOUS
    <3> QED
      BY <1>3, <1>5, <3>1 DEF Addr
  <2>2. /\ e.base \in {"frame", "cfa", "sp", "fp", "other"} /\ e.more \in BOOLEAN
    BY DEF Exprs
  <2>3. DOMAIN from = {"frame", "sp", "fp"}
    OBVIOUS
  <2> DEFINE good == e.base = "cfa" \/ (e.base \in {"frame", "sp", "fp"} /\ ~e.more)
  <2>4. there = IF good THEN {e} ELSE {}
    BY <1>5, <2>3
  <2>5. good => one = e
    BY <2>4
  <2>6. EvalAddr(e, base % Word) =
          CASE e.base = "cfa" -> Sp
            [] e.base = "other" \/ (e.base # "cfa" /\ e.more) -> NoAddr
            [] OTHER -> (from[e.base] + e.off) % Word
    BY <1>3, EvalRead
  <2> HIDE DEF from, base, there, one
  <2>7. CASE e.base = "cfa"
    BY <1>1, <2>1, <2>4, <2>5, <2>6, <2>7
  <2>8. CASE e.base # "cfa" /\ (e.base = "other" \/ e.more)
    BY <1>1, <2>1, <2>4, <2>6, <2>8
  <2>9. CASE e.base \in {"frame", "sp", "fp"} /\ ~e.more
    BY <1>1, <2>1, <2>4, <2>5, <2>6, <2>9
  <2> QED
    BY <2>2, <2>7, <2>8, <2>9
<1> QED
  BY <1>4, <1>5, OneLocation

\* The walk finds the local that it documents: the first MaybeUninit at the
\* pointer, or else the first local, or else the only MaybeUninit type's
\* (local_at_address, dwarf.rs:241-246).
THEOREM WantedIsFound == Spec => []FindsWanted
<1>1. ASSUME WalkInv
      PROVE  FindsWanted
  <2> SUFFICES ASSUME phase = "done"
               PROVE  found = IF Usable(frame.base) THEN Wanted(frame)
                              ELSE NoDie
    BY DEF FindsWanted
  <2>1. /\ frame \in Frames
        /\ IF Usable(frame.base) THEN found = Chosen(frame) ELSE found = NoDie
    BY <1>1 DEF WalkInv, Ended
  <2>2. ASSUME Usable(frame.base)
        PROVE  Wanted(frame) = Chosen(frame)
    <3>1. \A d \in Locals : Addr(frame, d) = Meant(frame, d)
      BY <2>1, <2>2, Decoding DEF DecodesRight
    <3>2. {d \in Reachable : Match(frame, d)}
            = {d \in Reachable \intersect Typed : Meant(frame, d) = frame.ptr}
      BY <3>1 DEF Match, Typed, Reachable
    <3> QED
      BY <3>2, Zenon DEF Wanted, Chosen
  <2> QED
    BY <2>1, <2>2
<1> QED
  BY <1>1, WalkInvariance, PTL

\* A local of another type than the target's is never found,
\* unless one of the two has its slot (local_at_address).
THEOREM TypeIsRight == Spec => []RightType
<1>1. ASSUME WalkInv
      PROVE  RightType
  <2> SUFFICES ASSUME phase = "done", Unshared(frame), found # NoDie
               PROVE  SameType(found, frame.target)
    BY DEF RightType
  <2>1. /\ frame \in Frames /\ Usable(frame.base) /\ Justified
    BY <1>1 DEF WalkInv, Ended
  <2>2. frame.target \in Reachable /\ IsMu(frame.target)
    BY <2>1, FrameIs
  <2>3. CASE found \in Reachable /\ Match(frame, found)
    <3>1. Addr(frame, found) = Meant(frame, found)
      BY <2>1, <2>3, Decoding DEF DecodesRight, Reachable
    <3>2. found \in Reachable \intersect Typed /\ Meant(frame, found) = frame.ptr
      BY <2>3, <3>1 DEF Match, Typed, Reachable
    <3> QED
      BY <3>2 DEF Unshared
  <2>4. CASE \A d \in Reachable : IsMu(d) => SameType(d, found)
    BY <2>2, <2>4 DEF SameType
  <2> QED
    BY <2>1, <2>3, <2>4 DEF Justified
<1> QED
  BY <1>1, WalkInvariance, PTL

=============================================================================
