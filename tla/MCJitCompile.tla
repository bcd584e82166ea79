---------------------------- MODULE MCJitCompile ----------------------------
(***************************************************************************)
(* An instance of JitCompile for TLC.                                      *)
(***************************************************************************)
EXTENDS JitCompile, TLC

CONSTANTS t1, t2, flat, tree, knot, odd, a, b, n, x, c

\* flat: no recursion.
\* tree: A { b: Box<B>, next: A } with B { a: A, bs: Vec<B> }.
\* knot: X { n: Box<N>, weird: .. } with N { next: N, back: X }, where the
\* function of N is defined and calls that of X, which is not.
\* odd: { c: Box<C>, weird: .. } with C { next: C }: only the function of the
\* type itself cannot be compiled.
\* A type has the bodies of its cells inlined, once each.
MCMentions ==
  flat :> <<>> @@
  tree :> <<a, b, a>> @@ a :> <<a, b, a>> @@ b :> <<a, b>> @@
  knot :> <<n, x>> @@ n :> <<n, x>> @@ x :> <<n, x>> @@
  odd :> <<c>> @@ c :> <<c>>
=============================================================================
