--------------------------- MODULE MCResolveCache ---------------------------
(***************************************************************************)
(* Instances of ResolveCache for TLC.                                      *)
(***************************************************************************)
EXTENDS ResolveCache, TLC

CONSTANTS t1, t2, s1, s2, s3, p1, p2, k1, k2, k3

\* s1 and s2 share the type k1; a pointer at s2 may match no local; s3 is
\* handed locals of two types (a helper inlined away, calls merged by the
\* optimiser).
MixedSites ==
  s1 :> (p1 :> k1 @@ p2 :> k1) @@
  s2 :> (p1 :> k1 @@ p2 :> NoKey) @@
  s3 :> (p1 :> k2 @@ p2 :> k3)

\* A call site that is handed locals of two types, and one that is not.
TwoTypesAtSite ==
  s1 :> (p1 :> k1 @@ p2 :> k2) @@
  s2 :> (p1 :> k3 @@ p2 :> k3)
=============================================================================
