-------------------------- MODULE JitCompileProofs --------------------------
(***************************************************************************)
(* Theorems about JitCompile, for any number of threads, any types with    *)
(* any recursion, any failures, and any number of calls.                   *)
(***************************************************************************)
EXTENDS JitCompile, SequenceTheorems, TLAPS

-----------------------------------------------------------------------------
(* The functions of a module.                                              *)

Inside(m, p) ==
  /\ m \in Seq(Functions)
  /\ p \subseteq DOMAIN m
  /\ \A f \in DOMAIN m : m[f].callees \subseteq DOMAIN m

\* How a module changes: declarations are appended, a function gets its code.
Extended(m, c) == m \o [i \in 1..Len(c) |-> Declared(c[i])]
Coded(m, n, F) == [m EXCEPT ![n] = F]

ExtendedOK(m, p, c, mm) ==
  /\ Inside(mm, p) /\ Linked(mm, p)
  /\ Len(mm) = Len(m) + Len(c)
  /\ \A f \in DOMAIN m : f \in DOMAIN mm /\ mm[f] = m[f]
  /\ \A i \in 1..Len(c) : mm[Len(m) + i] = Declared(c[i])

CodedOK(m, p, n, F, mm) ==
  /\ Inside(mm, p \union {n}) /\ Linked(mm, p \union {n})
  /\ Len(mm) = Len(m) /\ DOMAIN mm = DOMAIN m
  /\ mm[n] = F
  /\ \A f \in DOMAIN m : f # n => mm[f] = m[f]

TopOK(m, p, F, mm) ==
  /\ Inside(mm, p) /\ Linked(mm, p)
  /\ Len(mm) = Len(m) + 1
  /\ \A f \in DOMAIN m : f \in DOMAIN mm /\ mm[f] = m[f]
  /\ Len(m) + 1 \in DOMAIN mm /\ mm[Len(m) + 1] = F

Final(m, p) == [f \in DOMAIN m |->
                  IF f \in p THEN [m[f] EXCEPT !.phase = "final"] ELSE m[f]]

FinalOK(m, p, mm) ==
  /\ Inside(mm, {}) /\ Linked(mm, {})
  /\ Len(mm) = Len(m) /\ DOMAIN mm = DOMAIN m
  /\ \A f \in DOMAIN m : mm[f].body = m[f].body
  /\ \A f \in p : mm[f].phase = "final"
  /\ \A f \in DOMAIN m : m[f].phase = "final" => mm[f].phase = "final"

\* F may be the code of function n.
CodeOf(m, p, n, F) ==
  \E callees \in SUBSET DOMAIN m :
    /\ F = Function(m[n].body, callees, "defined")
    /\ {m[g].body : g \in callees} = ToSet(Mentions[m[n].body])
    /\ \A g \in callees : g \in p \/ m[g].phase = "declared"

\* A function on 1..n is a sequence.
LEMMA FunctionIsSeq ==
  ASSUME NEW S, NEW n \in Nat, NEW s \in [1..n -> S]
  PROVE  s \in Seq(S) /\ Len(s) = n
OBVIOUS

\* New declarations do not disturb what is linked.
LEMMA LinkedDeclared ==
  ASSUME NEW m, NEW p, Inside(m, p), Linked(m, p),
         NEW c \in Seq(Bodies)
  PROVE  ExtendedOK(m, p, c, Extended(m, c))
<1> SUFFICES ASSUME NEW mm, mm = Extended(m, c)
             PROVE  ExtendedOK(m, p, c, mm)
  OBVIOUS
<1> DEFINE d == [i \in 1..Len(c) |-> Declared(c[i])]
<1>1. \A i \in 1..Len(c) : Declared(c[i]) \in Functions
  BY ElementOfSeq DEF Declared, Function, Functions
<1>2. Len(c) \in Nat /\ Len(m) \in Nat /\ DOMAIN m = 1..Len(m)
  BY LenProperties DEF Inside
<1>3. d \in Seq(Functions) /\ Len(d) = Len(c) /\ \A i \in 1..Len(c) : d[i] = Declared(c[i])
  <2>1. d \in [1..Len(c) -> Functions]
    BY <1>1
  <2>2. d \in Seq(Functions) /\ Len(d) = Len(c)
    BY <1>2, <2>1, FunctionIsSeq
  <2>3. \A i \in 1..Len(c) : d[i] = Declared(c[i])
    OBVIOUS
  <2> QED
    BY <2>2, <2>3
<1> HIDE DEF d
<1>4. mm = m \o d
  BY DEF d, Extended
<1>5. /\ mm \in Seq(Functions)
      /\ Len(mm) = Len(m) + Len(c)
      /\ \A i \in 1..(Len(m) + Len(c)) :
           mm[i] = IF i <= Len(m) THEN m[i] ELSE d[i - Len(m)]
  <2>1. /\ m \o d \in Seq(Functions)
        /\ Len(m \o d) = Len(m) + Len(c)
        /\ \A i \in 1..(Len(m) + Len(c)) :
             (m \o d)[i] = IF i <= Len(m) THEN m[i] ELSE d[i - Len(m)]
    <3>1. m \in Seq(Functions) /\ d \in Seq(Functions) /\ Len(d) = Len(c)
      BY <1>3 DEF Inside
    <3>2. /\ m \o d \in Seq(Functions)
          /\ Len(m \o d) = Len(m) + Len(d)
          /\ \A i \in 1..(Len(m) + Len(d)) :
               (m \o d)[i] = IF i <= Len(m) THEN m[i] ELSE d[i - Len(m)]
      BY ONLY <3>1, ConcatProperties, Zenon
    <3> QED
      BY <3>1, <3>2, Zenon
  <2> QED
    BY <1>4, <2>1
<1>6. DOMAIN mm = 1..(Len(m) + Len(c))
  BY <1>5, LenProperties
<1>7. \A f \in DOMAIN m : f \in DOMAIN mm /\ mm[f] = m[f]
  BY <1>2, <1>5, <1>6
<1>8. \A i \in 1..Len(c) : mm[Len(m) + i] = Declared(c[i])
  <2> SUFFICES ASSUME NEW i \in 1..Len(c) PROVE mm[Len(m) + i] = Declared(c[i])
    OBVIOUS
  <2>1. Len(m) + i \in 1..(Len(m) + Len(c)) /\ ~(Len(m) + i <= Len(m))
        /\ (Len(m) + i) - Len(m) = i
    BY <1>2
  <2> QED
    BY <2>1, <1>3, <1>5
<1>9. \A f \in DOMAIN mm : f \in DOMAIN m \/ (mm[f].callees = {} /\ mm[f].phase = "declared")
  <2> SUFFICES ASSUME NEW f \in DOMAIN mm, f \notin DOMAIN m
               PROVE  mm[f].callees = {} /\ mm[f].phase = "declared"
    OBVIOUS
  <2>1. f - Len(m) \in 1..Len(c) /\ Len(m) + (f - Len(m)) = f
    BY <1>2, <1>6
  <2>2. mm[f] = Declared(c[f - Len(m)])
    BY <1>8, <2>1
  <2> QED
    BY <2>2 DEF Declared, Function
<1>10. Inside(mm, p)
  <2>1. p \subseteq DOMAIN mm
    BY <1>7 DEF Inside
  <2>2. \A f \in DOMAIN mm : mm[f].callees \subseteq DOMAIN mm
    BY <1>7, <1>9 DEF Inside
  <2> QED
    BY <1>5, <2>1, <2>2 DEF Inside
<1>11. Linked(mm, p)
  <2>1. \A f \in p : f \in DOMAIN m /\ mm[f] = m[f]
    BY <1>7 DEF Inside
  <2>2. \A f \in DOMAIN m : \A g \in m[f].callees : mm[g] = m[g]
    BY <1>7 DEF Inside
  <2>3. \A f \in p : mm[f].phase = "defined"
    BY <2>1 DEF Linked
  <2>4. ASSUME NEW f \in p, NEW g \in mm[f].callees, mm[g].phase = "defined"
        PROVE  g \in p
    <3>1. f \in DOMAIN m /\ g \in m[f].callees
      BY <2>1
    <3>2. m[g].phase = "defined"
      BY <2>2, <2>4, <3>1
    <3> QED
      BY <3>1, <3>2 DEF Linked
  <2>5. ASSUME NEW f \in DOMAIN mm, mm[f].phase # "declared"
        PROVE  {mm[g].body : g \in mm[f].callees} = ToSet(Mentions[mm[f].body])
    <3>1. f \in DOMAIN m /\ mm[f] = m[f]
      BY <1>7, <1>9, <2>5
    <3>2. {mm[g].body : g \in m[f].callees} = {m[g].body : g \in m[f].callees}
      BY <2>2, <3>1
    <3>3. {m[g].body : g \in m[f].callees} = ToSet(Mentions[m[f].body])
      BY <2>5, <3>1 DEF Linked
    <3> QED
      BY <3>1, <3>2, <3>3
  <2>6. ASSUME NEW f \in DOMAIN mm, mm[f].phase = "final"
        PROVE  \A g \in mm[f].callees : mm[g].phase = "final"
    <3>1. f \in DOMAIN m /\ mm[f] = m[f]
      BY <1>7, <1>9, <2>6
    <3> QED
      BY <2>2, <2>6, <3>1 DEF Linked
  <2> QED
    BY <2>3, <2>4, <2>5, <2>6 DEF Linked
<1> QED
  BY <1>5, <1>7, <1>8, <1>10, <1>11 DEF ExtendedOK

\* A function that was declared gets its code: it calls what its body
\* mentions, and these functions are to be finalized with it, or have no code.
LEMMA LinkedDefined ==
  ASSUME NEW m, NEW p, Inside(m, p), Linked(m, p),
         NEW n \in DOMAIN m, m[n].phase = "declared",
         NEW F, CodeOf(m, p, n, F)
  PROVE  CodedOK(m, p, n, F, Coded(m, n, F))
<1> SUFFICES ASSUME NEW callees \in SUBSET DOMAIN m,
                    F = Function(m[n].body, callees, "defined"),
                    {m[g].body : g \in callees} = ToSet(Mentions[m[n].body]),
                    \A g \in callees : g \in p \/ m[g].phase = "declared",
                    NEW mm, mm = Coded(m, n, F)
             PROVE  CodedOK(m, p, n, F, mm)
  BY DEF CodeOf
<1>1. Len(m) \in Nat /\ DOMAIN m = 1..Len(m)
  BY LenProperties DEF Inside
<1>2. F \in Functions /\ F.body = m[n].body /\ F.callees = callees /\ F.phase = "defined"
  <2>1. m[n] \in Functions
    BY <1>1, ElementOfSeq DEF Inside
  <2>2. callees \in SUBSET Nat
    BY <1>1
  <2> QED
    BY <2>1, <2>2 DEF Functions, Function
<1>3. mm \in Seq(Functions) /\ Len(mm) = Len(m)
      /\ \A j \in 1..Len(m) : mm[j] = IF j = n THEN F ELSE m[j]
  <2>1. n \in 1..Len(m)
    BY <1>1
  <2>2. m \in Seq(Functions)
    BY DEF Inside
  <2> QED
    BY <1>2, <2>1, <2>2, ExceptSeq DEF Coded
<1>4. DOMAIN mm = DOMAIN m
  BY <1>1, <1>3, LenProperties
<1>5. mm[n] = F /\ \A f \in DOMAIN m : f # n => mm[f] = m[f]
  BY <1>1, <1>3
<1>6. \A f \in DOMAIN m : mm[f].body = m[f].body
  BY <1>2, <1>5
<1>7. Inside(mm, p \union {n})
  BY <1>2, <1>3, <1>4, <1>5 DEF Inside
<1>8. \A f \in p : f \in DOMAIN m /\ f # n /\ mm[f] = m[f]
  BY <1>5 DEF Linked, Inside
<1>9. Linked(mm, p \union {n})
  <2>1. \A f \in p \union {n} : mm[f].phase = "defined"
    BY <1>2, <1>5, <1>8 DEF Linked
  <2>2. ASSUME NEW f \in p \union {n}, NEW g \in mm[f].callees, mm[g].phase = "defined"
        PROVE  g \in p \union {n}
    <3>1. CASE f = n
      <4>1. g \in callees
        BY <1>2, <1>5, <2>2, <3>1
      <4> QED
        BY <1>5, <2>2, <4>1
    <3>2. CASE f # n /\ g # n
      <4>1. f \in p /\ g \in m[f].callees
        BY <1>8, <2>2, <3>2
      <4>2. g \in DOMAIN m
        BY <1>8, <4>1 DEF Inside
      <4>3. m[g].phase = "defined"
        BY <1>5, <2>2, <3>2, <4>2
      <4> QED
        BY <4>1, <4>3 DEF Linked
    <3> QED
      BY <3>1, <3>2
  <2>3. ASSUME NEW f \in DOMAIN mm, mm[f].phase # "declared"
        PROVE  {mm[g].body : g \in mm[f].callees} = ToSet(Mentions[mm[f].body])
    <3>1. mm[f].callees \subseteq DOMAIN m
      BY <1>2, <1>4, <1>5 DEF Inside
    <3>2. {mm[g].body : g \in mm[f].callees} = {m[g].body : g \in mm[f].callees}
      BY <1>6, <3>1
    <3>3. CASE f = n
      BY <1>2, <1>5, <3>2, <3>3
    <3>4. CASE f # n
      <4>1. mm[f] = m[f] /\ f \in DOMAIN m
        BY <1>4, <1>5, <3>4
      <4>2. {m[g].body : g \in m[f].callees} = ToSet(Mentions[m[f].body])
        BY <2>3, <4>1 DEF Linked
      <4> QED
        BY <3>2, <4>1, <4>2
    <3> QED
      BY <3>3, <3>4
  <2>4. ASSUME NEW f \in DOMAIN mm, mm[f].phase = "final", NEW g \in mm[f].callees
        PROVE  mm[g].phase = "final"
    <3>1. f # n
      BY <1>2, <1>5, <2>4
    <3>2. mm[f] = m[f] /\ f \in DOMAIN m
      BY <1>4, <1>5, <3>1
    <3>3. g \in DOMAIN m /\ m[g].phase = "final"
      BY <2>4, <3>2 DEF Linked, Inside
    <3> QED
      BY <1>5, <3>3
  <2> QED
    BY <2>1, <2>2, <2>3, <2>4 DEF Linked
<1> QED
  BY <1>3, <1>4, <1>5, <1>7, <1>9 DEF CodedOK

\* A declaration at the end, alone.
LEMMA LinkedTopDeclared ==
  ASSUME NEW m, NEW p, Inside(m, p), Linked(m, p),
         NEW k \in Bodies
  PROVE  TopOK(m, p, Declared(k), Append(m, Declared(k)))
<1> SUFFICES ASSUME NEW mm, mm = Append(m, Declared(k))
             PROVE  TopOK(m, p, Declared(k), mm)
  OBVIOUS
<1>1. <<k>> \in Seq(Bodies) /\ Len(<<k>>) = 1 /\ <<k>>[1] = k
  OBVIOUS
<1> DEFINE c == <<k>>
<1>2. Declared(k) \in Functions
  BY DEF Declared, Function, Functions
<1>3. [i \in 1..Len(c) |-> Declared(c[i])] = <<Declared(k)>>
  <2>1. Len(c) = 1 /\ \A i \in 1..1 : c[i] = k
    BY <1>1
  <2>2. [i \in 1..Len(c) |-> Declared(c[i])] = [i \in 1..1 |-> Declared(k)]
    BY <2>1
  <2> QED
    BY <2>2
<1>4. mm = Extended(m, c)
  BY <1>2, <1>3, AppendIsConcat DEF Inside, Extended
<1>5. c \in Seq(Bodies) /\ Len(c) = 1 /\ c[1] = k
  BY <1>1
<1> HIDE DEF c
<1>6. /\ Inside(mm, p) /\ Linked(mm, p)
      /\ Len(mm) = Len(m) + Len(c)
      /\ \A f \in DOMAIN m : f \in DOMAIN mm /\ mm[f] = m[f]
      /\ \A i \in 1..Len(c) : mm[Len(m) + i] = Declared(c[i])
  <2>1. ExtendedOK(m, p, c, Extended(m, c))
    BY <1>5, LinkedDeclared
  <2>2. ExtendedOK(m, p, c, mm)
    BY <1>4, <2>1
  <2> QED
    BY <2>2 DEF ExtendedOK
<1>7. mm[Len(m) + 1] = Declared(k)
  BY <1>5, <1>6
<1>8. Len(mm) = Len(m) + 1
  BY <1>5, <1>6
<1>9. DOMAIN mm = 1..Len(mm)
  BY <1>6, LenProperties DEF Inside
<1>10. Len(m) + 1 \in DOMAIN mm
  <2>1. Len(m) \in Nat
    BY LenProperties DEF Inside
  <2> QED
    BY <1>8, <1>9, <2>1
<1> QED
  BY <1>6, <1>7, <1>8, <1>10 DEF TopOK

\* A function with its code at the end.
LEMMA LinkedTopDefined ==
  ASSUME NEW m, NEW p, Inside(m, p), Linked(m, p),
         NEW k \in Bodies, NEW callees, callees \subseteq DOMAIN m,
         {m[g].body : g \in callees} = ToSet(Mentions[k]),
         \A g \in callees : g \in p \/ m[g].phase = "declared",
         NEW F, F = Function(k, callees, "defined")
  PROVE  TopOK(m, p \union {Len(m) + 1}, F, Append(m, F))
<1> SUFFICES ASSUME NEW mm, mm = Append(m, F)
             PROVE  TopOK(m, p \union {Len(m) + 1}, F, mm)
  OBVIOUS
<1> DEFINE d == Append(m, Declared(k))
           n == Len(m) + 1
           e == Coded(d, n, F)
<1>1. Len(m) \in Nat /\ DOMAIN m = 1..Len(m) /\ m \in Seq(Functions)
  BY LenProperties DEF Inside
<1>2. /\ Inside(d, p) /\ Linked(d, p)
      /\ Len(d) = n
      /\ \A f \in DOMAIN m : f \in DOMAIN d /\ d[f] = m[f]
      /\ n \in DOMAIN d /\ d[n] = Declared(k)
  <2>1. TopOK(m, p, Declared(k), d)
    BY LinkedTopDeclared
  <2> QED
    BY <2>1 DEF TopOK
<1> HIDE DEF d
<1>3. d[n].phase = "declared" /\ d[n].body = k
  BY <1>2 DEF Declared, Function
<1>4. callees \subseteq DOMAIN d
  BY <1>2
<1>5. {d[g].body : g \in callees} = ToSet(Mentions[d[n].body])
  <2>1. {d[g].body : g \in callees} = {m[g].body : g \in callees}
    BY <1>2
  <2> QED
    BY <1>3, <2>1
<1>6. \A g \in callees : g \in p \/ d[g].phase = "declared"
  BY <1>2
<1>7. F = Function(d[n].body, callees, "defined")
  BY <1>3
<1>8. /\ Inside(e, p \union {n}) /\ Linked(e, p \union {n})
      /\ Len(e) = Len(d) /\ DOMAIN e = DOMAIN d
      /\ e[n] = F
      /\ \A f \in DOMAIN d : f # n => e[f] = d[f]
  <2>1. CodeOf(d, p, n, F)
    BY <1>4, <1>5, <1>6, <1>7 DEF CodeOf
  <2>2. CodedOK(d, p, n, F, e)
    BY <1>2, <1>3, <2>1, LinkedDefined
  <2> QED
    BY <2>2 DEF CodedOK
<1> HIDE DEF e
<1>9. F \in Functions
  <2>1. callees \in SUBSET Nat
    BY <1>1
  <2> QED
    BY <2>1 DEF Function, Functions
<1>10. /\ mm \in Seq(Functions) /\ Len(mm) = n /\ mm[n] = F
       /\ \A i \in 1..Len(m) : mm[i] = m[i]
  BY <1>1, <1>9, AppendProperties
<1>11. e = mm
  <2>1. e \in Seq(Functions) /\ Len(e) = n
    BY <1>2, <1>8 DEF Inside
  <2>2. ASSUME NEW i \in 1..Len(e) PROVE e[i] = mm[i]
    <3>1. i = n \/ i \in 1..Len(m)
      BY <1>1, <2>1
    <3>2. CASE i = n
      BY <1>8, <1>10, <3>2
    <3>3. CASE i \in 1..Len(m)
      <4>1. i # n /\ i \in DOMAIN d /\ d[i] = m[i]
        BY <1>1, <1>2, <3>3
      <4> QED
        BY <1>8, <1>10, <3>3, <4>1
    <3> QED
      BY <3>1, <3>2, <3>3
  <2> QED
    BY <1>10, <2>1, <2>2, SeqEqual
<1>12. \A f \in DOMAIN m : f \in DOMAIN mm /\ mm[f] = m[f]
  <2>1. \A f \in DOMAIN m : f \in DOMAIN d /\ f # n /\ d[f] = m[f]
    BY <1>1, <1>2
  <2> QED
    BY <1>8, <1>11, <2>1
<1>13. n \in DOMAIN mm
  BY <1>2, <1>8, <1>11
<1> QED
  BY <1>8, <1>10, <1>11, <1>12, <1>13 DEF TopOK

\* Finalizing the whole list, when every function called has code.
LEMMA LinkedFinal ==
  ASSUME NEW m, NEW p, Inside(m, p), Linked(m, p),
         \A f \in p : \A g \in m[f].callees : m[g].phase # "declared"
  PROVE  FinalOK(m, p, Final(m, p))
<1> SUFFICES ASSUME NEW mm, mm = Final(m, p)
             PROVE  FinalOK(m, p, mm)
  OBVIOUS
<1>1. Len(m) \in Nat /\ DOMAIN m = 1..Len(m)
  BY LenProperties DEF Inside
<1>2. \A f \in DOMAIN m : m[f] \in Functions
  BY <1>1, ElementOfSeq DEF Inside
<1>3. \A f \in DOMAIN m :
        /\ mm[f] \in Functions
        /\ mm[f].body = m[f].body /\ mm[f].callees = m[f].callees
        /\ mm[f].phase = IF f \in p THEN "final" ELSE m[f].phase
  BY <1>2 DEF Functions, Final
<1>4. DOMAIN mm = DOMAIN m
  BY DEF Final
<1>5. mm \in Seq(Functions) /\ Len(mm) = Len(m)
  <2>1. mm \in [1..Len(m) -> Functions]
    BY <1>1, <1>3 DEF Final
  <2> QED
    BY <1>1, <2>1, FunctionIsSeq
<1>6. Inside(mm, {})
  BY <1>3, <1>4, <1>5 DEF Inside
<1>7. Linked(mm, {})
  <2>1. ASSUME NEW f \in DOMAIN mm, mm[f].phase # "declared"
        PROVE  {mm[g].body : g \in mm[f].callees} = ToSet(Mentions[mm[f].body])
    <3>1. f \in DOMAIN m /\ m[f].callees \subseteq DOMAIN m
      BY <1>4 DEF Inside
    <3>2. m[f].phase # "declared"
      <4>1. f \in p => m[f].phase = "defined"
        BY DEF Linked
      <4> QED
        BY <1>3, <2>1, <3>1, <4>1
    <3>3. {m[g].body : g \in m[f].callees} = ToSet(Mentions[m[f].body])
      BY <3>1, <3>2 DEF Linked
    <3>4. {mm[g].body : g \in m[f].callees} = {m[g].body : g \in m[f].callees}
      BY <1>3, <3>1
    <3> QED
      BY <1>3, <3>1, <3>3, <3>4
  <2>2. ASSUME NEW f \in DOMAIN mm, mm[f].phase = "final", NEW g \in mm[f].callees
        PROVE  mm[g].phase = "final"
    <3>1. f \in DOMAIN m /\ g \in m[f].callees /\ g \in DOMAIN m
      BY <1>3, <1>4 DEF Inside
    <3>2. CASE f \in p
      <4>1. m[g].phase # "declared" /\ (m[g].phase = "defined" => g \in p)
        BY <3>1, <3>2 DEF Linked
      <4>2. m[g].phase \in {"declared", "defined", "final"}
        BY <1>2, <3>1 DEF Functions
      <4> QED
        BY <1>3, <3>1, <4>1, <4>2
    <3>3. CASE f \notin p
      <4>1. m[f].phase = "final"
        BY <1>3, <2>2, <3>1, <3>3
      <4>2. m[g].phase = "final"
        BY <3>1, <4>1 DEF Linked
      <4> QED
        BY <1>3, <3>1, <4>2
    <3> QED
      BY <3>2, <3>3
  <2> QED
    BY <2>1, <2>2 DEF Linked
<1>8. p \subseteq DOMAIN m
  BY DEF Inside
<1> QED
  BY <1>3, <1>4, <1>5, <1>6, <1>7, <1>8 DEF FinalOK

-----------------------------------------------------------------------------
(* One thread's compilation.                                               *)

ThreadVars(t) ==
  <<pc[t], key[t], module[t], pending[t], cells[t], base[t], done[t],
    unannounced[t], broken[t], hurt[t]>>

\* What is Inside is Placed, and the reverse.
LEMMA InsidePlaced ==
  ASSUME NEW t \in Threads, Typed
  PROVE  Placed(t) <=> /\ Inside(module[t], pending[t])
                       /\ ToSet(unannounced[t]) \subseteq DOMAIN module[t]
                       /\ done[t] <= Len(cells[t])
BY DEF Typed, Placed, Inside

\* Every thread has its place in the variables.
LEMMA Domains ==
  ASSUME Typed
  PROVE  /\ DOMAIN pc = Threads /\ DOMAIN key = Threads
         /\ DOMAIN module = Threads /\ DOMAIN pending = Threads
         /\ DOMAIN cells = Threads /\ DOMAIN base = Threads
         /\ DOMAIN done = Threads /\ DOMAIN unannounced = Threads
         /\ DOMAIN broken = Threads /\ DOMAIN hurt = Threads
BY DEF Typed

\* A thread that is where it was.
LEMMA Unmoved ==
  ASSUME NEW t \in Threads, ThreadInv(t), ThreadVars(t)' = ThreadVars(t)
  PROVE  ThreadInv(t)'
<1>1. /\ pc'[t] = pc[t] /\ key'[t] = key[t] /\ module'[t] = module[t]
      /\ pending'[t] = pending[t] /\ cells'[t] = cells[t]
      /\ base'[t] = base[t] /\ done'[t] = done[t]
      /\ unannounced'[t] = unannounced[t]
      /\ broken'[t] = broken[t] /\ hurt'[t] = hurt[t]
  BY DEF ThreadVars
<1>2. Placed(t)'
  BY <1>1 DEF ThreadInv, Placed
<1>3. Top(t)' = Top(t)
  BY <1>1 DEF Top
<1>4. Compiling(t)'
  BY <1>1, <1>3 DEF ThreadInv, Compiling
<1>5. Doomed(t)' => Doomed(t)
  BY <1>1 DEF Doomed
<1> QED
  BY <1>1, <1>2, <1>4, <1>5 DEF ThreadInv

\* The functions called in a body that Emit gets through: they are those of
\* the cells mentioned, are among the functions just declared, and are to be
\* finalized if they have code.
LEMMA Callees ==
  ASSUME NEW t \in Threads, Typed, ThreadInv(t), pc[t] = "define",
         NEW b \in Bodies, Emits(t, b)
  PROVE  /\ CalleesOf(t, b) \subseteq DOMAIN module[t]
         /\ {module[t][g].body : g \in CalleesOf(t, b)} = ToSet(Mentions[b])
         /\ \A g \in CalleesOf(t, b) :
              /\ g \in pending[t] \/ module[t][g].phase = "declared"
              /\ g > base[t]
<1>1. /\ Len(cells[t]) \in Nat /\ base[t] \in Nat
      /\ DOMAIN cells[t] = 1..Len(cells[t])
      /\ DOMAIN module[t] = 1..Len(module[t])
  BY LenProperties DEF Typed
<1>2. Window(module[t], pending[t], cells[t], base[t], done[t])
  BY DEF ThreadInv, Compiling
<1>3. ASSUME NEW c \in ToSet(cells[t])
      PROVE  /\ FunctionOf(t, c) \in DOMAIN module[t]
             /\ module[t][FunctionOf(t, c)].body = c
             /\ \/ FunctionOf(t, c) \in pending[t]
                \/ module[t][FunctionOf(t, c)].phase = "declared"
             /\ FunctionOf(t, c) > base[t]
  <2> DEFINE i == CHOOSE j \in 1..Len(cells[t]) : cells[t][j] = c
  <2>1. \E j \in 1..Len(cells[t]) : cells[t][j] = c
    BY <1>1, <1>3 DEF ToSet
  <2>2. i \in 1..Len(cells[t]) /\ cells[t][i] = c
    BY <2>1
  <2>3. FunctionOf(t, c) = base[t] + i
    BY DEF FunctionOf
  <2> HIDE DEF i
  <2>4. /\ module[t][base[t] + i].body = c
        /\ i <= done[t] => base[t] + i \in pending[t]
        /\ i > done[t] => module[t][base[t] + i].phase = "declared"
        /\ Len(module[t]) = base[t] + Len(cells[t])
    BY <1>2, <2>2 DEF Window
  <2>5. done[t] \in Nat
    BY DEF Typed
  <2>6. base[t] + i \in 1..Len(module[t]) /\ base[t] + i > base[t]
        /\ (i <= done[t] \/ i > done[t])
    BY <1>1, <2>2, <2>4, <2>5
  <2> QED
    BY <1>1, <2>3, <2>4, <2>6
<1>4. \A c \in ToSet(Mentions[b]) : c \in ToSet(cells[t])
  BY DEF Emits
<1>5. CalleesOf(t, b) = {FunctionOf(t, c) : c \in ToSet(Mentions[b])}
  BY DEF CalleesOf
<1>6. \A g \in CalleesOf(t, b) :
        \E c \in ToSet(Mentions[b]) : g = FunctionOf(t, c) /\ module[t][g].body = c
  BY <1>3, <1>4, <1>5
<1>7. \A c \in ToSet(Mentions[b]) :
        \E g \in CalleesOf(t, b) : module[t][g].body = c
  BY <1>3, <1>4, <1>5
<1>8. {module[t][g].body : g \in CalleesOf(t, b)} = ToSet(Mentions[b])
  BY <1>6, <1>7
<1>9. \A g \in CalleesOf(t, b) :
        /\ g \in DOMAIN module[t]
        /\ g \in pending[t] \/ module[t][g].phase = "declared"
        /\ g > base[t]
  BY <1>3, <1>4, <1>6
<1> QED
  BY <1>8, <1>9

\* Steps that leave the functions alone.
Rests(t) ==
  \/ \E k \in Keys : Call(t, k)
  \/ RunParser(t) \/ ExtBegin(t) \/ ThreadEnds(t) \/ Compiled(t)
  \/ DumpOpens(t) \/ NoDump(t) \/ DumpLock(t) \/ DumpWrite(t)

LEMMA RestsInv ==
  ASSUME NEW t \in Threads, Typed, Typed', ThreadInv(t), Rests(t),
         pc[t] = "write" => unannounced[t] # <<>>
  PROVE  ThreadInv(t)'
<1>1. /\ module'[t] = module[t] /\ broken'[t] = broken[t] /\ hurt'[t] = hurt[t]
      /\ pc[t] # "define" /\ pc'[t] # "define"
      /\ pc[t] # "finalize" /\ pc'[t] # "finalize"
      /\ pending'[t] = pending[t] \/ pending'[t] = {}
  BY DEF Rests, Call, RunParser, ExtBegin, ThreadEnds, Compiled, DumpOpens,
         NoDump, DumpLock, DumpWrite, Goto, Typed, history, moduleVars
<1>2. /\ done'[t] <= Len(cells'[t])
      /\ pc'[t] \in {"announce", "write"} =>
           /\ pc[t] \in {"announce", "write"}
           /\ cells'[t] = cells[t] /\ base'[t] = base[t] /\ key'[t] = key[t]
  <2>1. CASE Compiled(t)
    <3>1. cells'[t] = <<>> /\ done'[t] = 0 /\ pc'[t] = "getParser"
      BY <2>1 DEF Compiled, Goto, Typed
    <3>2. Len(cells'[t]) = 0
      BY <3>1
    <3> QED
      BY <3>1, <3>2
  <2>2. CASE ~Compiled(t)
    <3>1. cells'[t] = cells[t] /\ done'[t] = done[t] /\ base'[t] = base[t]
      BY <2>2 DEF Rests, Call, RunParser, ExtBegin, ThreadEnds, DumpOpens,
            NoDump, DumpLock, DumpWrite, moduleVars
    <3>2. pc'[t] \in {"announce", "write"} =>
            pc[t] \in {"announce", "write"} /\ key'[t] = key[t]
      BY <2>2 DEF Rests, Call, RunParser, ExtBegin, ThreadEnds, DumpOpens,
            NoDump, DumpLock, DumpWrite, Goto, Typed
    <3> QED
      BY <3>1, <3>2 DEF ThreadInv, Placed
  <2> QED
    BY <2>1, <2>2
<1>3. ToSet(unannounced'[t]) \subseteq ToSet(unannounced[t])
  <2>1. CASE unannounced'[t] = unannounced[t]
    BY <2>1
  <2>2. CASE unannounced[t] # <<>> /\ unannounced'[t] = Tail(unannounced[t])
    <3>1. unannounced[t] \in Seq(Nat)
      BY DEF Typed
    <3>2. /\ Tail(unannounced[t]) \in Seq(Nat)
          /\ Len(Tail(unannounced[t])) = Len(unannounced[t]) - 1
          /\ \A i \in 1..Len(Tail(unannounced[t])) :
               Tail(unannounced[t])[i] = unannounced[t][i + 1]
      BY <2>2, <3>1, HeadTailProperties
    <3>3. /\ Len(unannounced[t]) \in Nat
          /\ DOMAIN unannounced[t] = 1..Len(unannounced[t])
          /\ DOMAIN Tail(unannounced[t]) = 1..Len(Tail(unannounced[t]))
      BY <3>1, <3>2, LenProperties
    <3>4. ASSUME NEW i \in DOMAIN Tail(unannounced[t])
          PROVE  Tail(unannounced[t])[i] \in ToSet(unannounced[t])
      <4>1. i + 1 \in DOMAIN unannounced[t]
        BY <3>2, <3>3
      <4>2. Tail(unannounced[t])[i] = unannounced[t][i + 1]
        BY <3>2, <3>3
      <4> QED
        BY <4>1, <4>2 DEF ToSet
    <3> QED
      BY <2>2, <3>4 DEF ToSet
  <2>3. \/ unannounced'[t] = unannounced[t]
        \/ unannounced[t] # <<>> /\ unannounced'[t] = Tail(unannounced[t])
    <3> USE DEF Typed
    <3>1. CASE NoDump(t)
      BY <3>1 DEF NoDump
    <3>2. CASE DumpWrite(t)
      BY <3>2 DEF DumpWrite, Goto
    <3>3. CASE ~NoDump(t) /\ ~DumpWrite(t)
      BY <3>3 DEF Rests, Call, RunParser, ExtBegin, ThreadEnds, Compiled,
                  DumpOpens, DumpLock
    <3> QED
      BY <3>1, <3>2, <3>3
  <2> QED
    BY <2>1, <2>2, <2>3
<1>4. Placed(t)'
  BY <1>1, <1>2, <1>3 DEF ThreadInv, Placed
<1>5. Linked(module[t], {})
  BY DEF ThreadInv, Linked
<1>6. Linked(module'[t], pending'[t])
  BY <1>1, <1>5 DEF ThreadInv
<1>7. Compiling(t)'
  BY <1>1, <1>2 DEF ThreadInv, Compiling, Top
<1>8. Doomed(t)' => Doomed(t)
  BY <1>1 DEF Doomed
<1> QED
  BY <1>1, <1>4, <1>6, <1>7, <1>8 DEF ThreadInv

\* A type reaches what it mentions, and what the bodies of its cells mention.
LEMMA ReachedClosed ==
  ASSUME NEW k \in Keys
  PROVE  \A b \in {k} \union Reached(k) : ToSet(Mentions[b]) \subseteq Reached(k)
<1> SUFFICES ASSUME NEW b \in {k} \union Reached(k),
                    NEW c \in ToSet(Mentions[b])
             PROVE  c \in Reached(k)
  OBVIOUS
<1>1. c \in Cells
  <2>1. b \in Bodies
    BY DEF Reached, Bodies
  <2>2. Mentions[b] \in Seq(Cells)
    BY <2>1, JitAssumption
  <2> QED
    BY <2>2, ElementOfSeq, LenProperties DEF ToSet
<1>2. ASSUME NEW S \in SUBSET Cells,
             \A d \in {k} \union S : ToSet(Mentions[d]) \subseteq S
      PROVE  c \in S
  <2>1. b \in {k} \union S
    BY <1>2 DEF Reached
  <2> QED
    BY <1>2, <2>1
<1> QED
  BY <1>1, <1>2 DEF Reached

\* The code of a type that can be compiled is emitted to its end.
LEMMA SoundEmits ==
  ASSUME NEW t \in Threads, Typed, ThreadInv(t), pc[t] = "define", Sound(key[t])
  PROVE  Emits(t, key[t]) /\ \A c \in ToSet(cells[t]) : Emits(t, c)
<1>1. key[t] \in Keys
  BY DEF Typed
<1>2. cells[t] = CellsOf(key[t])
  BY DEF ThreadInv, Compiling
<1>3. ToSet(cells[t]) = Reached(key[t])
  BY <1>1, <1>2, CellsAssumption
<1>4. \A b \in {key[t]} \union Reached(key[t]) : b \notin Unknown
  BY DEF Sound
<1>5. \A b \in {key[t]} \union Reached(key[t]) :
        ToSet(Mentions[b]) \subseteq Reached(key[t])
  BY <1>1, ReachedClosed
<1> QED
  BY <1>3, <1>4, <1>5 DEF Emits

LEMMA DeclareInv ==
  ASSUME NEW t \in Threads, Typed, Typed', ThreadInv(t), Declare(t)
  PROVE  ThreadInv(t)' /\ (Doomed(t)' <=> Doomed(t))
<1> DEFINE m == module[t]
           c == CellsOf(key[t])
<1>1. /\ module'[t] = Extended(m, c)
      /\ cells'[t] = c /\ base'[t] = Len(m) /\ pc'[t] = "define" /\ pc[t] = "collect"
      /\ key'[t] = key[t]
      /\ pending'[t] = pending[t] /\ done'[t] = 0
      /\ unannounced'[t] = unannounced[t]
      /\ broken'[t] = broken[t] /\ hurt'[t] = hurt[t]
  BY Domains DEF Declare, Goto, Extended, history
<1>2. key[t] \in Keys
  BY DEF Typed
<1>3. c \in Seq(Cells) /\ c \in Seq(Bodies)
  <2>1. c \in Seq(Cells)
    BY <1>2, CellsAssumption
  <2>2. Cells \subseteq Bodies
    BY DEF Bodies
  <2> QED
    BY <2>1, <2>2
<1>4. Inside(m, pending[t]) /\ Linked(m, pending[t])
  BY InsidePlaced DEF ThreadInv
<1>5. ExtendedOK(m, pending[t], c, module'[t])
  BY <1>1, <1>3, <1>4, LinkedDeclared
<1>6. Len(m) \in Nat /\ DOMAIN m = 1..Len(m) /\ Len(c) \in Nat
  BY <1>3, <1>4, LenProperties DEF Inside
<1> HIDE DEF m, c
<1>7. Placed(t)'
  <2>1. Inside(module'[t], pending'[t])
    BY <1>1, <1>5 DEF ExtendedOK
  <2>2. ToSet(unannounced'[t]) \subseteq DOMAIN module'[t]
    BY <1>1, <1>5 DEF ExtendedOK, ThreadInv, Placed, m
  <2> QED
    BY <1>1, <1>6, <2>1, <2>2 DEF Placed, Inside
<1>8. Compiling(t)'
  <2>1. Window(module'[t], pending'[t], cells'[t], base'[t], done'[t])
    <3>1. Len(module'[t]) = Len(m) + Len(c)
      BY <1>5 DEF ExtendedOK
    <3>2. ASSUME NEW i \in 1..Len(c)
          PROVE  /\ module'[t][Len(m) + i].body = c[i]
                 /\ ~(i <= 0)
                 /\ module'[t][Len(m) + i].phase = "declared"
      <4>1. module'[t][Len(m) + i] = Declared(c[i])
        BY <1>5, <3>2 DEF ExtendedOK
      <4>2. i \in Nat /\ ~(i <= 0)
        BY <1>6, <3>2
      <4> QED
        BY <4>1, <4>2 DEF Declared, Function
    <3> QED
      BY <1>1, <3>1, <3>2 DEF Window
  <2>2. cells'[t] = CellsOf(key'[t])
    BY <1>1 DEF c
  <2> QED
    BY <1>1, <2>1, <2>2 DEF Compiling
<1>9. Doomed(t)' => Doomed(t)
  <2> SUFFICES ASSUME NEW f \in pending[t], NEW g \in module'[t][f].callees,
                      module'[t][g].phase = "declared"
               PROVE  m[g].phase = "declared" /\ g \in m[f].callees
    BY <1>1 DEF Doomed, m
  <2>1. f \in DOMAIN m /\ module'[t][f] = m[f]
    BY <1>4, <1>5 DEF Inside, ExtendedOK
  <2>2. g \in DOMAIN m /\ module'[t][g] = m[g]
    BY <1>4, <1>5, <2>1 DEF Inside, ExtendedOK
  <2> QED
    BY <2>1, <2>2
<1>10. Doomed(t) => Doomed(t)'
  <2> SUFFICES ASSUME NEW f \in pending[t], NEW g \in m[f].callees,
                      m[g].phase = "declared"
               PROVE  /\ g \in module'[t][f].callees
                      /\ module'[t][g].phase = "declared"
                      /\ g <= Len(m)
    BY <1>1 DEF Doomed, m
  <2>1. f \in DOMAIN m /\ g \in DOMAIN m
    BY <1>4 DEF Inside
  <2>2. module'[t][f] = m[f] /\ module'[t][g] = m[g]
    BY <1>5, <2>1 DEF ExtendedOK
  <2> QED
    BY <1>6, <2>1, <2>2
<1>11. ThreadInv(t)'
  BY <1>1, <1>5, <1>7, <1>8, <1>9 DEF ThreadInv, ExtendedOK
<1> QED
  BY <1>9, <1>10, <1>11

LEMMA DefineNodeInv ==
  ASSUME NEW t \in Threads, Typed, Typed', ThreadInv(t), DefineNode(t)
  PROVE  ThreadInv(t)' /\ (Doomed(t)' <=> Doomed(t))
<1> DEFINE m == module[t]
           b == Cell(t)
           n == base[t] + done[t] + 1
           F == Function(b, CalleesOf(t, b), "defined")
<1>1. /\ module'[t] = Coded(m, n, F)
      /\ pending'[t] = pending[t] \union {n} /\ done'[t] = done[t] + 1
      /\ pc[t] = "define" /\ pc'[t] = "define" /\ key'[t] = key[t]
      /\ cells'[t] = cells[t] /\ base'[t] = base[t]
      /\ unannounced'[t] = unannounced[t]
      /\ broken'[t] = broken[t] /\ hurt'[t] = hurt[t]
      /\ done[t] < Len(cells[t]) /\ Emits(t, b)
  BY Domains DEF DefineNode, Coded, history
<1>2. /\ done[t] \in Nat /\ base[t] \in Nat /\ Len(cells[t]) \in Nat
      /\ cells[t] \in Seq(Cells) /\ m \in Seq(Functions)
  BY LenProperties DEF Typed
<1>3. DOMAIN m = 1..Len(m)
  BY <1>2, LenProperties
<1>4. Window(m, pending[t], cells[t], base[t], done[t]) /\ cells[t] = CellsOf(key[t])
  BY <1>1 DEF ThreadInv, Compiling
<1>5. /\ done[t] + 1 \in 1..Len(cells[t]) /\ done[t] + 1 > done[t]
      /\ n = base[t] + (done[t] + 1)
  BY <1>1, <1>2
<1>6. b = cells[t][done[t] + 1] /\ b \in Cells /\ b \in Bodies
  BY <1>2, <1>5, ElementOfSeq DEF Cell, Bodies
<1>7. m[n].body = b /\ m[n].phase = "declared" /\ Len(m) = base[t] + Len(cells[t])
  BY <1>4, <1>5, <1>6 DEF Window
<1>8. n \in DOMAIN m
  BY <1>2, <1>3, <1>5, <1>7
<1>9. Inside(m, pending[t]) /\ Linked(m, pending[t])
  BY InsidePlaced DEF ThreadInv
<1>10. /\ CalleesOf(t, b) \subseteq DOMAIN m
       /\ {m[g].body : g \in CalleesOf(t, b)} = ToSet(Mentions[b])
       /\ \A g \in CalleesOf(t, b) :
            /\ g \in pending[t] \/ m[g].phase = "declared"
            /\ g > base[t]
  BY <1>1, <1>6, Callees
<1> HIDE DEF m, b, n
<1>11. CodeOf(m, pending[t], n, F)
  BY <1>7, <1>10 DEF CodeOf
<1>12. F.callees = CalleesOf(t, b) /\ F.body = b /\ F.phase = "defined"
  BY DEF Function
<1> HIDE DEF F
<1>13. CodedOK(m, pending[t], n, F, module'[t])
  BY <1>1, <1>7, <1>8, <1>9, <1>11, LinkedDefined
<1>14. Placed(t)'
  <2>1. Inside(module'[t], pending'[t])
    BY <1>1, <1>13 DEF CodedOK
  <2>2. ToSet(unannounced'[t]) \subseteq DOMAIN module'[t]
    BY <1>1, <1>13 DEF CodedOK, ThreadInv, Placed, m
  <2>3. done'[t] <= Len(cells'[t])
    BY <1>1, <1>2
  <2> QED
    BY <2>1, <2>2, <2>3 DEF Placed, Inside
<1>15. Compiling(t)'
  <2>1. Len(module'[t]) = base[t] + Len(cells[t])
    BY <1>7, <1>13 DEF CodedOK
  <2>2. ASSUME NEW i \in 1..Len(cells[t])
        PROVE  /\ module'[t][base[t] + i].body = cells[t][i]
               /\ i <= done[t] + 1 => base[t] + i \in pending'[t]
               /\ i > done[t] + 1 => module'[t][base[t] + i].phase = "declared"
    <3>1. base[t] + i \in DOMAIN m
      BY <1>2, <1>3, <1>7
    <3>2. /\ m[base[t] + i].body = cells[t][i]
          /\ i <= done[t] => base[t] + i \in pending[t]
          /\ i > done[t] => m[base[t] + i].phase = "declared"
      BY <1>4 DEF Window, m
    <3>3. CASE i = done[t] + 1
      <4>1. base[t] + i = n /\ ~(i > done[t] + 1)
        BY <1>2, <1>5, <3>3
      <4>2. module'[t][n] = F
        BY <1>13 DEF CodedOK
      <4> QED
        BY <1>1, <1>6, <1>12, <3>3, <4>1, <4>2
    <3>4. CASE i # done[t] + 1
      <4>1. base[t] + i # n /\ (i <= done[t] + 1 => i <= done[t])
            /\ (i > done[t] + 1 => i > done[t])
        BY <1>2, <1>5, <3>4
      <4>2. module'[t][base[t] + i] = m[base[t] + i]
        BY <1>13, <3>1, <4>1 DEF CodedOK
      <4> QED
        BY <1>1, <3>2, <4>1, <4>2
    <3> QED
      BY <3>3, <3>4
  <2>3. Window(module'[t], pending'[t], cells'[t], base'[t], done'[t])
    BY <1>1, <2>1, <2>2 DEF Window
  <2> QED
    BY <1>1, <1>4, <2>3 DEF Compiling
<1>16. Doomed(t)' => Doomed(t)
  <2> SUFFICES ASSUME NEW f \in pending'[t], NEW g \in module'[t][f].callees,
                      module'[t][g].phase = "declared", g <= base[t]
               PROVE  f \in pending[t] /\ g \in m[f].callees /\ m[g].phase = "declared"
    BY <1>1 DEF Doomed, m
  <2>1. f # n
    <3>1. ASSUME f = n PROVE FALSE
      <4>1. g \in CalleesOf(t, b)
        BY <1>12, <1>13, <3>1 DEF CodedOK
      <4>2. g > base[t] /\ g \in Nat
        BY <1>3, <1>10, <4>1
      <4> QED
        BY <1>2, <4>2
    <3> QED
      BY <3>1
  <2>2. f \in pending[t] /\ f \in DOMAIN m /\ module'[t][f] = m[f]
    BY <1>1, <1>9, <1>13, <2>1 DEF CodedOK, Inside
  <2>3. g \in DOMAIN m
    BY <1>9, <2>2 DEF Inside
  <2>4. m[g].phase = "declared"
    BY <1>7, <1>13, <2>3 DEF CodedOK
  <2> QED
    BY <2>2, <2>4
<1>17. Doomed(t) => Doomed(t)'
  <2> SUFFICES ASSUME NEW f \in pending[t], NEW g \in m[f].callees,
                      m[g].phase = "declared", g <= base[t]
               PROVE  /\ f \in pending'[t] /\ g \in module'[t][f].callees
                      /\ module'[t][g].phase = "declared"
    BY <1>1 DEF Doomed, m
  <2>1. f \in DOMAIN m /\ g \in DOMAIN m
    BY <1>9 DEF Inside
  <2>2. f # n
    BY <1>7, <1>9 DEF Linked
  <2>3. g # n
    BY <1>2, <1>3, <1>5, <2>1
  <2>4. module'[t][f] = m[f] /\ module'[t][g] = m[g]
    BY <1>13, <2>1, <2>2, <2>3 DEF CodedOK
  <2> QED
    BY <1>1, <2>4
<1>18. ThreadInv(t)'
  BY <1>1, <1>13, <1>14, <1>15, <1>16 DEF ThreadInv, CodedOK
<1> QED
  BY <1>16, <1>17, <1>18

LEMMA DefineTopInv ==
  ASSUME NEW t \in Threads, Typed, Typed', ThreadInv(t), DefineTop(t)
  PROVE  ThreadInv(t)' /\ (Doomed(t)' <=> Doomed(t))
<1> DEFINE m == module[t]
           k == key[t]
           n == Len(m) + 1
           F == Function(k, CalleesOf(t, k), "defined")
<1>1. /\ module'[t] = Append(m, F)
      /\ pending'[t] = pending[t] \union {Top(t)} /\ done'[t] = done[t]
      /\ pc[t] = "define" /\ pc'[t] = "finalize" /\ key'[t] = key[t]
      /\ cells'[t] = cells[t] /\ base'[t] = base[t]
      /\ unannounced'[t] = unannounced[t]
      /\ broken'[t] = broken[t] /\ hurt'[t] = hurt[t]
      /\ done[t] = Len(cells[t]) /\ Emits(t, k)
  BY Domains DEF DefineTop, Goto, history
<1>2. /\ base[t] \in Nat /\ Len(cells[t]) \in Nat
      /\ m \in Seq(Functions) /\ Len(m) \in Nat /\ DOMAIN m = 1..Len(m)
  BY LenProperties DEF Typed
<1>3. Window(m, pending[t], cells[t], base[t], done[t])
  BY <1>1 DEF ThreadInv, Compiling
<1>4. n = Top(t) /\ Top(t)' = Top(t)
  BY <1>1, <1>3 DEF Window, Top
<1>5. k \in Bodies
  BY DEF Typed, Bodies
<1>6. Inside(m, pending[t]) /\ Linked(m, pending[t])
  BY InsidePlaced DEF ThreadInv
<1>7. /\ CalleesOf(t, k) \subseteq DOMAIN m
      /\ {m[g].body : g \in CalleesOf(t, k)} = ToSet(Mentions[k])
      /\ \A g \in CalleesOf(t, k) :
           /\ g \in pending[t] \/ m[g].phase = "declared"
           /\ g > base[t]
  BY <1>1, <1>5, Callees
<1> HIDE DEF m, k
<1>8. F.callees = CalleesOf(t, k) /\ F.body = k /\ F.phase = "defined"
  BY DEF Function
<1>9. TopOK(m, pending[t] \union {n}, F, Append(m, F))
  BY <1>5, <1>6, <1>7, LinkedTopDefined
<1> HIDE DEF F
<1>10. TopOK(m, pending[t] \union {n}, F, module'[t])
  BY <1>1, <1>9
<1>11. pending'[t] = pending[t] \union {n}
  BY <1>1, <1>4
<1>12. Placed(t)'
  <2>1. Inside(module'[t], pending'[t])
    BY <1>10, <1>11 DEF TopOK
  <2>2. ToSet(unannounced'[t]) \subseteq DOMAIN module'[t]
    BY <1>1, <1>10 DEF TopOK, ThreadInv, Placed, m
  <2> QED
    BY <1>1, <1>2, <2>1, <2>2 DEF Placed, Inside
<1>13. Compiling(t)'
  <2>1. Len(module'[t]) = n /\ module'[t][n] = F
    BY <1>10 DEF TopOK
  <2>2. Top(t)' \in pending'[t] /\ Len(module'[t]) = Top(t)'
        /\ module'[t][Top(t)'].body = key'[t]
    BY <1>1, <1>4, <1>8, <1>11, <2>1 DEF k
  <2> QED
    BY <1>1, <2>2 DEF Compiling
<1>14. Doomed(t)' => Doomed(t)
  <2> SUFFICES ASSUME NEW f \in pending'[t], NEW g \in module'[t][f].callees,
                      module'[t][g].phase = "declared"
               PROVE  /\ f \in pending[t] /\ g \in m[f].callees
                      /\ m[g].phase = "declared" /\ g <= base[t]
    BY <1>1 DEF Doomed, m
  <2>1. f \in pending[t] \/ f = n
    BY <1>11
  <2>2. CASE f \in pending[t]
    <3>1. f \in DOMAIN m /\ module'[t][f] = m[f]
      BY <1>6, <1>10, <2>2 DEF TopOK, Inside
    <3>2. g \in m[f].callees /\ g \in DOMAIN m /\ module'[t][g] = m[g]
      BY <1>6, <1>10, <3>1 DEF TopOK, Inside
    <3>3. m[g].phase = "declared"
      BY <3>2
    <3>4. g <= base[t]
      <4>1. ASSUME ~(g <= base[t]) PROVE FALSE
        <5>1. /\ g - base[t] \in 1..Len(cells[t]) /\ g = base[t] + (g - base[t])
              /\ g - base[t] <= done[t]
          BY <1>1, <1>2, <1>3, <3>2, <4>1 DEF Window
        <5>2. g \in pending[t]
          BY <1>3, <5>1 DEF Window
        <5>3. m[g].phase = "defined"
          BY <1>6, <5>2 DEF Linked
        <5> QED
          BY <3>3, <5>3
      <4> QED
        BY <4>1
    <3> QED
      BY <2>2, <3>2, <3>3, <3>4
  <2>3. CASE f = n
    <3>1. g \in CalleesOf(t, k)
      BY <1>8, <1>10, <2>3 DEF TopOK
    <3>2. g \in DOMAIN m /\ module'[t][g] = m[g] /\ g > base[t]
      BY <1>7, <1>10, <3>1 DEF TopOK
    <3>3. /\ g - base[t] \in 1..Len(cells[t]) /\ g = base[t] + (g - base[t])
          /\ g - base[t] <= done[t]
      BY <1>1, <1>2, <1>3, <3>2 DEF Window
    <3>4. g \in pending[t]
      BY <1>3, <3>3 DEF Window
    <3>5. m[g].phase = "defined"
      BY <1>6, <3>4 DEF Linked
    <3> QED
      BY <3>2, <3>5
  <2> QED
    BY <2>1, <2>2, <2>3
<1>15. Doomed(t) => Doomed(t)'
  <2> SUFFICES ASSUME NEW f \in pending[t], NEW g \in m[f].callees,
                      m[g].phase = "declared"
               PROVE  /\ f \in pending'[t] /\ g \in module'[t][f].callees
                      /\ module'[t][g].phase = "declared"
    BY <1>1 DEF Doomed, m
  <2>1. f \in DOMAIN m /\ g \in DOMAIN m
    BY <1>6 DEF Inside
  <2>2. module'[t][f] = m[f] /\ module'[t][g] = m[g]
    BY <1>10, <2>1 DEF TopOK
  <2> QED
    BY <1>11, <2>2
<1>16. ThreadInv(t)'
  BY <1>1, <1>10, <1>11, <1>12, <1>13, <1>14 DEF ThreadInv, TopOK
<1> QED
  BY <1>14, <1>15, <1>16

LEMMA FinalizeInv ==
  ASSUME NEW t \in Threads, Typed, Typed', ThreadInv(t), Finalize(t)
  PROVE  ThreadInv(t)'
<1> DEFINE m == module[t]
           p == pending[t]
           us == <<Top(t)>> \o [i \in 1..Len(cells[t]) |-> base[t] + i]
<1>1. /\ module'[t] = Final(m, p) /\ pending'[t] = {}
      /\ pc[t] = "finalize" /\ pc'[t] = "announce" /\ key'[t] = key[t]
      /\ cells'[t] = cells[t] /\ base'[t] = base[t] /\ done'[t] = done[t]
      /\ unannounced'[t] = us
      /\ broken'[t] = broken[t] /\ hurt'[t] = hurt[t]
      /\ Resolvable(t)
  BY Domains DEF Finalize, Finalized, Final, Goto, history
<1>2. Inside(m, p) /\ Linked(m, p)
  BY InsidePlaced DEF ThreadInv
<1>3. FinalOK(m, p, module'[t])
  <2>1. \A f \in p : \A g \in m[f].callees : m[g].phase # "declared"
    BY <1>1 DEF Resolvable
  <2> QED
    BY <1>1, <1>2, <2>1, LinkedFinal
<1>4. /\ Top(t) \in p /\ Len(m) = Top(t) /\ m[Top(t)].body = key[t]
  BY <1>1 DEF ThreadInv, Compiling
<1>5. Top(t) \in DOMAIN m /\ DOMAIN m = 1..Len(m) /\ Len(m) \in Nat
  BY <1>2, <1>4, LenProperties DEF Inside
<1>6. Top(t)' = Top(t) /\ Top(t) = base[t] + Len(cells[t]) + 1
  BY <1>1 DEF Top
<1>7. ToSet(us) \subseteq DOMAIN m
  <2> DEFINE e == [i \in 1..Len(cells[t]) |-> base[t] + i]
  <2>1. base[t] \in Nat /\ Len(cells[t]) \in Nat
    BY LenProperties DEF Typed
  <2>2. e \in [1..Len(cells[t]) -> DOMAIN m]
    BY <1>4, <1>5, <1>6, <2>1
  <2> HIDE DEF e
  <2>3. e \in Seq(DOMAIN m) /\ Len(e) = Len(cells[t])
    BY <2>1, <2>2, FunctionIsSeq
  <2>4. <<Top(t)>> \in Seq(DOMAIN m)
    BY <1>5
  <2>5. <<Top(t)>> \o e \in Seq(DOMAIN m)
    BY <2>3, <2>4, ConcatProperties
  <2>6. us \in Seq(DOMAIN m)
    BY <2>5 DEF e
  <2> HIDE DEF us
  <2>7. DOMAIN us = 1..Len(us)
    BY <2>6, LenProperties
  <2>8. \A i \in DOMAIN us : us[i] \in DOMAIN m
    BY <2>6, <2>7, ElementOfSeq
  <2> QED
    BY <2>8 DEF ToSet
<1> HIDE DEF m, p, us
<1>8. Placed(t)'
  <2>1. Inside(module'[t], pending'[t])
    BY <1>1, <1>3 DEF FinalOK
  <2>2. ToSet(unannounced'[t]) \subseteq DOMAIN module'[t]
    BY <1>1, <1>3, <1>7 DEF FinalOK
  <2>3. done'[t] <= Len(cells'[t])
    BY <1>1 DEF ThreadInv, Placed
  <2> QED
    BY <2>1, <2>2, <2>3 DEF Placed, Inside
<1>9. Compiling(t)'
  <2>1. /\ module'[t][Top(t)'].phase = "final"
        /\ Len(module'[t]) = Top(t)'
        /\ module'[t][Top(t)'].body = key'[t]
    BY <1>1, <1>3, <1>4, <1>5, <1>6 DEF FinalOK
  <2> QED
    BY <1>1, <2>1 DEF Compiling
<1>10. ~Doomed(t)'
  BY <1>1 DEF Doomed
<1> QED
  BY <1>1, <1>3, <1>8, <1>9, <1>10 DEF ThreadInv, FinalOK

\* The compilation of a sound type panics at its end, or not at all.
LEMMA SoundPanics ==
  ASSUME NEW t \in Threads, Typed, ThreadInv(t), Sound(key[t]),
         DefineNodePanics(t) \/ DefineTopPanics(t) \/ FinalizePanics(t)
  PROVE  FinalizePanics(t)
<1>1. ~DefineTopPanics(t)
  BY SoundEmits DEF DefineTopPanics
<1>2. ASSUME DefineNodePanics(t) PROVE FALSE
  <2>1. pc[t] = "define" /\ done[t] < Len(cells[t]) /\ ~Emits(t, Cell(t))
    BY <1>2 DEF DefineNodePanics
  <2>2. done[t] \in Nat /\ Len(cells[t]) \in Nat /\ DOMAIN cells[t] = 1..Len(cells[t])
    BY LenProperties DEF Typed
  <2>3. done[t] + 1 \in DOMAIN cells[t]
    BY <2>1, <2>2
  <2>4. Cell(t) \in ToSet(cells[t])
    BY <2>3 DEF Cell, ToSet
  <2> QED
    BY <2>1, <2>4, SoundEmits
<1> QED
  BY <1>1, <1>2

\* A compilation that panics: what it has defined waits in the module, and may
\* doom the next one; but then its own type was to blame.
LEMMA PanicInv ==
  ASSUME NEW t \in Threads, Typed, Typed', ThreadInv(t),
         DefineNodePanics(t) \/ DefineTopPanics(t) \/ FinalizePanics(t)
  PROVE  ThreadInv(t)'
<1>1. /\ pc'[t] = "idle" /\ cells'[t] = <<>> /\ done'[t] = 0
      /\ unannounced'[t] = unannounced[t]
      /\ Blame(t)
  <2>1. Panics(t) /\ Blame(t)
    BY DEF DefineNodePanics, DefineTopPanics, FinalizePanics
  <2> QED
    BY <2>1, Domains DEF Panics
<1>2. Inside(module[t], pending[t]) /\ Linked(module[t], pending[t])
  BY InsidePlaced DEF ThreadInv
<1>3. Len(cells'[t]) = 0
  BY <1>1
<1>4. Compiling(t)'
  BY <1>1 DEF Compiling
<1>5. \/ module'[t] = module[t] /\ pending'[t] = pending[t]
      \/ module'[t] = Append(module[t], Declared(key[t])) /\ pending'[t] = pending[t]
      \/ module'[t] = module[t] /\ pending'[t] = {}
  <2>1. CASE DefineNodePanics(t)
    BY <2>1 DEF DefineNodePanics
  <2>2. CASE DefineTopPanics(t)
    BY <2>2, Domains DEF DefineTopPanics
  <2>3. CASE FinalizePanics(t)
    BY <2>3, Domains DEF FinalizePanics
  <2> QED
    BY <2>1, <2>2, <2>3
<1>6. /\ Inside(module'[t], pending'[t]) /\ Linked(module'[t], pending'[t])
      /\ DOMAIN module[t] \subseteq DOMAIN module'[t]
  <2>1. CASE module'[t] = module[t] /\ pending'[t] = pending[t]
    BY <1>2, <2>1
  <2>2. CASE module'[t] = module[t] /\ pending'[t] = {}
    BY <1>2, <2>2 DEF Inside, Linked
  <2>3. CASE module'[t] = Append(module[t], Declared(key[t])) /\ pending'[t] = pending[t]
    <3>1. key[t] \in Bodies
      BY DEF Typed, Bodies
    <3>2. TopOK(module[t], pending[t], Declared(key[t]),
                Append(module[t], Declared(key[t])))
      BY <1>2, <3>1, LinkedTopDeclared
    <3>3. TopOK(module[t], pending[t], Declared(key[t]), module'[t])
      BY <2>3, <3>2
    <3> QED
      BY <2>3, <3>3 DEF TopOK
  <2> QED
    BY <1>5, <2>1, <2>2, <2>3
<1>7. Placed(t)'
  <2>1. ToSet(unannounced'[t]) \subseteq DOMAIN module'[t]
    BY <1>1, <1>6 DEF ThreadInv, Placed
  <2> QED
    BY <1>1, <1>3, <1>6, <2>1 DEF Placed, Inside
<1>8. /\ hurt[t] \in Nat /\ broken[t] \in Nat
      /\ hurt[t] <= broken[t]
      /\ Doomed(t) => hurt[t] < broken[t]
  BY DEF Typed, ThreadInv
<1>9. CASE ~Sound(key[t])
  <2>1. hurt'[t] = hurt[t] /\ broken'[t] = broken[t] + 1
    BY <1>1, <1>9 DEF Blame, Typed
  <2>2. hurt'[t] <= broken'[t] /\ hurt'[t] < broken'[t]
    BY <1>8, <2>1
  <2> QED
    BY <1>4, <1>6, <1>7, <2>2 DEF ThreadInv
<1>10. CASE Sound(key[t])
  <2>1. FinalizePanics(t)
    BY <1>10, SoundPanics
  <2>2. Doomed(t)
    BY <2>1 DEF FinalizePanics, Resolvable, Doomed
  <2>3. hurt'[t] = hurt[t] + 1 /\ broken'[t] = broken[t]
    BY <1>1, <1>10 DEF Blame, Typed
  <2>4. hurt'[t] <= broken'[t]
    BY <1>8, <2>2, <2>3
  <2>5. pending'[t] = {}
    BY <2>1 DEF FinalizePanics, Typed
  <2>6. ~Doomed(t)'
    BY <2>5 DEF Doomed
  <2> QED
    BY <1>4, <1>6, <1>7, <2>4, <2>6 DEF ThreadInv
<1> QED
  BY <1>9, <1>10

-----------------------------------------------------------------------------
(* Types.                                                                  *)

LEMMA InitTyped == Init => Typed
<1> SUFFICES ASSUME Init PROVE Typed
  OBVIOUS
<1>1. (CHOOSE k \in Keys : TRUE) \in Keys
  BY JitAssumption
<1>2. NoParser \in Names /\ NoRecord \in Records
  BY DEF NoParser, NoRecord, Names, Records
<1>3. <<>> \in Seq(Functions) /\ <<>> \in Seq(Cells) /\ <<>> \in Seq(Nat)
      /\ <<>> \in Seq([whole : BOOLEAN, rec : Records])
  BY EmptySeq
<1>4. MaxCalls \in Nat /\ MaxClock \in Nat /\ MaxFaults \in Nat
  BY JitAssumption
<1>5. /\ key \in [Threads -> Keys]
      /\ module \in [Threads -> Seq(Functions)]
      /\ cells \in [Threads -> Seq(Cells)]
      /\ unannounced \in [Threads -> Seq(Nat)]
      /\ parser \in [Keys -> Names]
      /\ record \in [Threads -> Records]
      /\ file \in Seq([whole : BOOLEAN, rec : Records])
  BY <1>1, <1>2, <1>3 DEF Init
<1>6. /\ pc \in [Threads -> {"idle", "getParser", "collect", "define",
                            "finalize", "announce", "write"}]
      /\ calls \in 0..MaxCalls
      /\ pending \in [Threads -> SUBSET Nat]
      /\ base \in [Threads -> Nat] /\ done \in [Threads -> Nat]
      /\ ext \in [Keys -> {"empty", "running", "done"}]
      /\ dump \in {"closed", "open", "none"}
      /\ owner \in Threads \union {NoThread}
      /\ index \in Nat /\ clock \in 0..MaxClock
      /\ faults \in 0..MaxFaults
      /\ broken \in [Threads -> Nat] /\ hurt \in [Threads -> Nat]
  BY <1>4 DEF Init
<1> QED
  BY <1>5, <1>6 DEF Typed

\* The functions that compile_parser makes are functions.
LEMMA MadeFunctions ==
  ASSUME NEW t \in Threads, Typed, ThreadInv(t), pc[t] = "define",
         NEW b \in Bodies
  PROVE  /\ Declared(b) \in Functions
         /\ Emits(t, b) => Function(b, CalleesOf(t, b), "defined") \in Functions
<1>1. Declared(b) \in Functions
  BY DEF Declared, Function, Functions
<1>2. ASSUME Emits(t, b) PROVE Function(b, CalleesOf(t, b), "defined") \in Functions
  <2>1. CalleesOf(t, b) \subseteq DOMAIN module[t]
    BY <1>2, Callees
  <2>2. DOMAIN module[t] \subseteq Nat
    <3>1. module[t] \in Seq(Functions)
      BY DEF Typed
    <3>2. DOMAIN module[t] = 1..Len(module[t])
      BY <3>1, LenProperties
    <3> QED
      BY <3>2
  <2>3. CalleesOf(t, b) \in SUBSET Nat
    BY <2>1, <2>2
  <2> QED
    BY <2>3 DEF Function, Functions
<1> QED
  BY <1>1, <1>2

\* The steps of compile_parser keep the types.
LEMMA CompileTyped ==
  ASSUME NEW t \in Threads, Typed, ThreadInv(t),
         \/ Declare(t) \/ DefineNode(t) \/ DefineTop(t) \/ Finalize(t)
         \/ DefineNodePanics(t) \/ DefineTopPanics(t) \/ FinalizePanics(t)
  PROVE  Typed'
<1>1. /\ key[t] \in Keys /\ key[t] \in Bodies
      /\ module[t] \in Seq(Functions) /\ cells[t] \in Seq(Cells)
      /\ Len(module[t]) \in Nat /\ DOMAIN module[t] = 1..Len(module[t])
      /\ Len(cells[t]) \in Nat /\ base[t] \in Nat /\ done[t] \in Nat
  BY LenProperties DEF Typed, Bodies
<1>2. \A s \in Seq(Functions) :
        [module EXCEPT ![t] = s] \in [Threads -> Seq(Functions)]
  BY DEF Typed
<1>3. CASE Declare(t)
  <2>1. CellsOf(key[t]) \in Seq(Cells) /\ CellsOf(key[t]) \in Seq(Bodies)
    <3>1. CellsOf(key[t]) \in Seq(Cells)
      BY <1>1, CellsAssumption
    <3>2. Cells \subseteq Bodies
      BY DEF Bodies
    <3> QED
      BY <3>1, <3>2
  <2>2. Extended(module[t], CellsOf(key[t])) \in Seq(Functions)
    <3>1. Inside(module[t], pending[t]) /\ Linked(module[t], pending[t])
      BY InsidePlaced DEF ThreadInv
    <3> QED
      BY <2>1, <3>1, LinkedDeclared DEF ExtendedOK, Inside
  <2>3. module' \in [Threads -> Seq(Functions)]
    BY <1>2, <1>3, <2>2 DEF Declare, Extended
  <2>4. cells' \in [Threads -> Seq(Cells)]
    BY <1>3, <2>1 DEF Declare, Typed
  <2> QED
    BY <1>1, <1>3, <2>3, <2>4 DEF Declare, Goto, Typed, extVars, dumpVars, history
<1>4. CASE DefineNode(t)
  <2> DEFINE n == base[t] + done[t] + 1
             F == Function(Cell(t), CalleesOf(t, Cell(t)), "defined")
  <2>1. pc[t] = "define" /\ done[t] < Len(cells[t]) /\ Emits(t, Cell(t))
    BY <1>4 DEF DefineNode
  <2>2. Cell(t) \in Bodies
    BY <1>1, <2>1, ElementOfSeq DEF Cell, Bodies
  <2>3. F \in Functions
    BY <2>1, <2>2, MadeFunctions
  <2>4. Len(module[t]) = base[t] + Len(cells[t])
    BY <2>1 DEF ThreadInv, Compiling, Window
  <2>5. n \in 1..Len(module[t])
    BY <1>1, <2>1, <2>4
  <2>6. Coded(module[t], n, F) \in Seq(Functions)
    BY <1>1, <2>3, <2>5, ExceptSeq DEF Coded
  <2>7. module' = [module EXCEPT ![t] = Coded(module[t], n, F)]
    BY <1>4 DEF DefineNode, Coded, Typed
  <2>8. module' \in [Threads -> Seq(Functions)]
    BY <1>2, <2>6, <2>7
  <2>9. pending' \in [Threads -> SUBSET Nat] /\ done' \in [Threads -> Nat]
    <3>1. pending \in [Threads -> SUBSET Nat] /\ done \in [Threads -> Nat]
      BY DEF Typed
    <3>2. n \in Nat /\ done[t] + 1 \in Nat
      BY <1>1
    <3>3. /\ pending' = [pending EXCEPT ![t] = @ \union {n}]
          /\ done' = [done EXCEPT ![t] = @ + 1]
      BY <1>4 DEF DefineNode
    <3>4. pending' \in [Threads -> SUBSET Nat]
      BY <3>1, <3>2, <3>3
    <3> QED
      BY <3>1, <3>2, <3>3, <3>4
  <2> QED
    BY <1>4, <2>8, <2>9 DEF DefineNode, Typed, extVars, dumpVars, history
<1>5. CASE DefineTop(t)
  <2> DEFINE F == Function(key[t], CalleesOf(t, key[t]), "defined")
  <2>1. pc[t] = "define" /\ Emits(t, key[t])
    BY <1>5 DEF DefineTop, Goto
  <2>2. F \in Functions
    BY <1>1, <2>1, MadeFunctions
  <2>3. Append(module[t], F) \in Seq(Functions)
    BY <1>1, <2>2, AppendProperties
  <2>4. module' \in [Threads -> Seq(Functions)]
    BY <1>2, <1>5, <2>3 DEF DefineTop
  <2>5. Top(t) \in Nat
    BY <1>1 DEF Top
  <2>6. pending' \in [Threads -> SUBSET Nat]
    BY <1>5, <2>5 DEF DefineTop, Typed
  <2> QED
    BY <1>5, <2>4, <2>6 DEF DefineTop, Goto, Typed, extVars, dumpVars, history
<1>6. CASE Finalize(t)
  <2>1. Final(module[t], pending[t]) \in Seq(Functions)
    <3>1. Inside(module[t], pending[t]) /\ Linked(module[t], pending[t])
      BY InsidePlaced DEF ThreadInv
    <3>2. FinalOK(module[t], pending[t], Final(module[t], pending[t]))
      BY <1>6, <3>1, LinkedFinal DEF Finalize, Resolvable
    <3> QED
      BY <3>2 DEF FinalOK, Inside
  <2>2. module' \in [Threads -> Seq(Functions)]
    BY <1>2, <1>6, <2>1 DEF Finalize, Finalized, Final
  <2>3. <<Top(t)>> \o [i \in 1..Len(cells[t]) |-> base[t] + i] \in Seq(Nat)
    <3> DEFINE e == [i \in 1..Len(cells[t]) |-> base[t] + i]
    <3>1. e \in [1..Len(cells[t]) -> Nat]
      BY <1>1
    <3> HIDE DEF e
    <3>2. e \in Seq(Nat)
      BY <1>1, <3>1, FunctionIsSeq
    <3>3. <<Top(t)>> \in Seq(Nat)
      BY <1>1 DEF Top
    <3>4. <<Top(t)>> \o e \in Seq(Nat)
      BY <3>2, <3>3, ConcatProperties
    <3> QED
      BY <3>4 DEF e
  <2>4. unannounced' \in [Threads -> Seq(Nat)]
    BY <1>6, <2>3 DEF Finalize, Typed
  <2>5. pending' \in [Threads -> SUBSET Nat]
    BY <1>6 DEF Finalize, Typed
  <2> QED
    BY <1>6, <2>2, <2>4, <2>5 DEF Finalize, Goto, Typed, extVars, dumpVars, history
<1>7. CASE DefineNodePanics(t) \/ DefineTopPanics(t) \/ FinalizePanics(t)
  <2>1. Panics(t) /\ Blame(t)
    BY <1>7 DEF DefineNodePanics, DefineTopPanics, FinalizePanics
  <2>2. module' \in [Threads -> Seq(Functions)] /\ pending' \in [Threads -> SUBSET Nat]
    <3>1. CASE DefineTopPanics(t)
      <4>1. Declared(key[t]) \in Functions
        BY <1>1, <3>1, MadeFunctions DEF DefineTopPanics
      <4>2. Append(module[t], Declared(key[t])) \in Seq(Functions)
        BY <1>1, <4>1, AppendProperties
      <4> QED
        BY <1>2, <3>1, <4>2 DEF DefineTopPanics, Typed
    <3>2. CASE DefineNodePanics(t) \/ FinalizePanics(t)
      BY <3>2 DEF DefineNodePanics, FinalizePanics, Typed
    <3> QED
      BY <1>7, <3>1, <3>2
  <2>3. broken' \in [Threads -> Nat] /\ hurt' \in [Threads -> Nat]
    <3>1. broken \in [Threads -> Nat] /\ hurt \in [Threads -> Nat]
      BY DEF Typed
    <3>2. CASE Sound(key[t])
      <4>1. hurt' = [hurt EXCEPT ![t] = @ + 1] /\ broken' = broken
        BY <2>1, <3>2 DEF Blame
      <4> QED
        BY <3>1, <4>1
    <3>3. CASE ~Sound(key[t])
      <4>1. broken' = [broken EXCEPT ![t] = @ + 1] /\ hurt' = hurt
        BY <2>1, <3>3 DEF Blame
      <4> QED
        BY <3>1, <4>1
    <3> QED
      BY <3>2, <3>3
  <2>4. cells' \in [Threads -> Seq(Cells)]
    BY <2>1, EmptySeq DEF Panics, Typed
  <2>5. ext' \in [Keys -> {"empty", "running", "done"}]
    BY <1>1, <2>1 DEF Panics, Typed
  <2> QED
    BY <2>1, <2>2, <2>3, <2>4, <2>5 DEF Panics, Typed, dumpVars
<1> QED
  BY <1>3, <1>4, <1>5, <1>6, <1>7

\* The other steps keep the types.
LEMMA RestsTyped ==
  ASSUME NEW t \in Threads, Typed, ThreadInv(t), Rests(t),
         pc[t] = "write" => unannounced[t] # <<>>
  PROVE  Typed'
<1>1. /\ MaxCalls \in Nat /\ MaxClock \in Nat /\ MaxFaults \in Nat
      /\ Top(t) \in Nat
  <2>1. base[t] \in Nat /\ Len(cells[t]) \in Nat
    BY LenProperties DEF Typed
  <2> QED
    BY <2>1, JitAssumption DEF Top
<1>2. unannounced[t] # <<>> =>
        /\ Head(unannounced[t]) \in Nat
        /\ [unannounced EXCEPT ![t] = Tail(@)] \in [Threads -> Seq(Nat)]
  <2>1. unannounced[t] \in Seq(Nat)
    BY DEF Typed
  <2>2. unannounced[t] # <<>> =>
          Head(unannounced[t]) \in Nat /\ Tail(unannounced[t]) \in Seq(Nat)
    BY <2>1, HeadTailProperties
  <2> QED
    BY <2>2 DEF Typed
<1>3. CASE \E k \in Keys : Call(t, k)
  BY <1>1, <1>3 DEF Call, Goto, Typed, moduleVars, extVars, dumpVars, history
<1>4. CASE RunParser(t)
  BY <1>4 DEF RunParser, Goto, Typed, moduleVars, extVars, dumpVars, history
<1>5. CASE ExtBegin(t)
  BY <1>5 DEF ExtBegin, Goto, Typed, moduleVars, extVars, dumpVars, history
<1>6. CASE ThreadEnds(t)
  BY <1>6 DEF ThreadEnds, Typed, extVars, dumpVars, history
<1>7. CASE Compiled(t)
  <2>1. <<t, Top(t)>> \in Names
    BY <1>1 DEF Names
  <2>2. parser' \in [Keys -> Names]
    BY <1>7, <2>1 DEF Compiled, Typed
  <2>3. cells' \in [Threads -> Seq(Cells)]
    BY <1>7, EmptySeq DEF Compiled, Typed
  <2> QED
    BY <1>7, <2>2, <2>3 DEF Compiled, Goto, Typed, dumpVars, history
<1>8. CASE DumpOpens(t)
  BY <1>8 DEF DumpOpens, Typed, moduleVars, extVars, history
<1>9. CASE NoDump(t)
  BY <1>2, <1>9 DEF NoDump, Typed, moduleVars, extVars, dumpVars, history
<1>10. CASE DumpLock(t)
  <2>1. index \in Nat /\ index' = index + 1 /\ clock' \in 0..MaxClock
    BY <1>10 DEF DumpLock, Typed
  <2>2. [fn |-> <<t, Head(unannounced[t])>>, index |-> index, ts |-> clock'] \in Records
    BY <1>1, <1>2, <1>10, <2>1 DEF DumpLock, Records, Names
  <2>3. record' \in [Threads -> Records]
    BY <1>10, <2>2 DEF DumpLock, Typed
  <2>4. /\ pc' \in [Threads -> {"idle", "getParser", "collect", "define",
                              "finalize", "announce", "write"}]
        /\ owner' \in Threads \union {NoThread} /\ index' \in Nat
    BY <1>10, <2>1 DEF DumpLock, Goto, Typed
  <2>5. UNCHANGED <<key, calls, module, pending, cells, base, done, unannounced,
                    ext, parser, dump, file, faults, broken, hurt>>
    BY <1>10 DEF DumpLock, moduleVars, extVars, history
  <2> QED
    BY <2>1, <2>3, <2>4, <2>5 DEF Typed
<1>11. CASE DumpWrite(t)
  <2>1. PICK whole \in BOOLEAN :
          /\ whole \/ faults < MaxFaults
          /\ file' = Append(file, [whole |-> whole, rec |-> record[t]])
          /\ faults' = IF whole THEN faults ELSE faults + 1
    BY <1>11 DEF DumpWrite
  <2>2. faults' \in 0..MaxFaults
    BY <1>1, <2>1 DEF Typed
  <2>3. file' \in Seq([whole : BOOLEAN, rec : Records])
    <3>1. [whole |-> whole, rec |-> record[t]] \in [whole : BOOLEAN, rec : Records]
      BY DEF Typed
    <3>2. file \in Seq([whole : BOOLEAN, rec : Records])
      BY DEF Typed
    <3> QED
      BY <2>1, <3>1, <3>2, AppendProperties
  <2>4. record' \in [Threads -> Records]
    <3>1. NoRecord \in Records
      BY DEF NoRecord, NoParser, Records, Names
    <3> QED
      BY <1>11, <3>1 DEF DumpWrite, Typed
  <2>5. unannounced' \in [Threads -> Seq(Nat)]
    BY <1>2, <1>11 DEF DumpWrite, Goto
  <2> QED
    BY <1>11, <2>2, <2>3, <2>4, <2>5
       DEF DumpWrite, Goto, Typed, moduleVars, extVars, history
<1> QED
  BY <1>3, <1>4, <1>5, <1>6, <1>7, <1>8, <1>9, <1>10, <1>11 DEF Rests

-----------------------------------------------------------------------------
(* Other threads, the parsers handed out, and the dump.                    *)

Acts(t) == Step(t) \/ ThreadEnds(t) \/ \E k \in Keys : Call(t, k)

\* A step of one thread leaves the compilations of the others alone.
LEMMA OthersUnmoved ==
  ASSUME NEW t \in Threads, NEW u \in Threads, u # t, Typed, Acts(t)
  PROVE  ThreadVars(u)' = ThreadVars(u)
<1>1. /\ pc'[u] = pc[u] /\ key'[u] = key[u]
  BY Domains DEF Acts, Step, Call, RunParser, ExtBegin, ThreadEnds, Declare, DefineNode,
         DefineNodePanics, DefineTop, DefineTopPanics, Finalize, FinalizePanics,
         Panics, Compiled, DumpOpens, NoDump, DumpLock, DumpWrite, Goto
<1>2. /\ module'[u] = module[u] /\ pending'[u] = pending[u]
  BY Domains DEF Acts, Step, Call, RunParser, ExtBegin, ThreadEnds, Declare, DefineNode,
         DefineNodePanics, DefineTop, DefineTopPanics, Finalize, FinalizePanics,
         Panics, Compiled, DumpOpens, NoDump, DumpLock, DumpWrite, moduleVars
<1>3. /\ cells'[u] = cells[u] /\ base'[u] = base[u] /\ done'[u] = done[u]
  BY Domains DEF Acts, Step, Call, RunParser, ExtBegin, ThreadEnds, Declare, DefineNode,
         DefineNodePanics, DefineTop, DefineTopPanics, Finalize, FinalizePanics,
         Panics, Compiled, DumpOpens, NoDump, DumpLock, DumpWrite, moduleVars
<1>4. unannounced'[u] = unannounced[u]
  BY Domains DEF Acts, Step, Call, RunParser, ExtBegin, ThreadEnds, Declare, DefineNode,
         DefineNodePanics, DefineTop, DefineTopPanics, Finalize, FinalizePanics,
         Panics, Compiled, DumpOpens, NoDump, DumpLock, DumpWrite
<1>5. broken'[u] = broken[u] /\ hurt'[u] = hurt[u]
  <2>1. \/ UNCHANGED history
        \/ Blame(t)
    BY Domains DEF Acts, Step, Call, RunParser, ExtBegin, ThreadEnds, Declare, DefineNode,
           DefineNodePanics, DefineTop, DefineTopPanics, Finalize, FinalizePanics,
           Compiled, DumpOpens, NoDump, DumpLock, DumpWrite
  <2>2. CASE Blame(t) /\ Sound(key[t])
    BY <2>2, Domains DEF Blame
  <2>3. CASE Blame(t) /\ ~Sound(key[t])
    BY <2>3, Domains DEF Blame
  <2> QED
    BY <2>1, <2>2, <2>3 DEF history
<1> QED
  BY <1>1, <1>2, <1>3, <1>4, <1>5 DEF ThreadVars

\* What is final stays, with its body.
LEMMA FinalStays ==
  ASSUME NEW t \in Threads, Typed, ThreadInv(t), Acts(t),
         NEW u \in Threads, NEW f \in DOMAIN module[u], module[u][f].phase = "final"
  PROVE  /\ f \in DOMAIN module'[u] /\ module'[u][f].phase = "final"
         /\ module'[u][f].body = module[u][f].body
<1>1. CASE u # t
  <2>1. module'[u] = module[u]
    BY <1>1, OthersUnmoved DEF ThreadVars
  <2> QED
    BY <2>1
<1>2. CASE u = t
  <2> DEFINE m == module[t]
  <2>1. Inside(m, pending[t]) /\ Linked(m, pending[t])
    BY InsidePlaced DEF ThreadInv
  <2>2. f \in DOMAIN m /\ m[f].phase = "final"
    BY <1>2
  <2>3. CASE Rests(t) \/ DefineNodePanics(t) \/ FinalizePanics(t)
    <3>1. module'[t] = module[t]
      BY <2>3 DEF Rests, Call, RunParser, ExtBegin, ThreadEnds, Compiled, DumpOpens,
            NoDump, DumpLock, DumpWrite, DefineNodePanics, FinalizePanics, moduleVars
    <3> QED
      BY <1>2, <3>1
  <2>4. CASE Declare(t)
    <3>1. module'[t] = Extended(m, CellsOf(key[t]))
      BY <2>4 DEF Declare, Extended, Typed
    <3>2. CellsOf(key[t]) \in Seq(Bodies)
      <4>1. CellsOf(key[t]) \in Seq(Cells)
        BY CellsAssumption DEF Typed
      <4>2. Cells \subseteq Bodies
        BY DEF Bodies
      <4> QED
        BY <4>1, <4>2
    <3>3. ExtendedOK(m, pending[t], CellsOf(key[t]), module'[t])
      BY <2>1, <3>1, <3>2, LinkedDeclared
    <3> QED
      BY <1>2, <2>2, <3>3 DEF ExtendedOK
  <2>5. CASE DefineNode(t)
    <3> DEFINE n == base[t] + done[t] + 1
               F == Function(Cell(t), CalleesOf(t, Cell(t)), "defined")
    <3>1. module'[t] = Coded(m, n, F)
      BY <2>5 DEF DefineNode, Coded, Typed
    <3>2. pc[t] = "define" /\ done[t] < Len(cells[t])
      BY <2>5 DEF DefineNode
    <3>3. Window(m, pending[t], cells[t], base[t], done[t])
      BY <3>2 DEF ThreadInv, Compiling
    <3>4. done[t] \in Nat /\ base[t] \in Nat /\ Len(cells[t]) \in Nat
      BY LenProperties DEF Typed
    <3>5. m[n].phase = "declared"
      <4>1. done[t] + 1 \in 1..Len(cells[t]) /\ done[t] + 1 > done[t]
            /\ n = base[t] + (done[t] + 1)
        BY <3>2, <3>4
      <4> QED
        BY <3>3, <4>1 DEF Window
    <3> HIDE DEF n, F
    <3>6. f # n
      BY <2>2, <3>5
    <3>7. f \in DOMAIN module'[t] /\ module'[t][f] = m[f]
      BY <2>2, <3>1, <3>6 DEF Coded
    <3> QED
      BY <1>2, <2>2, <3>7
  <2>6. CASE DefineTop(t) \/ DefineTopPanics(t)
    <3>1. PICK F : module'[t] = Append(m, F) /\ F \in Functions
      <4>1. pc[t] = "define" /\ key[t] \in Bodies
        BY <2>6 DEF DefineTop, DefineTopPanics, Goto, Typed, Bodies
      <4>2. CASE DefineTop(t)
        <5>1. Function(key[t], CalleesOf(t, key[t]), "defined") \in Functions
          BY <4>1, <4>2, MadeFunctions DEF DefineTop
        <5>2. module'[t] = Append(m, Function(key[t], CalleesOf(t, key[t]), "defined"))
          BY <4>2 DEF DefineTop, Typed
        <5> QED
          BY <5>1, <5>2
      <4>3. CASE DefineTopPanics(t)
        <5>1. Declared(key[t]) \in Functions
          BY <4>1, MadeFunctions
        <5>2. module'[t] = Append(m, Declared(key[t]))
          BY <4>3 DEF DefineTopPanics, Typed
        <5> QED
          BY <5>1, <5>2
      <4> QED
        BY <2>6, <4>2, <4>3
    <3>2. m \in Seq(Functions) /\ DOMAIN m = 1..Len(m) /\ Len(m) \in Nat
      BY <2>1, LenProperties DEF Inside
    <3>3. /\ module'[t] \in Seq(Functions) /\ Len(module'[t]) = Len(m) + 1
          /\ \A i \in 1..Len(m) : module'[t][i] = m[i]
      BY <3>1, <3>2, AppendProperties
    <3>4. DOMAIN module'[t] = 1..(Len(m) + 1)
      BY <3>3, LenProperties
    <3>5. f \in DOMAIN module'[t] /\ module'[t][f] = m[f]
      BY <2>2, <3>2, <3>3, <3>4
    <3> QED
      BY <1>2, <2>2, <3>5
  <2>7. CASE Finalize(t)
    <3>1. FinalOK(m, pending[t], Final(m, pending[t]))
      BY <2>1, <2>7, LinkedFinal DEF Finalize, Resolvable
    <3>2. module'[t] = Final(m, pending[t])
      BY <2>7 DEF Finalize, Finalized, Final, Typed
    <3>3. FinalOK(m, pending[t], module'[t])
      BY <3>1, <3>2
    <3> QED
      BY <1>2, <2>2, <3>3 DEF FinalOK
  <2> QED
    BY <2>3, <2>4, <2>5, <2>6, <2>7 DEF Acts, Step, Rests
<1> QED
  BY <1>1, <1>2

LEMMA HandedOutKept ==
  ASSUME NEW t \in Threads, Typed, ThreadInv(t), HandedOut, Acts(t)
  PROVE  HandedOut'
<1> SUFFICES ASSUME NEW k \in Keys, ext'[k] = "done"
             PROVE  /\ parser'[k][1] \in Threads
                    /\ parser'[k][2] \in DOMAIN module'[parser'[k][1]]
                    /\ module'[parser'[k][1]][parser'[k][2]].phase = "final"
                    /\ module'[parser'[k][1]][parser'[k][2]].body = k
  BY DEF HandedOut
<1>1. CASE ext[k] = "done" /\ parser'[k] = parser[k]
  <2>1. /\ parser[k][1] \in Threads
        /\ parser[k][2] \in DOMAIN module[parser[k][1]]
        /\ module[parser[k][1]][parser[k][2]].phase = "final"
        /\ module[parser[k][1]][parser[k][2]].body = k
    BY <1>1 DEF HandedOut
  <2> QED
    BY <1>1, <2>1, FinalStays
<1>2. CASE Compiled(t) /\ k = key[t]
  <2>1. parser'[k] = <<t, Top(t)>> /\ module'[t] = module[t]
    BY <1>2 DEF Compiled, Typed
  <2>2. /\ module[t][Top(t)].phase = "final" /\ module[t][Top(t)].body = k
        /\ Len(module[t]) = Top(t)
    BY <1>2 DEF Compiled, Goto, ThreadInv, Compiling
  <2>3. Top(t) \in DOMAIN module[t]
    <3>1. DOMAIN module[t] = 1..Len(module[t])
      BY LenProperties DEF Typed
    <3>2. base[t] \in Nat /\ Len(cells[t]) \in Nat
      BY LenProperties DEF Typed
    <3>3. Top(t) \in Nat /\ Top(t) >= 1
      BY <3>2 DEF Top
    <3> QED
      BY <2>2, <3>1, <3>3
  <2> QED
    BY <2>1, <2>2, <2>3
<1>3. CASE ~(Compiled(t) /\ k = key[t])
  <2>1. ext[k] = "done" /\ parser'[k] = parser[k]
    <3>1. CASE Compiled(t)
      BY <1>3, <3>1 DEF Compiled, Typed
    <3>2. CASE ~Compiled(t)
      BY <3>2 DEF Acts, Step, Call, RunParser, ExtBegin, ThreadEnds, Declare,
         DefineNode, DefineNodePanics, DefineTop, DefineTopPanics, Finalize,
         FinalizePanics, Panics, DumpOpens, NoDump, DumpLock, DumpWrite, Typed,
         extVars
    <3> QED
      BY <3>1, <3>2
  <2> QED
    BY <1>1, <2>1
<1> QED
  BY <1>2, <1>3

\* Records are written in the order in which the mutex was taken.
LEMMA RecordingKept ==
  ASSUME NEW t \in Threads, Typed, Typed', Recording, RecordsOrdered, Acts(t)
  PROVE  Recording' /\ RecordsOrdered'
<1>1. /\ index \in Nat /\ clock \in Nat
      /\ index' \in Nat /\ clock' \in Nat
      /\ \A u \in Threads : record[u].index \in Nat /\ record[u].ts \in Nat
      /\ \A i \in DOMAIN file : file[i].rec.index \in Nat /\ file[i].rec.ts \in Nat
      /\ NoThread \notin Threads
      /\ Len(file) \in Nat /\ DOMAIN file = 1..Len(file)
  <2>1. clock \in Nat /\ clock' \in Nat
    BY JitAssumption DEF Typed
  <2>6. file \in Seq([whole : BOOLEAN, rec : Records])
    BY DEF Typed
  <2>3. Len(file) \in Nat /\ DOMAIN file = 1..Len(file)
    BY <2>6, LenProperties
  <2>2. \A i \in DOMAIN file : file[i] \in [whole : BOOLEAN, rec : Records]
    BY ONLY <2>3, <2>6, ElementOfSeq, Zenon
  <2>4. \A u \in Threads : record[u].index \in Nat /\ record[u].ts \in Nat
    BY DEF Typed, Records
  <2>5. \A i \in DOMAIN file : file[i].rec.index \in Nat /\ file[i].rec.ts \in Nat
    BY <2>2 DEF Records
  <2> QED
    BY <2>1, <2>3, <2>4, <2>5, JitAssumption DEF Typed
<1>2. CASE DumpLock(t)
  <2>1. /\ pc[t] = "announce" /\ pc' = [pc EXCEPT ![t] = "write"]
        /\ owner = NoThread /\ owner' = t
        /\ unannounced[t] # <<>> /\ unannounced' = unannounced
        /\ clock' >= clock /\ index' = index + 1
        /\ record'[t].index = index /\ record'[t].ts = clock'
        /\ file' = file
    BY <1>1, <1>2 DEF DumpLock, Goto, Typed
  <2>2. \A u \in Threads : pc[u] # "write"
    BY <1>1, <2>1 DEF Recording
  <2>3. \A u \in Threads : pc'[u] = "write" <=> u = t
    BY <2>1, <2>2 DEF Typed
  <2>4. \A i \in DOMAIN file :
          /\ file[i].rec.index < index' /\ file[i].rec.ts <= clock'
          /\ file[i].rec.index < record'[t].index
          /\ file[i].rec.ts <= record'[t].ts
    BY <1>1, <2>1 DEF Recording
  <2>5. record'[t].index < index' /\ record'[t].ts <= clock'
    BY <1>1, <2>1
  <2>6. Recording'
    BY <2>1, <2>3, <2>4, <2>5 DEF Recording
  <2> QED
    BY <2>1, <2>6 DEF RecordsOrdered
<1>3. CASE DumpWrite(t)
  <2>1. PICK whole \in BOOLEAN :
          file' = Append(file, [whole |-> whole, rec |-> record[t]])
    BY <1>3 DEF DumpWrite
  <2>2. /\ pc[t] = "write" /\ pc' = [pc EXCEPT ![t] = "announce"]
        /\ owner' = NoThread /\ clock' = clock /\ index' = index
    BY <1>3 DEF DumpWrite, Goto
  <2>3. owner = t
    BY <2>2 DEF Recording
  <2>4. \A u \in Threads : pc'[u] # "write"
    BY <2>2, <2>3 DEF Recording, Typed
  <2> DEFINE e == [whole |-> whole, rec |-> record[t]]
  <2>5. /\ Len(file') = Len(file) + 1
        /\ \A i \in 1..Len(file) : file'[i] = file[i]
        /\ file'[Len(file) + 1] = e
        /\ file' \in Seq([whole : BOOLEAN, rec : Records])
    <3>1. e \in [whole : BOOLEAN, rec : Records]
      BY DEF Typed
    <3>2. file \in Seq([whole : BOOLEAN, rec : Records])
      BY DEF Typed
    <3> HIDE DEF e
    <3>3. file' = Append(file, e)
      BY <2>1 DEF e
    <3> QED
      BY <3>1, <3>2, <3>3, AppendProperties
  <2>6. DOMAIN file' = 1..(Len(file) + 1)
    BY <2>5, LenProperties
  <2>7. e.rec = record[t]
    OBVIOUS
  <2> HIDE DEF e
  <2>8. /\ record[t].index < index /\ record[t].ts <= clock
        /\ \A i \in DOMAIN file :
             /\ file[i].rec.index < record[t].index
             /\ file[i].rec.ts <= record[t].ts
    BY <2>2 DEF Recording
  <2>9. \A i \in DOMAIN file' :
          \/ i \in DOMAIN file /\ file'[i] = file[i]
          \/ i = Len(file) + 1 /\ file'[i].rec = record[t]
    BY <1>1, <2>5, <2>6, <2>7
  <2>10. \A i \in DOMAIN file' :
           file'[i].rec.index < index /\ file'[i].rec.ts <= clock
    BY <2>8, <2>9 DEF Recording
  <2>11. Recording'
    BY <1>1, <2>2, <2>4, <2>10 DEF Recording
  <2>12. ASSUME NEW i \in DOMAIN file', NEW j \in DOMAIN file', i < j
         PROVE  /\ file'[i].rec.index < file'[j].rec.index
                /\ file'[i].rec.ts <= file'[j].rec.ts
    <3>1. i \in DOMAIN file /\ file'[i] = file[i]
      BY <1>1, <2>5, <2>6, <2>12
    <3>2. CASE j \in DOMAIN file /\ file'[j] = file[j]
      BY <2>12, <3>1, <3>2 DEF RecordsOrdered
    <3>3. CASE file'[j].rec = record[t]
      BY <2>8, <3>1, <3>3
    <3> QED
      BY <2>9, <3>2, <3>3
  <2>13. RecordsOrdered'
    BY <2>12 DEF RecordsOrdered
  <2> QED
    BY <2>11, <2>13
<1>4. CASE ~DumpLock(t) /\ ~DumpWrite(t)
  <2>1. /\ owner' = owner /\ index' = index /\ clock' = clock
        /\ record' = record /\ file' = file
    BY <1>4 DEF Acts, Step, Call, RunParser, ExtBegin, ThreadEnds, Declare,
       DefineNode, DefineNodePanics, DefineTop, DefineTopPanics, Finalize,
       FinalizePanics, Panics, Compiled, DumpOpens, NoDump, dumpVars
  <2>2. \A u \in Threads : pc'[u] = "write" <=> pc[u] = "write"
    <3>1. \A u \in Threads : u # t => pc'[u] = pc[u]
      BY <1>4, Domains DEF Acts, Step, Call, RunParser, ExtBegin, ThreadEnds,
         Declare, DefineNode, DefineNodePanics, DefineTop, DefineTopPanics,
         Finalize, FinalizePanics, Panics, Compiled, DumpOpens, NoDump, Goto
    <3>2. pc'[t] = "write" <=> pc[t] = "write"
      BY <1>4, Domains DEF Acts, Step, Call, RunParser, ExtBegin, ThreadEnds,
         Declare, DefineNode, DefineNodePanics, DefineTop, DefineTopPanics,
         Finalize, FinalizePanics, Panics, Compiled, DumpOpens, NoDump, Goto
    <3> QED
      BY <3>1, <3>2
  <2>3. \A u \in Threads : pc[u] = "write" => unannounced'[u] = unannounced[u]
    BY <1>4, Domains DEF Acts, Step, Call, RunParser, ExtBegin, ThreadEnds,
       Declare, DefineNode, DefineNodePanics, DefineTop, DefineTopPanics,
       Finalize, FinalizePanics, Panics, Compiled, DumpOpens, NoDump, Goto
  <2>4. Recording'
    BY <2>1, <2>2, <2>3 DEF Recording
  <2> QED
    BY <2>1, <2>4 DEF RecordsOrdered
<1> QED
  BY <1>2, <1>3, <1>4

-----------------------------------------------------------------------------
(* The inductive invariant, and what follows.                              *)

LEMMA InitIInv == Init => IInv
<1> SUFFICES ASSUME Init PROVE IInv
  OBVIOUS
<1>1. Typed
  BY InitTyped
<1>2. ASSUME NEW t \in Threads PROVE ThreadInv(t)
  <2>1. /\ pc[t] = "idle" /\ module[t] = <<>> /\ pending[t] = {}
        /\ cells[t] = <<>> /\ done[t] = 0 /\ unannounced[t] = <<>>
        /\ hurt[t] = 0 /\ broken[t] = 0
    BY DEF Init
  <2>2. DOMAIN <<>> = {} /\ Len(<<>>) = 0
    OBVIOUS
  <2>3. Placed(t)
    BY <2>1, <2>2 DEF Placed, ToSet
  <2>4. Linked(module[t], pending[t])
    BY <2>1, <2>2 DEF Linked
  <2>5. Compiling(t) /\ ~Doomed(t)
    BY <2>1 DEF Compiling, Doomed
  <2> QED
    BY <2>1, <2>3, <2>4, <2>5 DEF ThreadInv
<1>3. HandedOut
  BY DEF Init, HandedOut
<1>4. Recording /\ RecordsOrdered
  <2>1. file = <<>> /\ DOMAIN <<>> = {}
    BY DEF Init
  <2>2. \A t \in Threads : pc[t] # "write" /\ owner # t
    BY JitAssumption DEF Init
  <2> QED
    BY <2>1, <2>2 DEF Recording, RecordsOrdered
<1> QED
  BY <1>1, <1>2, <1>3, <1>4 DEF IInv

LEMMA NextIInv == IInv /\ [Next]_vars => IInv'
<1> SUFFICES ASSUME IInv, [Next]_vars PROVE IInv'
  OBVIOUS
<1>1. Typed /\ (\A t \in Threads : ThreadInv(t)) /\ HandedOut /\ Recording /\ RecordsOrdered
  BY DEF IInv
<1>2. ASSUME NEW t \in Threads, Acts(t)
      PROVE  IInv'
  <2>1. pc[t] = "write" => unannounced[t] # <<>>
    BY <1>1 DEF Recording
  <2>2. \/ Rests(t)
        \/ Declare(t) \/ DefineNode(t) \/ DefineTop(t) \/ Finalize(t)
        \/ DefineNodePanics(t) \/ DefineTopPanics(t) \/ FinalizePanics(t)
    BY <1>2 DEF Acts, Step, Rests
  <2>3. Typed'
    BY <1>1, <2>1, <2>2, RestsTyped, CompileTyped
  <2>4. ThreadInv(t)'
    <3>1. CASE Rests(t)
      BY <1>1, <2>1, <2>3, <3>1, RestsInv
    <3>2. CASE Declare(t)
      BY <1>1, <2>3, <3>2, DeclareInv
    <3>3. CASE DefineNode(t)
      BY <1>1, <2>3, <3>3, DefineNodeInv
    <3>4. CASE DefineTop(t)
      BY <1>1, <2>3, <3>4, DefineTopInv
    <3>5. CASE Finalize(t)
      BY <1>1, <2>3, <3>5, FinalizeInv
    <3>6. CASE DefineNodePanics(t) \/ DefineTopPanics(t) \/ FinalizePanics(t)
      BY <1>1, <2>3, <3>6, PanicInv
    <3> QED
      BY <2>2, <3>1, <3>2, <3>3, <3>4, <3>5, <3>6
  <2>5. ASSUME NEW u \in Threads, u # t PROVE ThreadInv(u)'
    <3>1. ThreadVars(u)' = ThreadVars(u)
      BY <1>1, <1>2, <2>5, OthersUnmoved
    <3> QED
      BY <1>1, <3>1, Unmoved
  <2>6. HandedOut'
    BY <1>1, <1>2, HandedOutKept
  <2>7. Recording' /\ RecordsOrdered'
    BY <1>1, <1>2, <2>3, RecordingKept
  <2> QED
    BY <2>3, <2>4, <2>5, <2>6, <2>7 DEF IInv
<1>3. CASE UNCHANGED vars
  <2>1. \A t \in Threads : ThreadVars(t)' = ThreadVars(t)
    BY <1>3 DEF vars, moduleVars, history, ThreadVars
  <2>2. \A t \in Threads : ThreadInv(t)'
    BY <1>1, <2>1, Unmoved
  <2>3. Typed'
    BY <1>1, <1>3 DEF Typed, vars, moduleVars, extVars, dumpVars, history
  <2>4. HandedOut'
    BY <1>1, <1>3 DEF HandedOut, vars, moduleVars, extVars
  <2>5. Recording' /\ RecordsOrdered'
    BY <1>1, <1>3 DEF Recording, RecordsOrdered, vars, dumpVars
  <2> QED
    BY <2>2, <2>3, <2>4, <2>5 DEF IInv
<1> QED
  BY <1>2, <1>3 DEF Next, AllDone, Acts

\* compile_parser and jitdump's register: the invariant that the others
\* follow from holds for any number of threads, types and failures.
THEOREM Invariance == Spec => []IInv
<1> QED
  BY InitIInv, NextIInv, PTL DEF Spec

\* The variables keep their types, and no function calls one outside of its
\* own module.
THEOREM TypeCorrect == Spec => []TypeOK
<1>1. IInv => TypeOK
  BY DEF IInv, TypeOK, ThreadInv
<1> QED
  BY <1>1, Invariance, PTL

\* jitdump.rs, register: records are in the order of index and timestamp.
THEOREM DumpOrdered == Spec => []RecordsOrdered
<1>1. IInv => RecordsOrdered
  BY DEF IInv
<1> QED
  BY <1>1, Invariance, PTL

\* compile_parser, finalize_definitions: finalized code calls finalized code,
\* made of the cells that its body mentions, whatever panicked before.
THEOREM Linkage == Spec => []ParsersLinked
<1>1. IInv => ParsersLinked
  BY DEF IInv, ThreadInv, Linked, HandedOut, ParsersLinked
<1> QED
  BY <1>1, Invariance, PTL

\* compile_parser: a sound type fails to compile only after an unsound one,
\* on the same thread, and no more often.
THEOREM FailuresArePaid == Spec => []FailuresPaid
<1>1. IInv => FailuresPaid
  BY DEF IInv, ThreadInv, FailuresPaid
<1> QED
  BY <1>1, Invariance, PTL

-----------------------------------------------------------------------------
(* One maker for a type, and what has been seen of the type by then.       *)

\* The steps out of the initialiser by a panic.
PanicSteps(t) == DefineNodePanics(t) \/ DefineTopPanics(t) \/ FinalizePanics(t)

\* The steps that stay inside the initialiser.
Works(t) ==
  \/ Declare(t) \/ DefineNode(t) \/ DefineTop(t) \/ Finalize(t)
  \/ DumpOpens(t) \/ NoDump(t) \/ DumpLock(t) \/ DumpWrite(t)

LEMMA WorksMakes ==
  ASSUME NEW t \in Threads, Typed, Works(t)
  PROVE  /\ pc[t] \in Making /\ pc'[t] \in Making
         /\ key' = key /\ ext' = ext /\ parser' = parser
<1>1. key' = key /\ ext' = ext /\ parser' = parser
  BY DEF Works, Declare, DefineNode, DefineTop, Finalize, DumpOpens, NoDump,
         DumpLock, DumpWrite, extVars
<1>2. pc[t] \in Making /\ pc'[t] \in Making
  BY Domains DEF Works, Declare, DefineNode, DefineTop, Finalize, DumpOpens,
         NoDump, DumpLock, DumpWrite, Goto, Making
<1> QED
  BY <1>1, <1>2

LEMMA PanicStepsLeave ==
  ASSUME NEW t \in Threads, Typed, PanicSteps(t)
  PROVE  /\ pc[t] \in Making /\ pc'[t] = "idle" /\ key' = key
         /\ parser' = parser /\ ext' = [ext EXCEPT ![key[t]] = "empty"]
<1>1. pc[t] \in Making /\ Panics(t)
  BY DEF PanicSteps, DefineNodePanics, DefineTopPanics, FinalizePanics, Goto,
         Making
<1> QED
  BY <1>1, Domains DEF Panics

LEMMA MakersKept ==
  ASSUME NEW t \in Threads, Typed, Typed', Makers, Acts(t)
  PROVE  Makers'
<1>1. \A u \in Threads : u # t => pc'[u] = pc[u] /\ key'[u] = key[u]
  BY OthersUnmoved DEF ThreadVars
<1>2. key[t] \in Keys /\ DOMAIN ext = Keys /\ DOMAIN parser = Keys
      /\ \A u \in Threads : key[u] \in Keys
  BY DEF Typed
<1>3. CASE UNCHANGED <<ext, parser>> /\ pc'[t] \notin Making
  <2>1. \A u \in Threads : pc'[u] \in Making =>
          u # t /\ pc[u] \in Making /\ key'[u] = key[u]
    BY <1>1, <1>3
  <2> QED
    BY <1>3, <2>1 DEF Makers
<1>4. CASE Works(t)
  <2>1. /\ pc[t] \in Making /\ key' = key /\ ext' = ext /\ parser' = parser
    BY <1>4, WorksMakes
  <2>2. \A u \in Threads : pc'[u] \in Making => pc[u] \in Making
    BY <1>1, <2>1
  <2> QED
    BY <2>1, <2>2 DEF Makers
<1>5. CASE ExtBegin(t)
  <2>1. /\ pc[t] = "getParser" /\ ext[key[t]] = "empty"
        /\ ext' = [ext EXCEPT ![key[t]] = "running"]
        /\ key' = key /\ parser' = parser
    BY <1>5 DEF ExtBegin, Goto
  <2>2. \A u \in Threads : u # t /\ pc[u] \in Making => key[u] # key[t]
    BY <2>1 DEF Makers
  <2>3. \A u \in Threads : pc'[u] \in Making =>
          ext'[key'[u]] = "running"
    BY <1>1, <1>2, <2>1, <2>2 DEF Makers
  <2>4. \A u, v \in Threads :
          pc'[u] \in Making /\ pc'[v] \in Making /\ key'[u] = key'[v] => u = v
    BY <1>1, <2>1, <2>2 DEF Makers
  <2>5. \A k \in Keys : ext'[k] # "done" => parser'[k] = NoParser
    BY <1>2, <2>1 DEF Makers
  <2> QED
    BY <2>3, <2>4, <2>5 DEF Makers
<1>6. CASE Compiled(t) \/ PanicSteps(t)
  <2>1. pc[t] \in Making /\ pc'[t] \notin Making /\ key' = key
    <3>1. CASE Compiled(t)
      BY <3>1, Domains DEF Compiled, Goto, Making
    <3>2. CASE PanicSteps(t)
      BY <3>2, PanicStepsLeave DEF Making
    <3> QED
      BY <1>6, <3>1, <3>2
  <2>2. \A k \in Keys : k # key[t] => ext'[k] = ext[k] /\ parser'[k] = parser[k]
    <3>1. CASE Compiled(t)
      BY <3>1 DEF Compiled, Typed
    <3>2. CASE PanicSteps(t)
      BY <1>2, <3>2, PanicStepsLeave
    <3> QED
      BY <1>6, <3>1, <3>2
  <2>3. ext'[key[t]] # "done" => parser'[key[t]] = NoParser
    <3>1. CASE Compiled(t)
      BY <3>1 DEF Compiled, Typed
    <3>2. CASE PanicSteps(t)
      <4>1. parser[key[t]] = NoParser
        BY <1>2, <2>1 DEF Makers
      <4> QED
        BY <3>2, <4>1, PanicStepsLeave
    <3> QED
      BY <1>6, <3>1, <3>2
  <2>4. \A u \in Threads : pc'[u] \in Making =>
          /\ pc[u] \in Making /\ u # t /\ key[u] # key[t]
          /\ ext'[key[u]] = ext[key[u]]
    BY <1>1, <1>2, <2>1, <2>2 DEF Makers
  <2>5. \A u \in Threads : pc'[u] \in Making => ext'[key'[u]] = "running"
    BY <2>1, <2>4 DEF Makers
  <2>6. \A u, v \in Threads :
          pc'[u] \in Making /\ pc'[v] \in Making /\ key'[u] = key'[v] => u = v
    BY <2>1, <2>4 DEF Makers
  <2>7. \A k \in Keys : ext'[k] # "done" => parser'[k] = NoParser
    BY <2>2, <2>3 DEF Makers
  <2> QED
    BY <2>5, <2>6, <2>7 DEF Makers
<1>7. CASE RunParser(t) \/ ThreadEnds(t) \/ \E k \in Keys : Call(t, k)
  <2>1. UNCHANGED <<ext, parser>>
    BY <1>7 DEF RunParser, ThreadEnds, Call, extVars
  <2>2. pc'[t] \in {"idle", "getParser"}
    BY <1>7, Domains DEF RunParser, ThreadEnds, Call, Goto
  <2> QED
    BY <1>3, <2>1, <2>2 DEF Making
<1> QED
  BY <1>4, <1>5, <1>6, <1>7 DEF Acts, Step, Works, PanicSteps

\* When every cell is emitted and the type too, no Ty::Unknown is left.
LEMMA EmittedSound ==
  ASSUME NEW t \in Threads, Typed, ThreadInv(t), Vetted(t), DefineTop(t)
  PROVE  Sound(key[t])
<1>1. /\ pc[t] = "define" /\ done[t] = Len(cells[t]) /\ key[t] \notin Unknown
  BY DEF DefineTop, Goto, Emits
<1>2. /\ key[t] \in Keys /\ DOMAIN cells[t] = 1..Len(cells[t])
  BY LenProperties DEF Typed
<1>3. ToSet(cells[t]) = Reached(key[t])
  BY <1>1, <1>2, CellsAssumption DEF ThreadInv, Compiling
<1>4. \A c \in ToSet(cells[t]) : c \notin Unknown
  BY <1>1, <1>2 DEF Vetted, ToSet
<1> QED
  BY <1>1, <1>3, <1>4 DEF Sound

LEMMA VettedKept ==
  ASSUME NEW t \in Threads, Typed, Typed', ThreadInv(t), Vetted(t), Acts(t)
  PROVE  Vetted(t)'
<1>1. CASE pc'[t] \notin {"define", "finalize", "announce", "write"}
  BY <1>1 DEF Vetted
<1>2. CASE Declare(t)
  <2>1. pc'[t] = "define" /\ done'[t] = 0 /\ \A i \in 1..0 : FALSE
    BY <1>2, Domains DEF Declare, Goto
  <2> QED
    BY <2>1 DEF Vetted
<1>3. CASE DefineNode(t)
  <2>1. /\ pc[t] = "define" /\ pc'[t] = "define" /\ done'[t] = done[t] + 1
        /\ cells'[t] = cells[t] /\ cells[t][done[t] + 1] \notin Unknown
    BY <1>3, Domains DEF DefineNode, Emits, Cell
  <2>2. done[t] \in Nat
    BY DEF Typed
  <2>3. \A i \in 1..(done[t] + 1) : i \in 1..done[t] \/ i = done[t] + 1
    BY <2>2
  <2> QED
    BY <2>1, <2>3 DEF Vetted
<1>4. CASE DefineTop(t)
  <2>1. pc'[t] = "finalize" /\ key'[t] = key[t]
    BY <1>4, Domains DEF DefineTop, Goto
  <2> QED
    BY <1>4, <2>1, EmittedSound DEF Vetted, Sound
<1>5. CASE Finalize(t)
  <2>1. /\ pc[t] = "finalize" /\ pc'[t] = "announce" /\ key'[t] = key[t]
        /\ pending'[t] = {}
    BY <1>5, Domains DEF Finalize, Goto
  <2> QED
    BY <2>1 DEF Vetted, Sound
<1>6. CASE DumpOpens(t) \/ NoDump(t) \/ DumpLock(t) \/ DumpWrite(t)
  <2>1. /\ pc[t] \in {"announce", "write"} /\ pc'[t] \in {"announce", "write"}
        /\ key'[t] = key[t] /\ pending'[t] = pending[t]
    BY <1>6, Domains DEF DumpOpens, NoDump, DumpLock, DumpWrite, Goto, moduleVars
  <2> QED
    BY <2>1 DEF Vetted, Sound
<1>7. CASE RunParser(t) \/ ExtBegin(t) \/ ThreadEnds(t) \/ Compiled(t)
           \/ (\E k \in Keys : Call(t, k)) \/ PanicSteps(t)
  <2>1. pc'[t] \in {"idle", "getParser", "collect"}
    <3>1. CASE PanicSteps(t)
      BY <3>1, PanicStepsLeave
    <3>2. CASE ~PanicSteps(t)
      BY <1>7, <3>2, Domains DEF RunParser, ExtBegin, ThreadEnds, Compiled, Call, Goto
    <3> QED
      BY <3>1, <3>2
  <2> QED
    BY <1>1, <2>1
<1> QED
  BY <1>2, <1>3, <1>4, <1>5, <1>6, <1>7 DEF Acts, Step, PanicSteps

LEMMA InitMakers == Init => MakersInv
BY DEF Init, MakersInv, Makers, Vetted, Making

LEMMA NextMakers == IInv /\ IInv' /\ MakersInv /\ [Next]_vars => MakersInv'
<1> SUFFICES ASSUME IInv, IInv', MakersInv, [Next]_vars PROVE MakersInv'
  OBVIOUS
<1>1. Typed /\ Typed' /\ (\A t \in Threads : ThreadInv(t))
      /\ Makers /\ \A t \in Threads : Vetted(t)
  BY DEF IInv, MakersInv
<1>2. ASSUME NEW t \in Threads, Acts(t) PROVE MakersInv'
  <2>1. Makers'
    BY <1>1, <1>2, MakersKept
  <2>2. ASSUME NEW u \in Threads, u # t PROVE Vetted(u)'
    <3>1. ThreadVars(u)' = ThreadVars(u)
      BY <1>1, <1>2, <2>2, OthersUnmoved
    <3> QED
      BY <1>1, <3>1 DEF Vetted, ThreadVars, Sound
  <2>3. Vetted(t)'
    BY <1>1, <1>2, VettedKept
  <2> QED
    BY <2>1, <2>2, <2>3 DEF MakersInv
<1>3. CASE UNCHANGED vars
  BY <1>1, <1>3 DEF MakersInv, Makers, Vetted, Sound, vars, moduleVars, extVars
<1> QED
  BY <1>2, <1>3 DEF Next, AllDone, Acts

\* One initialiser at a time for one type, with no parser in its OnceLock.
LEMMA OneMaker == Spec => []MakersInv
<1> QED
  BY InitMakers, NextMakers, Invariance, PTL DEF Spec

-----------------------------------------------------------------------------
(* The refinement of ParserCache.                                          *)

\* Which thread is at what, and which is doomed, as the promise has it.
LEMMA PhaseMoves ==
  ASSUME NEW t \in Threads, Typed, Acts(t)
  PROVE  /\ phases[t] = Phase(pc[t])
         /\ phases' = [phases EXCEPT ![t] = Phase(pc'[t])]
<1>1. \A u \in Threads : u # t => pc'[u] = pc[u]
  BY OthersUnmoved DEF ThreadVars
<1> QED
  BY <1>1 DEF phases

LEMMA DoomMoves ==
  ASSUME NEW t \in Threads, Typed, Acts(t)
  PROVE  /\ t \in doomedThreads <=> Doomed(t)
         /\ (Doomed(t)' <=> Doomed(t)) => doomedThreads' = doomedThreads
         /\ ~Doomed(t)' => doomedThreads' = doomedThreads \ {t}
         /\ Doomed(t)' => doomedThreads' = doomedThreads \union {t}
<1>1. ASSUME NEW u \in Threads, u # t PROVE Doomed(u)' <=> Doomed(u)
  <2>1. ThreadVars(u)' = ThreadVars(u)
    BY <1>1, OthersUnmoved
  <2>2. /\ pc'[u] = pc[u] /\ module'[u] = module[u]
        /\ pending'[u] = pending[u] /\ base'[u] = base[u]
    BY <2>1 DEF ThreadVars
  <2> QED
    BY <2>2 DEF Doomed
<1>2. /\ doomedThreads = {u \in Threads : Doomed(u)}
      /\ doomedThreads' = {u \in Threads : Doomed(u)'}
  BY DEF doomedThreads
<1> HIDE DEF Doomed
<1> QED
  BY <1>1, <1>2

\* Steps that leave the functions alone, but for the end of a thread.
LEMMA RestsDoom ==
  ASSUME NEW t \in Threads, Typed, Rests(t), ~ThreadEnds(t)
  PROVE  Doomed(t)' <=> Doomed(t)
<1>1. /\ module'[t] = module[t] /\ pending'[t] = pending[t]
      /\ pc[t] # "define" /\ pc'[t] # "define"
  BY DEF Rests, Call, RunParser, ExtBegin, Compiled, DumpOpens,
         NoDump, DumpLock, DumpWrite, Goto, Typed, moduleVars
<1> QED
  BY <1>1 DEF Doomed

\* A panic on the way leaves what was doomed so; at the end it is over.
LEMMA PanicDoom ==
  ASSUME NEW t \in Threads, Typed, ThreadInv(t), PanicSteps(t)
  PROVE  IF FinalizePanics(t) THEN Doomed(t) /\ ~Doomed(t)'
         ELSE Doomed(t) => Doomed(t)'
<1>1. CASE FinalizePanics(t)
  <2>1. Doomed(t)
    BY <1>1 DEF FinalizePanics, Resolvable, Doomed
  <2>2. pending'[t] = {}
    BY <1>1, Domains DEF FinalizePanics
  <2>3. ~Doomed(t)'
    BY <2>2 DEF Doomed
  <2> QED
    BY <1>1, <2>1, <2>3
<1>2. CASE ~FinalizePanics(t)
  <2>1. pending'[t] = pending[t] /\ pc'[t] = "idle"
    <3>1. pending'[t] = pending[t]
      BY <1>2 DEF PanicSteps, DefineNodePanics, DefineTopPanics
    <3> QED
      BY <3>1, PanicStepsLeave
  <2>2. Inside(module[t], pending[t]) /\ Linked(module[t], pending[t])
    BY InsidePlaced DEF ThreadInv
  <2>3. \A f \in DOMAIN module[t] : module'[t][f] = module[t][f]
    <3>1. CASE DefineNodePanics(t)
      BY <3>1 DEF DefineNodePanics
    <3>2. CASE DefineTopPanics(t)
      <4>1. key[t] \in Bodies
        BY DEF Typed, Bodies
      <4>2. module'[t] = Append(module[t], Declared(key[t]))
        BY <3>2, Domains DEF DefineTopPanics
      <4>3. TopOK(module[t], pending[t], Declared(key[t]), module'[t])
        BY <2>2, <4>1, <4>2, LinkedTopDeclared
      <4> QED
        BY <4>3 DEF TopOK
    <3> QED
      BY <1>2, <3>1, <3>2 DEF PanicSteps
  <2>4. ASSUME NEW f \in pending[t], NEW g \in module[t][f].callees,
               module[t][g].phase = "declared"
        PROVE  Doomed(t)'
    <3>1. f \in DOMAIN module[t] /\ g \in DOMAIN module[t]
      BY <2>2 DEF Inside
    <3>2. /\ f \in pending'[t] /\ g \in module'[t][f].callees
          /\ module'[t][g].phase = "declared"
      BY <2>1, <2>3, <2>4, <3>1
    <3> QED
      BY <2>1, <3>2 DEF Doomed
  <2> QED
    BY <1>2, <2>4 DEF Doomed
<1> QED
  BY <1>1, <1>2

LEMMA CacheInit == Init => Cache!Init
<1> SUFFICES ASSUME Init PROVE Cache!Init
  OBVIOUS
<1>1. phases = [t \in Threads |-> "idle"]
  BY DEF Init, phases, Phase
<1>2. key \in [Threads -> Keys] /\ parser = [k \in Keys |-> NoParser]
  BY InitTyped DEF Typed, Init
<1>3. doomedThreads = {}
  BY DEF Init, doomedThreads, Doomed
<1> QED
  BY <1>1, <1>2, <1>3 DEF Cache!Init

\* The steps of a call on its way to a parser.
LEMMA CacheCall ==
  ASSUME NEW t \in Threads, Typed, ThreadInv(t), HandedOut, MakersInv,
         RunParser(t) \/ ExtBegin(t) \/ \E k \in Keys : Call(t, k)
  PROVE  Cache!Next
<1>1. Acts(t) /\ Rests(t) /\ ~ThreadEnds(t) /\ key[t] \in Keys
  BY DEF Acts, Step, Rests, ThreadEnds, RunParser, ExtBegin, Call, Goto, Typed
<1>2. doomedThreads' = doomedThreads
  BY <1>1, RestsDoom, DoomMoves
<1>3. CASE RunParser(t)
  <2>1. /\ pc[t] = "getParser" /\ pc'[t] = "idle" /\ ext[key[t]] = "done"
        /\ UNCHANGED <<key, parser>>
    BY <1>3, Domains DEF RunParser, Goto, extVars
  <2>2. Cache!Moves(t, "asks", "idle")
    BY <1>1, <2>1, PhaseMoves DEF Cache!Moves, Phase, Making
  <2>3. parser[key[t]] # NoParser
    <3>1. parser[key[t]][1] \in Threads
      BY <1>1, <2>1 DEF HandedOut
    <3>2. NoParser[1] = NoThread /\ NoThread \notin Threads
      BY JitAssumption DEF NoParser
    <3> QED
      BY <3>1, <3>2
  <2>4. Cache!Serve(t)
    BY <1>2, <2>1, <2>2, <2>3 DEF Cache!Serve
  <2> QED
    BY <2>4 DEF Cache!Next
<1>4. CASE ExtBegin(t)
  <2>1. /\ pc[t] = "getParser" /\ pc'[t] = "collect" /\ ext[key[t]] = "empty"
        /\ UNCHANGED <<key, parser>>
    BY <1>4, Domains DEF ExtBegin, Goto
  <2>2. Cache!Moves(t, "asks", "makes")
    BY <1>1, <2>1, PhaseMoves DEF Cache!Moves, Phase, Making
  <2>3. parser[key[t]] = NoParser
    BY <1>1, <2>1 DEF MakersInv, Makers
  <2>4. \A u \in Threads : ~(phases[u] = "makes" /\ key[u] = key[t])
    <3>1. \A u \in Threads : phases[u] = "makes" => pc[u] \in Making
      BY DEF phases, Phase
    <3> QED
      BY <2>1, <3>1 DEF MakersInv, Makers
  <2>5. Cache!Begin(t)
    BY <1>2, <2>1, <2>2, <2>3, <2>4 DEF Cache!Begin
  <2> QED
    BY <2>5 DEF Cache!Next
<1>5. ASSUME NEW k \in Keys, Call(t, k) PROVE Cache!Next
  <2>1. /\ pc[t] = "idle" /\ pc'[t] = "getParser"
        /\ key' = [key EXCEPT ![t] = k] /\ parser' = parser
    BY <1>5, Domains DEF Call, Goto, extVars
  <2>2. Cache!Moves(t, "idle", "asks")
    BY <1>1, <2>1, PhaseMoves DEF Cache!Moves, Phase, Making
  <2>3. Cache!Ask(t, k)
    BY <1>2, <2>1, <2>2 DEF Cache!Ask
  <2> QED
    BY <2>3 DEF Cache!Next
<1> QED
  BY <1>3, <1>4, <1>5

\* The way out of the initialiser with a parser.
LEMMA CacheMake ==
  ASSUME NEW t \in Threads, Typed, Typed', MakersInv, Compiled(t)
  PROVE  Cache!Next
<1>1. Acts(t) /\ Rests(t) /\ ~ThreadEnds(t) /\ key[t] \in Keys
  BY DEF Acts, Step, Rests, ThreadEnds, Compiled, Goto, Typed
<1>2. /\ pc[t] = "announce" /\ pc'[t] = "getParser" /\ key' = key
      /\ parser' = [parser EXCEPT ![key[t]] = <<t, Top(t)>>]
  BY Domains DEF Compiled, Goto
<1>3. Cache!Moves(t, "makes", "asks")
  BY <1>1, <1>2, PhaseMoves DEF Cache!Moves, Phase, Making
<1>4. key[t] \in soundTypes
  BY <1>1, <1>2 DEF MakersInv, Vetted, soundTypes
<1>5. pending[t] = {}
  BY <1>2 DEF MakersInv, Vetted
<1>6. t \notin doomedThreads /\ doomedThreads' = doomedThreads
  <2>1. ~Doomed(t)
    BY <1>5 DEF Doomed
  <2> QED
    BY <1>1, <2>1, RestsDoom, DoomMoves
<1>7. parser[key[t]] = NoParser
  BY <1>1, <1>2 DEF MakersInv, Makers, Making
<1>8. parser'[key[t]] = <<t, Top(t)>> /\ <<t, Top(t)>> # NoParser
  BY <1>1, <1>2, JitAssumption DEF Typed, NoParser
<1>9. parser' = [parser EXCEPT ![key[t]] = parser'[key[t]]]
  BY <1>2, <1>8
<1>10. Cache!Make(t)
  BY <1>2, <1>3, <1>4, <1>6, <1>7, <1>8, <1>9 DEF Cache!Make
<1> QED
  BY <1>10 DEF Cache!Next

\* The way out by a panic: the type's own fault, or an earlier one's.
LEMMA CachePanic ==
  ASSUME NEW t \in Threads, Typed, ThreadInv(t), MakersInv, PanicSteps(t)
  PROVE  Cache!Next
<1>1. Acts(t) /\ key[t] \in Keys
  BY DEF Acts, Step, PanicSteps, Typed
<1>2. pc[t] \in Making /\ pc'[t] = "idle" /\ UNCHANGED <<key, parser>>
  BY PanicStepsLeave
<1>3. Cache!Moves(t, "makes", "idle")
  BY <1>1, <1>2, PhaseMoves DEF Cache!Moves, Phase, Making
<1>4. CASE FinalizePanics(t)
  <2>1. t \in doomedThreads /\ doomedThreads' = doomedThreads \ {t}
    BY <1>1, <1>4, PanicDoom, DoomMoves
  <2>2. Cache!Pay(t)
    BY <1>2, <1>3, <2>1 DEF Cache!Pay
  <2> QED
    BY <2>2 DEF Cache!Next
<1>5. CASE ~FinalizePanics(t)
  <2>1. key[t] \notin soundTypes
    BY <1>5, SoundPanics DEF PanicSteps, soundTypes
  <2>2. doomedThreads' \in {doomedThreads, doomedThreads \union {t}}
    <3>1. Doomed(t) => Doomed(t)'
      BY <1>5, PanicDoom
    <3>2. CASE Doomed(t)'
      BY <1>1, <3>2, DoomMoves
    <3>3. CASE ~Doomed(t)'
      BY <1>1, <3>1, <3>3, DoomMoves
    <3> QED
      BY <3>2, <3>3
  <2>3. Cache!Break(t)
    BY <1>2, <1>3, <2>1, <2>2 DEF Cache!Break
  <2> QED
    BY <2>3 DEF Cache!Next
<1> QED
  BY <1>4, <1>5

\* Work that nobody sees: a doomed thread may be so without having failed yet.
LEMMA CacheWork ==
  ASSUME NEW t \in Threads, Typed, Typed', ThreadInv(t), Works(t)
  PROVE  UNCHANGED Cache!vars
<1>1. Acts(t)
  BY DEF Works, Acts, Step
<1>2. pc[t] \in Making /\ pc'[t] \in Making /\ UNCHANGED <<key, parser>>
  BY WorksMakes
<1>3. phases' = phases
  <2>1. /\ DOMAIN phases = Threads
        /\ phases[t] = Phase(pc[t]) /\ Phase(pc[t]) = Phase(pc'[t])
        /\ phases' = [phases EXCEPT ![t] = Phase(pc'[t])]
    <3>1. Phase(pc[t]) = "makes" /\ Phase(pc'[t]) = "makes"
      BY <1>2 DEF Phase, Making
    <3> QED
      BY <1>1, <3>1, PhaseMoves DEF phases
  <2>2. phases = [phases EXCEPT ![t] = phases[t]]
    BY DEF phases
  <2> QED
    BY <2>1, <2>2
<1>4. Doomed(t)' <=> Doomed(t)
  <2>1. CASE Declare(t)
    BY <2>1, DeclareInv
  <2>2. CASE DefineNode(t)
    BY <2>2, DefineNodeInv
  <2>3. CASE DefineTop(t)
    BY <2>3, DefineTopInv
  <2>4. CASE Finalize(t)
    <3>1. pc[t] = "finalize" /\ Resolvable(t) /\ pending'[t] = {}
      BY <2>4, Domains DEF Finalize, Goto
    <3>2. ~Doomed(t)
      BY <3>1 DEF Resolvable, Doomed
    <3>3. ~Doomed(t)'
      BY <3>1 DEF Doomed
    <3> QED
      BY <3>2, <3>3
  <2>5. CASE DumpOpens(t) \/ NoDump(t) \/ DumpLock(t) \/ DumpWrite(t)
    <3>1. Rests(t) /\ ~ThreadEnds(t)
      BY <1>2, <2>5 DEF Rests, ThreadEnds, Making
    <3> QED
      BY <3>1, RestsDoom
  <2> QED
    BY <2>1, <2>2, <2>3, <2>4, <2>5 DEF Works
<1>5. doomedThreads' = doomedThreads
  BY <1>1, <1>4, DoomMoves
<1> QED
  BY <1>2, <1>3, <1>5 DEF Cache!vars

\* A thread ends, and nothing is left of its failures.
LEMMA CacheEnd ==
  ASSUME NEW t \in Threads, Typed, ThreadEnds(t)
  PROVE  Cache!Next
<1>1. Acts(t)
  BY DEF Acts
<1>2. /\ pc[t] = "idle" /\ pc' = pc /\ pending'[t] = {}
      /\ UNCHANGED <<key, parser>>
  BY Domains DEF ThreadEnds, extVars
<1>3. phases' = phases /\ phases[t] = "idle"
  BY <1>2 DEF phases, Phase
<1>4. doomedThreads' = doomedThreads \ {t}
  <2>1. ~Doomed(t)'
    BY <1>2 DEF Doomed
  <2> QED
    BY <1>1, <2>1, DoomMoves
<1>5. Cache!Renew(t)
  BY <1>2, <1>3, <1>4 DEF Cache!Renew
<1> QED
  BY <1>5 DEF Cache!Next

\* compile_parser and Resolved::ext implement the cache of parsers: one maker
\* at a time for a type, a parser that stays once it is there, and failures
\* that their type or the one before on the same thread accounts for.
THEOREM ParsersKept == Spec => ImplementsParserCache
<1>1. Init => Cache!Init
  BY CacheInit
<1>2. IInv /\ IInv' /\ MakersInv /\ [Next]_vars => [Cache!Next]_Cache!vars
  <2> SUFFICES ASSUME IInv, IInv', MakersInv, [Next]_vars
               PROVE  Cache!Next \/ UNCHANGED Cache!vars
    OBVIOUS
  <2>1. Typed /\ Typed' /\ HandedOut /\ \A t \in Threads : ThreadInv(t)
    BY DEF IInv
  <2>2. ASSUME NEW t \in Threads, Acts(t)
        PROVE  Cache!Next \/ UNCHANGED Cache!vars
    <3>1. CASE RunParser(t) \/ ExtBegin(t) \/ \E k \in Keys : Call(t, k)
      BY <2>1, <3>1, CacheCall
    <3>2. CASE Compiled(t)
      BY <2>1, <3>2, CacheMake
    <3>3. CASE PanicSteps(t)
      BY <2>1, <3>3, CachePanic
    <3>4. CASE Works(t)
      BY <2>1, <3>4, CacheWork
    <3>5. CASE ThreadEnds(t)
      BY <2>1, <3>5, CacheEnd
    <3> QED
      BY <2>2, <3>1, <3>2, <3>3, <3>4, <3>5 DEF Acts, Step, Works, PanicSteps
  <2>3. CASE UNCHANGED vars
    BY <2>3 DEF vars, moduleVars, extVars, Cache!vars, phases, doomedThreads,
                Doomed
  <2> QED
    BY <2>2, <2>3 DEF Next, AllDone, Acts
<1> QED
  BY <1>1, <1>2, Invariance, OneMaker, PTL DEF Spec, ImplementsParserCache, Cache!Spec
=============================================================================
