-------------------------- MODULE ScannersProofs --------------------------
(***************************************************************************)
(* Theorems about Scanners, for any strings, integers and members: what is *)
(* read is what was meant.                                                 *)
(*                                                                         *)
(* The invariant says for every block of code what has been read so far.   *)
(* The definitions that it is compared with, FlattenSeq, MeantFrom and     *)
(* UpTo, are recursive functions; that they exist, and are what they say,  *)
(* is proved here first, each by a least counterexample.                   *)
(***************************************************************************)
EXTENDS Scanners, WellFoundedInduction, SequenceTheorems, FiniteSetTheorems, TLAPS
-----------------------------------------------------------------------------
(* The least of a set of numbers, and sequences.                           *)

\* Min, by which the model finds the end of blanks and the closing quote.
LEMMA MinIs ==
  ASSUME NEW S, S \subseteq Nat, S # {}
  PROVE  Min(S) \in S /\ \A y \in S : Min(S) <= y
<1>1. PICK x \in S : \A y \in S : ~(<<y, x>> \in OpToRel(<, Nat))
  BY WFMin, NatLessThanWellFounded, Zenon
<1>2. ASSUME NEW y \in S
      PROVE  x <= y
  <2>1. <<y, x>> \notin OpToRel(<, Nat)
    BY <1>1, Zenon
  <2>2. x \in Nat /\ y \in Nat
    OBVIOUS
  <2>3. ~(y < x)
    BY <2>1, <2>2, Zenon DEF OpToRel
  <2> QED
    BY <2>2, <2>3
<1> QED
  BY <1>2, Zenon DEF Min

\* Min of two, by which the cursor is held back at the end of the document.
LEMMA MinOfTwo ==
  ASSUME NEW a \in Nat, NEW b \in Nat
  PROVE  Min({a, b}) \in Nat /\ Min({a, b}) <= b
         /\ (Min({a, b}) = a \/ Min({a, b}) = b)
<1>1. {a, b} \subseteq Nat /\ {a, b} # {}
  OBVIOUS
<1>2. Min({a, b}) \in {a, b} /\ \A y \in {a, b} : Min({a, b}) <= y
  BY <1>1, MinIs, Zenon
<1> QED
  BY <1>2

-----------------------------------------------------------------------------
(* Induction and recursion over numbers, by least counterexamples.         *)

\* A set of numbers that has 0, and the next of each of its numbers up to N.
LEMMA UpToAll ==
  ASSUME NEW N \in Nat, NEW S, 0 \in S,
         \A n \in 0..(N - 1) : n \in S => n + 1 \in S
  PROVE  0..N \subseteq S
<1> DEFINE bad == (0..N) \ S
<1> SUFFICES ASSUME bad # {} PROVE FALSE
  OBVIOUS
<1>1. bad \subseteq Nat
  OBVIOUS
<1> DEFINE m == Min(bad)
<1>2. m \in bad /\ \A y \in bad : m <= y
  BY <1>1, MinIs
<1> HIDE DEF m
<1>3. m \in 0..N /\ m \notin S /\ m # 0
  BY <1>2
<1>4. m - 1 \in 0..(N - 1) /\ (m - 1) + 1 = m /\ ~(m <= m - 1)
  BY <1>3
<1>5. m - 1 \in S
  BY <1>2, <1>4
<1> QED
  BY <1>3, <1>4, <1>5

\* A value for 0, and for each number a value by that of the one before.
Recurs(f, N, base, step) ==
  f[0] = base /\ \A n \in 1..N : f[n] = step[<<n, f[n - 1]>>]

\* There is such a function.
LEMMA NatRecursion ==
  ASSUME NEW N \in Nat, NEW R, NEW base \in R, NEW step \in [Nat \X R -> R]
  PROVE  \E f \in [0..N -> R] : Recurs(f, N, base, step)
<1> DEFINE Good(f, k) ==
             f[0] = base /\ \A n \in 1..k : f[n] = step[<<n, f[n - 1]>>]
           S == {k \in Nat : \E f \in [0..k -> R] : Good(f, k)}
<1>1. 0 \in S
  <2> DEFINE f == [n \in 0..0 |-> base]
  <2>1. f \in [0..0 -> R] /\ Good(f, 0)
    OBVIOUS
  <2> QED
    BY <2>1
<1>2. ASSUME NEW k \in 0..(N - 1), k \in S
      PROVE  k + 1 \in S
  <2>1. PICK g \in [0..k -> R] : Good(g, k)
    BY <1>2
  <2> DEFINE h == [n \in 0..(k + 1) |->
                     IF n = k + 1 THEN step[<<k + 1, g[k]>>] ELSE g[n]]
  <2>2. k \in Nat /\ g[k] \in R /\ step[<<k + 1, g[k]>>] \in R
    OBVIOUS
  <2>3. h \in [0..(k + 1) -> R]
    BY <2>2
  <2>4. h[0] = base
    BY <2>1, <2>2
  <2>5. ASSUME NEW n \in 1..(k + 1) PROVE h[n] = step[<<n, h[n - 1]>>]
    <3>1. CASE n = k + 1
      <4>1. h[n] = step[<<k + 1, g[k]>>] /\ h[n - 1] = g[k]
        BY <2>2, <3>1
      <4> QED
        BY <3>1, <4>1
    <3>2. CASE n # k + 1
      <4>1. n \in 1..k /\ h[n] = g[n] /\ h[n - 1] = g[n - 1]
        BY <2>2, <3>2
      <4> QED
        BY <2>1, <4>1
    <3> QED
      BY <3>1, <3>2
  <2> HIDE DEF h
  <2>6. Good(h, k + 1)
    BY <2>4, <2>5
  <2> QED
    BY <2>2, <2>3, <2>6
<1> HIDE DEF S
<1>3. 0..N \subseteq S
  BY <1>1, <1>2, UpToAll
<1>4. N \in S
  BY <1>3
<1> QED
  BY <1>4 DEF S, Recurs

-----------------------------------------------------------------------------
(* Arithmetic of words.                                                    *)

\* What is left of a number by W is left of what differs by a multiple of W.
LEMMA ModShift ==
  ASSUME NEW W \in Nat \ {0}, NEW q \in Int, NEW x \in Int
  PROVE  (W * q + x) % W = x % W
<1>1. PICK p \in Int, s \in 0..(W - 1) : x = W * p + s
  <2>1. x \div W \in Int /\ x % W \in 0..(W - 1)
        /\ x = W * (x \div W) + (x % W)
    OBVIOUS
  <2> QED
    BY <2>1
<1>2. (W * p + s) % W = s
  OBVIOUS
<1>3. W * q + x = W * (q + p) + s
  BY <1>1
<1>4. q + p \in Int
  OBVIOUS
<1>5. (W * (q + p) + s) % W = s
  BY <1>4
<1> QED
  BY <1>1, <1>2, <1>3, <1>5

\* An accumulator that wraps is the number but for the bits it does not have.
LEMMA ModStep ==
  ASSUME NEW W \in Nat \ {0}, NEW a \in Nat, NEW d \in Nat
  PROVE  ((a % W) * 10 + d) % W = (a * 10 + d) % W
<1> DEFINE q == a \div W
           r == a % W
<1>1. q \in Int /\ r \in Int /\ a = W * q + r
  OBVIOUS
<1> HIDE DEF q, r
<1>2. a * 10 + d = W * (q * 10) + (r * 10 + d)
  BY <1>1
<1>3. q * 10 \in Int /\ r * 10 + d \in Int
  BY <1>1
<1>4. (W * (q * 10) + (r * 10 + d)) % W = (r * 10 + d) % W
  BY <1>3, ModShift
<1> QED
  BY <1>2, <1>4 DEF r

\* Negated in a word.
LEMMA ModNeg ==
  ASSUME NEW W \in Nat \ {0}, NEW a \in Nat
  PROVE  (W - (a % W)) % W = (-a) % W
<1> DEFINE q == a \div W
           r == a % W
<1>1. q \in Int /\ r \in Int /\ a = W * q + r
  OBVIOUS
<1> HIDE DEF q, r
<1>2. W - r = W * (q + 1) + (-a)
  BY <1>1
<1>3. q + 1 \in Int /\ -a \in Int
  BY <1>1
<1>4. (W * (q + 1) + (-a)) % W = (-a) % W
  BY <1>3, ModShift
<1> QED
  BY <1>2, <1>4 DEF r

\* The low bits of the low bits.
LEMMA ModMod ==
  ASSUME NEW B \in Nat \ {0}, NEW m \in Nat \ {0}, NEW x \in Int
  PROVE  B * m \in Nat \ {0} /\ (x % (B * m)) % B = x % B
<1> DEFINE W == B * m
<1>1. W \in Nat \ {0}
  OBVIOUS
<1> DEFINE q == x \div W
           r == x % W
<1>2. q \in Int /\ r \in Int /\ x = W * q + r
  <2> HIDE DEF W
  <2> QED
    BY <1>1
<1> HIDE DEF q, r
<1>3. W * q = B * (m * q)
  BY <1>2
<1>4. m * q \in Int
  BY <1>2
<1>5. (B * (m * q) + r) % B = r % B
  BY <1>2, <1>4, ModShift
<1> QED
  BY <1>1, <1>2, <1>3, <1>5 DEF r

\* Powers of two, as far as the accumulator has bits.
LEMMA Powers ==
  /\ \A n \in 0..IntBits : 2^n \in Nat \ {0}
  /\ \A n \in 0..IntBits : \E m \in Nat \ {0} : 2^IntBits = 2^n * m
<1>1. IntBits \in Nat \ {0}
  BY TaskAssumption
<1>2. 2^0 = 1 /\ \A n \in 1..IntBits : 2^n = 2 * 2^(n - 1)
  BY PowerAssumption
<1> DEFINE S == {n \in Nat : 2^n \in Nat \ {0}}
<1>3. 0 \in S
  BY <1>2
<1>4. ASSUME NEW n \in 0..(IntBits - 1), n \in S PROVE n + 1 \in S
  <2>1. n + 1 \in 1..IntBits /\ (n + 1) - 1 = n
    BY <1>1
  <2>2. 2^(n + 1) = 2 * 2^((n + 1) - 1)
    BY <1>2, <2>1
  <2> DEFINE a == 2^n
             b == 2^(n + 1)
  <2>3. a \in Nat \ {0} /\ b = 2 * a
    BY <1>4, <2>1, <2>2
  <2> HIDE DEF a, b
  <2>4. b \in Nat \ {0}
    BY <2>3
  <2> QED
    BY <2>1, <2>4 DEF b
<1>5. 0..IntBits \subseteq S
  <2> HIDE DEF S
  <2> QED
    BY <1>1, <1>3, <1>4, UpToAll
<1> DEFINE T == {k \in Nat : k <= IntBits =>
                   \E m \in Nat \ {0} : 2^IntBits = 2^(IntBits - k) * m}
<1>6. 0 \in T
  <2>1. IntBits - 0 = IntBits /\ 2^IntBits \in Nat
    BY <1>1, <1>5
  <2> DEFINE a == 2^IntBits
  <2>2. a = a * 1
    <3>1. a \in Nat
      BY <2>1
    <3> HIDE DEF a
    <3> QED
      BY <3>1
  <2> QED
    BY <2>1, <2>2
<1>7. ASSUME NEW k \in 0..(IntBits - 1), k \in T PROVE k + 1 \in T
  <2> DEFINE n == IntBits - k
  <2>1. n \in 1..IntBits /\ IntBits - (k + 1) = n - 1 /\ n - 1 \in 0..IntBits
    BY <1>1
  <2>2. PICK m \in Nat \ {0} : 2^IntBits = 2^n * m
    BY <1>1, <1>7
  <2> DEFINE a == 2^(n - 1)
             b == 2^n
  <2>3. a \in Nat /\ b = 2 * a
    BY <1>2, <1>5, <2>1
  <2> HIDE DEF a, b
  <2>4. b * m = a * (2 * m) /\ 2 * m \in Nat \ {0}
    BY <2>3
  <2>5. 2^IntBits = 2^(n - 1) * (2 * m)
    BY <2>2, <2>4 DEF a, b
  <2> QED
    BY <1>1, <2>1, <2>4, <2>5
<1>8. 0..IntBits \subseteq T
  <2> HIDE DEF T
  <2> QED
    BY <1>1, <1>6, <1>7, UpToAll
<1>9. ASSUME NEW n \in 0..IntBits
      PROVE  \E m \in Nat \ {0} : 2^IntBits = 2^n * m
  <2>1. IntBits - n \in 0..IntBits /\ IntBits - (IntBits - n) = n
    BY <1>1
  <2>2. IntBits - n \in T
    BY <1>8, <2>1
  <2> QED
    BY <2>1, <2>2
<1> QED
  BY <1>5, <1>9

-----------------------------------------------------------------------------
(* The bytes of a task.                                                    *)

\* Bytes are strings; that these are is not known to the provers.
Bytes == STRING \union {"ws", "quote", "colon", "plus", "minus"} \union DOMAIN Digit

\* What the assumption types as strings.
LEMMA BytesOf ==
  ASSUME NEW s \in Seq(STRING)
  PROVE  s \in Seq(Bytes)
<1>1. STRING \subseteq Bytes
  BY Zenon DEF Bytes
<1> QED
  BY <1>1, SeqMonotonic, Zenon

\* Sequences of one byte.
LEMMA Single ==
  ASSUME NEW S, NEW b \in S
  PROVE  <<b>> \in Seq(S) /\ Len(<<b>>) = 1 /\ <<b>>[1] = b
OBVIOUS

\* off says where the parts of S end in the whole of them.
Laid(S, off) ==
  /\ off[0] = 0 /\ Len(FlattenSeq(S)) = off[Len(S)]
  /\ \A n \in 1..Len(S) : off[n] = off[n - 1] + Len(S[n])
  /\ \A n \in 1..Len(S) : \A j \in 1..Len(S[n]) :
       FlattenSeq(S)[off[n - 1] + j] = S[n][j]

Offsets(S) == CHOOSE off \in [0..Len(S) -> Nat] : Laid(S, off)

\* FlattenSeq puts the parts one behind the other.
LEMMA Flattened ==
  ASSUME NEW S \in Seq(Seq(Bytes))
  PROVE  /\ FlattenSeq(S) \in Seq(Bytes)
         /\ Offsets(S) \in [0..Len(S) -> Nat]
         /\ Laid(S, Offsets(S))
<1> DEFINE N == Len(S)
           R == Seq(Bytes)
<1>0. N \in Nat
  BY LenProperties
<1>1. \A n \in 1..N : S[n] \in R /\ Len(S[n]) \in Nat
  BY ElementOfSeq, LenProperties
<1> DEFINE lens == [x \in Nat \X Nat |->
                      IF x[1] \in 1..N THEN x[2] + Len(S[x[1]]) ELSE 0]
           join == [x \in Nat \X R |->
                      IF x[1] \in 1..N
                      THEN IF x[1] = 1 THEN S[1] ELSE x[2] \o S[x[1]] ELSE <<>>]
<1>5. FlattenSeq(S) = IF N = 0 THEN S
          ELSE (CHOOSE f : f = [q \in 1..N |->
                            IF q = 1 THEN S[q] ELSE f[q - 1] \o S[q]])[N]
  BY Zenon DEF FlattenSeq
<1> HIDE DEF N
<1>2. PICK off \in [0..N -> Nat] :
        off[0] = 0 /\ \A n \in 1..N : off[n] = off[n - 1] + Len(S[n])
  <2>1. lens \in [Nat \X Nat -> Nat]
    BY <1>1
  <2> HIDE DEF lens
  <2>2. PICK f \in [0..N -> Nat] : Recurs(f, N, 0, lens)
    <3>1. 0 \in Nat
      OBVIOUS
    <3> QED
      BY <1>0, <2>1, <3>1, NatRecursion, Zenon
  <2>3. ASSUME NEW n \in 1..N PROVE f[n] = f[n - 1] + Len(S[n])
    <3>1. n - 1 \in 0..N /\ f[n - 1] \in Nat
      BY <1>0
    <3>2. lens[<<n, f[n - 1]>>] = f[n - 1] + Len(S[n])
      BY <3>1 DEF lens
    <3> QED
      BY <2>2, <3>2 DEF Recurs
  <2> QED
    BY <2>2, <2>3 DEF Recurs
<1>3. PICK g \in [0..N -> R] :
        \A n \in 1..N : g[n] = IF n = 1 THEN S[n] ELSE g[n - 1] \o S[n]
  <2>1. join \in [Nat \X R -> R]
    <3> SUFFICES ASSUME NEW x \in Nat \X R PROVE join[x] \in R
      OBVIOUS
    <3>1. x[2] \in R /\ <<>> \in R
      BY EmptySeq
    <3>2. x[1] \in 1..N => x[2] \o S[x[1]] \in R
      BY <1>1, <3>1, ConcatProperties
    <3>3. x[1] \in 1..N => S[1] \in R
      <4>1. x[1] \in 1..N => 1 \in 1..N
        BY <1>0
      <4> QED
        BY <1>1, <4>1
    <3> QED
      BY <3>1, <3>2, <3>3
  <2> HIDE DEF join
  <2>2. <<>> \in R
    BY EmptySeq
  <2> HIDE DEF R
  <2>3. PICK f \in [0..N -> R] : Recurs(f, N, <<>>, join)
    BY <1>0, <2>1, <2>2, NatRecursion, Zenon
  <2>4. ASSUME NEW n \in 1..N
        PROVE  f[n] = IF n = 1 THEN S[n] ELSE f[n - 1] \o S[n]
    <3>1. n - 1 \in 0..N /\ f[n - 1] \in R
      BY <1>0
    <3>2. join[<<n, f[n - 1]>>] = IF n = 1 THEN S[1] ELSE f[n - 1] \o S[n]
      BY <3>1 DEF join
    <3> QED
      BY <2>3, <3>2 DEF Recurs
  <2> QED
    BY <2>4
<1> DEFINE Is(f) == f = [q \in 1..N |->
                            IF q = 1 THEN S[q] ELSE f[q - 1] \o S[q]]
           F == CHOOSE f : Is(f)
<1>4. Is(F)
  <2> DEFINE h == [q \in 1..N |-> g[q]]
  <2>1. ASSUME NEW n \in 1..N
        PROVE  h[n] = IF n = 1 THEN S[n] ELSE h[n - 1] \o S[n]
    <3>1. n # 1 => n - 1 \in 1..N /\ h[n - 1] = g[n - 1]
      BY <1>0
    <3> QED
      BY <1>3, <3>1
  <2>2. h = [q \in 1..N |-> h[q]]
    OBVIOUS
  <2> HIDE DEF h
  <2>3. Is(h)
    BY <2>1, <2>2
  <2> QED
    BY <2>3, Zenon
<1>11. FlattenSeq(S) = IF N = 0 THEN S ELSE F[N]
  BY <1>5, Zenon
<1> HIDE DEF F
<1>6. \A n \in 1..N : F[n] = IF n = 1 THEN S[n] ELSE F[n - 1] \o S[n]
  BY <1>4, Zenon
<1> HIDE DEF R, Is
<1> DEFINE Fits(n) ==
             /\ F[n] \in R /\ Len(F[n]) = off[n]
             /\ \A m \in 1..n : \A j \in 1..Len(S[m]) :
                  /\ off[m - 1] + j \in 1..off[n]
                  /\ F[n][off[m - 1] + j] = S[m][j]
           T == {n \in Nat : n \in 1..N => Fits(n)}
<1>7. 0 \in T
  OBVIOUS
<1>8. ASSUME NEW k \in 0..(N - 1), k \in T PROVE k + 1 \in T
  <2> DEFINE n == k + 1
  <2>1. n \in 1..N /\ n - 1 = k /\ k \in Nat /\ off[k] \in Nat /\ k \in 0..N
        /\ off[n] = off[k] + Len(S[n]) /\ S[n] \in R /\ Len(S[n]) \in Nat
    <3>1. n \in 1..N /\ n - 1 = k /\ k \in Nat /\ k \in 0..N
      BY <1>0
    <3> QED
      BY <1>1, <1>2, <3>1
  <2>4. n = k + 1
    OBVIOUS
  <2> HIDE DEF n
  <2>2. CASE k = 0
    <3>1. F[n] = S[n] /\ off[k] = 0 /\ off[n] = Len(S[n])
      BY <1>2, <1>6, <2>1, <2>2
    <3>2. \A m \in 1..n : m = n
      BY <2>2, <2>4
    <3>3. ASSUME NEW m \in 1..n, NEW j \in 1..Len(S[m])
          PROVE  /\ off[m - 1] + j \in 1..off[n]
                 /\ F[n][off[m - 1] + j] = S[m][j]
      <4>1. m = n /\ m - 1 = k
        BY <2>1, <3>2
      <4>2. off[m - 1] + j = j /\ j \in 1..off[n]
        BY <2>1, <3>1, <4>1
      <4> QED
        BY <3>1, <4>1, <4>2
    <3>4. Fits(n)
      BY <2>1, <3>1, <3>3
    <3> QED
      BY <2>4, <3>4
  <2>3. CASE k # 0
    <3>1. k \in 1..N /\ Fits(k)
      BY <1>8, <2>1, <2>3
    <3>2. F[n] = F[k] \o S[n]
      <4>1. n # 1
        BY <2>3, <2>4, <2>1
      <4>2. F[n] = F[n - 1] \o S[n]
        BY <1>6, <2>1, <4>1
      <4> QED
        BY <2>1, <4>2
    <3>3. /\ F[n] \in R /\ Len(F[n]) = Len(F[k]) + Len(S[n])
          /\ \A p \in 1..(Len(F[k]) + Len(S[n])) :
               F[n][p] = IF p <= Len(F[k]) THEN F[k][p] ELSE S[n][p - Len(F[k])]
      <4>1. F[k] \in Seq(Bytes) /\ S[n] \in Seq(Bytes)
        BY <2>1, <3>1 DEF R
      <4> DEFINE c == F[k] \o S[n]
      <4>2. /\ c \in Seq(Bytes) /\ Len(c) = Len(F[k]) + Len(S[n])
            /\ \A p \in 1..(Len(F[k]) + Len(S[n])) :
                 c[p] = IF p <= Len(F[k]) THEN F[k][p] ELSE S[n][p - Len(F[k])]
        BY <4>1, ConcatProperties, Zenon
      <4> QED
        BY <3>2, <4>2 DEF R
    <3>4. Len(F[n]) = off[n] /\ Len(F[k]) = off[k]
      BY <2>1, <3>1, <3>3
    <3>5. ASSUME NEW m \in 1..n, NEW j \in 1..Len(S[m])
          PROVE  /\ off[m - 1] + j \in 1..off[n]
                 /\ F[n][off[m - 1] + j] = S[m][j]
      <4>1. CASE m = n
        <5>1. off[m - 1] + j \in 1..off[n] /\ ~(off[k] + j <= off[k])
              /\ (off[k] + j) - off[k] = j
          BY <2>1, <4>1
        <5> QED
          BY <2>1, <3>3, <3>4, <4>1, <5>1
      <4>2. CASE m # n
        <5>1. m \in 1..k
          BY <2>1, <2>4, <4>2
        <5>2. off[m - 1] + j \in 1..off[k] /\ F[k][off[m - 1] + j] = S[m][j]
          BY <3>1, <5>1
        <5>3. off[m - 1] + j \in 1..off[n] /\ off[m - 1] + j <= off[k]
          BY <2>1, <5>2
        <5> QED
          BY <2>1, <3>3, <3>4, <5>2, <5>3
      <4> QED
        BY <4>1, <4>2
    <3>6. Fits(n)
      BY <3>3, <3>4, <3>5
    <3> QED
      BY <2>4, <3>6
  <2> QED
    BY <2>2, <2>3
<1>9. 0..N \subseteq T
  <2> HIDE DEF T
  <2> QED
    BY <1>0, <1>7, <1>8, UpToAll
<1>10. FlattenSeq(S) \in Seq(Bytes) /\ Laid(S, off)
  <2>1. CASE N = 0
    <3>1. FlattenSeq(S) = <<>> /\ Len(<<>>) = 0 /\ <<>> \in Seq(Bytes)
      BY <1>11, <2>1, EmptySeq DEF N
    <3> QED
      BY <1>2, <2>1, <3>1 DEF Laid, N
  <2>2. CASE N # 0
    <3>1. N \in 1..N /\ N \in T
      BY <1>0, <1>9, <2>2
    <3>2. Fits(N) /\ FlattenSeq(S) = F[N]
      BY <1>11, <2>2, <3>1
    <3> QED
      BY <1>2, <3>2 DEF Laid, R, N
  <2> QED
    BY <2>1, <2>2
<1>12. Offsets(S) \in [0..Len(S) -> Nat] /\ Laid(S, Offsets(S))
  <2>1. \E f \in [0..Len(S) -> Nat] : Laid(S, f)
    BY <1>10 DEF N
  <2> QED
    BY <2>1, Zenon DEF Offsets
<1> QED
  BY <1>10, <1>12

\* Offsets climb; by one at least, where no part is empty.
LEMMA OffsetsClimb ==
  ASSUME NEW S \in Seq(Seq(Bytes)), \A n \in 1..Len(S) : Len(S[n]) # 0,
         NEW n \in 0..Len(S), NEW m \in 0..Len(S), n <= m
  PROVE  /\ Offsets(S)[n] \in Nat /\ Offsets(S)[m] \in Nat
         /\ Offsets(S)[n] + (m - n) <= Offsets(S)[m]
<1> DEFINE N == Len(S)
           off == Offsets(S)
<1>0. N \in Nat
  BY LenProperties
<1>1. \A k \in 1..N : Len(S[k]) \in Nat \ {0}
  BY ElementOfSeq, LenProperties
<1>2. off \in [0..N -> Nat] /\ \A k \in 1..N : off[k] = off[k - 1] + Len(S[k])
  BY Flattened DEF Laid
<1>8. n \in 0..N /\ m \in 0..N
  OBVIOUS
<1> HIDE DEF off, N
<1> DEFINE T == {k \in Nat : n + k <= N => off[n] + k <= off[n + k]}
<1>3. 0 \in T
  <2>1. off[n] \in Nat /\ n + 0 = n
    BY <1>0, <1>2, <1>8
  <2> QED
    BY <2>1
<1>4. ASSUME NEW k \in 0..(N - 1), k \in T PROVE k + 1 \in T
  <2> SUFFICES ASSUME n + (k + 1) <= N
               PROVE  off[n] + (k + 1) <= off[n + (k + 1)]
    OBVIOUS
  <2>1. n + k \in 0..N /\ n + (k + 1) \in 1..N /\ (n + (k + 1)) - 1 = n + k
    BY <1>0, <1>8
  <2>2. off[n] + k <= off[n + k]
    BY <1>4, <2>1
  <2>3. off[n + (k + 1)] = off[n + k] + Len(S[n + (k + 1)])
    BY <1>2, <2>1
  <2>4. off[n] \in Nat /\ off[n + k] \in Nat /\ Len(S[n + (k + 1)]) \in Nat \ {0}
    <3>1. off[n] \in Nat /\ off[n + k] \in Nat
      BY <1>2, <1>8, <2>1
    <3>2. Len(S[n + (k + 1)]) \in Nat \ {0}
      BY <1>1, <2>1
    <3> QED
      BY <3>1, <3>2
  <2> QED
    BY <2>2, <2>3, <2>4
<1>5. 0..N \subseteq T
  <2> HIDE DEF T
  <2> QED
    BY <1>0, <1>3, <1>4, UpToAll
<1>6. m - n \in 0..N /\ n + (m - n) = m /\ m <= N
  BY <1>0, <1>8
<1>7. m - n \in T
  BY <1>5, <1>6
<1>9. off[n] + (m - n) <= off[m] /\ off[n] \in Nat /\ off[m] \in Nat
  BY <1>2, <1>6, <1>7, <1>8
<1> QED
  BY <1>9 DEF off

\* Every place is in a part.
LEMMA InSomePart ==
  ASSUME NEW S \in Seq(Seq(Bytes)), NEW p \in 1..Len(FlattenSeq(S))
  PROVE  \E n \in 1..Len(S) : \E j \in 1..Len(S[n]) : p = Offsets(S)[n - 1] + j
<1> DEFINE N == Len(S)
           off == Offsets(S)
<1>0. N \in Nat
  BY LenProperties
<1>1. \A k \in 1..N : Len(S[k]) \in Nat
  BY ElementOfSeq, LenProperties
<1>2. /\ off \in [0..N -> Nat] /\ off[0] = 0 /\ Len(FlattenSeq(S)) = off[N]
      /\ \A k \in 1..N : off[k] = off[k - 1] + Len(S[k])
  BY Flattened DEF Laid
<1>9. p \in 1..off[N] /\ off[N] \in Nat
  BY <1>0, <1>2
<1> HIDE DEF off, N
<1> DEFINE G == {n \in 0..N : p <= off[n]}
<1>3. N \in G /\ G \subseteq Nat
  BY <1>0, <1>9
<1> DEFINE n == Min(G)
<1>4. n \in G /\ \A k \in G : n <= k
  <2> HIDE DEF G
  <2> QED
    BY <1>3, MinIs
<1> HIDE DEF n
<1>5. n \in 1..N /\ n - 1 \in 0..N /\ off[n - 1] \in Nat /\ off[n] \in Nat
  <2>1. n \in 0..N /\ n # 0
    BY <1>2, <1>4, <1>9
  <2>2. n \in 1..N /\ n - 1 \in 0..N
    BY <1>0, <2>1
  <2> QED
    BY <1>2, <2>1, <2>2
<1>6. n - 1 \notin G
  BY <1>4, <1>5
<1>7. ~(p <= off[n - 1]) /\ p <= off[n] /\ off[n] = off[n - 1] + Len(S[n])
  BY <1>2, <1>4, <1>5, <1>6
<1>10. p \in Nat
  BY <1>9
<1> DEFINE j == p - off[n - 1]
<1>8. j \in 1..Len(S[n]) /\ p = off[n - 1] + j
  <2>1. p \in Nat /\ Len(S[n]) \in Nat
    BY <1>1, <1>5, <1>10
  <2> QED
    BY <1>5, <1>7, <2>1
<1> HIDE DEF j
<1> QED
  BY <1>5, <1>8 DEF off, N

\* And in no other.
LEMMA InOnePart ==
  ASSUME NEW S \in Seq(Seq(Bytes)), \A n \in 1..Len(S) : Len(S[n]) # 0,
         NEW n \in 1..Len(S), NEW j \in 1..Len(S[n]),
         NEW m \in 1..Len(S), NEW k \in 1..Len(S[m]),
         Offsets(S)[n - 1] + j = Offsets(S)[m - 1] + k
  PROVE  n = m /\ j = k
<1> DEFINE N == Len(S)
           off == Offsets(S)
<1>1. N \in Nat
  BY LenProperties
<1>2. Len(S[n]) \in Nat /\ Len(S[m]) \in Nat
  BY ElementOfSeq, LenProperties
<1>3. /\ off \in [0..N -> Nat]
      /\ off[n] = off[n - 1] + Len(S[n]) /\ off[m] = off[m - 1] + Len(S[m])
  BY Flattened DEF Laid
<1>4. n \in 1..N /\ m \in 1..N
  OBVIOUS
<1>5. /\ n \in 0..N /\ m \in 0..N /\ n - 1 \in 0..N /\ m - 1 \in 0..N
      /\ n \in Nat /\ m \in Nat
  <2> HIDE DEF N
  <2> QED
    BY <1>1, <1>4
<1>6. n <= m - 1 => off[n] + ((m - 1) - n) <= off[m - 1]
  BY <1>5, OffsetsClimb
<1>7. m <= n - 1 => off[m] + ((n - 1) - m) <= off[n - 1]
  BY <1>5, OffsetsClimb
<1>8. off[n - 1] + j = off[m - 1] + k
  OBVIOUS
<1>9. j \in 1..Len(S[n]) /\ k \in 1..Len(S[m])
  OBVIOUS
<1> DEFINE a == off[n - 1]
           b == off[m - 1]
           x == Len(S[n])
           y == Len(S[m])
<1>10. a \in Nat /\ b \in Nat /\ off[n] = a + x /\ off[m] = b + y
       /\ x \in Nat /\ y \in Nat
  <2> HIDE DEF off, N
  <2> QED
    BY <1>2, <1>3, <1>5
<1>11. a + j = b + k /\ j \in 1..x /\ k \in 1..y
       /\ (n <= m - 1 => (a + x) + ((m - 1) - n) <= b)
       /\ (m <= n - 1 => (b + y) + ((n - 1) - m) <= a)
  BY <1>6, <1>7, <1>8, <1>9, <1>10
<1> HIDE DEF off, N, a, b, x, y
<1>12. n = m
  BY <1>5, <1>10, <1>11
<1>13. a = b
  BY <1>12 DEF a, b
<1> QED
  BY <1>10, <1>11, <1>12, <1>13

\* b stands in s behind the first k bytes.
Stands(s, k, b) ==
  /\ k + Len(b) <= Len(s)
  /\ \A j \in 1..Len(b) : s[k + j] = b[j]

\* What stands in s stands in what begins with s, and so does what follows.
LEMMA StandsMore ==
  ASSUME NEW s \in Seq(Bytes), NEW t \in Seq(Bytes)
  PROVE  /\ s \o t \in Seq(Bytes) /\ Len(s \o t) = Len(s) + Len(t)
         /\ Len(s) \in Nat /\ Len(t) \in Nat
         /\ \A k \in Nat : \A b \in Seq(Bytes) :
              Stands(s, k, b) => Stands(s \o t, k, b)
         /\ Stands(s \o t, Len(s), t)
<1> DEFINE c == s \o t
<1>1. /\ c \in Seq(Bytes) /\ Len(c) = Len(s) + Len(t)
      /\ \A p \in 1..(Len(s) + Len(t)) :
           c[p] = IF p <= Len(s) THEN s[p] ELSE t[p - Len(s)]
  BY ConcatProperties, Zenon
<1>2. Len(s) \in Nat /\ Len(t) \in Nat
  BY LenProperties
<1> HIDE DEF c
<1>3. ASSUME NEW k \in Nat, NEW b \in Seq(Bytes), Stands(s, k, b)
      PROVE  Stands(c, k, b)
  <2>1. Len(b) \in Nat
    BY LenProperties
  <2>2. ASSUME NEW j \in 1..Len(b) PROVE c[k + j] = b[j]
    <3>1. k + j \in 1..(Len(s) + Len(t)) /\ k + j <= Len(s)
      BY <1>2, <1>3, <2>1 DEF Stands
    <3> QED
      BY <1>1, <1>3, <3>1 DEF Stands
  <2>3. k + Len(b) <= Len(c)
    BY <1>1, <1>2, <1>3, <2>1 DEF Stands
  <2> QED
    BY <2>2, <2>3 DEF Stands
<1>4. Stands(c, Len(s), t)
  <2>1. ASSUME NEW j \in 1..Len(t) PROVE c[Len(s) + j] = t[j]
    <3>1. /\ Len(s) + j \in 1..(Len(s) + Len(t)) /\ ~(Len(s) + j <= Len(s))
          /\ (Len(s) + j) - Len(s) = j
      BY <1>2
    <3> QED
      BY <1>1, <3>1
  <2>2. Len(s) + Len(t) <= Len(c)
    BY <1>1, <1>2
  <2> QED
    BY <2>1, <2>2 DEF Stands
<1> QED
  BY <1>1, <1>2, <1>3, <1>4 DEF c

\* What stands in the document is what is read there.
LEMMA ReadsIt ==
  ASSUME Input \in Seq(Bytes), NEW k \in Nat, NEW b \in Seq(Bytes),
         Stands(Input, k, b)
  PROVE  /\ \A j \in 1..Len(b) : Byte(k + j) = b[j]
         /\ k + Len(b) < End /\ Len(b) \in Nat
<1>1. Len(b) \in Nat /\ Len(Input) \in Nat
  BY LenProperties
<1>2. \A j \in 1..Len(b) : k + j \in 1..Len(Input)
  BY <1>1 DEF Stands
<1> QED
  BY <1>1, <1>2 DEF Stands, Byte, End

\* The body of a text, and how long it is.
Body == Len(task.lead) + 2
Text == FlattenSeq(task.units)

\* Blanks.
LEMMA BlanksOf ==
  ASSUME NEW s \in Seq({"ws"})
  PROVE  s \in Seq(Bytes) /\ Len(s) \in Nat /\ \A p \in 1..Len(s) : s[p] = "ws"
<1>1. {"ws"} \subseteq Bytes
  BY Zenon DEF Bytes
<1>2. s \in Seq(Bytes)
  BY <1>1, SeqMonotonic
<1>3. \A p \in 1..Len(s) : s[p] \in {"ws"}
  BY ElementOfSeq
<1> QED
  BY <1>2, <1>3, LenProperties

\* Sequences of strings as sequences of bytes.
LEMMA UnitsOf ==
  ASSUME NEW S \in Seq(Seq(STRING))
  PROVE  S \in Seq(Seq(Bytes)) /\ FlattenSeq(S) \in Seq(Bytes)
<1>1. Seq(STRING) \subseteq Seq(Bytes)
  BY BytesOf
<1>2. S \in Seq(Seq(Bytes))
  BY <1>1, SeqMonotonic, Zenon
<1> QED
  BY <1>2, Flattened

\* The parts of a text.
LEMMA TextParts ==
  ASSUME task \in Strings \union Members
  PROVE  /\ task.lead \in Seq(Bytes) /\ Len(task.lead) \in Nat
         /\ \A p \in 1..Len(task.lead) : task.lead[p] = "ws"
         /\ task.units \in Seq(Seq(Bytes)) /\ Text \in Seq(Bytes)
         /\ Len(Text) \in Nat
         /\ task.rest \in Seq(Bytes) /\ Len(task.rest) \in Nat
         /\ <<"quote">> \in Seq(Bytes) /\ Len(<<"quote">>) = 1
         /\ <<"quote">>[1] = "quote"
         /\ Body \in Nat
<1>1. task.lead \in Seq({"ws"}) /\ task.units \in Seq(Seq(STRING))
      /\ task.rest \in Seq(STRING)
  BY TaskAssumption
<1>2. /\ task.lead \in Seq(Bytes) /\ Len(task.lead) \in Nat
      /\ \A p \in 1..Len(task.lead) : task.lead[p] = "ws"
  BY <1>1, BlanksOf
<1>3. task.units \in Seq(Seq(Bytes)) /\ Text \in Seq(Bytes)
  BY <1>1, UnitsOf DEF Text
<1>4. task.rest \in Seq(Bytes)
  BY <1>1, BytesOf
<1>5. "quote" \in Bytes
  BY Zenon DEF Bytes
<1>6. <<"quote">> \in Seq(Bytes) /\ Len(<<"quote">>) = 1
      /\ <<"quote">>[1] = "quote"
  BY <1>5, Single
<1>7. Len(Text) \in Nat /\ Len(task.rest) \in Nat
  BY <1>3, <1>4, LenProperties
<1> QED
  BY <1>2, <1>3, <1>4, <1>6, <1>7 DEF Body

\* Blanks, a quote and a body stand in front.
Fronted(s) ==
  LET L == Len(task.lead) IN
    /\ s \in Seq(Bytes)
    /\ Stands(s, 0, task.lead)
    /\ Stands(s, L, <<"quote">>)
    /\ Stands(s, L + 1, Text)

\* A document of a text begins so.
LEMMA FrontOf ==
  ASSUME task \in Strings \union Members
  PROVE  /\ Fronted((task.lead \o <<"quote">>) \o Text)
         /\ Len((task.lead \o <<"quote">>) \o Text) = Len(task.lead) + 1 + Len(Text)
<1> DEFINE lead == task.lead
           quote == <<"quote">>
           text == Text
           L == Len(lead)
<1>1. /\ lead \in Seq(Bytes) /\ quote \in Seq(Bytes) /\ text \in Seq(Bytes)
      /\ L \in Nat /\ Len(quote) = 1
  BY TextParts
<1> HIDE DEF lead, quote, text
<1>2. Stands(lead, 0, lead)
  BY <1>1 DEF Stands
<1> DEFINE s == lead \o quote
<1>3. /\ s \in Seq(Bytes) /\ Len(s) = L + 1
      /\ Stands(s, 0, lead) /\ Stands(s, L, quote)
  BY <1>1, <1>2, StandsMore
<1> HIDE DEF s
<1>4. L \in Nat /\ 0 \in Nat
  BY <1>1
<1>5. /\ s \o text \in Seq(Bytes) /\ Len(s \o text) = (L + 1) + Len(text)
      /\ Stands(s \o text, 0, lead) /\ Stands(s \o text, L, quote)
      /\ Stands(s \o text, L + 1, text)
  BY <1>1, <1>3, <1>4, StandsMore
<1> QED
  BY <1>5 DEF Fronted, s, lead, quote, text, L

\* And goes on, with whatever comes.
LEMMA FrontMore ==
  ASSUME task \in Strings \union Members, NEW s, Fronted(s), NEW t \in Seq(Bytes)
  PROVE  Fronted(s \o t)
<1>1. /\ task.lead \in Seq(Bytes) /\ <<"quote">> \in Seq(Bytes)
      /\ Text \in Seq(Bytes) /\ Len(task.lead) \in Nat
  BY TextParts
<1>2. Len(task.lead) + 1 \in Nat /\ 0 \in Nat
  BY <1>1
<1>3. s \in Seq(Bytes)
  BY DEF Fronted
<1>4. /\ s \o t \in Seq(Bytes)
      /\ \A k \in Nat : \A b \in Seq(Bytes) :
           Stands(s, k, b) => Stands(s \o t, k, b)
  BY <1>3, StandsMore
<1> QED
  BY <1>1, <1>2, <1>4 DEF Fronted

\* What is read in front.
LEMMA FrontRead ==
  ASSUME task \in Strings \union Members, Fronted(Input)
  PROVE  /\ \A p \in 1..Len(task.lead) : Byte(p) = "ws"
         /\ Byte(Len(task.lead) + 1) = "quote"
         /\ \A j \in 1..Len(Text) : Byte(Body + j - 1) = Text[j]
         /\ Body + Len(Text) <= End
         /\ End \in Nat /\ Len(Input) \in Nat /\ End = Len(Input) + 1
<1> DEFINE L == Len(task.lead)
<1>1. /\ task.lead \in Seq(Bytes) /\ <<"quote">> \in Seq(Bytes)
      /\ Text \in Seq(Bytes) /\ L \in Nat /\ Len(Text) \in Nat
      /\ \A p \in 1..L : task.lead[p] = "ws"
      /\ Len(<<"quote">>) = 1 /\ <<"quote">>[1] = "quote"
  BY TextParts
<1>2. Input \in Seq(Bytes) /\ L + 1 \in Nat /\ 0 \in Nat
  BY <1>1 DEF Fronted
<1>3. /\ Stands(Input, 0, task.lead) /\ Stands(Input, L, <<"quote">>)
      /\ Stands(Input, L + 1, Text)
  BY DEF Fronted
<1>4. \A j \in 1..L : Byte(0 + j) = task.lead[j]
  BY <1>1, <1>2, <1>3, ReadsIt
<1>5. \A j \in 1..1 : Byte(L + j) = <<"quote">>[j]
  BY <1>1, <1>2, <1>3, ReadsIt
<1>6. (\A j \in 1..Len(Text) : Byte((L + 1) + j) = Text[j])
      /\ (L + 1) + Len(Text) < End
  BY <1>1, <1>2, <1>3, ReadsIt
<1>7. Len(Input) \in Nat /\ End = Len(Input) + 1
  BY <1>2, LenProperties DEF End
<1>8. \A p \in 1..L : Byte(p) = "ws"
  BY <1>1, <1>4
<1>9. Byte(L + 1) = "quote"
  BY <1>1, <1>5
<1>10. ASSUME NEW j \in 1..Len(Text) PROVE Byte(Body + j - 1) = Text[j]
  <2>1. Body + j - 1 = (L + 1) + j
    BY <1>1 DEF Body
  <2> QED
    BY <1>6, <2>1
<1>11. Body + Len(Text) <= End
  <2>1. Body = L + 2
    BY DEF Body
  <2> HIDE DEF L
  <2> QED
    BY <1>1, <1>6, <1>7, <2>1
<1> QED
  BY <1>7, <1>8, <1>9, <1>10, <1>11

\* Of a string: its quote and what is left, if it is closed.
LEMMA StringLayout ==
  ASSUME task \in Strings
  PROVE  /\ Fronted(Input) /\ task.op = "string" /\ task.closed \in BOOLEAN
         /\ task.closed => /\ Byte(Body + Len(Text)) = "quote"
                           /\ End = Body + Len(Text) + 1 + Len(task.rest)
         /\ ~task.closed => End = Body + Len(Text)
<1> DEFINE s == (task.lead \o <<"quote">>) \o Text
           L == Len(task.lead)
<1>1. task \in Strings \union Members /\ task.op = "string"
      /\ task.closed \in BOOLEAN
  BY TaskAssumption
<1>2. /\ L \in Nat /\ Len(Text) \in Nat /\ task.rest \in Seq(Bytes)
      /\ Len(task.rest) \in Nat
      /\ <<"quote">> \in Seq(Bytes) /\ Len(<<"quote">>) = 1
      /\ <<"quote">>[1] = "quote"
  BY <1>1, TextParts
<1>3. Fronted(s) /\ Len(s) = L + 1 + Len(Text) /\ s \in Seq(Bytes)
  BY <1>1, FrontOf DEF Fronted
<1>4. Input = s \o (IF task.closed THEN <<"quote">> \o task.rest ELSE <<>>)
  BY <1>1 DEF Input, TaskBytes, Text
<1> HIDE DEF s
<1>5. CASE task.closed
  <2> DEFINE t == <<"quote">> \o task.rest
  <2>1. t \in Seq(Bytes) /\ Len(t) = 1 + Len(task.rest) /\ t[1] = "quote"
    BY <1>2, ConcatProperties
  <2>2. Input = s \o t
    BY <1>4, <1>5
  <2> HIDE DEF t
  <2>3. Input \in Seq(Bytes) /\ Len(Input) = Len(s) + Len(t)
        /\ Stands(Input, Len(s), t) /\ Len(s) \in Nat
    BY <1>3, <2>1, <2>2, StandsMore
  <2>4. \A j \in 1..Len(t) : Byte(Len(s) + j) = t[j]
    BY <2>1, <2>3, ReadsIt
  <2>5. 1 \in 1..Len(t) /\ Len(s) + 1 = Body + Len(Text)
    BY <1>2, <1>3, <2>1 DEF Body
  <2>6. Byte(Body + Len(Text)) = "quote"
    BY <2>1, <2>4, <2>5
  <2>7. End = Body + Len(Text) + 1 + Len(task.rest)
    <3> DEFINE T == Len(Text)
               R == Len(task.rest)
               I == Len(Input)
    <3>1. Body = L + 2 /\ I = (L + 1 + T) + (1 + R) /\ End = I + 1
      BY <1>3, <2>1, <2>3 DEF Body, End
    <3>2. L \in Nat /\ T \in Nat /\ R \in Nat
      BY <1>2
    <3> HIDE DEF L, T, R, I
    <3>3. End = Body + T + 1 + R
      BY <3>1, <3>2
    <3> QED
      BY <3>3 DEF T, R
  <2>8. Fronted(Input)
    BY <1>1, <1>3, <2>1, <2>2, FrontMore
  <2> QED
    BY <1>1, <1>5, <2>6, <2>7, <2>8
<1>6. CASE ~task.closed
  <2>1. Input = s \o <<>> /\ <<>> \in Seq(Bytes) /\ Len(<<>>) = 0
    BY <1>4, <1>6, EmptySeq
  <2>2. Fronted(Input)
    BY <1>1, <1>3, <2>1, FrontMore
  <2>3. Len(Input) = Len(s) + 0
    BY <1>3, <2>1, StandsMore
  <2>4. End = Body + Len(Text)
    <3>1. Body = L + 2
      BY DEF Body
    <3> HIDE DEF L
    <3> QED
      BY <1>2, <1>3, <2>3, <3>1 DEF End
  <2> QED
    BY <1>1, <1>6, <2>2, <2>4
<1> QED
  BY <1>1, <1>5, <1>6

\* Of a member: where its value begins, and what stands there.
ValueAt == Body + Len(Text) + 2 * Len(task.gap) + 2
ValueBytes == FlattenSeq(task.value)

\* The parts behind a key.
LEMMA MemberParts ==
  ASSUME task \in Members
  PROVE  /\ task \in Strings \union Members /\ task.op = "member"
         /\ task.gap \in Seq(Bytes) /\ Len(task.gap) \in Nat
         /\ \A p \in 1..Len(task.gap) : task.gap[p] = "ws"
         /\ task.value \in Seq(Seq(Bytes)) /\ ValueBytes \in Seq(Bytes)
         /\ Len(ValueBytes) \in Nat
         /\ <<"colon">> \in Seq(Bytes) /\ Len(<<"colon">>) = 1
         /\ <<"colon">>[1] = "colon"
         /\ ValueAt \in Nat
<1>1. /\ task \in Strings \union Members /\ task.op = "member"
      /\ task.gap \in Seq({"ws"}) /\ task.value \in Seq(Seq(STRING))
  BY TaskAssumption
<1>2. /\ task.gap \in Seq(Bytes) /\ Len(task.gap) \in Nat
      /\ \A p \in 1..Len(task.gap) : task.gap[p] = "ws"
  BY <1>1, BlanksOf
<1>3. task.value \in Seq(Seq(Bytes)) /\ ValueBytes \in Seq(Bytes)
  BY <1>1, UnitsOf DEF ValueBytes
<1>4. "colon" \in Bytes
  BY Zenon DEF Bytes
<1>5. <<"colon">> \in Seq(Bytes) /\ Len(<<"colon">>) = 1
      /\ <<"colon">>[1] = "colon"
  BY <1>4, Single
<1>6. Len(ValueBytes) \in Nat
  BY <1>3, LenProperties
<1>7. ValueAt \in Nat
  <2> DEFINE T == Len(Text)
             G == Len(task.gap)
  <2>1. Body \in Nat /\ T \in Nat /\ G \in Nat /\ ValueAt = Body + T + 2 * G + 2
    BY <1>1, <1>2, TextParts DEF ValueAt
  <2> HIDE DEF T, G
  <2> QED
    BY <2>1
<1> QED
  BY <1>1, <1>2, <1>3, <1>5, <1>6, <1>7

\* A member, byte by byte.
LEMMA MemberLayout ==
  ASSUME task \in Members
  PROVE  LET k == Body + Len(Text)
             G == Len(task.gap) IN
           /\ Fronted(Input)
           /\ Byte(k) = "quote"
           /\ \A j \in 1..G : Byte(k + j) = "ws"
           /\ Byte(k + G + 1) = "colon"
           /\ \A j \in 1..G : Byte(k + G + 1 + j) = "ws"
           /\ \A j \in 1..Len(ValueBytes) : Byte(ValueAt + j - 1) = ValueBytes[j]
           /\ \A j \in 1..Len(task.rest) :
                Byte(ValueAt + Len(ValueBytes) + j - 1) = task.rest[j]
           /\ End = ValueAt + Len(ValueBytes) + Len(task.rest)
<1> DEFINE s == (task.lead \o <<"quote">>) \o Text
           L == Len(task.lead)
           T == Len(Text)
           G == Len(task.gap)
           V == Len(ValueBytes)
           n == L + 1 + T
<1>1. /\ task \in Strings \union Members /\ task.op = "member"
      /\ task.gap \in Seq(Bytes) /\ G \in Nat
      /\ ValueBytes \in Seq(Bytes) /\ V \in Nat
      /\ <<"colon">> \in Seq(Bytes) /\ Len(<<"colon">>) = 1
  BY MemberParts
<1>2. /\ L \in Nat /\ T \in Nat /\ task.rest \in Seq(Bytes)
      /\ <<"quote">> \in Seq(Bytes) /\ Len(<<"quote">>) = 1
      /\ Len(task.rest) \in Nat
  BY <1>1, TextParts
<1>3. Fronted(s) /\ Len(s) = n /\ s \in Seq(Bytes)
  BY <1>1, FrontOf DEF Fronted
<1>4. Input = (((((s \o <<"quote">>) \o task.gap) \o <<"colon">>) \o task.gap)
                 \o ValueBytes) \o task.rest
  BY <1>1 DEF Input, TaskBytes, Text, ValueBytes
<1>5. Body = L + 2 /\ ValueAt = Body + T + 2 * G + 2
  BY DEF Body, ValueAt
<1> DEFINE s1 == s \o <<"quote">>
           s2 == s1 \o task.gap
           s3 == s2 \o <<"colon">>
           s4 == s3 \o task.gap
           s5 == s4 \o ValueBytes
<1>6. Input = s5 \o task.rest
  BY <1>4
<1>24. Len(task.gap) = G /\ Len(Text) = T /\ Len(ValueBytes) = V
  OBVIOUS
<1> HIDE DEF s, L, T, G, V
<1>25. n = L + 1 + T /\ n \in Nat
  BY <1>2
<1> HIDE DEF n
<1>7. /\ Fronted(s1) /\ s1 \in Seq(Bytes) /\ Len(s1) = n + 1
      /\ Stands(s1, n, <<"quote">>)
  <2>1. Fronted(s1)
    BY <1>1, <1>2, <1>3, FrontMore
  <2> QED
    BY <1>2, <1>3, <2>1, StandsMore
<1> HIDE DEF s1
<1>8. n \in Nat /\ n + 1 \in Nat /\ n + 1 + G \in Nat /\ n + 2 + G \in Nat
      /\ n + 2 + 2 * G \in Nat /\ n + 2 + 2 * G + V \in Nat
  BY <1>1, <1>25
<1>9. /\ Fronted(s2) /\ s2 \in Seq(Bytes) /\ Len(s2) = n + 1 + G
      /\ Stands(s2, n, <<"quote">>) /\ Stands(s2, n + 1, task.gap)
  BY <1>1, <1>2, <1>7, <1>8, <1>24, FrontMore, StandsMore
<1> HIDE DEF s2
<1>10. /\ Fronted(s3) /\ s3 \in Seq(Bytes) /\ Len(s3) = n + 2 + G
       /\ Stands(s3, n, <<"quote">>) /\ Stands(s3, n + 1, task.gap)
       /\ Stands(s3, n + 1 + G, <<"colon">>)
  <2>1. Fronted(s3) /\ s3 \in Seq(Bytes) /\ Len(s3) = (n + 1 + G) + 1
    BY <1>1, <1>9, FrontMore, StandsMore
  <2>2. /\ Stands(s3, n, <<"quote">>) /\ Stands(s3, n + 1, task.gap)
        /\ Stands(s3, n + 1 + G, <<"colon">>)
    BY <1>1, <1>2, <1>8, <1>9, StandsMore
  <2>3. (n + 1 + G) + 1 = n + 2 + G
    BY <1>1, <1>8
  <2> QED
    BY <2>1, <2>2, <2>3
<1> HIDE DEF s3
<1>11. /\ Fronted(s4) /\ s4 \in Seq(Bytes) /\ Len(s4) = n + 2 + 2 * G
       /\ Stands(s4, n, <<"quote">>) /\ Stands(s4, n + 1, task.gap)
       /\ Stands(s4, n + 1 + G, <<"colon">>) /\ Stands(s4, n + 2 + G, task.gap)
  <2>1. Fronted(s4) /\ s4 \in Seq(Bytes) /\ Len(s4) = (n + 2 + G) + G
    BY <1>1, <1>10, <1>24, FrontMore, StandsMore
  <2>2. /\ Stands(s4, n, <<"quote">>) /\ Stands(s4, n + 1, task.gap)
        /\ Stands(s4, n + 1 + G, <<"colon">>) /\ Stands(s4, n + 2 + G, task.gap)
    BY <1>1, <1>2, <1>8, <1>10, StandsMore
  <2>3. (n + 2 + G) + G = n + 2 + 2 * G
    BY <1>1, <1>8
  <2> QED
    BY <2>1, <2>2, <2>3
<1> HIDE DEF s4
<1>12. /\ Fronted(s5) /\ s5 \in Seq(Bytes) /\ Len(s5) = n + 2 + 2 * G + V
       /\ Stands(s5, n, <<"quote">>) /\ Stands(s5, n + 1, task.gap)
       /\ Stands(s5, n + 1 + G, <<"colon">>) /\ Stands(s5, n + 2 + G, task.gap)
       /\ Stands(s5, n + 2 + 2 * G, ValueBytes)
  <2>1. Fronted(s5) /\ s5 \in Seq(Bytes) /\ Len(s5) = n + 2 + 2 * G + V
    BY <1>1, <1>11, <1>24, FrontMore, StandsMore
  <2>2. /\ Stands(s5, n, <<"quote">>) /\ Stands(s5, n + 1, task.gap)
        /\ Stands(s5, n + 1 + G, <<"colon">>) /\ Stands(s5, n + 2 + G, task.gap)
        /\ Stands(s5, n + 2 + 2 * G, ValueBytes)
    BY <1>1, <1>2, <1>8, <1>11, StandsMore
  <2> QED
    BY <2>1, <2>2
<1> HIDE DEF s5
<1>13. Fronted(Input) /\ Input \in Seq(Bytes)
       /\ Len(Input) = n + 2 + 2 * G + V + Len(task.rest)
  BY <1>1, <1>2, <1>6, <1>12, <1>24, FrontMore, StandsMore
<1>14. /\ Stands(Input, n, <<"quote">>) /\ Stands(Input, n + 1, task.gap)
       /\ Stands(Input, n + 1 + G, <<"colon">>)
       /\ Stands(Input, n + 2 + G, task.gap)
       /\ Stands(Input, n + 2 + 2 * G, ValueBytes)
       /\ Stands(Input, n + 2 + 2 * G + V, task.rest)
  BY <1>1, <1>2, <1>6, <1>8, <1>12, StandsMore
<1>15. /\ \A j \in 1..1 : Byte(n + j) = <<"quote">>[j]
       /\ \A j \in 1..1 : Byte((n + 1 + G) + j) = <<"colon">>[j]
  BY <1>1, <1>2, <1>8, <1>13, <1>14, ReadsIt
<1>16. /\ \A j \in 1..G : Byte((n + 1) + j) = task.gap[j]
       /\ \A j \in 1..G : Byte((n + 2 + G) + j) = task.gap[j]
  BY <1>1, <1>8, <1>13, <1>14, <1>24, ReadsIt
<1>17. /\ \A j \in 1..V : Byte((n + 2 + 2 * G) + j) = ValueBytes[j]
       /\ \A j \in 1..Len(task.rest) :
            Byte((n + 2 + 2 * G + V) + j) = task.rest[j]
  BY <1>1, <1>2, <1>8, <1>13, <1>14, <1>24, ReadsIt
<1>18. \A p \in 1..G : task.gap[p] = "ws"
  BY <1>24, MemberParts
<1> DEFINE k == Body + T
<1>19. /\ k = n + 1 /\ ValueAt = n + 3 + 2 * G
       /\ End = ValueAt + V + Len(task.rest)
  <2> DEFINE R == Len(task.rest)
  <2>1. End = (n + 2 + 2 * G + V + R) + 1 /\ R \in Nat
    BY <1>2, <1>13 DEF End
  <2> HIDE DEF R
  <2>2. k = n + 1 /\ ValueAt = n + 3 + 2 * G /\ End = ValueAt + V + R
    BY <1>1, <1>2, <1>5, <1>25, <2>1
  <2> QED
    BY <2>2 DEF R
<1> HIDE DEF k
<1>20. Byte(k) = "quote" /\ Byte(k + G + 1) = "colon"
  <2>1. n + 1 = k /\ (n + 1 + G) + 1 = k + G + 1 /\ 1 \in 1..1
    BY <1>1, <1>8, <1>19
  <2>2. <<"quote">>[1] = "quote" /\ <<"colon">>[1] = "colon"
    OBVIOUS
  <2> QED
    BY <1>15, <2>1, <2>2
<1>21. ASSUME NEW j \in 1..G
       PROVE  Byte(k + j) = "ws" /\ Byte(k + G + 1 + j) = "ws"
  <2>1. (n + 1) + j = k + j /\ (n + 2 + G) + j = k + G + 1 + j
    BY <1>1, <1>8, <1>19
  <2> QED
    BY <1>16, <1>18, <2>1
<1>22. ASSUME NEW j \in 1..V PROVE Byte(ValueAt + j - 1) = ValueBytes[j]
  <2>1. (n + 2 + 2 * G) + j = ValueAt + j - 1
    BY <1>1, <1>8, <1>19
  <2> QED
    BY <1>17, <2>1
<1>23. ASSUME NEW j \in 1..Len(task.rest)
       PROVE  Byte(ValueAt + V + j - 1) = task.rest[j]
  <2>1. (n + 2 + 2 * G + V) + j = ValueAt + V + j - 1
    BY <1>1, <1>2, <1>8, <1>19
  <2> QED
    BY <1>17, <2>1
<1> QED
  BY <1>13, <1>19, <1>20, <1>21, <1>22, <1>23 DEF k, G, T, V

\* Blanks are passed, however many (ws, rt_wsskip).
LEMMA PastBlanks ==
  ASSUME NEW c \in Nat \ {0}, NEW n \in Nat, End \in Nat, c + n <= End,
         \A j \in 0..(n - 1) : Byte(c + j) = "ws",
         Byte(c + n) # "ws"
  PROVE  Ws(c) = c + n /\ WsSkip(c) = c + n
<1>1. ASSUME NEW d \in Nat, c <= d, d <= c + n
      PROVE  WsSkip(d) = c + n
  <2> DEFINE S == {p \in d..End : p = End \/ Byte(p) # "ws"}
  <2>1. S \subseteq Nat /\ c + n \in S
    BY <1>1
  <2>2. ASSUME NEW y \in S PROVE c + n <= y
    <3> SUFFICES ASSUME ~(c + n <= y) PROVE FALSE
      OBVIOUS
    <3>1. y - c \in 0..(n - 1) /\ c + (y - c) = y /\ y # End
      BY <1>1
    <3> QED
      BY <3>1
  <2> HIDE DEF S
  <2>3. Min(S) \in S /\ \A y \in S : Min(S) <= y
    BY <2>1, MinIs
  <2> DEFINE m == Min(S)
  <2>4. m \in Nat /\ m <= c + n /\ c + n <= m
    BY <2>1, <2>2, <2>3
  <2> HIDE DEF m
  <2>5. m = c + n
    BY <2>4
  <2> QED
    BY <2>5 DEF WsSkip, S, m
<1>2. WsSkip(c) = c + n
  BY <1>1
<1>3. n = 0 => Byte(c) # "ws"
  OBVIOUS
<1>4. n # 0 => Byte(c) = "ws"
  <2>1. n # 0 => 0 \in 0..(n - 1) /\ c + 0 = c
    OBVIOUS
  <2> QED
    BY <2>1
<1>5. n = 1 => Byte(c + 1) # "ws"
  OBVIOUS
<1>6. n >= 2 => Byte(c + 1) = "ws" /\ WsSkip(c + 2) = c + n
  <2>1. n >= 2 => 1 \in 0..(n - 1)
    OBVIOUS
  <2>2. n >= 2 => c + 2 \in Nat /\ c <= c + 2 /\ c + 2 <= c + n
    OBVIOUS
  <2> QED
    BY <1>1, <2>1, <2>2
<1>7. n = 0 \/ n = 1 \/ n >= 2
  OBVIOUS
<1> DEFINE w == WsSkip(c + 2)
<1>8. Ws(c) = CASE Byte(c) # "ws" -> c
                [] Byte(c) = "ws" /\ Byte(c + 1) # "ws" -> c + 1
                [] OTHER -> w
  BY DEF Ws
<1>9. n >= 2 => w = c + n
  BY <1>6
<1> HIDE DEF w
<1>10. Ws(c) = c + n
  BY <1>3, <1>4, <1>5, <1>6, <1>7, <1>8, <1>9
<1> QED
  BY <1>2, <1>10

-----------------------------------------------------------------------------
(* Integers.                                                               *)

\* Where the digits begin.
DigitsAt == Len(task.lead) + Len(task.sign) + 1

\* An integer, byte by byte.
LEMMA IntLayout ==
  ASSUME task \in Ints
  PROVE  /\ Input \in Seq(Bytes)
         /\ Len(task.lead) \in Nat /\ Len(task.digits) \in Nat \ {0}
         /\ DigitsAt \in Nat \ {0}
         /\ \A j \in 1..Len(task.lead) : Byte(j) = "ws"
         /\ \/ task.sign = <<>> /\ DigitsAt = Len(task.lead) + 1
            \/ /\ \/ task.sign = <<"plus">>
                  \/ task.sign = <<"minus">> /\ task.signed
               /\ Byte(Len(task.lead) + 1) = task.sign[1]
               /\ DigitsAt = Len(task.lead) + 2
         /\ \A j \in 1..Len(task.digits) :
              /\ Byte(DigitsAt + j - 1) = task.digits[j]
              /\ task.digits[j] \in DOMAIN Digit
         /\ End = DigitsAt + Len(task.digits) + Len(task.rest)
         /\ Byte(DigitsAt + Len(task.digits)) \notin DOMAIN Digit
         /\ Len(task.rest) \in Nat /\ End \in Nat
<1> DEFINE lead == task.lead
           sign == task.sign
           digits == task.digits
           rest == task.rest
           L == Len(lead)
           G == Len(sign)
           N == Len(digits)
           R == Len(rest)
<1>1. /\ lead \in Seq({"ws"}) /\ rest \in Seq(STRING)
      /\ digits \in Seq(DOMAIN Digit) /\ digits # <<>>
      /\ sign \in {<<>>, <<"plus">>}
           \union (IF task.signed THEN {<<"minus">>} ELSE {})
      /\ rest # <<>> => rest[1] \notin DOMAIN Digit
      /\ task.op = "int"
  BY TaskAssumption
<1>2. lead \in Seq(Bytes) /\ L \in Nat /\ \A p \in 1..L : lead[p] = "ws"
  BY <1>1, BlanksOf
<1>3. rest \in Seq(Bytes)
  BY <1>1, BytesOf
<1>4. digits \in Seq(Bytes)
  <2>1. DOMAIN Digit \subseteq Bytes
    BY Zenon DEF Bytes
  <2> QED
    BY <1>1, <2>1, SeqMonotonic
<1>5. \/ sign = <<>>
      \/ sign = <<"plus">>
      \/ sign = <<"minus">> /\ task.signed
  BY <1>1
<1>6. /\ <<"plus">> \in Seq(Bytes) /\ Len(<<"plus">>) = 1
      /\ <<"minus">> \in Seq(Bytes) /\ Len(<<"minus">>) = 1
      /\ <<>> \in Seq(Bytes) /\ Len(<<>>) = 0
  <2>1. "plus" \in Bytes /\ "minus" \in Bytes
    BY Zenon DEF Bytes
  <2> QED
    BY <2>1, Single, EmptySeq
<1>7. sign \in Seq(Bytes) /\ (sign = <<>> => G = 0) /\ (sign # <<>> => G = 1)
  BY <1>5, <1>6
<1>8. N \in Nat /\ R \in Nat /\ (R = 0 <=> rest = <<>>) /\ N # 0 /\ G \in Nat
  BY <1>1, <1>3, <1>4, <1>7, LenProperties, EmptySeq
<1>9. \A j \in 1..N : digits[j] \in DOMAIN Digit
  BY <1>1, ElementOfSeq
<1>10. Input = ((lead \o sign) \o digits) \o rest
  BY <1>1 DEF Input, TaskBytes
<1> HIDE DEF lead, sign, digits, rest
<1>11. Stands(lead, 0, lead)
  BY <1>2 DEF Stands
<1> DEFINE s1 == lead \o sign
           s2 == s1 \o digits
<1>12. Input = s2 \o rest
  BY <1>10
<1>13. /\ s1 \in Seq(Bytes) /\ Len(s1) = L + G
       /\ Stands(s1, 0, lead) /\ Stands(s1, L, sign)
  BY <1>2, <1>7, <1>11, StandsMore
<1>14. L + G \in Nat /\ L + G + N \in Nat /\ 0 \in Nat
  <2> HIDE DEF L, G, N
  <2> QED
    BY <1>2, <1>8
<1> HIDE DEF s1
<1>15. /\ s2 \in Seq(Bytes) /\ Len(s2) = L + G + N
       /\ Stands(s2, 0, lead) /\ Stands(s2, L, sign)
       /\ Stands(s2, L + G, digits)
  BY <1>2, <1>4, <1>7, <1>13, <1>14, StandsMore
<1> HIDE DEF s2
<1>16. /\ Input \in Seq(Bytes) /\ Len(Input) = L + G + N + R
       /\ Stands(Input, 0, lead) /\ Stands(Input, L, sign)
       /\ Stands(Input, L + G, digits) /\ Stands(Input, L + G + N, rest)
  BY <1>2, <1>3, <1>4, <1>7, <1>12, <1>14, <1>15, StandsMore
<1>17. /\ \A j \in 1..L : Byte(0 + j) = lead[j]
       /\ \A j \in 1..G : Byte(L + j) = sign[j]
       /\ \A j \in 1..N : Byte((L + G) + j) = digits[j]
       /\ \A j \in 1..R : Byte((L + G + N) + j) = rest[j]
  BY <1>2, <1>3, <1>4, <1>7, <1>14, <1>16, ReadsIt
<1>18. DigitsAt = L + G + 1 /\ End = L + G + N + R + 1
  BY <1>16 DEF DigitsAt, End, lead, sign
<1> HIDE DEF L, G, N, R
<1>19. DigitsAt \in Nat \ {0} /\ End = DigitsAt + N + R /\ End \in Nat
  BY <1>2, <1>8, <1>18
<1>20. \A j \in 1..L : Byte(j) = "ws"
  BY <1>2, <1>17
<1>21. \/ sign = <<>> /\ DigitsAt = L + 1
       \/ /\ \/ sign = <<"plus">>
             \/ sign = <<"minus">> /\ task.signed
          /\ Byte(L + 1) = sign[1]
          /\ DigitsAt = L + 2
  <2>1. CASE sign = <<>>
    BY <1>2, <1>7, <1>18, <2>1
  <2>2. CASE sign # <<>>
    <3>1. G = 1 /\ 1 \in 1..G
      BY <1>7, <2>2
    <3>2. DigitsAt = L + 2
      BY <1>2, <1>18, <3>1
    <3> QED
      BY <1>5, <1>17, <2>2, <3>1, <3>2
  <2> QED
    BY <2>1, <2>2
<1>22. ASSUME NEW j \in 1..N
       PROVE  Byte(DigitsAt + j - 1) = digits[j] /\ digits[j] \in DOMAIN Digit
  <2>1. DigitsAt + j - 1 = (L + G) + j
    BY <1>2, <1>8, <1>18
  <2> QED
    BY <1>9, <1>17, <2>1
<1>23. Byte(DigitsAt + N) \notin DOMAIN Digit
  <2>1. CASE R = 0
    <3>1. DigitsAt + N = Len(Input) + 1 /\ Len(Input) \in Nat
      BY <1>2, <1>8, <1>16, <1>18, <2>1
    <3>2. ~(DigitsAt + N \in 1..Len(Input))
      BY <3>1
    <3>3. Byte(DigitsAt + N) = "beyond"
      BY <3>2 DEF Byte
    <3> QED
      BY <3>3 DEF Digit
  <2>2. CASE R # 0
    <3>1. DigitsAt + N = (L + G + N) + 1 /\ 1 \in 1..R
      BY <1>2, <1>8, <1>18, <2>2
    <3>2. rest[1] \notin DOMAIN Digit
      BY <1>1, <1>8, <2>2 DEF rest
    <3> QED
      BY <1>17, <3>1, <3>2
  <2> QED
    BY <2>1, <2>2
<1> QED
  BY <1>2, <1>8, <1>16, <1>19, <1>20, <1>21, <1>22, <1>23
     DEF lead, sign, digits, rest, L, G, N, R

\* What digits are, digit by digit.
LEMMA UpToIs ==
  ASSUME NEW digits \in Seq(DOMAIN Digit)
  PROVE  /\ UpTo(digits)[0] = 0
         /\ \A n \in 0..Len(digits) : UpTo(digits)[n] \in Nat
         /\ \A n \in 1..Len(digits) :
              UpTo(digits)[n] = UpTo(digits)[n - 1] * 10 + Digit[digits[n]]
<1> DEFINE N == Len(digits)
           Is(f) == f = [n \in 0..N |-> IF n = 0 THEN 0
                                        ELSE f[n - 1] * 10 + Digit[digits[n]]]
           u == CHOOSE f : Is(f)
<1>0. N \in Nat
  BY LenProperties
<1>1. \A n \in 1..N : Digit[digits[n]] \in Nat
  <2>1. \A b \in DOMAIN Digit : Digit[b] \in Nat
    BY DEF Digit
  <2>2. \A n \in 1..N : digits[n] \in DOMAIN Digit
    BY ElementOfSeq
  <2> QED
    BY <2>1, <2>2
<1>2. UpTo(digits) = u
  BY Zenon DEF UpTo
<1> HIDE DEF N
<1> DEFINE step == [x \in Nat \X Nat |->
                      IF x[1] \in 1..N THEN x[2] * 10 + Digit[digits[x[1]]] ELSE 0]
<1>3. step \in [Nat \X Nat -> Nat]
  BY <1>1
<1> HIDE DEF step
<1>4. PICK g \in [0..N -> Nat] : Recurs(g, N, 0, step)
  <2>1. 0 \in Nat
    OBVIOUS
  <2> QED
    BY <1>0, <1>3, <2>1, NatRecursion, Zenon
<1>5. g[0] = 0
      /\ \A n \in 1..N : g[n] = g[n - 1] * 10 + Digit[digits[n]]
  <2>1. ASSUME NEW n \in 1..N PROVE g[n] = g[n - 1] * 10 + Digit[digits[n]]
    <3>1. n \in Nat /\ n - 1 \in 0..N /\ g[n - 1] \in Nat
      BY <1>0
    <3>2. g[n] = step[<<n, g[n - 1]>>]
      BY <1>4 DEF Recurs
    <3> QED
      BY <3>1, <3>2 DEF step
  <2> QED
    BY <1>4, <2>1 DEF Recurs
<1>6. Is(g)
  <2>1. \A n \in 0..N : n # 0 => n \in 1..N
    BY <1>0
  <2> QED
    BY <1>5, <2>1
<1>7. Is(u)
  BY <1>6, Zenon
<1> HIDE DEF u
<1>8. u[0] = 0 /\ \A n \in 1..N : u[n] = u[n - 1] * 10 + Digit[digits[n]]
  <2>1. 0 \in 0..N /\ \A n \in 1..N : n \in 0..N /\ n # 0
    BY <1>0
  <2> QED
    BY <1>7, <2>1
<1> DEFINE T == {n \in Nat : n <= N => u[n] \in Nat}
<1>9. 0 \in T
  BY <1>8
<1>10. ASSUME NEW k \in 0..(N - 1), k \in T PROVE k + 1 \in T
  <2>1. k + 1 \in 1..N /\ (k + 1) - 1 = k /\ u[k] \in Nat
    BY <1>0, <1>10
  <2>2. u[k + 1] = u[k] * 10 + Digit[digits[k + 1]]
    BY <1>8, <2>1
  <2> QED
    BY <1>1, <2>1, <2>2
<1>11. 0..N \subseteq T
  <2> HIDE DEF T, Is
  <2> QED
    BY <1>0, <1>9, <1>10, UpToAll
<1>12. \A n \in 0..N : u[n] \in Nat
  BY <1>0, <1>11
<1> QED
  BY <1>2, <1>8, <1>12 DEF N

\* The accumulator, and where it is in the digits.
Wrapped(n) == UpTo(task.digits)[n] % Word
Minus == task.sign = <<"minus">>

\* Reading an integer: the accumulator has what the digits so far are, but for
\* the bits that it does not have.
IntRead ==
  /\ pc \in {"begin", "digits", "done"}
  /\ esc \in BOOLEAN /\ start = 0 /\ len = 0 /\ i = 0 /\ DOMAIN buf = {}
  /\ pc = "begin" => cur = 1 /\ val = 0
  /\ pc = "digits" =>
       /\ esc <=> Minus
       /\ \E n \in 0..Len(task.digits) : cur = DigitsAt + n /\ val = Wrapped(n)
  /\ pc = "done" =>
       LET v == Wrapped(Len(task.digits)) IN
         /\ cur = DigitsAt + Len(task.digits)
         /\ val = (IF Minus THEN (Word - v) % Word ELSE v) % 2^task.bits

\* Digits alone are read on.
LEMMA AtDigit ==
  ASSUME task \in Ints, NEW n \in 0..Len(task.digits), cur = DigitsAt + n
  PROVE  /\ cur < End /\ Byte(cur) \in DOMAIN Digit <=> n < Len(task.digits)
         /\ n < Len(task.digits) => Byte(cur) = task.digits[n + 1]
<1> DEFINE N == Len(task.digits)
           R == Len(task.rest)
<1>1. /\ N \in Nat /\ DigitsAt \in Nat /\ R \in Nat
      /\ End = DigitsAt + N + R
      /\ Byte(DigitsAt + N) \notin DOMAIN Digit
      /\ \A j \in 1..N : Byte(DigitsAt + j - 1) = task.digits[j]
                         /\ task.digits[j] \in DOMAIN Digit
  BY IntLayout
<1>2. n \in 0..N
  OBVIOUS
<1> HIDE DEF N, R
<1>3. ASSUME n < N
      PROVE  cur < End /\ Byte(cur) = task.digits[n + 1]
             /\ task.digits[n + 1] \in DOMAIN Digit
  <2>1. n + 1 \in 1..N /\ DigitsAt + (n + 1) - 1 = cur /\ cur < End
    BY <1>1, <1>2, <1>3
  <2> QED
    BY <1>1, <2>1
<1>4. ASSUME ~(n < N)
      PROVE  Byte(cur) \notin DOMAIN Digit
  <2>1. n = N
    BY <1>1, <1>2, <1>4
  <2> QED
    BY <1>1, <2>1
<1> QED
  BY <1>3, <1>4 DEF N

\* Integers are read so.
LEMMA IntReads ==
  ASSUME task \in Ints, IntRead, [Next]_vars
  PROVE  task' = task /\ IntRead'
<1>0. task.op = "int" /\ task.digits \in Seq(DOMAIN Digit)
      /\ task.bits \in 1..IntBits
  BY TaskAssumption
<1>1. 2^IntBits \in Nat \ {0}
  <2>1. IntBits \in 0..IntBits
    BY TaskAssumption
  <2> QED
    BY <2>1, Powers
<1>2. Word \in Nat \ {0}
  BY <1>1 DEF Word
<1> DEFINE N == Len(task.digits)
           u == UpTo(task.digits)
<1>3. /\ u[0] = 0
      /\ \A n \in 0..N : u[n] \in Nat
      /\ \A n \in 1..N : u[n] = u[n - 1] * 10 + Digit[task.digits[n]]
  BY <1>0, UpToIs
<1>4. N \in Nat
  BY <1>0, LenProperties
<1>5. task' = task => DigitsAt' = DigitsAt /\ (Minus' <=> Minus)
                      /\ \A n : Wrapped(n)' = Wrapped(n)
  BY DEF DigitsAt, Minus, Wrapped, Word
<1>6. CASE UNCHANGED vars
  BY <1>5, <1>6 DEF vars, IntRead, DigitsAt, Minus, Wrapped, Word
<1>7. CASE Sign
  <2>1. /\ Len(task.lead) \in Nat /\ DigitsAt \in Nat \ {0}
        /\ \A j \in 1..Len(task.lead) : Byte(j) = "ws"
        /\ \/ task.sign = <<>> /\ DigitsAt = Len(task.lead) + 1
           \/ /\ \/ task.sign = <<"plus">>
                 \/ task.sign = <<"minus">> /\ task.signed
              /\ Byte(Len(task.lead) + 1) = task.sign[1]
              /\ DigitsAt = Len(task.lead) + 2
        /\ End \in Nat
    BY IntLayout
  <2>2. DigitsAt < End /\ Byte(DigitsAt) \in DOMAIN Digit
    <3> DEFINE R == Len(task.rest)
    <3>1. /\ End = DigitsAt + N + R /\ R \in Nat /\ N \in Nat \ {0}
          /\ \A j \in 1..N : Byte(DigitsAt + j - 1) = task.digits[j]
                             /\ task.digits[j] \in DOMAIN Digit
      BY IntLayout
    <3> HIDE DEF R, N
    <3>2. 1 \in 1..N /\ DigitsAt + 1 - 1 = DigitsAt
      BY <2>1, <3>1
    <3>3. DigitsAt < End
      BY <2>1, <3>1
    <3> QED
      BY <3>1, <3>2, <3>3
  <2> DEFINE L == Len(task.lead)
  <2>3. Byte(DigitsAt) \notin {"ws", "plus", "minus"}
    BY <2>2 DEF Digit
  <2>4. Byte(L + 1) # "ws" /\ L + 1 <= End
    BY <2>1, <2>2, <2>3
  <2>5. cur = 1 /\ val = 0
    BY <1>7 DEF IntRead, Sign
  <2>6. Ws(cur) = L + 1
    <3>1. 1 \in Nat \ {0} /\ L \in Nat /\ 1 + L = L + 1 /\ 1 + L <= End
      BY <2>1, <2>4
    <3>2. \A j \in 0..(L - 1) : Byte(1 + j) = "ws"
      <4>1. \A j \in 0..(L - 1) : 1 + j \in 1..L
        BY <3>1
      <4> QED
        BY <2>1, <4>1
    <3>3. Ws(1) = 1 + L
      BY <2>1, <2>4, <3>1, <3>2, PastBlanks
    <3> QED
      BY <2>5, <3>1, <3>3
  <2>11. /\ start' = start /\ len' = len /\ i' = i /\ buf' = buf
         /\ esc' \in BOOLEAN
    BY <1>7, TaskAssumption DEF Sign
  <2>7. /\ pc' = "digits" /\ val' = val /\ task' = task
        /\ esc' = (task.signed /\ Byte(L + 1) = "minus")
        /\ cur' = IF (task.signed /\ Byte(L + 1) = "minus") \/ Byte(L + 1) = "plus"
                  THEN L + 2 ELSE L + 1
    BY <1>7, <2>1, <2>6 DEF Sign
  <2> DEFINE neg == task.signed /\ Byte(L + 1) = "minus"
             pos == Byte(L + 1) = "plus"
  <2>13. \/ ~neg /\ ~pos /\ ~Minus /\ DigitsAt = L + 1
         \/ ~neg /\ pos /\ ~Minus /\ DigitsAt = L + 2
         \/ neg /\ Minus /\ DigitsAt = L + 2
    <3>1. CASE task.sign = <<>> /\ DigitsAt = L + 1
      <4>1. Byte(L + 1) = Byte(DigitsAt) /\ ~Minus
        BY <3>1 DEF Minus
      <4>2. ~neg /\ ~pos
        BY <2>3, <4>1
      <4> QED
        BY <3>1, <4>1, <4>2
    <3>2. CASE task.sign = <<"plus">> /\ Byte(L + 1) = task.sign[1]
                 /\ DigitsAt = L + 2
      <4>1. Byte(L + 1) = "plus" /\ ~Minus
        BY <3>2 DEF Minus
      <4>2. ~neg /\ pos
        BY <4>1
      <4> QED
        BY <3>2, <4>1, <4>2
    <3>3. CASE task.sign = <<"minus">> /\ task.signed
                 /\ Byte(L + 1) = task.sign[1] /\ DigitsAt = L + 2
      <4>1. Byte(L + 1) = "minus" /\ Minus
        BY <3>3 DEF Minus
      <4>2. neg
        BY <3>3, <4>1
      <4> QED
        BY <3>3, <4>1, <4>2
    <3> QED
      BY <2>1, <3>1, <3>2, <3>3
  <2>14. esc' = neg /\ cur' = IF neg \/ pos THEN L + 2 ELSE L + 1
    BY <2>7
  <2>15. DigitsAt \in Nat
    BY <2>1
  <2> HIDE DEF neg, pos, L
  <2>16. esc' <=> Minus
    BY <2>13, <2>14, Zenon
  <2>17. cur' = DigitsAt
    BY <2>13, <2>14, Zenon
  <2>18. cur' = DigitsAt + 0
    BY <2>15, <2>17
  <2>8. (esc' <=> Minus) /\ cur' = DigitsAt + 0
    BY <2>16, <2>18
  <2>9. Wrapped(0) = 0
    BY <1>2, <1>3 DEF Wrapped
  <2>10. 0 \in 0..Len(task.digits)
    BY <1>4
  <2> QED
    BY <1>5, <2>5, <2>7, <2>8, <2>9, <2>10, <2>11 DEF IntRead
<1>8. CASE NextDigit
  <2>1. PICK n \in 0..N : cur = DigitsAt + n /\ val = Wrapped(n)
    BY <1>8 DEF IntRead, NextDigit
  <2>2. n < N /\ Byte(cur) = task.digits[n + 1]
    BY <1>8, <2>1, AtDigit DEF NextDigit
  <2>3. n + 1 \in 1..N /\ (n + 1) - 1 = n /\ n + 1 \in 0..N
    <3> HIDE DEF N
    <3> QED
      BY <1>4, <2>1, <2>2
  <2> DEFINE d == Digit[task.digits[n + 1]]
  <2>4. d \in Nat
    <3>1. task.digits[n + 1] \in DOMAIN Digit
      BY <1>0, <2>3, ElementOfSeq
    <3> QED
      BY <3>1 DEF Digit
  <2>5. u[n + 1] = u[n] * 10 + d /\ u[n] \in Nat
    BY <1>3, <2>3
  <2>6. val' = ((u[n] % Word) * 10 + d) % Word
    BY <1>8, <2>1, <2>2 DEF NextDigit, Wrapped
  <2>7. val' = Wrapped(n + 1)
    <3> HIDE DEF d, u
    <3>1. ((u[n] % Word) * 10 + d) % Word = (u[n] * 10 + d) % Word
      BY <1>2, <2>4, <2>5, ModStep
    <3> QED
      BY <2>5, <2>6, <3>1 DEF Wrapped, u
  <2>8. cur' = DigitsAt + (n + 1) /\ task' = task /\ esc' = esc /\ pc' = pc
        /\ pc = "digits"
    <3>1. DigitsAt \in Nat
      BY IntLayout
    <3> QED
      BY <1>8, <2>1, <3>1 DEF NextDigit
  <2>9. start' = start /\ len' = len /\ i' = i /\ buf' = buf
    BY <1>8 DEF NextDigit
  <2> QED
    BY <1>5, <2>3, <2>7, <2>8, <2>9 DEF IntRead
<1>9. CASE EndDigits
  <2>1. PICK n \in 0..N : cur = DigitsAt + n /\ val = Wrapped(n)
    BY <1>9 DEF IntRead, EndDigits
  <2>2. ~(n < N)
    BY <1>9, <2>1, AtDigit DEF EndDigits
  <2>3. n = N
    <3> HIDE DEF N
    <3> QED
      BY <1>4, <2>1, <2>2
  <2>4. /\ val' = (IF esc THEN (Word - val) % Word ELSE val) % 2^task.bits
        /\ pc' = "done" /\ cur' = cur /\ task' = task /\ (esc <=> Minus)
    BY <1>9 DEF EndDigits, IntRead
  <2>5. /\ start' = start /\ len' = len /\ i' = i /\ buf' = buf
        /\ esc' = esc
    BY <1>9 DEF EndDigits
  <2> QED
    BY <1>5, <2>1, <2>3, <2>4, <2>5 DEF IntRead, Word
<1> QED
  BY <1>0, <1>6, <1>7, <1>8, <1>9 DEF Next, Scan, AllDone, IntRead, OpenQuote,
     CloseQuote, SkipEscape, Build, CopyWord, CopyTail, CopySmall, PushByte,
     PushEscape, PushCode, EndUnescape, PastColon, EnterField, NoField,
     SkipString, SkipNest, SkipAtom

\* What has been read is what was meant.
LEMMA IntsExact ==
  ASSUME task \in Ints, IntRead
  PROVE  IntegersExact
<1> DEFINE N == Len(task.digits)
           m == UpTo(task.digits)[N]
           b == task.bits
           B == 2^b
           half == 2^(b - 1)
<1>1. task.digits \in Seq(DOMAIN Digit) /\ b \in 1..IntBits /\ IntBits \in Nat
  BY TaskAssumption
<1>2. N \in Nat /\ m \in Nat
  <2>1. N \in Nat
    BY <1>1, LenProperties
  <2>2. N \in 0..N
    <3> HIDE DEF N
    <3> QED
      BY <2>1
  <2> QED
    BY <1>1, <2>1, <2>2, UpToIs
<1>3. b \in 0..IntBits /\ b - 1 \in 0..IntBits
  <2> HIDE DEF b
  <2> QED
    BY <1>1
<1>4. B \in Nat \ {0} /\ half \in Nat /\ B = 2 * half
  BY <1>1, <1>3, Powers, PowerAssumption
<1>5. PICK k \in Nat \ {0} : Word = B * k
  BY <1>3, Powers DEF Word
<1>6. Word \in Nat \ {0} /\ \A x \in Int : (x % Word) % B = x % B
  <2> HIDE DEF B
  <2> QED
    BY <1>4, <1>5, ModMod
<1>7. (Word - (m % Word)) % Word = (-m) % Word
  <2> HIDE DEF m
  <2> QED
    BY <1>2, <1>6, ModNeg
<1>8. ASSUME pc = "done"
      PROVE  /\ val = (IF Minus THEN -m ELSE m) % B
             /\ cur = DigitsAt + N
  <2>1. val = (IF Minus THEN (Word - (m % Word)) % Word ELSE m % Word) % B
        /\ cur = DigitsAt + N
    BY <1>8 DEF IntRead, Wrapped
  <2> HIDE DEF B, m
  <2>2. -m \in Int /\ m \in Int
    BY <1>2
  <2> QED
    BY <1>6, <1>7, <2>1, <2>2
<1>9. End = DigitsAt + N + Len(task.rest) /\ DigitsAt \in Nat
      /\ Len(task.rest) \in Nat
  BY IntLayout
<1>10. pc = "done" => cur = End - Len(task.rest)
  <2> DEFINE R == Len(task.rest)
  <2> HIDE DEF R, N
  <2> QED
    BY <1>2, <1>8, <1>9 DEF R
<1>11. Magnitude(task.digits) = m
  BY DEF Magnitude
<1> HIDE DEF m, B, half
<1>12. pc = "done" => val = (IF Minus THEN -m ELSE m) % (2 * half)
  BY <1>4, <1>8
<1> QED
  BY <1>10, <1>11, <1>12 DEF IntegersExact, Minus, half, b

\* Types, while an integer is read.
LEMMA IntTypes ==
  ASSUME task \in Ints, IntRead
  PROVE  TypeOK
<1> DEFINE N == Len(task.digits)
           R == Len(task.rest)
<1>0. task.digits \in Seq(DOMAIN Digit) /\ task.bits \in 1..IntBits
      /\ IntBits \in Nat
  BY TaskAssumption
<1>1. /\ N \in Nat /\ DigitsAt \in Nat \ {0} /\ R \in Nat
      /\ End = DigitsAt + N + R /\ End \in Nat
  BY IntLayout
<1>2. Word \in Nat \ {0} /\ 2^task.bits \in Nat \ {0}
  <2>1. IntBits \in 0..IntBits /\ task.bits \in 0..IntBits
    BY <1>0
  <2> QED
    BY <2>1, Powers DEF Word
<1>3. ASSUME NEW n \in 0..N PROVE Wrapped(n) \in 0..(Word - 1)
  <2> DEFINE a == UpTo(task.digits)[n]
  <2>1. a \in Nat
    BY <1>0, UpToIs
  <2> HIDE DEF a
  <2>2. a % Word \in 0..(Word - 1)
    BY <1>2, <2>1
  <2> QED
    BY <2>2 DEF Wrapped, a
<1>4. \A x \in Int : x % 2^task.bits \in Nat
  <2> DEFINE B == 2^task.bits
  <2>1. B \in Nat \ {0}
    BY <1>2
  <2> HIDE DEF B
  <2>2. \A x \in Int : x % B \in Nat
    BY <2>1
  <2> QED
    BY <2>2 DEF B
<1>5. \A x \in Int : x % Word \in Int
  BY <1>2
<1>6. /\ esc \in BOOLEAN /\ start = 0 /\ len = 0 /\ i = 0 /\ DOMAIN buf = {}
      /\ pc \in {"begin", "digits", "done"}
  BY DEF IntRead
<1>7. cur \in 1..End /\ val \in Nat
  <2>1. CASE pc = "begin"
    <3> HIDE DEF N, R
    <3> QED
      BY <1>1, <2>1 DEF IntRead
  <2>2. CASE pc = "digits"
    <3>1. PICK n \in 0..N : cur = DigitsAt + n /\ val = Wrapped(n)
      BY <2>2 DEF IntRead
    <3>2. val \in Nat
      BY <1>2, <1>3, <3>1
    <3> HIDE DEF N, R
    <3> QED
      BY <1>1, <3>1, <3>2
  <2>3. CASE pc = "done"
    <3> DEFINE v == Wrapped(N)
    <3>1. cur = DigitsAt + N
          /\ val = (IF Minus THEN (Word - v) % Word ELSE v) % 2^task.bits
      BY <2>3 DEF IntRead
    <3>2. N \in 0..N
      <4> HIDE DEF N, R
      <4> QED
        BY <1>1
    <3>3. v \in 0..(Word - 1)
      BY <1>3, <3>2
    <3> HIDE DEF v
    <3>4. v \in Int /\ Word - v \in Int
      BY <1>2, <3>3
    <3>5. val \in Nat
      BY <1>4, <1>5, <3>1, <3>4
    <3> HIDE DEF N, R
    <3>6. cur \in 1..End
      BY <1>1, <3>1
    <3> QED
      BY <3>5, <3>6
  <2> QED
    BY <1>6, <2>1, <2>2, <2>3
<1>8. 0 \in 0..End
  <2> HIDE DEF N, R
  <2> QED
    BY <1>1
<1> QED
  BY <1>6, <1>7, <1>8 DEF TypeOK

-----------------------------------------------------------------------------
(* The units of a text, and how its end is found.                          *)

Count == Len(task.units)
Unit(n) == task.units[n]
Size(n) == Len(Unit(n))
Off(n) == Offsets(task.units)[n]
Length == Len(Text)

\* The text has its closing quote.
Shut == task.op = "member" \/ task.closed

\* Of units: escapes of a letter, codes, and a backslash that is cut off.
Letter(n) == Size(n) = 2 /\ Unit(n)[1] = "backslash" /\ Unit(n)[2] \in DOMAIN Named
Coded(n) ==
  /\ Size(n) = 6 /\ Unit(n)[1] = "backslash" /\ Unit(n)[2] = "u"
  /\ Unit(n)[3] \in {"hi", "lo", "bm"}
  /\ \A j \in 4..6 : Unit(n)[j] = "."
Dangling(n) ==
  /\ Size(n) = 1 /\ Unit(n)[1] = "backslash" /\ n = Count /\ ~Shut
  /\ Unit(n) = <<"backslash">>

\* There are no others.
LEMMA UnitKinds ==
  ASSUME task \in Strings \union Members, NEW n \in 1..Count
  PROVE  IsPlain(Unit(n)) \/ Letter(n) \/ Coded(n) \/ Dangling(n)
<1>1. \/ IsUnit(Unit(n))
      \/ ~Shut /\ n = Count /\ Unit(n) = <<"backslash">>
  <2>1. CASE task \in Members
    BY <2>1, TaskAssumption DEF Unit, Count, IsUnit
  <2>2. CASE task \in Strings
    <3>1. /\ task.op = "string"
          /\ \/ IsUnit(task.units[n])
             \/ /\ ~task.closed /\ n = Len(task.units)
                /\ task.units[n] = <<"backslash">>
      BY <2>2, TaskAssumption DEF Count
    <3> QED
      BY <3>1 DEF Unit, Count, Shut
  <2> QED
    BY <2>1, <2>2
<1> DEFINE u == Unit(n)
<1>2. ASSUME NEW e \in DOMAIN Named, u = <<"backslash", e>> PROVE Letter(n)
  <2>1. Len(u) = 2 /\ u[1] = "backslash" /\ u[2] = e
    BY <1>2
  <2> QED
    BY <2>1 DEF Letter, Size
<1>3. ASSUME NEW code \in {"hi", "lo", "bm"}, IsCode(u, code) PROVE Coded(n)
  <2>1. u = <<"backslash", "u", code, ".", ".", ".">>
    BY <1>3 DEF IsCode
  <2>2. Len(u) = 6 /\ u[1] = "backslash" /\ u[2] = "u" /\ u[3] = code
        /\ u[4] = "." /\ u[5] = "." /\ u[6] = "."
    BY <2>1
  <2>3. \A j \in 4..6 : j = 4 \/ j = 5 \/ j = 6
    OBVIOUS
  <2> QED
    BY <2>2, <2>3 DEF Coded, Size
<1>4. ASSUME ~Shut, n = Count, u = <<"backslash">> PROVE Dangling(n)
  <2>1. Len(u) = 1 /\ u[1] = "backslash"
    BY <1>4
  <2> QED
    BY <1>4, <2>1 DEF Dangling, Size
<1> QED
  BY <1>1, <1>2, <1>3, <1>4 DEF IsUnit

\* Where they are.
LEMMA UnitPlaces ==
  ASSUME task \in Strings \union Members
  PROVE  /\ Count \in Nat /\ Length \in Nat /\ Off(0) = 0 /\ Off(Count) = Length
         /\ \A n \in 0..Count : Off(n) \in Nat
         /\ \A n \in 1..Count :
              /\ n - 1 \in 0..Count
              /\ Size(n) \in Nat \ {0} /\ Off(n) = Off(n - 1) + Size(n)
              /\ Unit(n) \in Seq(Bytes)
<1> DEFINE U == task.units
           off == Offsets(U)
<1>1. U \in Seq(Seq(Bytes)) /\ Length \in Nat
  BY TextParts DEF Length
<1>2. Count \in Nat /\ \A n \in 1..Count : Unit(n) \in Seq(Bytes)
  BY <1>1, ElementOfSeq, LenProperties DEF Count, Unit
<1>3. off \in [0..Len(U) -> Nat] /\ Laid(U, off)
  BY <1>1, Flattened
<1>4. off \in [0..Count -> Nat]
  BY <1>3 DEF Count
<1>5. Off(0) = 0 /\ Off(Count) = Length
  BY <1>3 DEF Laid, Off, Count, Length, Text
<1>6. \A n \in 1..Count : Off(n) = Off(n - 1) + Size(n)
  BY <1>3 DEF Laid, Off, Count, Size, Unit
<1>7. \A n \in 0..Count : Off(n) \in Nat
  <2> SUFFICES ASSUME NEW n \in 0..Count PROVE Off(n) \in Nat
    OBVIOUS
  <2> HIDE DEF off
  <2>1. off[n] \in Nat
    BY <1>4
  <2> QED
    BY <2>1 DEF Off, off
<1>8. ASSUME NEW n \in 1..Count PROVE Size(n) \in Nat \ {0} /\ n - 1 \in 0..Count
  <2>1. Size(n) \in Nat
    BY <1>2, LenProperties DEF Size
  <2>2. Size(n) # 0
    BY UnitKinds DEF IsPlain, Letter, Coded, Dangling, Size
  <2> QED
    BY <1>2, <2>1, <2>2
<1> QED
  BY <1>1, <1>2, <1>5, <1>6, <1>7, <1>8

\* Offsets climb, no two units overlap, and every byte is in one.
LEMMA UnitOrder ==
  ASSUME task \in Strings \union Members
  PROVE  /\ \A n, m \in 0..Count : n <= m => Off(n) + (m - n) <= Off(m)
         /\ \A n, m \in 1..Count : \A j \in 1..Size(n) : \A k \in 1..Size(m) :
              Off(n - 1) + j = Off(m - 1) + k => n = m /\ j = k
         /\ \A p \in 1..Length : \E n \in 1..Count : \E j \in 1..Size(n) :
              p = Off(n - 1) + j
<1> DEFINE U == task.units
<1>1. U \in Seq(Seq(Bytes))
  BY TextParts
<1>2. \A n \in 1..Len(U) : Len(U[n]) # 0
  BY UnitPlaces DEF Count, Size, Unit
<1>3. ASSUME NEW n \in 0..Count, NEW m \in 0..Count, n <= m
      PROVE  Off(n) + (m - n) <= Off(m)
  BY <1>1, <1>2, <1>3, OffsetsClimb DEF Off, Count
<1>4. ASSUME NEW n \in 1..Count, NEW m \in 1..Count,
             NEW j \in 1..Size(n), NEW k \in 1..Size(m),
             Off(n - 1) + j = Off(m - 1) + k
      PROVE  n = m /\ j = k
  <2>1. n \in 1..Len(U) /\ m \in 1..Len(U)
    BY DEF Count
  <2>2. j \in 1..Len(U[n]) /\ k \in 1..Len(U[m])
    BY DEF Size, Unit
  <2>3. Offsets(U)[n - 1] + j = Offsets(U)[m - 1] + k
    BY <1>4 DEF Off
  <2> HIDE DEF U
  <2> QED
    BY <1>1, <1>2, <2>1, <2>2, <2>3, InOnePart, Zenon
<1>5. ASSUME NEW p \in 1..Length
      PROVE  \E n \in 1..Count : \E j \in 1..Size(n) : p = Off(n - 1) + j
  BY <1>1, InSomePart DEF Off, Count, Size, Unit, Length, Text
<1> QED
  BY <1>3, <1>4, <1>5

\* What is read of a unit.
LEMMA UnitRead ==
  ASSUME task \in Strings \union Members, Fronted(Input),
         NEW n \in 1..Count, NEW j \in 1..Size(n)
  PROVE  /\ Byte(Body + Off(n - 1) + j - 1) = Unit(n)[j]
         /\ Off(n - 1) + j \in 1..Length
<1>1. /\ Off(n - 1) \in Nat /\ Size(n) \in Nat /\ Off(n) = Off(n - 1) + Size(n)
      /\ Off(n) \in Nat /\ Off(Count) = Length /\ Count \in Nat /\ Length \in Nat
  BY UnitPlaces
<1>2. n \in 0..Count /\ Count \in 0..Count /\ n <= Count
  BY <1>1
<1>3. Off(n) + (Count - n) <= Off(Count)
  BY <1>2, UnitOrder
<1>4. Off(n - 1) + j \in 1..Length
  BY <1>1, <1>2, <1>3
<1>5. Text[Off(n - 1) + j] = Unit(n)[j]
  <2>1. task.units \in Seq(Seq(Bytes))
    BY TextParts
  <2>2. Laid(task.units, Offsets(task.units))
    BY <2>1, Flattened
  <2> QED
    BY <2>2 DEF Laid, Off, Count, Size, Unit, Text
<1>6. Byte(Body + (Off(n - 1) + j) - 1) = Text[Off(n - 1) + j]
  BY <1>4, FrontRead DEF Length
<1>7. Body + (Off(n - 1) + j) - 1 = Body + Off(n - 1) + j - 1
  <2>1. Body \in Nat
    BY TextParts
  <2> QED
    BY <1>1, <2>1
<1> QED
  BY <1>4, <1>5, <1>6, <1>7

\* The end of a text, in the document.
LEMMA TextEnd ==
  ASSUME task \in Strings \union Members
  PROVE  /\ Fronted(Input) /\ End \in Nat /\ Body \in Nat
         /\ Shut \in BOOLEAN
         /\ Shut => Byte(Body + Length) = "quote" /\ Body + Length + 1 <= End
         /\ ~Shut => End = Body + Length /\ Byte(End) = "beyond"
<1>1. Length \in Nat /\ Body \in Nat /\ Len(task.rest) \in Nat
  BY TextParts DEF Length
<1>2. CASE task \in Strings
  <2> DEFINE R == Len(task.rest)
  <2>1. /\ Fronted(Input) /\ task.op = "string" /\ task.closed \in BOOLEAN
        /\ task.closed => /\ Byte(Body + Length) = "quote"
                          /\ End = Body + Length + 1 + R
        /\ ~task.closed => End = Body + Length
    BY <1>2, StringLayout DEF Length
  <2>2. R \in Nat
    BY <1>1
  <2> HIDE DEF R
  <2>3. Shut <=> task.closed
    BY <2>1 DEF Shut
  <2>4. End \in Nat /\ (Shut => Body + Length + 1 <= End)
    BY <1>1, <2>1, <2>2, <2>3
  <2>5. Byte(End) = "beyond"
    <3>1. Len(Input) \in Nat /\ End = Len(Input) + 1
      BY <2>1, FrontRead
    <3>2. End \notin 1..Len(Input)
      BY <3>1
    <3> QED
      BY <3>2 DEF Byte
  <2> QED
    BY <1>1, <2>1, <2>3, <2>4, <2>5 DEF Shut
<1>3. CASE task \in Members
  <2> DEFINE R == Len(task.rest)
             G == Len(task.gap)
             V == Len(ValueBytes)
  <2>1. /\ task.op = "member" /\ G \in Nat /\ V \in Nat /\ ValueAt \in Nat
    BY <1>3, MemberParts
  <2>2. /\ Fronted(Input) /\ Byte(Body + Length) = "quote"
        /\ End = ValueAt + V + R /\ ValueAt = Body + Length + 2 * G + 2
    BY <1>3, MemberLayout DEF Length, ValueAt
  <2>3. Shut
    BY <2>1 DEF Shut
  <2> HIDE DEF R, G, V
  <2>4. R \in Nat
    BY <1>1 DEF R
  <2>5. End \in Nat /\ Body + Length + 1 <= End
    BY <1>1, <2>1, <2>2, <2>4
  <2> QED
    BY <1>1, <2>2, <2>3, <2>5
<1> QED
  BY <1>2, <1>3

\* An offset from which a search does not mistake a byte that is escaped.
Safe(c) ==
  /\ c \in 0..Length
  /\ \A n \in 1..Count : Size(n) > 1 => c # Off(n - 1) + 1

\* Every mark in a text is the first or the second byte of an escape, and
\* every escape begins with one.
LEMMA Marks ==
  ASSUME task \in Strings \union Members, NEW p \in 0..(Length - 1),
         Byte(Body + p) \in {"quote", "backslash"}
  PROVE  \E n \in 1..Count :
           /\ Unit(n)[1] = "backslash"
           /\ \/ p = Off(n - 1)
              \/ p = Off(n - 1) + 1 /\ Size(n) > 1
<1>1. Fronted(Input) /\ Body \in Nat
  BY TextEnd
<1>2. Length \in Nat
  BY UnitPlaces
<1>3. p + 1 \in 1..Length
  BY <1>2
<1>11. PICK n \in 1..Count : \E j \in 1..Size(n) : p + 1 = Off(n - 1) + j
  BY <1>3, UnitOrder
<1>4. PICK j \in 1..Size(n) : p + 1 = Off(n - 1) + j
  BY <1>11
<1>5. Off(n - 1) \in Nat /\ Size(n) \in Nat \ {0}
  BY UnitPlaces
<1>6. Byte(Body + Off(n - 1) + j - 1) = Unit(n)[j]
  BY <1>1, UnitRead
<1>7. Body + Off(n - 1) + j - 1 = Body + p
  BY <1>1, <1>4, <1>5
<1>8. Unit(n)[j] \in {"quote", "backslash"}
  BY <1>6, <1>7
<1>9. IsPlain(Unit(n)) \/ Letter(n) \/ Coded(n) \/ Dangling(n)
  BY UnitKinds
<1>10. Unit(n)[1] = "backslash" /\ (j = 1 \/ j = 2)
  <2>1. CASE IsPlain(Unit(n))
    <3>1. j = 1
      BY <1>5, <2>1 DEF IsPlain, Size
    <3> QED
      BY <1>8, <2>1, <3>1 DEF IsPlain
  <2>2. CASE Letter(n)
    BY <1>5, <2>2 DEF Letter
  <2>3. CASE Coded(n)
    <3>1. j = 1 \/ j = 2 \/ j = 3 \/ j \in 4..6
      BY <2>3 DEF Coded
    <3>2. j # 3 /\ j \notin 4..6
      BY <1>8, <2>3 DEF Coded
    <3> QED
      BY <2>3, <3>1, <3>2 DEF Coded
  <2>4. CASE Dangling(n)
    BY <2>4 DEF Dangling
  <2> QED
    BY <1>9, <2>1, <2>2, <2>3, <2>4
<1>12. \/ p = Off(n - 1)
       \/ p = Off(n - 1) + 1 /\ Size(n) > 1
  BY <1>4, <1>5, <1>10
<1> QED
  BY <1>10, <1>12

\* Where a search from a safe offset ends (memchr2): at the next escape, or
\* behind the text, if there is none.
LEMMA MarkAt ==
  ASSUME task \in Strings \union Members, NEW c, Safe(c), cur = Body + c
  PROVE  \/ \E n \in 1..Count :
              /\ Unit(n)[1] = "backslash"
              /\ Mark = Body + Off(n - 1) /\ Byte(Mark) = "backslash"
         \/ /\ Mark = Body + Length /\ Byte(Mark) # "backslash"
            /\ \A n \in 1..Count : c <= Off(n - 1) => IsPlain(Unit(n))
<1> DEFINE S == {p \in cur..End : p = End \/ Byte(p) \in {"quote", "backslash"}}
<1>1. /\ Fronted(Input) /\ End \in Nat /\ Body \in Nat /\ Shut \in BOOLEAN
      /\ Shut => Byte(Body + Length) = "quote" /\ Body + Length + 1 <= End
      /\ ~Shut => End = Body + Length /\ Byte(End) = "beyond"
  BY TextEnd
<1>2. Length \in Nat /\ c \in 0..Length /\ cur = Body + c
  BY UnitPlaces DEF Safe
<1>3. S \subseteq Nat /\ Body + Length \in S /\ Byte(Body + Length) # "backslash"
      /\ Body + Length <= End
  <2>1. S \subseteq Nat
    BY <1>1, <1>2
  <2>2. Body + Length \in Nat /\ cur <= Body + Length
    BY <1>1, <1>2
  <2>3. CASE Shut
    <3>1. Byte(Body + Length) = "quote" /\ Body + Length <= End
      BY <1>1, <2>2, <2>3
    <3>2. Body + Length \in cur..End
      BY <1>1, <1>2, <2>2, <3>1
    <3> QED
      BY <2>1, <3>1, <3>2
  <2>4. CASE ~Shut
    <3>1. End = Body + Length /\ Byte(End) = "beyond"
      BY <1>1, <2>4
    <3>2. Body + Length \in cur..End
      BY <1>1, <1>2, <2>2, <3>1
    <3> QED
      BY <2>1, <3>1, <3>2
  <2> QED
    BY <1>1, <2>3, <2>4
<1>4. ASSUME NEW p \in c..(Length - 1),
             Byte(Body + p) \in {"quote", "backslash"}
      PROVE  Body + p \in S
  BY <1>1, <1>2, <1>3, <1>4
<1>5. ASSUME NEW y \in S, y # End PROVE Byte(y) \in {"quote", "backslash"}
  BY <1>5
<1>6. \A y \in S : y \in cur..End
  OBVIOUS
<1> DEFINE m == Min(S)
<1>7. Mark = m
  BY DEF Mark
<1> HIDE DEF S
<1>8. m \in S /\ \A y \in S : m <= y
  BY <1>3, MinIs
<1> HIDE DEF m
<1>9. m \in Nat /\ cur <= m /\ m <= Body + Length
  BY <1>1, <1>2, <1>3, <1>6, <1>8
<1>10. CASE m = Body + Length
  <2>1. ASSUME NEW n \in 1..Count, c <= Off(n - 1) PROVE IsPlain(Unit(n))
    <3>1. /\ Off(n - 1) \in Nat /\ Size(n) \in Nat \ {0}
      BY UnitPlaces
    <3>2. 1 \in 1..Size(n)
      BY <3>1
    <3>3. /\ Byte(Body + Off(n - 1) + 1 - 1) = Unit(n)[1]
          /\ Off(n - 1) + 1 \in 1..Length
      BY <1>1, <3>2, UnitRead
    <3>4. Body + Off(n - 1) + 1 - 1 = Body + Off(n - 1)
          /\ Off(n - 1) \in c..(Length - 1)
      BY <1>1, <1>2, <2>1, <3>1, <3>3
    <3>5. Unit(n)[1] # "backslash"
      <4> SUFFICES ASSUME Unit(n)[1] = "backslash" PROVE FALSE
        OBVIOUS
      <4>1. Body + Off(n - 1) \in S
        BY <1>4, <3>3, <3>4
      <4>2. m <= Body + Off(n - 1)
        BY <1>8, <4>1
      <4> QED
        BY <1>1, <1>2, <1>10, <3>1, <3>4, <4>2
    <3> QED
      BY <3>5, UnitKinds DEF Letter, Coded, Dangling
  <2> QED
    BY <1>3, <1>7, <1>10, <2>1
<1>11. CASE m # Body + Length
  <2> DEFINE p == m - Body
  <2>1. p \in c..(Length - 1) /\ p \in 0..(Length - 1) /\ Body + p = m /\ m # End
    BY <1>1, <1>2, <1>3, <1>9, <1>11
  <2> HIDE DEF p
  <2>2. Byte(Body + p) \in {"quote", "backslash"}
    BY <1>5, <1>8, <2>1
  <2>3. PICK n \in 1..Count :
          /\ Unit(n)[1] = "backslash"
          /\ \/ p = Off(n - 1)
             \/ p = Off(n - 1) + 1 /\ Size(n) > 1
    BY <2>1, <2>2, Marks
  <2>4. /\ Off(n - 1) \in Nat /\ Size(n) \in Nat \ {0}
    BY UnitPlaces
  <2>5. 1 \in 1..Size(n)
    BY <2>4
  <2>6. Byte(Body + Off(n - 1) + 1 - 1) = "backslash"
        /\ Off(n - 1) + 1 \in 1..Length
    BY <1>1, <2>3, <2>5, UnitRead
  <2>7. Body + Off(n - 1) + 1 - 1 = Body + Off(n - 1)
        /\ Off(n - 1) \in 0..(Length - 1)
    BY <1>1, <2>4, <2>6, <1>2
  <2>8. p # Off(n - 1) + 1 \/ ~(Size(n) > 1)
    <3> SUFFICES ASSUME p = Off(n - 1) + 1, Size(n) > 1 PROVE FALSE
      OBVIOUS
    <3>1. c # Off(n - 1) + 1
      BY DEF Safe
    <3>2. Off(n - 1) \in c..(Length - 1)
      BY <1>2, <2>1, <2>4, <2>7, <3>1
    <3>3. Body + Off(n - 1) \in S
      BY <1>4, <2>6, <2>7, <3>2
    <3>4. m <= Body + Off(n - 1)
      BY <1>8, <3>3
    <3> QED
      BY <1>1, <2>1, <2>4, <3>4
  <2>9. m = Body + Off(n - 1)
    BY <2>1, <2>3, <2>8
  <2> QED
    BY <1>7, <2>3, <2>6, <2>7, <2>9
<1> QED
  BY <1>10, <1>11

\* Behind the first two bytes of an escape, or of what there is of it, the
\* next search is safe.
LEMMA SafeAfter ==
  ASSUME task \in Strings \union Members, NEW n \in 1..Count,
         Unit(n)[1] = "backslash"
  PROVE  \E c : Safe(c) /\ Min({Body + Off(n - 1) + 2, End}) = Body + c
<1>1. /\ Fronted(Input) /\ End \in Nat /\ Body \in Nat /\ Shut \in BOOLEAN
      /\ Shut => Body + Length + 1 <= End
      /\ ~Shut => End = Body + Length
  BY TextEnd
<1>2. /\ Length \in Nat /\ Count \in Nat /\ Off(Count) = Length
      /\ Off(n) \in Nat /\ Off(n - 1) \in Nat
      /\ Size(n) \in Nat \ {0} /\ Off(n) = Off(n - 1) + Size(n)
  BY UnitPlaces
<1>3. ASSUME NEW m \in 1..Count
      PROVE  Off(m) \in Nat /\ Off(m) <= Length /\ Off(m - 1) \in Nat
             /\ Size(m) \in Nat \ {0} /\ Off(m) = Off(m - 1) + Size(m)
  <2>1. m \in 0..Count /\ Count \in 0..Count /\ m <= Count
    BY <1>2
  <2>2. Off(m) + (Count - m) <= Off(Count)
    BY <2>1, UnitOrder
  <2>3. Off(m) \in Nat /\ Off(m - 1) \in Nat
        /\ Size(m) \in Nat \ {0} /\ Off(m) = Off(m - 1) + Size(m)
    BY UnitPlaces
  <2> QED
    BY <1>2, <2>1, <2>2, <2>3
<1> DEFINE a == Body + Off(n - 1) + 2
           x == Min({a, End})
<1>4. a \in Nat
  BY <1>1, <1>2
<1> HIDE DEF a
<1>5. x \in Nat /\ x <= End /\ (x = a \/ x = End) /\ x <= a
  <2>1. {a, End} \subseteq Nat /\ {a, End} # {}
    BY <1>1, <1>4
  <2>2. x \in {a, End} /\ \A y \in {a, End} : x <= y
    BY <2>1, MinIs, Zenon
  <2> HIDE DEF x
  <2> QED
    BY <1>1, <1>4, <2>2
<1>6. x = Min({a, End})
  OBVIOUS
<1> HIDE DEF x
<1>7. CASE Size(n) > 1
  <2> DEFINE c == Off(n - 1) + 2
  <2>1. c \in 0..Length /\ Body + c = a
    BY <1>1, <1>2, <1>3, <1>7 DEF a
  <2>2. Body + c <= End
    BY <1>1, <1>2, <2>1
  <2>3. x = Body + c
    BY <1>1, <1>4, <1>5, <2>1, <2>2
  <2>4. ASSUME NEW m \in 1..Count, Size(m) > 1, c = Off(m - 1) + 1
        PROVE  FALSE
    <3>1. 2 \in 1..Size(n) /\ 1 \in 1..Size(m)
      BY <1>2, <1>3, <1>7
    <3>2. Off(n - 1) + 2 = Off(m - 1) + 1
      BY <2>4
    <3>3. 2 = 1
      BY <3>1, <3>2, UnitOrder
    <3> QED
      BY <3>3
  <2>5. Safe(c)
    BY <2>1, <2>4 DEF Safe
  <2> QED
    BY <1>6, <2>3, <2>5 DEF a
<1>8. CASE ~(Size(n) > 1)
  <2>1. n = Count /\ ~Shut
    BY <1>8, UnitKinds DEF IsPlain, Letter, Coded, Dangling
  <2>2. Size(n) = 1 /\ Off(n - 1) + 1 = Length /\ End = Body + Length
    BY <1>1, <1>2, <1>8, <2>1
  <2>3. x = Body + Length
    BY <1>1, <1>2, <1>5, <2>2 DEF a
  <2>4. ASSUME NEW m \in 1..Count, Size(m) > 1, Length = Off(m - 1) + 1
        PROVE  FALSE
    BY <1>2, <1>3, <2>4
  <2>5. Safe(Length)
    BY <1>2, <2>4 DEF Safe
  <2> QED
    BY <1>6, <2>3, <2>5 DEF a
<1> QED
  BY <1>7, <1>8

\* The body of a text is behind its first quote, and to search from there is
\* safe.
LEMMA BodyAt ==
  ASSUME task \in Strings \union Members
  PROVE  Ws(1) + 1 = Body /\ Safe(0)
<1> DEFINE L == Len(task.lead)
<1>1. L \in Nat /\ Body = L + 2
  BY TextParts DEF Body
<1>2. Fronted(Input) /\ End \in Nat
  BY TextEnd
<1>3. /\ \A p \in 1..L : Byte(p) = "ws"
      /\ Byte(L + 1) = "quote"
      /\ Body + Length <= End
  BY <1>2, FrontRead DEF Length
<1>4. Length \in Nat /\ \A n \in 1..Count : Off(n - 1) \in Nat
  BY UnitPlaces
<1> HIDE DEF L
<1>5. 1 + L = L + 1 /\ 1 + L <= End /\ \A j \in 0..(L - 1) : 1 + j \in 1..L
  BY <1>1, <1>2, <1>3, <1>4
<1>6. Ws(1) = 1 + L
  BY <1>1, <1>2, <1>3, <1>5, PastBlanks
<1>7. Safe(0)
  BY <1>4 DEF Safe
<1> QED
  BY <1>1, <1>6, <1>7

\* The text has no escapes.
AllPlain == \A n \in 1..Count : IsPlain(Unit(n))

\* Behind the text.
After == Body + Length + (IF Shut THEN 1 ELSE 0)

\* The search for the end of a text.
Searching ==
  /\ pc = "begin" => cur = 1 /\ ~esc /\ start = 0
  /\ pc \in {"begin", "strscan"} => len = 0
  /\ pc = "strscan" =>
       /\ start = Body
       /\ \E c : Safe(c) /\ cur = Body + c
       /\ ~esc => cur = Body

\* What has been found.
Found == start = Body /\ len = Length /\ cur = After /\ (~esc => AllPlain)

\* It begins at the body (strspan).
LEMMA SearchOpens ==
  ASSUME task \in Strings \union Members, Searching, OpenQuote
  PROVE  task' = task /\ Searching'
<1>1. cur = 1 /\ task' = task /\ start' = Ws(cur) + 1 /\ cur' = Ws(cur) + 1
      /\ pc' = "strscan" /\ len' = 0
  BY DEF Searching, OpenQuote
<1>2. Ws(1) + 1 = Body /\ Safe(0) /\ Body \in Nat
  BY BodyAt, TextParts
<1>3. Body' = Body /\ Safe(0)' = Safe(0)
  BY <1>1 DEF Body, Safe, Length, Text, Count, Size, Unit, Off
<1>4. start' = Body /\ cur' = Body /\ Body = Body + 0
  BY <1>1, <1>2
<1>5. \E c : Safe(c)' /\ cur' = Body + c
  BY <1>2, <1>3, <1>4
<1> QED
  BY <1>1, <1>3, <1>4, <1>5 DEF Searching

\* It goes on behind an escape (rt_strscan).
LEMMA SearchGoesOn ==
  ASSUME task \in Strings \union Members, Searching, SkipEscape
  PROVE  task' = task /\ Searching'
<1>1. /\ pc = "strscan" /\ pc' = pc /\ task' = task /\ esc' = TRUE
      /\ start' = start /\ start = Body /\ len' = 0
      /\ Byte(Mark) = "backslash" /\ cur' = Min({Mark + 2, End})
  BY DEF Searching, SkipEscape
<1>2. PICK c : Safe(c) /\ cur = Body + c
  BY <1>1 DEF Searching
<1>3. PICK n \in 1..Count :
        Unit(n)[1] = "backslash" /\ Mark = Body + Off(n - 1)
  BY <1>1, <1>2, MarkAt
<1>4. PICK d : Safe(d) /\ Min({Body + Off(n - 1) + 2, End}) = Body + d
  BY <1>3, SafeAfter
<1>5. cur' = Body + d
  BY <1>1, <1>3, <1>4
<1>6. Body' = Body /\ (Safe(d)' <=> Safe(d))
  BY <1>1 DEF Body, Safe, Length, Text, Count, Size, Unit, Off
<1>7. \E e : Safe(e)' /\ cur' = Body + e
  BY <1>4, <1>5, <1>6
<1> QED
  BY <1>1, <1>6, <1>7 DEF Searching

\* And ends where the text does.
LEMMA SearchEnds ==
  ASSUME task \in Strings \union Members, Searching, CloseQuote
  PROVE  task' = task /\ Found'
<1>1. /\ pc = "strscan" /\ task' = task /\ esc' = esc
      /\ start' = start /\ start = Body
      /\ Byte(Mark) # "backslash" /\ len' = Mark - start
      /\ cur' = Min({Mark + 1, End})
  BY DEF Searching, CloseQuote
<1>2. PICK c : Safe(c) /\ cur = Body + c
  BY <1>1 DEF Searching
<1>3. /\ Mark = Body + Length
      /\ \A n \in 1..Count : c <= Off(n - 1) => IsPlain(Unit(n))
  BY <1>1, <1>2, MarkAt
<1>4. /\ Length \in Nat /\ c \in 0..Length
      /\ \A n \in 1..Count : Off(n - 1) \in Nat
  BY <1>2, UnitPlaces DEF Safe
<1>5. /\ End \in Nat /\ Body \in Nat /\ Shut \in BOOLEAN
      /\ Shut => Body + Length + 1 <= End
      /\ ~Shut => End = Body + Length
  BY TextEnd
<1>6. len' = Length
  BY <1>1, <1>3, <1>4, <1>5
<1>7. cur' = After
  <2> DEFINE a == Mark + 1
             x == Min({a, End})
  <2>1. a \in Nat /\ a = Body + Length + 1
    BY <1>3, <1>4, <1>5
  <2> HIDE DEF a
  <2>2. {a, End} \subseteq Nat /\ {a, End} # {}
    BY <1>5, <2>1
  <2>3. x \in {a, End} /\ \A y \in {a, End} : x <= y
    BY <2>2, MinIs, Zenon
  <2>4. cur' = x
    BY <1>1 DEF a
  <2> HIDE DEF x
  <2>5. CASE Shut
    <3>1. x = a
      BY <1>5, <2>1, <2>3, <2>5
    <3> QED
      BY <2>1, <2>4, <2>5, <3>1 DEF After
  <2>6. CASE ~Shut
    <3>1. x = End
      BY <1>4, <1>5, <2>1, <2>3, <2>6
    <3>2. After = Body + Length + 0
      BY <2>6 DEF After
    <3> QED
      BY <1>4, <1>5, <2>4, <2>6, <3>1, <3>2
  <2> QED
    BY <1>5, <2>5, <2>6
<1>8. ~esc => AllPlain
  <2> SUFFICES ASSUME ~esc, NEW n \in 1..Count PROVE IsPlain(Unit(n))
    BY DEF AllPlain
  <2>1. Body + c = Body
    BY <1>1, <1>2 DEF Searching
  <2>2. c = 0
    BY <1>4, <1>5, <2>1
  <2> QED
    BY <1>3, <1>4, <2>2
<1>9. Body' = Body /\ Length' = Length /\ After' = After
      /\ (AllPlain' <=> AllPlain)
  BY <1>1 DEF Body, AllPlain, After, Length, Text, Shut, Count, Unit
<1> QED
  BY <1>1, <1>6, <1>7, <1>8, <1>9 DEF Found

-----------------------------------------------------------------------------
(* What a text means.                                                      *)

\* Characters of a String: bytes, and those of escapes.
Chars == Bytes \union {"quote", "backslash", "LF", "pair", "bmp", "FFFD"}

\* A high surrogate and the low one after it.
Pair(n) ==
  n < Count /\ IsCode(Unit(n), "hi") /\ IsCode(Unit(n + 1), "lo")

Meant(n) == MeantFrom(task.units)[n]
Whole == Meanings(task.units)

\* What a unit means.
LEMMA MeaningOf ==
  ASSUME task \in Strings \union Members, NEW n \in 1..Count
  PROVE  /\ Meaning(Unit(n)) \in Seq(Chars)
         /\ IsPlain(Unit(n)) => Meaning(Unit(n)) = <<Unit(n)[1]>>
         /\ Letter(n) => Meaning(Unit(n)) = <<Named[Unit(n)[2]]>>
         /\ Coded(n) => Meaning(Unit(n)) =
                          <<IF Unit(n)[3] = "bm" THEN "bmp" ELSE "FFFD">>
         /\ Dangling(n) => Meaning(Unit(n)) = <<>>
<1> DEFINE u == Unit(n)
<1>1. u \in Seq(Bytes)
  BY UnitPlaces
<1>2. Bytes \subseteq Chars
  BY Zenon DEF Chars
<1>3. ASSUME IsPlain(u)
      PROVE  Meaning(u) = <<u[1]>> /\ Meaning(u) \in Seq(Chars)
  <2>1. Len(u) = 1 /\ u[1] # "backslash"
    BY <1>3 DEF IsPlain
  <2>2. Meaning(u) = u
    BY <2>1 DEF Meaning
  <2>3. u = <<u[1]>>
    BY <1>1, <2>1
  <2>4. u \in Seq(Chars)
    BY <1>1, <1>2, SeqMonotonic, Zenon
  <2> QED
    BY <2>2, <2>3, <2>4
<1>4. ASSUME Letter(n)
      PROVE  Meaning(u) = <<Named[u[2]]>> /\ Meaning(u) \in Seq(Chars)
  <2>1. Len(u) = 2 /\ u[1] = "backslash" /\ u[2] \in DOMAIN Named
    BY <1>4 DEF Letter, Size
  <2>2. u # <<"backslash">>
    BY <2>1
  <2>3. Meaning(u) = <<Named[u[2]]>>
    BY <2>1, <2>2 DEF Meaning
  <2>4. Named[u[2]] \in {"quote", "backslash", "LF"}
    BY <2>1 DEF Named
  <2>5. Named[u[2]] \in Chars
    BY <2>4, Zenon DEF Chars
  <2> QED
    BY <2>3, <2>5
<1>5. ASSUME Coded(n)
      PROVE  /\ Meaning(u) = <<IF u[3] = "bm" THEN "bmp" ELSE "FFFD">>
             /\ Meaning(u) \in Seq(Chars)
  <2>1. Len(u) = 6 /\ u[1] = "backslash"
    BY <1>5 DEF Coded, Size
  <2>2. u # <<"backslash">>
    BY <2>1
  <2>3. Meaning(u) = <<IF u[3] = "bm" THEN "bmp" ELSE "FFFD">>
    BY <2>1, <2>2 DEF Meaning
  <2>4. "bmp" \in Chars /\ "FFFD" \in Chars
    BY Zenon DEF Chars
  <2> QED
    BY <2>3, <2>4
<1>6. ASSUME Dangling(n)
      PROVE  Meaning(u) = <<>> /\ Meaning(u) \in Seq(Chars)
  <2>1. u = <<"backslash">> /\ u[1] = "backslash"
    BY <1>6 DEF Dangling
  <2>2. Meaning(u) = <<>>
    BY <2>1 DEF Meaning
  <2> QED
    BY <2>2, EmptySeq
<1>7. IsPlain(u) \/ Letter(n) \/ Coded(n) \/ Dangling(n)
  BY UnitKinds
<1> QED
  BY <1>3, <1>4, <1>5, <1>6, <1>7

\* The recursion of MeantFrom, which goes two units at a time at most, has a
\* solution: so it says what is meant from each unit on.
LEMMA MeantIs ==
  ASSUME task \in Strings \union Members
  PROVE  /\ Meant(Count + 1) = <<>> /\ Whole = Meant(1)
         /\ \A n \in 1..(Count + 1) : Meant(n) \in Seq(Chars)
         /\ \A n \in 1..Count :
              /\ Pair(n) => n + 2 \in 1..(Count + 1)
                            /\ Meant(n) = <<"pair">> \o Meant(n + 2)
              /\ ~Pair(n) => Meant(n) = Meaning(Unit(n)) \o Meant(n + 1)
<1> DEFINE U == task.units
           N == Len(U)
           C == Seq(Chars)
           Is(f) ==
             f = [n \in 1..(N + 2) |->
                    CASE n > N -> <<>>
                      [] n < N /\ IsCode(U[n], "hi") /\ IsCode(U[n + 1], "lo") ->
                           <<"pair">> \o f[n + 2]
                      [] OTHER -> Meaning(U[n]) \o f[n + 1]]
           F == CHOOSE f : Is(f)
<1>1. MeantFrom(U) = F
  BY Zenon DEF MeantFrom
<1>2. N = Count /\ N \in Nat
  BY UnitPlaces DEF Count
<1>3. \A n \in 1..N : Meaning(U[n]) \in C
  BY <1>2, MeaningOf DEF Unit
<1>4. <<>> \in C /\ <<"pair">> \in C
  <2>1. "pair" \in Chars
    BY Zenon DEF Chars
  <2> QED
    BY <2>1, EmptySeq
<1> DEFINE P(n) == n < N /\ IsCode(U[n], "hi") /\ IsCode(U[n + 1], "lo")
           step == [x \in Nat \X (C \X C) |->
                      IF x[1] \in 1..N
                      THEN IF P(N + 1 - x[1])
                           THEN <<<<"pair">> \o x[2][2], x[2][1]>>
                           ELSE <<Meaning(U[N + 1 - x[1]]) \o x[2][1], x[2][1]>>
                      ELSE x[2]]
<1>5. \A a, b \in C : a \o b \in C
  BY ConcatProperties
<1> HIDE DEF N, C, P
<1>6. step \in [Nat \X (C \X C) -> C \X C]
  <2> SUFFICES ASSUME NEW x \in Nat \X (C \X C)
               PROVE  step[x] \in C \X C
    OBVIOUS
  <2>1. x[1] \in Nat /\ x[2] \in C \X C /\ x[2][1] \in C /\ x[2][2] \in C
    OBVIOUS
  <2>2. CASE x[1] \in 1..N
    <3>1. N + 1 - x[1] \in 1..N
      BY <1>2, <2>2
    <3>2. Meaning(U[N + 1 - x[1]]) \o x[2][1] \in C
          /\ <<"pair">> \o x[2][2] \in C
      BY <1>3, <1>4, <1>5, <2>1, <3>1
    <3> QED
      BY <2>1, <2>2, <3>2
  <2>3. CASE x[1] \notin 1..N
    BY <2>1, <2>3
  <2> QED
    BY <2>2, <2>3
<1> DEFINE base == <<<<>>, <<>>>>
<1>7. base \in C \X C
  BY <1>4
<1> HIDE DEF step, base
<1>8. PICK g \in [0..N -> C \X C] : Recurs(g, N, base, step)
  BY <1>2, <1>6, <1>7, NatRecursion, Zenon
<1> DEFINE h == [n \in 1..(N + 2) |-> IF n = N + 2 THEN <<>> ELSE g[N + 1 - n][1]]
<1>9. ASSUME NEW n \in 1..N
      PROVE  /\ h[n] = IF P(n) THEN <<"pair">> \o g[N - n][2]
                       ELSE Meaning(U[n]) \o g[N - n][1]
             /\ g[N + 1 - n][2] = g[N - n][1]
             /\ n + 1 \in 1..(N + 2) /\ n + 2 \in 1..(N + 2)
             /\ h[n + 1] = g[N - n][1]
  <2>1. /\ N + 1 - n \in 1..N /\ (N + 1 - n) - 1 = N - n /\ N - n \in 0..N
        /\ N + 1 - (N + 1 - n) = n /\ n \in 1..(N + 2) /\ n # N + 2
        /\ N + 1 - n \in Nat
        /\ n + 1 \in 1..(N + 2) /\ n + 2 \in 1..(N + 2)
        /\ n + 1 # N + 2 /\ N + 1 - (n + 1) = N - n
    BY <1>2
  <2>2. g[N + 1 - n] = step[<<N + 1 - n, g[N - n]>>]
    BY <1>8, <2>1 DEF Recurs
  <2>3. g[N - n] \in C \X C
    BY <1>8, <2>1
  <2>4. step[<<N + 1 - n, g[N - n]>>] =
          IF P(n) THEN <<<<"pair">> \o g[N - n][2], g[N - n][1]>>
          ELSE <<Meaning(U[n]) \o g[N - n][1], g[N - n][1]>>
    BY <2>1, <2>3 DEF step
  <2>5. h[n] = g[N + 1 - n][1] /\ h[n + 1] = g[N - n][1]
    BY <2>1
  <2> QED
    BY <2>1, <2>2, <2>4, <2>5
<1>10. h[N + 1] = <<>> /\ h[N + 2] = <<>>
  <2>1. N + 1 \in 1..(N + 2) /\ N + 1 # N + 2 /\ N + 1 - (N + 1) = 0
        /\ N + 2 \in 1..(N + 2)
    BY <1>2
  <2>2. g[0][1] = <<>>
    BY <1>8 DEF Recurs, base
  <2> QED
    BY <2>1, <2>2
<1>11. ASSUME NEW n \in 1..N, n < N PROVE h[n + 2] = g[N - n][2]
  <2>1. n + 1 \in 1..N /\ (n + 1) + 1 = n + 2 /\ N - (n + 1) = (N - n) - 1
        /\ N + 1 - (n + 1) = N - n
    BY <1>2, <1>11
  <2>2. h[(n + 1) + 1] = g[N - (n + 1)][1]
        /\ g[N + 1 - (n + 1)][2] = g[N - (n + 1)][1]
    BY <1>9, <2>1
  <2> QED
    BY <2>1, <2>2
<1>12. \A n \in 1..N : h[n] = IF P(n) THEN <<"pair">> \o h[n + 2]
                              ELSE Meaning(U[n]) \o h[n + 1]
  <2>1. \A n \in 1..N : P(n) => n < N
    BY DEF P
  <2> HIDE DEF h
  <2> QED
    BY <1>9, <1>11, <2>1, Zenon
<1>20. \A f : Is(f) <=> f = [n \in 1..(N + 2) |->
                    CASE n > N -> <<>>
                      [] P(n) -> <<"pair">> \o f[n + 2]
                      [] OTHER -> Meaning(U[n]) \o f[n + 1]]
  BY DEF P
<1>13. Is(h)
  <2>1. ASSUME NEW n \in 1..(N + 2)
        PROVE  h[n] = CASE n > N -> <<>>
                        [] P(n) -> <<"pair">> \o h[n + 2]
                        [] OTHER -> Meaning(U[n]) \o h[n + 1]
    <3>1. CASE n \in 1..N
      <4>1. ~(n > N)
        BY <1>2, <3>1
      <4>2. h[n] = IF P(n) THEN <<"pair">> \o h[n + 2]
                   ELSE Meaning(U[n]) \o h[n + 1]
        BY <1>12, <3>1
      <4> HIDE DEF h
      <4> QED
        BY <4>1, <4>2, Zenon
    <3>2. CASE n \notin 1..N
      <4>1. n > N /\ ~(n < N) /\ (n = N + 1 \/ n = N + 2)
        BY <1>2, <3>2
      <4>2. ~P(n)
        BY <4>1 DEF P
      <4> HIDE DEF h
      <4> QED
        BY <1>10, <4>1, <4>2
    <3> QED
      BY <3>1, <3>2
  <2>2. h = [n \in 1..(N + 2) |-> h[n]]
    OBVIOUS
  <2> HIDE DEF h, Is
  <2>3. h = [n \in 1..(N + 2) |->
                    CASE n > N -> <<>>
                      [] P(n) -> <<"pair">> \o h[n + 2]
                      [] OTHER -> Meaning(U[n]) \o h[n + 1]]
    BY <2>1, <2>2, Zenon
  <2> QED
    BY <1>20, <2>3, Zenon
<1> HIDE DEF h, Is
<1>14. Is(F)
  BY <1>13, Zenon
<1> HIDE DEF F
<1>15. F[N + 1] = <<>> /\ F[N + 2] = <<>>
       /\ \A n \in 1..N : F[n] = IF P(n) THEN <<"pair">> \o F[n + 2]
                                 ELSE Meaning(U[n]) \o F[n + 1]
  <2>1. F = [n \in 1..(N + 2) |->
                    CASE n > N -> <<>>
                      [] P(n) -> <<"pair">> \o F[n + 2]
                      [] OTHER -> Meaning(U[n]) \o F[n + 1]]
    BY <1>14, <1>20, Zenon
  <2>2. ASSUME NEW n \in 1..(N + 2)
        PROVE  F[n] = CASE n > N -> <<>>
                    [] P(n) -> <<"pair">> \o F[n + 2]
                    [] OTHER -> Meaning(U[n]) \o F[n + 1]
    BY <2>1, Zenon
  <2>3. N + 1 \in 1..(N + 2) /\ N + 2 \in 1..(N + 2) /\ N + 1 > N /\ N + 2 > N
    BY <1>2
  <2>4. ~P(N + 1) /\ ~P(N + 2)
    BY <1>2 DEF P
  <2>5. F[N + 1] = <<>> /\ F[N + 2] = <<>>
    BY <2>2, <2>3, <2>4
  <2>6. ASSUME NEW n \in 1..N
        PROVE  F[n] = IF P(n) THEN <<"pair">> \o F[n + 2]
                      ELSE Meaning(U[n]) \o F[n + 1]
    <3>1. n \in 1..(N + 2) /\ ~(n > N)
      BY <1>2
    <3> QED
      BY <2>2, <3>1, Zenon
  <2> QED
    BY <2>5, <2>6
<1> DEFINE T == {k \in Nat : k <= N => F[N + 1 - k] \in C /\ F[N + 2 - k] \in C}
<1>16. 0 \in T
  <2>1. N + 1 - 0 = N + 1 /\ N + 2 - 0 = N + 2
    BY <1>2
  <2> QED
    BY <1>4, <1>15, <2>1
<1>17. ASSUME NEW k \in 0..(N - 1), k \in T PROVE k + 1 \in T
  <2>1. /\ N - k \in 1..N /\ N + 1 - (k + 1) = N - k
        /\ N + 2 - (k + 1) = N + 1 - k /\ (N - k) + 1 = N + 1 - k
        /\ (N - k) + 2 = N + 2 - k /\ k \in Nat /\ k + 1 \in Nat /\ k <= N
    BY <1>2
  <2>2. F[N + 1 - k] \in C /\ F[N + 2 - k] \in C
    BY <1>17, <2>1
  <2>3. F[N - k] \in C
    <3>1. F[N - k] = IF P(N - k) THEN <<"pair">> \o F[N + 2 - k]
                     ELSE Meaning(U[N - k]) \o F[N + 1 - k]
      BY <1>15, <2>1
    <3>2. Meaning(U[N - k]) \in C
      BY <1>3, <2>1
    <3> QED
      BY <1>4, <1>5, <2>2, <3>1, <3>2
  <2> QED
    BY <2>1, <2>2, <2>3
<1>18. 0..N \subseteq T
  <2> HIDE DEF T
  <2> QED
    BY <1>2, <1>16, <1>17, UpToAll
<1>19. ASSUME NEW n \in 1..(N + 1) PROVE F[n] \in C
  <2>1. N + 1 - n \in 0..N /\ N + 1 - (N + 1 - n) = n
    BY <1>2
  <2>2. N + 1 - n \in T
    BY <1>18, <2>1
  <2> QED
    BY <2>1, <2>2
<1>21. \A n : Meant(n) = F[n]
  BY <1>1 DEF Meant
<1>22. \A n : P(n) <=> Pair(n)
  BY <1>2 DEF P, Pair, Unit, N
<1>23. \A n \in 1..N : P(n) => n + 2 \in 1..(N + 1)
  BY <1>2 DEF P
<1>24. Whole = Meant(1)
  BY DEF Whole, Meanings, Meant
<1> QED
  BY <1>2, <1>15, <1>19, <1>21, <1>22, <1>23, <1>24 DEF C, Unit

\* A text without escapes means itself.
LEMMA PlainMeans ==
  ASSUME task \in Strings \union Members, AllPlain
  PROVE  /\ Len(Whole) = Length
         /\ \A j \in 1..Length : Whole[j] = Byte(Body + j - 1)
<1>1. /\ Count \in Nat /\ Off(0) = 0 /\ Off(Count) = Length
      /\ \A n \in 1..Count : Off(n) = Off(n - 1) + Size(n)
  BY UnitPlaces
<1>2. \A n \in 1..Count : Size(n) = 1 /\ ~Pair(n)
                          /\ Meaning(Unit(n)) = <<Unit(n)[1]>>
  <2> SUFFICES ASSUME NEW n \in 1..Count
               PROVE  Size(n) = 1 /\ ~Pair(n) /\ Meaning(Unit(n)) = <<Unit(n)[1]>>
    OBVIOUS
  <2>1. IsPlain(Unit(n))
    BY DEF AllPlain
  <2>2. Size(n) = 1
    BY <2>1 DEF IsPlain, Size
  <2>3. ~Pair(n)
    <3> SUFFICES ASSUME Pair(n) PROVE FALSE
      OBVIOUS
    <3>1. Unit(n) = <<"backslash", "u", "hi", ".", ".", ".">>
      BY DEF Pair, IsCode
    <3>2. Len(Unit(n)) = 6
      BY <3>1
    <3> QED
      BY <2>2, <3>2 DEF Size
  <2> QED
    BY <2>1, <2>2, <2>3, MeaningOf
<1> DEFINE S == {n \in Nat : n <= Count => Off(n) = n}
<1>3. 0 \in S
  BY <1>1
<1>4. ASSUME NEW n \in 0..(Count - 1), n \in S PROVE n + 1 \in S
  <2>1. n + 1 \in 1..Count /\ (n + 1) - 1 = n /\ Off(n) = n
    BY <1>1, <1>4
  <2>2. Off(n + 1) = n + 1
    BY <1>1, <1>2, <2>1
  <2> QED
    BY <2>1, <2>2
<1>5. 0..Count \subseteq S
  <2> HIDE DEF S
  <2> QED
    BY <1>1, <1>3, <1>4, UpToAll
<1>6. Length = Count /\ \A n \in 1..Count : Off(n - 1) = n - 1
  BY <1>1, <1>5
<1>7. ASSUME NEW n \in 1..Count PROVE Unit(n)[1] = Byte(Body + n - 1)
  <2>1. Fronted(Input) /\ Body \in Nat
    BY TextEnd
  <2>2. 1 \in 1..Size(n) /\ Off(n - 1) = n - 1
    BY <1>2, <1>6
  <2>3. Byte(Body + Off(n - 1) + 1 - 1) = Unit(n)[1]
    BY <2>1, <2>2, UnitRead
  <2>4. Body + (n - 1) + 1 - 1 = Body + n - 1
    BY <2>1
  <2> QED
    BY <2>2, <2>3, <2>4
<1>8. /\ Meant(Count + 1) = <<>> /\ Whole = Meant(1)
      /\ \A n \in 1..(Count + 1) : Meant(n) \in Seq(Chars)
      /\ \A n \in 1..Count : Meant(n) = <<Unit(n)[1]>> \o Meant(n + 1)
  BY <1>2, MeantIs
<1> DEFINE T == {k \in Nat : k <= Count =>
                   LET m == Meant(Count + 1 - k) IN
                     /\ Len(m) = k
                     /\ \A j \in 1..k : m[j] = Byte(Body + (Count - k) + j - 1)}
<1>9. 0 \in T
  <2>1. Count + 1 - 0 = Count + 1 /\ Len(<<>>) = 0
    BY <1>1
  <2> QED
    BY <1>8, <2>1
<1>10. ASSUME NEW k \in 0..(Count - 1), k \in T PROVE k + 1 \in T
  <2> DEFINE n == Count - k
             m == Meant(n + 1)
             o == Meant(n)
             b == <<Unit(n)[1]>>
  <2>1. /\ n \in 1..Count /\ n + 1 = Count + 1 - k /\ n + 1 \in 1..(Count + 1)
        /\ Count + 1 - (k + 1) = n /\ Count - (k + 1) = n - 1 /\ k <= Count
        /\ k \in Nat /\ Count - k = n
    BY <1>1
  <2> HIDE DEF n
  <2>2. Len(m) = k /\ \A j \in 1..k : m[j] = Byte(Body + n + j - 1)
    BY <1>10, <2>1
  <2>3. o = b \o m /\ m \in Seq(Chars)
    BY <1>8, <2>1
  <2>4. Unit(n) \in Seq(Bytes) /\ 1 \in 1..Len(Unit(n))
    BY <1>2, <2>1, UnitPlaces DEF Size
  <2>5. b \in Seq(Chars) /\ Len(b) = 1 /\ b[1] = Unit(n)[1]
    <3>1. Unit(n)[1] \in Bytes
      BY <2>4, ElementOfSeq
    <3>2. Unit(n)[1] \in Chars
      BY <3>1, Zenon DEF Chars
    <3> QED
      BY <3>2
  <2> HIDE DEF m, b
  <2>6. /\ Len(b \o m) = 1 + k
        /\ \A j \in 1..(1 + k) : (b \o m)[j] = IF j <= 1 THEN b[j] ELSE m[j - 1]
    <3>1. /\ Len(b \o m) = Len(b) + Len(m)
          /\ \A j \in 1..(Len(b) + Len(m)) :
               (b \o m)[j] = IF j <= Len(b) THEN b[j] ELSE m[j - Len(b)]
      BY <2>3, <2>5, ConcatProperties, Zenon
    <3> QED
      BY <2>2, <2>5, <3>1, Zenon
  <2>7. Len(o) = 1 + k
        /\ \A j \in 1..(1 + k) : o[j] = IF j <= 1 THEN b[j] ELSE m[j - 1]
    BY <2>3, <2>6
  <2> HIDE DEF o
  <2>8. ASSUME NEW j \in 1..(k + 1) PROVE o[j] = Byte(Body + (n - 1) + j - 1)
    <3>0. Body \in Nat
      BY TextParts
    <3>1. CASE j = 1
      <4>1. o[j] = Unit(n)[1] /\ Body + (n - 1) + j - 1 = Body + n - 1
        BY <2>1, <2>5, <2>7, <3>0, <3>1
      <4> QED
        BY <1>7, <2>1, <4>1
    <3>2. CASE j # 1
      <4>1. j - 1 \in 1..k /\ j \in 1..(1 + k) /\ ~(j <= 1)
            /\ Body + (n - 1) + j - 1 = Body + n + (j - 1) - 1
        BY <2>1, <3>0, <3>2
      <4> QED
        BY <2>2, <2>7, <4>1
    <3> QED
      BY <3>1, <3>2
  <2>9. Len(o) = k + 1
    BY <2>1, <2>7
  <2> QED
    BY <2>1, <2>8, <2>9 DEF o
<1>11. 0..Count \subseteq T
  <2> HIDE DEF T
  <2> QED
    BY <1>1, <1>9, <1>10, UpToAll
<1>12. Count \in T /\ Count + 1 - Count = 1 /\ Count - Count = 0
  BY <1>1, <1>11
<1>13. /\ Len(Whole) = Count
       /\ \A j \in 1..Count : Whole[j] = Byte(Body + 0 + j - 1)
  BY <1>1, <1>8, <1>12
<1>14. Body + 0 = Body
  BY TextParts
<1> QED
  BY <1>6, <1>13, <1>14

\* A buffer with the first k characters of what is meant.
Sofar(k) == [j \in 0..(k - 1) |-> Whole[j + 1]]

\* Of what is meant, k characters are in the buffer, and the rest is what is
\* meant from unit n + 1 on.
Held(n, k) ==
  /\ k \in Nat /\ k <= Off(n)
  /\ buf = Sofar(k)
  /\ Stands(Whole, k, Meant(n + 1)) /\ k + Len(Meant(n + 1)) = Len(Whole)

\* A push is the next character.
LEMMA PushHolds ==
  ASSUME task \in Strings \union Members, NEW n \in 0..Count, NEW k, Held(n, k),
         NEW m \in 0..Count, Off(n) < Off(m),
         NEW c \in Chars, Meant(n + 1) = <<c>> \o Meant(m + 1)
  PROVE  /\ k + 1 \in Nat /\ k + 1 <= Off(m)
         /\ Pushed(c) = Sofar(k + 1)
         /\ Stands(Whole, k + 1, Meant(m + 1))
         /\ (k + 1) + Len(Meant(m + 1)) = Len(Whole)
<1> DEFINE t == Meant(m + 1)
           e == Meant(n + 1)
           b == <<c>>
           T == Len(t)
<1>0. Count \in Nat /\ Off(n) \in Nat /\ Off(m) \in Nat
  BY UnitPlaces
<1>1. m + 1 \in 1..(Count + 1) /\ 1 \in 1..(Count + 1)
  BY <1>0
<1>2. t \in Seq(Chars) /\ Len(Whole) \in Nat
  BY <1>1, MeantIs, LenProperties
<1>3. e = b \o t /\ b \in Seq(Chars) /\ Len(b) = 1 /\ b[1] = c /\ T \in Nat
  BY <1>2, LenProperties
<1>4. k \in Nat /\ k <= Off(n) /\ buf = Sofar(k)
      /\ Stands(Whole, k, e) /\ k + Len(e) = Len(Whole)
  BY DEF Held
<1>12. Len(t) = T
  OBVIOUS
<1> HIDE DEF t, b, T
<1>5. /\ Len(b \o t) = 1 + T
      /\ \A j \in 1..(1 + T) : (b \o t)[j] = IF j <= 1 THEN b[j] ELSE t[j - 1]
  <2>1. /\ Len(b \o t) = Len(b) + Len(t)
        /\ \A j \in 1..(Len(b) + Len(t)) :
             (b \o t)[j] = IF j <= Len(b) THEN b[j] ELSE t[j - Len(b)]
    BY <1>2, <1>3, ConcatProperties, Zenon
  <2> QED
    BY <1>3, <1>12, <2>1, Zenon
<1> HIDE DEF e
<1>6. /\ Len(e) = 1 + T
      /\ \A j \in 1..(1 + T) : e[j] = IF j <= 1 THEN b[j] ELSE t[j - 1]
  BY <1>3, <1>5, Zenon
<1>7. \A j \in 1..(1 + T) : Whole[k + j] = e[j]
  BY <1>4, <1>6 DEF Stands
<1>8. Whole[k + 1] = c
  <2>1. 1 \in 1..(1 + T)
    BY <1>3
  <2> QED
    <3>1. e[1] = b[1]
      <4>1. 1 <= 1
        OBVIOUS
      <4> QED
        BY <1>6, <2>1, <4>1, Zenon
    <3>2. Whole[k + 1] = e[1]
      BY <1>7, <2>1, Zenon
    <3> QED
      BY <1>3, <3>1, <3>2, Zenon
<1>9. (k + 1) + T = Len(Whole)
  BY <1>2, <1>3, <1>4, <1>6
<1>10. Stands(Whole, k + 1, t)
  <2>1. ASSUME NEW j \in 1..T PROVE Whole[(k + 1) + j] = t[j]
    <3>1. (k + 1) + j = k + (j + 1) /\ j + 1 \in 1..(1 + T) /\ ~(j + 1 <= 1)
          /\ (j + 1) - 1 = j
      BY <1>3, <1>4
    <3> QED
      BY <1>6, <1>7, <3>1
  <2>2. (k + 1) + Len(t) <= Len(Whole)
    BY <1>2, <1>9, <1>12
  <2> QED
    BY <1>12, <2>1, <2>2 DEF Stands
<1>11. Pushed(c) = Sofar(k + 1)
  <2>1. DOMAIN buf = 0..(k - 1)
    BY <1>4 DEF Sofar
  <2>2. Cardinality(DOMAIN buf) = k
    <3> DEFINE x == k - 1
    <3>1. x \in Int /\ 0 \in Int /\ (IF 0 > x THEN 0 ELSE x - 0 + 1) = k
      BY <1>4
    <3>3. Cardinality(0..x) = IF 0 > x THEN 0 ELSE x - 0 + 1
      <4> HIDE DEF x
      <4> QED
        BY <3>1, FS_Interval, Zenon
    <3>4. k \in Nat /\ x = k - 1
      BY <1>4
    <3> HIDE DEF x
    <3>5. Cardinality(0..x) = k
      BY <3>3, <3>4
    <3>2. Cardinality(0..(k - 1)) = k
      BY <3>5 DEF x
    <3> QED
      BY <2>1, <3>2
  <2>3. (0..(k - 1)) \union {k} = 0..((k + 1) - 1)
    BY <1>4
  <2>4. Pushed(c) = [j \in (0..(k - 1)) \union {k} |->
                       IF j \in 0..(k - 1) THEN buf[j] ELSE c]
    BY <2>1, <2>2, Zenon DEF Pushed
  <2>5. \A j \in 0..((k + 1) - 1) :
          (IF j \in 0..(k - 1) THEN buf[j] ELSE c) = Whole[j + 1]
    <3> SUFFICES ASSUME NEW j \in 0..((k + 1) - 1)
                 PROVE  (IF j \in 0..(k - 1) THEN buf[j] ELSE c) = Whole[j + 1]
      OBVIOUS
    <3>1. CASE j \in 0..(k - 1)
      BY <1>4, <3>1 DEF Sofar
    <3>2. CASE j \notin 0..(k - 1)
      <4>1. j = k
        BY <1>4, <3>2
      <4> QED
        BY <1>8, <3>2, <4>1
    <3> QED
      BY <3>1, <3>2
  <2> QED
    BY <2>3, <2>4, <2>5, Zenon DEF Sofar
<1>13. k + 1 \in Nat /\ k + 1 <= Off(m)
  BY <1>0, <1>4
<1> QED
  BY <1>9, <1>10, <1>11, <1>12, <1>13 DEF t

-----------------------------------------------------------------------------
(* How a text is decoded (rt_unescape).                                    *)

\* Between two units, or behind a backslash that ended the text.
Decoded ==
  \E n \in 0..Count : \E k :
    Held(n, k) /\ (i = Off(n) \/ (n = Count /\ i = Length + 1))

\* Codes are told by their first digit.
LEMMA CodeIs ==
  ASSUME task \in Strings \union Members, NEW n \in 1..Count,
         NEW code \in {"hi", "lo", "bm"}
  PROVE  IsCode(Unit(n), code) <=> Coded(n) /\ Unit(n)[3] = code
<1> DEFINE u == Unit(n)
<1>1. u \in Seq(Bytes)
  BY UnitPlaces
<1>2. ASSUME IsCode(u, code) PROVE Coded(n) /\ u[3] = code
  <2>1. u = <<"backslash", "u", code, ".", ".", ".">>
    BY <1>2 DEF IsCode
  <2>2. Len(u) = 6 /\ u[1] = "backslash" /\ u[2] = "u" /\ u[3] = code
        /\ u[4] = "." /\ u[5] = "." /\ u[6] = "."
    BY <2>1
  <2>3. \A j \in 4..6 : j = 4 \/ j = 5 \/ j = 6
    OBVIOUS
  <2> QED
    BY <2>2, <2>3 DEF Coded, Size
<1>3. ASSUME Coded(n), u[3] = code PROVE IsCode(u, code)
  <2>1. /\ Len(u) = 6 /\ u[1] = "backslash" /\ u[2] = "u" /\ u[3] = code
        /\ u[4] = "." /\ u[5] = "." /\ u[6] = "."
    BY <1>3 DEF Coded, Size
  <2> HIDE DEF u
  <2>2. u = <<u[1], u[2], u[3], u[4], u[5], u[6]>>
    BY <1>1, <2>1
  <2> QED
    BY <2>1, <2>2 DEF IsCode
<1> QED
  BY <1>2, <1>3

\* What is read next, while there is something left.
LEMMA UnitAt ==
  ASSUME task \in Strings \union Members, start = Body, len = Length,
         NEW n \in 0..Count, i < len,
         i = Off(n) \/ (n = Count /\ i = Length + 1)
  PROVE  /\ i = Off(n) /\ n + 1 \in 1..Count /\ i \in Nat /\ start \in Nat
         /\ len \in Nat /\ Size(n + 1) \in Nat \ {0}
         /\ Off(n + 1) = i + Size(n + 1) /\ Off(n + 1) <= len
         /\ \A j \in 1..Size(n + 1) : Byte(start + (i + j - 1)) = Unit(n + 1)[j]
<1>1. /\ Count \in Nat /\ Length \in Nat /\ Off(Count) = Length
      /\ Off(n) \in Nat
  BY UnitPlaces
<1>2. i = Off(n) /\ n # Count /\ i \in Nat
  BY <1>1
<1>3. n + 1 \in 1..Count /\ (n + 1) - 1 = n /\ n + 1 \in 0..Count
      /\ Count \in 0..Count /\ n + 1 <= Count
  BY <1>1, <1>2
<1>4. Size(n + 1) \in Nat \ {0} /\ Off(n + 1) = Off(n) + Size(n + 1)
      /\ Off(n + 1) \in Nat
  BY <1>3, UnitPlaces
<1>5. Off(n + 1) + (Count - (n + 1)) <= Off(Count)
  BY <1>3, UnitOrder
<1>6. Off(n + 1) <= len
  BY <1>1, <1>3, <1>4, <1>5
<1>7. Fronted(Input) /\ Body \in Nat
  BY TextEnd
<1>8. ASSUME NEW j \in 1..Size(n + 1)
      PROVE  Byte(start + (i + j - 1)) = Unit(n + 1)[j]
  <2>1. Byte(Body + Off((n + 1) - 1) + j - 1) = Unit(n + 1)[j]
    BY <1>3, <1>7, UnitRead
  <2>2. Body + Off((n + 1) - 1) + j - 1 = start + (i + j - 1)
    BY <1>1, <1>2, <1>3, <1>4, <1>7
  <2> QED
    BY <2>1, <2>2
<1> QED
  BY <1>1, <1>2, <1>3, <1>4, <1>6, <1>7, <1>8

\* How far a push brings the decoding.
LEMMA Pushes ==
  ASSUME task \in Strings \union Members, task' = task,
         NEW n \in 0..Count, NEW k, Held(n, k), NEW m \in 0..Count, Off(n) < Off(m),
         NEW c \in Chars, Meant(n + 1) = <<c>> \o Meant(m + 1),
         buf' = Pushed(c), i' = Off(m)
  PROVE  Decoded'
<1>1. /\ k + 1 \in Nat /\ k + 1 <= Off(m)
      /\ Pushed(c) = Sofar(k + 1)
      /\ Stands(Whole, k + 1, Meant(m + 1))
      /\ (k + 1) + Len(Meant(m + 1)) = Len(Whole)
  BY PushHolds
<1>2. Off(m)' = Off(m) /\ Sofar(k + 1)' = Sofar(k + 1) /\ Whole' = Whole
      /\ Meant(m + 1)' = Meant(m + 1) /\ Count' = Count
  BY DEF Off, Sofar, Whole, Meant, Count
<1>3. Held(m, k + 1)'
  BY <1>1, <1>2 DEF Held
<1> QED
  BY <1>2, <1>3 DEF Decoded

\* A byte that stands for itself.
LEMMA PushesByte ==
  ASSUME task \in Strings \union Members, start = Body, len = Length,
         Decoded, PushByte
  PROVE  Decoded'
<1>1. PICK n \in 0..Count : \E k :
        Held(n, k) /\ (i = Off(n) \/ (n = Count /\ i = Length + 1))
  BY DEF Decoded
<1>2. PICK k : Held(n, k) /\ (i = Off(n) \/ (n = Count /\ i = Length + 1))
  BY <1>1
<1>3. /\ i < len /\ Byte(start + i) # "backslash" /\ task' = task
      /\ buf' = Pushed(Byte(start + i)) /\ i' = i + 1
  BY DEF PushByte
<1>4. /\ i = Off(n) /\ n + 1 \in 1..Count /\ i \in Nat /\ start \in Nat
      /\ Size(n + 1) \in Nat \ {0}
      /\ Off(n + 1) = i + Size(n + 1) /\ Off(n + 1) <= len
      /\ \A j \in 1..Size(n + 1) : Byte(start + (i + j - 1)) = Unit(n + 1)[j]
  BY <1>2, <1>3, UnitAt
<1> DEFINE u == Unit(n + 1)
           c == u[1]
<1>5. Byte(start + i) = c /\ u \in Seq(Bytes)
  <2>1. 1 \in 1..Size(n + 1) /\ i + 1 - 1 = i
    BY <1>4
  <2>2. Byte(start + i) = c
    BY <1>4, <2>1
  <2> QED
    BY <1>4, <2>2, UnitPlaces
<1>6. IsPlain(u)
  BY <1>3, <1>4, <1>5, UnitKinds DEF Letter, Coded, Dangling
<1>7. Size(n + 1) = 1
  BY <1>6 DEF IsPlain, Size
<1>8. ~Pair(n + 1)
  <2>1. IsCode(u, "hi") => Coded(n + 1)
    BY <1>4, CodeIs
  <2> QED
    BY <1>7, <2>1 DEF Pair, Coded
<1>9. Meant(n + 1) = <<c>> \o Meant((n + 1) + 1)
  BY <1>4, <1>6, <1>8, MeantIs, MeaningOf
<1>10. c \in Chars
  <2>1. 1 \in 1..Len(u)
    BY <1>4 DEF Size
  <2>2. c \in Bytes
    BY <1>5, <2>1, ElementOfSeq
  <2> QED
    BY <2>2, Zenon DEF Chars
<1>11. n + 1 \in 0..Count /\ Off(n) < Off(n + 1) /\ i' = Off(n + 1)
  BY <1>3, <1>4, <1>7
<1> HIDE DEF c
<1> QED
  BY <1>2, <1>3, <1>5, <1>9, <1>10, <1>11, Pushes

\* An escape of one letter, or a backslash that is cut off.
LEMMA PushesEscape ==
  ASSUME task \in Strings \union Members, start = Body, len = Length,
         Decoded, PushEscape
  PROVE  Decoded'
<1>1. PICK n \in 0..Count : \E k :
        Held(n, k) /\ (i = Off(n) \/ (n = Count /\ i = Length + 1))
  BY DEF Decoded
<1>2. PICK k : Held(n, k) /\ (i = Off(n) \/ (n = Count /\ i = Length + 1))
  BY <1>1
<1>3. /\ i < len /\ Byte(start + i) = "backslash" /\ task' = task
      /\ i + 1 < len => Byte(start + i + 1) # "u"
      /\ buf' = IF i + 1 < len THEN Pushed(Named[Byte(start + i + 1)]) ELSE buf
      /\ i' = i + 2
  BY DEF PushEscape
<1>4. /\ i = Off(n) /\ n + 1 \in 1..Count /\ i \in Nat /\ start \in Nat
      /\ len \in Nat /\ Size(n + 1) \in Nat \ {0}
      /\ Off(n + 1) = i + Size(n + 1) /\ Off(n + 1) <= len
      /\ \A j \in 1..Size(n + 1) : Byte(start + (i + j - 1)) = Unit(n + 1)[j]
  BY <1>2, <1>3, UnitAt
<1> DEFINE u == Unit(n + 1)
<1>5. u[1] = "backslash"
  <2>1. 1 \in 1..Size(n + 1) /\ i + 1 - 1 = i
    BY <1>4
  <2> QED
    BY <1>3, <1>4, <2>1
<1>6. Size(n + 1) > 1 => Byte(start + i + 1) = u[2] /\ i + 1 < len
  <2>1. Size(n + 1) > 1 => 2 \in 1..Size(n + 1)
    BY <1>4
  <2>2. start + i + 1 = start + (i + 2 - 1)
    BY <1>4
  <2>3. Size(n + 1) > 1 => i + 1 < len
    BY <1>4
  <2> QED
    BY <1>4, <2>1, <2>2, <2>3
<1>7. Letter(n + 1) \/ Dangling(n + 1)
  <2>1. ~IsPlain(u)
    BY <1>5 DEF IsPlain
  <2>2. ~Coded(n + 1)
    BY <1>3, <1>6 DEF Coded
  <2> QED
    BY <1>4, <2>1, <2>2, UnitKinds
<1>8. ~Pair(n + 1)
  <2>1. IsCode(u, "hi") => Coded(n + 1)
    BY <1>4, CodeIs
  <2>2. ~Coded(n + 1)
    BY <1>7 DEF Letter, Dangling, Coded
  <2> QED
    BY <2>1, <2>2 DEF Pair
<1>9. CASE Letter(n + 1)
  <2> DEFINE c == Named[u[2]]
  <2>1. Size(n + 1) = 2 /\ u[2] \in DOMAIN Named
    BY <1>9 DEF Letter
  <2>2. c \in Chars
    <3>1. c \in {"quote", "backslash", "LF"}
      BY <2>1 DEF Named
    <3> QED
      BY <3>1, Zenon DEF Chars
  <2>3. Meant(n + 1) = <<c>> \o Meant((n + 1) + 1)
    BY <1>4, <1>8, <1>9, MeantIs, MeaningOf
  <2>4. n + 1 \in 0..Count /\ Off(n) < Off(n + 1) /\ i' = Off(n + 1)
    BY <1>3, <1>4, <2>1
  <2>5. buf' = Pushed(c)
    BY <1>3, <1>6, <2>1
  <2> HIDE DEF c
  <2> QED
    BY <1>2, <1>3, <2>2, <2>3, <2>4, <2>5, Pushes
<1>10. CASE Dangling(n + 1)
  <2>1. Size(n + 1) = 1 /\ n + 1 = Count
    BY <1>10 DEF Dangling
  <2>2. Off(Count) = Length /\ Length \in Nat /\ Count \in Nat
    BY UnitPlaces
  <2>3. i + 1 = Length /\ ~(i + 1 < len)
    BY <1>4, <2>1, <2>2
  <2>4. buf' = buf /\ i' = Length + 1
    BY <1>3, <1>4, <2>3
  <2>5. Meant(n + 1) = Meant(Count + 1)
    <3>1. Meant(Count + 1) = <<>>
      BY MeantIs
    <3>2. Meant(n + 1) = <<>> \o Meant((n + 1) + 1)
      BY <1>4, <1>8, <1>10, MeantIs, MeaningOf
    <3>3. Meant(n + 1) = <<>> \o <<>>
      BY <2>1, <3>1, <3>2
    <3> QED
      BY <3>1, <3>3
  <2>6. Held(Count, k)
    <3>1. k \in Nat /\ k <= Off(n)
      BY <1>2 DEF Held
    <3>2. k <= Off(Count)
      BY <1>4, <2>1, <3>1
    <3> QED
      BY <1>2, <2>5, <3>1, <3>2 DEF Held
  <2>7. Count' = Count /\ Length' = Length /\ Count \in 0..Count
    BY <1>3, <2>2 DEF Count, Length, Text
  <2>8. Held(Count, k)'
    <3>1. Off(Count)' = Off(Count) /\ Sofar(k)' = Sofar(k) /\ Whole' = Whole
          /\ Meant(Count + 1)' = Meant(Count + 1)
      BY <1>3, <2>7 DEF Off, Sofar, Whole, Meant, Count
    <3> QED
      BY <2>4, <2>6, <3>1 DEF Held
  <2> QED
    BY <2>4, <2>7, <2>8 DEF Decoded
<1> QED
  BY <1>7, <1>9, <1>10

\* A code, or two that are a pair.
LEMMA PushesCode ==
  ASSUME task \in Strings \union Members, start = Body, len = Length,
         Decoded, PushCode
  PROVE  Decoded'
<1>1. PICK n \in 0..Count : \E k :
        Held(n, k) /\ (i = Off(n) \/ (n = Count /\ i = Length + 1))
  BY DEF Decoded
<1>2. PICK k : Held(n, k) /\ (i = Off(n) \/ (n = Count /\ i = Length + 1))
  BY <1>1
<1> DEFINE d == i + 5
           code == Byte(start + i + 2)
           paired == /\ code = "hi"
                     /\ d + 6 < len
                     /\ Byte(start + d + 1) = "backslash"
                     /\ Byte(start + d + 2) = "u"
                     /\ Byte(start + d + 3) = "lo"
           ch == CASE paired -> "pair"
                   [] ~paired /\ code \in {"hi", "lo"} -> "FFFD"
                   [] OTHER -> "bmp"
<1>3. /\ i + 1 < len /\ task' = task
      /\ Byte(start + i) = "backslash" /\ Byte(start + i + 1) = "u"
      /\ buf' = Pushed(ch)
      /\ i' = IF paired THEN d + 7 ELSE d + 1
  BY DEF PushCode
<1>4. /\ Count \in Nat /\ Length \in Nat /\ Off(Count) = Length
      /\ Off(n) \in Nat
  BY UnitPlaces
<1>5. i < len
  BY <1>2, <1>3, <1>4
<1>6. /\ i = Off(n) /\ n + 1 \in 1..Count /\ i \in Nat /\ start \in Nat
      /\ len \in Nat /\ Size(n + 1) \in Nat \ {0}
      /\ Off(n + 1) = i + Size(n + 1) /\ Off(n + 1) <= len
      /\ \A j \in 1..Size(n + 1) : Byte(start + (i + j - 1)) = Unit(n + 1)[j]
  BY <1>2, <1>5, UnitAt
<1> DEFINE u == Unit(n + 1)
<1>7. u[1] = "backslash"
  <2>1. 1 \in 1..Size(n + 1) /\ i + 1 - 1 = i
    BY <1>6
  <2> QED
    BY <1>3, <1>6, <2>1
<1>8. Coded(n + 1)
  <2>1. ~IsPlain(u)
    BY <1>7 DEF IsPlain
  <2>2. ~Dangling(n + 1)
    <3> SUFFICES ASSUME Dangling(n + 1) PROVE FALSE
      OBVIOUS
    <3>1. Size(n + 1) = 1 /\ n + 1 = Count
      BY DEF Dangling
    <3>2. Length = i + 1
      BY <1>4, <1>6, <3>1
    <3> QED
      BY <1>3, <3>2, <1>6
  <2>3. ~Letter(n + 1)
    <3> SUFFICES ASSUME Letter(n + 1) PROVE FALSE
      OBVIOUS
    <3>1. Size(n + 1) = 2 /\ u[2] \in DOMAIN Named
      BY DEF Letter
    <3>2. 2 \in 1..Size(n + 1) /\ start + i + 1 = start + (i + 2 - 1)
      BY <1>6, <3>1
    <3>3. u[2] = "u"
      BY <1>3, <1>6, <3>2
    <3> QED
      BY <3>1, <3>3 DEF Named
  <2> QED
    BY <1>6, <2>1, <2>2, <2>3, UnitKinds
<1>9. Size(n + 1) = 6 /\ u[3] \in {"hi", "lo", "bm"} /\ code = u[3]
      /\ Off(n + 1) = i + 6
  <2>1. Size(n + 1) = 6 /\ u[3] \in {"hi", "lo", "bm"}
    BY <1>8 DEF Coded
  <2>2. 3 \in 1..Size(n + 1) /\ start + i + 2 = start + (i + 3 - 1)
    BY <1>6, <2>1
  <2> QED
    BY <1>6, <2>1, <2>2
<1>10. Pair(n + 1) <=> /\ n + 1 < Count /\ u[3] = "hi"
                       /\ Coded(n + 2) /\ Unit(n + 2)[3] = "lo"
  <2>1. IsCode(u, "hi") <=> u[3] = "hi"
    BY <1>6, <1>8, CodeIs
  <2>2. n + 1 < Count =>
          (IsCode(Unit(n + 2), "lo") <=> Coded(n + 2) /\ Unit(n + 2)[3] = "lo")
    <3>1. n + 1 < Count => n + 2 \in 1..Count
      BY <1>4
    <3> QED
      BY <3>1, CodeIs
  <2>3. (n + 1) + 1 = n + 2
    BY <1>4
  <2> QED
    BY <2>1, <2>2, <2>3 DEF Pair
<1>11. ASSUME n + 1 < Count
       PROVE  /\ n + 2 \in 1..Count /\ Size(n + 2) \in Nat \ {0}
              /\ Off(n + 2) = i + 6 + Size(n + 2) /\ Off(n + 2) <= len
              /\ \A j \in 1..Size(n + 2) :
                   Byte(start + (i + 6 + j - 1)) = Unit(n + 2)[j]
  <2>1. /\ n + 2 \in 1..Count /\ (n + 2) - 1 = n + 1 /\ n + 2 \in 0..Count
        /\ n + 2 <= Count /\ Count \in 0..Count
    BY <1>4, <1>11
  <2>2. Size(n + 2) \in Nat \ {0} /\ Off(n + 2) = Off(n + 1) + Size(n + 2)
        /\ Off(n + 2) \in Nat
    BY <2>1, UnitPlaces
  <2>3. Off(n + 2) + (Count - (n + 2)) <= Off(Count)
    BY <2>1, UnitOrder
  <2>4. Off(n + 2) <= len
    BY <1>4, <2>1, <2>2, <2>3
  <2>5. Fronted(Input) /\ Body \in Nat
    BY TextEnd
  <2>6. ASSUME NEW j \in 1..Size(n + 2)
        PROVE  Byte(start + (i + 6 + j - 1)) = Unit(n + 2)[j]
    <3>1. Byte(Body + Off((n + 2) - 1) + j - 1) = Unit(n + 2)[j]
      BY <2>1, <2>5, UnitRead
    <3>2. Body + Off((n + 2) - 1) + j - 1 = start + (i + 6 + j - 1)
      BY <1>6, <1>9, <2>1, <2>2, <2>5
    <3> QED
      BY <3>1, <3>2
  <2> QED
    BY <1>6, <1>9, <2>1, <2>2, <2>4, <2>6
<1>12. paired <=> Pair(n + 1)
  <2>1. ASSUME Pair(n + 1) PROVE paired
    <3>1. /\ n + 1 < Count /\ u[3] = "hi" /\ Coded(n + 2)
          /\ Unit(n + 2)[3] = "lo"
      BY <1>10, <2>1
    <3>2. Size(n + 2) = 6 /\ Unit(n + 2)[1] = "backslash"
          /\ Unit(n + 2)[2] = "u"
      BY <3>1 DEF Coded
    <3>3. d + 6 < len
      BY <1>6, <1>11, <3>1, <3>2
    <3>4. /\ start + d + 1 = start + (i + 6 + 1 - 1)
          /\ start + d + 2 = start + (i + 6 + 2 - 1)
          /\ start + d + 3 = start + (i + 6 + 3 - 1)
          /\ 1 \in 1..Size(n + 2) /\ 2 \in 1..Size(n + 2) /\ 3 \in 1..Size(n + 2)
      BY <1>6, <3>2
    <3>5. /\ Byte(start + (i + 6 + 1 - 1)) = "backslash"
          /\ Byte(start + (i + 6 + 2 - 1)) = "u"
          /\ Byte(start + (i + 6 + 3 - 1)) = "lo"
      BY <1>11, <3>1, <3>2, <3>4
    <3>6. code = "hi"
      BY <1>9, <3>1
    <3> HIDE DEF code
    <3> QED
      BY <3>3, <3>4, <3>5, <3>6
  <2>2. ASSUME paired PROVE Pair(n + 1)
    <3>1. /\ code = "hi" /\ d + 6 < len
          /\ Byte(start + d + 1) = "backslash"
          /\ Byte(start + d + 2) = "u"
          /\ Byte(start + d + 3) = "lo"
      BY <2>2
    <3>2. n + 1 < Count
      <4> SUFFICES ASSUME ~(n + 1 < Count) PROVE FALSE
        OBVIOUS
      <4>1. n + 1 = Count
        BY <1>4, <1>6
      <4>2. Length = i + 6
        BY <1>4, <1>9, <4>1
      <4> QED
        BY <1>6, <3>1, <4>2
    <3>3. /\ start + d + 1 = start + (i + 6 + 1 - 1)
          /\ start + d + 2 = start + (i + 6 + 2 - 1)
          /\ start + d + 3 = start + (i + 6 + 3 - 1)
      BY <1>6
    <3>4. 1 \in 1..Size(n + 2)
      BY <1>11, <3>2
    <3>5. Unit(n + 2)[1] = "backslash"
      BY <1>11, <3>1, <3>2, <3>3, <3>4
    <3>6. ~IsPlain(Unit(n + 2))
      BY <3>5 DEF IsPlain
    <3>7. ~Dangling(n + 2)
      <4> SUFFICES ASSUME Dangling(n + 2) PROVE FALSE
        OBVIOUS
      <4>1. Size(n + 2) = 1 /\ n + 2 = Count
        BY DEF Dangling
      <4>2. Length = i + 6 + 1
        BY <1>4, <1>11, <3>2, <4>1
      <4> QED
        BY <1>6, <3>1, <4>2
    <3>8. Size(n + 2) > 1 => Unit(n + 2)[2] = "u"
      <4>1. Size(n + 2) > 1 => 2 \in 1..Size(n + 2)
        BY <1>11, <3>2
      <4> QED
        BY <1>11, <3>1, <3>2, <3>3, <4>1
    <3>9. ~Letter(n + 2)
      BY <3>8 DEF Letter, Named
    <3>10. Coded(n + 2)
      BY <1>11, <3>2, <3>6, <3>7, <3>9, UnitKinds
    <3>11. 3 \in 1..Size(n + 2)
      BY <3>10 DEF Coded
    <3>12. Unit(n + 2)[3] = "lo"
      BY <1>11, <3>1, <3>2, <3>3, <3>11
    <3> QED
      BY <1>9, <1>10, <3>1, <3>2, <3>10, <3>12
  <2> HIDE DEF paired
  <2> QED
    BY <2>1, <2>2
<1>13. ch \in Chars
  <2>1. ch \in {"pair", "FFFD", "bmp"}
    <3> HIDE DEF paired, code
    <3> QED
      OBVIOUS
  <2> HIDE DEF ch
  <2> QED
    BY <2>1, Zenon DEF Chars
<1>14. CASE Pair(n + 1)
  <2>1. paired
    BY <1>12, <1>14
  <2>2. ch = "pair" /\ i' = d + 7
    <3> HIDE DEF paired, code, d
    <3> QED
      BY <1>3, <2>1
  <2>3. n + 1 < Count /\ Coded(n + 2)
    BY <1>10, <1>14
  <2>4. Size(n + 2) = 6
    BY <2>3 DEF Coded
  <2>5. n + 2 \in 0..Count /\ Off(n) < Off(n + 2) /\ i' = Off(n + 2)
    BY <1>4, <1>6, <1>11, <2>2, <2>3, <2>4
  <2>6. Meant(n + 1) = <<ch>> \o Meant((n + 2) + 1)
    <3>1. Meant(n + 1) = <<"pair">> \o Meant((n + 1) + 2)
      BY <1>6, <1>14, MeantIs
    <3>2. (n + 1) + 2 = (n + 2) + 1
      BY <1>4
    <3> HIDE DEF ch
    <3> QED
      BY <2>2, <3>1, <3>2
  <2> HIDE DEF ch
  <2> QED
    BY <1>2, <1>3, <1>13, <2>5, <2>6, Pushes
<1>15. CASE ~Pair(n + 1)
  <2>1. ~paired
    BY <1>12, <1>15
  <2>2. ch = (IF u[3] = "bm" THEN "bmp" ELSE "FFFD") /\ i' = d + 1
    <3> HIDE DEF paired, code, d, u
    <3>1. u[3] = "hi" \/ u[3] = "lo" \/ u[3] = "bm"
      BY <1>9
    <3> QED
      BY <1>3, <1>9, <2>1, <3>1
  <2>3. n + 1 \in 0..Count /\ Off(n) < Off(n + 1) /\ i' = Off(n + 1)
    BY <1>4, <1>6, <1>9, <2>2
  <2>4. Meant(n + 1) = <<ch>> \o Meant((n + 1) + 1)
    <3>1. Meant(n + 1) = Meaning(u) \o Meant((n + 1) + 1)
      BY <1>6, <1>15, MeantIs
    <3>2. Meaning(u) = <<IF u[3] = "bm" THEN "bmp" ELSE "FFFD">>
      BY <1>6, <1>8, MeaningOf
    <3> HIDE DEF ch
    <3> QED
      BY <2>2, <3>1, <3>2
  <2> HIDE DEF ch
  <2> QED
    BY <1>2, <1>3, <1>13, <2>3, <2>4, Pushes
<1> QED
  BY <1>14, <1>15

\* When nothing is left, all that is meant is in the buffer.
LEMMA DecodedAll ==
  ASSUME task \in Strings \union Members, len = Length, Decoded, EndUnescape
  PROVE  /\ task' = task /\ buf' = buf /\ buf = Sofar(Len(Whole))
         /\ len' = Len(Whole) /\ Len(Whole) \in Nat /\ Len(Whole) <= Length
<1>1. PICK n \in 0..Count : \E k :
        Held(n, k) /\ (i = Off(n) \/ (n = Count /\ i = Length + 1))
  BY DEF Decoded
<1>2. PICK k : Held(n, k) /\ (i = Off(n) \/ (n = Count /\ i = Length + 1))
  BY <1>1
<1>3. /\ Count \in Nat /\ Length \in Nat /\ Off(Count) = Length
      /\ Off(n) \in Nat
  BY UnitPlaces
<1>4. i >= len /\ len' = Cardinality(DOMAIN buf) /\ task' = task /\ buf' = buf
  BY DEF EndUnescape
<1>5. n = Count
  <2> SUFFICES ASSUME n # Count PROVE FALSE
    OBVIOUS
  <2>1. n \in 0..Count /\ Count \in 0..Count /\ n <= Count
    BY <1>3
  <2>2. Off(n) + (Count - n) <= Off(Count)
    BY <2>1, UnitOrder
  <2> QED
    BY <1>2, <1>3, <1>4, <2>1, <2>2
<1>6. Meant(Count + 1) = <<>> /\ Len(<<>>) = 0
  BY MeantIs
<1>7. k \in Nat /\ k <= Length /\ buf = Sofar(k) /\ k + 0 = Len(Whole)
  BY <1>2, <1>3, <1>5, <1>6 DEF Held
<1>8. k = Len(Whole)
  BY <1>7
<1>9. Cardinality(DOMAIN buf) = k
  <2> DEFINE x == k - 1
  <2>1. DOMAIN buf = 0..x
    BY <1>7 DEF Sofar
  <2>2. x \in Int /\ 0 \in Int /\ k \in Nat /\ x = k - 1
    BY <1>7
  <2> HIDE DEF x
  <2>3. Cardinality(0..x) = IF 0 > x THEN 0 ELSE x - 0 + 1
    BY <2>2, FS_Interval, Zenon
  <2>4. Cardinality(0..x) = k
    BY <2>2, <2>3
  <2> QED
    BY <2>1, <2>4
<1> QED
  BY <1>4, <1>7, <1>8, <1>9

-----------------------------------------------------------------------------
(* Strings: copies (emit_copy), and the way from block to block.           *)

\* A buffer with the first n bytes of the body.
Filled(n) == [j \in 0..(n - 1) |-> Byte(start + j)]

\* A copy that begins in what is filled, or right behind it, and ends there or
\* farther, fills what is behind (cp).
LEMMA CopyFills ==
  ASSUME NEW n \in Nat, NEW at \in Nat, NEW m \in Nat, at <= n, n <= at + m
  PROVE  Copied(Filled(n), at, m) = Filled(at + m)
<1>1. (0..(n - 1)) \union (at..(at + m - 1)) = 0..(at + m - 1)
  OBVIOUS
<1>2. DOMAIN Filled(n) = 0..(n - 1)
      /\ \A j \in 0..(n - 1) : Filled(n)[j] = Byte(start + j)
  BY DEF Filled
<1>3. Copied(Filled(n), at, m) =
        [j \in 0..(at + m - 1) |->
           IF j \in at..(at + m - 1) THEN Byte(start + j) ELSE Filled(n)[j]]
  BY <1>1, <1>2, Zenon DEF Copied
<1>4. \A j \in 0..(at + m - 1) :
        (IF j \in at..(at + m - 1) THEN Byte(start + j) ELSE Filled(n)[j])
          = Byte(start + j)
  BY <1>2
<1>5. Filled(at + m) = [j \in 0..(at + m - 1) |-> Byte(start + j)]
  BY DEF Filled
<1> QED
  BY <1>3, <1>4, <1>5

\* What fewer than eight bytes are copied by.
LEMMA SmallFills ==
  ASSUME len \in Nat, len < 8
  PROVE  /\ len >= 4 => Copied(Copied(Filled(0), 0, 4), len - 4, 4) = Filled(len)
         /\ len \in {2, 3} =>
              Copied(Copied(Filled(0), 0, 2), len - 2, 2) = Filled(len)
         /\ len = 1 => Copied(Filled(0), 0, 1) = Filled(len)
<1>1. ASSUME len >= 4
      PROVE  Copied(Copied(Filled(0), 0, 4), len - 4, 4) = Filled(len)
  <2>1. Copied(Filled(0), 0, 4) = Filled(0 + 4)
    BY CopyFills
  <2>2. len - 4 \in Nat /\ len - 4 <= 0 + 4 /\ 0 + 4 <= (len - 4) + 4
        /\ (len - 4) + 4 = len /\ 0 + 4 \in Nat
    BY <1>1
  <2>3. Copied(Filled(0 + 4), len - 4, 4) = Filled((len - 4) + 4)
    BY <2>2, CopyFills
  <2> QED
    BY <2>1, <2>2, <2>3
<1>2. ASSUME len \in {2, 3}
      PROVE  Copied(Copied(Filled(0), 0, 2), len - 2, 2) = Filled(len)
  <2>1. Copied(Filled(0), 0, 2) = Filled(0 + 2)
    BY CopyFills
  <2>2. len - 2 \in Nat /\ len - 2 <= 0 + 2 /\ 0 + 2 <= (len - 2) + 2
        /\ (len - 2) + 2 = len /\ 0 + 2 \in Nat
    BY <1>2
  <2>3. Copied(Filled(0 + 2), len - 2, 2) = Filled((len - 2) + 2)
    BY <2>2, CopyFills
  <2> QED
    BY <2>1, <2>2, <2>3
<1>3. Copied(Filled(0), 0, 1) = Filled(1)
  <2>1. Copied(Filled(0), 0, 1) = Filled(0 + 1)
    BY CopyFills
  <2> QED
    BY <2>1
<1> QED
  BY <1>1, <1>2, <1>3

\* keyeq says whether a name is what the key has, whatever lies behind it.
LEMMA KeyEqExact ==
  ASSUME NEW name \in Seq(STRING), len \in Nat
  PROVE  KeyEq(name) <=> name = [j \in 1..len |-> Byte(start + j - 1)]
<1> DEFINE key == [j \in 1..len |-> Byte(start + j - 1)]
<1>1. Len(name) \in Nat /\ DOMAIN name = 1..Len(name)
      /\ name = [j \in 1..Len(name) |-> name[j]]
  BY LenProperties
<1>2. KeyEq(name) => name = key
  <2> SUFFICES ASSUME KeyEq(name)  PROVE name = key
    OBVIOUS
  <2>1. len = Len(name) /\ \A j \in 1..len : Byte(start + j - 1) = name[j]
    BY DEF KeyEq
  <2> QED
    BY <1>1, <2>1
<1>3. name = key => KeyEq(name)
  <2> SUFFICES ASSUME name = key  PROVE KeyEq(name)
    OBVIOUS
  <2>1. DOMAIN name = 1..len
    OBVIOUS
  <2>2. Len(name) = len
    BY <1>1, <2>1
  <2>3. \A j \in 1..Len(name) : Byte(start + j - 1) = name[j]
    BY <2>2
  <2> QED
    BY <2>2, <2>3 DEF KeyEq
<1> QED
  BY <1>2, <1>3

\* And so does the comparison of words, for names that fit in one.
LEMMA WordEqExact ==
  ASSUME NEW name \in Seq(STRING), len \in Nat, Len(name) <= 8
  PROVE  WordEq(name) <=> KeyEq(name)
<1> DEFINE Masked(bytes) == [j \in 1..8 |->
                               IF j <= Len(name) THEN bytes[j] ELSE "zero"]
           loaded == [j \in 1..8 |-> Byte(start + j - 1)]
<1>1. Len(name) \in Nat
  BY LenProperties
<1>2. Masked(loaded) = Masked(name)
        <=> \A j \in 1..8 : Masked(loaded)[j] = Masked(name)[j]
  OBVIOUS
<1>3. \A j \in 1..8 : /\ j <= Len(name) => /\ Masked(loaded)[j] = loaded[j]
                                           /\ Masked(name)[j] = name[j]
                      /\ ~(j <= Len(name)) =>
                           Masked(loaded)[j] = Masked(name)[j]
                      /\ loaded[j] = Byte(start + j - 1)
  OBVIOUS
<1>4. WordEq(name) <=> len = Len(name) /\ Masked(loaded) = Masked(name)
  BY DEF WordEq
<1> HIDE DEF Masked, loaded
<1>5. Masked(loaded) = Masked(name)
        <=> \A j \in 1..Len(name) : Byte(start + j - 1) = name[j]
  <2>1. ASSUME Masked(loaded) = Masked(name), NEW j \in 1..Len(name)
        PROVE  Byte(start + j - 1) = name[j]
    <3>1. j \in 1..8 /\ j <= Len(name)
      BY <1>1
    <3>2. Masked(loaded)[j] = Masked(name)[j]
      BY <1>2, <2>1, <3>1, Zenon
    <3> QED
      BY <1>3, <3>1, <3>2
  <2>2. ASSUME \A j \in 1..Len(name) : Byte(start + j - 1) = name[j]
        PROVE  Masked(loaded) = Masked(name)
    <3> SUFFICES ASSUME NEW j \in 1..8
                 PROVE  Masked(loaded)[j] = Masked(name)[j]
      BY <1>2, Zenon
    <3>1. j <= Len(name) => j \in 1..Len(name)
      BY <1>1
    <3> QED
      BY <1>3, <2>2, <3>1
  <2> QED
    BY <2>1, <2>2
<1> QED
  BY <1>4, <1>5 DEF KeyEq

\* Each of the three ways of comparing finds the fields of the key's name
\* (parse_struct).
LEMMA MatchesExact ==
  ASSUME task \in Members, len \in Nat
  PROVE  Matches = {f \in DOMAIN task.fields :
                      task.fields[f] = [j \in 1..len |-> Byte(start + j - 1)]}
<1> DEFINE names == task.fields
           key == [j \in 1..len |-> Byte(start + j - 1)]
           byWord == start + 8 <= End
           match(f) ==
             CASE Len(names) >= SwitchMin -> Len(names[f]) = len /\ KeyEq(names[f])
               [] Len(names) < SwitchMin /\ byWord /\ Len(names[f]) <= 8 ->
                    WordEq(names[f])
               [] OTHER -> KeyEq(names[f])
<1>1. task \in Members /\ len \in Nat
  OBVIOUS
<1>2. names \in Seq(Seq(STRING)) /\ SwitchMin \in Nat /\ Len(names) \in Nat
      /\ \A f \in DOMAIN names : names[f] \in Seq(STRING)
  BY <1>1, TaskAssumption, LenProperties, ElementOfSeq
<1> HIDE DEF names, key, byWord
<1>3. ASSUME NEW f \in DOMAIN names
      PROVE  match(f) <=> names[f] = key
  <2>1. KeyEq(names[f]) <=> names[f] = key
    BY <1>1, <1>2, KeyEqExact DEF key
  <2>2. KeyEq(names[f]) => Len(names[f]) = len
    BY DEF KeyEq
  <2>3. Len(names[f]) <= 8 => (WordEq(names[f]) <=> KeyEq(names[f]))
    BY <1>1, <1>2, WordEqExact
  <2> QED
    BY <1>2, <2>1, <2>2, <2>3
<1>4. Matches = {f \in DOMAIN names : match(f)}
  BY DEF Matches, names, byWord
<1> HIDE DEF match
<1> QED
  BY <1>3, <1>4 DEF names, key
\* Reading a string: its body is found; without escapes, it is copied as far
\* as the copy has come, and else decoded as far as that has; in the end the
\* buffer has all of it.
StringRead ==
  /\ pc \in {"begin", "strscan", "build", "words", "small", "unescape", "done"}
  /\ esc \in BOOLEAN /\ val = 0
  /\ Searching
  /\ pc \in {"begin", "strscan", "build", "small"} => i = 0 /\ buf = Filled(0)
  /\ pc \in {"build", "words", "small", "unescape"} => Found
  /\ pc \in {"words", "small"} => ~esc
  /\ pc = "small" => len < 8
  /\ pc = "words" => 8 <= len /\ i \in Nat /\ i <= len /\ buf = Filled(i)
  /\ pc = "unescape" => esc /\ Decoded
  /\ pc = "done" =>
       /\ i \in Nat /\ start = Body /\ cur = After
       /\ \/ ~esc /\ len = Length /\ AllPlain /\ buf = Filled(len)
          \/ /\ esc /\ len = Len(Whole) /\ len \in Nat /\ len <= Length
             /\ buf = Sofar(len)

\* What of a task does not change with a step.
LEMMA TaskStays ==
  ASSUME task' = task
  PROVE  /\ Input' = Input /\ End' = End /\ Body' = Body /\ Length' = Length
         /\ Count' = Count /\ After' = After /\ Whole' = Whole
         /\ AllPlain' = AllPlain
         /\ \A n : Sofar(n)' = Sofar(n)
         /\ \A n : Off(n)' = Off(n)
         /\ start' = start => \A n : Filled(n)' = Filled(n)
BY DEF Input, End, Body, Length, Text, Count, After, Shut, Whole, AllPlain,
   Unit, Sofar, Off, Filled, Byte

\* How decoding begins.
LEMMA DecodesFrom ==
  ASSUME task \in Strings \union Members, i = 0, buf = Filled(0)
  PROVE  Decoded
<1>1. Count \in Nat /\ Off(0) = 0
  BY UnitPlaces
<1>2. 1 \in 1..(Count + 1) /\ 0 + 1 = 1
  BY <1>1
<1>3. Whole = Meant(1) /\ Whole \in Seq(Chars)
  BY <1>2, MeantIs
<1>4. Len(Whole) \in Nat
  BY <1>3, LenProperties
<1>5. Stands(Whole, 0, Meant(0 + 1)) /\ 0 + Len(Meant(0 + 1)) = Len(Whole)
  <2>1. \A j \in 1..Len(Whole) : 0 + j = j
    OBVIOUS
  <2> QED
    BY <1>3, <1>4, <2>1 DEF Stands
<1>6. Filled(0) = Sofar(0)
  BY DEF Filled, Sofar
<1>7. Held(0, 0)
  BY <1>1, <1>5, <1>6 DEF Held
<1> QED
  BY <1>1, <1>7 DEF Decoded

\* Strings are read so.
LEMMA StringReads ==
  ASSUME task \in Strings, StringRead, [Next]_vars
  PROVE  task' = task /\ StringRead'
<1>0. task.op = "string" /\ task \in Strings \union Members
  BY TaskAssumption
<1>1. Length \in Nat /\ Body \in Nat
  BY <1>0, TextParts DEF Length
<1>2. ASSUME task' = task
      PROVE  Found' <=> start' = Body /\ len' = Length /\ cur' = After
                        /\ (~esc' => AllPlain)
  BY <1>2, TaskStays DEF Found
<1>3. CASE UNCHANGED vars
  <2>1. task' = task /\ Searching' = Searching /\ Found' = Found
        /\ Decoded' = Decoded /\ StringRead' = StringRead
    BY <1>3 DEF vars, StringRead, Searching, Found, Decoded, Held, Sofar, Whole,
       Meant, Off, Count, Length, Text, Body, After, Shut, AllPlain, Unit, Filled,
       Byte, Input, End, Safe, Size
  <2> QED
    BY <2>1
<1>4. CASE OpenQuote
  <2>1. task' = task /\ Searching' /\ pc' = "strscan" /\ pc = "begin"
        /\ esc' = esc /\ val' = val /\ i' = i /\ buf' = buf
    BY <1>0, <1>4, SearchOpens DEF OpenQuote, StringRead
  <2>2. buf' = Filled(0)' /\ i' = 0
    BY <2>1 DEF StringRead, Filled
  <2> QED
    BY <2>1, <2>2 DEF StringRead
<1>5. CASE SkipEscape
  <2>1. task' = task /\ Searching' /\ pc' = "strscan" /\ pc = "strscan"
        /\ esc' = TRUE /\ val' = val /\ i' = i /\ buf' = buf
    BY <1>0, <1>5, SearchGoesOn DEF SkipEscape, StringRead
  <2>2. buf' = Filled(0)' /\ i' = 0
    BY <2>1 DEF StringRead, Filled
  <2> QED
    BY <2>1, <2>2 DEF StringRead
<1>6. CASE CloseQuote
  <2>1. task' = task /\ Found' /\ pc = "strscan"
        /\ esc' = esc /\ val' = val /\ i' = i /\ buf' = buf
    BY <1>0, <1>6, SearchEnds DEF CloseQuote, StringRead
  <2>2. pc' = "build"
    BY <1>0, <1>6 DEF CloseQuote, AfterSpan
  <2>3. buf' = Filled(0)' /\ i' = 0
    BY <2>1 DEF StringRead, Filled
  <2> QED
    BY <2>1, <2>2, <2>3 DEF StringRead, Searching
<1>7. CASE Build
  <2>1. /\ task' = task /\ cur' = cur /\ start' = start /\ len' = len
        /\ esc' = esc /\ val' = val /\ i' = i /\ buf' = buf /\ pc = "build"
        /\ pc' = CASE esc -> "unescape"
                   [] ~esc /\ len >= 8 -> "words"
                   [] OTHER -> "small"
        /\ Found /\ i = 0 /\ buf = Filled(0) /\ esc \in BOOLEAN /\ val = 0
    BY <1>7 DEF Build, StringRead
  <2>2. Found'
    BY <1>2, <2>1 DEF Found
  <2>3. Decoded'
    <3>1. Decoded
      BY <1>0, <2>1, DecodesFrom
    <3> QED
      BY <2>1, <3>1 DEF Decoded, Held, Sofar, Whole, Meant, Off, Count, Length,
         Text
  <2>4. Filled(0)' = Filled(0)
    BY <2>1, TaskStays
  <2>5. len \in Nat
    BY <1>1, <2>1 DEF Found
  <2>6. CASE esc
    <3>1. pc' = "unescape"
      BY <2>1, <2>6
    <3> QED
      BY <2>1, <2>2, <2>3, <2>6, <3>1 DEF StringRead, Searching
  <2>7. CASE ~esc /\ len >= 8
    <3>1. pc' = "words"
      BY <2>1, <2>7
    <3>2. 8 <= len' /\ i' \in Nat /\ i' <= len'
      BY <2>1, <2>5, <2>7
    <3>3. (buf = Filled(i))'
      BY <2>1, <2>4
    <3> QED
      BY <2>1, <2>2, <2>7, <3>1, <3>2, <3>3 DEF StringRead, Searching
  <2>8. CASE ~esc /\ ~(len >= 8)
    <3>1. pc' = "small"
      BY <2>1, <2>8
    <3>2. len' < 8
      BY <2>1, <2>5, <2>8
    <3> QED
      BY <2>1, <2>2, <2>4, <2>8, <3>1, <3>2 DEF StringRead, Searching
  <2> QED
    BY <2>1, <2>6, <2>7, <2>8
<1>8. CASE CopyWord
  <2>1. /\ task' = task /\ cur' = cur /\ start' = start /\ len' = len
        /\ esc' = esc /\ val' = val /\ i' = i + 8 /\ pc = "words" /\ pc' = pc
        /\ buf' = Copied(buf, i, 8) /\ i + 8 <= len
        /\ Found /\ ~esc /\ esc \in BOOLEAN /\ val = 0
        /\ 8 <= len /\ i \in Nat /\ buf = Filled(i)
    BY <1>8 DEF CopyWord, StringRead
  <2>2. Found' /\ len \in Nat
    BY <1>1, <1>2, <2>1 DEF Found
  <2>3. Copied(Filled(i), i, 8) = Filled(i + 8)
    BY <2>1, CopyFills
  <2>4. (Filled(i))' = Filled(i + 8)
    BY <2>1 DEF Filled, Byte, Input
  <2>5. (buf = Filled(i))'
    BY <2>1, <2>3, <2>4
  <2>6. i' \in Nat /\ i' <= len'
    BY <2>1
  <2> QED
    BY <2>1, <2>2, <2>5, <2>6 DEF StringRead, Searching
<1>9. CASE CopyTail
  <2>1. /\ task' = task /\ cur' = cur /\ start' = start /\ len' = len
        /\ esc' = esc /\ val' = val /\ i' = i /\ pc = "words" /\ pc' = "done"
        /\ buf' = Copied(buf, len - 8, 8) /\ i + 8 > len
        /\ Found /\ ~esc /\ esc \in BOOLEAN /\ val = 0
        /\ 8 <= len /\ i \in Nat /\ i <= len /\ buf = Filled(i)
    BY <1>9 DEF CopyTail, StringRead
  <2>2. len \in Nat /\ start = Body /\ cur = After /\ len = Length /\ AllPlain
    BY <1>1, <2>1 DEF Found
  <2>3. len - 8 \in Nat /\ len - 8 <= i /\ i <= (len - 8) + 8
        /\ (len - 8) + 8 = len
    BY <2>1, <2>2
  <2>4. Copied(Filled(i), len - 8, 8) = Filled((len - 8) + 8)
    BY <2>1, <2>3, CopyFills
  <2>5. (buf = Filled(len))'
    <3>1. Filled(len)' = Filled(len)
      BY <2>1 DEF Filled, Byte, Input
    <3> QED
      BY <2>1, <2>3, <2>4, <3>1
  <2>6. Body' = Body /\ Length' = Length /\ After' = After /\ AllPlain'
    BY <2>1, <2>2, TaskStays
  <2> QED
    BY <2>1, <2>2, <2>5, <2>6 DEF StringRead, Searching
<1>10. CASE CopySmall
  <2>1. /\ task' = task /\ cur' = cur /\ start' = start /\ len' = len
        /\ esc' = esc /\ val' = val /\ i' = i /\ pc = "small" /\ pc' = "done"
        /\ Found /\ ~esc /\ esc \in BOOLEAN /\ val = 0
        /\ len < 8 /\ i = 0 /\ buf = Filled(0)
    BY <1>10 DEF CopySmall, StringRead
  <2>2. len \in Nat /\ start = Body /\ cur = After /\ len = Length /\ AllPlain
    BY <1>1, <2>1 DEF Found
  <2>3. buf' = CASE len >= 4 -> Copied(Copied(Filled(0), 0, 4), len - 4, 4)
                 [] len \in {2, 3} -> Copied(Copied(Filled(0), 0, 2), len - 2, 2)
                 [] len = 1 -> Copied(Filled(0), 0, 1)
                 [] len = 0 -> Filled(0)
    BY <1>10, <2>1 DEF CopySmall
  <2>4. len >= 4 \/ len \in {2, 3} \/ len = 1 \/ len = 0
    BY <2>2
  <2>5. buf' = Filled(len)
    BY <2>1, <2>2, <2>3, <2>4, SmallFills
  <2>6. (buf = Filled(len))'
    <3>1. Filled(len)' = Filled(len)
      BY <2>1 DEF Filled, Byte, Input
    <3> QED
      BY <2>5, <3>1
  <2>7. Body' = Body /\ Length' = Length /\ After' = After /\ AllPlain'
    BY <2>1, <2>2, TaskStays
  <2> QED
    BY <2>1, <2>2, <2>6, <2>7 DEF StringRead, Searching
<1>11. CASE PushByte \/ PushEscape \/ PushCode
  <2>1. /\ task' = task /\ cur' = cur /\ start' = start /\ len' = len
        /\ esc' = esc /\ val' = val /\ pc = "unescape" /\ pc' = pc
        /\ Found /\ esc /\ esc \in BOOLEAN /\ val = 0 /\ Decoded
    BY <1>11 DEF PushByte, PushEscape, PushCode, StringRead
  <2>2. start = Body /\ len = Length /\ Found'
    BY <1>2, <2>1 DEF Found
  <2>3. Decoded'
    BY <1>0, <1>11, <2>1, <2>2, PushesByte, PushesEscape, PushesCode
  <2> QED
    BY <2>1, <2>2, <2>3 DEF StringRead, Searching
<1>12. CASE EndUnescape
  <2>1. /\ task' = task /\ cur' = cur /\ start' = start /\ i' = i
        /\ esc' = esc /\ val' = val /\ pc = "unescape" /\ pc' = "done"
        /\ Found /\ esc /\ esc \in BOOLEAN /\ val = 0 /\ Decoded
    BY <1>12 DEF EndUnescape, StringRead
  <2>2. start = Body /\ len = Length /\ cur = After
    BY <2>1 DEF Found
  <2>3. /\ buf' = buf /\ buf = Sofar(Len(Whole))
        /\ len' = Len(Whole) /\ Len(Whole) \in Nat /\ Len(Whole) <= Length
    BY <1>0, <1>12, <2>1, <2>2, DecodedAll
  <2>4. i \in Nat
    <3>1. PICK n \in 0..Count :
            i = Off(n) \/ (n = Count /\ i = Length + 1)
      BY <2>1 DEF Decoded
    <3> QED
      BY <1>0, <1>1, <3>1, UnitPlaces
  <2>5. /\ Body' = Body /\ Length' = Length /\ After' = After /\ Whole' = Whole
        /\ Sofar(Len(Whole))' = Sofar(Len(Whole))
    BY <2>1 DEF Body, Length, Text, After, Shut, Whole, Sofar
  <2> QED
    BY <2>1, <2>2, <2>3, <2>4, <2>5 DEF StringRead, Searching
<1> QED
  BY <1>0, <1>3, <1>4, <1>5, <1>6, <1>7, <1>8, <1>9, <1>10, <1>11, <1>12
     DEF Next, Scan, AllDone, StringRead, Sign, NextDigit, EndDigits, PastColon,
         EnterField, NoField, SkipString, SkipNest, SkipAtom

\* What has been read is what was meant.
LEMMA StringsMeant ==
  ASSUME task \in Strings, StringRead
  PROVE  StringsExact
<1> SUFFICES ASSUME pc = "done"
             PROVE  /\ len = Len(Whole)
                    /\ buf = [j \in 0..(len - 1) |-> Whole[j + 1]]
                    /\ cur = End - IF task.closed THEN Len(task.rest) ELSE 0
  BY DEF StringsExact, Whole
<1>1. task \in Strings \union Members /\ task.op = "string"
      /\ task.closed \in BOOLEAN
  BY TaskAssumption
<1>2. /\ Length \in Nat /\ Body \in Nat /\ Len(task.rest) \in Nat
  BY <1>1, TextParts DEF Length
<1>3. /\ start = Body /\ cur = After
      /\ \/ ~esc /\ len = Length /\ AllPlain /\ buf = Filled(len)
         \/ len = Len(Whole) /\ buf = Sofar(len)
  BY DEF StringRead
<1>6. cur = End - IF task.closed THEN Len(task.rest) ELSE 0
  <2> DEFINE R == Len(task.rest)
  <2>1. /\ task.closed => End = Body + Length + 1 + R
        /\ ~task.closed => End = Body + Length
    BY StringLayout DEF Length
  <2>2. Shut <=> task.closed
    BY <1>1 DEF Shut
  <2>3. R \in Nat
    BY <1>2
  <2> HIDE DEF R
  <2>4. CASE task.closed
    <3>1. After = Body + Length + 1
      BY <2>2, <2>4 DEF After
    <3>2. cur = End - R
      BY <1>2, <1>3, <2>1, <2>3, <2>4, <3>1
    <3> QED
      BY <2>4, <3>2 DEF R
  <2>5. CASE ~task.closed
    <3>1. After = Body + Length + 0
      BY <2>2, <2>5 DEF After
    <3>2. cur = End - 0
      BY <1>2, <1>3, <2>1, <2>5, <3>1
    <3> QED
      BY <2>5, <3>2
  <2> QED
    BY <1>1, <2>4, <2>5
<1>4. CASE len = Length /\ AllPlain /\ buf = Filled(len)
  <2>1. Len(Whole) = Length /\ \A j \in 1..Length : Whole[j] = Byte(Body + j - 1)
    BY <1>1, <1>4, PlainMeans
  <2>2. ASSUME NEW j \in 0..(len - 1) PROVE Byte(start + j) = Whole[j + 1]
    <3>1. j + 1 \in 1..Length /\ Body + (j + 1) - 1 = start + j
      BY <1>2, <1>3, <1>4
    <3> QED
      BY <2>1, <3>1
  <2>3. buf = [j \in 0..(len - 1) |-> Whole[j + 1]]
    BY <1>4, <2>2 DEF Filled
  <2> QED
    BY <1>4, <1>6, <2>1, <2>3
<1>5. CASE len = Len(Whole) /\ buf = Sofar(len)
  BY <1>5, <1>6 DEF Sofar
<1> QED
  BY <1>3, <1>4, <1>5

\* Places in a text are in the document.
LEMMA TextInDoc ==
  ASSUME task \in Strings \union Members
  PROVE  /\ End \in Nat /\ 1 \in 1..End /\ Body \in 0..End /\ Length \in 0..End
         /\ \A c \in 0..Length : Body + c \in 1..End
         /\ After \in 1..End
<1>1. /\ Fronted(Input) /\ End \in Nat /\ Body \in Nat /\ Shut \in BOOLEAN
      /\ Shut => Body + Length + 1 <= End
      /\ ~Shut => End = Body + Length
  BY TextEnd
<1>2. Length \in Nat
  BY UnitPlaces
<1>3. Body \in Nat \ {0}
  <2>1. Len(task.lead) \in Nat /\ Body = Len(task.lead) + 2
    BY TextParts DEF Body
  <2> QED
    BY <2>1
<1>4. CASE Shut
  <2>1. After = Body + Length + 1
    BY <1>4 DEF After
  <2> QED
    BY <1>1, <1>2, <1>3, <1>4, <2>1
<1>5. CASE ~Shut
  <2>1. After = Body + Length + 0
    BY <1>5 DEF After
  <2> QED
    BY <1>1, <1>2, <1>3, <1>5, <2>1
<1> QED
  BY <1>1, <1>4, <1>5

\* Types, while a string is read.
LEMMA StringTypes ==
  ASSUME task \in Strings, StringRead
  PROVE  TypeOK
<1>1. task \in Strings \union Members
  OBVIOUS
<1>2. /\ End \in Nat /\ 1 \in 1..End /\ Body \in 0..End /\ Length \in 0..End
      /\ \A c \in 0..Length : Body + c \in 1..End
      /\ After \in 1..End
  BY <1>1, TextInDoc
<1>3. cur \in 1..End /\ start \in 0..End
  <2>1. CASE pc = "begin"
    BY <1>2, <2>1 DEF StringRead, Searching
  <2>2. CASE pc = "strscan"
    BY <1>2, <2>2 DEF StringRead, Searching, Safe
  <2>3. CASE pc \in {"build", "words", "small", "unescape", "done"}
    BY <1>2, <2>3 DEF StringRead, Found
  <2> QED
    BY <2>1, <2>2, <2>3 DEF StringRead
<1>4. len \in 0..End
  <2>1. pc \in {"begin", "strscan"} => len = 0
    BY DEF StringRead, Searching
  <2>2. pc \in {"build", "words", "small", "unescape"} => len = Length
    BY DEF StringRead, Found
  <2>3. pc = "done" => len = Length \/ (len \in Nat /\ len <= Length)
    BY DEF StringRead
  <2> QED
    BY <1>2, <2>1, <2>2, <2>3 DEF StringRead
<1>5. i \in Nat /\ DOMAIN buf \subseteq Nat
  <2>1. \A n : DOMAIN Filled(n) \subseteq Nat /\ DOMAIN Sofar(n) \subseteq Nat
    BY DEF Filled, Sofar
  <2>2. CASE pc = "unescape"
    <3>1. PICK n \in 0..Count : \E k :
            Held(n, k) /\ (i = Off(n) \/ (n = Count /\ i = Length + 1))
      BY <2>2 DEF StringRead, Decoded
    <3> QED
      BY <1>1, <1>2, <2>1, <3>1, UnitPlaces DEF Held
  <2>3. CASE pc # "unescape"
    BY <2>1, <2>3 DEF StringRead
  <2> QED
    BY <2>2, <2>3
<1> QED
  BY <1>3, <1>4, <1>5 DEF TypeOK, StringRead

-----------------------------------------------------------------------------
(* Members of an object: values, unit by unit.                             *)

Parts == Len(task.value)
Part(n) == task.value[n]
Width(n) == Len(Part(n))
At(n) == Offsets(task.value)[n]
Bytewide == Len(ValueBytes)
Within(n) == Quoted(task.value, n)
Deep(n) == Depth(task.value, n)

\* A part is a byte, or in a string a backslash and the byte after it.
Escaped(n) == Width(n) = 2 /\ Part(n)[1] = "backslash" /\ Within(n)
OneByte(n) == Width(n) = 1 /\ Part(n)[1] # "backslash" /\ Part(n) = <<Part(n)[1]>>

\* Where the parts of a value are, and what is read of them.
LEMMA PartPlaces ==
  ASSUME task \in Members
  PROVE  /\ Parts \in Nat \ {0} /\ Bytewide \in Nat
         /\ At(0) = 0 /\ At(Parts) = Bytewide
         /\ \A n \in 0..Parts : At(n) \in Nat /\ At(n) <= Bytewide
         /\ \A n \in 1..Parts :
              /\ n - 1 \in 0..Parts
              /\ OneByte(n) \/ Escaped(n)
              /\ Width(n) \in {1, 2} /\ At(n) = At(n - 1) + Width(n)
              /\ \A j \in 1..Width(n) :
                   Byte(ValueAt + At(n - 1) + j - 1) = Part(n)[j]
         /\ \A n \in 0..Parts : At(n) = Bytewide => n = Parts
<1> DEFINE V == task.value
           off == Offsets(V)
<1>1. V \in Seq(Seq(Bytes)) /\ Bytewide \in Nat /\ ValueAt \in Nat
  BY MemberParts DEF Bytewide
<1>2. IsValue(V, task.rest)
  BY TaskAssumption
<1>3. Parts \in Nat /\ \A n \in 1..Parts : Part(n) \in Seq(Bytes)
  BY <1>1, ElementOfSeq, LenProperties DEF Parts, Part
<1>4. Parts # 0
  <2>1. V # <<>>
    BY <1>2 DEF IsValue
  <2> QED
    BY <1>1, <2>1, EmptySeq DEF Parts
<1>5. off \in [0..Len(V) -> Nat] /\ Laid(V, off)
  BY <1>1, Flattened
<1>6. /\ At(0) = 0 /\ At(Parts) = Bytewide
      /\ \A n \in 1..Parts : At(n) = At(n - 1) + Width(n)
      /\ \A n \in 1..Parts : \A j \in 1..Width(n) :
           ValueBytes[At(n - 1) + j] = Part(n)[j]
  BY <1>5 DEF Laid, At, Parts, Width, Part, Bytewide, ValueBytes
<1>7. ASSUME NEW n \in 1..Parts
      PROVE  /\ OneByte(n) \/ Escaped(n)
             /\ Width(n) \in {1, 2} /\ n - 1 \in 0..Parts
  <2>1. \/ Len(V[n]) = 1 /\ V[n][1] # "backslash"
        \/ Len(V[n]) = 2 /\ V[n][1] = "backslash" /\ Quoted(V, n)
    BY <1>2 DEF IsValue, Parts
  <2>2. n - 1 \in 0..Parts
    BY <1>3
  <2>3. Len(Part(n)) = 1 => Part(n) = <<Part(n)[1]>>
    <3> DEFINE p == Part(n)
    <3>1. p \in Seq(Bytes)
      BY <1>3
    <3> HIDE DEF p
    <3>2. Len(p) = 1 => p = <<p[1]>>
      BY <3>1
    <3> QED
      BY <3>2 DEF p
  <2> QED
    BY <2>1, <2>2, <2>3 DEF OneByte, Escaped, Width, Part, Within
<1>8. ASSUME NEW n \in 0..Parts
      PROVE  At(n) \in Nat /\ At(n) <= Bytewide
             /\ (At(n) = Bytewide => n = Parts)
  <2>1. ASSUME NEW m \in 1..Len(V) PROVE Len(V[m]) # 0
    <3>1. m \in 1..Parts
      BY DEF Parts
    <3>2. Width(m) # 0
      BY <1>7, <3>1
    <3> QED
      BY <3>2 DEF Width, Part
  <2>2. n \in 0..Len(V) /\ Parts \in 0..Len(V) /\ n <= Parts
    BY <1>3 DEF Parts
  <2>3. At(n) \in Nat /\ At(n) + (Parts - n) <= At(Parts) /\ At(Parts) \in Nat
    BY <1>1, <2>1, <2>2, OffsetsClimb DEF At
  <2> QED
    BY <1>3, <1>6, <2>2, <2>3
<1>9. ASSUME NEW n \in 1..Parts, NEW j \in 1..Width(n)
      PROVE  Byte(ValueAt + At(n - 1) + j - 1) = Part(n)[j]
  <2>1. /\ At(n - 1) \in Nat /\ Width(n) \in Nat /\ At(n) = At(n - 1) + Width(n)
        /\ n \in 0..Parts
    <3>1. n - 1 \in 0..Parts /\ Width(n) \in {1, 2}
      BY <1>7
    <3>2. At(n - 1) \in Nat /\ n \in 0..Parts
      BY <1>3, <1>8, <3>1
    <3> QED
      BY <1>6, <3>1, <3>2
  <2>2. At(n) <= Bytewide
    BY <1>8, <2>1
  <2>3. At(n - 1) + j \in 1..Bytewide
    BY <1>1, <2>1, <2>2
  <2>4. Byte(ValueAt + (At(n - 1) + j) - 1) = ValueBytes[At(n - 1) + j]
    BY <2>3, MemberLayout DEF Bytewide
  <2>5. ValueAt + (At(n - 1) + j) - 1 = ValueAt + At(n - 1) + j - 1
    BY <1>1, <2>1
  <2> QED
    BY <1>6, <2>4, <2>5
<1> QED
  BY <1>1, <1>3, <1>4, <1>6, <1>7, <1>8, <1>9

\* Of the first n parts, those in S.
Tally(n, S) == Cardinality({m \in 1..n : m \in S})

\* With the next part, there is one more or none.
LEMMA Tallies ==
  ASSUME NEW n \in Nat, NEW S
  PROVE  /\ Tally(n, S) \in Nat
         /\ Tally(n + 1, S) = Tally(n, S) + (IF n + 1 \in S THEN 1 ELSE 0)
<1> DEFINE T == {m \in 1..n : m \in S}
           T1 == {m \in 1..(n + 1) : m \in S}
<1>1. Tally(n, S) = Cardinality(T) /\ Tally(n + 1, S) = Cardinality(T1)
  BY DEF Tally
<1>2. IsFiniteSet(T)
  <2>1. IsFiniteSet(1..n)
    BY FS_Interval
  <2>2. T \subseteq 1..n
    OBVIOUS
  <2> HIDE DEF T
  <2> QED
    BY <2>1, <2>2, FS_Subset
<1>3. Cardinality(T) \in Nat
  <2> HIDE DEF T
  <2> QED
    BY <1>2, FS_CardinalityType
<1>4. CASE n + 1 \in S
  <2>1. T1 = T \union {n + 1} /\ n + 1 \notin T
    BY <1>4
  <2> HIDE DEF T, T1
  <2>2. Cardinality(T \union {n + 1}) = Cardinality(T) + 1
    BY <1>2, <2>1, FS_AddElement
  <2> QED
    BY <1>1, <1>3, <1>4, <2>1, <2>2
<1>5. CASE n + 1 \notin S
  <2>1. T1 = T
    BY <1>5
  <2> HIDE DEF T, T1
  <2> QED
    BY <1>1, <1>3, <1>5, <2>1
<1> QED
  BY <1>4, <1>5

\* A quote goes in or out of a string, and nothing else does.
LEMMA WithinNext ==
  ASSUME NEW n \in Nat
  PROVE  /\ ~Within(0)
         /\ Within(n + 1) <=> IF Part(n + 1) = <<"quote">> THEN ~Within(n)
                             ELSE Within(n)
<1> DEFINE V == task.value
           S == {m \in Nat : V[m] = <<"quote">>}
           Q(k) == {m \in 1..k : V[m] = <<"quote">>}
           c == Cardinality(Q(n))
           d == Cardinality(Q(n + 1))
<1>1. \A k \in Nat : Q(k) = {m \in 1..k : m \in S}
  OBVIOUS
<1>2. c \in Nat /\ d = c + (IF n + 1 \in S THEN 1 ELSE 0)
  <2>1. n \in Nat /\ n + 1 \in Nat
    OBVIOUS
  <2> HIDE DEF S
  <2>2. Q(n) = {m \in 1..n : m \in S} /\ Q(n + 1) = {m \in 1..(n + 1) : m \in S}
    BY <1>1, <2>1
  <2> HIDE DEF Q
  <2>3. c = Tally(n, S) /\ d = Tally(n + 1, S)
    BY <2>2 DEF Tally
  <2> HIDE DEF c, d
  <2> QED
    BY <2>3, Tallies
<1>3. n + 1 \in S <=> Part(n + 1) = <<"quote">>
  BY DEF Part
<1>4. (Within(n) <=> c % 2 = 1) /\ (Within(n + 1) <=> d % 2 = 1)
  BY DEF Within, Quoted
<1>5. ~Within(0)
  <2>1. Q(0) = {}
    OBVIOUS
  <2>2. Within(0) <=> Cardinality(Q(0)) % 2 = 1
    BY DEF Within, Quoted
  <2> HIDE DEF Q
  <2>3. Within(0) <=> 0 % 2 = 1
    BY <2>1, <2>2, FS_EmptySet
  <2> QED
    BY <2>3
<1> HIDE DEF c, d, S
<1>6. c % 2 = 1 \/ c % 2 = 0
  BY <1>2
<1>7. (c + 1) % 2 = 1 <=> ~(c % 2 = 1)
  BY <1>2
<1>8. Within(n + 1) <=> IF Part(n + 1) = <<"quote">> THEN ~Within(n) ELSE Within(n)
  <2>1. CASE n + 1 \in S
    <3>1. d = c + 1
      BY <1>2, <2>1
    <3>2. Within(n + 1) <=> ~Within(n)
      BY <1>4, <1>7, <3>1, Zenon
    <3> QED
      BY <1>3, <2>1, <3>2, Zenon
  <2>2. CASE n + 1 \notin S
    <3>1. d = c
      BY <1>2, <2>2
    <3>2. Within(n + 1) <=> Within(n)
      BY <1>4, <3>1, Zenon
    <3> QED
      BY <1>3, <2>2, <3>2, Zenon
  <2> QED
    BY <2>1, <2>2
<1> QED
  BY <1>5, <1>8

\* A bracket outside strings goes in or out, and nothing else does.
LEMMA DeepNext ==
  ASSUME NEW n \in Nat
  PROVE  /\ Deep(0) = 0 /\ Deep(n) \in Int
         /\ Deep(n + 1) =
              Deep(n)
                + (IF Part(n + 1) \in Opening /\ ~Within(n + 1) THEN 1 ELSE 0)
                - (IF Part(n + 1) \in Closing /\ ~Within(n + 1) THEN 1 ELSE 0)
<1> DEFINE V == task.value
<1>1. ASSUME NEW bs
      PROVE  /\ Brackets(V, 0, bs) = 0 /\ Brackets(V, n, bs) \in Nat
             /\ Brackets(V, n + 1, bs) = Brackets(V, n, bs)
                  + (IF Part(n + 1) \in bs /\ ~Within(n + 1) THEN 1 ELSE 0)
  <2> DEFINE S == {m \in Nat : V[m] \in bs /\ ~Quoted(V, m)}
             Q(k) == {m \in 1..k : V[m] \in bs /\ ~Quoted(V, m)}
  <2>1. \A k \in Nat : Q(k) = {m \in 1..k : m \in S}
    OBVIOUS
  <2>2. \A k : Brackets(V, k, bs) = Cardinality(Q(k))
    BY DEF Brackets
  <2>3. n + 1 \in S <=> Part(n + 1) \in bs /\ ~Within(n + 1)
    BY DEF Part, Within
  <2>4. Q(0) = {}
    OBVIOUS
  <2>5. n \in Nat /\ n + 1 \in Nat
    OBVIOUS
  <2>6. Q(n) = {m \in 1..n : m \in S} /\ Q(n + 1) = {m \in 1..(n + 1) : m \in S}
    BY <2>1, <2>5
  <2> HIDE DEF S
  <2> HIDE DEF Q
  <2>7. Cardinality(Q(n)) = Tally(n, S) /\ Cardinality(Q(n + 1)) = Tally(n + 1, S)
    BY <2>6 DEF Tally
  <2>8. Cardinality(Q(0)) = 0
    BY <2>4, FS_EmptySet
  <2>9. Cardinality(Q(n)) \in Nat
        /\ Cardinality(Q(n + 1)) =
             Cardinality(Q(n)) + (IF n + 1 \in S THEN 1 ELSE 0)
    BY <2>7, Tallies
  <2> QED
    BY <2>2, <2>3, <2>8, <2>9
<1> DEFINE o == Brackets(V, n, Opening)
           c == Brackets(V, n, Closing)
           x == IF Part(n + 1) \in Opening /\ ~Within(n + 1) THEN 1 ELSE 0
           y == IF Part(n + 1) \in Closing /\ ~Within(n + 1) THEN 1 ELSE 0
<1>2. /\ o \in Nat /\ c \in Nat
      /\ Brackets(V, n + 1, Opening) = o + x
      /\ Brackets(V, n + 1, Closing) = c + y
      /\ Brackets(V, 0, Opening) = 0 /\ Brackets(V, 0, Closing) = 0
  BY <1>1
<1>3. x \in Int /\ y \in Int
  OBVIOUS
<1>4. /\ Deep(n) = o - c /\ Deep(0) = 0 - 0
      /\ Deep(n + 1) = (o + x) - (c + y)
  BY <1>2 DEF Deep, Depth
<1> HIDE DEF o, c, x, y
<1>5. Deep(n) \in Int /\ Deep(0) = 0 /\ Deep(n + 1) = Deep(n) + x - y
  BY <1>2, <1>3, <1>4
<1> QED
  BY <1>5 DEF x, y

-----------------------------------------------------------------------------
(* Members of an object: how a value is skipped (rt_skip).                 *)

\* A value is a string, brackets, or an atom.
OfQuotes ==
  /\ Byte(ValueAt) = "quote"
  /\ \A n \in 1..Parts : Within(n) <=> n < Parts
OfBrackets ==
  /\ Byte(ValueAt) \in {"{", "["}
  /\ Part(1) \in Opening
  /\ \A n \in 1..Parts : Deep(n) = 0 <=> n = Parts
OfAtom ==
  /\ Byte(ValueAt) \notin {"quote", "{", "["}
  /\ \A n \in 1..Parts : Width(n) = 1 /\ Part(n)[1] \notin Stops
  /\ task.rest # <<>> => task.rest[1] \in Stops

\* Its first byte tells.
LEMMA ValueKinds ==
  ASSUME task \in Members
  PROVE  /\ OfQuotes \/ OfBrackets \/ OfAtom
         /\ Byte(ValueAt) # "ws" /\ Width(1) = 1
<1> DEFINE V == task.value
           b == Part(1)[1]
<1>1. IsValue(V, task.rest)
  BY TaskAssumption
<1>2. Parts \in Nat \ {0} /\ 1 \in 1..Parts /\ At(0) = 0
      /\ ValueAt \in Nat
  BY PartPlaces, MemberParts
<1>3. /\ OneByte(1) \/ Escaped(1)
      /\ \A j \in 1..Width(1) : Byte(ValueAt + At(1 - 1) + j - 1) = Part(1)[j]
  BY <1>2, PartPlaces
<1>4. ~Escaped(1)
  <2> SUFFICES ASSUME Escaped(1) PROVE FALSE
    OBVIOUS
  <2>1. Part(1) # <<"quote">>
    <3> SUFFICES ASSUME Part(1) = <<"quote">> PROVE FALSE
      OBVIOUS
    <3>1. Part(1)[1] = "backslash"
      BY DEF Escaped
    <3> QED
      BY <3>1
  <2>2. Within(0 + 1) <=> Within(0)
    BY <2>1, WithinNext
  <2>3. ~Within(0)
    BY WithinNext
  <2>4. Within(1)
    BY DEF Escaped
  <2> QED
    BY <2>2, <2>3, <2>4
<1>5. Width(1) = 1 /\ Part(1) = <<b>>
  BY <1>3, <1>4 DEF OneByte
<1>6. Byte(ValueAt) = b
  <2>1. Byte(ValueAt + At(0) + 1 - 1) = b
    BY <1>3, <1>5
  <2>2. ValueAt + 0 + 1 - 1 = ValueAt
    BY <1>2
  <2> QED
    BY <1>2, <2>1, <2>2
<1>7. V[1] = Part(1)
  BY DEF Part
<1>8. CASE V[1] = <<"quote">>
  <2>1. b = "quote"
    BY <1>7, <1>8
  <2>2. \A n \in 1..Len(V) : Quoted(V, n) <=> n < Len(V)
    BY <1>1, <1>8 DEF IsValue
  <2>3. OfQuotes
    BY <1>6, <2>1, <2>2 DEF OfQuotes, Within, Parts
  <2> QED
    BY <1>5, <1>6, <2>1, <2>3
<1>9. CASE V[1] \in Opening
  <2>1. b \in {"{", "["}
    <3>1. V[1] = <<"{">> \/ V[1] = <<"[">>
      BY <1>9 DEF Opening
    <3>2. <<"{">>[1] = "{" /\ <<"[">>[1] = "["
      OBVIOUS
    <3> QED
      BY <1>7, <3>1, <3>2, Zenon
  <2>2. \A n \in 1..Len(V) : Depth(V, n) = 0 <=> n = Len(V)
    BY <1>1, <1>9 DEF IsValue
  <2>3. OfBrackets
    BY <1>6, <1>7, <1>9, <2>1, <2>2 DEF OfBrackets, Deep, Parts
  <2> QED
    BY <1>5, <1>6, <2>1, <2>3
<1>10. CASE V[1] # <<"quote">> /\ V[1] \notin Opening
  <2>1. /\ \A n \in 1..Len(V) :
             Len(V[n]) = 1 /\ V[n][1] \notin Stops \union {"quote"}
        /\ task.rest # <<>> => task.rest[1] \in Stops
    BY <1>1, <1>10 DEF IsValue
  <2>2. b # "quote" /\ b \notin {"{", "["}
    BY <1>5, <1>7, <1>10 DEF Opening
  <2>3. b \notin Stops
    BY <1>2, <2>1 DEF Part, Parts
  <2>4. OfAtom
    BY <1>6, <2>1, <2>2 DEF OfAtom, Width, Part, Parts
  <2> QED
    BY <1>5, <1>6, <2>3, <2>4 DEF Stops
<1> QED
  BY <1>8, <1>9, <1>10

\* Where in a value skipping is: in a string, in brackets (the depth is in i,
\* whether in a string of theirs in val), in an atom.
StringAt(n) == n \in 1..(Parts - 1) /\ cur = ValueAt + At(n)
NestAt(n) ==
  /\ n \in 0..(Parts - 1) /\ cur = ValueAt + At(n)
  /\ val = (IF Within(n) THEN 1 ELSE 0)
  /\ i = Deep(n) /\ i \in Nat /\ (n # 0 => i # 0)
AtomAt(n) == n \in 0..Parts /\ cur = ValueAt + At(n)

\* The next part is read where the cursor is.
LEMMA NextPart ==
  ASSUME task \in Members, NEW n \in 0..(Parts - 1), cur = ValueAt + At(n)
  PROVE  /\ n \in Nat /\ n + 1 \in 1..Parts /\ n \in 0..Parts
         /\ cur \in Nat /\ cur < End
         /\ Byte(cur) = Part(n + 1)[1]
         /\ \/ OneByte(n + 1) /\ cur + 1 = ValueAt + At(n + 1)
            \/ Escaped(n + 1) /\ cur + 2 = ValueAt + At(n + 1)
<1>1. Parts \in Nat \ {0} /\ ValueAt \in Nat /\ Bytewide \in Nat
  BY PartPlaces, MemberParts
<1>2. n \in Nat /\ n + 1 \in 1..Parts /\ n \in 0..Parts /\ (n + 1) - 1 = n
      /\ n # Parts
  BY <1>1
<1>3. At(n) \in Nat /\ At(n) < Bytewide
  <2>1. At(n) \in Nat /\ At(n) <= Bytewide /\ At(n) # Bytewide
    BY <1>2, PartPlaces
  <2> QED
    BY <1>1, <2>1
<1>4. /\ OneByte(n + 1) \/ Escaped(n + 1)
      /\ Width(n + 1) \in {1, 2} /\ At(n + 1) = At((n + 1) - 1) + Width(n + 1)
      /\ \A j \in 1..Width(n + 1) :
           Byte(ValueAt + At((n + 1) - 1) + j - 1) = Part(n + 1)[j]
  BY <1>2, PartPlaces
<1>5. Byte(cur) = Part(n + 1)[1]
  <2>1. Byte(ValueAt + At(n) + 1 - 1) = Part(n + 1)[1]
    <3>1. 1 \in 1..Width(n + 1)
      BY <1>4
    <3> QED
      BY <1>2, <1>4, <3>1
  <2>2. ValueAt + At(n) + 1 - 1 = ValueAt + At(n)
    BY <1>1, <1>3
  <2> QED
    BY <2>1, <2>2
<1>6. cur < End /\ cur \in Nat
  <2> DEFINE R == Len(task.rest)
  <2>1. End = ValueAt + Bytewide + R
    BY MemberLayout, Zenon DEF Bytewide
  <2>2. R \in Nat
    BY MemberParts, TextParts
  <2> HIDE DEF R
  <2> QED
    BY <1>1, <1>3, <2>1, <2>2
<1>7. \/ OneByte(n + 1) /\ cur + 1 = ValueAt + At(n + 1)
      \/ Escaped(n + 1) /\ cur + 2 = ValueAt + At(n + 1)
  <2>1. At(n + 1) = At(n) + Width(n + 1)
    BY <1>2, <1>4
  <2>2. OneByte(n + 1) => Width(n + 1) = 1
    BY DEF OneByte
  <2>3. Escaped(n + 1) => Width(n + 1) = 2
    BY DEF Escaped
  <2>4. Width(n + 1) = 1 => cur + 1 = ValueAt + At(n + 1)
    BY <1>1, <1>3, <2>1
  <2>5. Width(n + 1) = 2 => cur + 2 = ValueAt + At(n + 1)
    BY <1>1, <1>3, <2>1
  <2> QED
    BY <1>4, <2>2, <2>3, <2>4, <2>5
<1> QED
  BY <1>2, <1>5, <1>6, <1>7

\* A part that is a quote, a bracket, or neither, by its first byte.
LEMMA PartIs ==
  ASSUME NEW n, OneByte(n) \/ Escaped(n), NEW b, b # "backslash"
  PROVE  Part(n)[1] = b <=> Part(n) = <<b>>
<1>1. CASE OneByte(n)
  <2>1. Part(n) = <<Part(n)[1]>>
    BY <1>1 DEF OneByte
  <2>2. <<b>>[1] = b
    OBVIOUS
  <2> QED
    BY <2>1, <2>2, Zenon
<1>2. CASE Escaped(n)
  <2>1. Part(n)[1] = "backslash"
    BY <1>2 DEF Escaped
  <2>2. <<b>>[1] = b
    OBVIOUS
  <2> QED
    BY <2>1, <2>2, Zenon
<1> QED
  BY <1>1, <1>2

\* A string is skipped to its last quote.
LEMMA StringSkipped ==
  ASSUME task \in Members, OfQuotes, NEW n, StringAt(n), SkipString
  PROVE  \/ /\ pc' = "skipString"
            /\ n + 1 \in 1..(Parts - 1) /\ cur' = ValueAt + At(n + 1)
         \/ pc' = "done" /\ cur' = ValueAt + Bytewide
<1>1. Parts \in Nat \ {0} /\ At(Parts) = Bytewide
  BY PartPlaces
<1>2. n \in 1..(Parts - 1) /\ n \in 0..(Parts - 1) /\ cur = ValueAt + At(n)
  BY <1>1 DEF StringAt
<1>3. /\ n \in Nat /\ n + 1 \in 1..Parts /\ cur < End
      /\ Byte(cur) = Part(n + 1)[1]
      /\ \/ OneByte(n + 1) /\ cur + 1 = ValueAt + At(n + 1)
         \/ Escaped(n + 1) /\ cur + 2 = ValueAt + At(n + 1)
  BY <1>2, NextPart
<1>4. /\ pc = "skipString" /\ task' = task
      /\ Byte(cur) # "quote" =>
           /\ pc' = pc
           /\ cur' = IF Byte(cur) = "backslash" THEN cur + 2 ELSE cur + 1
      /\ Byte(cur) = "quote" => cur' = cur + 1 /\ pc' = "done"
  BY <1>3 DEF SkipString
<1>5. /\ Within(n)
      /\ Within(n + 1) <=> n + 1 < Parts
  BY <1>1, <1>2, <1>3 DEF OfQuotes
<1>6. Part(n + 1)[1] = "quote" <=> Part(n + 1) = <<"quote">>
  BY <1>3, PartIs
<1>7. Within(n + 1) <=> IF Part(n + 1) = <<"quote">> THEN ~Within(n) ELSE Within(n)
  BY <1>3, WithinNext
<1>8. CASE Byte(cur) = "quote"
  <2>1. ~(n + 1 < Parts)
    BY <1>3, <1>5, <1>6, <1>7, <1>8, Zenon
  <2>2. n + 1 = Parts
    BY <1>1, <1>3, <2>1
  <2>3. ~Escaped(n + 1)
    BY <1>3, <1>8 DEF Escaped
  <2> QED
    BY <1>1, <1>3, <1>4, <1>8, <2>2, <2>3
<1>9. CASE Byte(cur) # "quote"
  <2>1. n + 1 < Parts
    BY <1>3, <1>5, <1>6, <1>7, <1>9, Zenon
  <2>2. n + 1 \in 1..(Parts - 1)
    BY <1>1, <1>3, <2>1
  <2>3. cur' = ValueAt + At(n + 1)
    BY <1>3, <1>4, <1>9 DEF OneByte, Escaped
  <2> QED
    BY <1>4, <1>9, <2>2, <2>3
<1> QED
  BY <1>8, <1>9

\* Brackets are skipped to the one that closes the first.
LEMMA BracketsSkipped ==
  ASSUME task \in Members, OfBrackets, NEW n, NestAt(n), SkipNest
  PROVE  /\ \/ pc' = "skipNest" /\ n + 1 \in 0..(Parts - 1) /\ i' # 0
            \/ pc' = "done" /\ n + 1 = Parts
         /\ cur' = ValueAt + At(n + 1)
         /\ val' = (IF Within(n + 1) THEN 1 ELSE 0)
         /\ i' = Deep(n + 1) /\ i' \in Nat
<1> DEFINE p == Part(n + 1)
           b == p[1]
           in == Within(n)
           in1 == Within(n + 1)
           d == Deep(n)
           d1 == Deep(n + 1)
           opens == ~in /\ b \in {"{", "["}
           closes == ~in /\ b \in {"}", "]"}
<1>1. Parts \in Nat \ {0} /\ At(Parts) = Bytewide
  BY PartPlaces
<1>2. /\ n \in 0..(Parts - 1) /\ cur = ValueAt + At(n)
      /\ val = (IF in THEN 1 ELSE 0)
      /\ i = d /\ i \in Nat /\ (n # 0 => i # 0)
  BY DEF NestAt
<1>3. /\ n \in Nat /\ n + 1 \in 1..Parts /\ n \in 0..Parts
      /\ cur < End /\ Byte(cur) = b
      /\ \/ OneByte(n + 1) /\ cur + 1 = ValueAt + At(n + 1)
         \/ Escaped(n + 1) /\ cur + 2 = ValueAt + At(n + 1)
  BY <1>2, NextPart
<1>4. /\ b = "quote" <=> p = <<"quote">>
      /\ b = "{" <=> p = <<"{">>
      /\ b = "[" <=> p = <<"[">>
      /\ b = "}" <=> p = <<"}">>
      /\ b = "]" <=> p = <<"]">>
  BY <1>3, PartIs
<1>5. /\ in1 <=> IF p = <<"quote">> THEN ~in ELSE in
      /\ ~Within(0)
  BY <1>3, WithinNext
<1>6. /\ Deep(0) = 0 /\ d \in Int
      /\ d1 = d + (IF p \in Opening /\ ~in1 THEN 1 ELSE 0)
                - (IF p \in Closing /\ ~in1 THEN 1 ELSE 0)
  BY <1>3, DeepNext
<1>7. (p \in Opening <=> b \in {"{", "["}) /\ (p \in Closing <=> b \in {"}", "]"})
  BY <1>4, Zenon DEF Opening, Closing
<1>8. /\ pc = "skipNest" /\ task' = task
      /\ cur' = IF val = 1 /\ b = "backslash" THEN cur + 2 ELSE cur + 1
      /\ val' = IF b = "quote" THEN 1 - val ELSE val
      /\ i' = CASE val = 0 /\ b \in {"{", "["} -> i + 1
                [] val = 0 /\ b \in {"}", "]"} -> i - 1 [] OTHER -> i
      /\ pc' = IF val = 0 /\ b \in {"}", "]"} /\ i = 1 THEN "done" ELSE pc
  BY <1>3 DEF SkipNest
<1>9. /\ d1 = 0 <=> n + 1 = Parts
      /\ Part(1) \in Opening
  BY <1>3 DEF OfBrackets
<1>10. Escaped(n + 1) => in1 /\ b = "backslash"
  BY DEF Escaped
<1>11. OneByte(n + 1) => b # "backslash"
  BY DEF OneByte
<1>12. n = 0 => ~in /\ b \in {"{", "["} /\ d = 0
  <2> SUFFICES ASSUME n = 0 PROVE ~in /\ b \in {"{", "["} /\ d = 0
    OBVIOUS
  <2>1. 0 + 1 = 1
    OBVIOUS
  <2>2. in = Within(0) /\ d = Deep(0) /\ p = Part(1)
    BY <2>1
  <2>3. p \in Opening
    BY <1>9, <2>2
  <2> HIDE DEF p, b, in, d
  <2> QED
    BY <1>5, <1>6, <1>7, <2>2, <2>3
<1>13. val = 0 <=> ~in
  BY <1>2
<1>14. val = 1 <=> in
  BY <1>2
<1> HIDE DEF p, b, in, in1, d, d1
<1>15. val' = (IF in1 THEN 1 ELSE 0)
  <2>1. CASE b = "quote"
    <3>1. in1 <=> ~in
      BY <1>4, <1>5, <2>1, Zenon
    <3>2. val' = 1 - val
      BY <1>8, <2>1
    <3> QED
      BY <1>2, <3>1, <3>2
  <2>2. CASE b # "quote"
    <3>1. in1 <=> in
      BY <1>4, <1>5, <2>2, Zenon
    <3>2. val' = val
      BY <1>8, <2>2
    <3> QED
      BY <1>2, <3>1, <3>2
  <2> QED
    BY <2>1, <2>2
<1>16. cur' = ValueAt + At(n + 1)
  <2>1. CASE Escaped(n + 1)
    <3>1. in /\ b = "backslash"
      <4>1. b # "quote"
        BY <1>10, <2>1
      <4> QED
        BY <1>4, <1>5, <1>10, <2>1, <4>1, Zenon
    <3>2. cur' = cur + 2
      BY <1>8, <1>14, <3>1
    <3>3. ~OneByte(n + 1)
      BY <1>10, <1>11, <2>1
    <3> QED
      BY <1>3, <3>2, <3>3
  <2>2. CASE ~Escaped(n + 1)
    <3>1. OneByte(n + 1) /\ cur + 1 = ValueAt + At(n + 1)
      BY <1>3, <2>2
    <3>2. cur' = cur + 1
      BY <1>8, <1>11, <3>1
    <3> QED
      BY <3>1, <3>2
  <2> QED
    BY <2>1, <2>2
<1>17. i' = d1 /\ i' \in Nat
       /\ \/ i' # 0 /\ pc' = "skipNest"
          \/ i' = 0 /\ pc' = "done"
  <2>1. CASE opens
    <3>1. b # "quote" /\ b \notin {"}", "]"}
      BY <2>1
    <3>2. p \in Opening /\ p \notin Closing /\ ~in1
      BY <1>4, <1>5, <1>7, <2>1, <3>1, Zenon
    <3>3. d1 = d + 1 - 0
      BY <1>6, <3>2
    <3>4. i' = i + 1 /\ pc' = "skipNest"
      BY <1>8, <1>13, <2>1, <3>1
    <3> QED
      BY <1>2, <3>3, <3>4
  <2>2. CASE closes
    <3>1. b # "quote" /\ b \notin {"{", "["}
      BY <2>2
    <3>2. p \in Closing /\ p \notin Opening /\ ~in1
      BY <1>4, <1>5, <1>7, <2>2, <3>1, Zenon
    <3>3. d1 = d + 0 - 1
      BY <1>6, <3>2
    <3>4. i' = i - 1 /\ pc' = IF i = 1 THEN "done" ELSE "skipNest"
      BY <1>8, <1>13, <2>2, <3>1
    <3>5. i # 0
      BY <1>2, <1>12, <3>1
    <3> QED
      BY <1>2, <3>3, <3>4, <3>5
  <2>3. CASE ~opens /\ ~closes
    <3>1. i' = i /\ pc' = "skipNest"
      BY <1>8, <1>13, <2>3
    <3>2. ~(p \in Opening /\ ~in1) /\ ~(p \in Closing /\ ~in1)
      <4>1. b \in {"{", "[", "}", "]"} => b # "quote"
        OBVIOUS
      <4>2. b # "quote" => (in1 <=> in)
        BY <1>4, <1>5, Zenon
      <4> QED
        BY <1>7, <2>3, <4>1, <4>2
    <3>3. d1 = d + 0 - 0
      BY <1>6, <3>2
    <3>4. i # 0
      BY <1>2, <1>12, <2>3
    <3> QED
      BY <1>2, <3>1, <3>3, <3>4
  <2> QED
    BY <2>1, <2>2, <2>3
<1>18. /\ n + 1 = Parts <=> i' = 0
       /\ n + 1 # Parts => n + 1 \in 0..(Parts - 1)
  BY <1>1, <1>3, <1>9, <1>17
<1> QED
  BY <1>15, <1>16, <1>17, <1>18 DEF in1, d1

\* An atom is skipped to what follows it.
LEMMA AtomSkipped ==
  ASSUME task \in Members, OfAtom, NEW n, AtomAt(n), SkipAtom
  PROVE  \/ /\ pc' = "skipAtom"
            /\ n + 1 \in 0..Parts /\ cur' = ValueAt + At(n + 1)
         \/ pc' = "done" /\ cur' = ValueAt + Bytewide
<1>1. Parts \in Nat \ {0} /\ At(Parts) = Bytewide
  BY PartPlaces
<1>2. n \in 0..Parts /\ cur = ValueAt + At(n)
  BY DEF AtomAt
<1>3. CASE n # Parts
  <2>1. n \in 0..(Parts - 1)
    BY <1>1, <1>2, <1>3
  <2>2. /\ n + 1 \in 1..Parts /\ cur < End /\ Byte(cur) = Part(n + 1)[1]
        /\ \/ OneByte(n + 1) /\ cur + 1 = ValueAt + At(n + 1)
           \/ Escaped(n + 1)
    BY <1>2, <2>1, NextPart
  <2>3. Width(n + 1) = 1 /\ Byte(cur) \notin Stops
    BY <2>2 DEF OfAtom
  <2>4. ~Escaped(n + 1)
    BY <2>3 DEF Escaped
  <2>5. pc' = "skipAtom" /\ cur' = cur + 1
    BY <2>2, <2>3 DEF SkipAtom
  <2>6. n + 1 \in 0..Parts
    BY <1>1, <2>2
  <2> QED
    BY <2>2, <2>4, <2>5, <2>6
<1>4. CASE n = Parts
  <2> DEFINE R == Len(task.rest)
  <2>1. cur = ValueAt + Bytewide /\ ValueAt \in Nat /\ Bytewide \in Nat
    BY <1>1, <1>2, <1>4, MemberParts, PartPlaces
  <2>2. /\ End = ValueAt + Bytewide + R
        /\ \A j \in 1..R : Byte(ValueAt + Bytewide + j - 1) = task.rest[j]
    BY MemberLayout, Zenon DEF Bytewide
  <2>3. R \in Nat /\ task.rest \in Seq(Bytes)
    BY MemberParts, TextParts
  <2>4. R # 0 => task.rest # <<>>
    BY <2>3, EmptySeq
  <2> HIDE DEF R
  <2>5. R # 0 => Byte(cur) \in Stops
    <3> SUFFICES ASSUME R # 0 PROVE Byte(cur) \in Stops
      OBVIOUS
    <3>1. 1 \in 1..R /\ ValueAt + Bytewide + 1 - 1 = cur
      BY <2>1, <2>3
    <3>2. Byte(cur) = task.rest[1]
      BY <2>2, <3>1
    <3> QED
      BY <2>4, <3>2 DEF OfAtom
  <2>6. R = 0 => ~(cur < End)
    BY <2>1, <2>2
  <2>7. pc' = "done" /\ cur' = cur
    BY <2>5, <2>6 DEF SkipAtom
  <2> QED
    BY <2>1, <2>7
<1> QED
  BY <1>3, <1>4

-----------------------------------------------------------------------------
(* Members of an object, from the key to behind the value.                 *)

\* The fields of the key's name.
Fields == {f \in DOMAIN task.fields : task.fields[f] = Text}

\* Where the colon ends, and blanks before the value begin.
Colon == ValueAt - Len(task.gap)

\* Reading a member: its key is found; behind the colon it is told which field
\* it is for; if for none, the value is skipped as far as that has come.
MemberRead ==
  /\ pc \in {"begin", "strscan", "colon", "dispatch", "skipString",
             "skipNest", "skipAtom", "done"}
  /\ esc \in BOOLEAN /\ DOMAIN buf = {} /\ i \in Nat /\ val \in Nat
  /\ Searching
  /\ pc \in {"begin", "strscan", "colon", "dispatch"} => i = 0 /\ val = 0
  /\ pc \notin {"begin", "strscan"} => start = Body /\ len = Length
  /\ pc = "colon" => cur = After
  /\ pc = "dispatch" => cur = Colon
  /\ pc \in {"skipString", "skipNest", "skipAtom"} => Fields = {}
  /\ pc = "skipString" => OfQuotes /\ \E n : StringAt(n)
  /\ pc = "skipNest" => OfBrackets /\ \E n : NestAt(n)
  /\ pc = "skipAtom" => OfAtom /\ \E n : AtomAt(n)
  /\ pc = "done" => \/ Fields = {val} /\ cur = Colon
                    \/ Fields = {} /\ cur = ValueAt + Bytewide

\* What of a member does not change with a step.
LEMMA MemberStays ==
  ASSUME task' = task
  PROVE  /\ Body' = Body /\ Length' = Length /\ After' = After
         /\ Fields' = Fields /\ Colon' = Colon /\ ValueAt' = ValueAt
         /\ Bytewide' = Bytewide /\ Parts' = Parts
         /\ OfQuotes' = OfQuotes /\ OfBrackets' = OfBrackets
         /\ OfAtom' = OfAtom
         /\ \A n : At(n)' = At(n) /\ Within(n)' = Within(n) /\ Deep(n)' = Deep(n)
<1>1. Input' = Input /\ \A p : Byte(p)' = Byte(p)
  BY DEF Input, Byte
<1>2. /\ Body' = Body /\ Length' = Length /\ After' = After
      /\ Fields' = Fields /\ Colon' = Colon /\ ValueAt' = ValueAt
      /\ Bytewide' = Bytewide /\ Parts' = Parts
  BY DEF Body, Length, After, Shut, Text, Fields, Colon, ValueAt, Bytewide,
         ValueBytes, Parts
<1>3. \A n : /\ At(n)' = At(n) /\ Within(n)' = Within(n) /\ Deep(n)' = Deep(n)
             /\ Part(n)' = Part(n) /\ Width(n)' = Width(n)
  BY DEF At, Within, Deep, Part, Width
<1>4. Byte(ValueAt)' = Byte(ValueAt)
  BY DEF Input, Byte, ValueAt, Body, Text
<1>5. OfQuotes' = OfQuotes /\ OfBrackets' = OfBrackets /\ OfAtom' = OfAtom
  BY <1>2, <1>3, <1>4 DEF OfQuotes, OfBrackets, OfAtom
<1> QED
  BY <1>2, <1>3, <1>5

\* Places behind the key.
LEMMA Places ==
  ASSUME task \in Members
  PROVE  /\ After \in Nat \ {0} /\ Colon \in Nat \ {0} /\ ValueAt \in Nat
         /\ Len(task.gap) \in Nat /\ Len(task.rest) \in Nat /\ Bytewide \in Nat
         /\ Colon + Len(task.gap) = ValueAt
         /\ Ws(After) + 1 = Colon /\ WsSkip(Colon) = ValueAt
         /\ End = ValueAt + Bytewide + Len(task.rest)
<1> DEFINE k == Body + Len(Text)
           G == Len(task.gap)
           R == Len(task.rest)
<1>1. /\ G \in Nat /\ R \in Nat /\ Len(Text) \in Nat /\ Body \in Nat
      /\ Len(task.lead) \in Nat /\ Bytewide \in Nat /\ ValueAt \in Nat
      /\ task \in Strings \union Members
  BY MemberParts, TextParts DEF Bytewide
<1>2. /\ \A j \in 1..G : Byte(k + j) = "ws"
      /\ Byte(k + G + 1) = "colon"
      /\ \A j \in 1..G : Byte(k + G + 1 + j) = "ws"
      /\ End = ValueAt + Bytewide + R
  BY MemberLayout, Zenon DEF Bytewide
<1>3. k \in Nat \ {0}
  <2> DEFINE L == Len(task.lead)
             T == Len(Text)
  <2>1. L \in Nat /\ T \in Nat /\ k = (L + 2) + T
    BY <1>1 DEF Body
  <2> HIDE DEF L, T, k
  <2> QED
    BY <2>1
<1>4. ValueAt = k + 2 * G + 2 /\ Colon = ValueAt - G
  BY DEF ValueAt, Colon
<1>5. After = k + 1
  <2>1. Shut
    BY MemberParts DEF Shut
  <2> QED
    BY <2>1 DEF After, Length
<1> HIDE DEF k, G, R
<1>6. Colon = k + G + 2 /\ Colon + G = ValueAt /\ Colon \in Nat \ {0}
      /\ After \in Nat \ {0} /\ End \in Nat
  BY <1>1, <1>2, <1>3, <1>4, <1>5
<1>7. Ws(After) = After + G
  <2>1. \A j \in 0..(G - 1) : Byte(After + j) = "ws"
    <3> SUFFICES ASSUME NEW j \in 0..(G - 1) PROVE Byte(After + j) = "ws"
      OBVIOUS
    <3>1. j + 1 \in 1..G /\ k + (j + 1) = After + j
      BY <1>1, <1>3, <1>5
    <3> QED
      BY <1>2, <3>1
  <2>2. After + G = k + G + 1
    BY <1>1, <1>3, <1>5
  <2>3. Byte(After + G) # "ws"
    BY <1>2, <2>2
  <2>4. After + G <= End
    BY <1>1, <1>2, <1>3, <1>4, <1>5
  <2> QED
    BY <1>1, <1>6, <2>1, <2>3, <2>4, PastBlanks
<1>8. WsSkip(Colon) = Colon + G
  <2>1. \A j \in 0..(G - 1) : Byte(Colon + j) = "ws"
    <3> SUFFICES ASSUME NEW j \in 0..(G - 1) PROVE Byte(Colon + j) = "ws"
      OBVIOUS
    <3>1. j + 1 \in 1..G /\ k + G + 1 + (j + 1) = Colon + j
      BY <1>1, <1>3, <1>6
    <3> QED
      BY <1>2, <3>1
  <2>2. Byte(Colon + G) # "ws"
    BY <1>6, ValueKinds
  <2>3. Colon + G <= End
    BY <1>1, <1>2, <1>6
  <2> QED
    BY <1>1, <1>6, <2>1, <2>2, <2>3, PastBlanks
<1>9. Ws(After) + 1 = Colon
  BY <1>1, <1>3, <1>5, <1>6, <1>7
<1> QED
  BY <1>1, <1>2, <1>6, <1>8, <1>9 DEF G, R

\* The key matches the fields of its name.
LEMMA MatchesFields ==
  ASSUME task \in Members, start = Body, len = Length
  PROVE  Matches = Fields
<1>1. task \in Strings \union Members /\ Fronted(Input)
      /\ Text \in Seq(Bytes) /\ Length \in Nat
  BY TextParts, TextEnd DEF Length
<1>2. \A j \in 1..Length : Byte(Body + j - 1) = Text[j]
  BY <1>1, FrontRead DEF Length
<1>3. Text = [j \in 1..Length |-> Text[j]]
  BY <1>1, SeqDef DEF Length
<1>4. Text = [j \in 1..len |-> Byte(start + j - 1)]
  BY <1>2, <1>3
<1> QED
  BY <1>1, <1>4, MatchesExact DEF Fields

\* No two fields have the same name, so that there is at most one.
LEMMA OneField ==
  ASSUME task \in Members, Fields # {}
  PROVE  Min(Fields) \in Nat /\ Fields = {Min(Fields)}
<1>1. /\ task.fields \in Seq(Seq(STRING))
      /\ \A f, g \in DOMAIN task.fields :
           task.fields[f] = task.fields[g] => f = g
  BY TaskAssumption
<1>2. Fields \subseteq DOMAIN task.fields /\ DOMAIN task.fields \subseteq Nat
  BY <1>1 DEF Fields
<1>3. Min(Fields) \in Fields
  BY <1>2, MinIs
<1>4. \A f \in Fields : f = Min(Fields)
  BY <1>1, <1>3 DEF Fields
<1> QED
  BY <1>2, <1>3, <1>4

\* Members are read so.
LEMMA MemberReads ==
  ASSUME task \in Members, MemberRead, [Next]_vars
  PROVE  task' = task /\ MemberRead'
<1>1. task \in Strings \union Members /\ task.op = "member"
  BY MemberParts
<1>2. CASE UNCHANGED vars
  <2>1. task' = task /\ pc' = pc /\ cur' = cur /\ start' = start /\ len' = len
        /\ esc' = esc /\ i' = i /\ val' = val /\ buf' = buf
    BY <1>2 DEF vars
  <2>2. Searching'
    <3>1. Searching
      BY DEF MemberRead
    <3>2. /\ Body' = Body /\ \A c : Safe(c)' = Safe(c)
      BY <2>1 DEF Body, Safe, Length, Text, Count, Size, Unit, Off
    <3> QED
      BY <2>1, <3>1, <3>2 DEF Searching
  <2>3. \A n : /\ StringAt(n)' = StringAt(n) /\ NestAt(n)' = NestAt(n)
               /\ AtomAt(n)' = AtomAt(n)
    BY <2>1, MemberStays DEF StringAt, NestAt, AtomAt
  <2> QED
    BY <2>1, <2>2, <2>3, MemberStays DEF MemberRead
<1>3. CASE OpenQuote
  <2>1. task' = task /\ Searching' /\ pc' = "strscan"
        /\ esc' = esc /\ val' = val /\ i' = i /\ buf' = buf /\ pc = "begin"
    BY <1>1, <1>3, SearchOpens DEF OpenQuote, MemberRead
  <2> QED
    BY <2>1 DEF MemberRead
<1>4. CASE SkipEscape
  <2>1. task' = task /\ Searching' /\ pc' = "strscan" /\ pc = "strscan"
        /\ esc' = TRUE /\ val' = val /\ i' = i /\ buf' = buf
    BY <1>1, <1>4, SearchGoesOn DEF SkipEscape, MemberRead
  <2> QED
    BY <2>1 DEF MemberRead
<1>5. CASE CloseQuote
  <2>1. task' = task /\ Found' /\ pc = "strscan" /\ pc' = "colon"
        /\ esc' = esc /\ val' = val /\ i' = i /\ buf' = buf
    BY <1>1, <1>5, SearchEnds DEF CloseQuote, AfterSpan, MemberRead
  <2> QED
    BY <2>1 DEF MemberRead, Searching, Found
<1>6. CASE PastColon
  <2>1. task' = task /\ pc = "colon" /\ pc' = "dispatch" /\ cur' = Ws(cur) + 1
        /\ start' = start /\ len' = len /\ esc' = esc /\ val' = val /\ i' = i
        /\ buf' = buf
    BY <1>6 DEF PastColon
  <2>2. cur = After /\ start = Body /\ len = Length
    BY <2>1 DEF MemberRead
  <2>3. cur' = Colon
    BY <2>1, <2>2, Places
  <2> QED
    BY <2>1, <2>2, <2>3, MemberStays DEF MemberRead, Searching
<1>7. CASE EnterField
  <2>1. task' = task /\ pc = "dispatch" /\ pc' = "done" /\ cur' = cur
        /\ start' = start /\ len' = len /\ esc' = esc /\ i' = i
        /\ buf' = buf /\ Matches # {} /\ val' = Min(Matches)
    BY <1>7 DEF EnterField
  <2>2. start = Body /\ len = Length /\ cur = Colon
    BY <2>1 DEF MemberRead
  <2>3. Matches = Fields
    BY <2>2, MatchesFields
  <2>4. val' \in Nat /\ Fields = {val'}
    BY <2>1, <2>3, OneField
  <2> QED
    BY <2>1, <2>2, <2>4, MemberStays DEF MemberRead, Searching
<1>8. CASE NoField
  <2>1. task' = task /\ pc = "dispatch"
        /\ start' = start /\ len' = len /\ esc' = esc /\ val' = val /\ i' = i
        /\ buf' = buf /\ Matches = {}
        /\ LET c == WsSkip(cur) IN
             /\ cur' = IF Byte(c) = "quote" THEN c + 1 ELSE c
             /\ pc' = CASE Byte(c) = "quote" -> "skipString"
                        [] Byte(c) \in {"{", "["} -> "skipNest"
                        [] OTHER -> "skipAtom"
    BY <1>8 DEF NoField
  <2>2. start = Body /\ len = Length /\ cur = Colon /\ i = 0 /\ val = 0
    BY <2>1 DEF MemberRead
  <2>3. Fields = {}
    BY <2>1, <2>2, MatchesFields
  <2>4. WsSkip(cur) = ValueAt /\ ValueAt \in Nat
    BY <2>2, Places
  <2>5. /\ Parts \in Nat \ {0} /\ At(0) = 0 /\ 1 \in 1..Parts /\ 0 \in 0..Parts
        /\ 0 \in 0..(Parts - 1)
        /\ At(1) = At(0) + Width(1)
    <3>1. Parts \in Nat \ {0} /\ At(0) = 0
      BY PartPlaces
    <3>2. 1 \in 1..Parts /\ 0 \in 0..Parts /\ 0 \in 0..(Parts - 1)
      BY <3>1
    <3>3. At(1) = At(1 - 1) + Width(1)
      BY <3>2, PartPlaces
    <3>4. 1 - 1 = 0
      OBVIOUS
    <3> QED
      BY <3>1, <3>2, <3>3, <3>4
  <2>6. /\ OfQuotes \/ OfBrackets \/ OfAtom
        /\ Width(1) = 1 /\ ~Within(0) /\ Deep(0) = 0 /\ (Within(0 + 1) <=>
             IF Part(0 + 1) = <<"quote">> THEN ~Within(0) ELSE Within(0))
    BY ValueKinds, WithinNext, DeepNext
  <2>7. CASE Byte(ValueAt) = "quote"
    <3>1. pc' = "skipString" /\ cur' = ValueAt + 1 /\ OfQuotes
      BY <2>1, <2>4, <2>6, <2>7 DEF OfBrackets, OfAtom
    <3>2. Within(1)
      <4>1. 1 \in 1..Parts /\ ValueAt + At(0) = ValueAt
        BY <2>4, <2>5
      <4>2. Byte(ValueAt) = Part(1)[1] /\ (OneByte(1) \/ Escaped(1))
        <5>1. 0 + 1 = 1 /\ 0 \in 0..(Parts - 1) /\ 1 - 1 = 0
          BY <2>5
        <5>2. /\ OneByte(1) \/ Escaped(1)
              /\ \A j \in 1..Width(1) :
                   Byte(ValueAt + At(1 - 1) + j - 1) = Part(1)[j]
          BY <4>1, PartPlaces
        <5>3. Byte(ValueAt + At(0) + 1 - 1) = Part(1)[1]
          BY <2>6, <5>1, <5>2
        <5>4. ValueAt + At(0) + 1 - 1 = ValueAt
          BY <2>4, <2>5
        <5> QED
          BY <5>2, <5>3, <5>4
      <4>3. Part(1) = <<"quote">>
        BY <2>7, <4>2, PartIs
      <4> QED
        BY <2>6, <4>3
    <3>3. 1 \in 1..(Parts - 1)
      <4>1. 1 < Parts
        BY <2>5, <3>1, <3>2 DEF OfQuotes
      <4> QED
        BY <2>5, <4>1
    <3>4. cur' = ValueAt + At(1)
      BY <2>4, <2>5, <2>6, <3>1
    <3>5. \E n : StringAt(n)'
      <4>1. StringAt(1)'
        BY <2>1, <3>3, <3>4, MemberStays DEF StringAt
      <4> QED
        BY <4>1
    <3> QED
      BY <2>1, <2>2, <2>3, <3>1, <3>5, MemberStays DEF MemberRead, Searching
  <2>8. CASE Byte(ValueAt) \in {"{", "["}
    <3>1. pc' = "skipNest" /\ cur' = ValueAt /\ OfBrackets
      BY <2>1, <2>4, <2>6, <2>8 DEF OfQuotes, OfAtom
    <3>2. \E n : NestAt(n)'
      <4>1. cur' = ValueAt + At(0)
        BY <2>4, <2>5, <3>1
      <4>2. val' = (IF Within(0) THEN 1 ELSE 0) /\ i' = Deep(0) /\ i' \in Nat
        BY <2>1, <2>2, <2>6
      <4>3. NestAt(0)'
        BY <2>1, <2>5, <4>1, <4>2, MemberStays DEF NestAt
      <4> QED
        BY <4>3
    <3> QED
      BY <2>1, <2>2, <2>3, <3>1, <3>2, MemberStays DEF MemberRead, Searching
  <2>9. CASE Byte(ValueAt) \notin {"quote", "{", "["}
    <3>1. pc' = "skipAtom" /\ cur' = ValueAt /\ OfAtom
      BY <2>1, <2>4, <2>6, <2>9 DEF OfQuotes, OfBrackets
    <3>2. \E n : AtomAt(n)'
      <4>1. cur' = ValueAt + At(0)
        BY <2>4, <2>5, <3>1
      <4>2. AtomAt(0)'
        BY <2>1, <2>5, <4>1, MemberStays DEF AtomAt
      <4> QED
        BY <4>2
    <3> QED
      BY <2>1, <2>2, <2>3, <3>1, <3>2, MemberStays DEF MemberRead, Searching
  <2> QED
    BY <2>7, <2>8, <2>9
<1>9. CASE SkipString
  <2>1. task' = task /\ pc = "skipString" /\ start' = start /\ len' = len
        /\ esc' = esc /\ val' = val /\ i' = i /\ buf' = buf
    BY <1>9 DEF SkipString
  <2>2. start = Body /\ len = Length /\ Fields = {} /\ OfQuotes
    BY <2>1 DEF MemberRead
  <2>3. PICK n : StringAt(n)
    BY <2>1 DEF MemberRead
  <2>4. \/ /\ pc' = "skipString"
           /\ n + 1 \in 1..(Parts - 1) /\ cur' = ValueAt + At(n + 1)
        \/ pc' = "done" /\ cur' = ValueAt + Bytewide
    BY <1>9, <2>2, <2>3, StringSkipped
  <2>5. pc' = "skipString" => \E m : StringAt(m)'
    <3>1. pc' = "skipString" => StringAt(n + 1)'
      BY <2>1, <2>4, MemberStays DEF StringAt
    <3> QED
      BY <3>1
  <2> QED
    BY <2>1, <2>2, <2>4, <2>5, MemberStays DEF MemberRead, Searching
<1>10. CASE SkipNest
  <2>1. task' = task /\ pc = "skipNest" /\ start' = start /\ len' = len
        /\ esc' = esc /\ buf' = buf
    BY <1>10 DEF SkipNest
  <2>2. start = Body /\ len = Length /\ Fields = {} /\ OfBrackets
    BY <2>1 DEF MemberRead
  <2>3. PICK n : NestAt(n)
    BY <2>1 DEF MemberRead
  <2>4. /\ \/ pc' = "skipNest" /\ n + 1 \in 0..(Parts - 1) /\ i' # 0
           \/ pc' = "done" /\ n + 1 = Parts
        /\ cur' = ValueAt + At(n + 1)
        /\ val' = (IF Within(n + 1) THEN 1 ELSE 0)
        /\ i' = Deep(n + 1) /\ i' \in Nat
    BY <1>10, <2>2, <2>3, BracketsSkipped
  <2>5. pc' = "skipNest" => \E m : NestAt(m)'
    <3>1. pc' = "skipNest" => NestAt(n + 1)'
      BY <2>1, <2>4, MemberStays DEF NestAt
    <3> QED
      BY <3>1
  <2>6. pc' = "done" => cur' = ValueAt + Bytewide
    <3>1. At(Parts) = Bytewide
      BY PartPlaces
    <3> QED
      BY <2>4, <3>1
  <2>7. val' \in Nat
    BY <2>4
  <2> QED
    BY <2>1, <2>2, <2>4, <2>5, <2>6, <2>7, MemberStays DEF MemberRead, Searching
<1>11. CASE SkipAtom
  <2>1. task' = task /\ pc = "skipAtom" /\ start' = start /\ len' = len
        /\ esc' = esc /\ val' = val /\ i' = i /\ buf' = buf
    BY <1>11 DEF SkipAtom
  <2>2. start = Body /\ len = Length /\ Fields = {} /\ OfAtom
    BY <2>1 DEF MemberRead
  <2>3. PICK n : AtomAt(n)
    BY <2>1 DEF MemberRead
  <2>4. \/ /\ pc' = "skipAtom"
           /\ n + 1 \in 0..Parts /\ cur' = ValueAt + At(n + 1)
        \/ pc' = "done" /\ cur' = ValueAt + Bytewide
    BY <1>11, <2>2, <2>3, AtomSkipped
  <2>5. pc' = "skipAtom" => \E m : AtomAt(m)'
    <3>1. pc' = "skipAtom" => AtomAt(n + 1)'
      BY <2>1, <2>4, MemberStays DEF AtomAt
    <3> QED
      BY <3>1
  <2> QED
    BY <2>1, <2>2, <2>4, <2>5, MemberStays DEF MemberRead, Searching
<1> QED
  BY <1>1, <1>2, <1>3, <1>4, <1>5, <1>6, <1>7, <1>8, <1>9, <1>10, <1>11
     DEF Next, Scan, AllDone, MemberRead, Sign, NextDigit, EndDigits, Build,
         CopyWord, CopyTail, CopySmall, PushByte, PushEscape, PushCode,
         EndUnescape

\* What has been found is what was meant.
LEMMA MembersMeant ==
  ASSUME task \in Members, MemberRead
  PROVE  MembersFound
<1> DEFINE G == Len(task.gap)
           R == Len(task.rest)
<1> SUFFICES ASSUME pc = "done"
             PROVE  IF Fields = {} THEN cur = End - R
                    ELSE /\ Fields = {val}
                         /\ cur \in (End - (R + Bytewide) - G)
                                     ..(End - (R + Bytewide))
  BY DEF MembersFound, Fields, Text, Bytewide, ValueBytes
<1>1. /\ Colon \in Nat \ {0} /\ ValueAt \in Nat
      /\ G \in Nat /\ R \in Nat /\ Bytewide \in Nat
      /\ Colon + G = ValueAt /\ End = ValueAt + Bytewide + R
  BY Places
<1>2. \/ Fields = {val} /\ cur = Colon
      \/ Fields = {} /\ cur = ValueAt + Bytewide
  BY DEF MemberRead
<1> HIDE DEF G, R
<1>3. CASE Fields = {val} /\ cur = Colon
  <2>1. Fields # {}
    BY <1>3
  <2>2. cur \in (End - (R + Bytewide) - G)..(End - (R + Bytewide))
    BY <1>1, <1>3
  <2> QED
    BY <1>3, <2>1, <2>2
<1>4. CASE Fields = {} /\ cur = ValueAt + Bytewide
  <2>1. cur = End - R
    BY <1>1, <1>4
  <2> QED
    BY <1>4, <2>1
<1> QED
  BY <1>2, <1>3, <1>4

\* Types, while a member is read.
LEMMA MemberTypes ==
  ASSUME task \in Members, MemberRead
  PROVE  TypeOK
<1> DEFINE G == Len(task.gap)
           R == Len(task.rest)
<1>1. task \in Strings \union Members
  OBVIOUS
<1>2. /\ End \in Nat /\ 1 \in 1..End /\ Body \in 0..End /\ Length \in 0..End
      /\ \A c \in 0..Length : Body + c \in 1..End
      /\ After \in 1..End
  BY <1>1, TextInDoc
<1>3. /\ Colon \in Nat \ {0} /\ ValueAt \in Nat
      /\ G \in Nat /\ R \in Nat /\ Bytewide \in Nat
      /\ Colon + G = ValueAt /\ End = ValueAt + Bytewide + R
  BY Places
<1> HIDE DEF G, R
<1>4. Colon \in 1..End /\ \A x \in 0..Bytewide : ValueAt + x \in 1..End
  BY <1>2, <1>3
<1>5. \A n \in 0..Parts : At(n) \in 0..Bytewide
  <2> SUFFICES ASSUME NEW n \in 0..Parts PROVE At(n) \in 0..Bytewide
    OBVIOUS
  <2>1. At(n) \in Nat /\ At(n) <= Bytewide
    BY PartPlaces
  <2> QED
    BY <1>3, <2>1
<1>6. \A n \in 0..Parts : ValueAt + At(n) \in 1..End
  BY <1>4, <1>5
<1>7. cur \in 1..End
  <2>1. CASE pc \in {"begin", "strscan"}
    BY <1>2, <2>1 DEF MemberRead, Searching, Safe
  <2>2. CASE pc \in {"colon", "dispatch"}
    BY <1>2, <1>4, <2>2 DEF MemberRead
  <2>3. CASE pc \in {"skipString", "skipNest", "skipAtom"}
    <3>1. \E n : StringAt(n) \/ NestAt(n) \/ AtomAt(n)
      BY <2>3 DEF MemberRead
    <3>2. PICK n : StringAt(n) \/ NestAt(n) \/ AtomAt(n)
      BY <3>1
    <3>3. n \in 0..Parts /\ cur = ValueAt + At(n)
      <4>1. Parts \in Nat
        BY PartPlaces
      <4>2. n \in 1..(Parts - 1) \/ n \in 0..(Parts - 1) \/ n \in 0..Parts
        BY <3>2 DEF StringAt, NestAt, AtomAt
      <4>3. cur = ValueAt + At(n)
        BY <3>2 DEF StringAt, NestAt, AtomAt
      <4> QED
        BY <4>1, <4>2, <4>3
    <3> QED
      BY <1>6, <3>3
  <2>4. CASE pc = "done"
    <3>1. cur = Colon \/ cur = ValueAt + Bytewide
      BY <2>4 DEF MemberRead
    <3>2. Bytewide \in 0..Bytewide
      BY <1>3
    <3> QED
      BY <1>4, <3>1, <3>2
  <2> QED
    BY <2>1, <2>2, <2>3, <2>4 DEF MemberRead
<1>8. start \in 0..End /\ len \in 0..End
  <2>1. CASE pc \in {"begin", "strscan"}
    BY <1>2, <2>1 DEF MemberRead, Searching
  <2>2. CASE pc \notin {"begin", "strscan"}
    BY <1>2, <2>2 DEF MemberRead
  <2> QED
    BY <2>1, <2>2
<1> QED
  BY <1>7, <1>8 DEF TypeOK, MemberRead

-----------------------------------------------------------------------------
(* Theorems.                                                               *)

\* Each kind of task is read its way, and none of it changes meanwhile.
ScanInv ==
  \/ task \in Strings /\ StringRead
  \/ task \in Ints /\ IntRead
  \/ task \in Members /\ MemberRead

\* So reading begins.
LEMMA ScanInit ==
  ASSUME Init
  PROVE  ScanInv
<1>1. /\ task \in Strings \/ task \in Ints \/ task \in Members
      /\ pc = "begin" /\ cur = 1 /\ start = 0 /\ len = 0 /\ esc = FALSE
      /\ i = 0 /\ val = 0 /\ buf = [j \in {} |-> "beyond"]
  BY DEF Init
<1>2. Searching
  BY <1>1 DEF Searching
<1>3. buf = Filled(0) /\ DOMAIN buf = {}
  BY <1>1 DEF Filled
<1>4. StringRead
  BY <1>1, <1>2, <1>3 DEF StringRead
<1>5. IntRead
  BY <1>1, <1>3 DEF IntRead
<1>6. MemberRead
  BY <1>1, <1>2, <1>3 DEF MemberRead
<1> QED
  BY <1>1, <1>4, <1>5, <1>6 DEF ScanInv

\* The invariant holds: what has been read of a task, in every block of code,
\* is what the document has before the cursor (strspan, rt_strscan, build_str,
\* rt_unescape, intval, parse_struct, rt_skip).
THEOREM ScanInvariance == Spec => []ScanInv
<1>1. Init => ScanInv
  BY ScanInit
<1>2. ScanInv /\ [Next]_vars => ScanInv'
  <2> SUFFICES ASSUME ScanInv, [Next]_vars
               PROVE  ScanInv'
    OBVIOUS
  <2>1. CASE task \in Strings /\ StringRead
    <3>1. task' = task /\ StringRead'
      BY <2>1, StringReads
    <3> QED
      BY <2>1, <3>1 DEF ScanInv
  <2>2. CASE task \in Ints /\ IntRead
    <3>1. task' = task /\ IntRead'
      BY <2>2, IntReads
    <3> QED
      BY <2>2, <3>1 DEF ScanInv
  <2>3. CASE task \in Members /\ MemberRead
    <3>1. task' = task /\ MemberRead'
      BY <2>3, MemberReads
    <3> QED
      BY <2>3, <3>1 DEF ScanInv
  <2> QED
    BY <2>1, <2>2, <2>3 DEF ScanInv
<1> QED
  BY <1>1, <1>2, PTL DEF Spec

\* The kinds are told apart.
LEMMA Kinds ==
  /\ task \in Strings => task.op = "string"
  /\ task \in Ints => task.op = "int"
  /\ task \in Members => task.op = "member"
BY TaskAssumption

\* A String has the characters that were meant, each in its place, for every
\* text of units: a copy by words of any length has no gap, a code takes the
\* one behind it just when the two are a pair, a backslash that the document
\* ends with counts for nothing; and the cursor is behind the closing quote
\* (build_str, rt_unescape).
THEOREM StringsBuilt == Spec => []StringsExact
<1>1. ScanInv => StringsExact
  BY Kinds, StringsMeant DEF ScanInv, StringsExact
<1> QED
  BY <1>1, ScanInvariance, PTL

\* An integer that its type can hold is stored exactly, for every width up to
\* that of the accumulator and any number of digits, although it wraps
\* (intval, store_sized).
THEOREM IntegersStored == Spec => []IntegersExact
<1>1. ScanInv => IntegersExact
  BY Kinds, IntsExact DEF ScanInv, IntegersExact
<1> QED
  BY <1>1, ScanInvariance, PTL

\* A member goes to the field of its name and to no other, and the value of
\* one without a field is skipped to its last byte, however deep its brackets
\* are and whatever its strings have (parse_struct, rt_skip).
THEOREM MembersRouted == Spec => []MembersFound
<1>1. ScanInv => MembersFound
  BY Kinds, MembersMeant DEF ScanInv, MembersFound
<1> QED
  BY <1>1, ScanInvariance, PTL

\* The variables have their types, and the cursor stays in the document.
THEOREM CursorsKept == Spec => []TypeOK
<1>1. ScanInv => TypeOK
  BY StringTypes, IntTypes, MemberTypes DEF ScanInv
<1> QED
  BY <1>1, ScanInvariance, PTL
=============================================================================
