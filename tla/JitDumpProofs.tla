---------------------------- MODULE JitDumpProofs ----------------------------
(***************************************************************************)
(* The dump of JitCompile, for any number of threads, any types, and any   *)
(* failed writes: when a parser is handed out, every function that it can  *)
(* run has its record in the dump.  The invariant stands on IInv, which    *)
(* JitCompileProofs proves.                                                *)
(***************************************************************************)
EXTENDS JitCompileProofs, FiniteSetTheorems

-----------------------------------------------------------------------------
(* The invariant.                                                          *)

\* Function f of thread t has its record in the dump.
Recorded(t, f) == \E i \in DOMAIN file : file[i].rec.fn = <<t, f>>

Announcing(t) == pc[t] \in {"announce", "write"}

\* The functions recorded by t's compilations, the one under way left out.
Named(t) == {f \in Nat : Recorded(t, f) /\ (Announcing(t) => f <= base[t])}

\* While t compiles, the functions that it makes call each other only.
Apart(t) ==
  pc[t] \in {"define", "finalize", "announce", "write"} =>
    \A f \in DOMAIN module[t] : f > base[t] =>
      \A g \in module[t][f].callees : g > base[t]

\* What t has to announce was made by the compilation under way, and is
\* announced once; nothing of it is before it is all final.
Queue(t) ==
  /\ ~Announcing(t) => unannounced[t] = <<>>
  /\ \A i \in DOMAIN unannounced[t] :
       /\ unannounced[t][i] > base[t]
       /\ ~Recorded(t, unannounced[t][i])
       /\ \A j \in DOMAIN unannounced[t] :
            unannounced[t][i] = unannounced[t][j] => i = j
  /\ pc[t] = "write" =>
       /\ dump = "open"
       /\ record[t].fn = <<t, Head(unannounced[t])>>
  /\ pc[t] \in {"define", "finalize"} =>
       \A f \in Nat : Recorded(t, f) => f <= base[t]

\* With a function, those that it calls are named; and of the compilation
\* under way, each function is recorded or waits to be.
Covered(t) ==
  dump # "none" =>
    /\ \A f \in Named(t) : module[t][f].callees \subseteq Named(t)
    /\ Announcing(t) =>
         \A f \in DOMAIN module[t] :
           f > base[t] => Recorded(t, f) \/ f \in ToSet(unannounced[t])

\* The records are of functions that exist, one for one; the functions of the
\* parsers handed out are named; every record that is not whole was a fault.
Torn == {i \in DOMAIN file : ~file[i].whole}

Listed ==
  /\ \A i \in DOMAIN file :
       \E t \in Threads : \E f \in DOMAIN module[t] : file[i].rec.fn = <<t, f>>
  /\ \A i, j \in DOMAIN file : file[i].rec.fn = file[j].rec.fn => i = j
  /\ dump # "open" => file = <<>>
  /\ dump # "none" =>
       \A k \in Keys : ext[k] = "done" => parser[k][2] \in Named(parser[k][1])
  /\ IsFiniteSet(Torn) /\ Cardinality(Torn) <= faults

DumpIInv ==
  /\ \A t \in Threads : Apart(t) /\ Queue(t) /\ Covered(t)
  /\ Listed

-----------------------------------------------------------------------------
(* The functions of a module do not move.                                  *)

\* What Declare does to the module.
LEMMA Declares ==
  ASSUME NEW t \in Threads, Typed, ThreadInv(t), Declare(t)
  PROVE  ExtendedOK(module[t], pending[t], CellsOf(key[t]), module'[t])
<1>1. module'[t] = Extended(module[t], CellsOf(key[t]))
  BY DEF Declare, Extended, Typed
<1>2. CellsOf(key[t]) \in Seq(Bodies)
  <2>1. CellsOf(key[t]) \in Seq(Cells)
    BY CellsAssumption DEF Typed
  <2>2. Cells \subseteq Bodies
    BY DEF Bodies
  <2> QED
    BY <2>1, <2>2
<1>3. Inside(module[t], pending[t]) /\ Linked(module[t], pending[t])
  BY InsidePlaced DEF ThreadInv
<1> QED
  BY <1>1, <1>2, <1>3, LinkedDeclared

\* A function that was made keeps its number and its callees, but for the
\* cell's function that is being defined.
LEMMA CalleesStay ==
  ASSUME NEW t \in Threads, Typed, ThreadInv(t), Acts(t),
         NEW f \in DOMAIN module[t]
  PROVE  /\ f \in DOMAIN module'[t]
         /\ \/ module'[t][f].callees = module[t][f].callees
            \/ DefineNode(t) /\ f = base[t] + done[t] + 1
<1> DEFINE m == module[t]
<1>1. Inside(m, pending[t]) /\ Linked(m, pending[t])
  BY InsidePlaced DEF ThreadInv
<1>2. m \in Seq(Functions) /\ DOMAIN m = 1..Len(m) /\ Len(m) \in Nat
  BY <1>1, LenProperties DEF Inside
<1>3. CASE Rests(t) \/ DefineNodePanics(t) \/ FinalizePanics(t)
  <2>1. module'[t] = module[t]
    BY <1>3 DEF Rests, Call, RunParser, ExtBegin, ThreadEnds, Compiled, DumpOpens,
          NoDump, DumpLock, DumpWrite, DefineNodePanics, FinalizePanics, moduleVars
  <2> QED
    BY <2>1
<1>4. CASE Declare(t)
  <2>1. ExtendedOK(m, pending[t], CellsOf(key[t]), module'[t])
    BY <1>4, Declares
  <2> QED
    BY <2>1 DEF ExtendedOK
<1>5. CASE DefineNode(t)
  <2> DEFINE n == base[t] + done[t] + 1
             F == Function(Cell(t), CalleesOf(t, Cell(t)), "defined")
  <2>1. module'[t] = [m EXCEPT ![n] = F]
    BY <1>5, Domains DEF DefineNode
  <2> HIDE DEF n, F
  <2>2. f \in DOMAIN module'[t] /\ (f # n => module'[t][f] = m[f])
    BY <2>1
  <2> QED
    BY <1>5, <2>2 DEF n
<1>6. CASE DefineTop(t) \/ DefineTopPanics(t)
  <2>1. PICK F : module'[t] = Append(m, F)
    BY <1>6, Domains DEF DefineTop, DefineTopPanics
  <2>2. f \in DOMAIN Append(m, F) /\ Append(m, F)[f] = m[f]
    BY <1>2, SeqDef
  <2> QED
    BY <2>1, <2>2
<1>7. CASE Finalize(t)
  <2>1. module'[t] = Final(m, pending[t])
    BY <1>7, Domains DEF Finalize, Finalized, Final
  <2>2. m[f] \in Functions
    BY <1>2, ElementOfSeq
  <2>3. Final(m, pending[t])[f].callees = m[f].callees
        /\ f \in DOMAIN Final(m, pending[t])
    BY <2>2 DEF Functions, Final
  <2> QED
    BY <2>1, <2>3
<1> QED
  BY <1>3, <1>4, <1>5, <1>6, <1>7 DEF Acts, Step, Rests

-----------------------------------------------------------------------------
(* Steps that write no record.                                             *)

Quiet(t) == Acts(t) /\ ~DumpWrite(t)

\* The dump of such a step: the records stay, and a file that there is stays.
LEMMA QuietDump ==
  ASSUME NEW t \in Threads, Quiet(t)
  PROVE  /\ file' = file /\ faults' = faults
         /\ dump' = dump \/ (dump = "closed" /\ dump' \in {"open", "none"})
         /\ \A f, u : Recorded(u, f)' <=> Recorded(u, f)
<1>1. file' = file /\ faults' = faults
      /\ (dump' = dump \/ (dump = "closed" /\ dump' \in {"open", "none"}))
  BY DEF Quiet, Acts, Step, Call, RunParser, ExtBegin, ThreadEnds, Declare,
     DefineNode, DefineNodePanics, DefineTop, DefineTopPanics, Finalize,
     FinalizePanics, Panics, Compiled, DumpOpens, NoDump, DumpLock, dumpVars
<1> QED
  BY <1>1 DEF Recorded

\* A record names a function of a module.
LEMMA RecordedMade ==
  ASSUME Typed, Listed, NEW t \in Threads, NEW f, Recorded(t, f)
  PROVE  f \in DOMAIN module[t] /\ f \in Nat
<1>1. PICK i \in DOMAIN file : file[i].rec.fn = <<t, f>>
  BY DEF Recorded
<1>2. PICK u \in Threads : \E g \in DOMAIN module[u] : file[i].rec.fn = <<u, g>>
  BY DEF Listed
<1>3. PICK g \in DOMAIN module[u] : file[i].rec.fn = <<u, g>>
  BY <1>2
<1>4. u = t /\ g = f
  BY <1>1, <1>3
<1>5. DOMAIN module[t] \subseteq Nat
  <2>1. module[t] \in Seq(Functions)
    BY DEF Typed
  <2>2. DOMAIN module[t] = 1..Len(module[t])
    BY <2>1, LenProperties
  <2> QED
    BY <2>2
<1> QED
  BY <1>3, <1>4, <1>5

DumpThread(t) == Apart(t) /\ Queue(t) /\ Covered(t)

\* A thread that is where it was, while others do such a step.
LEMMA DumpUnmoved ==
  ASSUME NEW t \in Threads, DumpThread(t), ThreadVars(t)' = ThreadVars(t),
         \A f : Recorded(t, f)' <=> Recorded(t, f),
         dump' # "none" => dump # "none",
         pc[t] = "write" => dump' = "open" /\ record'[t] = record[t]
  PROVE  DumpThread(t)'
<1>1. /\ pc'[t] = pc[t] /\ module'[t] = module[t] /\ base'[t] = base[t]
      /\ unannounced'[t] = unannounced[t]
  BY DEF ThreadVars
<1>2. Announcing(t)' <=> Announcing(t)
  BY <1>1 DEF Announcing
<1>3. Named(t)' = Named(t)
  BY <1>1, <1>2 DEF Named
<1>4. Apart(t)'
  BY <1>1 DEF DumpThread, Apart
<1>5. Queue(t)'
  BY <1>1, <1>2 DEF DumpThread, Queue
<1>6. Covered(t)'
  BY <1>1, <1>2, <1>3 DEF DumpThread, Covered
<1> QED
  BY <1>4, <1>5, <1>6 DEF DumpThread

\* compile_parser: the functions of one compilation call each other.
LEMMA ApartKept ==
  ASSUME NEW t \in Threads, Typed, ThreadInv(t), Acts(t), Apart(t)
  PROVE  Apart(t)'
<1> DEFINE m == module[t]
<1>1. /\ m \in Seq(Functions) /\ DOMAIN m = 1..Len(m) /\ Len(m) \in Nat
      /\ base[t] \in Nat
  BY LenProperties DEF Typed
<1>2. CASE Declare(t)
  <2>1. base'[t] = Len(m)
    BY <1>2, Domains DEF Declare
  <2>2. ExtendedOK(m, pending[t], CellsOf(key[t]), module'[t])
    BY <1>2, Declares
  <2>3. DOMAIN module'[t] = 1..(Len(m) + Len(CellsOf(key[t])))
        /\ Len(CellsOf(key[t])) \in Nat
    <3>1. module'[t] \in Seq(Functions)
      BY <2>2 DEF ExtendedOK, Inside
    <3>2. CellsOf(key[t]) \in Seq(Cells)
      BY CellsAssumption DEF Typed
    <3> QED
      BY <2>2, <3>1, <3>2, LenProperties DEF ExtendedOK
  <2>4. ASSUME NEW f \in DOMAIN module'[t], f > Len(m)
        PROVE  module'[t][f].callees = {}
    <3>1. f - Len(m) \in 1..Len(CellsOf(key[t])) /\ Len(m) + (f - Len(m)) = f
      <4>1. f \in 1..(Len(m) + Len(CellsOf(key[t])))
        BY <2>3, <2>4
      <4>2. \A x, y \in Nat : \A z \in 1..(x + y) :
              z > x => z - x \in 1..y /\ x + (z - x) = z
        OBVIOUS
      <4> QED
        BY ONLY <1>1, <2>3, <2>4, <4>1, <4>2, Zenon
    <3>2. module'[t][f] = Declared(CellsOf(key[t])[f - Len(m)])
      BY <2>2, <3>1 DEF ExtendedOK
    <3> QED
      BY <3>2 DEF Declared, Function
  <2> QED
    BY <2>1, <2>4 DEF Apart
<1>3. CASE DefineNode(t)
  <2> DEFINE n == base[t] + done[t] + 1
             F == Function(Cell(t), CalleesOf(t, Cell(t)), "defined")
  <2>1. /\ module'[t] = [m EXCEPT ![n] = F] /\ base' = base
        /\ pc[t] = "define" /\ done[t] < Len(cells[t]) /\ Emits(t, Cell(t))
    BY <1>3, Domains DEF DefineNode
  <2>2. F.callees = CalleesOf(t, Cell(t))
    BY DEF Function
  <2>3. Cell(t) \in Bodies
    BY <2>1, LenProperties, ElementOfSeq DEF Cell, Bodies, Typed
  <2>4. \A g \in CalleesOf(t, Cell(t)) : g > base[t]
    BY <2>1, <2>3, Callees
  <2> HIDE DEF n, F
  <2>5. \A f \in DOMAIN module'[t] :
          f \in DOMAIN m /\ (module'[t][f] = m[f] \/ module'[t][f] = F)
    BY <2>1
  <2> QED
    BY <2>1, <2>2, <2>4, <2>5 DEF Apart
<1>4. CASE DefineTop(t)
  <2> DEFINE F == Function(key[t], CalleesOf(t, key[t]), "defined")
  <2>1. /\ module'[t] = Append(m, F) /\ base' = base
        /\ pc[t] = "define" /\ Emits(t, key[t])
    BY <1>4, Domains DEF DefineTop, Goto
  <2>2. F.callees = CalleesOf(t, key[t])
    BY DEF Function
  <2>3. key[t] \in Bodies
    BY DEF Bodies, Typed
  <2>4. \A g \in CalleesOf(t, key[t]) : g > base[t]
    BY <2>1, <2>3, Callees
  <2> HIDE DEF F
  <2>5. \A f \in DOMAIN Append(m, F) :
          (f \in DOMAIN m /\ Append(m, F)[f] = m[f]) \/ Append(m, F)[f] = F
    BY <1>1, SeqDef
  <2> QED
    BY <2>1, <2>2, <2>4, <2>5 DEF Apart
<1>5. CASE Finalize(t)
  <2>1. /\ DOMAIN module'[t] = DOMAIN m /\ base' = base /\ pc[t] = "finalize"
    BY <1>5, Domains DEF Finalize, Finalized, Goto
  <2>2. \A f \in DOMAIN m : module'[t][f].callees = m[f].callees
    BY <1>5, CalleesStay DEF Finalize, DefineNode, Goto
  <2> QED
    BY <2>1, <2>2 DEF Apart
<1>6. CASE NoDump(t) \/ DumpOpens(t) \/ DumpLock(t) \/ DumpWrite(t)
  <2>1. module' = module /\ base' = base /\ pc[t] \in {"announce", "write"}
    BY <1>6 DEF NoDump, DumpOpens, DumpLock, DumpWrite, Goto, moduleVars
  <2> QED
    BY <2>1 DEF Apart
<1>7. CASE \/ (\E k \in Keys : Call(t, k)) \/ RunParser(t) \/ ExtBegin(t)
           \/ ThreadEnds(t) \/ Compiled(t) \/ DefineNodePanics(t)
           \/ DefineTopPanics(t) \/ FinalizePanics(t)
  <2>1. pc'[t] \notin {"define", "finalize", "announce", "write"}
    BY <1>7, Domains DEF Call, RunParser, ExtBegin, ThreadEnds, Compiled,
       DefineNodePanics, DefineTopPanics, FinalizePanics, Panics, Goto
  <2> QED
    BY <2>1 DEF Apart
<1> QED
  BY <1>2, <1>3, <1>4, <1>5, <1>6, <1>7 DEF Acts, Step

\* What Finalize gives t to announce: the functions of its compilation, each
\* once.
LEMMA Announced ==
  ASSUME NEW t \in Threads, Typed, ThreadInv(t), Finalize(t)
  PROVE  /\ \A i \in DOMAIN unannounced'[t] :
              /\ unannounced'[t][i] > base[t]
              /\ \A j \in DOMAIN unannounced'[t] :
                   unannounced'[t][i] = unannounced'[t][j] => i = j
         /\ \A f \in DOMAIN module[t] :
              f > base[t] => f \in ToSet(unannounced'[t])
<1> DEFINE n == Len(cells[t])
           e == [i \in 1..n |-> base[t] + i]
           us == <<Top(t)>> \o e
<1>1. unannounced'[t] = us /\ pc[t] = "finalize"
  BY Domains DEF Finalize, Goto
<1>2. n \in Nat /\ base[t] \in Nat /\ Top(t) = base[t] + n + 1
  BY LenProperties DEF Typed, Top
<1>3. e \in Seq(Nat) /\ Len(e) = n /\ \A i \in 1..n : e[i] = base[t] + i
  <2>1. e \in [1..n -> Nat]
    BY <1>2
  <2>2. e \in Seq(Nat) /\ Len(e) = n
    BY ONLY <1>2, <2>1, FunctionIsSeq
  <2> QED
    BY <2>2
<1>4. <<Top(t)>> \in Seq(Nat) /\ Len(<<Top(t)>>) = 1 /\ <<Top(t)>>[1] = Top(t)
  BY <1>2
<1>5. DOMAIN module[t] = 1..Top(t)
  <2>1. Len(module[t]) = Top(t)
    BY <1>1 DEF ThreadInv, Compiling
  <2>2. module[t] \in Seq(Functions)
    BY DEF Typed
  <2> QED
    BY <2>1, <2>2, LenProperties
<1> HIDE DEF n, e
<1>6. /\ us \in Seq(Nat) /\ Len(us) = 1 + n
      /\ \A i \in 1..(1 + n) :
           us[i] = IF i <= 1 THEN <<Top(t)>>[i] ELSE e[i - 1]
  <2>1. /\ us \in Seq(Nat) /\ Len(us) = Len(<<Top(t)>>) + Len(e)
        /\ \A i \in 1..(Len(<<Top(t)>>) + Len(e)) :
             us[i] = IF i <= Len(<<Top(t)>>) THEN <<Top(t)>>[i]
                     ELSE e[i - Len(<<Top(t)>>)]
    BY ONLY <1>3, <1>4, ConcatProperties, Zenon
  <2> QED
    BY <1>3, <1>4, <2>1
<1> HIDE DEF us
<1>7. DOMAIN us = 1..(1 + n)
  BY <1>6, LenProperties
<1>8. \A i \in 1..(1 + n) :
        us[i] = IF i = 1 THEN base[t] + n + 1 ELSE base[t] + i - 1
  <2> SUFFICES ASSUME NEW i \in 1..(1 + n)
               PROVE  us[i] = IF i = 1 THEN base[t] + n + 1 ELSE base[t] + i - 1
    OBVIOUS
  <2>1. CASE i = 1
    BY <1>2, <1>4, <1>6, <2>1
  <2>2. CASE i # 1
    <3>1. i - 1 \in 1..n /\ ~(i <= 1) /\ base[t] + (i - 1) = base[t] + i - 1
      BY <1>2, <2>2
    <3>2. us[i] = e[i - 1]
      BY <1>6, <3>1
    <3>3. e[i - 1] = base[t] + (i - 1)
      BY <1>3, <3>1
    <3> QED
      BY <2>2, <3>1, <3>2, <3>3
  <2> QED
    BY <2>1, <2>2
<1>9. \A i \in DOMAIN us :
        us[i] > base[t] /\ \A j \in DOMAIN us : us[i] = us[j] => i = j
  <2> SUFFICES ASSUME NEW i \in 1..(1 + n), NEW j \in 1..(1 + n)
               PROVE  us[i] > base[t] /\ (us[i] = us[j] => i = j)
    BY <1>7
  <2>1. us[i] = IF i = 1 THEN base[t] + n + 1 ELSE base[t] + i - 1
    BY <1>8
  <2>2. us[j] = IF j = 1 THEN base[t] + n + 1 ELSE base[t] + j - 1
    BY <1>8
  <2> QED
    BY <1>2, <2>1, <2>2
<1>10. ASSUME NEW f \in DOMAIN module[t], f > base[t]
       PROVE  f \in ToSet(us)
  <2>1. f \in 1..(base[t] + n + 1)
    BY <1>2, <1>5
  <2>2. CASE f = base[t] + n + 1
    BY <1>2, <1>7, <1>8, <2>2 DEF ToSet
  <2>3. CASE f # base[t] + n + 1
    <3>1. f - base[t] + 1 \in 1..(1 + n) /\ f - base[t] + 1 # 1
          /\ base[t] + (f - base[t] + 1) - 1 = f
      BY <1>2, <1>10, <2>1, <2>3
    <3>2. us[f - base[t] + 1] = f
      BY <1>8, <3>1
    <3> QED
      BY <1>7, <3>1, <3>2 DEF ToSet
  <2> QED
    BY <2>2, <2>3
<1> QED
  BY <1>1, <1>9, <1>10

\* What is left to announce when the first has been.
LEMMA QueueTail ==
  ASSUME NEW t \in Threads, Typed, unannounced[t] # <<>>,
         NEW us, us = Tail(unannounced[t])
  PROVE  /\ \A i \in DOMAIN us :
              /\ i \in Nat /\ i + 1 \in DOMAIN unannounced[t] /\ i + 1 # 1
              /\ us[i] = unannounced[t][i + 1]
         /\ 1 \in DOMAIN unannounced[t]
         /\ Head(unannounced[t]) = unannounced[t][1]
         /\ ToSet(unannounced[t]) = {Head(unannounced[t])} \union ToSet(us)
<1>1. unannounced[t] \in Seq(Nat)
  BY DEF Typed
<1>2. /\ us \in Seq(Nat) /\ Len(us) = Len(unannounced[t]) - 1
      /\ \A i \in 1..Len(us) : us[i] = unannounced[t][i + 1]
      /\ Head(unannounced[t]) = unannounced[t][1]
  BY <1>1, HeadTailProperties
<1>3. /\ Len(unannounced[t]) \in Nat /\ Len(unannounced[t]) # 0
      /\ DOMAIN unannounced[t] = 1..Len(unannounced[t])
      /\ DOMAIN us = 1..Len(us)
  BY <1>1, <1>2, LenProperties, EmptySeq
<1>4. 1 \in DOMAIN unannounced[t]
  BY <1>3
<1>5. \A i \in DOMAIN us :
        /\ i \in Nat /\ i + 1 \in DOMAIN unannounced[t] /\ i + 1 # 1
        /\ us[i] = unannounced[t][i + 1]
  BY <1>2, <1>3
<1>6. ASSUME NEW i \in DOMAIN unannounced[t]
      PROVE  unannounced[t][i] \in {Head(unannounced[t])} \union ToSet(us)
  <2>1. CASE i = 1
    BY <1>2, <2>1
  <2>2. CASE i # 1
    <3>1. i - 1 \in DOMAIN us /\ (i - 1) + 1 = i
      BY <1>2, <1>3, <2>2
    <3>2. us[i - 1] = unannounced[t][i]
      BY <1>5, <3>1
    <3> QED
      BY <3>1, <3>2 DEF ToSet
  <2> QED
    BY <2>1, <2>2
<1>7. ToSet(unannounced[t]) = {Head(unannounced[t])} \union ToSet(us)
  <2>1. ToSet(unannounced[t]) \subseteq {Head(unannounced[t])} \union ToSet(us)
    <3> SUFFICES ASSUME NEW x \in ToSet(unannounced[t])
                 PROVE  x \in {Head(unannounced[t])} \union ToSet(us)
      OBVIOUS
    <3>1. PICK i \in DOMAIN unannounced[t] : x = unannounced[t][i]
      BY DEF ToSet
    <3> QED
      BY <1>6, <3>1
  <2>2. Head(unannounced[t]) \in ToSet(unannounced[t])
    BY <1>2, <1>4 DEF ToSet
  <2>3. ToSet(us) \subseteq ToSet(unannounced[t])
    BY <1>5 DEF ToSet
  <2> QED
    BY <2>1, <2>2, <2>3
<1> QED
  BY <1>2, <1>4, <1>5, <1>7

\* register: the queue of the thread that acts.
LEMMA QueueKept ==
  ASSUME NEW t \in Threads, Typed, ThreadInv(t), Listed, Queue(t), Quiet(t)
  PROVE  Queue(t)'
<1> DEFINE un == unannounced[t]
           Fresh(us, b) == \A i \in DOMAIN us :
                             /\ us[i] > b /\ ~Recorded(t, us[i])
                             /\ \A j \in DOMAIN us : us[i] = us[j] => i = j
<1>1. \A f : Recorded(t, f)' <=> Recorded(t, f)
  BY QuietDump
<1>2. /\ ~Announcing(t) => un = <<>>
      /\ Fresh(un, base[t])
      /\ pc[t] \in {"define", "finalize"} =>
           \A f \in Nat : Recorded(t, f) => f <= base[t]
  BY DEF Queue
<1>3. SUFFICES /\ ~Announcing(t)' => unannounced'[t] = <<>>
               /\ Fresh(unannounced'[t], base'[t])
               /\ pc'[t] = "write" =>
                    /\ dump' = "open"
                    /\ record'[t].fn = <<t, Head(unannounced'[t])>>
               /\ pc'[t] \in {"define", "finalize"} =>
                    \A f \in Nat : Recorded(t, f) => f <= base'[t]
  BY <1>1, <1>3 DEF Queue
<1>4. CASE Finalize(t)
  <2>1. /\ pc[t] = "finalize" /\ pc'[t] = "announce" /\ base' = base
    BY <1>4, Domains DEF Finalize, Goto
  <2>2. \A i \in DOMAIN unannounced'[t] :
          /\ unannounced'[t][i] > base[t]
          /\ \A j \in DOMAIN unannounced'[t] :
               unannounced'[t][i] = unannounced'[t][j] => i = j
    BY <1>4, Announced
  <2>3. base[t] \in Nat /\ \A f : Recorded(t, f) => f \in Nat
    BY RecordedMade DEF Typed
  <2>4. \A i \in DOMAIN unannounced'[t] : ~Recorded(t, unannounced'[t][i])
    <3> SUFFICES ASSUME NEW i \in DOMAIN unannounced'[t],
                        Recorded(t, unannounced'[t][i])
                 PROVE  FALSE
      OBVIOUS
    <3>1. unannounced'[t][i] \in Nat /\ unannounced'[t][i] <= base[t]
      BY <1>2, <2>1, <2>3
    <3> QED
      BY <2>2, <2>3, <3>1
  <2> QED
    BY <2>1, <2>2, <2>4 DEF Announcing
<1>5. CASE NoDump(t)
  <2>1. /\ pc[t] = "announce" /\ pc' = pc /\ base' = base /\ un # <<>>
        /\ unannounced'[t] = Tail(un)
    BY <1>5, Domains DEF NoDump, moduleVars
  <2>2. \A i \in DOMAIN unannounced'[t] :
          /\ i \in Nat /\ i + 1 \in DOMAIN un
          /\ unannounced'[t][i] = un[i + 1]
    BY <2>1, QueueTail
  <2>3. ASSUME NEW i \in DOMAIN unannounced'[t]
        PROVE  /\ unannounced'[t][i] > base[t] /\ ~Recorded(t, unannounced'[t][i])
               /\ \A j \in DOMAIN unannounced'[t] :
                    unannounced'[t][i] = unannounced'[t][j] => i = j
    <3>1. i + 1 \in DOMAIN un /\ unannounced'[t][i] = un[i + 1]
      BY <2>2
    <3>2. ASSUME NEW j \in DOMAIN unannounced'[t],
                 unannounced'[t][i] = unannounced'[t][j]
          PROVE  i = j
      <4>1. j \in Nat /\ i \in Nat /\ j + 1 \in DOMAIN un /\ un[i + 1] = un[j + 1]
        BY <2>2, <3>2
      <4>2. i + 1 = j + 1
        BY <1>2, <3>1, <4>1
      <4> QED
        BY <4>1, <4>2
    <3> QED
      BY <1>2, <3>1, <3>2
  <2> QED
    BY <2>1, <2>3 DEF Announcing
<1>6. CASE DumpLock(t)
  <2>1. /\ pc'[t] = "write" /\ pc[t] = "announce" /\ base' = base
        /\ unannounced' = unannounced /\ dump' = "open"
        /\ record'[t].fn = <<t, Head(un)>>
    BY <1>6, Domains DEF DumpLock, Goto, moduleVars, Typed
  <2> QED
    BY <1>2, <2>1 DEF Announcing
<1>7. CASE DumpOpens(t)
  <2>1. /\ pc[t] = "announce" /\ pc' = pc /\ base' = base
        /\ unannounced' = unannounced
    BY <1>7 DEF DumpOpens, moduleVars
  <2> QED
    BY <1>2, <2>1 DEF Announcing
<1>8. CASE ~Finalize(t) /\ ~NoDump(t) /\ ~DumpLock(t) /\ ~DumpOpens(t)
  <2>1. unannounced'[t] = un /\ ~Announcing(t)' /\ un = <<>>
    <3>1. unannounced' = unannounced
      BY <1>8 DEF Quiet, Acts, Step, Call, RunParser, ExtBegin, ThreadEnds,
         Declare, DefineNode, DefineNodePanics, DefineTop, DefineTopPanics,
         FinalizePanics, Panics, Compiled
    <3>2. pc'[t] \notin {"announce", "write"}
      BY <1>8, Domains DEF Quiet, Acts, Step, Call, RunParser, ExtBegin,
         ThreadEnds, Declare, DefineNode, DefineNodePanics, DefineTop,
         DefineTopPanics, FinalizePanics, Panics, Compiled, Goto
    <3>3. un = <<>>
      <4>1. CASE Compiled(t)
        BY <4>1 DEF Compiled
      <4>2. CASE ~Compiled(t)
        <5>1. pc[t] \notin {"announce", "write"}
          BY <1>8, <4>2 DEF Quiet, Acts, Step, Call, RunParser, ExtBegin,
             ThreadEnds, Declare, DefineNode, DefineNodePanics, DefineTop,
             DefineTopPanics, FinalizePanics, Goto
        <5> QED
          BY <1>2, <5>1 DEF Announcing
      <4> QED
        BY <4>1, <4>2
    <3> QED
      BY <3>1, <3>2, <3>3 DEF Announcing
  <2>2. DOMAIN unannounced'[t] = {}
    BY <2>1
  <2>3. ASSUME pc'[t] \in {"define", "finalize"}, NEW f \in Nat, Recorded(t, f)
        PROVE  f <= base'[t]
    <3>1. CASE Declare(t)
      <4>1. base'[t] = Len(module[t]) /\ DOMAIN module[t] = 1..Len(module[t])
        <5>1. module[t] \in Seq(Functions)
          BY DEF Typed
        <5> QED
          BY <3>1, <5>1, LenProperties, Domains DEF Declare
      <4>2. f \in DOMAIN module[t]
        BY <2>3, RecordedMade
      <4> QED
        BY <4>1, <4>2
    <3>2. CASE ~Declare(t)
      <4>1. pc[t] \in {"define", "finalize"} /\ base' = base
        BY <1>8, <2>3, <3>2, Domains DEF Quiet, Acts, Step, Call, RunParser,
           ExtBegin, ThreadEnds, DefineNode, DefineNodePanics, DefineTop,
           DefineTopPanics, FinalizePanics, Panics, Compiled, Goto
      <4> QED
        BY <1>2, <2>3, <4>1
    <3> QED
      BY <3>1, <3>2
  <2>4. pc'[t] # "write"
    BY <2>1 DEF Announcing
  <2> QED
    BY <2>1, <2>2, <2>3, <2>4
<1> QED
  BY <1>4, <1>5, <1>6, <1>7, <1>8

\* A compilation adds to the names of its thread when it is over, and at no
\* other step that writes no record.
LEMMA NamedKept ==
  ASSUME NEW t \in Threads, Typed, Queue(t), Quiet(t), ~Compiled(t)
  PROVE  Named(t)' = Named(t)
<1>1. \A f : Recorded(t, f)' <=> Recorded(t, f)
  BY QuietDump
<1>2. SUFFICES \A f \in Nat : Recorded(t, f) =>
        ((Announcing(t)' => f <= base'[t]) <=> (Announcing(t) => f <= base[t]))
  BY <1>1, <1>2 DEF Named
<1>3. CASE Finalize(t)
  <2>1. \A f \in Nat : Recorded(t, f) => f <= base[t]
    BY <1>3 DEF Queue, Finalize, Goto
  <2>2. base' = base
    BY <1>3 DEF Finalize
  <2> QED
    BY <2>1, <2>2
<1>4. CASE NoDump(t) \/ DumpLock(t) \/ DumpOpens(t)
  <2>1. Announcing(t)' /\ Announcing(t) /\ base' = base
    BY <1>4, Domains DEF Announcing, NoDump, DumpLock, DumpOpens, Goto, moduleVars
  <2> QED
    BY <2>1
<1>5. CASE ~Finalize(t) /\ ~NoDump(t) /\ ~DumpLock(t) /\ ~DumpOpens(t)
  <2>1. ~Announcing(t)' /\ ~Announcing(t)
    BY <1>5, Domains DEF Announcing, Quiet, Acts, Step, Call, RunParser,
       ExtBegin, ThreadEnds, Declare, DefineNode, DefineNodePanics, DefineTop,
       DefineTopPanics, FinalizePanics, Panics, Goto
  <2> QED
    BY <2>1
<1> QED
  BY <1>3, <1>4, <1>5

\* When a compilation is over, all of its functions are named.
LEMMA NamedCompiled ==
  ASSUME NEW t \in Threads, Typed, ThreadInv(t), Listed, DumpThread(t),
         Compiled(t), dump # "none"
  PROVE  /\ Named(t)' = {f \in Nat : Recorded(t, f)}
         /\ Named(t) \subseteq Named(t)'
         /\ \A f \in DOMAIN module[t] : f > base[t] => f \in Named(t)'
<1>1. /\ pc[t] = "announce" /\ pc'[t] = "getParser" /\ file' = file
      /\ unannounced[t] = <<>>
  BY Domains DEF Compiled, Goto, dumpVars
<1>2. ~Announcing(t)' /\ Announcing(t)
  BY <1>1 DEF Announcing
<1>3. \A f : Recorded(t, f)' <=> Recorded(t, f)
  BY <1>1 DEF Recorded
<1>4. Named(t)' = {f \in Nat : Recorded(t, f)}
  BY <1>2, <1>3 DEF Named
<1>5. Named(t) \subseteq Named(t)'
  BY <1>4 DEF Named
<1>6. \A f \in DOMAIN module[t] : f > base[t] => f \in Named(t)'
  <2>1. ToSet(unannounced[t]) = {}
    BY <1>1 DEF ToSet
  <2>2. \A f \in DOMAIN module[t] : f > base[t] => Recorded(t, f)
    BY <1>2, <2>1 DEF DumpThread, Covered
  <2> QED
    BY <1>4, <2>2, RecordedMade
<1> QED
  BY <1>4, <1>5, <1>6

\* What is named calls what is named, after a step that writes no record.
LEMMA CoveredKept ==
  ASSUME NEW t \in Threads, Typed, ThreadInv(t), Listed, DumpThread(t), Quiet(t)
  PROVE  Covered(t)'
<1> SUFFICES ASSUME dump' # "none"
             PROVE  /\ \A f \in Named(t)' : module'[t][f].callees \subseteq Named(t)'
                    /\ Announcing(t)' =>
                         \A f \in DOMAIN module'[t] : f > base'[t] =>
                           Recorded(t, f)' \/ f \in ToSet(unannounced'[t])
  BY DEF Covered
<1>1. dump # "none" /\ \A f : Recorded(t, f)' <=> Recorded(t, f)
  BY QuietDump
<1>2. /\ \A f \in Named(t) : module[t][f].callees \subseteq Named(t)
      /\ Announcing(t) =>
           \A f \in DOMAIN module[t] : f > base[t] =>
             Recorded(t, f) \/ f \in ToSet(unannounced[t])
  BY <1>1 DEF DumpThread, Covered
<1>3. \A f \in Named(t) : f \in DOMAIN module[t] /\ f \in Nat
  BY RecordedMade DEF Named
<1>4. CASE Compiled(t)
  <2>1. /\ module' = module /\ pc[t] = "announce" /\ pc'[t] = "getParser"
        /\ base[t] \in Nat
    BY <1>4, Domains DEF Compiled, Goto, Typed
  <2>2. /\ Named(t)' = {f \in Nat : Recorded(t, f)}
        /\ Named(t) \subseteq Named(t)'
        /\ \A f \in DOMAIN module[t] : f > base[t] => f \in Named(t)'
    BY <1>1, <1>4, NamedCompiled
  <2>3. ASSUME NEW f \in Named(t)', NEW g \in module[t][f].callees
        PROVE  g \in Named(t)'
    <3>1. f \in Nat /\ Recorded(t, f) /\ f \in DOMAIN module[t]
      BY <2>2, RecordedMade
    <3>2. CASE f <= base[t]
      <4>1. f \in Named(t)
        BY <3>1, <3>2 DEF Named
      <4> QED
        BY <1>2, <2>2, <2>3, <4>1
    <3>3. CASE f > base[t]
      <4>1. g > base[t]
        BY <2>1, <2>3, <3>1, <3>3 DEF DumpThread, Apart
      <4>2. g \in DOMAIN module[t]
        BY <2>3, <3>1 DEF ThreadInv, Placed
      <4> QED
        BY <2>2, <4>1, <4>2
    <3> QED
      BY <2>1, <3>1, <3>2, <3>3
  <2>4. ~Announcing(t)'
    BY <2>1 DEF Announcing
  <2> QED
    BY <2>1, <2>3, <2>4
<1>5. CASE ~Compiled(t)
  <2>1. Named(t)' = Named(t)
    BY <1>5, NamedKept DEF DumpThread
  <2>2. ASSUME NEW f \in Named(t)
        PROVE  module'[t][f].callees = module[t][f].callees
    <3>1. CASE DefineNode(t) /\ f = base[t] + done[t] + 1
      <4>1. f <= base[t]
        BY <2>2, <3>1 DEF DumpThread, Queue, Named, DefineNode
      <4>2. base[t] \in Nat /\ done[t] \in Nat
        BY DEF Typed
      <4> QED
        BY <3>1, <4>1, <4>2
    <3>2. CASE ~(DefineNode(t) /\ f = base[t] + done[t] + 1)
      BY <1>3, <3>2, CalleesStay DEF Quiet
    <3> QED
      BY <3>1, <3>2
  <2>3. ASSUME Announcing(t)', NEW f \in DOMAIN module'[t], f > base'[t]
        PROVE  Recorded(t, f) \/ f \in ToSet(unannounced'[t])
    <3>1. CASE Finalize(t)
      <4>1. f \in DOMAIN module[t] /\ f > base[t]
        BY <2>3, <3>1, Domains DEF Finalize, Finalized
      <4> QED
        BY <3>1, <4>1, Announced
    <3>2. CASE DumpLock(t) \/ DumpOpens(t)
      <4>1. /\ module' = module /\ base' = base /\ unannounced' = unannounced
            /\ Announcing(t)
        BY <3>2 DEF DumpLock, DumpOpens, Goto, moduleVars, Announcing
      <4> QED
        BY <1>2, <2>3, <4>1
    <3>3. CASE ~Finalize(t) /\ ~DumpLock(t) /\ ~DumpOpens(t)
      <4>1. ~Announcing(t)'
        <5>1. ~NoDump(t)
          BY DEF NoDump, dumpVars
        <5> QED
          BY <1>5, <3>3, <5>1, Domains DEF Announcing, Quiet, Acts, Step, Call,
             RunParser, ExtBegin, ThreadEnds, Declare, DefineNode,
             DefineNodePanics, DefineTop, DefineTopPanics, FinalizePanics,
             Panics, Goto
      <4> QED
        BY <2>3, <4>1
    <3> QED
      BY <3>1, <3>2, <3>3
  <2> QED
    BY <1>1, <1>2, <2>1, <2>2, <2>3
<1> QED
  BY <1>4, <1>5

\* Such a step hands out the parser of a type only when it is named.
LEMMA ListedKept ==
  ASSUME NEW t \in Threads, Typed, \A u \in Threads : ThreadInv(u) /\ DumpThread(u),
         HandedOut, Listed, Quiet(t)
  PROVE  Listed'
<1>1. /\ file' = file /\ faults' = faults
      /\ dump' = dump \/ (dump = "closed" /\ dump' \in {"open", "none"})
      /\ \A f, u : Recorded(u, f)' <=> Recorded(u, f)
  BY QuietDump
<1>2. \A u \in Threads : \A f \in DOMAIN module[u] : f \in DOMAIN module'[u]
  <2> SUFFICES ASSUME NEW u \in Threads, NEW f \in DOMAIN module[u]
               PROVE  f \in DOMAIN module'[u]
    OBVIOUS
  <2>1. CASE u = t
    BY <2>1, CalleesStay DEF Quiet
  <2>2. CASE u # t
    BY <2>2, OthersUnmoved DEF Quiet, ThreadVars
  <2> QED
    BY <2>1, <2>2
<1>3. \A i \in DOMAIN file' :
        \E u \in Threads : \E f \in DOMAIN module'[u] : file'[i].rec.fn = <<u, f>>
  BY <1>1, <1>2 DEF Listed
<1>4. dump' # "open" => file' = <<>>
  BY <1>1 DEF Listed
<1>5. Torn' = Torn
  BY <1>1 DEF Torn
<1>6. ASSUME dump' # "none", NEW k \in Keys, ext'[k] = "done"
      PROVE  (parser[k][2] \in Named(parser[k][1]))'
  <2> SUFFICES \E u \in Threads : parser'[k][1] = u /\ parser'[k][2] \in Named(u)'
    BY DEF Named, Recorded, Announcing
  <2>1. dump # "none"
    BY <1>1, <1>6
  <2>2. \A u \in Threads : Named(u) \subseteq Named(u)'
    <3> SUFFICES ASSUME NEW u \in Threads PROVE Named(u) \subseteq Named(u)'
      OBVIOUS
    <3>1. CASE u # t
      <4>1. ThreadVars(u)' = ThreadVars(u)
        BY <3>1, OthersUnmoved DEF Quiet
      <4>2. pc'[u] = pc[u] /\ base'[u] = base[u]
        BY <4>1 DEF ThreadVars
      <4> QED
        BY <1>1, <4>2 DEF Named, Announcing
    <3>2. CASE u = t /\ Compiled(t)
      BY <2>1, <3>2, NamedCompiled
    <3>3. CASE u = t /\ ~Compiled(t)
      BY <3>3, NamedKept DEF DumpThread
    <3> QED
      BY <3>1, <3>2, <3>3
  <2>3. CASE Compiled(t) /\ k = key[t]
    <3>1. parser'[k] = <<t, Top(t)>>
      BY <2>3 DEF Compiled, Typed
    <3>2. Top(t) = Len(module[t]) /\ Top(t) = base[t] + Len(cells[t]) + 1
      BY <2>3 DEF Compiled, Goto, ThreadInv, Compiling, Top
    <3>3. /\ base[t] \in Nat /\ Len(cells[t]) \in Nat
          /\ DOMAIN module[t] = 1..Len(module[t])
      <4>1. module[t] \in Seq(Functions) /\ cells[t] \in Seq(Cells)
        BY DEF Typed
      <4> QED
        BY <4>1, LenProperties DEF Typed
    <3>4. Top(t) \in DOMAIN module[t] /\ Top(t) > base[t]
      BY <3>2, <3>3
    <3>5. \A f \in DOMAIN module[t] : f > base[t] => f \in Named(t)'
      BY <2>1, <2>3, NamedCompiled
    <3> QED
      BY <3>1, <3>4, <3>5
  <2>4. CASE ~(Compiled(t) /\ k = key[t])
    <3>1. ext[k] = "done" /\ parser'[k] = parser[k]
      <4>1. CASE Compiled(t)
        BY <1>6, <2>4, <4>1 DEF Compiled, Typed
      <4>2. CASE ~Compiled(t)
        BY <1>6, <4>2 DEF Quiet, Acts, Step, Call, RunParser, ExtBegin,
           ThreadEnds, Declare, DefineNode, DefineNodePanics, DefineTop,
           DefineTopPanics, Finalize, FinalizePanics, Panics, DumpOpens, NoDump,
           DumpLock, Typed, extVars
      <4> QED
        BY <4>1, <4>2
    <3>2. parser[k][1] \in Threads
      BY <3>1 DEF HandedOut
    <3>3. parser[k][2] \in Named(parser[k][1])
      BY <2>1, <3>1 DEF Listed
    <3> QED
      BY <2>2, <3>1, <3>2, <3>3
  <2> QED
    BY <2>3, <2>4
<1>7. \A i, j \in DOMAIN file' : file'[i].rec.fn = file'[j].rec.fn => i = j
  BY <1>1 DEF Listed
<1>8. IsFiniteSet(Torn') /\ Cardinality(Torn') <= faults'
  BY <1>1, <1>5 DEF Listed
<1> QED
  BY <1>3, <1>4, <1>6, <1>7, <1>8 DEF Listed

-----------------------------------------------------------------------------
(* The step that writes a record.                                          *)

\* What DumpWrite adds to the dump: the record of the first in the queue.
LEMMA Written ==
  ASSUME NEW t \in Threads, Typed, Queue(t), Recording, DumpWrite(t)
  PROVE  \E whole \in BOOLEAN :
           LET n == Len(file) + 1
               h == Head(unannounced[t])
           IN  /\ n \in Nat /\ DOMAIN file = 1..(n - 1) /\ DOMAIN file' = 1..n
               /\ n \in DOMAIN file'
               /\ \A i \in DOMAIN file : file'[i] = file[i]
               /\ file'[n].rec.fn = <<t, h>> /\ file'[n].whole = whole
               /\ faults' = IF whole THEN faults ELSE faults + 1
               /\ dump = "open" /\ dump' = dump /\ unannounced[t] # <<>>
               /\ pc[t] = "write" /\ pc'[t] = "announce"
               /\ module' = module /\ base' = base
               /\ unannounced'[t] = Tail(unannounced[t])
               /\ \A u, f : Recorded(u, f)' <=> Recorded(u, f) \/ (u = t /\ f = h)
<1> DEFINE n == Len(file) + 1
           h == Head(unannounced[t])
<1>1. /\ pc[t] = "write" /\ pc'[t] = "announce" /\ dump' = dump
      /\ module' = module /\ base' = base
      /\ unannounced'[t] = Tail(unannounced[t])
  BY Domains DEF DumpWrite, Goto, moduleVars
<1>2. dump = "open" /\ unannounced[t] # <<>> /\ record[t].fn = <<t, h>>
  BY <1>1 DEF Queue, Recording
<1>3. PICK whole \in BOOLEAN :
        /\ file' = Append(file, [whole |-> whole, rec |-> record[t]])
        /\ faults' = IF whole THEN faults ELSE faults + 1
  BY DEF DumpWrite
<1> DEFINE e == [whole |-> whole, rec |-> record[t]]
<1>4. e.rec.fn = <<t, h>> /\ e.whole = whole /\ file' = Append(file, e)
  BY <1>2, <1>3
<1> HIDE DEF e, h
<1>5. Len(file) \in Nat /\ DOMAIN file = 1..Len(file)
      /\ file \in Seq([whole : BOOLEAN, rec : Records])
  BY LenProperties DEF Typed
<1>6. /\ DOMAIN file' = 1..(Len(file) + 1)
      /\ \A i \in 1..Len(file) : file'[i] = file[i]
      /\ file'[Len(file) + 1] = e
  BY <1>4, <1>5
<1>7. n \in Nat /\ DOMAIN file = 1..(n - 1) /\ DOMAIN file' = 1..n /\ file'[n] = e
  BY <1>5, <1>6
<1>8. \A i \in DOMAIN file' : i \in DOMAIN file \/ i = n
  BY <1>7
<1>9. n \in DOMAIN file' /\ \A i \in DOMAIN file : i \in DOMAIN file'
  BY <1>7
<1>10. \A i \in DOMAIN file : file'[i] = file[i]
  BY <1>5, <1>6
<1> HIDE DEF n
<1>11. ASSUME NEW u, NEW f
       PROVE  Recorded(u, f)' <=> Recorded(u, f) \/ (u = t /\ f = h)
  <2>1. file'[n].rec.fn = <<u, f>> <=> (u = t /\ f = h)
    BY <1>4, <1>7
  <2> QED
    BY <1>8, <1>9, <1>10, <2>1 DEF Recorded
<1> QED
  BY <1>1, <1>2, <1>3, <1>4, <1>7, <1>10, <1>11 DEF n, h

\* The threads after a record was written.
LEMMA WriteThreads ==
  ASSUME NEW t \in Threads, Typed, DumpThread(t), Recording, DumpWrite(t),
         NEW u \in Threads, DumpThread(u)
  PROVE  DumpThread(u)' /\ Named(u)' = Named(u)
<1> DEFINE h == Head(unannounced[t])
<1>1. /\ dump = "open" /\ dump' = dump /\ unannounced[t] # <<>>
      /\ pc[t] = "write" /\ pc'[t] = "announce"
      /\ module' = module /\ base' = base
      /\ unannounced'[t] = Tail(unannounced[t])
      /\ \A v, f : Recorded(v, f)' <=> Recorded(v, f) \/ (v = t /\ f = h)
  BY Written DEF DumpThread
<1> HIDE DEF h
<1>2. CASE u # t
  <2>1. ThreadVars(u)' = ThreadVars(u)
    BY <1>2, OthersUnmoved DEF Acts, Step
  <2>2. \A f : Recorded(u, f)' <=> Recorded(u, f)
    BY <1>1, <1>2
  <2>3. record'[u] = record[u]
    BY <1>2 DEF DumpWrite, Typed
  <2>4. DumpThread(u)'
    BY <1>1, <2>1, <2>2, <2>3, DumpUnmoved
  <2>5. Named(u)' = Named(u)
    BY <2>1, <2>2 DEF Named, Announcing, ThreadVars
  <2> QED
    BY <2>4, <2>5
<1>3. CASE u = t
  <2>1. /\ 1 \in DOMAIN unannounced[t] /\ h = unannounced[t][1]
        /\ \A i \in DOMAIN unannounced'[t] :
             /\ i \in Nat /\ i + 1 \in DOMAIN unannounced[t] /\ i + 1 # 1
             /\ unannounced'[t][i] = unannounced[t][i + 1]
        /\ ToSet(unannounced[t]) = {h} \union ToSet(unannounced'[t])
    BY <1>1, QueueTail DEF h
  <2>2. \A i \in DOMAIN unannounced[t] :
          /\ unannounced[t][i] > base[t]
          /\ ~Recorded(t, unannounced[t][i])
          /\ \A j \in DOMAIN unannounced[t] :
               unannounced[t][i] = unannounced[t][j] => i = j
    BY DEF DumpThread, Queue
  <2>3. Announcing(t) /\ Announcing(t)'
    BY <1>1 DEF Announcing
  <2>4. Apart(t)'
    BY <1>1, <1>3 DEF DumpThread, Apart
  <2>5. ASSUME NEW i \in DOMAIN unannounced'[t]
        PROVE  /\ unannounced'[t][i] > base'[t]
               /\ ~Recorded(t, unannounced[t][i])'
               /\ \A j \in DOMAIN unannounced'[t] :
                    unannounced'[t][i] = unannounced'[t][j] => i = j
    <3>1. /\ i \in Nat /\ i + 1 \in DOMAIN unannounced[t] /\ i + 1 # 1
          /\ unannounced'[t][i] = unannounced[t][i + 1]
      BY <2>1
    <3>2. unannounced'[t][i] # h /\ unannounced'[t][i] > base[t]
          /\ ~Recorded(t, unannounced'[t][i])
      BY <2>1, <2>2, <3>1
    <3>3. ASSUME NEW j \in DOMAIN unannounced'[t],
                 unannounced'[t][i] = unannounced'[t][j]
          PROVE  i = j
      <4>1. j \in Nat /\ j + 1 \in DOMAIN unannounced[t]
            /\ unannounced[t][i + 1] = unannounced[t][j + 1]
        BY <2>1, <3>1, <3>3
      <4>2. i + 1 = j + 1
        BY <2>2, <3>1, <4>1
      <4> QED
        BY <3>1, <4>1, <4>2
    <3>4. \A f : f = unannounced'[t][i] => ~Recorded(t, f)'
      BY <1>1, <3>2
    <3>5. ~Recorded(t, unannounced[t][i])'
      <4>1. PICK f : f = unannounced'[t][i]
        OBVIOUS
      <4>2. ~Recorded(t, f)'
        BY <3>4, <4>1
      <4> QED
        BY <4>1, <4>2 DEF Recorded
    <3> QED
      BY <1>1, <3>2, <3>3, <3>5
  <2>6. Queue(t)'
    BY <1>1, <2>3, <2>5 DEF Queue
  <2>7. Named(t)' = Named(t)
    <3>1. h > base[t] /\ base[t] \in Nat
      BY <2>1, <2>2 DEF Typed
    <3>2. \A f \in Nat : f <= base[t] => f # h
      BY <3>1
    <3> QED
      BY <1>1, <2>3, <3>2 DEF Named
  <2>8. Covered(t)'
    BY <1>1, <1>3, <2>1, <2>3, <2>7 DEF DumpThread, Covered
  <2> QED
    BY <1>3, <2>4, <2>6, <2>7, <2>8 DEF DumpThread
<1> QED
  BY <1>2, <1>3

\* The dump after a record was written.
LEMMA WriteListed ==
  ASSUME NEW t \in Threads, Typed, ThreadInv(t),
         \A u \in Threads : DumpThread(u),
         Recording, HandedOut, Listed, DumpWrite(t)
  PROVE  Listed'
<1> DEFINE n == Len(file) + 1
           h == Head(unannounced[t])
<1>1. DumpThread(t) /\ Queue(t)
  BY DEF DumpThread
<1>2. PICK whole \in BOOLEAN :
        /\ n \in Nat /\ DOMAIN file = 1..(n - 1) /\ DOMAIN file' = 1..n
        /\ n \in DOMAIN file'
        /\ \A i \in DOMAIN file : file'[i] = file[i]
        /\ file'[n].rec.fn = <<t, h>> /\ file'[n].whole = whole
        /\ faults' = IF whole THEN faults ELSE faults + 1
        /\ dump = "open" /\ dump' = dump /\ unannounced[t] # <<>>
        /\ module' = module
  BY <1>1, Written, Zenon
<1>3. h \in DOMAIN module[t] /\ ~Recorded(t, h)
  <2>1. 1 \in DOMAIN unannounced[t] /\ h = unannounced[t][1]
    BY <1>2, QueueTail
  <2>2. h \in ToSet(unannounced[t])
    BY <2>1 DEF ToSet
  <2> QED
    BY <1>1, <2>1, <2>2 DEF ThreadInv, Placed, Queue
<1> HIDE DEF n, h
<1>4. \A i \in DOMAIN file' : i \in DOMAIN file \/ i = n
  BY <1>2
<1>5. n \in DOMAIN file' /\ \A i \in DOMAIN file : i \in DOMAIN file' /\ i # n
  BY <1>2
<1>6. \A i \in DOMAIN file' :
        \E u \in Threads : \E f \in DOMAIN module'[u] : file'[i].rec.fn = <<u, f>>
  BY <1>2, <1>3, <1>4 DEF Listed
<1>7. \A i, j \in DOMAIN file' : file'[i].rec.fn = file'[j].rec.fn => i = j
  <2>1. \A i \in DOMAIN file : file'[i].rec.fn # <<t, h>>
    BY <1>2, <1>3 DEF Recorded
  <2> QED
    BY <1>2, <1>4, <2>1 DEF Listed
<1>8. dump' # "open" => file' = <<>>
  BY <1>2
<1>9. ASSUME NEW k \in Keys, ext'[k] = "done"
      PROVE  (parser[k][2] \in Named(parser[k][1]))'
  <2>1. ext[k] = "done" /\ parser' = parser
    BY <1>9 DEF DumpWrite, extVars
  <2>2. parser[k][1] \in Threads /\ parser[k][2] \in Named(parser[k][1])
    BY <1>2, <2>1 DEF HandedOut, Listed
  <2>3. \A u \in Threads : Named(u)' = Named(u)
    BY <1>1, WriteThreads
  <2>4. \E u \in Threads : parser'[k][1] = u /\ parser'[k][2] \in Named(u)'
    BY <2>1, <2>2, <2>3
  <2> QED
    BY <2>4 DEF Named, Recorded, Announcing
<1>10. IsFiniteSet(Torn') /\ Cardinality(Torn') <= faults'
  <2>1. IsFiniteSet(Torn) /\ Cardinality(Torn) <= faults
    BY DEF Listed
  <2>2. Cardinality(Torn) \in Nat /\ faults \in Nat
    <3>1. faults \in 0..MaxFaults /\ MaxFaults \in Nat
      BY JitAssumption DEF Typed
    <3> QED
      BY <2>1, <3>1, FS_CardinalityType
  <2>3. CASE whole
    <3>1. Torn' = Torn
      BY <1>2, <1>4, <1>5, <2>3 DEF Torn
    <3> QED
      BY <1>2, <2>1, <2>3, <3>1
  <2>4. CASE ~whole
    <3>1. Torn' = Torn \union {n}
      BY <1>2, <1>4, <1>5, <2>4 DEF Torn
    <3>2. IsFiniteSet(Torn \union {n})
          /\ Cardinality(Torn \union {n}) <= Cardinality(Torn) + 1
      BY <2>1, <2>2, FS_AddElement
    <3>3. IsFiniteSet(Torn') /\ Cardinality(Torn') <= Cardinality(Torn) + 1
      BY <3>1, <3>2
    <3>4. Cardinality(Torn') \in Nat
      BY <3>3, FS_CardinalityType
    <3> QED
      BY <1>2, <2>1, <2>2, <2>4, <3>3, <3>4
  <2> QED
    BY <2>3, <2>4
<1> QED
  BY <1>6, <1>7, <1>8, <1>9, <1>10 DEF Listed

-----------------------------------------------------------------------------
(* The invariant, and what follows.                                        *)

\* Nothing is recorded at first.
LEMMA InitDump == Init => DumpIInv
<1> SUFFICES ASSUME Init PROVE DumpIInv
  OBVIOUS
<1>1. file = <<>> /\ DOMAIN <<>> = {} /\ dump = "closed"
  BY DEF Init
<1>2. ASSUME NEW t \in Threads PROVE DumpThread(t)
  <2>1. pc[t] = "idle" /\ module[t] = <<>> /\ unannounced[t] = <<>>
    BY DEF Init
  <2>2. ~Announcing(t) /\ \A f : ~Recorded(t, f)
    BY <1>1, <2>1 DEF Announcing, Recorded
  <2>3. Apart(t) /\ Queue(t)
    BY <1>1, <2>1, <2>2 DEF Apart, Queue
  <2>4. Covered(t)
    BY <2>2 DEF Covered, Named
  <2> QED
    BY <2>3, <2>4 DEF DumpThread
<1>3. IsFiniteSet(Torn) /\ Cardinality(Torn) <= faults
  <2>1. Torn = {} /\ faults = 0
    BY <1>1 DEF Torn, Init
  <2> QED
    BY <2>1, FS_EmptySet
<1>4. \A k \in Keys : ext[k] # "done"
  BY DEF Init
<1>5. Listed
  BY <1>1, <1>3, <1>4 DEF Listed
<1> QED
  BY <1>2, <1>5 DEF DumpIInv, DumpThread

\* Each step keeps the invariant.
LEMMA NextDump == IInv /\ DumpIInv /\ [Next]_vars => DumpIInv'
<1> SUFFICES ASSUME IInv, DumpIInv, [Next]_vars PROVE DumpIInv'
  OBVIOUS
<1>1. /\ Typed /\ HandedOut /\ Recording /\ Listed
      /\ \A t \in Threads : ThreadInv(t) /\ DumpThread(t)
  BY DEF IInv, DumpIInv, DumpThread
<1>2. SUFFICES (\A t \in Threads : DumpThread(t)') /\ Listed'
  BY DEF DumpIInv, DumpThread
<1>3. ASSUME NEW t \in Threads, Quiet(t)
      PROVE  (\A u \in Threads : DumpThread(u)') /\ Listed'
  <2>1. /\ dump' = dump \/ (dump = "closed" /\ dump' \in {"open", "none"})
        /\ \A f, u : Recorded(u, f)' <=> Recorded(u, f)
    BY <1>3, QuietDump
  <2>2. DumpThread(t)'
    <3>1. Apart(t)'
      BY <1>1, <1>3, ApartKept DEF Quiet, DumpThread
    <3>2. Queue(t)'
      BY <1>1, <1>3, QueueKept DEF DumpThread
    <3>3. Covered(t)'
      BY <1>1, <1>3, CoveredKept
    <3> QED
      BY <3>1, <3>2, <3>3 DEF DumpThread
  <2>3. ASSUME NEW u \in Threads, u # t PROVE DumpThread(u)'
    <3>1. ThreadVars(u)' = ThreadVars(u)
      BY <1>1, <1>3, <2>3, OthersUnmoved DEF Quiet
    <3>2. record'[u] = record[u]
      <4>1. record \in [Threads -> Records]
        BY <1>1 DEF Typed
      <4> QED
        BY <1>3, <2>3, <4>1 DEF Quiet, Acts, Step, Call, RunParser, ExtBegin,
           ThreadEnds, Declare, DefineNode, DefineNodePanics, DefineTop,
           DefineTopPanics, Finalize, FinalizePanics, Panics, Compiled,
           DumpOpens, NoDump, DumpLock, dumpVars
    <3>3. pc[u] = "write" => dump' = "open"
      BY <1>1, <2>1 DEF DumpThread, Queue
    <3>4. dump' # "none" => dump # "none"
      BY <2>1
    <3> QED
      BY <1>1, <2>1, <3>1, <3>2, <3>3, <3>4, DumpUnmoved
  <2>4. Listed'
    BY <1>1, <1>3, ListedKept
  <2> QED
    BY <2>2, <2>3, <2>4
<1>4. ASSUME NEW t \in Threads, DumpWrite(t)
      PROVE  (\A u \in Threads : DumpThread(u)') /\ Listed'
  BY <1>1, <1>4, WriteThreads, WriteListed
<1>5. CASE UNCHANGED vars
  <2>1. /\ file' = file /\ dump' = dump /\ faults' = faults /\ record' = record
        /\ ext' = ext /\ parser' = parser /\ module' = module
    BY <1>5 DEF vars, dumpVars, extVars, moduleVars
  <2>2. \A u, f : Recorded(u, f)' <=> Recorded(u, f)
    BY <2>1 DEF Recorded
  <2>3. ASSUME NEW u \in Threads PROVE DumpThread(u)' /\ Named(u)' = Named(u)
    <3>1. ThreadVars(u)' = ThreadVars(u)
      BY <1>5 DEF vars, moduleVars, history, ThreadVars
    <3>2. pc[u] = "write" => dump' = "open" /\ record'[u] = record[u]
      BY <1>1, <2>1 DEF DumpThread, Queue
    <3>3. DumpThread(u)'
      BY <1>1, <2>1, <2>2, <3>1, <3>2, DumpUnmoved
    <3>4. Named(u)' = Named(u)
      BY <2>2, <3>1 DEF Named, Announcing, ThreadVars
    <3> QED
      BY <3>3, <3>4
  <2>4. Torn' = Torn
    BY <2>1 DEF Torn
  <2>5. ASSUME dump # "none", NEW k \in Keys, ext[k] = "done"
        PROVE  (parser[k][2] \in Named(parser[k][1]))'
    <3>1. parser[k][1] \in Threads /\ parser[k][2] \in Named(parser[k][1])
      BY <1>1, <2>5 DEF HandedOut, Listed
    <3>2. \E u \in Threads : parser'[k][1] = u /\ parser'[k][2] \in Named(u)'
      BY <2>1, <2>3, <3>1
    <3> QED
      BY <3>2 DEF Named, Recorded, Announcing
  <2>6. Listed'
    BY <1>1, <2>1, <2>4, <2>5 DEF Listed
  <2> QED
    BY <2>3, <2>6
<1> QED
  BY <1>3, <1>4, <1>5 DEF Next, AllDone, Acts, Quiet

\* compile_parser and register: at every moment each function is announced
\* at most once, what is announced is final, and what a named function calls
\* is named, for any number of threads, types and failures.
THEOREM DumpInvariance == Spec => []DumpIInv
<1>1. Init => DumpIInv
  BY InitDump
<1>2. IInv /\ DumpIInv /\ [Next]_vars => DumpIInv'
  BY NextDump
<1> QED
  BY <1>1, <1>2, Invariance, PTL DEF Spec

\* A parser that was handed out runs named functions only.
LEMMA CodeNamed ==
  ASSUME Typed, HandedOut, Listed, \A t \in Threads : ThreadInv(t) /\ DumpThread(t),
         dump = "open", NEW k \in Keys, ext[k] = "done"
  PROVE  \A x \in Code(k) : \E i \in DOMAIN file : file[i].rec.fn = x
<1> DEFINE t == parser[k][1]
           closed == {S \in SUBSET DOMAIN module[t] :
                        /\ parser[k][2] \in S
                        /\ \A f \in S : module[t][f].callees \subseteq S}
<1>1. t \in Threads /\ parser[k][2] \in Named(t)
  BY DEF HandedOut, Listed
<1>2. Named(t) \subseteq DOMAIN module[t]
  BY <1>1, RecordedMade DEF Named
<1>3. \A f \in Named(t) : module[t][f].callees \subseteq Named(t)
  BY <1>1 DEF DumpThread, Covered
<1>4. Named(t) \in closed
  BY <1>1, <1>2, <1>3
<1>5. Code(k) = {<<t, f>> : f \in {g \in DOMAIN module[t] : \A S \in closed : g \in S}}
  BY DEF Code
<1> HIDE DEF t, closed
<1>6. ASSUME NEW x \in Code(k)
      PROVE  \E i \in DOMAIN file : file[i].rec.fn = x
  <2>1. PICK f \in Named(t) : x = <<t, f>>
    BY <1>4, <1>5
  <2>2. Recorded(t, f)
    BY DEF Named
  <2> QED
    BY <2>1, <2>2 DEF Recorded
<1> QED
  BY <1>6

\* jitdump.rs: profilers can name the code that runs.  Before a parser is
\* handed out, each function that it can come to run has its record in the
\* dump, if there is one, and only one; only failed writes take records.
THEOREM NamedFirst == Spec => []NamedBeforeRun
<1>1. IInv /\ DumpIInv => NamedBeforeRun
  <2> SUFFICES ASSUME IInv, DumpIInv, dump = "open"
               PROVE  /\ Cardinality(
                           (UNION {Code(k) : k \in {j \in Keys : ext[j] = "done"}})
                             \ {file[i].rec.fn :
                                  i \in {j \in DOMAIN file : file[j].whole}})
                           <= faults
                      /\ \A i, j \in DOMAIN file :
                           file[i].rec.fn = file[j].rec.fn => i = j
    BY DEF NamedBeforeRun
  <2>1. /\ Typed /\ HandedOut /\ Listed
        /\ \A t \in Threads : ThreadInv(t) /\ DumpThread(t)
    BY DEF IInv, DumpIInv, DumpThread
  <2> DEFINE code == UNION {Code(k) : k \in {j \in Keys : ext[j] = "done"}}
             whole == {file[i].rec.fn : i \in {j \in DOMAIN file : file[j].whole}}
             lost == {file[i].rec.fn : i \in Torn}
             name == [i \in Torn |-> file[i].rec.fn]
  <2>2. code \ whole \subseteq lost
    <3> SUFFICES ASSUME NEW x \in code, x \notin whole PROVE x \in lost
      OBVIOUS
    <3>1. PICK k \in Keys : ext[k] = "done" /\ x \in Code(k)
      OBVIOUS
    <3>2. PICK i \in DOMAIN file : file[i].rec.fn = x
      BY <2>1, <3>1, CodeNamed
    <3>3. i \in Torn
      BY <3>2 DEF Torn
    <3> QED
      BY <3>2, <3>3
  <2>3. IsFiniteSet(Torn) /\ Cardinality(Torn) <= faults
    BY <2>1 DEF Listed
  <2>4. IsFiniteSet(lost) /\ Cardinality(lost) <= Cardinality(Torn)
    <3>1. name \in Surjection(Torn, lost)
      BY DEF Surjection
    <3> QED
      BY <2>3, <3>1, FS_Surjection
  <2> HIDE DEF code, whole, lost
  <2>5. /\ IsFiniteSet(code \ whole)
        /\ Cardinality(code \ whole) <= Cardinality(lost)
    BY <2>2, <2>4, FS_Subset
  <2>6. /\ Cardinality(code \ whole) \in Nat /\ Cardinality(lost) \in Nat
        /\ Cardinality(Torn) \in Nat
    BY <2>3, <2>4, <2>5, FS_CardinalityType
  <2>7. faults \in Nat
    BY <2>1, JitAssumption DEF Typed
  <2>8. Cardinality(code \ whole) <= faults
    BY <2>3, <2>4, <2>5, <2>6, <2>7
  <2> QED
    BY <2>1, <2>8 DEF code, whole, Listed
<1> QED
  BY <1>1, Invariance, DumpInvariance, PTL
=============================================================================
