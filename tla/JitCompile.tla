----------------------------- MODULE JitCompile -----------------------------
(***************************************************************************)
(* crates/bilbo-json/src/jit.rs, compile_parser: how a type becomes code.  *)
(* A type whose description has recursion is compiled as one function for  *)
(* the type and one for each RecCell that it reaches, all declared before  *)
(* any is defined, so that they can call each other.  The functions are    *)
(* made in the JITModule of the thread that compiles; the parser that      *)
(* comes of them is kept in the OnceLock of the type (resolve.rs,          *)
(* Resolved::ext) and run by every thread.  Each function is announced to  *)
(* profilers in one file, which jitdump.rs guards with a mutex.            *)
(*                                                                         *)
(* A compilation may panic between two functions.  Its thread lives on     *)
(* with its module (a RefCell is not poisoned), and so do the functions    *)
(* that were defined and wait in it to be finalized.                       *)
(***************************************************************************)
EXTENDS Integers, Sequences, SequencesExt

CONSTANTS
  Threads,
  NoThread,   \* owner of the free mutex
  Keys,       \* the types, each with one Resolved
  Cells,      \* the RecCells in their descriptions
  Mentions,   \* Mentions[b]: the Ty::Ref in b, a type or the body of a cell,
              \* in the order of the fields
  Unknown,    \* the types and bodies that have a Ty::Unknown
  MaxCalls,   \* bound: calls of all threads
  MaxClock,   \* bound: the clock of the dump
  MaxFaults   \* bound: writes to the dump that fail

Bodies == Keys \union Cells

\* collect_cells: the cells reached from b, in the order in which a walk that
\* enters each of them once, at its first mention, meets them.
CellsOf(b) ==
  LET walk[work \in Seq(Cells), out \in Seq(Cells)] ==
        IF work = <<>> THEN out
        ELSE IF Contains(out, Head(work)) THEN walk[Tail(work), out]
        ELSE walk[Mentions[Head(work)] \o Tail(work),
                  Append(out, Head(work))]
  IN  walk[Mentions[b], <<>>]

\* What collect_cells has to return, for b: the least set that has the cells
\* mentioned in b and in the bodies of its own.
Reached(b) ==
  {c \in Cells : \A S \in SUBSET Cells :
     (\A d \in {b} \union S : ToSet(Mentions[d]) \subseteq S) => c \in S}

\* A type that can be compiled.
Sound(k) == ({k} \union Reached(k)) \intersect Unknown = {}

ASSUME JitAssumption ==
  /\ NoThread \notin Threads
  /\ Keys # {}
  /\ Mentions \in [Bodies -> Seq(Cells)]
  /\ Unknown \subseteq Bodies
  /\ MaxCalls \in Nat /\ MaxClock \in Nat /\ MaxFaults \in Nat

\* What the walk of collect_cells returns: the cells reached, as a list.
ASSUME CellsAssumption ==
  \A k \in Keys : CellsOf(k) \in Seq(Cells) /\ ToSet(CellsOf(k)) = Reached(k)

VARIABLES
  pc, key,           \* per thread: where it is, and its type
  calls,             \* calls so far
  module,            \* module[t]: the functions of t's JITModule, in the
                     \* order of their declarations
  pending,           \* pending[t]: those it has to finalize
  cells,             \* cells[t], base[t], done[t]: what compile_parser has
  base,              \* collected, the functions that the module had before,
  done,              \* and how many cells are defined
  unannounced,       \* unannounced[t]: functions to register, in order
  ext,               \* ext[k]: OnceLock of the type: empty, running, done
  parser,            \* parser[k]: the function in it
  dump,              \* OnceLock of the dump: closed, open, or none
  owner,             \* of the dump's mutex
  index, clock,      \* next record's index; time since the dump was opened
  record,            \* record[t]: the record that t is about to write
  file,              \* what is in the dump
  faults,            \* writes that failed
  broken, hurt       \* history, per thread: compilations of a type with a
                     \* Ty::Unknown that panicked, and of one without

dumpVars == <<dump, owner, index, clock, record, file, faults>>
moduleVars == <<module, pending, cells, base, done>>
extVars == <<ext, parser>>
history == <<broken, hurt>>
vars == <<pc, key, calls, moduleVars, unannounced, extVars, dumpVars, history>>

NoParser == <<NoThread, 0>>
NoRecord == [fn |-> NoParser, index |-> 0, ts |-> 0]

Init ==
  /\ pc = [t \in Threads |-> "idle"]
  /\ key = [t \in Threads |-> CHOOSE k \in Keys : TRUE]
  /\ calls = 0
  /\ module = [t \in Threads |-> <<>>]
  /\ pending = [t \in Threads |-> {}]
  /\ cells = [t \in Threads |-> <<>>]
  /\ base = [t \in Threads |-> 0]
  /\ done = [t \in Threads |-> 0]
  /\ unannounced = [t \in Threads |-> <<>>]
  /\ ext = [k \in Keys |-> "empty"]
  /\ parser = [k \in Keys |-> NoParser]
  /\ dump = "closed"
  /\ owner = NoThread
  /\ index = 0
  /\ clock = 0
  /\ record = [t \in Threads |-> NoRecord]
  /\ file = <<>>
  /\ faults = 0
  /\ broken = [t \in Threads |-> 0]
  /\ hurt = [t \in Threads |-> 0]

Goto(t, from, to) ==
  /\ pc[t] = from
  /\ pc' = [pc EXCEPT ![t] = to]

-----------------------------------------------------------------------------
(* The call, and the OnceLock of the type's parser.                        *)

\* from_json_jit_parse, from r.ext(..) on.
Call(t, k) ==
  /\ calls < MaxCalls
  /\ Goto(t, "idle", "getParser")
  /\ key' = [key EXCEPT ![t] = k]
  /\ calls' = calls + 1
  /\ UNCHANGED <<moduleVars, unannounced, extVars, dumpVars, history>>

\* The parser is there: it runs, and the call is over.
RunParser(t) ==
  /\ Goto(t, "getParser", "idle")
  /\ ext[key[t]] = "done"
  /\ UNCHANGED <<key, calls, moduleVars, unannounced, extVars, dumpVars,
                 history>>

\* Deviation: whoever finds no parser makes one.
ExtBeginAnyway(t) ==
  /\ Goto(t, "getParser", "collect")
  /\ ext[key[t]] # "done"
  /\ ext' = [ext EXCEPT ![key[t]] = "running"]
  /\ UNCHANGED <<key, calls, moduleVars, unannounced, parser, dumpVars,
                 history>>

\* get_or_init: one thread runs the initialiser, the others wait for it.
ExtBegin(t) ==
  /\ Goto(t, "getParser", "collect")
  /\ ext[key[t]] = "empty"
  /\ ext' = [ext EXCEPT ![key[t]] = "running"]
  /\ UNCHANGED <<key, calls, moduleVars, unannounced, parser, dumpVars,
                 history>>

\* A panic in the initialiser leaves the OnceLock empty.  The locals of
\* compile_parser are dropped, the module is not.
Panics(t) ==
  /\ pc' = [pc EXCEPT ![t] = "idle"]
  /\ ext' = [ext EXCEPT ![key[t]] = "empty"]
  /\ cells' = [cells EXCEPT ![t] = <<>>]
  /\ base' = [base EXCEPT ![t] = 0]
  /\ done' = [done EXCEPT ![t] = 0]
  /\ UNCHANGED <<key, calls, unannounced, parser, dumpVars>>

\* The thread ends, and with it its module; another one takes its name.
\* The memory of the code is not freed: cranelift's Memory leaks it.
ThreadEnds(t) ==
  /\ pc[t] = "idle"
  /\ pending[t] # {}
  /\ pending' = [pending EXCEPT ![t] = {}]
  /\ UNCHANGED <<pc, key, calls, module, cells, base, done, unannounced,
                 extVars, dumpVars, history>>

-----------------------------------------------------------------------------
(* compile_parser.                                                         *)

Function(b, callees, phase) == [body |-> b, callees |-> callees,
                                phase |-> phase]

Declared(b) == Function(b, {}, "declared")

\* Collect the cells, and declare a function for each.
Declare(t) ==
  /\ Goto(t, "collect", "define")
  /\ cells' = [cells EXCEPT ![t] = CellsOf(key[t])]
  /\ base' = [base EXCEPT ![t] = Len(module[t])]
  /\ module' = [module EXCEPT ![t] =
       @ \o [i \in 1..Len(CellsOf(key[t])) |-> Declared(CellsOf(key[t])[i])]]
  /\ done' = [done EXCEPT ![t] = 0]
  /\ UNCHANGED <<key, calls, pending, unannounced, extVars, dumpVars,
                 history>>

\* Deviation: recs outlives a compilation, and the first entry stays.
FirstFunctionOf(t, c) ==
  CHOOSE i \in DOMAIN module[t] :
    /\ module[t][i].body = c
    /\ \A j \in 1..(i - 1) : module[t][j].body # c

\* Deviation: the functions are numbered one too high.
NextFunctionOf(t, c) ==
  base[t] + 1 + CHOOSE i \in 1..Len(cells[t]) : cells[t][i] = c

\* recs: the function that was declared for cell c.
FunctionOf(t, c) ==
  base[t] + CHOOSE i \in 1..Len(cells[t]) : cells[t][i] = c

\* The functions called in b: recs[..] of every Ty::Ref.
CalleesOf(t, b) == {FunctionOf(t, c) : c \in ToSet(Mentions[b])}

\* Deviation: a function is declared when its turn comes.
EmitsInTurn(t, b) ==
  /\ b \notin Unknown
  /\ \A c \in ToSet(Mentions[b]) :
       \E i \in DOMAIN cells[t] : i <= done[t] + 1 /\ cells[t][i] = c

\* Emit::parse comes to the end of b: no Ty::Unknown, no cell without a
\* function.
Emits(t, b) == b \notin Unknown /\ ToSet(Mentions[b]) \subseteq ToSet(cells[t])

\* The first cell whose function is not defined yet.
Cell(t) == cells[t][done[t] + 1]

\* The function of a cell: emit, define, to be finalized.
DefineNode(t) ==
  /\ pc[t] = "define"
  /\ done[t] < Len(cells[t])
  /\ Emits(t, Cell(t))
  /\ module' = [module EXCEPT ![t][base[t] + done[t] + 1] =
       Function(Cell(t), CalleesOf(t, Cell(t)), "defined")]
  /\ pending' = [pending EXCEPT ![t] = @ \union {base[t] + done[t] + 1}]
  /\ done' = [done EXCEPT ![t] = @ + 1]
  /\ UNCHANGED <<pc, key, calls, cells, base, unannounced, extVars, dumpVars,
                 history>>

\* Which compilation failed: one that had to, or one of a sound type.
Blame(t) ==
  IF Sound(key[t])
  THEN hurt' = [hurt EXCEPT ![t] = @ + 1] /\ UNCHANGED broken
  ELSE broken' = [broken EXCEPT ![t] = @ + 1] /\ UNCHANGED hurt

\* "jit parser: unknown type", in the middle of a function.
DefineNodePanics(t) ==
  /\ pc[t] = "define"
  /\ done[t] < Len(cells[t])
  /\ ~Emits(t, Cell(t))
  /\ Panics(t)
  /\ Blame(t)
  /\ UNCHANGED <<module, pending>>

\* The function of the type itself, declared last.
Top(t) == base[t] + Len(cells[t]) + 1

DefineTop(t) ==
  /\ Goto(t, "define", "finalize")
  /\ done[t] = Len(cells[t])
  /\ Emits(t, key[t])
  /\ module' = [module EXCEPT ![t] =
       Append(@, Function(key[t], CalleesOf(t, key[t]), "defined"))]
  /\ pending' = [pending EXCEPT ![t] = @ \union {Top(t)}]
  /\ UNCHANGED <<key, calls, cells, base, done, unannounced, extVars,
                 dumpVars, history>>

DefineTopPanics(t) ==
  /\ pc[t] = "define"
  /\ done[t] = Len(cells[t])
  /\ ~Emits(t, key[t])
  /\ module' = [module EXCEPT ![t] = Append(@, Declared(key[t]))]
  /\ Panics(t)
  /\ Blame(t)
  /\ UNCHANGED pending

\* finalize_definitions takes the whole list of the module, what an earlier
\* compilation has left in it included, and looks up every callee.
Resolvable(t) ==
  \A f \in pending[t] : \A g \in module[t][f].callees :
    module[t][g].phase # "declared"

Finalized(t) ==
  [f \in DOMAIN module[t] |->
     IF f \in pending[t] THEN [module[t][f] EXCEPT !.phase = "final"]
     ELSE module[t][f]]

Finalize(t) ==
  /\ Goto(t, "finalize", "announce")
  /\ Resolvable(t)
  /\ module' = [module EXCEPT ![t] = Finalized(t)]
  /\ pending' = [pending EXCEPT ![t] = {}]
  /\ unannounced' = [unannounced EXCEPT ![t] =
       <<Top(t)>> \o [i \in 1..Len(cells[t]) |-> base[t] + i]]
  /\ UNCHANGED <<key, calls, cells, base, done, extVars, dumpVars, history>>

\* "can't resolve symbol": the list has been taken, and is lost.
FinalizePanics(t) ==
  /\ pc[t] = "finalize"
  /\ ~Resolvable(t)
  /\ pending' = [pending EXCEPT ![t] = {}]
  /\ Panics(t)
  /\ Blame(t)
  /\ UNCHANGED module

\* Deviation: the parser is handed out when its own function is announced.
CompiledEarly(t) ==
  /\ pc[t] = "announce"
  /\ IF Len(unannounced[t]) = Len(cells[t])
     THEN /\ ext' = [ext EXCEPT ![key[t]] = "done"]
          /\ parser' = [parser EXCEPT ![key[t]] = <<t, Top(t)>>]
     ELSE UNCHANGED extVars
  /\ pc' = [pc EXCEPT ![t] = IF unannounced[t] = <<>> THEN "getParser" ELSE @]
  /\ UNCHANGED <<key, calls, moduleVars, unannounced, dumpVars, history>>

\* The pointer to the top function goes into the OnceLock.
Compiled(t) ==
  /\ Goto(t, "announce", "getParser")
  /\ unannounced[t] = <<>>
  /\ ext' = [ext EXCEPT ![key[t]] = "done"]
  /\ parser' = [parser EXCEPT ![key[t]] = <<t, Top(t)>>]
  /\ cells' = [cells EXCEPT ![t] = <<>>]
  /\ base' = [base EXCEPT ![t] = 0]
  /\ done' = [done EXCEPT ![t] = 0]
  /\ UNCHANGED <<key, calls, module, pending, unannounced, dumpVars, history>>

-----------------------------------------------------------------------------
(* jitdump.rs, register: one record for each function, the type's first.   *)

\* state(): the first to come creates the file, which may fail for good.
DumpOpens(t) ==
  /\ pc[t] = "announce"
  /\ unannounced[t] # <<>>
  /\ dump = "closed"
  /\ dump' \in {"open", "none"}
  /\ UNCHANGED <<pc, key, calls, moduleVars, unannounced, extVars, owner,
                 index, clock, record, file, faults, history>>

\* Deviation: a dump that could not be opened is tried again.
OpenAgain(t) ==
  /\ pc[t] = "announce"
  /\ unannounced[t] # <<>>
  /\ dump = "none"
  /\ dump' = "closed"
  /\ UNCHANGED <<pc, key, calls, moduleVars, unannounced, extVars, owner,
                 index, clock, record, file, faults, history>>

\* No dump: register returns.
NoDump(t) ==
  /\ pc[t] = "announce"
  /\ unannounced[t] # <<>>
  /\ dump = "none"
  /\ unannounced' = [unannounced EXCEPT ![t] = Tail(@)]
  /\ UNCHANGED <<pc, key, calls, moduleVars, extVars, dumpVars, history>>

\* Deviation: the index is taken before the mutex.
LockLate(t) ==
  /\ Goto(t, "announce", "write")
  /\ unannounced[t] # <<>>
  /\ dump = "open"
  /\ owner' = t
  /\ clock' \in {clock, clock + 1} \intersect 0..MaxClock
  /\ index' = index + 1
  /\ record' = [record EXCEPT ![t] =
       [fn |-> <<t, Head(unannounced[t])>>, index |-> index, ts |-> clock']]
  /\ UNCHANGED <<key, calls, moduleVars, unannounced, extVars, dump, file,
                 faults, history>>

\* With the mutex held: read the clock, take an index, build the record.
DumpLock(t) ==
  /\ Goto(t, "announce", "write")
  /\ unannounced[t] # <<>>
  /\ dump = "open"
  /\ owner = NoThread
  /\ owner' = t
  /\ clock' \in {clock, clock + 1} \intersect 0..MaxClock
  /\ index' = index + 1
  /\ record' = [record EXCEPT ![t] =
       [fn |-> <<t, Head(unannounced[t])>>, index |-> index, ts |-> clock']]
  /\ UNCHANGED <<key, calls, moduleVars, unannounced, extVars, dump, file,
                 faults, history>>

\* write_all: the whole record, or as much of it, if any, as was written
\* before an error, which is ignored.
DumpWrite(t) ==
  /\ Goto(t, "write", "announce")
  /\ \E whole \in BOOLEAN :
       /\ whole \/ faults < MaxFaults
       /\ file' = Append(file, [whole |-> whole, rec |-> record[t]])
       /\ faults' = IF whole THEN faults ELSE faults + 1
  /\ owner' = NoThread
  /\ record' = [record EXCEPT ![t] = NoRecord]
  /\ unannounced' = [unannounced EXCEPT ![t] = Tail(@)]
  /\ UNCHANGED <<key, calls, moduleVars, extVars, dump, index, clock, history>>

-----------------------------------------------------------------------------
\* Every step of a call but its start.
Step(t) ==
  \/ RunParser(t) \/ ExtBegin(t) \/ Declare(t)
  \/ DefineNode(t) \/ DefineNodePanics(t)
  \/ DefineTop(t) \/ DefineTopPanics(t)
  \/ Finalize(t) \/ FinalizePanics(t) \/ Compiled(t)
  \/ DumpOpens(t) \/ NoDump(t) \/ DumpLock(t) \/ DumpWrite(t)

\* All calls have been made: the only way the system may stop.
AllDone ==
  /\ calls = MaxCalls
  /\ \A t \in Threads : pc[t] = "idle"
  /\ UNCHANGED vars

Next ==
  \/ \E t \in Threads, k \in Keys : Call(t, k)
  \/ \E t \in Threads : Step(t) \/ ThreadEnds(t)
  \/ AllDone

Spec == Init /\ [][Next]_vars

\* A runnable thread is scheduled again; nothing is assumed of the order in
\* which the mutex of the dump is handed out.
FairSpec == Spec /\ \A t \in Threads : WF_vars(Step(t))

-----------------------------------------------------------------------------
(* Properties.                                                             *)

Functions == [body : Bodies, callees : SUBSET Nat,
              phase : {"declared", "defined", "final"}]

Names == (Threads \union {NoThread}) \X Nat

Records == [fn : Names, index : Nat, ts : Nat]

\* What lies in a module lies in it.
Placed(t) ==
  /\ \A f \in DOMAIN module[t] : module[t][f].callees \subseteq DOMAIN module[t]
  /\ pending[t] \subseteq DOMAIN module[t]
  /\ ToSet(unannounced[t]) \subseteq DOMAIN module[t]
  /\ done[t] <= Len(cells[t])

Typed ==
  /\ pc \in [Threads -> {"idle", "getParser", "collect", "define",
                         "finalize", "announce", "write"}]
  /\ key \in [Threads -> Keys]
  /\ calls \in 0..MaxCalls
  /\ module \in [Threads -> Seq(Functions)]
  /\ pending \in [Threads -> SUBSET Nat]
  /\ cells \in [Threads -> Seq(Cells)]
  /\ base \in [Threads -> Nat] /\ done \in [Threads -> Nat]
  /\ unannounced \in [Threads -> Seq(Nat)]
  /\ ext \in [Keys -> {"empty", "running", "done"}]
  /\ parser \in [Keys -> Names]
  /\ dump \in {"closed", "open", "none"}
  /\ owner \in Threads \union {NoThread}
  /\ index \in Nat /\ clock \in 0..MaxClock
  /\ record \in [Threads -> Records]
  /\ file \in Seq([whole : BOOLEAN, rec : Records])
  /\ faults \in 0..MaxFaults
  /\ broken \in [Threads -> Nat] /\ hurt \in [Threads -> Nat]

\* Types of the variables; functions call functions of their module.
TypeOK == Typed /\ \A t \in Threads : Placed(t)

\* The code behind a finalized function is whole (jit.rs:230): it calls
\* functions that are finalized too, and for each Ty::Ref of its body the one
\* that was made of that cell; and a parser that was handed out is such a
\* function.  This is so for every thread and after any failures: what one
\* compilation has left undefined is never called by another's code.
ParsersLinked ==
  /\ \A t \in Threads : \A f \in DOMAIN module[t] :
       module[t][f].phase = "final" =>
         /\ \A g \in module[t][f].callees : module[t][g].phase = "final"
         /\ {module[t][g].body : g \in module[t][f].callees}
              = ToSet(Mentions[module[t][f].body])
  /\ \A k \in Keys : ext[k] = "done" =>
       LET f == module[parser[k][1]][parser[k][2]]
       IN  f.phase = "final" /\ f.body = k

\* A sound type fails to compile only on a thread where a broken one did
\* (jit.rs:193, jit.rs:230), and one failure costs one: the list that could
\* not be resolved is gone.
FailuresPaid == \A t \in Threads : hurt[t] <= broken[t]

\* The functions that a parser runs: the least set that has its own and, with
\* a function, those that it calls.
Code(k) ==
  LET t == parser[k][1]
      closed == {S \in SUBSET DOMAIN module[t] :
                   parser[k][2] \in S /\ \A f \in S : module[t][f].callees \subseteq S}
  IN  {<<t, f>> : f \in {g \in DOMAIN module[t] : \A S \in closed : g \in S}}

\* jitdump.rs:1: profilers can name the code that runs.  If there is a dump,
\* every function of every parser handed out has its record in it before
\* anyone can run it, one record for one, save what failed writes took.
NamedBeforeRun ==
  LET code == UNION {Code(k) : k \in {j \in Keys : ext[j] = "done"}}
      whole == {i \in DOMAIN file : file[i].whole}
  IN  dump = "open" =>
        /\ Cardinality(code \ {file[i].rec.fn : i \in whole}) <= faults
        /\ \A i, j \in DOMAIN file : file[i].rec.fn = file[j].rec.fn => i = j

\* jitdump.rs:68: whichever threads register at the same time, the records
\* are in the file in the order of their indexes and of their timestamps.
RecordsOrdered ==
  \A i, j \in DOMAIN file : i < j =>
    /\ file[i].rec.index < file[j].rec.index
    /\ file[i].rec.ts <= file[j].rec.ts

\* The inductive invariant of the proofs.  In module m with functions p to
\* finalize: those have code, and the ones they call are to be finalized with
\* them, unless they are final or have no code; code calls what its body
\* mentions; final code calls final code.
Linked(m, p) ==
  /\ \A f \in p : m[f].phase = "defined"
  /\ \A f \in p : \A g \in m[f].callees : m[g].phase = "defined" => g \in p
  /\ \A f \in DOMAIN m : m[f].phase # "declared" =>
       {m[g].body : g \in m[f].callees} = ToSet(Mentions[m[f].body])
  /\ \A f \in DOMAIN m : m[f].phase = "final" =>
       \A g \in m[f].callees : m[g].phase = "final"

\* While cells c are compiled, d of them done: their functions are the last
\* of m, after the first b, and those that are done wait in p.
Window(m, p, c, b, d) ==
  /\ Len(m) = b + Len(c)
  /\ \A i \in 1..Len(c) :
       /\ m[b + i].body = c[i]
       /\ i <= d => b + i \in p
       /\ i > d => m[b + i].phase = "declared"

\* Where a compilation is, its module is: the type's own function comes last.
Compiling(t) ==
  /\ pc[t] = "define" =>
       /\ cells[t] = CellsOf(key[t])
       /\ Window(module[t], pending[t], cells[t], base[t], done[t])
  /\ pc[t] = "finalize" => Top(t) \in pending[t]
  /\ pc[t] \in {"announce", "write"} => module[t][Top(t)].phase = "final"
  /\ pc[t] \in {"finalize", "announce", "write"} =>
       /\ Len(module[t]) = Top(t)
       /\ module[t][Top(t)].body = key[t]

\* The next finalize_definitions of t is going to panic, whatever the
\* compilation under way still defines.
Doomed(t) ==
  \E f \in pending[t] : \E g \in module[t][f].callees :
    /\ module[t][g].phase = "declared"
    /\ pc[t] = "define" => g <= base[t]

\* The parsers handed out are final functions of their types.
HandedOut ==
  \A k \in Keys : ext[k] = "done" =>
    /\ parser[k][1] \in Threads
    /\ parser[k][2] \in DOMAIN module[parser[k][1]]
    /\ module[parser[k][1]][parser[k][2]].phase = "final"
    /\ module[parser[k][1]][parser[k][2]].body = k

\* The thread that writes has the mutex, and its record is the newest.
Recording ==
  /\ \A t \in Threads : pc[t] = "write" <=> owner = t
  /\ \A i \in DOMAIN file : file[i].rec.index < index /\ file[i].rec.ts <= clock
  /\ \A t \in Threads : pc[t] = "write" =>
       /\ unannounced[t] # <<>>
       /\ record[t].index < index /\ record[t].ts <= clock
       /\ \A i \in DOMAIN file :
            file[i].rec.index < record[t].index /\ file[i].rec.ts <= record[t].ts

ThreadInv(t) ==
  /\ Placed(t)
  /\ Linked(module[t], pending[t])
  /\ Compiling(t)
  /\ hurt[t] <= broken[t]
  /\ Doomed(t) => hurt[t] < broken[t]

IInv ==
  /\ Typed
  /\ \A t \in Threads : ThreadInv(t)
  /\ HandedOut
  /\ Recording /\ RecordsOrdered

\* Where a thread is in the initialiser of its type's OnceLock.
Making == {"collect", "define", "finalize", "announce", "write"}

\* While a thread is there no other is, and no parser is.
Makers ==
  /\ \A t \in Threads : pc[t] \in Making => ext[key[t]] = "running"
  /\ \A t, u \in Threads :
       pc[t] \in Making /\ pc[u] \in Making /\ key[t] = key[u] => t = u
  /\ \A k \in Keys : ext[k] # "done" => parser[k] = NoParser

\* What is behind a compilation: no Ty::Unknown in what is defined, nothing to
\* finalize in what is final.
Vetted(t) ==
  /\ pc[t] = "define" => \A i \in 1..done[t] : cells[t][i] \notin Unknown
  /\ pc[t] \in {"finalize", "announce", "write"} => Sound(key[t])
  /\ pc[t] \in {"announce", "write"} => pending[t] = {}

MakersInv == Makers /\ \A t \in Threads : Vetted(t)

\* Every call ends: no thread waits forever for the dump's mutex or for an
\* initialiser that has panicked.
CallsEnd == \A t \in Threads : pc[t] # "idle" ~> pc[t] = "idle"

-----------------------------------------------------------------------------
(* The promise kept: see ParserCache.                                      *)

Phase(l) ==
  IF l = "idle" THEN "idle" ELSE IF l \in Making THEN "makes" ELSE "asks"

phases == [t \in Threads |-> Phase(pc[t])]
doomedThreads == {t \in Threads : Doomed(t)}
soundTypes == {k \in Keys : Sound(k)}

Cache == INSTANCE ParserCache WITH
  Bindable <- soundTypes,
  phase <- phases,
  want <- key,
  spoilt <- doomedThreads

\* resolve.rs:37, "the JIT compiles a given Ty exactly once", though compilations
\* panic and are tried again on any thread (jit.rs:193-230): no two threads are
\* at one type, a parser that was handed out is never taken back or replaced,
\* only a type without a Ty::Unknown anywhere gets one, and a compilation fails
\* for its type or because the one failure before it left the thread's module
\* with code that calls nothing; that is then over.
ImplementsParserCache == Cache!Spec
=============================================================================
