---------------------------- MODULE ResolveCache ----------------------------
(***************************************************************************)
(* crates/bilbo/src/resolve.rs: the process-global two-level cache         *)
(*                                                                         *)
(*    L1 : Mutex<HashMap<caller pc, TypeKey>>                              *)
(*    L2 : Mutex<HashMap<TypeKey, Arc<Resolved>>>                          *)
(*                                                                         *)
(* used by any number of threads, with the OnceLock of the parsed debug    *)
(* info (dwarf.rs STORE) on the way to it and the OnceLock of the compiled *)
(* parser (Resolved::ext) behind it.  A call is from_json or               *)
(* from_json_jit_parse (crates/bilbo-json/src/lib.rs), which run           *)
(* resolved() and then bind the input.  A panic ends the call, drops the   *)
(* guards it holds, and so poisons the mutexes they belong to; the thread  *)
(* may call again.                                                         *)
(***************************************************************************)
EXTENDS Integers

CONSTANTS
  Threads,         \* application threads
  Sites,           \* call sites: what caller_pc() returns
  Slots,           \* addresses of locals in a caller's frame
  Keys,            \* TypeKey: (unit index, offset) of a type DIE
  NoThread,        \* owner of a free mutex
  NoKey,           \* "no entry", "no local"
  Alias,           \* Alias[s][p]: type DIE of the local at p in s's frame
  Unclassifiable,  \* DIEs on which dwarf::classify panics
  Uncompilable,    \* DIEs whose Ty makes jit::compile_parser panic
  MaxCalls         \* bound: calls one thread makes

ASSUME ConstantsAssumption ==
  /\ Sites # {} /\ Slots # {}
  /\ NoThread \notin Threads
  /\ NoKey \notin Keys
  /\ Alias \in [Sites -> [Slots -> Keys \union {NoKey}]]
  /\ Unclassifiable \subseteq Keys
  /\ Uncompilable \subseteq Keys
  /\ MaxCalls \in Nat

VARIABLES
  l1Map, l1Owner, l1Poisoned,  \* static L1
  l2Map, l2Owner, l2Poisoned,  \* static L2; l2Map[k]: k has a Resolved
  store,                       \* OnceLock STORE: empty, loading or ready
  ext,                         \* ext[k]: OnceLock of k's Resolved
  pc, site, slot, key,         \* per thread: where it is, and its locals
  calls,                       \* calls[t]: calls t has made
  classified,                  \* history: completed classify runs per DIE
  compiled                     \* history: completed compile runs per DIE

l1Vars == <<l1Map, l1Owner, l1Poisoned>>
l2Vars == <<l2Map, l2Owner, l2Poisoned>>
argVars == <<site, slot, calls>>
history == <<classified, compiled>>
vars == <<l1Vars, l2Vars, store, ext, pc, key, argVars, history>>

Labels == {"idle", "l1Get", "l2Get", "miss", "load", "l2Entry", "classify",
           "l1Put", "ready", "getParser", "compile"}

Init ==
  /\ l1Map = [s \in Sites |-> NoKey]
  /\ l1Owner = NoThread
  /\ l1Poisoned = FALSE
  /\ l2Map = [k \in Keys |-> FALSE]
  /\ l2Owner = NoThread
  /\ l2Poisoned = FALSE
  /\ store = "empty"
  /\ ext = [k \in Keys |-> "empty"]
  /\ pc = [t \in Threads |-> "idle"]
  /\ site = [t \in Threads |-> CHOOSE s \in Sites : TRUE]
  /\ slot = [t \in Threads |-> CHOOSE p \in Slots : TRUE]
  /\ key = [t \in Threads |-> NoKey]
  /\ calls = [t \in Threads |-> 0]
  /\ classified = [k \in Keys |-> 0]
  /\ compiled = [k \in Keys |-> 0]

Goto(t, from, to) ==
  /\ pc[t] = from
  /\ pc' = [pc EXCEPT ![t] = to]

-----------------------------------------------------------------------------
(* The call, and the lookup in L1.                                         *)

\* from_json / from_json_jit_parse: capture registers, enter resolved().
Call(t, s, p) ==
  /\ calls[t] < MaxCalls
  /\ Goto(t, "idle", "l1Get")
  /\ site' = [site EXCEPT ![t] = s]
  /\ slot' = [slot EXCEPT ![t] = p]
  /\ key' = [key EXCEPT ![t] = NoKey]
  /\ calls' = [calls EXCEPT ![t] = @ + 1]
  /\ UNCHANGED <<l1Vars, l2Vars, store, ext, history>>

\* The hit arm of the `if let`: its body runs with the L1 guard alive.
L1Hit(t) ==
  /\ Goto(t, "l1Get", "l2Get")
  /\ l1Owner = NoThread /\ ~l1Poisoned
  /\ l1Map[site[t]] # NoKey
  /\ key' = [key EXCEPT ![t] = l1Map[site[t]]]
  /\ l1Owner' = t
  /\ UNCHANGED <<l1Map, l1Poisoned, l2Vars, store, ext, argVars, history>>

\* No entry: the guard is dropped at the end of the `if let`, before the
\* unwind.
L1Miss(t) ==
  /\ Goto(t, "l1Get", "miss")
  /\ l1Owner = NoThread /\ ~l1Poisoned
  /\ l1Map[site[t]] = NoKey
  /\ UNCHANGED <<l1Vars, l2Vars, store, ext, key, argVars, history>>

\* lock().unwrap() on a poisoned L1, in the lookup and in the insertion.
L1Panics(t) ==
  /\ \/ Goto(t, "l1Get", "idle")
     \/ Goto(t, "l1Put", "idle")
  /\ l1Owner = NoThread /\ l1Poisoned
  /\ UNCHANGED <<l1Vars, l2Vars, store, ext, key, argVars, history>>

\* The hit path answers from L2 and drops both guards.
L2Hit(t) ==
  /\ Goto(t, "l2Get", "ready")
  /\ l2Owner = NoThread
  /\ ~l2Poisoned /\ l2Map[key[t]]
  /\ l1Owner' = NoThread
  /\ UNCHANGED <<l1Map, l1Poisoned, l2Vars, store, ext, key, argVars,
                 history>>

\* Poisoned L2, or expect("L2 present"): the panic unwinds through every
\* guard the thread holds, L1's among them.
L2HitPanics(t) ==
  /\ Goto(t, "l2Get", "idle")
  /\ l2Owner = NoThread
  /\ ~(~l2Poisoned /\ l2Map[key[t]])
  /\ l2Poisoned' = TRUE
  /\ l1Owner' = NoThread
  /\ l1Poisoned' = TRUE
  /\ UNCHANGED <<l1Map, l2Map, l2Owner, store, ext, key, argVars, history>>

-----------------------------------------------------------------------------
(* The miss path: unwind, parse the debug info once, hunt for the local.   *)

\* dwarf::store(): the first thread to come runs the initialiser.
StoreBegin(t) ==
  /\ Goto(t, "miss", "load")
  /\ store = "empty"
  /\ store' = "loading"
  /\ UNCHANGED <<l1Vars, l2Vars, ext, key, argVars, history>>

StoreLoaded(t) ==
  /\ Goto(t, "load", "miss")
  /\ store' = "ready"
  /\ UNCHANGED <<l1Vars, l2Vars, ext, key, argVars, history>>

\* Opening, mapping or parsing the object file fails: an initialiser that
\* panics leaves the OnceLock empty.
StorePanics(t) ==
  /\ Goto(t, "load", "idle")
  /\ store' = "empty"
  /\ UNCHANGED <<l1Vars, l2Vars, ext, key, argVars, history>>

\* Deviations of the hunt: a missing local goes on to L2; L1 is filled
\* before L2; a local is matched without looking at its address.
HuntUnchecked(t) ==
  /\ Goto(t, "miss", "l2Entry")
  /\ store = "ready"
  /\ key' = [key EXCEPT ![t] = Alias[site[t]][slot[t]]]
  /\ UNCHANGED <<l1Vars, l2Vars, store, ext, argVars, history>>

HuntFillsL1(t) ==
  /\ Goto(t, "miss", "l2Entry")
  /\ store = "ready"
  /\ Alias[site[t]][slot[t]] # NoKey
  /\ key' = [key EXCEPT ![t] = Alias[site[t]][slot[t]]]
  /\ l1Map' = [l1Map EXCEPT ![site[t]] = Alias[site[t]][slot[t]]]
  /\ UNCHANGED <<l1Owner, l1Poisoned, l2Vars, store, ext, argVars, history>>

HuntAnyLocal(t) ==
  /\ Goto(t, "miss", "l2Entry")
  /\ store = "ready"
  /\ \E p \in Slots :
       /\ Alias[site[t]][p] # NoKey
       /\ key' = [key EXCEPT ![t] = Alias[site[t]][p]]
  /\ UNCHANGED <<l1Vars, l2Vars, store, ext, argVars, history>>

\* subprogram_at and local_at_address: the DIE of the local at the pointer.
Hunt(t) ==
  /\ Goto(t, "miss", "l2Entry")
  /\ store = "ready"
  /\ Alias[site[t]][slot[t]] # NoKey
  /\ key' = [key EXCEPT ![t] = Alias[site[t]][slot[t]]]
  /\ UNCHANGED <<l1Vars, l2Vars, store, ext, argVars, history>>

\* Deviation: the hunt runs under L1's guard (a `match` for the `if let`).
HuntPanicsGuarded(t) ==
  /\ Goto(t, "miss", "idle")
  /\ store = "ready"
  /\ Alias[site[t]][slot[t]] = NoKey
  /\ l1Poisoned' = TRUE
  /\ UNCHANGED <<l1Map, l1Owner, l2Vars, store, ext, key, argVars, history>>

\* expect("no local matched the pointer we were handed"), no guard held.
HuntPanics(t) ==
  /\ Goto(t, "miss", "idle")
  /\ store = "ready"
  /\ Alias[site[t]][slot[t]] = NoKey
  /\ UNCHANGED <<l1Vars, l2Vars, store, ext, key, argVars, history>>

-----------------------------------------------------------------------------
(* The entry in L2, classified while the mutex is held, then the entry in  *)
(* L1.                                                                     *)

\* Occupied entry: lock, clone the Arc, unlock.
L2Occupied(t) ==
  /\ Goto(t, "l2Entry", "l1Put")
  /\ l2Owner = NoThread /\ ~l2Poisoned
  /\ l2Map[key[t]]
  /\ UNCHANGED <<l1Vars, l2Vars, store, ext, key, argVars, history>>

\* Deviations: the lock is let go between the check and the insertion; a
\* poisoned L2 is used all the same.
L2VacantUnlocked(t) ==
  /\ Goto(t, "l2Entry", "classify")
  /\ l2Owner = NoThread /\ ~l2Poisoned
  /\ ~l2Map[key[t]]
  /\ UNCHANGED <<l1Vars, l2Vars, store, ext, key, argVars, history>>

L2VacantUnpoisoned(t) ==
  /\ Goto(t, "l2Entry", "classify")
  /\ l2Owner = NoThread
  /\ ~l2Map[key[t]]
  /\ l2Owner' = t
  /\ UNCHANGED <<l1Vars, l2Map, l2Poisoned, store, ext, key, argVars,
                 history>>

\* Vacant entry: or_insert_with runs classify with the guard alive.
L2Vacant(t) ==
  /\ Goto(t, "l2Entry", "classify")
  /\ l2Owner = NoThread /\ ~l2Poisoned
  /\ ~l2Map[key[t]]
  /\ l2Owner' = t
  /\ UNCHANGED <<l1Vars, l2Map, l2Poisoned, store, ext, key, argVars,
                 history>>

\* Deviation: a call that meets a poisoned L2 starts over.
L2EntryRetries(t) ==
  /\ Goto(t, "l2Entry", "l1Get")
  /\ l2Owner = NoThread /\ l2Poisoned
  /\ UNCHANGED <<l1Vars, l2Vars, store, ext, key, argVars, history>>

L2EntryPanics(t) ==
  /\ Goto(t, "l2Entry", "idle")
  /\ l2Owner = NoThread /\ l2Poisoned
  /\ UNCHANGED <<l1Vars, l2Vars, store, ext, key, argVars, history>>

Classified(t) ==
  /\ Goto(t, "classify", "l1Put")
  /\ key[t] \notin Unclassifiable
  /\ l2Map' = [l2Map EXCEPT ![key[t]] = TRUE]
  /\ l2Owner' = NoThread
  /\ classified' = [classified EXCEPT ![key[t]] = @ + 1]
  /\ UNCHANGED <<l1Vars, l2Poisoned, store, ext, key, argVars, compiled>>

\* Deviation: the L2 guard leaks.
ClassifyPanicsLocked(t) ==
  /\ Goto(t, "classify", "idle")
  /\ key[t] \in Unclassifiable
  /\ l2Poisoned' = TRUE
  /\ UNCHANGED <<l1Vars, l2Map, l2Owner, store, ext, key, argVars, history>>

\* E.g. "could not locate ptr/cap/len in DWARF": the L2 guard is dropped
\* while unwinding.
ClassifyPanics(t) ==
  /\ Goto(t, "classify", "idle")
  /\ key[t] \in Unclassifiable
  /\ l2Owner' = NoThread
  /\ l2Poisoned' = TRUE
  /\ UNCHANGED <<l1Vars, l2Map, store, ext, key, argVars, history>>

\* Deviation: L1 is keyed by something coarser than the return address.
L1PutCoarse(t) ==
  /\ Goto(t, "l1Put", "ready")
  /\ l1Owner = NoThread /\ ~l1Poisoned
  /\ l1Map' = [s \in Sites |-> key[t]]
  /\ UNCHANGED <<l1Owner, l1Poisoned, l2Vars, store, ext, key, argVars,
                 history>>

\* l1.lock().unwrap().insert(pc, tk): overwrites.
L1Put(t) ==
  /\ Goto(t, "l1Put", "ready")
  /\ l1Owner = NoThread /\ ~l1Poisoned
  /\ l1Map' = [l1Map EXCEPT ![site[t]] = key[t]]
  /\ UNCHANGED <<l1Owner, l1Poisoned, l2Vars, store, ext, key, argVars,
                 history>>

-----------------------------------------------------------------------------
(* With the Arc<Resolved> in hand: bind with the interpreter, or get the   *)
(* compiled parser from Resolved::ext and run that.                        *)

\* from_json: json::parse and interp::run over r.ty.
Interpret(t) ==
  /\ Goto(t, "ready", "idle")
  /\ UNCHANGED <<l1Vars, l2Vars, store, ext, key, argVars, history>>

\* from_json_jit_parse: r.ext(compile_parser).
GetParser(t) ==
  /\ Goto(t, "ready", "getParser")
  /\ UNCHANGED <<l1Vars, l2Vars, store, ext, key, argVars, history>>

\* The artifact is there: run it.
RunParser(t) ==
  /\ Goto(t, "getParser", "idle")
  /\ ext[key[t]] = "done"
  /\ UNCHANGED <<l1Vars, l2Vars, store, ext, key, argVars, history>>

\* get_or_init: one thread runs the initialiser, the others wait for it.
ExtBegin(t) ==
  /\ Goto(t, "getParser", "compile")
  /\ ext[key[t]] = "empty"
  /\ ext' = [ext EXCEPT ![key[t]] = "running"]
  /\ UNCHANGED <<l1Vars, l2Vars, store, key, argVars, history>>

Compiled(t) ==
  /\ Goto(t, "compile", "getParser")
  /\ key[t] \notin Uncompilable
  /\ ext' = [ext EXCEPT ![key[t]] = "done"]
  /\ compiled' = [compiled EXCEPT ![key[t]] = @ + 1]
  /\ UNCHANGED <<l1Vars, l2Vars, store, key, argVars, classified>>

\* "jit parser: unknown type", or "can't resolve symbol" of what an earlier
\* compilation has left behind, which any type can meet (see JitCompile): the
\* OnceLock is left empty.
CompilePanics(t) ==
  /\ Goto(t, "compile", "idle")
  /\ ext' = [ext EXCEPT ![key[t]] = "empty"]
  /\ UNCHANGED <<l1Vars, l2Vars, store, key, argVars, history>>

-----------------------------------------------------------------------------
\* Every step of a call but its start.
Step(t) ==
  \/ L1Hit(t) \/ L1Miss(t) \/ L1Panics(t) \/ L2Hit(t) \/ L2HitPanics(t)
  \/ StoreBegin(t) \/ StoreLoaded(t) \/ StorePanics(t)
  \/ Hunt(t) \/ HuntPanics(t)
  \/ L2Occupied(t) \/ L2Vacant(t) \/ L2EntryPanics(t)
  \/ Classified(t) \/ ClassifyPanics(t) \/ L1Put(t)
  \/ Interpret(t) \/ GetParser(t) \/ RunParser(t)
  \/ ExtBegin(t) \/ Compiled(t) \/ CompilePanics(t)

\* Every thread has made its calls: the only way the system may stop.
AllDone ==
  /\ \A t \in Threads : pc[t] = "idle" /\ calls[t] = MaxCalls
  /\ UNCHANGED vars

Next ==
  \/ \E t \in Threads, s \in Sites, p \in Slots : Call(t, s, p)
  \/ \E t \in Threads : Step(t)
  \/ AllDone

Spec == Init /\ [][Next]_vars

\* A runnable thread is scheduled again; nothing is assumed of the order in
\* which std's mutexes are handed out.
FairSpec == Spec /\ \A t \in Threads : WF_vars(Step(t))

-----------------------------------------------------------------------------
(* Properties.                                                             *)

\* Where the thread's key is set to a type DIE.
Keyed == {"l2Get", "l2Entry", "classify", "l1Put", "ready", "getParser",
          "compile"}

\* Where resolved() has returned, and where it is sure to.
Answered == {"ready", "getParser", "compile"}
Resolved == Answered \union {"l1Put"}

\* Types of the variables; a thread past the lookups has a type DIE.
TypeOK ==
  /\ l1Map \in [Sites -> Keys \union {NoKey}]
  /\ l2Map \in [Keys -> BOOLEAN]
  /\ l1Owner \in Threads \union {NoThread}
  /\ l2Owner \in Threads \union {NoThread}
  /\ l1Poisoned \in BOOLEAN /\ l2Poisoned \in BOOLEAN
  /\ store \in {"empty", "loading", "ready"}
  /\ ext \in [Keys -> {"empty", "running", "done"}]
  /\ pc \in [Threads -> Labels]
  /\ site \in [Threads -> Sites]
  /\ slot \in [Threads -> Slots]
  /\ key \in [Threads -> Keys \union {NoKey}]
  /\ calls \in [Threads -> 0..MaxCalls]
  /\ classified \in [Keys -> Nat]
  /\ compiled \in [Keys -> Nat]
  /\ \A t \in Threads : pc[t] \in Keyed => key[t] \in Keys

\* expect("L2 present") never fires (resolve.rs:64): an L1 entry, and any
\* thread's answer, has its Resolved in L2 although the two maps are
\* updated under different locks, one after the other.
SiteHasResolved ==
  /\ \A s \in Sites : l1Map[s] # NoKey => l2Map[l1Map[s]]
  /\ \A t \in Threads : pc[t] \in Resolved => l2Map[key[t]]

\* resolve.rs:92: a type DIE is classified once, however many threads miss
\* in L1 on it at the same time, and compiled once (Resolved::ext).
OncePerKey ==
  \A k \in Keys : classified[k] <= 1 /\ compiled[k] <= 1

\* A failed call site never takes L1 down: only a failed classification
\* does, through L2 (no panic of the miss path holds the L1 guard).
L1PoisonedByL2 == l1Poisoned => l2Poisoned

\* The call sites whose every pointer aliases a local of one type.
Monomorphic == {s \in Sites : \A p, q \in Slots : Alias[s][p] = Alias[s][q]}

\* At such a site every call gets the type of the local its pointer
\* aliases, whichever thread's call filled the caches, and however many
\* calls of other sites and types were filling them meanwhile.
AliasedAtMonomorphicSites ==
  \A t \in Threads :
    (pc[t] \in Answered /\ site[t] \in Monomorphic)
      => key[t] = Alias[site[t]][slot[t]]

\* lib.rs:24: "Resolve (and cache, two levels) whatever local `ptr` aliases
\* in the *caller's* frame": the same at every site.
ResultIsAliased ==
  \A t \in Threads :
    pc[t] \in Answered => key[t] = Alias[site[t]][slot[t]]

\* Once a classification has failed, no type is added: the registry a call
\* sees afterwards is the one it had before.
FrozenWhenPoisoned == [][l2Poisoned => l2Map' = l2Map]_vars

\* Every call ends, with a result or a panic: no thread waits forever for a
\* mutex or for another thread's initialiser.
CallsEnd == \A t \in Threads : pc[t] # "idle" ~> pc[t] = "idle"

-----------------------------------------------------------------------------
(* The invariant that the proofs rest on.                                  *)

KeysAt(s) == {Alias[s][p] : p \in Slots} \ {NoKey}

\* A mutex is held exactly where the code has a live guard.
GuardsHeld ==
  \A t \in Threads :
    /\ l1Owner = t <=> pc[t] = "l2Get"
    /\ l2Owner = t <=> pc[t] = "classify"

\* A cached type is one of its call site's own.
CachedAtSite ==
  /\ \A s \in Sites : l1Map[s] # NoKey => l1Map[s] \in KeysAt(s)
  /\ \A t \in Threads : pc[t] \in Keyed => key[t] \in KeysAt(site[t])

\* On the miss path the key is that of the pointer's local.
MissedKey ==
  \A t \in Threads :
    pc[t] \in {"l2Entry", "classify"} =>
      store = "ready" /\ key[t] = Alias[site[t]][slot[t]]

\* The holder of the L2 lock fills a vacant entry of a healthy map.
EntryVacant ==
  \A t \in Threads :
    pc[t] = "classify" => ~l2Map[key[t]] /\ ~l2Poisoned

HitHasResolved == \A t \in Threads : pc[t] = "l2Get" => l2Map[key[t]]

\* A OnceLock's initialiser runs in one thread at a time.
OneInitialiser ==
  /\ \A t \in Threads : pc[t] = "load" => store = "loading"
  /\ \A t \in Threads : pc[t] = "compile" => ext[key[t]] = "running"
  /\ \A t, u \in Threads :
       /\ pc[t] = "load" /\ pc[u] = "load" => t = u
       /\ pc[t] = "compile" /\ pc[u] = "compile" /\ key[t] = key[u] => t = u

\* What has been classified and compiled is what the caches hold.
Counted ==
  \A k \in Keys :
    /\ classified[k] = IF l2Map[k] THEN 1 ELSE 0
    /\ compiled[k] = IF ext[k] = "done" THEN 1 ELSE 0

IInv ==
  /\ TypeOK /\ GuardsHeld /\ CachedAtSite /\ MissedKey /\ EntryVacant
  /\ HitHasResolved /\ SiteHasResolved /\ OneInitialiser /\ Counted
  /\ L1PoisonedByL2

-----------------------------------------------------------------------------
(* The promise kept: see TypeRegistry.                                     *)

Phase(l) ==
  IF l = "idle" THEN "idle" ELSE IF l \in Answered THEN "answered" ELSE "asked"

classifiedTypes == {k \in Keys : l2Map[k]}
compiledTypes == {k \in Keys : ext[k] = "done"}
phases == [t \in Threads |-> Phase(pc[t])]
answers == [t \in Threads |-> IF pc[t] \in Answered THEN key[t] ELSE NoKey]

Registry == INSTANCE TypeRegistry WITH
  loaded <- store = "ready",
  registered <- classifiedTypes,
  compiled <- compiledTypes,
  broken <- l2Poisoned,
  phase <- phases,
  answer <- answers

\* resolved() implements the registry: every answer is a registered type of
\* the call's own site, every failure has one of the three reasons.
ImplementsRegistry == Registry!Spec
=============================================================================
