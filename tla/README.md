# A TLA+ model of bilbo

bilbo deserialises JSON into a local variable whose type it is never told. It
captures its caller's frame, finds in the program's own DWARF which local the
pointer it was handed aliases, turns the local's type DIE into a `Ty`, and binds
the JSON into the local's memory, with an interpreter or with a parser that
cranelift compiles for the type. All of that is done once per call site and once
per type, and cached for the life of the process.

## Inventory

| component | state | operations | hard parts |
|---|---|---|---|
| type cache, `bilbo/src/resolve.rs` | `L1` (caller pc -> TypeKey), `L2` (TypeKey -> `Arc<Resolved>`), both under a mutex; a `OnceLock` per `Resolved` | `resolved`, `Resolved::ext` | threads, two locks, panics under a lock, a miss path longer than the critical sections |
| debug info, `dwarf.rs: store` | `OnceLock<Store>` | `store` | one initialiser, which may panic and be run again |
| classification, `dwarf.rs: classify` and below, `plan.rs` | thread-local `MEMO`, the `RecCell`s handed out | `classify`, `MemoGuard::drop` | type graphs with cycles, stubs redirected into other units, panics half way |
| definition index, `dwarf.rs: def_index`, `is_stub` | `OnceLock` of name -> DIE | `def_index`, `def_site` | a tree walked as a flat list with a stack of open frames |
| the hunt, `dwarf.rs: subprogram_at`, `local_at_address`, `Hunt` | `fallback`, `mu`, `seen` of one scan | `scan`, `var_location`, `eval_addr`, `sole_maybe_uninit` | locals that share a stack slot, location lists, locals without a location |
| JIT compiler, `bilbo-json/src/jit.rs: Jit` | thread-local `JITModule`, a counter for names | `compile_parser`, `collect_cells` | one function per cell, a panic between two of them, code that outlives its thread |
| compiled parser, `jit.rs: Emit`, `rt_*` | the value being built, cursor, heap blocks | `parse`, `parse_struct`, `parse_vec`, `parse_map`, `rt_realloc`, ... | buffers that grow, values half built, arithmetic at boundaries |
| interpreter, `interp.rs`, `json.rs` | as above, over a `Json` tree | `run`, `parse` | must bind what the compiled parser binds |
| map trampolines, `tramp.rs`, `dwarf.rs: resolve_tramp` | a map and the temporaries of one entry | `map_new_at`, `map_insert` | ownership of the temporaries |
| jitdump, `jitdump.rs` | `Option<Mutex<State>>`: file, index, time base | `register` | order of records, short writes |
| platform, `frame.rs`, `platform/` | image slide and unwinder in `OnceLock`s | `raw`, `unwind`, `caller_pc` | architecture and I/O |

A call goes down this list: `from_json` and `from_json_jit_parse` capture the
frame (platform) and call `resolved` (cache), which on a miss unwinds, loads the
debug info, hunts for the local and, for a new type, runs `classify` with the L2
lock held. The caller then interprets the `Ty`, or gets the compiled parser from
`Resolved::ext`, compiling it if it is the first, and runs it.

What must be right, per component: the cache never answers with a type that is
not there, never does the work twice and never lets a failure spread further
than it says; the classification of any type graph ends, leaves nothing behind
and unfolds to the type it was given; the index has each complete definition;
the hunt finds the local at the pointer; a failed compilation harms nobody else;
the two ways of binding agree and stay inside their buffers.

`PROJECT.json` lists, line by line, what of this a test would hardly reach
("hazards").

## Modules

* `TypeRegistry` is what the cache promises, with no lock and no lookup order:
  a set of registered types that only grows, answers from it, and the three
  excuses for a call that fails.
* `ResolveCache` is `resolve.rs` with its callers, one action for each piece of
  `resolved` between two lock operations, for each thread; a panic ends the call
  and poisons the mutexes whose guards it drops. `Call` is the entry of
  `from_json*`; `L1Hit`, `L1Miss` and `L1Panics` the lookup of line 62;
  `L2Hit` and `L2HitPanics` line 64; `Store*` the `OnceLock` of `dwarf.rs:37`;
  `Hunt` and `HuntPanics` lines 69 to 90, with the constant `Alias` for what the
  hunt finds; `L2Occupied`, `L2Vacant`, `Classified`, `ClassifyPanics` the entry
  of lines 93 to 105; `L1Put` line 106; `Interpret`, `GetParser`, `RunParser`,
  `ExtBegin`, `Compiled`, `CompilePanics` what the caller does with its answer.
  A compilation may panic for any type: `JitCompile` says when it does.
  The hit path holds the L1 guard while it locks L2, because the temporary of an
  `if let` lives to the end of its body; the miss path holds no guard while it
  unwinds, loads and hunts, and L2's while it classifies.
* `Classify` is `dwarf.rs: classify` as a machine with an explicit stack, over a
  graph of type DIEs in several units given by constants. A frame of the stack
  is a call of `classify` that has minted a `RecCell`; `memo` is the thread-local
  `MEMO`; `handed` are the cells of which a `Ty::Ref` exists, which is what
  `Arc::strong_count > 2` asks at the end of the body. `Unwrap` is the recursion
  through `MaybeUninit` and its like, `BackEdge` the memo's hit, `Descend` its
  miss, `NextPart` the next recursive call of the body, `Finish` the end of
  `classify`; `BodyPanics`, `UnwrapPanics`, `Unwind` (`MemoGuard::drop`) and
  `Unwound` are the panics.
* `Hunt` is `subprogram_at`, `local_at_address` and `Hunt::scan`: the subprogram
  that has the return address, then one walk over the DIEs below it, with an
  explicit stack of scopes. `frame` is what the call is given, chosen once: the
  locations the compiler left, frame base, pc and pointer, and the local that
  the pointer really points to, which the code never sees. `SubprogramAt` is
  lines 150 to 180; `Enter` and `Refuse` are lines 207 to 228; `Descend`, `Skip`,
  `Hit`, `Pass` the turns of the loop of `scan`, `Ascend` and `GiveUp` its end in
  a nested and in the outermost call. `VarLocation`, `EvalAddr` and `Sleb128` are
  the code's functions, over offsets encoded in bytes and addresses modulo
  `Word`; the properties use `Meant`, which never sees an encoding. The code's
  reading of `DW_OP_call_frame_cfa` as the stack pointer at the call site
  (platform/linux.rs:108) is taken as it is. `TreeAssumption` says that the DIEs
  are trees: one parent, one place below it, and no DIE below itself.
* `DefIndex` is `def_index`: `Read` is `next_dfs`, which gives any list of DIEs
  that is a tree; `Close` is `idx_close`, `Place` lines 573 to 588, `EndUnit`
  the end of the loop, which an error in the unit also is; `IsStub` and
  `DefSite` are the code's functions over the finished index.
* `Emit` is the compiled parser: `Emit::parse` and the runtime functions it
  calls, as one machine that reads a document of a type and builds the value in
  memory. Cranelift gets the type unrolled; here a stack of pending work
  (`value`, `struct`, `vec`, `tag`, ...) says where in the type the code is, and
  `CallRef` is the call of a function compiled for a cell. `cur` is the cursor,
  over tokens; `mem` has the words, at addresses that are a block and a path in
  it; `heap` has the blocks, each with its room and whether it is live. Each arm
  of `parse` is an action or a few, cut where the code parses a part before it
  goes on: `ParseSome` and `StoreTag`, `ParseBox` and `StoreBox`, `EnterVec`,
  `Grow` (with `rt_realloc`), `ParseElem` and `EndVec`, `EnterMap` (with
  `map_new_at`), `ParseEntry`, `InsertNew` and `InsertOver` (`map_insert`; the
  `BTreeMap` itself is external). What is replaced in a map is dropped: a frame
  `Drops(blocks)` owns the blocks that are to be freed, and `Drop` frees them and
  goes on with those that they point to. The constant `Types` has the types of
  documents and of their parts, and `Phrases` the grammar of the documents: for
  each document the stretches of tokens that are a value of a type, or what is
  left of the members of a struct, of the items of a tuple, of a list or of a
  map. `PhraseAssumption` says that the document is a value of its type and that
  each phrase is `Spelt` from smaller ones, with no member's name twice; it is
  how "the document is of its type" is said without recursion. `MCBinding`
  derives the phrases by recursive descent (`Derived`) and TLC evaluates the
  assumption. `EnterStruct` has the defaults of the Option fields, `Skip` is
  `rt_skip`, `Unescape` `rt_unescape`. The two stack slots of a map are a block
  that nobody frees.
* `Scanners` is what lies below `Emit`'s tokens, over bytes: a task is a piece of
  a document (a string, an integer, or a member of an object) and what was meant
  by it, of which the machine sees the bytes; the documents are those that
  `TaskAssumption` describes, unit by unit. `OpenQuote`, `CloseQuote` and
  `SkipEscape` are `strspan` with `rt_strscan`; `Build`, `CopyWord`, `CopyTail`
  and `CopySmall` are `build_str` with the copy ladder `emit_copy`; `PushByte`,
  `PushEscape`, `PushCode` and `EndUnescape` are `rt_unescape`; `Sign`,
  `NextDigit` and `EndDigits` are `intval` with `store_sized`; `PastColon`,
  `EnterField` (by `Matches`: `KeyEq`, `WordEq`) and `NoField` are the dispatch
  of `parse_struct`, and `SkipString`, `SkipNest` and `SkipAtom` are `rt_skip`.
  `Ws` and `WsSkip` are `ws` and `rt_wsskip`.
* `JitCompile` is `compile_parser`, with the `OnceLock` of the type it runs in
  (`Resolved::ext`) and `jitdump.rs: register`. `Call`, `RunParser` and
  `ExtBegin` are the caller; `Declare` is `collect_cells` (`CellsOf`) and the
  declarations of lines 121 to 132; `DefineNode` is a turn of the loop of line
  182, `DefineTop` lines 202 to 226, `Finalize` line 230, `Compiled` the end; the
  three actions named `..Panics` are the same where the type has a `Ty::Unknown`,
  or where cranelift cannot resolve a function that was declared and never
  defined. `module` and `pending` are the `JITModule` of each thread, which
  outlives a panic; `ThreadEnds` is the end of a thread and of its module.
  `DumpOpens` and `NoDump` are `jitdump.rs: state`, `DumpLock` and `DumpWrite`
  the critical section of `register`, with writes that fail. Functions without
  code (`size == 0`) do not occur: cranelift gives every function some.
  `Code(k)`, the functions that the parser of `k` can come to run, is the least
  set that has the parser and is closed under calls.
* `ParserCache` is what `Resolved::ext` and `compile_parser` promise, with no
  functions and no modules: which thread makes which parser, the parsers there
  are, and the threads on which the next compilation is lost (`spoilt`). At the
  end of `JitCompile` is the mapping: a thread in the initialiser of its type
  `makes`, one that has asked and is not in it `asks`, and `spoilt` are the
  threads that are `Doomed`.
* `Interp` is `json.rs` and `interp.rs` as operators: `ParseValue` gives the
  tree and where it ends, `Run` the value that is bound, `Panic` where the code
  panics.
* `MCBinding` puts the two on the same documents, reads back from `mem` what
  `Emit` has built (`Load`) and compares it with what `Run` makes of the tree;
  for maps, which the interpreter refuses, with the last value of each key
  (`Wanted`).
* `MCResolveCache`, `MCClassify`, `MCHunt`, `MCDefIndex`, `MCJitCompile` and
  `MCScanners` give the constants values for TLC.
* `ResolveCacheProofs`, `ClassifyProofs`, `DefIndexProofs`, `HuntProofs`,
  `JitCompileProofs`, `JitDumpProofs` (the dump of `JitCompile`), `EmitProofs` and
  `ScannersProofs` have the theorems about the modules they are named after.

A definition whose comment begins with "Deviation" belongs to no specification:
it is the definition after it with a plausible bug, kept to show that the
property it is paired with in `PROJECT.json` ("mutants") can fail.

## Runs

| run | instance | shows |
|---|---|---|
| `cache_calls` | 2 threads, 2 calls each, 3 sites, 3 types, fair | type correctness; `expect("L2 present")` never fires; one classification and one compilation per type; L1 poisoned only after L2; sites of one type answered with it; L2 frozen after a failure; the refinement of `TypeRegistry`; every call returns or panics |
| `cache_site_of_two_types` | 2 threads | **violated**: a site handed locals of two types |
| `classify_walk` | 18 DIEs in two units, every two walks, fair | the memo is the stack, bounded depth, knots tied, the `Ty` unfolds to the type, walks end |
| `classify_absent_key` | the same, one walk | **violated**: absent Option fields are None |
| `classify_box_of_stub` | the same | **violated**: a box has its pointee's size |
| `hunt_scan` | 14 DIEs, 3 return addresses, 8 addresses, every choice of locations, fair | the local found is the documented one; the right type unless a slot is shared; the hunt ends |
| `hunt_shared_slot` | the same | **violated**: locals that share a slot are told apart |
| `index_definitions` | every list of 6 DIEs in 2 units | the index has exactly the complete definitions, the first unit's; one redirect of a stub is enough |
| `binding_documents` | 415 documents of 9 types, fair | the compiled parser stays inside live blocks; no block has two owners, a live block has one and a freed block none; it builds what the interpreter makes of the tree and reads as far; it ends |
| `binding_texts` | a char of two bytes and a string with `\r`, in one tuple | **violated**: the backends agree on texts |
| `scan_bytes` | 44159 states: strings of every length to 26, of every 3 units, cut off; integers of 1 to 3 digits; members with 13 keys, 7 values, 3 ends, few and many fields; fair | a `String` has the characters meant, each in its place, and no byte is written elsewhere; integers their type can hold are exact; a member goes to its field, and one without is skipped to its end; the cursor stays in the document; scanning ends |
| `jit_compile` | 2 threads, 3 calls, 4 types with 5 cells, 1 failed write, fair | finalized code is linked to what its body mentions; a failure costs one other compilation at most, on its own thread; every function that can run has its record in the dump; the records are in order; every call ends; the refinement of `ParserCache` |

The five violated properties are statements of the repository's own
documentation; `PROJECT.json` quotes them ("findings"). `binding_texts` has two
defects of one property, and its trace both: at the end of it the memory has the
lead byte `A~` where the document, and the interpreter (`Run`), have `e'`, and
`CR` where the interpreter has `r`. With `Chars = {"a"}` only the escape is left,
and with `Texts <- SomeTexts` only the character.

Bounds. `MaxCalls` and `MaxRoots` cap what a thread does in `ResolveCache` and
`Classify`, `MaxEntries` the DIEs of `DefIndex`, `Depth` the nesting of recursive
types in the documents of `MCBinding`; `MaxCalls`, `MaxClock` and `MaxFaults` the
calls, the clock of the dump and its failed writes in `JitCompile`. There are no
other bounds. `MaxDepth`, `WordBits` and `GroupBits` of `Hunt` are the code's 32,
64 and 7, scaled to 1, 3 and 2: offsets of one and of two bytes occur, with both
signs, and with and without room above the last byte. `IntBits` and `SwitchMin`
of `Scanners` are the code's 64 and 12, scaled to 8 and 4.

Two calls let a thread meet what its first call left behind, a filled cache or a
poisoned one; two threads give a lock a holder and a waiter, and the theorems
hold for any number. In the instance of `cache_calls` two sites share a type, a
pointer matches nothing, one site has two types, one type cannot be classified
and one cannot be compiled.

The DIEs of `MCClassify` have direct and mutual recursion, recursion entered at
every type of a cycle, a type shared by several others, a typedef to a
declaration under a wrapper, a declaration without a definition, two DIEs with
one offset in two units, and a panic at depth one and two.

The subprogram of `MCHunt` has a block within a block that is too deep, an
inlined subroutine, a local without a type and one that is no `MaybeUninit`, and
two DIEs of one type name; a location is absent, a slot, a value, or a list
whose ranges end at a return address. Its code is in two pieces, next to those
of two other subprograms, of which one has a local at the same place.

Six DIEs in two units make a structure within a structure, a member after it, a
declaration with members, a union without a name, and a definition repeated in
the second unit.

The types of `MCBinding` have every arm of `parse`, options with and without a
niche, nested maps, vectors in vectors, elements and pointees without a size,
and recursion through a box, an option and a map, cut as `classify` cuts it.
Lists have no element or five, one more than the first buffer holds; maps have
no entry or three, two of one key; objects have their Option fields or not,
their keys in order or reversed with an unknown key that has brackets in its
value; strings are empty, have an escape or a character of two bytes; commas
stand between values, after each, or nowhere.

The words of `Scanners` have the code's eight bytes: strings of up to 26 are
copied in no, one, two and three of them, with every remainder; keys are shorter
than, as long as and longer than a word, differ from a name in the last letter
or in length, or have an escape; three units are enough for a surrogate pair
before, after and instead of another escape, at the end of the string too;
integers of three digits pass the range of an accumulator of eight bits.

The types of `MCJitCompile` are one without recursion, one with two cells that
mention each other and themselves, one that fails in its second cell when the
first is defined and calls it, and one that fails after all its cells. With
three calls a thread meets a compilation that failed, the one that pays for it,
and the one after; or two threads compile or register at the same time, and a
third call runs what they made.

No run uses symmetry.

Deadlock is checked in every run: `AllDone` lets the system stop where every
call has ended (or a walk has panicked, a hunt or the index is done), and
nowhere else.

Fairness. `Classify`, `Hunt`, `Emit` and `Scanners` are one thread each, which
runs. In `ResolveCache` and `JitCompile`, `FairSpec` asks of each thread that it
is scheduled while it can run (weak fairness of its steps), and nothing of the
order in which a mutex or a `OnceLock` picks among waiters; starting a call is
not fair. With finitely many calls that is enough: what could keep a call from
ending is a lock that is never released or an initialiser that nobody runs.

## Proofs

`ResolveCacheProofs` proves, for any sets of threads, call sites, slots and
types, any `Alias` and any number of calls:

* `TypeCorrect`: `TypeOK` is inductive as it stands.
* `Invariance`: the inductive invariant `IInv`. What the properties say of the
  maps is not inductive, because the facts they need are in the threads' hands
  between two critical sections: that a guard is held exactly at two program
  points (`GuardsHeld`), that a key in flight belongs to its call site
  (`CachedAtSite`, `MissedKey`), that the entry being filled is vacant and its
  map healthy (`EntryVacant`), that a thread on the hit path has its entry
  (`HitHasResolved`), that an initialiser is alone (`OneInitialiser`) and that
  the history counts agree with the maps (`Counted`).
* From it `L2Present`, `AtMostOnce`, `PoisonOrder`, `RightAtMonomorphicSites`,
  and the action property `Frozen`.
* `Implementation`: `Spec => Registry!Spec`. Lookups, waiting and the start of
  an initialiser are stuttering steps; `Classified` is `Register`,
  `ClassifyPanics` is `Break`, the two returns of `resolved` are `Answer`, and
  every panic is a `Fail` with one of the three excuses.

They rest on `ConstantsAssumption` alone.

`ClassifyProofs` proves, for any finite graph of type DIEs, cyclic in any way:

* `TypeCorrect`: among the types is `FramesOK`, that only the call on top of the
  stack, and only when it is not waiting for a part, has built all the parts of
  its type. That is what makes the index of the next part right.
* `MemoFollowsStack`: `MemoIsInFlight` is inductive given the types. A call
  starts only on a type that the memo does not have; keys of different DIEs
  differ; so no type is on the stack twice, and the entry that the end of a call
  (or its guard, in a panic) removes is nobody else's.
* `DepthOfRecursion`: hence the stack maps injectively into the DIEs.
* `NoEmptyCell`: `KnotsTied` is inductive given the two. A back edge hands out
  the cell of a call in progress, which fills it when it ends.

* `TypesUnfold` (`Unfolds`): `PartsInStep` says of each call in progress that the
  parts it has built are its DIE's, in order, each finished or the cell of a
  call in progress (`Building`); of each finished call that its parts are all
  there (`Built`); that a call waits for the part which the call above it
  works on (`Nested`); and of a call that is about to start that its DIE is the
  awaited part, or is reached from it through wrappers (`Entering`). A part
  `Stands` for a DIE when it was made for what is left of that DIE without
  typedefs, stubs and wrappers, so walks that enter a cycle at another type, or
  come after one that failed, are covered.

They rest on `DieAssumption` (the DIEs are finitely many, and a body has the
parts its shape needs), `DwarfAssumption` (a definition is complete, typedef
chains end, two DIEs are not in one place) and, for `TypesUnfold`,
`WrapperAssumption` (wrappers end; on a graph where they do not, the code does
not return). TLC evaluates the three in every run of `MCClassify`, as it does
`ConstantsAssumption` in every run of `MCResolveCache`.

`JitCompileProofs` proves, for any threads and types, any mentions of cells in
each other's bodies, and any number of calls and failed writes:

* `Invariance`: the inductive invariant `IInv`, and from it `TypeCorrect`. What
  `ParsersLinked` says of finalized code is not inductive: `finalize_definitions`
  makes code of whatever a thread's module has pending, so that `Linked` must say
  of each pending function that it is defined, that it calls what its body
  mentions, and that each callee is final, pending with it, or never defined (and
  then finalizing panics). `Window` and `Compiling` tie the functions of the
  compilation under way to the end of the module, so that numbers and cells
  agree; `HandedOut` carries the parsers through the growth of the modules.
* `Linkage` (`ParsersLinked`) and `FailuresArePaid` (`FailuresPaid`): a thread is
  `Doomed` while a pending function calls one that was left undefined by an
  earlier compilation. Only a failed compilation of a broken type makes it so,
  the next compilation that comes to `finalize_definitions` panics, and the list
  is then empty; so failures of sound types never outnumber the others.
* `DumpOrdered` (`RecordsOrdered`): the thread that writes has the mutex, and its
  record is newer than all in the file (`Recording`).
* `ParsersKept`: `Spec => Cache!Spec`. `MakersInv` goes on from `IInv`: one thread
  at most is in the initialiser of a type, and while it is there is no parser
  (`Makers`); it has met no Ty::Unknown in what it has defined, so that a type
  compiled to its end is `Sound`, and leaves nothing to finalize behind
  (`Vetted`). Declaring and defining, the dump and a `Finalize` that succeeds are
  stuttering steps: none of them makes a thread doomed or saves one. A panic on
  the way is a `Break`, which a sound type never takes; a panic in
  `finalize_definitions` a `Pay`, of a sound type or not.

`JitDumpProofs` goes on from `IInv`:

* `DumpInvariance`: the inductive invariant `DumpIInv`. The functions of a
  compilation call only each other (`Apart`); what is to be announced belongs to
  the compilation under way and is announced once (`Queue`); with a function,
  what it calls is named, and of the compilation under way each function is
  recorded or waits to be (`Covered`); records are of functions that exist, one
  for one, the parsers handed out are named, and a torn record was a failed write
  (`Listed`).
* `NamedFirst` (`NamedBeforeRun`): the named functions are a closed set, so they
  contain `Code(k)`, the least one; what is missing of it in the file is then
  torn, and there are no more torn records than there were failed writes.

They rest on `JitAssumption`, which types the constants, and on
`CellsAssumption`, that the walk of `collect_cells` returns the cells that can be
reached: the walk is recursive over data, which is beyond the provers, and TLC
evaluates it in every run of `MCJitCompile`.

`DefIndexProofs` proves, for any units, any DIEs nested in any way, and an error
or an end after any DIE:

* `Invariant`: the inductive invariant `IInv`. The properties speak of the tree,
  which is known only when it has been read, so `IInv` says what a part of it
  settles. A structure on the stack has everything read since in its subtree and
  its flag tells whether a member of its own was among it (`AllOpen`); the stack
  is `Nested`, so a DIE one level below the innermost structure is a child of no
  other; a structure off the stack gets no member any more (`Closed`), so its
  name is in the index if it is complete (`AllSettled`).
* From it `TypeCorrect`, `Completeness` (`IndexIsComplete`), `Redirection`
  (`OneRedirect`) and `FirstDefinition` (`FirstWins`: units come in order, and an
  earlier unit's definitions are all in the index). `OneRedirect` is the part of
  `DwarfAssumption` that says that a definition is complete.

They rest on `EntryAssumption` alone.

`HuntProofs` proves, for any trees of DIEs of any depth, any locations and any
pointer:

* `WalkInvariance`: the inductive invariant `WalkInv`. The stack is a `Chain`, the
  way down from the subprogram; a local is `Behind` it if the way to it leaves
  the stack at a child before the cursor. The locals seen are those behind
  (`SeenIsBehind`), none of them ended the walk (`NoHit`), the fallback is the
  first of them at the pointer (`FallbackFirst`), and the first `MaybeUninit` is
  first in its list (`MusFirst`). When the outermost scope is exhausted, every
  local is behind. What is found is then the walk's choice by the addresses it
  computed (`Chosen`, `Justified` in `Ended`).
* That what is ahead comes after what is behind (`AheadAfter`, `BehindBefore`) is
  argued by the ancestors of a DIE, defined as the least set that has the DIE and
  is closed under parents. `Path` and `Scanned` are recursive functions over the
  tree; the lemma `Recursion` gives their equations from the roots down, by the
  well-founded part of `TreeAssumption`, and the lemma `Order` is all that the
  rest needs of paths.
* `Decoding`: `DecodesRight`, that an address that is evaluated is the one that
  was meant, for words and groups of any length. The first `k` groups of an
  offset have what is `Below` them, and the sums of `sleb128` are that, modulo the
  word (`SumIs`, by induction over the groups); above the last group there is its
  sign (`EndsThere`, `EncodedIs`), which is extended if there is room, and
  otherwise is a multiple of the word (`Decodes`). Addresses wrap, so that a sum
  of reduced numbers is the sum that was meant (`EvalRead`).
* From these `TypeCorrect` (whatever is found has a type), `WantedIsFound`
  (`FindsWanted`) and `TypeIsRight` (`RightType`).

The theorems rest on `DieAssumption`, `CodeAssumption`, `TreeAssumption` and
`PowerAssumption`, that powers of two double: the provers know nothing of `^`.

`EmitProofs` proves, for any types and any documents of these types:

* `StaysWhole`: the inductive invariant `JInv`, which is `IInv` and `Whole`.
  `IInv` (alone: `StaysSafe`) is `Safe` of the stack, the memory and the heap.
  `InBounds` and `OneOwner` are about words that are there; what keeps them is
  about words still to come. `FrameOK` says that the place
  each piece of pending work writes to is inside a live block and that a vector
  has the room its registers say; `Anchored` that this block is a slot or kept by
  work further down, so that nothing above frees it; `Rooted` that a map under
  construction stays where its code looks for it; `Sole` that words and pending
  work own no block twice; `Beyond` that what works for an entry of a map touches
  nothing older than the map's slots, so that taking the key and the value out of
  the slots takes no block from anybody else.
* `Whole` is about what is overwritten. A word that owns a block takes it along
  when it is written over, so it has to be known that nothing is written twice;
  that is a matter of the document (a struct has no key twice), so the invariant
  says what is left of it. There is a plan that gives each frame the end of its
  phrase and the names that may still come (`Planned`): the frame on top is at a
  phrase that begins at the cursor, and each frame below goes on where the one
  above it ends. A frame `Claims` the places that it has still to fill: the
  members yet to come, the items from the next on, the rest of the buffer. What a
  frame `Reaches` is claimed by none below it (`Separate`), and where something is
  claimed no word owns a block (`Vacant`). A map's slots are the one exception:
  the map claims them while it waits, lends them to an entry that has been parsed
  (`Lent`), and they are empty again when the insertion is done. `Kept` says that
  each block has an owner.
* From it `ReadsTokens` (`CursorInDoc`: there is a token wherever the code reads
  one), `WritesInBounds` (`InBounds`), `OwnedOnce` (`OneOwner`), `TypesKept`
  (`TypeOK`), and `NothingIsLost` (`NothingLeaks`: each live block has an owner,
  so what the parser returns can be freed entirely).

They rest on `DocAssumption`, `TypeAssumption` and `PhraseAssumption`.

`ScannersProofs` proves, for any tasks, that is any strings, integers and members:

* `ScanInvariance`: the inductive invariant `ScanInv`, which says for every block
  of code what has been read so far. `StringRead`: the search for the closing
  quote is at an offset that is not the second byte of an escape (`Safe`), and if
  it met no escape there is none before it; then the copy has filled the buffer
  as far as it has come (`Filled`), so that the last word of the ladder may
  overlap those before it, or decoding is at the beginning of a unit and the
  buffer has the characters that the units before it mean, a pair never cut in
  two (`Decoded`). `IntRead`: the accumulator is the number that the digits so
  far are, modulo the word (`Wrapped`). `MemberRead`: behind the key is the
  colon, at the dispatch the fields that match are those of the key's name
  (`Fields`), and while a value is skipped the cursor is at one of its units, `i`
  is the depth of brackets there and `val` whether that is in a string (`NestAt`,
  `StringAt`, `AtomAt`).
* From it `StringsBuilt` (`StringsExact`), `IntegersStored` (`IntegersExact`),
  `MembersRouted` (`MembersFound`) and `CursorsKept` (`TypeOK`: the cursor stays
  in the document, also when that ends in a string).
* What the properties compare with is recursive: `FlattenSeq`, `MeantFrom`,
  `UpTo`. Each is a recursive function whose equations hold if there is a
  function that satisfies them. `NatRecursion` shows that there is one for the
  first n numbers by a least counterexample, which needs only that `<` on the
  naturals is well-founded; `Flattened`, `MeantIs` and `UpToIs` are the
  equations. No operator is a parameter of any of it.

They rest on `TaskAssumption`, which is the grammar of the documents: a string
is a sequence of units (`IsUnit`), the last of which may be a lone backslash if
the document ends in it; an integer has digits and ends where they do; a value
is a string, brackets that close where it ends, or an atom in front of a comma,
a bracket or a blank (`IsValue`); no two fields have one name. They rest, too,
on `PowerAssumption`, that powers of two double: the provers know nothing of
`^`. TLC evaluates both in every run of `MCScanners`.

The inductive invariants were checked with TLC on the runs above, as invariants,
before they were proved; `ScanInv`, which chooses the offsets of units among all
functions, is out of its reach, and what follows from it was checked.

Only model-checked:

* `CallsEnd`, `WalksEnd`, `HuntEnds`, `ParseEnds` and `ScanEnds`, which are
  liveness properties.
* `BuildsWanted`, which reads values with the RECURSIVE operators of `Interp` and
  `MCBinding`.

## Not modelled

The platform backends (inline assembly, unwinding, mapping of the object file),
the demo and the benches. What DWARF says is a constant: `Alias` in
`ResolveCache`, the graph in `Classify`, the locations in `Hunt`. In DWARF,
`DW_OP_call_frame_cfa` is the address above a subprogram's own frame; `Hunt` takes
the code's reading for it, so that no property tells the two apart. The layouts
that `structure`, `parse_option` and `seq_layout` read are abstracted: a body that
cannot be read is a panic.

Documents are JSON of their type: what the two backends do with ill-typed ones,
with struct keys that come twice and with tuples that are too short is left out,
and so is `&str`, which is a `String` that nobody drops. Floats are a library's:
`rt_f64v` calls fast-float2. The compiled parser compares keys as they are
written, so a name that is spelt with an escape is skipped (jit.rs:981):
`Scanners` has such keys, and its `MembersFound` takes a key as it is written,
`MCBinding`, where the two backends are compared, has none. `keyeq` loads the
bytes of a name from where the key is, beyond it if it is shorter; `Byte` has a
value for those, on which no answer depends. A document that ends within a value
is not met, except within a string.

Types of one name in two modules are one type to `def_index` (dwarf.rs:517): which
of two namesakes a declaration is redirected to is a matter of order
(`FirstWins`), and no model has the types themselves. A panic in a compiled
parser or in the interpreter happens with no lock held and ends the call as a
return does. The layout of a record of the dump is left out.

## Plan

In this order; each with its runs, then its proofs.

1. `ResolveCache`, with the one step that a compilation is there, as a second
   refinement of `ParserCache`, so that the two modules agree on `ext`.
2. The tokens of `Emit` from the bytes of `Scanners`: each token a task, so that
   the two machines are one.
3. The layouts of enums and sequences: `structure`, `parse_option`, `seq_layout`.
