-------------------------------- MODULE Hunt --------------------------------
(***************************************************************************)
(* crates/bilbo/src/dwarf.rs, subprogram_at and local_at_address: which    *)
(* local of the caller's frame does a pointer alias?  The subprogram that  *)
(* has the return address, then one walk over the DIEs below it, for any   *)
(* tree of scopes and locals, any locations and any pointer.               *)
(***************************************************************************)
EXTENDS Integers, Sequences, FiniteSets

CONSTANTS
  Dies,         \* the DIEs of some subprograms
  NoDie,
  Subprogram,   \* the caller's
  Subprograms,  \* all of them, unit by unit, in document order
  Code,         \* Code[d]: the code of a subprogram, a list of ranges
  Kids,         \* Kids[d]: d's children, in order
  Tag,          \* "scope" (a lexical block or an inlined subroutine),
                \* "local" (a variable or a parameter), or "other"
  TypeOf,       \* TypeOf[d]: the type DIE of a local (or of its origin)
  NoType,
  NameOf,       \* NameOf[t]: the name of a type DIE
  MaybeUninits, \* names that start with "MaybeUninit<"
  Live,         \* Live[d]: code addresses of a scope (external)
  Pcs,          \* return addresses
  Locations,    \* Locations[d]: what DW_AT_location may be, as lists of ranges
  FrameBases,   \* what DW_AT_frame_base may be
  Fp, Sp,       \* frame and stack pointer of the caller
  WordBits,     \* bits of an address (64)
  GroupBits,    \* bits of an offset in a byte of its encoding (7)
  MaxDepth      \* scopes below this depth are not looked at (32)

Word == 2^WordBits
Addresses == 0..(Word - 1)
Offsets == (-2^(WordBits - 1))..(2^(WordBits - 1) - 1)  \* i64
NoAddr == -1
Locals == {d \in Dies : Tag[d] = "local"}

\* A location expression, or the frame base's: a base register ("other" for
\* what is not understood, "cfa" for DW_OP_call_frame_cfa, which has no
\* offset), an offset, and whether more operations follow.  The code sees the
\* offset encoded.
Exprs == [base : {"frame", "cfa", "sp", "fp", "other"}, off : Offsets,
          more : BOOLEAN]
Ranges == [begin : Int, end : Int, expr : Exprs]

ASSUME DieAssumption ==
  /\ IsFiniteSet(Dies) /\ NoDie \notin Dies
  /\ Subprograms \in Seq(Dies)
  /\ \E i \in DOMAIN Subprograms : Subprograms[i] = Subprogram
  /\ \A i \in DOMAIN Subprograms : Tag[Subprograms[i]] = "subprogram"
  /\ Kids \in [Dies -> Seq(Dies)]
  /\ Tag \in [Dies -> {"subprogram", "scope", "local", "other"}]
  /\ Live \in [Dies -> SUBSET Pcs]
  /\ \A d \in Locals : TypeOf[d] # NoType => TypeOf[d] \in DOMAIN NameOf
  /\ Pcs \subseteq Int
  /\ Locations \in [Locals -> SUBSET Seq(Ranges)]
  /\ FrameBases \subseteq Exprs
  /\ Fp \in Addresses /\ Sp \in Addresses
  /\ WordBits \in Nat \ {0} /\ GroupBits \in Nat \ {0, 1}
  /\ MaxDepth \in Nat

\* Powers of two, of which the provers know nothing.
ASSUME PowerAssumption ==
  2^0 = 1 /\ \A n \in 1..(GroupBits * WordBits) : 2^n = 2 * 2^(n - 1)

Within(pc, r) == r.begin <= pc /\ pc < r.end

HasCode(d, pc) == \E i \in DOMAIN Code[d] : Within(pc, Code[d][i])

\* Return addresses are in the caller's code, and in no other subprogram's.
ASSUME CodeAssumption ==
  \A pc \in Pcs : \A i \in DOMAIN Subprograms :
    HasCode(Subprograms[i], pc) <=> Subprograms[i] = Subprogram

Roots == {Subprograms[i] : i \in DOMAIN Subprograms}

\* The DIEs are trees below the subprograms: every other one is in one place
\* below one parent, subprograms are below none, and none is below itself (of
\* any, there is one whose parent is not among them).
ASSUME TreeAssumption ==
  /\ \A d \in Dies \ Roots :
       \E p \in Dies : \E i \in 1..Len(Kids[p]) :
         /\ Kids[p][i] = d
         /\ \A q \in Dies : \A j \in 1..Len(Kids[q]) :
              Kids[q][j] = d => q = p /\ j = i
  /\ \A p \in Dies : \A i \in 1..Len(Kids[p]) : Kids[p][i] \notin Roots
  /\ \A S \in SUBSET Dies : S # {} =>
       \E d \in S : \A p \in S : \A i \in 1..Len(Kids[p]) : Kids[p][i] # d

VARIABLES
  frame,    \* the caller's frame: [loc, base, pc, ptr, target], see Init
  phase,    \* called, scan, done
  stack,    \* scopes being scanned: [scope, next], next the child to look at
  seen,     \* locals looked at
  fallback, \* first local at ptr that is not a MaybeUninit
  mu,       \* the MaybeUninit locals
  found

vars == <<frame, phase, stack, seen, fallback, mu, found>>

-----------------------------------------------------------------------------
(* Locations.                                                              *)

\* A byte of an encoding: GroupBits of the offset, and whether it is the last.
Byte(bits, last) == [bits |-> bits, last |-> last]

\* What is above the first i groups of an offset, and the i-th of them.
Above(off, i) == off \div 2^(GroupBits * i)
Group(off, i) == Above(off, i - 1) % 2^GroupBits

\* All above the i-th group has its sign.
Ends(off, i) ==
  Above(off, i) = IF Group(off, i) >= 2^(GroupBits - 1) THEN -1 ELSE 0

\* SLEB128 as the compiler writes it: groups from the lowest on, to the first
\* that has the sign of all that is above it.
Encoded ==
  [off \in Offsets |->
     LET n == CHOOSE n \in 1..WordBits :
                Ends(off, n) /\ \A i \in 1..(n - 1) : ~Ends(off, i)
     IN  [i \in 1..n |-> Byte(Group(off, i), i = n)]]

\* What follows the operation, for the code to decode.
Rest(e) == Encoded[e.off] \o IF e.more THEN <<Byte(0, TRUE)>> ELSE <<>>

\* The groups of the first i bytes, put together in a word.
Sums(bytes) ==
  LET sum[i \in 0..Len(bytes)] ==
        IF i = 0 THEN 0
        ELSE (sum[i - 1] + bytes[i].bits * 2^(GroupBits * (i - 1))) % Word
  IN  sum

\* sleb128: the groups up to the last byte, of which the sign is extended if
\* there is room above it.
Sleb128(bytes) ==
  LET used == CHOOSE i \in 1..Len(bytes) :
                bytes[i].last /\ \A h \in 1..(i - 1) : ~bytes[h].last
      neg == /\ GroupBits * used < WordBits
             /\ bytes[used].bits >= 2^(GroupBits - 1)
  IN  [value |-> Sums(bytes)[used] - IF neg THEN 2^(GroupBits * used) ELSE 0,
       used |-> used]

\* eval_addr: no address if the expression reads memory or registers.
EvalAddr(e, frameBase) ==
  LET bytes == Rest(e)
      offset == Sleb128(bytes) IN
    CASE e.base = "cfa" -> Sp
      [] e.base = "other" \/ (e.base # "cfa" /\ offset.used # Len(bytes)) ->
           NoAddr
      [] OTHER -> ([frame |-> frameBase, sp |-> Sp, fp |-> Fp][e.base]
                     + offset.value) % Word

\* DW_OP_call_frame_cfa, DW_OP_reg<fp> and DW_OP_breg<fp>, whatever follows.
Usable(base) == base.base \in {"cfa", "fp"}
FrameBase(base) ==
  IF base.base = "cfa" THEN Sp
  ELSE (Fp + Sleb128(Encoded[base.off]).value) % Word

\* var_location: an expression alone is a range that is everywhere.
VarLocation(f, d) ==
  LET hits == {i \in 1..Len(f.loc[d]) : Within(f.pc, f.loc[d][i])} IN
    {f.loc[d][i].expr : i \in {j \in hits : \A k \in hits : j <= k}}

\* The address of local d, as scan() computes it.
Addr(f, d) ==
  IF VarLocation(f, d) = {} THEN NoAddr
  ELSE EvalAddr(CHOOSE e \in VarLocation(f, d) : TRUE, FrameBase(f.base))

IsMu(d) == TypeOf[d] # NoType /\ NameOf[TypeOf[d]] \in MaybeUninits
Match(f, d) == TypeOf[d] # NoType /\ Addr(f, d) = f.ptr

\* The address that is meant: the register, and the offset before it was
\* encoded.  The CFA is the code's reading of it, Sp.
Meant(f, d) ==
  LET base == IF f.base.base = "cfa" THEN Sp ELSE Fp + f.base.off
      from == [frame |-> base, sp |-> Sp, fp |-> Fp]
      there == {e \in VarLocation(f, d) :
                  e.base = "cfa" \/ (e.base \in DOMAIN from /\ ~e.more)}
  IN  IF there = {} THEN NoAddr
      ELSE LET e == CHOOSE e \in there : TRUE
           IN  IF e.base = "cfa" THEN Sp ELSE (from[e.base] + e.off) % Word

-----------------------------------------------------------------------------
(* The tree of DIEs.                                                       *)

Parent(d) == CHOOSE p \in Dies : \E i \in 1..Len(Kids[p]) : Kids[p][i] = d
Index(d) == CHOOSE i \in 1..Len(Kids[Parent(d)]) : Kids[Parent(d)][i] = d

\* The way from the subprogram to d, as child numbers.
Path[d \in Dies] ==
  IF d \in Roots THEN <<>> ELSE Append(Path[Parent(d)], Index(d))

\* Scopes of the caller that the walk should get to, and the locals in them.
Scanned[d \in Dies] ==
  \/ d = Subprogram
  \/ Tag[d] = "scope" /\ Scanned[Parent(d)] /\ Len(Path[d]) <= MaxDepth
Reachable == {d \in Locals : Scanned[Parent(d)]}

\* Document order.
Before(d, e) == \E n \in 1..Len(Path[d]) :
  /\ n <= Len(Path[e])
  /\ SubSeq(Path[d], 1, n - 1) = SubSeq(Path[e], 1, n - 1)
  /\ Path[d][n] < Path[e][n]
First(S) == CHOOSE d \in S : \A e \in S \ {d} : Before(d, e)

\* The scopes around d have the code address.
InScope[d \in Dies, pc \in Pcs] ==
  \/ d = Subprogram
  \/ d \notin Roots /\ pc \in Live[Parent(d)] /\ InScope[Parent(d), pc]

-----------------------------------------------------------------------------
\* from_json is handed a pointer to a MaybeUninit local of its caller, which
\* is in scope.  What the debug info says of its place is true, unless it
\* says nothing, and no other local in scope is in that place.
Frames ==
  {f \in [loc : [Locals -> UNION {Locations[d] : d \in Locals}],
          base : FrameBases, pc : Pcs, ptr : Addresses, target : Locals] :
     /\ \A d \in Locals : f.loc[d] \in Locations[d]
     /\ f.target \in Reachable /\ IsMu(f.target)
     /\ InScope[f.target, f.pc]
     /\ Meant(f, f.target) \in {NoAddr, f.ptr}
     /\ \A d \in Locals \ {f.target} :
          InScope[d, f.pc] => Meant(f, d) # f.ptr}

Init ==
  /\ frame \in Frames
  /\ phase = "called"
  /\ stack = <<>>
  /\ seen = <<>>
  /\ fallback = NoDie
  /\ mu = <<>>
  /\ found = NoDie

\* subprogram_at: the first that has the return address in a range of its.
SubprogramAt(pc) ==
  Subprograms[CHOOSE i \in DOMAIN Subprograms :
    /\ HasCode(Subprograms[i], pc)
    /\ \A h \in 1..(i - 1) : ~HasCode(Subprograms[h], pc)]

\* The subprogram is there, its frame base is evaluated, the scan begins.
Enter ==
  /\ phase = "called"
  /\ Usable(frame.base)
  /\ phase' = "scan"
  /\ stack' = <<[scope |-> SubprogramAt(frame.pc), next |-> 1]>>
  /\ UNCHANGED <<frame, seen, fallback, mu, found>>

\* "unhandled frame_base expr".
Refuse ==
  /\ phase = "called"
  /\ ~Usable(frame.base)
  /\ phase' = "done"
  /\ UNCHANGED <<frame, stack, seen, fallback, mu, found>>

top == stack[Len(stack)]
More == phase = "scan" /\ top.next <= Len(Kids[top.scope])
die == Kids[top.scope][top.next]
Advanced == [stack EXCEPT ![Len(stack)].next = @ + 1]

\* Recurse into a block or an inlined subroutine.
Descend ==
  /\ More
  /\ Tag[die] = "scope"
  /\ Len(stack) <= MaxDepth
  /\ stack' = Append(Advanced, [scope |-> die, next |-> 1])
  /\ UNCHANGED <<frame, phase, seen, fallback, mu, found>>

\* Deviation: a scope that is too deep is looked at again.
SkipStuck ==
  /\ More
  /\ Tag[die] = "other" \/ (Tag[die] = "scope" /\ Len(stack) > MaxDepth)
  /\ stack' = IF Tag[die] = "other" THEN Advanced ELSE stack
  /\ UNCHANGED <<frame, phase, seen, fallback, mu, found>>

\* Another kind of DIE, also a subprogram, or a scope that is too deep.
Skip ==
  /\ More
  /\ Tag[die] = "other" \/ (Tag[die] = "scope" /\ Len(stack) > MaxDepth)
  /\ stack' = Advanced
  /\ UNCHANGED <<frame, phase, seen, fallback, mu, found>>

\* Deviation: the first local at ptr, whatever it is.
HitAny ==
  /\ More
  /\ Tag[die] = "local"
  /\ Match(frame, die)
  /\ phase' = "done"
  /\ found' = die
  /\ seen' = Append(seen, die)
  /\ stack' = <<>>
  /\ UNCHANGED <<frame, fallback, mu>>

\* A MaybeUninit at ptr: "that's our target", out of all the scopes at once.
Hit ==
  /\ More
  /\ Tag[die] = "local"
  /\ Match(frame, die) /\ IsMu(die)
  /\ phase' = "done"
  /\ found' = die
  /\ seen' = Append(seen, die)
  /\ stack' = <<>>
  /\ UNCHANGED <<frame, fallback, mu>>

\* Deviation: a local needs no type to be the fallback.
PassUntyped ==
  /\ More
  /\ Tag[die] = "local"
  /\ ~(Match(frame, die) /\ IsMu(die))
  /\ fallback' = IF Addr(frame, die) = frame.ptr /\ fallback = NoDie
                 THEN die ELSE fallback
  /\ mu' = IF IsMu(die) THEN Append(mu, die) ELSE mu
  /\ seen' = Append(seen, die)
  /\ stack' = Advanced
  /\ UNCHANGED <<frame, phase, found>>

\* Any other local: remember it, if it may be needed.
Pass ==
  /\ More
  /\ Tag[die] = "local"
  /\ ~(Match(frame, die) /\ IsMu(die))
  /\ fallback' = IF Match(frame, die) /\ fallback = NoDie THEN die ELSE fallback
  /\ mu' = IF IsMu(die) THEN Append(mu, die) ELSE mu
  /\ seen' = Append(seen, die)
  /\ stack' = Advanced
  /\ UNCHANGED <<frame, phase, found>>

Exhausted == phase = "scan" /\ top.next > Len(Kids[top.scope])

\* A nested scan returns None.
Ascend ==
  /\ Exhausted
  /\ Len(stack) > 1
  /\ stack' = SubSeq(stack, 1, Len(stack) - 1)
  /\ UNCHANGED <<frame, phase, seen, fallback, mu, found>>

\* Deviation: guess, whatever the number of types.
AnyMaybeUninit == IF mu = <<>> THEN NoDie ELSE mu[1]

\* sole_maybe_uninit: one type among the MaybeUninits, by name.
SoleMaybeUninit ==
  IF Cardinality({NameOf[TypeOf[mu[i]]] : i \in 1..Len(mu)}) = 1
  THEN mu[1] ELSE NoDie

\* The whole scan returns None: the fallback, or else a guess.
GiveUp ==
  /\ Exhausted
  /\ Len(stack) = 1
  /\ phase' = "done"
  /\ found' = IF fallback # NoDie THEN fallback ELSE SoleMaybeUninit
  /\ fallback' = NoDie
  /\ stack' = <<>>
  /\ UNCHANGED <<frame, seen, mu>>

-----------------------------------------------------------------------------
Scan ==
  \/ Enter \/ Refuse \/ Descend \/ Skip \/ Hit \/ Pass \/ Ascend \/ GiveUp

AllDone == phase = "done" /\ UNCHANGED vars

Next == Scan \/ AllDone

Spec == Init /\ [][Next]_vars

\* The thread that hunts runs.
FairSpec == Spec /\ WF_vars(Scan)

-----------------------------------------------------------------------------
(* Properties.                                                             *)

Typed == {d \in Locals : TypeOf[d] # NoType}

\* Types of the variables; what is found has a type, which resolved() needs.
TypeOK ==
  /\ frame.base \in FrameBases /\ frame.pc \in Pcs
  /\ frame.ptr \in Addresses /\ frame.target \in Locals
  /\ phase \in {"called", "scan", "done"}
  /\ phase = "scan" => stack # <<>>
  /\ stack \in Seq([scope : Dies, next : Nat \ {0}])
  /\ \A i \in 1..Len(stack) : stack[i].next <= Len(Kids[stack[i].scope]) + 1
  /\ seen \in Seq(Locals)
  /\ fallback \in Typed \union {NoDie}
  /\ mu \in Seq({d \in Typed : IsMu(d)})
  /\ found \in Typed \union {NoDie}

\* What local_at_address promises (dwarf.rs:241-246, :365): of the locals it
\* gets to, the first MaybeUninit at ptr; or else the first local at ptr; or
\* else the first MaybeUninit, provided that all of them have one type.
Wanted(f) ==
  LET there == {d \in Reachable \intersect Typed : Meant(f, d) = f.ptr}
      mus == {d \in Reachable : IsMu(d)} IN
    CASE there \intersect mus # {} -> First(there \intersect mus)
      [] there \intersect mus = {} /\ there # {} -> First(there)
      [] there = {} /\ Cardinality({NameOf[TypeOf[d]] : d \in mus}) = 1 ->
           First(mus)
      [] OTHER -> NoDie

\* The walk, with its early return out of nested scopes and its fallbacks
\* collected on the way, and with offsets decoded from their bytes
\* (dwarf.rs:441), finds that local.
FindsWanted ==
  phase = "done" =>
    found = IF Usable(frame.base) THEN Wanted(frame) ELSE NoDie

\* An address that is evaluated is the one that is meant (eval_addr, sleb128).
DecodesRight ==
  \A f \in Frames : \A d \in Locals :
    Usable(f.base) => Addr(f, d) = Meant(f, d)

SameType(d, e) == NameOf[TypeOf[d]] = NameOf[TypeOf[e]]

\* No local out of scope is where the target is, except one of its type.
Unshared(f) ==
  \A d \in Reachable \intersect Typed :
    Meant(f, d) = f.ptr => IsMu(d) /\ SameType(d, f.target)

\* As long as no slot is shared, the JSON is never written with the layout of
\* another type, whether the target's location is known or not.
RightType ==
  phase = "done" /\ Unshared(frame) =>
    found = NoDie \/ SameType(found, frame.target)

\* The hunt ends.
HuntEnds == <>(phase = "done")

\* README.md:150, "Optimized builds reuse stack slots; we disambiguate by
\* preferring the MaybeUninit<T> local at the matched address".
Disambiguates ==
  phase = "done" /\ Usable(frame.base) /\ Meant(frame, frame.target) = frame.ptr
    => SameType(found, frame.target)
=============================================================================
