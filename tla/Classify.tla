------------------------------ MODULE Classify ------------------------------
(***************************************************************************)
(* crates/bilbo/src/dwarf.rs, classify and the functions it recurses       *)
(* through: type DIE -> Ty.  One thread's walk, one recursive call at a    *)
(* time, over any graph of type DIEs: typedefs are stripped, declaration   *)
(* stubs are redirected to the complete definition (often in another unit, *)
(* so at another offset), wrappers without a layout of their own are seen  *)
(* through, and a type that contains itself is cut at the back edge by a   *)
(* RecCell that the thread-local MEMO hands out and that is filled when    *)
(* the type's own body is done.                                            *)
(*                                                                         *)
(* A call of classify that gets as far as minting a cell is numbered by    *)
(* it.  A Ty is either Inline(n), the body that call n built, or Ref(n), a *)
(* Ty::Ref with the cell of call n.                                        *)
(***************************************************************************)
EXTENDS Integers, Sequences, FiniteSets

CONSTANTS
  Dies,        \* type DIEs of all units
  NoDie,
  NoSize,      \* no DW_AT_byte_size
  UnitOf,      \* UnitOf[d], OffsetOf[d]: where the DIE is
  OffsetOf,
  Shape,       \* Shape[d]: what classify reads it as, see Shapes
  Target,      \* Target[d]: target of a typedef, T of a wrapper, or NoDie
  Parts,       \* Parts[d]: the types that d's body classifies, in order
  Empty,       \* Empty[d]: enum d has a variant without a payload `__0`
  Size,        \* Size[d]: DW_AT_byte_size
  Stubs,       \* DIEs without a layout to read (is_stub)
  Definition,  \* Definition[d]: def_index() of stub d's name, or NoDie
  Unreadable,  \* DIEs whose body panics once its parts are classified
  MaxRoots     \* bound: calls of classify from resolved()

\* "box" is a pointer with a pointee, "enum" a structure with a
\* variant_part; "leaf" is every type with no parts.
Shapes == {"alias", "transparent", "leaf", "box", "vec", "map", "struct",
           "enum"}

\* strip: typedef and qualifier chains.
Strip[d \in Dies] ==
  IF Shape[d] = "alias" /\ Target[d] # NoDie THEN Strip[Target[d]] ELSE d

\* def_site: a stub becomes the definition of its name, if there is one.
DefSite(d) ==
  IF d \in Stubs /\ Definition[d] # NoDie THEN Definition[d] ELSE d

\* What classify reads when it is handed d.
Site(d) == DefSite(Strip[d])

\* Deviation: an offset without its unit.
KeyByOffset(d) == OffsetOf[d]

\* A type's identity in the MEMO: the redirect moves between units.
Key(d) == <<UnitOf[d], OffsetOf[d]>>

ASSUME DieAssumption ==
  /\ IsFiniteSet(Dies) /\ NoDie \notin Dies
  /\ Shape \in [Dies -> Shapes]
  /\ Target \in [Dies -> Dies \union {NoDie}]
  /\ Parts \in [Dies -> Seq(Dies)]
  /\ \A d \in Dies : Shape[d] \in {"box", "vec", "map"} => Parts[d] # <<>>
  /\ \A d \in Dies : Shape[d] = "leaf" => Parts[d] = <<>>
  /\ Empty \in [Dies -> BOOLEAN]
  /\ Stubs \subseteq Dies
  /\ Definition \in [Stubs -> Dies \union {NoDie}]
  /\ Size \in [Dies -> Nat \union {NoSize}] /\ NoSize \notin Nat
  /\ Unreadable \subseteq Dies
  /\ MaxRoots \in Nat

\* A definition is complete, typedefs end, and a DIE is where it is alone.
ASSUME DwarfAssumption ==
  /\ \A d \in Stubs : Definition[d] \notin Stubs
  /\ \A d \in Dies : Strip[d] \in Dies
  /\ \A d, e \in Dies :
       UnitOf[d] = UnitOf[e] /\ OffsetOf[d] = OffsetOf[e] => d = e

\* The type that DIE d stands for: typedefs, stubs and wrappers removed.
Real[d \in Dies] ==
  IF Shape[Site(d)] = "transparent" /\ Target[Site(d)] # NoDie
  THEN Real[Target[Site(d)]]
  ELSE Site(d)

\* Wrappers end: no type is a chain of wrappers around itself.
ASSUME WrapperAssumption ==
  \A d \in Dies :
    /\ Real[d] \in Dies
    /\ Real[d] = IF Shape[Site(d)] = "transparent" /\ Target[Site(d)] # NoDie
                 THEN Real[Target[Site(d)]]
                 ELSE Site(d)

VARIABLES
  mode,   \* idle, enter (classify(arg) is called), body, unwind, panicked
  arg,    \* the DIE of the call that is about to start
  stack,  \* calls in progress: [call, kids], kids the types built so far
  calls,  \* calls[n]: [die, ty, set]; set: OnceLock of the cell is filled
  memo,   \* thread-local MEMO: from keys to calls
  handed, \* cells of which a Ty::Ref has been handed out
  result, \* what the last call from resolved() returned
  roots   \* number of calls from resolved()

vars == <<mode, arg, stack, calls, memo, handed, result, roots>>

Inline(n) == [ref |-> FALSE, call |-> n]
Ref(n) == [ref |-> TRUE, call |-> n]
NoTy == [kind |-> "unfinished"]
NoResult == Inline(0)

Init ==
  /\ mode = "idle"
  /\ arg = NoDie
  /\ stack = <<>>
  /\ calls = <<>>
  /\ memo = <<>>
  /\ handed = {}
  /\ result = NoResult
  /\ roots = 0

top == stack[Len(stack)]
below == SubSeq(stack, 1, Len(stack) - 1)
topDie == calls[top.call].die

\* A call of classify returns t to the call below it, or to resolved().
Return(t, frames) ==
  IF frames = <<>>
  THEN /\ mode' = "idle"
       /\ result' = t
       /\ stack' = <<>>
  ELSE /\ mode' = "body"
       /\ stack' = [frames EXCEPT ![Len(frames)].kids = Append(@, t)]
       /\ UNCHANGED result

-----------------------------------------------------------------------------
\* resolved() classifies the type of a local, holding the L2 lock: not after
\* a panic, which poisons it.
Start(d) ==
  /\ mode = "idle"
  /\ roots < MaxRoots
  /\ mode' = "enter"
  /\ arg' = d
  /\ result' = NoResult
  /\ roots' = roots + 1
  /\ UNCHANGED <<stack, calls, memo, handed>>

\* Deviation: recurse on the wrapper, not on its parameter.
UnwrapNothing ==
  /\ mode = "enter"
  /\ Shape[Site(arg)] = "transparent"
  /\ Target[Site(arg)] # NoDie
  /\ arg' = Site(arg)
  /\ UNCHANGED <<mode, stack, calls, memo, handed, result, roots>>

\* MaybeUninit, ManuallyDrop, UnsafeCell: classify T instead, no memo.
Unwrap ==
  /\ mode = "enter"
  /\ Shape[Site(arg)] = "transparent"
  /\ Target[Site(arg)] # NoDie
  /\ arg' = Target[Site(arg)]
  /\ UNCHANGED <<mode, stack, calls, memo, handed, result, roots>>

\* Deviation: the missing parameter is classified all the same.
UnwrapMissing ==
  /\ mode = "enter"
  /\ Shape[Site(arg)] = "transparent"
  /\ Target[Site(arg)] = NoDie
  /\ arg' = NoDie
  /\ UNCHANGED <<mode, stack, calls, memo, handed, result, roots>>

\* "`{name}` has no T parameter".
UnwrapPanics ==
  /\ mode = "enter"
  /\ Shape[Site(arg)] = "transparent"
  /\ Target[Site(arg)] = NoDie
  /\ mode' = "unwind"
  /\ UNCHANGED <<arg, stack, calls, memo, handed, result, roots>>

\* An ancestor is this very type: hand out its cell.
BackEdge ==
  /\ mode = "enter"
  /\ Shape[Site(arg)] # "transparent"
  /\ Key(Site(arg)) \in DOMAIN memo
  /\ LET n == memo[Key(Site(arg))] IN
       /\ handed' = handed \union {n}
       /\ Return(Ref(n), stack)
  /\ UNCHANGED <<arg, calls, memo, roots>>

\* Deviation: the in-flight entry is forgotten.
DescendUnmarked ==
  /\ mode = "enter"
  /\ Shape[Site(arg)] # "transparent"
  /\ Key(Site(arg)) \notin DOMAIN memo
  /\ calls' = Append(calls, [die |-> Site(arg), ty |-> NoTy, set |-> FALSE])
  /\ stack' = Append(stack, [call |-> Len(calls) + 1, kids |-> <<>>])
  /\ mode' = "body"
  /\ UNCHANGED <<arg, memo, handed, result, roots>>

\* Mint a cell, enter the type in the memo, start on its body.
Descend ==
  /\ mode = "enter"
  /\ Shape[Site(arg)] # "transparent"
  /\ Key(Site(arg)) \notin DOMAIN memo
  /\ LET n == Len(calls) + 1
         k == Key(Site(arg)) IN
       /\ calls' = Append(calls, [die |-> Site(arg), ty |-> NoTy,
                                  set |-> FALSE])
       /\ memo' = [j \in DOMAIN memo \union {k} |->
                     IF j = k THEN n ELSE memo[j]]
       /\ stack' = Append(stack, [call |-> n, kids |-> <<>>])
  /\ mode' = "body"
  /\ UNCHANGED <<arg, handed, result, roots>>

\* The body's next part.
NextPart ==
  /\ mode = "body"
  /\ Len(top.kids) < Len(Parts[topDie])
  /\ arg' = Parts[topDie][Len(top.kids) + 1]
  /\ mode' = "enter"
  /\ UNCHANGED <<stack, calls, memo, handed, result, roots>>

\* byte_size of a part as boxed() and the Vec and map arms read it.
SizeOfPart(d, default) ==
  IF Size[Strip[d]] = NoSize THEN default ELSE Size[Strip[d]]

\* The Ty of DIE d whose parts are `kids`.  parse_option keeps the payload
\* of the last variant that has one.
Body(d, kids) ==
  CASE Shape[d] = "enum" /\ (~Empty[d] \/ kids = <<>>) ->
         [kind |-> "unknown", kids |-> <<>>, size |-> 0]
    [] Shape[d] = "enum" /\ Empty[d] /\ kids # <<>> ->
         [kind |-> "opt", kids |-> <<kids[Len(kids)]>>, size |-> 0]
    [] Shape[d] = "box" ->
         [kind |-> "boxed", kids |-> kids,
          size |-> SizeOfPart(Parts[d][1], 0)]
    [] Shape[d] \in {"vec", "map"} ->
         [kind |-> Shape[d], kids |-> kids,
          size |-> SizeOfPart(Parts[d][Len(Parts[d])], 1)]
    [] OTHER -> [kind |-> Shape[d], kids |-> kids, size |-> 0]

\* Deviation: the knot is tied only if a part itself is the back edge.
FinishUntied ==
  /\ mode = "body"
  /\ Len(top.kids) = Len(Parts[topDie])
  /\ topDie \notin Unreadable
  /\ calls' = [calls EXCEPT
       ![top.call] = [@ EXCEPT !.ty = Body(topDie, top.kids),
                               !.set = \E i \in 1..Len(top.kids) :
                                         top.kids[i] = Ref(top.call)]]
  /\ memo' = [k \in DOMAIN memo \ {Key(topDie)} |-> memo[k]]
  /\ Return(Inline(top.call), below)
  /\ UNCHANGED <<arg, handed, roots>>

\* The body is done: fill the cell if somebody else has it (its Arc counts
\* more than the local and the memo), drop the guard, return.  A Ref that
\* parse_option discarded counts here as one that is kept.
Finish ==
  /\ mode = "body"
  /\ Len(top.kids) = Len(Parts[topDie])
  /\ topDie \notin Unreadable
  /\ calls' = [calls EXCEPT
       ![top.call] = [@ EXCEPT !.ty = Body(topDie, top.kids),
                               !.set = top.call \in handed]]
  /\ memo' = [k \in DOMAIN memo \ {Key(topDie)} |-> memo[k]]
  /\ Return(Inline(top.call), below)
  /\ UNCHANGED <<arg, handed, roots>>

\* "could not locate ptr/cap/len", "no map_insert trampoline": see Unreadable.
BodyPanics ==
  /\ mode = "body"
  /\ Len(top.kids) = Len(Parts[topDie])
  /\ topDie \in Unreadable
  /\ mode' = "unwind"
  /\ UNCHANGED <<arg, stack, calls, memo, handed, result, roots>>

\* Deviation: no guard, the entry is removed on the way out only.
UnwindLeaky ==
  /\ mode = "unwind" /\ stack # <<>>
  /\ stack' = below
  /\ UNCHANGED <<mode, arg, calls, memo, handed, result, roots>>

\* MemoGuard::drop, one call after the other.
Unwind ==
  /\ mode = "unwind" /\ stack # <<>>
  /\ memo' = [k \in DOMAIN memo \ {Key(topDie)} |-> memo[k]]
  /\ stack' = below
  /\ UNCHANGED <<mode, arg, calls, handed, result, roots>>

\* The panic leaves the walk, and poisons L2 (see ResolveCache).
Unwound ==
  /\ mode = "unwind" /\ stack = <<>>
  /\ mode' = "panicked"
  /\ UNCHANGED <<arg, stack, calls, memo, handed, result, roots>>

-----------------------------------------------------------------------------
Walk ==
  \/ Unwrap \/ UnwrapPanics \/ BackEdge \/ Descend
  \/ NextPart \/ Finish \/ BodyPanics \/ Unwind \/ Unwound

\* No walk is under way and none can start: the only way to stop.
AllDone ==
  /\ mode = "panicked" \/ (mode = "idle" /\ roots = MaxRoots)
  /\ UNCHANGED vars

Next == (\E d \in Dies : Start(d)) \/ Walk \/ AllDone

Spec == Init /\ [][Next]_vars

\* The thread that classifies runs.
FairSpec == Spec /\ WF_vars(Walk)

-----------------------------------------------------------------------------
(* Properties.                                                             *)

Modes == {"idle", "enter", "body", "unwind", "panicked"}
Results == [ref : BOOLEAN, call : Nat]
Tys == [kind : {"unfinished"}] \union
       [kind : Shapes \union {"unknown", "opt", "boxed"},
        kids : Seq(Results), size : Nat]

\* The calls in progress have been made, and all but the last one, if it is
\* not waiting for a part, have parts to come.
FramesOK(m, frames, made) ==
  \A i \in 1..Len(frames) :
    LET built == Len(frames[i].kids)
        parts == Len(Parts[made[frames[i].call].die]) IN
      /\ frames[i].call \in 1..Len(made)
      /\ built <= parts
      /\ built = parts => i = Len(frames) /\ m # "enter"

\* Types of the variables.
TypeOK ==
  /\ mode \in Modes
  /\ arg \in Dies \union {NoDie}
  /\ mode = "enter" => arg \in Dies
  /\ mode = "body" => stack # <<>>
  /\ mode \in {"idle", "panicked"} => stack = <<>>
  /\ calls \in Seq([die : Dies, ty : Tys, set : BOOLEAN])
  /\ stack \in Seq([call : Nat, kids : Seq(Results)])
  /\ FramesOK(mode, stack, calls)
  /\ \A k \in DOMAIN memo : memo[k] \in 1..Len(calls)
  /\ handed \subseteq 1..Len(calls)
  /\ result \in Results
  /\ roots \in 0..MaxRoots

\* The MEMO has exactly the types in progress, each with its own cell, also
\* while a panic unwinds: nothing is left in it between two walks, and no
\* type is in progress twice.
MemoIsInFlight ==
  /\ \A i \in 1..Len(stack) :
       LET k == Key(calls[stack[i].call].die) IN
         k \in DOMAIN memo /\ memo[k] = stack[i].call
  /\ \A k \in DOMAIN memo : \E i \in 1..Len(stack) :
       k = Key(calls[stack[i].call].die)
  /\ \A i, j \in 1..Len(stack) :
       calls[stack[i].call].die = calls[stack[j].call].die => i = j

\* The recursion is bounded by the number of types (a thread's native stack
\* is what it consumes).
DepthBounded == Len(stack) <= Cardinality(Dies)

\* expect("recursive Ty cell not set") never fires (plan.rs:24): a cell that
\* was handed out is filled, or its type is still in progress, so that a
\* finished Ty has no empty cell in it, however deep.
InProgress == {stack[i].call : i \in 1..Len(stack)}
KnotsTied ==
  mode \in {"idle", "enter", "body"} =>
    \A n \in handed : calls[n].set \/ n \in InProgress

\* The parts of d that its Ty keeps.
Kept(d) ==
  CASE Shape[d] = "enum" /\ (~Empty[d] \/ Parts[d] = <<>>) -> <<>>
    [] Shape[d] = "enum" /\ Empty[d] /\ Parts[d] # <<>> ->
         <<Parts[d][Len(Parts[d])]>>
    [] OTHER -> Parts[d]

\* A finished Ty, read with its cells as links, unfolds to the same types
\* as the DIEs it was built from: each part is the Ty of the part's own
\* type, whether it was built in place or is a back edge.
Unfolds ==
  \A n \in 1..Len(calls) : calls[n].ty # NoTy =>
    LET d == calls[n].die
        kids == calls[n].ty.kids IN
      /\ Len(kids) = Len(Kept(d))
      /\ \A i \in 1..Len(kids) :
           /\ calls[kids[i].call].die = Real[Kept(d)[i]]
           /\ ~kids[i].ref => calls[kids[i].call].ty # NoTy

\* A walk ends, with a Ty or a panic.
WalksEnd == mode = "enter" ~> mode \in {"idle", "panicked"}

Finished == mode = "idle"

\* Which fields default to None when their key is absent: interp.rs:41 and
\* jit.rs:940 look for Ty::Opt.
Defaulted(n, i) ==
  /\ ~calls[n].ty.kids[i].ref
  /\ calls[calls[n].ty.kids[i].call].ty.kind = "opt"

\* README.md:129, "an absent struct key meaning `None`": every field that is
\* an Option is one that defaults.
AbsentKeyMeansNone ==
  Finished => \A n \in 1..Len(calls) : calls[n].ty.kind = "struct" =>
    \A i \in 1..Len(calls[n].ty.kids) :
      calls[calls[n].ty.kids[i].call].ty.kind = "opt" => Defaulted(n, i)

\* dwarf.rs:521, "redirect any stub we meet": a box is allocated with the
\* size of its pointee, in whichever unit the pointee is complete.
BoxFitsPointee ==
  Finished => \A n \in 1..Len(calls) : calls[n].ty.kind = "boxed" =>
    calls[n].ty.size = Size[Real[Parts[calls[n].die][1]]]
=============================================================================
