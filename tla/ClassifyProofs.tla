--------------------------- MODULE ClassifyProofs ---------------------------
(***************************************************************************)
(* Theorems about Classify, for any debug info: any graph of types, in any *)
(* number of units.                                                        *)
(***************************************************************************)
EXTENDS Classify, SequenceTheorems, FiniteSetTheorems, TLAPS

Call == [die : Dies, ty : Tys, set : BOOLEAN]
Frame == [call : Nat, kids : Seq(Results)]

\* What Return makes of the frames that are left.
Hand(frames, t) == [frames EXCEPT ![Len(frames)].kids = Append(@, t)]

\* What Descend pushes.
NewFrame(n) == [call |-> n, kids |-> <<>>]

-----------------------------------------------------------------------------
(* Helpers about the debug info.                                           *)

\* The redirect of a stub leads to a DIE.
LEMMA SiteInDies == \A d \in Dies : Site(d) \in Dies
<1> SUFFICES ASSUME NEW d \in Dies PROVE Site(d) \in Dies
  OBVIOUS
<1>1. Strip[d] \in Dies
  BY DwarfAssumption
<1> QED
  BY <1>1, DieAssumption DEF Site, DefSite

\* DIEs in different places have different keys.
LEMMA KeyInjective ==
  \A d, e \in Dies : Key(d) = Key(e) => d = e
  BY DwarfAssumption DEF Key

\* A finished body is a Ty.
LEMMA BodyInTys ==
  ASSUME NEW d \in Dies, NEW kids \in Seq(Results),
         Len(kids) = Len(Parts[d])
  PROVE  Body(d, kids) \in Tys
<1> USE DieAssumption
<1>1. \A e \in Dies, n \in Nat : SizeOfPart(e, n) \in Nat
  BY DwarfAssumption DEF SizeOfPart
<1>2. CASE Shape[d] = "enum" /\ (~Empty[d] \/ kids = <<>>)
  BY <1>2 DEF Body, Tys
<1>3. CASE Shape[d] = "enum" /\ Empty[d] /\ kids # <<>>
  <2>1. kids[Len(kids)] \in Results
    BY <1>3
  <2> QED
    BY <1>3, <2>1 DEF Body, Tys
<1>4. CASE Shape[d] = "box"
  <2>1. Parts[d][1] \in Dies
    BY <1>4
  <2> QED
    BY <1>1, <1>4, <2>1 DEF Body, Tys
<1>5. CASE Shape[d] \in {"vec", "map"}
  <2>1. Parts[d][Len(Parts[d])] \in Dies
    BY <1>5
  <2> QED
    BY <1>1, <1>5, <2>1 DEF Body, Tys, Shapes
<1>6. CASE Shape[d] \notin {"enum", "box", "vec", "map"}
  BY <1>6 DEF Body, Tys, Shapes
<1> QED
  BY <1>2, <1>3, <1>4, <1>5, <1>6

-----------------------------------------------------------------------------
(* Helpers about the stack of calls.                                       *)

\* A frame of a stack.
LEMMA FrameOf ==
  ASSUME NEW frames \in Seq(Frame), NEW made \in Seq(Call), NEW m,
         FramesOK(m, frames, made), NEW i \in 1..Len(frames)
  PROVE  /\ frames[i] \in Frame
         /\ frames[i].call \in 1..Len(made)
         /\ frames[i].kids \in Seq(Results)
         /\ Len(frames[i].kids) \in Nat
         /\ made[frames[i].call] \in Call
         /\ made[frames[i].call].die \in Dies
         /\ Parts[made[frames[i].call].die] \in Seq(Dies)
         /\ Len(Parts[made[frames[i].call].die]) \in Nat
<1>1. frames[i] \in Frame
  BY ElementOfSeq
<1>2. frames[i].call \in 1..Len(made) /\ frames[i].kids \in Seq(Results)
  BY <1>1 DEF FramesOK, Frame
<1>3. made[frames[i].call] \in Call
  BY <1>2, ElementOfSeq
<1>4. made[frames[i].call].die \in Dies
  BY <1>3 DEF Call
<1>5. Parts[made[frames[i].call].die] \in Seq(Dies)
  BY <1>4, DieAssumption
<1> QED
  BY <1>1, <1>2, <1>3, <1>4, <1>5, LenProperties

\* All frames but the top one have parts to come.
LEMMA Below ==
  ASSUME NEW frames \in Seq(Frame), frames # <<>>,
         NEW made \in Seq(Call), NEW m, FramesOK(m, frames, made),
         NEW b, b = SubSeq(frames, 1, Len(frames) - 1)
  PROVE  /\ Len(frames) \in Nat \ {0}
         /\ b \in Seq(Frame)
         /\ Len(b) = Len(frames) - 1
         /\ \A i \in 1..Len(b) : b[i] = frames[i]
         /\ FramesOK("enter", b, made)
<1>1. Len(frames) \in Nat \ {0}
  BY EmptySeq, LenProperties
<1>2. \A i \in 1..(Len(frames) - 1) : frames[i] \in Frame
  BY <1>1, ElementOfSeq
<1>3. /\ b \in Seq(Frame)
      /\ Len(b) = Len(frames) - 1
      /\ \A i \in 1..Len(b) : b[i] = frames[i]
  <2> DEFINE s == SubSeq(frames, 1, Len(frames) - 1)
  <2>1. /\ s \in Seq(Frame)
        /\ Len(s) = IF 1 <= Len(frames) - 1 THEN Len(frames) - 1 - 1 + 1 ELSE 0
        /\ \A i \in 1..(Len(frames) - 1 - 1 + 1) : s[i] = frames[1 + i - 1]
    BY <1>1, <1>2, SubSeqProperties
  <2>2. b = s
    OBVIOUS
  <2> HIDE DEF s
  <2>3. Len(s) = Len(frames) - 1
    <3>1. \A n \in Nat \ {0} :
            (IF 1 <= n - 1 THEN n - 1 - 1 + 1 ELSE 0) = n - 1
      OBVIOUS
    <3> QED
      BY <1>1, <2>1, <3>1
  <2>4. \A i \in 1..Len(s) : s[i] = frames[i]
    BY <1>1, <2>1, <2>3
  <2> QED
    BY <2>1, <2>2, <2>3, <2>4
<1>4. ASSUME NEW i \in 1..Len(b)
      PROVE  /\ b[i].call \in 1..Len(made)
             /\ Len(b[i].kids) < Len(Parts[made[b[i].call].die])
  <2>1. i \in 1..Len(frames) /\ i # Len(frames) /\ b[i] = frames[i]
    BY <1>1, <1>3
  <2>2. /\ Len(frames[i].kids) \in Nat
        /\ Len(Parts[made[frames[i].call].die]) \in Nat
    BY <2>1, FrameOf
  <2> QED
    BY <2>1, <2>2 DEF FramesOK
<1>5. \A i \in 1..Len(b) :
        /\ Len(b[i].kids) \in Nat
        /\ Len(Parts[made[b[i].call].die]) \in Nat
  BY <1>1, <1>3, FrameOf
<1>6. FramesOK("enter", b, made)
  BY <1>4, <1>5 DEF FramesOK
<1> QED
  BY <1>1, <1>3, <1>6

\* A Ty is handed to the top frame, which has parts to come.
LEMMA Handed ==
  ASSUME NEW frames \in Seq(Frame), frames # <<>>,
         NEW made \in Seq(Call), FramesOK("enter", frames, made),
         NEW t \in Results, NEW f, f = Hand(frames, t)
  PROVE  /\ f \in Seq(Frame)
         /\ Len(f) = Len(frames)
         /\ \A i \in 1..Len(f) : f[i].call = frames[i].call
         /\ f[Len(f)].kids = Append(frames[Len(frames)].kids, t)
         /\ \A i \in 1..Len(f) : i # Len(f) => f[i] = frames[i]
         /\ FramesOK("body", f, made)
<1> DEFINE n == Len(frames)
           e == [frames[n] EXCEPT !.kids = Append(@, t)]
<1>1. n \in 1..Len(frames) /\ n \in Nat
  BY EmptySeq, LenProperties
<1>2. /\ frames[n] \in Frame
      /\ frames[n].kids \in Seq(Results)
      /\ Len(frames[n].kids) \in Nat
      /\ Len(Parts[made[frames[n].call].die]) \in Nat
  BY <1>1, FrameOf
<1>3. /\ Append(frames[n].kids, t) \in Seq(Results)
      /\ Len(Append(frames[n].kids, t)) = Len(frames[n].kids) + 1
  BY <1>2, AppendProperties
<1>4. /\ e \in Frame
      /\ e.call = frames[n].call
      /\ e.kids = Append(frames[n].kids, t)
  BY <1>2, <1>3 DEF Frame
<1>5. f = [frames EXCEPT ![n] = e]
  BY DEF Hand
<1> HIDE DEF e
<1>6. /\ f \in Seq(Frame)
      /\ Len(f) = n
      /\ \A i \in 1..n : f[i] = IF i = n THEN e ELSE frames[i]
  <2>1. /\ [frames EXCEPT ![n] = e] \in Seq(Frame)
        /\ Len([frames EXCEPT ![n] = e]) = Len(frames)
        /\ \A i \in 1..Len(frames) :
             [frames EXCEPT ![n] = e][i] = IF i = n THEN e ELSE frames[i]
    <3> HIDE DEF n
    <3> QED
      BY <1>1, <1>4, ExceptSeq
  <2> QED
    BY <1>5, <2>1
<1>7. ASSUME NEW i \in 1..n
      PROVE  /\ f[i].call \in 1..Len(made)
             /\ Len(f[i].kids) <= Len(Parts[made[f[i].call].die])
             /\ Len(f[i].kids) = Len(Parts[made[f[i].call].die]) => i = n
  <2>1. /\ Len(frames[i].kids) \in Nat
        /\ Len(Parts[made[frames[i].call].die]) \in Nat
    BY FrameOf
  <2>2. /\ frames[i].call \in 1..Len(made)
        /\ Len(frames[i].kids) < Len(Parts[made[frames[i].call].die])
    BY <2>1 DEF FramesOK
  <2>3. CASE i # n
    BY <2>2, <2>3, <2>1, <1>6
  <2>4. CASE i = n
    <3>1. f[i] = e
      BY <1>1, <1>6, <2>4
    <3>2. f[i].call = frames[n].call /\ Len(f[i].kids) = Len(frames[n].kids) + 1
      BY <1>3, <1>4, <3>1
    <3> QED
      BY <1>2, <2>2, <2>4, <3>2
  <2> QED
    BY <2>3, <2>4
<1>8. FramesOK("body", f, made)
  BY <1>6, <1>7 DEF FramesOK
<1> QED
  BY <1>1, <1>4, <1>6, <1>8

\* Only the DIEs of the calls matter.
LEMMA SameCalls ==
  ASSUME NEW frames \in Seq(Frame), NEW m, NEW made, NEW remade,
         FramesOK(m, frames, made), Len(remade) = Len(made),
         \A n \in 1..Len(made) : remade[n].die = made[n].die
  PROVE  FramesOK(m, frames, remade)
BY DEF FramesOK

\* A new call, which starts with no part built.
LEMMA Pushed ==
  ASSUME NEW frames \in Seq(Frame), NEW made \in Seq(Call),
         FramesOK("enter", frames, made),
         NEW f \in Seq(Frame), Len(f) = Len(frames) + 1,
         \A i \in 1..Len(frames) : f[i] = frames[i],
         f[Len(frames) + 1] = NewFrame(Len(made) + 1),
         NEW g \in Seq(Call), Len(g) = Len(made) + 1,
         \A i \in 1..Len(made) : g[i] = made[i]
  PROVE  FramesOK("body", f, g)
<1>1. Len(frames) \in Nat /\ Len(made) \in Nat
  BY LenProperties
<1>2. ASSUME NEW i \in 1..Len(f)
      PROVE  /\ f[i].call \in 1..Len(g)
             /\ Len(f[i].kids) <= Len(Parts[g[f[i].call].die])
             /\ Len(f[i].kids) = Len(Parts[g[f[i].call].die])
                  => i = Len(f)
  <2>1. CASE i \in 1..Len(frames)
    <3>1. /\ Len(frames[i].kids) \in Nat
          /\ frames[i].call \in 1..Len(made)
          /\ Len(Parts[made[frames[i].call].die]) \in Nat
      BY <2>1, FrameOf
    <3>2. Len(frames[i].kids) < Len(Parts[made[frames[i].call].die])
      BY <2>1, <3>1 DEF FramesOK
    <3>3. f[i] = frames[i] /\ g[frames[i].call] = made[frames[i].call]
      BY <2>1, <3>1
    <3>4. frames[i].call \in 1..Len(g)
      BY <1>1, <3>1
    <3>5. Len(frames[i].kids) # Len(Parts[made[frames[i].call].die])
      BY <3>1, <3>2
    <3>6. Len(frames[i].kids) <= Len(Parts[made[frames[i].call].die])
      BY <3>1, <3>2
    <3> QED
      BY <3>3, <3>4, <3>5, <3>6, Zenon
  <2>2. CASE i = Len(frames) + 1
    <3>1. f[i].call = Len(made) + 1 /\ Len(f[i].kids) = 0
      BY <2>2, EmptySeq DEF NewFrame
    <3>2. Len(Parts[g[f[i].call].die]) \in Nat
      <4>1. g[f[i].call] \in Call
        BY <1>1, <3>1, ElementOfSeq
      <4> QED
        BY <4>1, DieAssumption, LenProperties DEF Call
    <3> QED
      BY <1>1, <2>2, <3>1, <3>2
  <2> QED
    BY <1>1, <2>1, <2>2
<1> QED
  BY <1>2 DEF FramesOK

-----------------------------------------------------------------------------
(* Type correctness.                                                       *)

\* Stack and calls, with the names of this module.
LEMMA TypedStack ==
  ASSUME TypeOK
  PROVE  /\ stack \in Seq(Frame) /\ Len(stack) \in Nat
         /\ calls \in Seq(Call) /\ Len(calls) \in Nat
         /\ FramesOK(mode, stack, calls)
  BY LenProperties DEF TypeOK, Frame, Call

\* The call on top.
LEMMA TypedTop ==
  ASSUME TypeOK, stack # <<>>
  PROVE  /\ Len(stack) \in Nat \ {0}
         /\ top = stack[Len(stack)] /\ top \in Frame
         /\ top.call \in 1..Len(calls)
         /\ top.kids \in Seq(Results) /\ Len(top.kids) \in Nat
         /\ calls[top.call] \in Call
         /\ topDie \in Dies
         /\ Parts[topDie] \in Seq(Dies) /\ Len(Parts[topDie]) \in Nat
         /\ below \in Seq(Frame)
         /\ Len(below) = Len(stack) - 1
         /\ \A i \in 1..Len(below) : below[i] = stack[i]
         /\ FramesOK("enter", below, calls)
<1>1. /\ stack \in Seq(Frame) /\ calls \in Seq(Call)
      /\ FramesOK(mode, stack, calls)
  BY TypedStack
<1>2. /\ Len(stack) \in Nat \ {0}
      /\ below \in Seq(Frame)
      /\ Len(below) = Len(stack) - 1
      /\ \A i \in 1..Len(below) : below[i] = stack[i]
      /\ FramesOK("enter", below, calls)
  BY <1>1, Below DEF below
<1>3. Len(stack) \in 1..Len(stack)
  BY <1>2
<1> QED
  BY <1>1, <1>2, <1>3, FrameOf DEF top, topDie

\* What Return does to the stack.
LEMMA Returned ==
  ASSUME NEW frames \in Seq(Frame), NEW made \in Seq(Call),
         FramesOK("enter", frames, made), NEW t \in Results,
         Return(t, frames), result \in Results
  PROVE  /\ stack' \in Seq(Frame)
         /\ Len(stack') = Len(frames)
         /\ \A i \in 1..Len(frames) : stack'[i].call = frames[i].call
         /\ FramesOK(mode', stack', made)
         /\ mode' \in {"idle", "body"}
         /\ mode' = "body" => stack' # <<>>
         /\ mode' = "idle" => stack' = <<>>
         /\ result' \in Results
<1>1. CASE frames = <<>>
  BY <1>1, EmptySeq DEF Return, FramesOK
<1>2. CASE frames # <<>>
  <2>1. stack' = Hand(frames, t) /\ mode' = "body" /\ result' = result
    BY <1>2 DEF Return, Hand
  <2>2. /\ stack' \in Seq(Frame)
        /\ Len(stack') = Len(frames)
        /\ \A i \in 1..Len(stack') : stack'[i].call = frames[i].call
        /\ FramesOK("body", stack', made)
    BY <1>2, <2>1, Handed
  <2>3. Len(frames) \in Nat /\ Len(frames) # 0
    BY <1>2, EmptySeq, LenProperties
  <2>4. stack' # <<>>
    BY <2>2, <2>3, EmptySeq
  <2> QED
    BY <2>1, <2>2, <2>4
<1> QED
  BY <1>1, <1>2

\* Entering a call, none of the calls in progress is done.
LEMMA EnterFrames ==
  ASSUME NEW frames \in Seq(Frame), NEW made,
         FramesOK("enter", frames, made), NEW m
  PROVE  FramesOK(m, frames, made)
  BY DEF FramesOK

\* Finish writes to one call, and leaves its DIE.
LEMMA FinishCalls ==
  ASSUME TypeOK, Finish
  PROVE  /\ stack # <<>>
         /\ calls' \in Seq(Call)
         /\ Len(calls') = Len(calls)
         /\ \A n \in 1..Len(calls) : calls'[n].die = calls[n].die
         /\ calls'[top.call].set = (top.call \in handed)
         /\ \A n \in 1..Len(calls) : n # top.call => calls'[n] = calls[n]
<1> DEFINE y == Body(topDie, top.kids)
           x == top.call \in handed
           c == [calls[top.call] EXCEPT !.ty = y, !.set = x]
<1>1. stack # <<>>
  BY DEF TypeOK, Finish
<1>2. y \in Tys /\ x \in BOOLEAN
  BY <1>1, TypedTop, BodyInTys DEF Finish
<1>3. /\ c \in Call
      /\ c.die = calls[top.call].die
      /\ c.set = x
  <2> HIDE DEF x, y
  <2>1. calls[top.call] \in Call
    BY <1>1, TypedTop
  <2> QED
    BY <1>2, <2>1 DEF Call
<1>4. calls' = [calls EXCEPT ![top.call] = c]
  BY DEF Finish
<1> HIDE DEF c
<1>5. /\ calls' \in Seq(Call)
      /\ Len(calls') = Len(calls)
      /\ \A n \in 1..Len(calls) :
           calls'[n] = IF n = top.call THEN c ELSE calls[n]
  BY <1>1, <1>3, <1>4, TypedStack, TypedTop, ExceptSeq
<1> QED
  BY <1>1, <1>3, <1>5, TypedTop

\* Descend adds one call and one frame.
LEMMA DescendCalls ==
  ASSUME TypeOK, Descend
  PROVE  /\ calls' \in Seq(Call)
         /\ Len(calls') = Len(calls) + 1
         /\ \A n \in 1..Len(calls) : calls'[n] = calls[n]
         /\ calls'[Len(calls) + 1].die = Site(arg)
         /\ stack' \in Seq(Frame)
         /\ Len(stack') = Len(stack) + 1
         /\ \A i \in 1..Len(stack) : stack'[i] = stack[i]
         /\ stack'[Len(stack) + 1] = NewFrame(Len(calls) + 1)
<1> DEFINE c == [die |-> Site(arg), ty |-> NoTy, set |-> FALSE]
           e == NewFrame(Len(calls) + 1)
<1>1. c \in Call /\ c.die = Site(arg)
  BY SiteInDies DEF Descend, TypeOK, Call, Tys, NoTy
<1>2. e \in Frame
  BY TypedStack, EmptySeq DEF Frame, NewFrame
<1>3. stack' = Append(stack, e) /\ calls' = Append(calls, c)
  BY DEF Descend, NewFrame
<1> HIDE DEF c, e
<1>4. stack \in Seq(Frame) /\ calls \in Seq(Call)
  BY TypedStack
<1>5. /\ Append(stack, e) \in Seq(Frame)
      /\ Len(Append(stack, e)) = Len(stack) + 1
      /\ \A i \in 1..Len(stack) : Append(stack, e)[i] = stack[i]
      /\ Append(stack, e)[Len(stack) + 1] = e
  BY <1>2, <1>4, AppendProperties
<1>6. /\ Append(calls, c) \in Seq(Call)
      /\ Len(Append(calls, c)) = Len(calls) + 1
      /\ \A n \in 1..Len(calls) : Append(calls, c)[n] = calls[n]
      /\ Append(calls, c)[Len(calls) + 1] = c
  BY <1>1, <1>4, AppendProperties
<1> QED
  BY <1>1, <1>3, <1>5, <1>6 DEF e

\* Each step of the walk preserves the types.
LEMMA TypeInductive ==
  ASSUME TypeOK, [Next]_vars
  PROVE  TypeOK'
<1> USE DEF Modes
<1>0. /\ stack \in Seq(Frame) /\ Len(stack) \in Nat
      /\ calls \in Seq(Call) /\ Len(calls) \in Nat
      /\ FramesOK(mode, stack, calls)
  BY TypedStack
<1>1. ASSUME NEW d \in Dies, Start(d) PROVE TypeOK'
  <2>1. stack = <<>> /\ Len(stack) = 0
    BY <1>1, EmptySeq DEF Start, TypeOK
  <2>2. FramesOK("enter", stack, calls)
    BY <2>1 DEF FramesOK
  <2>3. NoResult \in Results
    BY DEF NoResult, Inline, Results
  <2>4. roots + 1 \in 0..MaxRoots
    BY <1>1, DieAssumption DEF Start, TypeOK
  <2> QED
    BY <1>1, <2>2, <2>3, <2>4 DEF Start, TypeOK
<1>2. CASE Unwrap
  <2>1. Target[Site(arg)] \in Dies
    BY <1>2, SiteInDies, DieAssumption DEF Unwrap, TypeOK
  <2> QED
    BY <1>2, <2>1 DEF Unwrap, TypeOK
<1>3. CASE UnwrapPanics
  <2>1. FramesOK("unwind", stack, calls)
    BY <1>0, <1>3, EnterFrames DEF UnwrapPanics
  <2> QED
    BY <1>3, <2>1 DEF UnwrapPanics, TypeOK
<1>4. CASE BackEdge
  <2> DEFINE n == memo[Key(Site(arg))]
  <2>1. n \in 1..Len(calls) /\ Ref(n) \in Results
    BY <1>4 DEF BackEdge, TypeOK, Ref, Results
  <2>2. FramesOK("enter", stack, calls) /\ Return(Ref(n), stack)
    BY <1>0, <1>4 DEF BackEdge
  <2>3. /\ stack' \in Seq(Frame)
        /\ FramesOK(mode', stack', calls)
        /\ mode' \in {"idle", "body"}
        /\ mode' = "body" => stack' # <<>>
        /\ mode' = "idle" => stack' = <<>>
        /\ result' \in Results
    BY <1>0, <2>1, <2>2, Returned DEF TypeOK
  <2> QED
    BY <1>4, <2>1, <2>3 DEF BackEdge, TypeOK, Frame
<1>5. CASE Descend
  <2>1. /\ stack' \in Seq(Frame) /\ calls' \in Seq(Call)
        /\ Len(stack') = Len(stack) + 1 /\ Len(calls') = Len(calls) + 1
    BY <1>5, DescendCalls
  <2>2. FramesOK("body", stack', calls')
    <3>1. FramesOK("enter", stack, calls)
      BY <1>0, <1>5 DEF Descend
    <3> QED
      BY <1>0, <1>5, <3>1, DescendCalls, Pushed
  <2>3. stack' # <<>>
    BY <1>0, <2>1, EmptySeq
  <2>4. \A k \in DOMAIN memo' : memo'[k] \in 1..Len(calls')
    BY <1>0, <1>5, <2>1 DEF Descend, TypeOK
  <2>5. handed \subseteq 1..Len(calls')
    BY <1>0, <2>1 DEF TypeOK
  <2> QED
    BY <1>5, <2>1, <2>2, <2>3, <2>4, <2>5 DEF Descend, TypeOK, Frame, Call
<1>6. CASE NextPart
  <2>1. stack # <<>>
    BY <1>6 DEF NextPart, TypeOK
  <2>2. Len(top.kids) + 1 \in 1..Len(Parts[topDie])
    BY <1>6, <2>1, TypedTop DEF NextPart
  <2>3. Parts[topDie][Len(top.kids) + 1] \in Dies
    BY <2>1, <2>2, TypedTop, ElementOfSeq
  <2>4. FramesOK("enter", stack, calls)
    <3>1. \A i \in 1..Len(stack) :
            Len(stack[i].kids) = Len(Parts[calls[stack[i].call].die])
              => i # Len(stack)
      BY <1>6, <2>1, TypedTop DEF NextPart, top, topDie
    <3> QED
      BY <1>0, <3>1 DEF FramesOK
  <2> QED
    BY <1>6, <2>3, <2>4 DEF NextPart, TypeOK
<1>7. CASE Finish
  <2> DEFINE t == Inline(top.call)
  <2>1. /\ stack # <<>>
        /\ calls' \in Seq(Call)
        /\ Len(calls') = Len(calls)
        /\ \A n \in 1..Len(calls) : calls'[n].die = calls[n].die
    BY <1>7, FinishCalls
  <2>2. FramesOK("enter", below, calls')
    BY <2>1, TypedTop, SameCalls
  <2>3. t \in Results
    BY <1>0, <2>1, TypedTop DEF Inline, Results
  <2>4. /\ stack' \in Seq(Frame)
        /\ FramesOK(mode', stack', calls')
        /\ mode' \in {"idle", "body"}
        /\ mode' = "body" => stack' # <<>>
        /\ mode' = "idle" => stack' = <<>>
        /\ result' \in Results
    <3>1. PICK made \in Seq(Call) : made = calls'
      BY <2>1
    <3>2. Return(t, below) /\ below \in Seq(Frame)
      BY <1>7, <2>1, TypedTop DEF Finish
    <3> HIDE DEF t
    <3> QED
      BY <2>2, <2>3, <3>1, <3>2, Returned DEF TypeOK
  <2>5. \A k \in DOMAIN memo' : memo'[k] \in 1..Len(calls')
    BY <1>7, <2>1 DEF Finish, TypeOK
  <2> QED
    BY <1>7, <2>1, <2>4, <2>5 DEF Finish, TypeOK, Frame, Call
<1>8. CASE BodyPanics
  <2>1. FramesOK("unwind", stack, calls)
    BY <1>0, <1>8 DEF BodyPanics, FramesOK
  <2> QED
    BY <1>8, <2>1 DEF BodyPanics, TypeOK
<1>9. CASE Unwind
  <2>1. below \in Seq(Frame) /\ FramesOK("unwind", below, calls)
    BY <1>0, <1>9, TypedTop, EnterFrames DEF Unwind
  <2> QED
    BY <1>9, <2>1 DEF Unwind, TypeOK, Frame
<1>10. CASE Unwound
  <2>1. FramesOK("panicked", stack, calls)
    BY <1>0, <1>10 DEF Unwound, FramesOK
  <2> QED
    BY <1>10, <2>1 DEF Unwound, TypeOK
<1>11. CASE UNCHANGED vars
  BY <1>11 DEF vars, TypeOK
<1> QED
  BY <1>1, <1>2, <1>3, <1>4, <1>5, <1>6, <1>7, <1>8, <1>9, <1>10, <1>11
     DEF Next, Walk, AllDone

\* The variables have their types, and a call in progress has parts to come.
THEOREM TypeCorrect == Spec => []TypeOK
<1>1. Init => TypeOK
  <2> SUFFICES ASSUME Init PROVE TypeOK
    OBVIOUS
  <2>1. FramesOK(mode, stack, calls)
    BY EmptySeq DEF Init, FramesOK
  <2>2. 0 \in 0..MaxRoots /\ NoResult \in Results
    BY DieAssumption DEF NoResult, Inline, Results
  <2> QED
    BY <2>1, <2>2, EmptySeq DEF Init, TypeOK, Modes
<1>2. TypeOK /\ [Next]_vars => TypeOK'
  BY TypeInductive
<1> QED
  BY <1>1, <1>2, PTL DEF Spec

-----------------------------------------------------------------------------
(* The MEMO.                                                               *)

\* The same calls are in progress, and the MEMO is the same.
LEMMA MemoKept ==
  ASSUME TypeOK, MemoIsInFlight,
         Len(stack') = Len(stack), memo' = memo, calls' = calls,
         \A i \in 1..Len(stack) : stack'[i].call = stack[i].call
  PROVE  MemoIsInFlight'
  BY DEF MemoIsInFlight, Key

\* The call on top is over, and the MEMO has its type no more.
LEMMA MemoPopped ==
  ASSUME TypeOK, MemoIsInFlight, stack # <<>>,
         Len(stack') = Len(stack) - 1,
         \A i \in 1..(Len(stack) - 1) : stack'[i].call = stack[i].call,
         \A n \in 1..Len(calls) : calls'[n].die = calls[n].die,
         memo' = [k \in DOMAIN memo \ {Key(topDie)} |-> memo[k]]
  PROVE  MemoIsInFlight'
<1>1. Len(stack) \in Nat \ {0} /\ topDie = calls[stack[Len(stack)].call].die
  BY TypedTop DEF topDie
<1>2. \A i \in 1..Len(stack) :
        /\ calls[stack[i].call].die \in Dies
        /\ stack[i].call \in 1..Len(calls)
  BY TypedStack, FrameOf
<1>3. \A i \in 1..Len(stack') :
        /\ i \in 1..Len(stack) /\ i # Len(stack)
        /\ stack'[i].call = stack[i].call
        /\ calls'[stack'[i].call].die = calls[stack[i].call].die
  BY <1>1, <1>2
<1>4. \A i \in 1..Len(stack') :
        LET k == Key(calls[stack[i].call].die) IN
          k # Key(topDie) /\ k \in DOMAIN memo /\ memo[k] = stack[i].call
  <2> SUFFICES ASSUME NEW i \in 1..Len(stack')
               PROVE  LET k == Key(calls[stack[i].call].die) IN
                        /\ k # Key(topDie)
                        /\ k \in DOMAIN memo /\ memo[k] = stack[i].call
    OBVIOUS
  <2>1. i \in 1..Len(stack) /\ i # Len(stack) /\ Len(stack) \in 1..Len(stack)
    BY <1>1, <1>3
  <2>2. calls[stack[i].call].die # topDie
    BY <1>1, <2>1 DEF MemoIsInFlight
  <2>3. Key(calls[stack[i].call].die) # Key(topDie)
    BY <1>1, <1>2, <2>1, <2>2, KeyInjective
  <2> QED
    BY <2>1, <2>3 DEF MemoIsInFlight
<1>5. \A i \in 1..Len(stack') :
        LET k == Key(calls'[stack'[i].call].die) IN
          k \in DOMAIN memo' /\ memo'[k] = stack'[i].call
  BY <1>3, <1>4
<1>6. ASSUME NEW k \in DOMAIN memo'
      PROVE  \E i \in 1..Len(stack') : k = Key(calls'[stack'[i].call].die)
  <2>1. k \in DOMAIN memo /\ k # Key(topDie)
    OBVIOUS
  <2>2. PICK i \in 1..Len(stack) : k = Key(calls[stack[i].call].die)
    BY <2>1 DEF MemoIsInFlight
  <2>3. i \in 1..Len(stack')
    BY <1>1, <2>1, <2>2
  <2> QED
    BY <1>3, <2>2, <2>3
<1>7. \A i, j \in 1..Len(stack') :
        calls'[stack'[i].call].die = calls'[stack'[j].call].die => i = j
  BY <1>3 DEF MemoIsInFlight
<1> QED
  BY <1>5, <1>6, <1>7 DEF MemoIsInFlight, Key

\* A call starts on a type that is not in progress.
LEMMA MemoPushed ==
  ASSUME TypeOK, MemoIsInFlight, Descend
  PROVE  MemoIsInFlight'
<1> DEFINE d == Site(arg)
           n == Len(calls) + 1
           l == Len(stack) + 1
<1>1. /\ Len(calls') = n /\ calls'[n].die = d
      /\ \A i \in 1..Len(calls) : calls'[i] = calls[i]
      /\ Len(stack') = l /\ stack'[l].call = n
      /\ \A i \in 1..Len(stack) : stack'[i] = stack[i]
      /\ Len(stack) \in Nat
  BY DescendCalls, TypedStack DEF NewFrame
<1>2. /\ Key(d) \notin DOMAIN memo
      /\ memo' = [j \in DOMAIN memo \union {Key(d)} |->
                    IF j = Key(d) THEN n ELSE memo[j]]
  BY DEF Descend
<1>3. \A i \in 1..Len(stack) :
        /\ stack[i].call \in 1..Len(calls)
        /\ calls'[stack'[i].call].die = calls[stack[i].call].die
  BY <1>1, TypedStack, FrameOf
<1>4. calls'[stack'[l].call].die = d
  BY <1>1
<1>5. \A i \in 1..Len(stack') : i \in 1..Len(stack) \/ i = l
  BY <1>1
<1> HIDE DEF d, n, l
<1>6. \A i \in 1..Len(stack) :
        LET k == Key(calls[stack[i].call].die) IN
          /\ k \in DOMAIN memo /\ memo[k] = stack[i].call
          /\ calls[stack[i].call].die # d
  BY <1>2 DEF MemoIsInFlight
<1>7. \A i \in 1..Len(stack') :
        LET k == Key(calls'[stack'[i].call].die) IN
          k \in DOMAIN memo' /\ memo'[k] = stack'[i].call
  BY <1>1, <1>2, <1>3, <1>4, <1>5, <1>6
<1>8. ASSUME NEW k \in DOMAIN memo'
      PROVE  \E i \in 1..Len(stack') : k = Key(calls'[stack'[i].call].die)
  <2>1. CASE k \in DOMAIN memo
    <3>1. PICK i \in 1..Len(stack) : k = Key(calls[stack[i].call].die)
      BY <2>1 DEF MemoIsInFlight
    <3>2. i \in 1..Len(stack')
      BY <1>1 DEF l
    <3> QED
      BY <1>3, <3>1, <3>2
  <2>2. CASE k = Key(d)
    <3>1. l \in 1..Len(stack')
      BY <1>1 DEF l
    <3> QED
      BY <1>4, <2>2, <3>1
  <2> QED
    BY <1>2, <2>1, <2>2
<1>9. \A i, j \in 1..Len(stack') :
        calls'[stack'[i].call].die = calls'[stack'[j].call].die => i = j
  BY <1>3, <1>4, <1>5, <1>6 DEF MemoIsInFlight
<1> QED
  BY <1>7, <1>8, <1>9 DEF MemoIsInFlight, Key

\* What Return does on the way out of Finish.
LEMMA FinishStack ==
  ASSUME TypeOK, Finish
  PROVE  /\ Len(stack') = Len(stack) - 1
         /\ \A i \in 1..(Len(stack) - 1) : stack'[i].call = stack[i].call
<1>1. stack # <<>>
  BY FinishCalls
<1>2. below \in Seq(Frame) /\ FramesOK("enter", below, calls)
  BY <1>1, TypedTop
<1>3. Inline(top.call) \in Results
  BY <1>1, TypedTop, TypedStack DEF Inline, Results
<1>4. Return(Inline(top.call), below) /\ result \in Results
  BY DEF Finish, TypeOK
<1>5. /\ Len(stack') = Len(below)
      /\ \A i \in 1..Len(below) : stack'[i].call = below[i].call
  BY <1>2, <1>3, <1>4, TypedStack, Returned
<1> QED
  BY <1>1, <1>5, TypedTop

\* What Return does after a back edge.
LEMMA BackEdgeStack ==
  ASSUME TypeOK, BackEdge
  PROVE  /\ memo[Key(Site(arg))] \in 1..Len(calls)
         /\ Len(stack') = Len(stack)
         /\ \A i \in 1..Len(stack) : stack'[i].call = stack[i].call
<1> DEFINE t == Ref(memo[Key(Site(arg))])
<1>1. memo[Key(Site(arg))] \in 1..Len(calls) /\ t \in Results
  BY DEF BackEdge, TypeOK, Ref, Results
<1>2. FramesOK("enter", stack, calls) /\ Return(t, stack)
  BY TypedStack DEF BackEdge
<1>3. result \in Results
  BY DEF TypeOK
<1> HIDE DEF t
<1> QED
  BY <1>1, <1>2, <1>3, TypedStack, Returned

\* The MEMO follows the stack, step by step.
LEMMA MemoInductive ==
  ASSUME TypeOK, MemoIsInFlight, [Next]_vars
  PROVE  MemoIsInFlight'
<1>1. CASE UNCHANGED <<stack, calls, memo>>
  BY <1>1, MemoKept
<1>2. CASE BackEdge
  BY <1>2, BackEdgeStack, MemoKept DEF BackEdge
<1>3. CASE Descend
  BY <1>3, MemoPushed
<1>4. CASE Finish
  BY <1>4, FinishCalls, FinishStack, MemoPopped DEF Finish
<1>5. CASE Unwind
  <2>1. /\ Len(below) = Len(stack) - 1
        /\ \A i \in 1..Len(below) : below[i] = stack[i]
        /\ Len(stack) \in Nat \ {0}
    BY <1>5, TypedTop DEF Unwind
  <2> QED
    BY <1>5, <2>1, MemoPopped DEF Unwind
<1> QED
  BY <1>1, <1>2, <1>3, <1>4, <1>5
     DEF Next, Walk, AllDone, vars, Start, Unwrap, UnwrapPanics, NextPart,
         BodyPanics, Unwound

\* The MEMO has exactly the types in progress, also while a panic unwinds
\* (dwarf.rs, MemoGuard): no walk finds an entry that an earlier one left,
\* and no type is in progress twice.
THEOREM MemoFollowsStack == Spec => []MemoIsInFlight
<1>1. Init => MemoIsInFlight
  BY EmptySeq DEF Init, MemoIsInFlight
<1>2. TypeOK /\ MemoIsInFlight /\ [Next]_vars => MemoIsInFlight'
  BY MemoInductive
<1> QED
  BY <1>1, <1>2, TypeCorrect, PTL DEF Spec

\* The recursion of classify is never deeper than there are types in the
\* debug info, since no type is in progress twice.
THEOREM DepthOfRecursion == Spec => []DepthBounded
<1>1. ASSUME TypeOK, MemoIsInFlight PROVE DepthBounded
  <2> DEFINE f == [i \in 1..Len(stack) |-> calls[stack[i].call].die]
  <2>1. \A i \in 1..Len(stack) : calls[stack[i].call].die \in Dies
    BY <1>1, TypedStack, FrameOf
  <2>2. f \in Injection(1..Len(stack), Dies)
    BY <1>1, <2>1 DEF Injection, IsInjective, MemoIsInFlight
  <2> HIDE DEF f
  <2>3. Cardinality(1..Len(stack)) <= Cardinality(Dies)
    BY <2>2, FS_Injection, DieAssumption
  <2>4. Len(stack) \in Nat /\ Cardinality(Dies) \in Nat
    BY <1>1, TypedStack, FS_CardinalityType, DieAssumption
  <2>5. Cardinality(1..Len(stack)) = Len(stack)
    <3>1. ASSUME NEW n \in Nat
          PROVE  Cardinality(1..n) = n
      <4>1. 1 \in Int /\ n \in Int
        OBVIOUS
      <4>2. Cardinality(1..n) = IF 1 > n THEN 0 ELSE n - 1 + 1
        BY <4>1, FS_Interval, Zenon
      <4> QED
        BY <4>2
    <3> QED
      BY <2>4, <3>1
  <2> QED
    BY <2>3, <2>5 DEF DepthBounded
<1> QED
  BY <1>1, TypeCorrect, MemoFollowsStack, PTL

-----------------------------------------------------------------------------
(* The cells.                                                              *)

\* A cell is handed out while its type is in progress, and is filled when
\* the type is done.
LEMMA KnotsInductive ==
  ASSUME TypeOK, MemoIsInFlight, KnotsTied, [Next]_vars
  PROVE  KnotsTied'
<1>0. stack \in Seq(Frame) /\ Len(stack) \in Nat /\ handed \subseteq 1..Len(calls)
  BY TypedStack DEF TypeOK
<1>1. CASE /\ UNCHANGED <<stack, calls, handed>>
           /\ mode' = mode \/ mode' \in {"unwind", "panicked"}
               \/ mode \in {"idle", "enter", "body"}
  BY <1>1 DEF KnotsTied, InProgress
<1>2. CASE BackEdge
  <2> DEFINE m == memo[Key(Site(arg))]
  <2>1. m \in InProgress
    <3>1. Key(Site(arg)) \in DOMAIN memo
      BY <1>2 DEF BackEdge
    <3>2. PICK i \in 1..Len(stack) :
            Key(Site(arg)) = Key(calls[stack[i].call].die)
      BY <3>1 DEF MemoIsInFlight
    <3> QED
      BY <3>2 DEF MemoIsInFlight, InProgress
  <2>2. InProgress' = InProgress
    BY <1>2, BackEdgeStack DEF InProgress
  <2>3. \A n \in handed : calls[n].set \/ n \in InProgress
    BY <1>2 DEF BackEdge, KnotsTied
  <2> QED
    BY <1>2, <2>1, <2>2, <2>3 DEF BackEdge, KnotsTied
<1>3. CASE Descend
  <2>1. \A n \in InProgress : n \in InProgress'
    <3>1. \A i \in 1..Len(stack) : i \in 1..Len(stack')
                                   /\ stack'[i].call = stack[i].call
      BY <1>0, <1>3, DescendCalls
    <3> QED
      BY <3>1 DEF InProgress
  <2>2. \A n \in handed : calls'[n] = calls[n]
    BY <1>0, <1>3, DescendCalls
  <2> QED
    BY <1>3, <2>1, <2>2 DEF Descend, KnotsTied
<1>4. CASE Finish
  <2>1. ASSUME NEW n \in handed
        PROVE  calls'[n].set \/ n \in InProgress'
    <3>1. CASE n = top.call
      BY <1>4, <3>1, FinishCalls
    <3>2. CASE n # top.call /\ calls[n].set
      BY <1>0, <1>4, <3>2, FinishCalls
    <3>3. CASE n # top.call /\ n \in InProgress
      <4>1. PICK i \in 1..Len(stack) : n = stack[i].call
        BY <3>3 DEF InProgress
      <4>2. i # Len(stack)
        BY <3>3, <4>1 DEF top
      <4>3. i \in 1..Len(stack') /\ stack'[i].call = n
        BY <1>0, <1>4, <4>1, <4>2, FinishStack
      <4> QED
        BY <4>3 DEF InProgress
    <3> QED
      BY <1>4, <3>1, <3>2, <3>3 DEF Finish, KnotsTied
  <2> QED
    BY <1>4, <2>1 DEF Finish, KnotsTied
<1>5. CASE Unwind
  BY <1>5 DEF Unwind, KnotsTied
<1> QED
  BY <1>1, <1>2, <1>3, <1>4, <1>5
     DEF Next, Walk, AllDone, vars, Start, Unwrap, UnwrapPanics, NextPart,
         BodyPanics, Unwound

\* expect("recursive Ty cell not set") never fires (plan.rs:24): no walk that
\* returns leaves a Ty::Ref with an empty cell, however deep, whatever the
\* types refer to.
THEOREM NoEmptyCell == Spec => []KnotsTied
<1>1. Init => KnotsTied
  BY DEF Init, KnotsTied
<1>2. TypeOK /\ MemoIsInFlight /\ KnotsTied /\ [Next]_vars => KnotsTied'
  BY KnotsInductive
<1> QED
  BY <1>1, <1>2, TypeCorrect, MemoFollowsStack, PTL DEF Spec

-----------------------------------------------------------------------------
(* The types of the parts.                                                 *)

\* Among the calls `made`, kid is the Ty of DIE d: a part built in place is
\* finished.
Stands(made, kid, d) ==
  /\ kid.call \in 1..Len(made)
  /\ made[kid.call].die = Real[d]
  /\ ~kid.ref => made[kid.call].ty # NoTy

\* The part that a frame waits for.
Awaited(made, frame) == Parts[made[frame.call].die][Len(frame.kids) + 1]

\* Each call in progress is that of the part that the call below waits for.
Nested(frames, made) ==
  \A i \in 1..(Len(frames) - 1) :
    made[frames[i + 1].call].die = Real[Awaited(made, frames[i])]

\* The parts that the calls in progress have built.
Building(frames, made) ==
  \A i \in 1..Len(frames) : \A j \in 1..Len(frames[i].kids) :
    Stands(made, frames[i].kids[j], Parts[made[frames[i].call].die][j])

\* The parts of the finished types.
Built(made) ==
  \A n \in 1..Len(made) : made[n].ty # NoTy =>
    /\ Len(made[n].ty.kids) = Len(Kept(made[n].die))
    /\ \A j \in 1..Len(made[n].ty.kids) :
         Stands(made, made[n].ty.kids[j], Kept(made[n].die)[j])

\* The call that is about to start is that of the part on top.
Entering ==
  mode = "enter" /\ stack # <<>> => Real[arg] = Real[Awaited(calls, top)]

\* The inductive invariant behind Unfolds.
PartsInStep ==
  /\ Nested(stack, calls)
  /\ Building(stack, calls)
  /\ Built(calls)
  /\ Entering

\* What later calls may do to earlier ones.
Grown(made, remade) ==
  /\ Len(made) <= Len(remade)
  /\ \A n \in 1..Len(made) :
       /\ remade[n].die = made[n].die
       /\ made[n].ty # NoTy => remade[n].ty # NoTy

\* A Ty stays the Ty of its DIE.
LEMMA StandsKept ==
  ASSUME NEW made \in Seq(Call), NEW remade \in Seq(Call),
         Grown(made, remade), NEW kid, NEW d, Stands(made, kid, d)
  PROVE  Stands(remade, kid, d)
<1>1. Len(made) \in Nat /\ Len(remade) \in Nat
  BY LenProperties
<1> QED
  BY <1>1 DEF Grown, Stands

\* What waits for a part, and what is built, stays so.
LEMMA FramesKept ==
  ASSUME NEW frames \in Seq(Frame), NEW m,
         NEW made \in Seq(Call), NEW remade \in Seq(Call),
         FramesOK(m, frames, made), Grown(made, remade),
         Nested(frames, made), Building(frames, made)
  PROVE  Nested(frames, remade) /\ Building(frames, remade)
<1>1. Len(frames) \in Nat
  BY LenProperties
<1>2. \A i \in 1..Len(frames) :
        remade[frames[i].call].die = made[frames[i].call].die
  BY FrameOf DEF Grown
<1>3. Nested(frames, remade)
  <2>1. \A i \in 1..(Len(frames) - 1) :
          i \in 1..Len(frames) /\ i + 1 \in 1..Len(frames)
    BY <1>1
  <2> QED
    BY <1>2, <2>1 DEF Nested, Awaited
<1>4. Building(frames, remade)
  <2> SUFFICES ASSUME NEW i \in 1..Len(frames),
                      NEW j \in 1..Len(frames[i].kids)
               PROVE  Stands(remade, frames[i].kids[j],
                             Parts[remade[frames[i].call].die][j])
    BY DEF Building
  <2>1. Stands(made, frames[i].kids[j], Parts[made[frames[i].call].die][j])
    BY DEF Building
  <2> QED
    BY <1>2, <2>1, StandsKept
<1> QED
  BY <1>3, <1>4

\* Fewer frames.
LEMMA FramesDropped ==
  ASSUME NEW frames, NEW fewer, NEW made,
         Len(frames) \in Nat, Len(fewer) \in Nat, Len(fewer) <= Len(frames),
         \A i \in 1..Len(fewer) : fewer[i] = frames[i],
         Nested(frames, made), Building(frames, made)
  PROVE  Nested(fewer, made) /\ Building(fewer, made)
<1>1. \A i \in 1..Len(fewer) : i \in 1..Len(frames)
  OBVIOUS
<1>2. \A i \in 1..(Len(fewer) - 1) :
        /\ i \in 1..(Len(frames) - 1)
        /\ fewer[i] = frames[i] /\ fewer[i + 1] = frames[i + 1]
  OBVIOUS
<1>3. Nested(fewer, made)
  BY <1>2 DEF Nested
<1>4. Building(fewer, made)
  BY <1>1 DEF Building
<1> QED
  BY <1>3, <1>4

\* The part that was waited for is handed to the frame that waits for it.
LEMMA PartHanded ==
  ASSUME NEW frames \in Seq(Frame), NEW made \in Seq(Call),
         FramesOK("enter", frames, made), NEW t \in Results,
         Return(t, frames), result \in Results,
         Nested(frames, made), Building(frames, made),
         frames # <<>> => Stands(made, t, Awaited(made, frames[Len(frames)]))
  PROVE  Nested(stack', made) /\ Building(stack', made)
<1>1. CASE frames = <<>>
  BY <1>1, EmptySeq DEF Return, Nested, Building
<1>2. CASE frames # <<>>
  <2>1. stack' = Hand(frames, t)
    BY <1>2 DEF Return, Hand
  <2>2. PICK f \in Seq(Frame) :
          /\ f = stack'
          /\ Len(f) = Len(frames)
          /\ \A i \in 1..Len(f) : f[i].call = frames[i].call
          /\ f[Len(f)].kids = Append(frames[Len(frames)].kids, t)
          /\ \A i \in 1..Len(f) : i # Len(f) => f[i] = frames[i]
    BY <1>2, <2>1, Handed
  <2> DEFINE l == Len(frames)
             kids == frames[l].kids
             die == made[frames[l].call].die
  <2>3. l \in Nat \ {0} /\ l \in 1..l
    BY <1>2, EmptySeq, LenProperties
  <2>4. kids \in Seq(Results) /\ Len(kids) \in Nat
    BY <2>3, FrameOf
  <2>5. /\ Len(Append(kids, t)) = Len(kids) + 1
        /\ \A j \in 1..Len(kids) : Append(kids, t)[j] = kids[j]
        /\ Append(kids, t)[Len(kids) + 1] = t
    BY <2>4, AppendProperties
  <2>6. Nested(f, made)
    <3> SUFFICES ASSUME NEW i \in 1..(Len(f) - 1)
                 PROVE  made[f[i + 1].call].die = Real[Awaited(made, f[i])]
      BY DEF Nested
    <3>1. /\ i \in 1..Len(f) /\ i + 1 \in 1..Len(f) /\ i # Len(f)
          /\ i \in 1..(Len(frames) - 1)
      BY <2>2, <2>3
    <3> QED
      BY <2>2, <3>1 DEF Nested
  <2>7. Building(f, made)
    <3> SUFFICES ASSUME NEW i \in 1..Len(f), NEW j \in 1..Len(f[i].kids)
                 PROVE  Stands(made, f[i].kids[j],
                               Parts[made[f[i].call].die][j])
      BY DEF Building
    <3>1. CASE i # l
      BY <2>2, <3>1 DEF Building
    <3>2. CASE i = l /\ j \in 1..Len(kids)
      <4>1. f[i].kids[j] = kids[j] /\ made[f[i].call].die = die
        BY <2>2, <2>5, <3>2
      <4>2. Stands(made, kids[j], Parts[die][j])
        BY <2>3, <3>2 DEF Building
      <4> QED
        BY <4>1, <4>2
    <3>3. CASE i = l /\ j = Len(kids) + 1
      <4>1. f[i].kids[j] = t /\ made[f[i].call].die = die
        BY <2>2, <2>5, <3>3
      <4>2. Stands(made, t, Parts[die][Len(kids) + 1])
        BY <1>2 DEF Awaited
      <4> QED
        BY <3>3, <4>1, <4>2
    <3>4. i # l \/ j \in 1..Len(kids) \/ j = Len(kids) + 1
      <4>1. i = l => j \in 1..(Len(kids) + 1)
        BY <2>2, <2>5
      <4>2. \A m \in Nat : \A x \in 1..(m + 1) : x \in 1..m \/ x = m + 1
        OBVIOUS
      <4>3. Len(kids) \in Nat
        BY <2>4
      <4> QED
        BY ONLY <4>1, <4>2, <4>3, Zenon
    <3> QED
      BY <3>1, <3>2, <3>3, <3>4
  <2> QED
    BY <2>2, <2>6, <2>7
<1> QED
  BY <1>1, <1>2

\* A body whose parts are those of its DIE keeps them as Kept says.
LEMMA BodyKeeps ==
  ASSUME NEW d \in Dies, NEW kids \in Seq(Results),
         Len(kids) = Len(Parts[d]), NEW made,
         \A j \in 1..Len(kids) : Stands(made, kids[j], Parts[d][j])
  PROVE  /\ Body(d, kids) # NoTy
         /\ Len(Body(d, kids).kids) = Len(Kept(d))
         /\ \A j \in 1..Len(Body(d, kids).kids) :
              Stands(made, Body(d, kids).kids[j], Kept(d)[j])
<1> USE DieAssumption
<1>1. /\ Parts[d] \in Seq(Dies) /\ Len(kids) \in Nat
      /\ kids = <<>> <=> Parts[d] = <<>>
      /\ kids # <<>> => Len(kids) \in 1..Len(kids)
  BY EmptySeq, LenProperties
<1>2. CASE Shape[d] = "enum" /\ (~Empty[d] \/ kids = <<>>)
  BY <1>1, <1>2, EmptySeq DEF Body, Kept, NoTy
<1>3. CASE Shape[d] = "enum" /\ Empty[d] /\ kids # <<>>
  <2>1. /\ Body(d, kids).kids = <<kids[Len(kids)]>>
        /\ Kept(d) = <<Parts[d][Len(kids)]>>
        /\ Body(d, kids) # NoTy
    BY <1>1, <1>3 DEF Body, Kept, NoTy
  <2>2. Stands(made, kids[Len(kids)], Parts[d][Len(kids)])
    BY <1>1, <1>3
  <2> QED
    BY <2>1, <2>2
<1>4. CASE Shape[d] # "enum"
  <2>1. Body(d, kids).kids = kids /\ Kept(d) = Parts[d]
    BY <1>4 DEF Body, Kept
  <2>2. Body(d, kids) # NoTy
    BY <1>4 DEF Body, NoTy, Shapes
  <2> QED
    BY <2>1, <2>2
<1> QED
  BY <1>2, <1>3, <1>4

\* A step that moves only between the modes, or stops.
LEMMA PartsKept ==
  ASSUME PartsInStep, UNCHANGED <<stack, calls>>,
         mode' # "enter" \/ UNCHANGED <<mode, arg>>
  PROVE  PartsInStep'
BY DEF PartsInStep, Entering, Awaited, top

\* The step of each action.
LEMMA PartsInductive ==
  ASSUME TypeOK, MemoIsInFlight, PartsInStep, [Next]_vars
  PROVE  PartsInStep'
<1>0. /\ stack \in Seq(Frame) /\ Len(stack) \in Nat
      /\ calls \in Seq(Call) /\ Len(calls) \in Nat
      /\ FramesOK(mode, stack, calls)
  BY TypedStack
<1>1. ASSUME NEW d \in Dies, Start(d) PROVE PartsInStep'
  BY <1>1 DEF Start, TypeOK, PartsInStep, Entering
<1>2. CASE Unwrap
  <2>1. Real[arg] = Real[Target[Site(arg)]]
    BY <1>2, WrapperAssumption DEF Unwrap, TypeOK
  <2> QED
    BY <1>2, <2>1 DEF Unwrap, PartsInStep, Entering, Awaited, top
<1>3. CASE BackEdge
  <2> DEFINE n == memo[Key(Site(arg))]
             t == Ref(n)
  <2>1. PICK i \in 1..Len(stack) :
          Key(Site(arg)) = Key(calls[stack[i].call].die)
    BY <1>3 DEF BackEdge, MemoIsInFlight
  <2>2. stack[i].call = n /\ n \in 1..Len(calls) /\ calls[n].die \in Dies
    BY <1>0, <2>1, FrameOf DEF MemoIsInFlight
  <2>3. calls[n].die = Site(arg)
    BY <1>3, <2>1, <2>2, KeyInjective, SiteInDies DEF BackEdge, TypeOK
  <2>4. Real[arg] = Site(arg)
    BY <1>3, WrapperAssumption DEF BackEdge, TypeOK
  <2>5. stack # <<>> /\ t \in Results /\ t.ref /\ t.call = n
    BY <2>2, <2>1, EmptySeq DEF Ref, Results
  <2>6. Stands(calls, t, Awaited(calls, stack[Len(stack)]))
    BY <1>3, <2>2, <2>3, <2>4, <2>5
       DEF BackEdge, PartsInStep, Entering, Stands, top
  <2>7. /\ Return(t, stack) /\ FramesOK("enter", stack, calls)
        /\ result \in Results
    BY <1>0, <1>3 DEF BackEdge, TypeOK
  <2>8. mode' = "body" /\ calls' = calls
    BY <1>3, <2>5, <2>7 DEF Return, BackEdge
  <2> HIDE DEF n, t
  <2>9. Nested(stack', calls) /\ Building(stack', calls)
    BY <1>0, <2>5, <2>6, <2>7, PartHanded DEF PartsInStep
  <2> QED
    BY <2>8, <2>9 DEF PartsInStep, Entering
<1>4. CASE Descend
  <2>1. /\ calls' \in Seq(Call) /\ Len(calls') = Len(calls) + 1
        /\ \A n \in 1..Len(calls) : calls'[n] = calls[n]
        /\ calls'[Len(calls) + 1].die = Site(arg)
        /\ stack' \in Seq(Frame)
        /\ Len(stack') = Len(stack) + 1
        /\ \A i \in 1..Len(stack) : stack'[i] = stack[i]
        /\ stack'[Len(stack) + 1].call = Len(calls) + 1
        /\ stack'[Len(stack) + 1].kids = <<>>
    BY <1>4, DescendCalls DEF NewFrame
  <2>2. calls'[Len(calls) + 1].ty = NoTy /\ mode' = "body"
    BY <1>0, <1>4 DEF Descend
  <2>3. Grown(calls, calls')
    BY <1>0, <2>1 DEF Grown
  <2>4. Nested(stack, calls') /\ Building(stack, calls')
    BY <1>0, <2>1, <2>3, FramesKept DEF PartsInStep
  <2>5. Real[arg] = Site(arg)
    BY <1>4, WrapperAssumption DEF Descend, TypeOK
  <2>6. Nested(stack', calls')
    <3> SUFFICES ASSUME NEW i \in 1..(Len(stack') - 1)
                 PROVE  calls'[stack'[i + 1].call].die
                          = Real[Awaited(calls', stack'[i])]
      BY DEF Nested
    <3>1. i \in 1..Len(stack) /\ stack'[i] = stack[i]
      BY <1>0, <2>1
    <3>2. CASE i \in 1..(Len(stack) - 1)
      <4>1. i + 1 \in 1..Len(stack) /\ stack'[i + 1] = stack[i + 1]
        BY <1>0, <2>1, <3>2
      <4> QED
        BY <2>4, <3>1, <3>2, <4>1 DEF Nested
    <3>3. CASE i = Len(stack)
      <4>1. calls'[stack'[i + 1].call].die = Site(arg)
        BY <2>1, <3>3
      <4>2. stack # <<>>
        BY <3>1, EmptySeq
      <4>3. Real[arg] = Real[Awaited(calls, stack[i])]
        BY <1>4, <3>3, <4>2 DEF PartsInStep, Entering, Descend, top
      <4>4. Awaited(calls', stack[i]) = Awaited(calls, stack[i])
        BY <1>0, <2>1, <3>1, FrameOf DEF Awaited
      <4> QED
        BY <2>5, <3>1, <4>1, <4>3, <4>4
    <3> QED
      BY <1>0, <3>1, <3>2, <3>3
  <2>7. Building(stack', calls')
    <3> SUFFICES ASSUME NEW i \in 1..Len(stack'),
                        NEW j \in 1..Len(stack'[i].kids)
                 PROVE  Stands(calls', stack'[i].kids[j],
                               Parts[calls'[stack'[i].call].die][j])
      BY DEF Building
    <3>1. i # Len(stack) + 1
      BY <2>1, EmptySeq
    <3>2. i \in 1..Len(stack) /\ stack'[i] = stack[i]
      BY <1>0, <2>1, <3>1
    <3> QED
      BY <2>4, <3>2 DEF Building
  <2>8. Built(calls')
    <3> SUFFICES ASSUME NEW n \in 1..Len(calls'), calls'[n].ty # NoTy
                 PROVE  /\ Len(calls'[n].ty.kids)
                             = Len(Kept(calls'[n].die))
                        /\ \A j \in 1..Len(calls'[n].ty.kids) :
                             Stands(calls', calls'[n].ty.kids[j],
                                    Kept(calls'[n].die)[j])
      BY DEF Built
    <3>1. n # Len(calls) + 1
      BY <2>2
    <3>2. n \in 1..Len(calls) /\ calls'[n] = calls[n]
      BY <1>0, <2>1, <3>1
    <3> QED
      BY <1>0, <2>1, <2>3, <3>2, StandsKept DEF PartsInStep, Built
  <2> QED
    BY <2>2, <2>6, <2>7, <2>8 DEF PartsInStep, Entering
<1>5. CASE NextPart
  <2>1. stack # <<>> /\ arg' = Awaited(calls, top) /\ UNCHANGED <<stack, calls>>
    BY <1>5 DEF NextPart, TypeOK, Awaited, topDie
  <2> QED
    BY <2>1 DEF PartsInStep, Entering, top
<1>6. CASE Finish
  <2> DEFINE t == Inline(top.call)
  <2>1. /\ stack # <<>>
        /\ calls' \in Seq(Call)
        /\ Len(calls') = Len(calls)
        /\ \A n \in 1..Len(calls) : calls'[n].die = calls[n].die
        /\ \A n \in 1..Len(calls) : n # top.call => calls'[n] = calls[n]
    BY <1>6, FinishCalls
  <2>2. /\ top.call \in 1..Len(calls) /\ topDie \in Dies
        /\ top.kids \in Seq(Results) /\ Len(top.kids) = Len(Parts[topDie])
        /\ below \in Seq(Frame) /\ FramesOK("enter", below, calls)
        /\ Len(below) = Len(stack) - 1 /\ Len(stack) \in Nat \ {0}
        /\ \A i \in 1..Len(below) : below[i] = stack[i]
    BY <1>6, <2>1, TypedTop DEF Finish
  <2>3. \A j \in 1..Len(top.kids) :
          Stands(calls, top.kids[j], Parts[topDie][j])
    BY <2>2 DEF PartsInStep, Building, top, topDie
  <2> DEFINE y == Body(topDie, top.kids)
  <2>4. /\ y # NoTy
        /\ Len(y.kids) = Len(Kept(topDie))
        /\ \A j \in 1..Len(y.kids) :
             Stands(calls, y.kids[j], Kept(topDie)[j])
    BY <2>2, <2>3, BodyKeeps
  <2>5. calls'[top.call].ty = y
    <3>1. calls[top.call] \in Call
      BY <1>0, <2>2, ElementOfSeq
    <3> QED
      BY <1>0, <1>6, <2>2, <3>1 DEF Finish, Call
  <2> HIDE DEF y
  <2>6. Grown(calls, calls')
    BY <1>0, <2>1, <2>4, <2>5 DEF Grown
  <2>7. Nested(below, calls') /\ Building(below, calls')
    <3>1. /\ Len(below) \in Nat /\ Len(below) <= Len(stack)
          /\ \A i \in 1..Len(below) : below[i] = stack[i]
      BY <2>2
    <3>2. Nested(below, calls) /\ Building(below, calls)
      BY <1>0, <3>1, FramesDropped DEF PartsInStep
    <3> QED
      BY <1>0, <2>1, <2>2, <2>6, <3>2, FramesKept
  <2>8. t \in Results /\ ~t.ref /\ t.call = top.call
    BY <1>0, <2>2 DEF Inline, Results
  <2>9. ASSUME below # <<>>
         PROVE  Stands(calls', t, Awaited(calls', below[Len(below)]))
    <3> DEFINE l == Len(below)
    <3>1. l \in 1..(Len(stack) - 1) /\ l + 1 = Len(stack)
      BY <2>2, <2>9, EmptySeq, LenProperties
    <3>2. topDie = Real[Awaited(calls, stack[l])]
      BY <3>1 DEF PartsInStep, Nested, topDie, top
    <3>3. below[l] = stack[l] /\ l \in 1..Len(below)
      BY <2>2, <3>1
    <3>4. Awaited(calls', below[l]) = Awaited(calls, below[l])
      BY <1>0, <2>1, <2>2, <3>3, FrameOf DEF Awaited
    <3>5. calls'[top.call].die = topDie
      BY <2>1, <2>2 DEF topDie
    <3> QED
      BY <2>1, <2>2, <2>4, <2>5, <2>8, <3>2, <3>3, <3>4, <3>5 DEF Stands
  <2>10. Nested(stack', calls') /\ Building(stack', calls')
    <3>1. PICK made \in Seq(Call) : made = calls'
      BY <2>1
    <3>2. Return(t, below) /\ result \in Results
      BY <1>6 DEF Finish, TypeOK
    <3>3. FramesOK("enter", below, made)
      BY <2>1, <2>2, <3>1, SameCalls
    <3> HIDE DEF t
    <3> QED
      BY <2>2, <2>7, <2>8, <2>9, <3>1, <3>2, <3>3, PartHanded
  <2>11. Built(calls')
    <3> SUFFICES ASSUME NEW n \in 1..Len(calls), calls'[n].ty # NoTy
                 PROVE  /\ Len(calls'[n].ty.kids)
                             = Len(Kept(calls'[n].die))
                        /\ \A j \in 1..Len(calls'[n].ty.kids) :
                             Stands(calls', calls'[n].ty.kids[j],
                                    Kept(calls'[n].die)[j])
      BY <2>1 DEF Built
    <3>1. CASE n = top.call
      <4>1. calls'[n].die = topDie
        BY <2>1, <2>2, <3>1 DEF topDie
      <4> QED
        BY <1>0, <2>1, <2>4, <2>5, <2>6, <3>1, <4>1, StandsKept
    <3>2. CASE n # top.call
      <4>1. calls'[n] = calls[n]
        BY <2>1, <3>2
      <4> QED
        BY <1>0, <2>1, <2>6, <4>1, StandsKept DEF PartsInStep, Built
    <3> QED
      BY <3>1, <3>2
  <2>12. mode' # "enter"
    BY <1>6 DEF Finish, Return
  <2> QED
    BY <2>10, <2>11, <2>12 DEF PartsInStep, Entering
<1>7. CASE Unwind
  <2>1. /\ Len(below) = Len(stack) - 1 /\ Len(stack) \in Nat \ {0}
        /\ \A i \in 1..Len(below) : below[i] = stack[i]
    BY <1>7, TypedTop DEF Unwind
  <2>2. Nested(below, calls) /\ Building(below, calls)
    BY <2>1, FramesDropped DEF PartsInStep
  <2> QED
    BY <1>7, <2>2 DEF Unwind, PartsInStep, Entering
<1>8. CASE UnwrapPanics \/ BodyPanics \/ Unwound \/ UNCHANGED vars
  BY <1>8, PartsKept DEF UnwrapPanics, BodyPanics, Unwound, vars
<1> QED
  BY <1>1, <1>2, <1>3, <1>4, <1>5, <1>6, <1>7, <1>8
     DEF Next, Walk, AllDone

\* A finished Ty unfolds to the types that its DIE's parts stand for, through
\* typedefs, stubs, wrappers and cells, for any graph of types: also when the
\* walk that built it entered the graph in the middle of a cycle, or when an
\* earlier walk failed.
THEOREM TypesUnfold == Spec => []Unfolds
<1>1. Init => PartsInStep
  BY EmptySeq
     DEF Init, PartsInStep, Nested, Building, Built, Entering
<1>2. TypeOK /\ MemoIsInFlight /\ PartsInStep /\ [Next]_vars => PartsInStep'
  BY PartsInductive
<1>3. PartsInStep => Unfolds
  BY DEF PartsInStep, Built, Stands, Unfolds
<1> QED
  BY <1>1, <1>2, <1>3, TypeCorrect, MemoFollowsStack, PTL DEF Spec
=============================================================================
