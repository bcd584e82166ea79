----------------------------- MODULE ParserCache -----------------------------
(***************************************************************************)
(* What Resolved::ext and compile_parser promise to the calls that want a  *)
(* parser, with no functions, no modules and no dump: a type's parser is   *)
(* made by one call at a time and for good, and a call fails for one of    *)
(* two reasons, its type or what a failure has left on its thread.         *)
(* JitCompile is the code's way of keeping this promise.                   *)
(***************************************************************************)

CONSTANTS
  Threads,
  Keys,       \* the types
  Bindable,   \* those that a parser can be made for
  NoParser    \* "no parser"

VARIABLES
  phase,    \* phase[t]: what thread t is doing
  want,     \* want[t]: the type of its current or last call
  parser,   \* parser[k]: the parser of type k, or NoParser
  spoilt    \* threads on which the next compilation is lost

vars == <<phase, want, parser, spoilt>>

Init ==
  /\ phase = [t \in Threads |-> "idle"]
  /\ want \in [Threads -> Keys]
  /\ parser = [k \in Keys |-> NoParser]
  /\ spoilt = {}

Moves(t, from, to) ==
  /\ phase[t] = from
  /\ phase' = [phase EXCEPT ![t] = to]

Ask(t, k) ==
  /\ Moves(t, "idle", "asks")
  /\ want' = [want EXCEPT ![t] = k]
  /\ UNCHANGED <<parser, spoilt>>

\* A call whose type has a parser runs it, and is over.
Serve(t) ==
  /\ Moves(t, "asks", "idle")
  /\ parser[want[t]] # NoParser
  /\ UNCHANGED <<want, parser, spoilt>>

\* Nobody has made the parser, and nobody else is making it.
Begin(t) ==
  /\ Moves(t, "asks", "makes")
  /\ parser[want[t]] = NoParser
  /\ \A u \in Threads : ~(phase[u] = "makes" /\ want[u] = want[t])
  /\ UNCHANGED <<want, parser, spoilt>>

\* The parser is there from now on, whichever it is.
Make(t) ==
  /\ Moves(t, "makes", "asks")
  /\ want[t] \in Bindable
  /\ t \notin spoilt
  /\ parser[want[t]] = NoParser
  /\ parser' = [parser EXCEPT ![want[t]] = parser'[want[t]]]
  /\ parser'[want[t]] # NoParser
  /\ UNCHANGED <<want, spoilt>>

\* A type for which there is no parser: the thread may be spoilt by it.
Break(t) ==
  /\ Moves(t, "makes", "idle")
  /\ want[t] \notin Bindable
  /\ spoilt' \in {spoilt, spoilt \union {t}}
  /\ UNCHANGED <<want, parser>>

\* The one call that pays for an earlier one.
Pay(t) ==
  /\ Moves(t, "makes", "idle")
  /\ t \in spoilt
  /\ spoilt' = spoilt \ {t}
  /\ UNCHANGED <<want, parser>>

\* A new thread has nothing to pay for.
Renew(t) ==
  /\ phase[t] = "idle"
  /\ spoilt' = spoilt \ {t}
  /\ UNCHANGED <<phase, want, parser>>

Next ==
  \E t \in Threads :
    \/ \E k \in Keys : Ask(t, k)
    \/ Serve(t) \/ Begin(t) \/ Make(t) \/ Break(t) \/ Pay(t) \/ Renew(t)

Spec == Init /\ [][Next]_vars
=============================================================================
