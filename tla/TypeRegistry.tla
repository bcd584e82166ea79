---------------------------- MODULE TypeRegistry ----------------------------
(***************************************************************************)
(* What bilbo's two-level cache promises to the code that calls it, with   *)
(* no locks and no lookup order: a registry of classified types that only  *)
(* grows, from which every call is answered with a registered type of its  *)
(* own call site, or fails for one of three reasons.  ResolveCache is the  *)
(* code's way of keeping this promise.                                     *)
(***************************************************************************)
EXTENDS Integers

CONSTANTS
  Threads,  \* application threads
  Sites,    \* call sites, i.e. de-ASLR'd return addresses
  Slots,    \* distinguishable addresses of locals in a caller's frame
  Keys,     \* type DIEs, (unit index, DIE offset)
  NoKey,    \* "no type"
  Alias,    \* Alias[s][p]: type DIE of the local at p in the frame of s
  Unclassifiable  \* the types that cannot be registered

VARIABLES
  loaded,      \* the debug info has been parsed
  registered,  \* the types that have a Resolved
  compiled,    \* the types whose downstream artifact is built
  broken,      \* a classification has failed with the registry locked
  phase,       \* phase[t]: what thread t is doing
  site,        \* site[t], slot[t]: arguments of t's current or last call
  slot,
  answer       \* answer[t]: the type t holds, NoKey when it holds none

vars == <<loaded, registered, compiled, broken, phase, site, slot, answer>>

\* The types a call site can be answered with.
KeysAt(s) == {Alias[s][p] : p \in Slots} \ {NoKey}

Init ==
  /\ loaded = FALSE
  /\ registered = {}
  /\ compiled = {}
  /\ broken = FALSE
  /\ phase = [t \in Threads |-> "idle"]
  /\ site \in [Threads -> Sites]
  /\ slot \in [Threads -> Slots]
  /\ answer = [t \in Threads |-> NoKey]

Ask(t, s, p) ==
  /\ phase[t] = "idle"
  /\ phase' = [phase EXCEPT ![t] = "asked"]
  /\ site' = [site EXCEPT ![t] = s]
  /\ slot' = [slot EXCEPT ![t] = p]
  /\ UNCHANGED <<loaded, registered, compiled, broken, answer>>

Load ==
  /\ ~loaded
  /\ loaded' = TRUE
  /\ UNCHANGED <<registered, compiled, broken, phase, site, slot, answer>>

\* A type enters the registry because a waiting call needs it, once and
\* for good, and never again after a failure.
Register(t) ==
  /\ phase[t] = "asked"
  /\ loaded
  /\ ~broken
  /\ Alias[site[t]][slot[t]] \in Keys \ (registered \union Unclassifiable)
  /\ registered' = registered \union {Alias[site[t]][slot[t]]}
  /\ UNCHANGED <<loaded, compiled, broken, phase, site, slot, answer>>

Answer(t, k) ==
  /\ phase[t] = "asked"
  /\ k \in registered \intersect KeysAt(site[t])
  /\ phase' = [phase EXCEPT ![t] = "answered"]
  /\ answer' = [answer EXCEPT ![t] = k]
  /\ UNCHANGED <<loaded, registered, compiled, broken, site, slot>>

\* The only reasons a call may fail.
Excusable(t) ==
  \/ broken
  \/ ~loaded
  \/ Alias[site[t]][slot[t]] = NoKey

Fail(t) ==
  /\ phase[t] = "asked"
  /\ Excusable(t)
  /\ phase' = [phase EXCEPT ![t] = "idle"]
  /\ UNCHANGED <<loaded, registered, compiled, broken, site, slot, answer>>

\* The one failure that outlives the call that met it.
Break(t) ==
  /\ phase[t] = "asked"
  /\ ~broken
  /\ Alias[site[t]][slot[t]] \in Unclassifiable
  /\ broken' = TRUE
  /\ phase' = [phase EXCEPT ![t] = "idle"]
  /\ UNCHANGED <<loaded, registered, compiled, site, slot, answer>>

\* The consumer builds its artifact for the answered type, at most once.
Compile(t) ==
  /\ phase[t] = "answered"
  /\ answer[t] \in registered \ compiled
  /\ compiled' = compiled \union {answer[t]}
  /\ UNCHANGED <<loaded, registered, broken, phase, site, slot, answer>>

\* The call is over: the value is bound, or its type cannot be compiled.
Finish(t) ==
  /\ phase[t] = "answered"
  /\ phase' = [phase EXCEPT ![t] = "idle"]
  /\ answer' = [answer EXCEPT ![t] = NoKey]
  /\ UNCHANGED <<loaded, registered, compiled, broken, site, slot>>

Next ==
  \/ Load
  \/ \E t \in Threads :
       \/ \E s \in Sites, p \in Slots : Ask(t, s, p)
       \/ Register(t)
       \/ \E k \in Keys : Answer(t, k)
       \/ Fail(t)
       \/ Break(t)
       \/ Compile(t)
       \/ Finish(t)

Spec == Init /\ [][Next]_vars
=============================================================================
