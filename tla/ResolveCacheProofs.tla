------------------------- MODULE ResolveCacheProofs -------------------------
(***************************************************************************)
(* Theorems about ResolveCache, for any number of threads, call sites,     *)
(* types and calls.                                                        *)
(***************************************************************************)
EXTENDS ResolveCache, TLAPS

USE ConstantsAssumption DEF Labels, Goto, l1Vars, l2Vars, argVars, history

-----------------------------------------------------------------------------
(* Types.                                                                  *)

\* The caches of a fresh process are well typed.
LEMMA InitTypeOK == Init => TypeOK
<1> SUFFICES ASSUME Init PROVE TypeOK
  OBVIOUS
<1>1. (CHOOSE s \in Sites : TRUE) \in Sites
  OBVIOUS
<1>2. (CHOOSE p \in Slots : TRUE) \in Slots
  OBVIOUS
<1>3. site \in [Threads -> Sites]
  BY <1>1 DEF Init
<1>4. slot \in [Threads -> Slots]
  BY <1>2 DEF Init
<1>5. calls \in [Threads -> 0..MaxCalls]
  BY DEF Init
<1>6. pc \in [Threads -> Labels]
  BY DEF Init
<1>7. /\ l1Map \in [Sites -> Keys \union {NoKey}]
      /\ key \in [Threads -> Keys \union {NoKey}]
      /\ l2Map \in [Keys -> BOOLEAN]
      /\ ext \in [Keys -> {"empty", "running", "done"}]
      /\ classified \in [Keys -> Nat]
      /\ compiled \in [Keys -> Nat]
  BY DEF Init
<1>8. \A t \in Threads : pc[t] \notin Keyed
  BY DEF Init, Keyed
<1> QED
  BY <1>3, <1>4, <1>5, <1>6, <1>7, <1>8 DEF Init, TypeOK

\* A step of a thread, with whatever guards it holds, keeps the types.
LEMMA StepTypeOK ==
  ASSUME NEW t \in Threads, TypeOK, Step(t)
  PROVE  TypeOK'
<1> USE DEF TypeOK, Keyed
<1>1. CASE L1Hit(t)
  BY <1>1 DEF L1Hit
<1>2. CASE L1Miss(t)
  BY <1>2 DEF L1Miss
<1>3. CASE L1Panics(t)
  BY <1>3 DEF L1Panics
<1>4. CASE L2Hit(t)
  BY <1>4 DEF L2Hit
<1>5. CASE L2HitPanics(t)
  BY <1>5 DEF L2HitPanics
<1>6. CASE StoreBegin(t)
  BY <1>6 DEF StoreBegin
<1>7. CASE StoreLoaded(t)
  BY <1>7 DEF StoreLoaded
<1>8. CASE StorePanics(t)
  BY <1>8 DEF StorePanics
<1>9. CASE Hunt(t)
  BY <1>9 DEF Hunt
<1>10. CASE HuntPanics(t)
  BY <1>10 DEF HuntPanics
<1>11. CASE L2Occupied(t)
  BY <1>11 DEF L2Occupied
<1>12. CASE L2Vacant(t)
  BY <1>12 DEF L2Vacant
<1>13. CASE L2EntryPanics(t)
  BY <1>13 DEF L2EntryPanics
<1>14. CASE Classified(t)
  BY <1>14 DEF Classified
<1>15. CASE ClassifyPanics(t)
  BY <1>15 DEF ClassifyPanics
<1>16. CASE L1Put(t)
  BY <1>16 DEF L1Put
<1>17. CASE Interpret(t)
  BY <1>17 DEF Interpret
<1>18. CASE GetParser(t)
  BY <1>18 DEF GetParser
<1>19. CASE RunParser(t)
  BY <1>19 DEF RunParser
<1>20. CASE ExtBegin(t)
  BY <1>20 DEF ExtBegin
<1>21. CASE Compiled(t)
  BY <1>21 DEF Compiled
<1>22. CASE CompilePanics(t)
  BY <1>22 DEF CompilePanics
<1> QED
  BY <1>1, <1>2, <1>3, <1>4, <1>5, <1>6, <1>7, <1>8, <1>9, <1>10, <1>11,
     <1>12, <1>13, <1>14, <1>15, <1>16, <1>17, <1>18, <1>19, <1>20,
     <1>21, <1>22
     DEF Step

\* So does the start of a call, which is counted up to the bound.
LEMMA NextTypeOK == TypeOK /\ [Next]_vars => TypeOK'
<1> SUFFICES ASSUME TypeOK, [Next]_vars PROVE TypeOK'
  OBVIOUS
<1>1. ASSUME NEW t \in Threads, NEW s \in Sites, NEW p \in Slots, Call(t, s, p)
      PROVE  TypeOK'
  BY <1>1 DEF Call, TypeOK, Keyed
<1>2. ASSUME NEW t \in Threads, Step(t) PROVE TypeOK'
  BY <1>2, StepTypeOK
<1>3. CASE AllDone \/ UNCHANGED vars
  BY <1>3 DEF AllDone, vars, TypeOK, Keyed
<1> QED
  BY <1>1, <1>2, <1>3 DEF Next

\* TypeOK holds in every reachable state: in particular a thread past the
\* lookups has a type DIE, never "no local" (resolve.rs:89).
THEOREM TypeCorrect == Spec => []TypeOK
<1>1. Init => TypeOK
  BY InitTypeOK
<1>2. TypeOK /\ [Next]_vars => TypeOK'
  BY NextTypeOK
<1> QED
  BY <1>1, <1>2, PTL DEF Spec

-----------------------------------------------------------------------------
(* The inductive invariant.                                                *)

\* Nobody holds a guard and nothing is cached when the process starts.
LEMMA InitIInv == Init => IInv
<1> SUFFICES ASSUME Init PROVE IInv
  OBVIOUS
<1>1. TypeOK
  BY InitTypeOK
<1>2. GuardsHeld /\ L1PoisonedByL2
  BY DEF Init, GuardsHeld, L1PoisonedByL2
<1>3. CachedAtSite /\ MissedKey /\ SiteHasResolved
  BY DEF Init, CachedAtSite, MissedKey, SiteHasResolved, Keyed, Resolved,
         Answered
<1>4. EntryVacant /\ HitHasResolved /\ OneInitialiser
  BY DEF Init, EntryVacant, HitHasResolved, OneInitialiser
<1>5. Counted
  BY DEF Init, Counted
<1> QED
  BY <1>1, <1>2, <1>3, <1>4, <1>5 DEF IInv

\* Each step of resolved() and of Resolved::ext keeps guards, caches and
\* counts in agreement.
LEMMA StepIInv ==
  ASSUME NEW t \in Threads, IInv, TypeOK', Step(t)
  PROVE  IInv'
<1> USE DEF IInv, TypeOK, GuardsHeld, CachedAtSite, MissedKey, EntryVacant,
            HitHasResolved, SiteHasResolved, OneInitialiser, Counted,
            L1PoisonedByL2, Keyed, Resolved, Answered, KeysAt
<1>1. CASE L1Hit(t)
  BY <1>1 DEF L1Hit
<1>2. CASE L1Miss(t)
  BY <1>2 DEF L1Miss
<1>3. CASE L1Panics(t)
  BY <1>3 DEF L1Panics
<1>4. CASE L2Hit(t)
  BY <1>4 DEF L2Hit
<1>5. CASE L2HitPanics(t)
  BY <1>5 DEF L2HitPanics
<1>6. CASE StoreBegin(t)
  BY <1>6 DEF StoreBegin
<1>7. CASE StoreLoaded(t)
  BY <1>7 DEF StoreLoaded
<1>8. CASE StorePanics(t)
  BY <1>8 DEF StorePanics
<1>9. CASE Hunt(t)
  BY <1>9 DEF Hunt
<1>10. CASE HuntPanics(t)
  BY <1>10 DEF HuntPanics
<1>11. CASE L2Occupied(t)
  BY <1>11 DEF L2Occupied
<1>12. CASE L2Vacant(t)
  BY <1>12 DEF L2Vacant
<1>13. CASE L2EntryPanics(t)
  BY <1>13 DEF L2EntryPanics
<1>14. CASE Classified(t)
  BY <1>14 DEF Classified
<1>15. CASE ClassifyPanics(t)
  BY <1>15 DEF ClassifyPanics
<1>16. CASE L1Put(t)
  BY <1>16 DEF L1Put
<1>17. CASE Interpret(t)
  BY <1>17 DEF Interpret
<1>18. CASE GetParser(t)
  BY <1>18 DEF GetParser
<1>19. CASE RunParser(t)
  BY <1>19 DEF RunParser
<1>20. CASE ExtBegin(t)
  BY <1>20 DEF ExtBegin
<1>21. CASE Compiled(t)
  BY <1>21 DEF Compiled
<1>22. CASE CompilePanics(t)
  BY <1>22 DEF CompilePanics
<1> QED
  BY <1>1, <1>2, <1>3, <1>4, <1>5, <1>6, <1>7, <1>8, <1>9, <1>10, <1>11,
     <1>12, <1>13, <1>14, <1>15, <1>16, <1>17, <1>18, <1>19, <1>20,
     <1>21, <1>22
     DEF Step

\* A call starts with no guard, no key and no claim on the caches.
LEMMA CallIInv ==
  ASSUME NEW t \in Threads, NEW s \in Sites, NEW p \in Slots,
         IInv, TypeOK', Call(t, s, p)
  PROVE  IInv'
<1> USE DEF IInv, TypeOK, Call
<1>1. GuardsHeld' /\ L1PoisonedByL2'
  BY DEF GuardsHeld, L1PoisonedByL2
<1>2. CachedAtSite' /\ MissedKey'
  BY DEF CachedAtSite, MissedKey, Keyed, KeysAt
<1>3. SiteHasResolved' /\ HitHasResolved' /\ EntryVacant'
  BY DEF SiteHasResolved, HitHasResolved, EntryVacant, Resolved, Answered
<1>4. OneInitialiser' /\ Counted'
  BY DEF OneInitialiser, Counted
<1> QED
  BY <1>1, <1>2, <1>3, <1>4

\* IInv is inductive.
LEMMA NextIInv == IInv /\ [Next]_vars => IInv'
<1> SUFFICES ASSUME IInv, [Next]_vars PROVE IInv'
  OBVIOUS
<1>1. TypeOK'
  BY NextTypeOK DEF IInv
<1>2. ASSUME NEW t \in Threads, NEW s \in Sites, NEW p \in Slots, Call(t, s, p)
      PROVE  IInv'
  BY <1>1, <1>2, CallIInv
<1>3. ASSUME NEW t \in Threads, Step(t) PROVE IInv'
  BY <1>1, <1>3, StepIInv
<1>4. CASE AllDone \/ UNCHANGED vars
  BY <1>4 DEF AllDone, vars, IInv, TypeOK, GuardsHeld, CachedAtSite,
              MissedKey, EntryVacant, HitHasResolved, SiteHasResolved,
              OneInitialiser, Counted, L1PoisonedByL2, Keyed, Resolved,
              Answered, KeysAt
<1> QED
  BY <1>2, <1>3, <1>4 DEF Next

\* The inductive invariant holds in every reachable state (resolve.rs:57).
THEOREM Invariance == Spec => []IInv
<1>1. Init => IInv
  BY InitIInv
<1>2. IInv /\ [Next]_vars => IInv'
  BY NextIInv
<1> QED
  BY <1>1, <1>2, PTL DEF Spec

-----------------------------------------------------------------------------
(* What the caches guarantee.                                              *)

\* expect("L2 present") of resolve.rs:64 never fires: a cached call site,
\* and any answered call, has its Resolved in L2.
THEOREM L2Present == Spec => []SiteHasResolved
<1>1. IInv => SiteHasResolved
  BY DEF IInv
<1> QED
  BY <1>1, Invariance, PTL

\* However many threads miss on a type at once, it is classified at most
\* once and compiled at most once (resolve.rs:92, Resolved::ext).
THEOREM AtMostOnce == Spec => []OncePerKey
<1>1. IInv => OncePerKey
  <2> SUFFICES ASSUME IInv, NEW k \in Keys
               PROVE  classified[k] <= 1 /\ compiled[k] <= 1
    BY DEF OncePerKey
  <2>1. classified[k] \in {0, 1} /\ compiled[k] \in {0, 1}
    BY DEF IInv, Counted
  <2> QED
    BY <2>1
<1> QED
  BY <1>1, Invariance, PTL

\* L1 is poisoned only as a consequence of a poisoned L2: no failure of a
\* call's own hunt takes the process's fast path down.
THEOREM PoisonOrder == Spec => []L1PoisonedByL2
<1>1. IInv => L1PoisonedByL2
  BY DEF IInv
<1> QED
  BY <1>1, Invariance, PTL

\* A call site that fills one type gets that type from the caches, whoever
\* filled them.
THEOREM RightAtMonomorphicSites == Spec => []AliasedAtMonomorphicSites
<1>1. IInv => AliasedAtMonomorphicSites
  <2> SUFFICES ASSUME IInv, NEW t \in Threads,
                      pc[t] \in Answered, site[t] \in Monomorphic
               PROVE  key[t] = Alias[site[t]][slot[t]]
    BY DEF AliasedAtMonomorphicSites
  <2>1. key[t] \in KeysAt(site[t])
    BY DEF IInv, CachedAtSite, Keyed, Answered
  <2>2. PICK p \in Slots : key[t] = Alias[site[t]][p]
    BY <2>1 DEF KeysAt
  <2>3. slot[t] \in Slots
    BY DEF IInv, TypeOK
  <2> QED
    BY <2>2, <2>3 DEF Monomorphic
<1> QED
  BY <1>1, Invariance, PTL

\* After a failed classification L2 never changes again: the entry a panic
\* interrupted is not completed by anybody.
THEOREM Frozen == Spec => FrozenWhenPoisoned
<1>1. IInv /\ [Next]_vars => [l2Poisoned => l2Map' = l2Map]_vars
  <2> SUFFICES ASSUME IInv, Next, l2Poisoned PROVE l2Map' = l2Map
    BY DEF vars
  <2>1. ASSUME NEW t \in Threads, Step(t) PROVE l2Map' = l2Map
    <3>1. ~Classified(t)
      BY DEF Classified, IInv, EntryVacant
    <3> QED
      BY <2>1, <3>1 DEF Step, L1Hit, L1Miss, L1Panics, L2Hit,
         L2HitPanics, StoreBegin, StoreLoaded, StorePanics, Hunt,
         HuntPanics, L2Occupied, L2Vacant, L2EntryPanics,
         ClassifyPanics, L1Put, Interpret, GetParser, RunParser,
         ExtBegin, Compiled, CompilePanics
  <2> QED
    BY <2>1 DEF Next, Call, AllDone, vars
<1> QED
  BY <1>1, Invariance, PTL DEF Spec, FrozenWhenPoisoned

-----------------------------------------------------------------------------
(* resolved() implements TypeRegistry.                                     *)

USE DEF Phase, Answered

\* A fresh process maps to an empty registry that nobody has asked.
LEMMA RegistryInit == Init => Registry!Init
  BY InitTypeOK
     DEF Init, Registry!Init, TypeOK, classifiedTypes, compiledTypes, phases,
         answers

\* A call that starts asks the registry.
LEMMA RegistryCall ==
  ASSUME NEW t \in Threads, NEW s \in Sites, NEW p \in Slots,
         TypeOK, Call(t, s, p)
  PROVE  Registry!Next
<1>1. Registry!Ask(t, s, p)
  BY DEF Call, Registry!Ask, TypeOK, classifiedTypes, compiledTypes, phases,
         answers
<1> QED
  BY <1>1 DEF Registry!Next

\* A call that fails before its answer is, for the registry, one that was
\* asked and is idle again.
LEMMA AskedToIdle ==
  ASSUME NEW t \in Threads, TypeOK,
         pc[t] \notin Answered \union {"idle"},
         pc' = [pc EXCEPT ![t] = "idle"], key' = key
  PROVE  /\ phases[t] = "asked"
         /\ phases' = [phases EXCEPT ![t] = "idle"]
         /\ answers' = answers
<1>1. phases[t] = "asked"
  BY DEF phases, Phase
<1>2. phases' = [phases EXCEPT ![t] = "idle"]
  BY DEF phases, Phase, TypeOK
<1>3. answers' = answers
  BY DEF answers, TypeOK, Answered
<1> QED
  BY <1>1, <1>2, <1>3

\* A call that ends after its answer.
LEMMA AnsweredToIdle ==
  ASSUME NEW t \in Threads, TypeOK,
         pc[t] \in Answered,
         pc' = [pc EXCEPT ![t] = "idle"], key' = key
  PROVE  /\ phases[t] = "answered"
         /\ phases' = [phases EXCEPT ![t] = "idle"]
         /\ answers' = [answers EXCEPT ![t] = NoKey]
<1>1. phases[t] = "answered"
  BY DEF phases, Phase, Answered
<1>2. phases' = [phases EXCEPT ![t] = "idle"]
  BY DEF phases, Phase, TypeOK
<1>3. answers' = [answers EXCEPT ![t] = NoKey]
  BY DEF answers, TypeOK, Answered
<1> QED
  BY <1>1, <1>2, <1>3

\* Every step of a thread is a step of the registry, or none: the lookups
\* are silent, the insertion in L2 registers, the return answers.
LEMMA RegistryStep ==
  ASSUME NEW t \in Threads, IInv, TypeOK', Step(t)
  PROVE  Registry!Next \/ UNCHANGED Registry!vars
<1> USE DEF TypeOK, classifiedTypes, compiledTypes, phases, answers,
            Registry!vars
<1>0. TypeOK
  BY DEF IInv
<1>1. CASE L1Hit(t)
  BY <1>0, <1>1 DEF L1Hit
<1>2. CASE L1Miss(t)
  BY <1>0, <1>2 DEF L1Miss
<1>3. CASE StoreBegin(t)
  BY <1>0, <1>3 DEF StoreBegin
<1>4. CASE Hunt(t)
  BY <1>0, <1>4 DEF Hunt
<1>5. CASE L2Occupied(t)
  BY <1>0, <1>5 DEF L2Occupied
<1>6. CASE L2Vacant(t)
  BY <1>0, <1>6 DEF L2Vacant
<1>7. CASE GetParser(t)
  BY <1>0, <1>7 DEF GetParser
<1>8. CASE ExtBegin(t)
  BY <1>0, <1>8 DEF ExtBegin
<1>9. CASE StoreLoaded(t)
  <2>1. Registry!Load
    BY <1>0, <1>9 DEF StoreLoaded, Registry!Load, IInv, OneInitialiser
  <2> QED
    BY <2>1 DEF Registry!Next
<1>10. CASE L1Panics(t)
  <2>1. /\ phases[t] = "asked"
        /\ phases' = [phases EXCEPT ![t] = "idle"]
        /\ answers' = answers
    <3> HIDE DEF TypeOK, phases, answers
    <3> QED
      BY <1>0, <1>10, AskedToIdle DEF L1Panics, Goto, Answered
  <2>2. Registry!Fail(t)
    <3> HIDE DEF TypeOK, phases, answers
    <3> QED
      BY <1>10, <2>1 DEF L1Panics, Registry!Fail, Registry!Excusable,
         IInv, L1PoisonedByL2, l2Vars, argVars
  <2> QED
    BY <2>2 DEF Registry!Next
<1>11. CASE L2HitPanics(t)
  <2>1. /\ phases[t] = "asked"
        /\ phases' = [phases EXCEPT ![t] = "idle"]
        /\ answers' = answers
    <3> HIDE DEF TypeOK, phases, answers
    <3> QED
      BY <1>0, <1>11, AskedToIdle DEF L2HitPanics, Goto, Answered
  <2>2. Registry!Fail(t)
    <3> HIDE DEF TypeOK, phases, answers
    <3> QED
      BY <1>11, <2>1 DEF L2HitPanics, Goto, Registry!Fail, Registry!Excusable,
         IInv, HitHasResolved, argVars
  <2> QED
    BY <2>2 DEF Registry!Next
<1>12. CASE StorePanics(t)
  <2>1. /\ phases[t] = "asked"
        /\ phases' = [phases EXCEPT ![t] = "idle"]
        /\ answers' = answers
    <3> HIDE DEF TypeOK, phases, answers
    <3> QED
      BY <1>0, <1>12, AskedToIdle DEF StorePanics, Goto, Answered
  <2>2. Registry!Fail(t)
    <3> HIDE DEF TypeOK, phases, answers
    <3> QED
      BY <1>12, <2>1 DEF StorePanics, Goto, Registry!Fail, Registry!Excusable,
         IInv, OneInitialiser, l2Vars, argVars
  <2> QED
    BY <2>2 DEF Registry!Next
<1>13. CASE HuntPanics(t)
  <2>1. /\ phases[t] = "asked"
        /\ phases' = [phases EXCEPT ![t] = "idle"]
        /\ answers' = answers
    <3> HIDE DEF TypeOK, phases, answers
    <3> QED
      BY <1>0, <1>13, AskedToIdle DEF HuntPanics, Goto, Answered
  <2>2. Registry!Fail(t)
    <3> HIDE DEF TypeOK, phases, answers
    <3> QED
      BY <1>13, <2>1 DEF HuntPanics, Registry!Fail, Registry!Excusable,
         l2Vars, argVars
  <2> QED
    BY <2>2 DEF Registry!Next
<1>14. CASE L2EntryPanics(t)
  <2>1. /\ phases[t] = "asked"
        /\ phases' = [phases EXCEPT ![t] = "idle"]
        /\ answers' = answers
    <3> HIDE DEF TypeOK, phases, answers
    <3> QED
      BY <1>0, <1>14, AskedToIdle DEF L2EntryPanics, Goto, Answered
  <2>2. Registry!Fail(t)
    <3> HIDE DEF TypeOK, phases, answers
    <3> QED
      BY <1>14, <2>1 DEF L2EntryPanics, Registry!Fail, Registry!Excusable,
         l2Vars, argVars
  <2> QED
    BY <2>2 DEF Registry!Next
<1>15. CASE Classified(t)
  <2>1. Registry!Register(t)
    BY <1>0, <1>15 DEF Classified, Registry!Register, IInv, MissedKey,
       EntryVacant
  <2> QED
    BY <2>1 DEF Registry!Next
<1>16. CASE ClassifyPanics(t)
  <2>1. /\ phases[t] = "asked"
        /\ phases' = [phases EXCEPT ![t] = "idle"]
        /\ answers' = answers
    <3> HIDE DEF TypeOK, phases, answers
    <3> QED
      BY <1>0, <1>16, AskedToIdle DEF ClassifyPanics, Goto, Answered
  <2>2. Registry!Break(t)
    <3> HIDE DEF TypeOK, phases, answers
    <3> QED
      BY <1>16, <2>1 DEF ClassifyPanics, Registry!Break, IInv, MissedKey,
         EntryVacant, argVars
  <2> QED
    BY <2>2 DEF Registry!Next
<1>17. CASE L2Hit(t)
  <2>1. key[t] \in Keys \intersect KeysAt(site[t]) /\ l2Map[key[t]]
    BY <1>0, <1>17 DEF L2Hit, Keyed, KeysAt, IInv, CachedAtSite,
       HitHasResolved
  <2>2. /\ phases[t] = "asked"
        /\ phases' = [phases EXCEPT ![t] = "answered"]
        /\ answers' = [answers EXCEPT ![t] = key[t]]
    BY <1>0, <1>17 DEF L2Hit
  <2>3. Registry!Answer(t, key[t])
    BY <1>17, <2>1, <2>2 DEF L2Hit, Registry!Answer, Registry!KeysAt, KeysAt
  <2> HIDE DEF classifiedTypes, compiledTypes, phases, answers, Registry!vars
  <2>4. \E k \in Keys : Registry!Answer(t, k)
    BY <2>1, <2>3
  <2> QED
    BY <2>4 DEF Registry!Next
<1>18. CASE L1Put(t)
  <2>1. key[t] \in Keys \intersect KeysAt(site[t]) /\ l2Map[key[t]]
    BY <1>0, <1>18 DEF L1Put, Keyed, KeysAt, IInv, CachedAtSite,
       SiteHasResolved, Resolved
  <2>2. /\ phases[t] = "asked"
        /\ phases' = [phases EXCEPT ![t] = "answered"]
        /\ answers' = [answers EXCEPT ![t] = key[t]]
    BY <1>0, <1>18 DEF L1Put
  <2>3. Registry!Answer(t, key[t])
    BY <1>18, <2>1, <2>2 DEF L1Put, Registry!Answer, Registry!KeysAt, KeysAt
  <2> HIDE DEF classifiedTypes, compiledTypes, phases, answers, Registry!vars
  <2>4. \E k \in Keys : Registry!Answer(t, k)
    BY <2>1, <2>3
  <2> QED
    BY <2>4 DEF Registry!Next
<1>19. CASE Compiled(t)
  <2>1. Registry!Compile(t)
    BY <1>0, <1>19 DEF Compiled, Registry!Compile, IInv,
       OneInitialiser, SiteHasResolved, Resolved, Keyed
  <2> QED
    BY <2>1 DEF Registry!Next
<1>20. CASE Interpret(t)
  <2>1. /\ phases[t] = "answered"
        /\ phases' = [phases EXCEPT ![t] = "idle"]
        /\ answers' = [answers EXCEPT ![t] = NoKey]
    <3> HIDE DEF TypeOK, phases, answers
    <3> QED
      BY <1>0, <1>20, AnsweredToIdle DEF Interpret, Goto, Answered
  <2>2. Registry!Finish(t)
    <3> HIDE DEF TypeOK, phases, answers
    <3> QED
      BY <1>20, <2>1 DEF Interpret, Registry!Finish, l2Vars, argVars
  <2> QED
    BY <2>2 DEF Registry!Next
<1>21. CASE RunParser(t)
  <2>1. /\ phases[t] = "answered"
        /\ phases' = [phases EXCEPT ![t] = "idle"]
        /\ answers' = [answers EXCEPT ![t] = NoKey]
    <3> HIDE DEF TypeOK, phases, answers
    <3> QED
      BY <1>0, <1>21, AnsweredToIdle DEF RunParser, Goto, Answered
  <2>2. Registry!Finish(t)
    <3> HIDE DEF TypeOK, phases, answers
    <3> QED
      BY <1>21, <2>1 DEF RunParser, Registry!Finish, l2Vars, argVars
  <2> QED
    BY <2>2 DEF Registry!Next
<1>22. CASE CompilePanics(t)
  <2>1. /\ phases[t] = "answered"
        /\ phases' = [phases EXCEPT ![t] = "idle"]
        /\ answers' = [answers EXCEPT ![t] = NoKey]
    <3> HIDE DEF TypeOK, phases, answers
    <3> QED
      BY <1>0, <1>22, AnsweredToIdle DEF CompilePanics, Goto, Answered
  <2>2. compiledTypes' = compiledTypes
    BY <1>0, <1>22 DEF CompilePanics, Goto, IInv, OneInitialiser
  <2>3. Registry!Finish(t)
    <3> HIDE DEF TypeOK, phases, answers
    <3> HIDE DEF compiledTypes
    <3> QED
      BY <1>22, <2>1, <2>2 DEF CompilePanics, Registry!Finish, l2Vars, argVars
  <2> QED
    BY <2>3 DEF Registry!Next
<1> QED
  BY <1>1, <1>2, <1>3, <1>4, <1>5, <1>6, <1>7, <1>8, <1>9, <1>10,
     <1>11, <1>12, <1>13, <1>14, <1>15, <1>16, <1>17, <1>18, <1>19,
     <1>20, <1>21, <1>22 DEF Step

\* resolved() with its locks and its two maps implements the registry: each
\* call is answered with a registered type of its own call site, or fails
\* because the debug info did not load, no local is at the pointer, or a
\* classification has failed before.
THEOREM Implementation == Spec => ImplementsRegistry
<1>1. Init => Registry!Init
  BY RegistryInit
<1>2. IInv /\ IInv' /\ [Next]_vars => [Registry!Next]_Registry!vars
  <2> SUFFICES ASSUME IInv, IInv', [Next]_vars
               PROVE  Registry!Next \/ UNCHANGED Registry!vars
    OBVIOUS
  <2>1. ASSUME NEW t \in Threads, NEW s \in Sites, NEW p \in Slots,
               Call(t, s, p)
        PROVE  Registry!Next
    BY <2>1, RegistryCall DEF IInv
  <2>2. ASSUME NEW t \in Threads, Step(t)
        PROVE  Registry!Next \/ UNCHANGED Registry!vars
    BY <2>2, RegistryStep DEF IInv
  <2>3. CASE AllDone \/ UNCHANGED vars
    BY <2>3 DEF AllDone, vars, Registry!vars, classifiedTypes, compiledTypes,
                phases, answers
  <2> QED
    BY <2>1, <2>2, <2>3 DEF Next
<1> QED
  BY <1>1, <1>2, Invariance, PTL DEF Spec, ImplementsRegistry, Registry!Spec
=============================================================================
