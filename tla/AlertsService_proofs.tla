---- MODULE AlertsService_proofs ----
(***************************************************************************)
(* Calls of createUniqueAlert that interleave: open alerts of a key are no *)
(* more than the calls that overlapped, a rule that is off stays quiet,    *)
(* and a call's answer is an alert that was open while it ran, for any     *)
(* number of calls, keys and rules.  Then the rules those alerts follow    *)
(* (RuleSeed) and the workers whose candidates ask for them (Correlation). *)
(***************************************************************************)
EXTENDS AlertsService, RuleSeed, Correlation, WellFoundedInduction, FiniteSetTheorems, TLAPS

Steps == {"idle", "readRule", "findOpen", "insert", "returned", "handled", "lost"}
Alert == [id : Calls, key : Keys, status : {"open", "resolved"}]

Inserting(k) == {c \in Calls : step[c] = "insert" /\ keyOf[c] = k}

Typed ==
  /\ enabled \in [Rules -> BOOLEAN]
  /\ alerts \subseteq Alert
  /\ IsFiniteSet(alerts)
  /\ step \in [Calls -> Steps]
  /\ keyOf \in [Calls -> Keys]
  /\ atOnce \in [Keys -> Nat]

(* atOnce counts the calls under way, and an insert that is still to come
   counts like the alert it will leave open. *)
OverlapCounted == \A k \in Keys : Cardinality(CallsFor(k)) <= atOnce[k]
InsertsCounted ==
  \A k \in Keys : Cardinality(Open(k)) + Cardinality(Inserting(k)) <= atOnce[k]

(* A call that is under way while its rule is on was seen, and only such a call
   goes on to the other queries. *)
EnabledSeen ==
  \A c \in Calls : Underway(c) /\ enabled[RuleOf[keyOf[c]]] => c \in sawEnabled
PassedSeen == \A c \in Calls : step[c] \in {"findOpen", "insert"} => c \in sawEnabled

IInv ==
  Typed /\ OverlapCounted /\ InsertsCounted /\ EnabledSeen /\ PassedSeen /\ DisabledRuleIsQuiet

----
(* What the model counts is finite. *)
LEMMA CountedAreFinite ==
  ASSUME Typed, NEW k \in Keys
  PROVE  /\ IsFiniteSet(CallsFor(k)) /\ Cardinality(CallsFor(k)) \in Nat
         /\ IsFiniteSet(Inserting(k)) /\ Cardinality(Inserting(k)) \in Nat
         /\ IsFiniteSet(Open(k)) /\ Cardinality(Open(k)) \in Nat
         /\ Cardinality(Inserting(k)) <= Cardinality(CallsFor(k))
<1>1. CallsFor(k) \subseteq Calls /\ Inserting(k) \subseteq CallsFor(k) /\ Open(k) \subseteq alerts
  BY DEF CallsFor, Inserting, Open, Underway
<1>2. IsFiniteSet(CallsFor(k)) /\ IsFiniteSet(Open(k))
  BY <1>1, CallsAssumption, FS_Subset DEF Typed
<1>3. IsFiniteSet(Inserting(k)) /\ Cardinality(Inserting(k)) <= Cardinality(CallsFor(k))
  BY <1>1, <1>2, FS_Subset
<1> QED
  BY <1>2, <1>3, FS_CardinalityType

LEMMA InitIInv == Init => IInv
<1> SUFFICES ASSUME Init PROVE IInv
  OBVIOUS
<1>1. Typed
  BY FS_EmptySet DEF Init, Typed, Steps
<1>2. \A k \in Keys : CallsFor(k) = {} /\ Inserting(k) = {} /\ Open(k) = {} /\ atOnce[k] = 0
  BY DEF Init, CallsFor, Inserting, Open, Underway
<1>3. OverlapCounted /\ InsertsCounted
  BY <1>2, FS_EmptySet DEF OverlapCounted, InsertsCounted
<1>4. EnabledSeen /\ PassedSeen /\ DisabledRuleIsQuiet
  BY DEF Init, EnabledSeen, PassedSeen, DisabledRuleIsQuiet, Underway
<1> QED
  BY <1>1, <1>3, <1>4 DEF IInv

----
(* One fewer or one more of a finite set. *)
LEMMA AtMostOneMore ==
  ASSUME NEW S, NEW T, NEW e, IsFiniteSet(S), T \subseteq S \union {e}
  PROVE  IsFiniteSet(T) /\ Cardinality(T) <= Cardinality(S) + 1
<1>1. IsFiniteSet(S \union {e}) /\ Cardinality(S \union {e}) <= Cardinality(S) + 1
  <2>1. Cardinality(S) \in Nat
    BY FS_CardinalityType
  <2> QED
    BY <2>1, FS_AddElement
<1>2. IsFiniteSet(T) /\ Cardinality(T) <= Cardinality(S \union {e})
  BY <1>1, FS_Subset
<1> QED
  BY <1>1, <1>2, FS_CardinalityType

LEMMA OneFewer ==
  ASSUME NEW S, NEW T, NEW e \in S, IsFiniteSet(S), T \subseteq S \ {e}
  PROVE  IsFiniteSet(T) /\ Cardinality(T) + 1 <= Cardinality(S)
<1>1. IsFiniteSet(S \ {e}) /\ Cardinality(S \ {e}) = Cardinality(S) - 1
  BY FS_RemoveElement
<1>2. IsFiniteSet(T) /\ Cardinality(T) <= Cardinality(S \ {e})
  BY <1>1, FS_Subset
<1> QED
  BY <1>1, <1>2, FS_CardinalityType

(* A step that starts no call and adds no open alert or insert keeps the
   counts. *)
LEMMA FewerKeepsCounts ==
  ASSUME Typed, OverlapCounted, InsertsCounted,
         atOnce' = atOnce,
         \A k \in Keys : /\ CallsFor(k)' \subseteq CallsFor(k)
                         /\ Inserting(k)' \subseteq Inserting(k)
                         /\ Open(k)' \subseteq Open(k)
  PROVE  OverlapCounted' /\ InsertsCounted'
<1> SUFFICES ASSUME NEW k \in Keys
             PROVE  /\ Cardinality(CallsFor(k)') <= atOnce[k]
                    /\ Cardinality(Open(k)') + Cardinality(Inserting(k)') <= atOnce[k]
  BY DEF OverlapCounted, InsertsCounted
<1>1. /\ IsFiniteSet(CallsFor(k)) /\ IsFiniteSet(Inserting(k)) /\ IsFiniteSet(Open(k))
      /\ Cardinality(CallsFor(k)) \in Nat
      /\ Cardinality(Inserting(k)) \in Nat
      /\ Cardinality(Open(k)) \in Nat
  BY CountedAreFinite
<1>2. IsFiniteSet(CallsFor(k)') /\ Cardinality(CallsFor(k)') <= Cardinality(CallsFor(k))
  BY <1>1, FS_Subset
<1>3. IsFiniteSet(Inserting(k)') /\ Cardinality(Inserting(k)') <= Cardinality(Inserting(k))
  BY <1>1, FS_Subset
<1>4. IsFiniteSet(Open(k)') /\ Cardinality(Open(k)') <= Cardinality(Open(k))
  BY <1>1, FS_Subset
<1>5. /\ Cardinality(CallsFor(k)') \in Nat
      /\ Cardinality(Inserting(k)') \in Nat
      /\ Cardinality(Open(k)') \in Nat
  BY <1>2, <1>3, <1>4, FS_CardinalityType
<1>6. atOnce[k] \in Nat
  BY DEF Typed
<1>7. /\ Cardinality(CallsFor(k)) <= atOnce[k]
      /\ Cardinality(Open(k)) + Cardinality(Inserting(k)) <= atOnce[k]
  BY DEF OverlapCounted, InsertsCounted
<1> QED
  BY <1>1, <1>2, <1>3, <1>4, <1>5, <1>6, <1>7

----
LEMMA CallKeeps ==
  ASSUME IInv, NEW c \in Calls, Call(c)
  PROVE  IInv'
<1> DEFINE k == keyOf[c]
           n == Cardinality(CallsFor(k)) + 1
<1>1. /\ k \in Keys
      /\ n \in Nat
      /\ IsFiniteSet(CallsFor(k))
  BY CountedAreFinite DEF IInv, Typed
<1>2. /\ step[c] = "idle"
      /\ step' = [step EXCEPT ![c] = "readRule"]
      /\ atOnce' = [atOnce EXCEPT ![k] = IF @ < n THEN n ELSE @]
      /\ sawEnabled' = IF enabled[RuleOf[k]] THEN sawEnabled \union {c} ELSE sawEnabled
      /\ UNCHANGED <<enabled, alerts, keyOf>>
  BY DEF Call
<1>3. step'[c] = "readRule" /\ \A d \in Calls : d # c => step'[d] = step[d]
  BY <1>2 DEF IInv, Typed
<1> HIDE DEF n
<1>4. /\ atOnce' \in [Keys -> Nat]
      /\ atOnce'[k] >= n
      /\ \A j \in Keys : atOnce'[j] >= atOnce[j]
      /\ \A j \in Keys : atOnce[j] \in Nat
  BY <1>1, <1>2 DEF IInv, Typed
<1>5. Typed'
  BY <1>2, <1>4 DEF IInv, Typed, Steps
<1>6. \A j \in Keys : Inserting(j)' = Inserting(j) /\ Open(j)' = Open(j)
  BY <1>2, <1>3 DEF Inserting, Open
<1>7. InsertsCounted'
  <2> SUFFICES ASSUME NEW j \in Keys
               PROVE  Cardinality(Open(j)) + Cardinality(Inserting(j)) <= atOnce'[j]
    BY <1>6 DEF InsertsCounted
  <2>1. Cardinality(Open(j)) + Cardinality(Inserting(j)) <= atOnce[j]
    BY DEF IInv, InsertsCounted
  <2> QED
    BY <1>4, <2>1, CountedAreFinite DEF IInv
<1>8. OverlapCounted'
  <2> SUFFICES ASSUME NEW j \in Keys
               PROVE  Cardinality(CallsFor(j)') <= atOnce'[j]
    BY DEF OverlapCounted
  <2>1. CASE j = k
    <3>1. CallsFor(j)' \subseteq CallsFor(j) \union {c}
      BY <1>2, <1>3 DEF CallsFor, Underway
    <3>2. IsFiniteSet(CallsFor(j)) /\ n = Cardinality(CallsFor(j)) + 1 /\ atOnce'[j] >= n
      BY <1>1, <1>4, <2>1 DEF n
    <3>3. IsFiniteSet(CallsFor(j)') /\ Cardinality(CallsFor(j)') <= n
      BY <3>1, <3>2, AtMostOneMore
    <3>4. Cardinality(CallsFor(j)') \in Nat
      BY <3>3, FS_CardinalityType
    <3> QED
      BY <1>1, <1>4, <3>2, <3>3, <3>4
  <2>2. CASE j # k
    <3>1. CallsFor(j)' = CallsFor(j)
      BY <1>2, <1>3, <2>2 DEF CallsFor, Underway
    <3>2. Cardinality(CallsFor(j)) <= atOnce[j] /\ Cardinality(CallsFor(j)) \in Nat
      BY CountedAreFinite DEF IInv, OverlapCounted
    <3> QED
      BY <1>4, <3>1, <3>2
  <2> QED
    BY <2>1, <2>2
<1>9. EnabledSeen' /\ PassedSeen' /\ DisabledRuleIsQuiet'
  BY <1>2, <1>3 DEF IInv, EnabledSeen, PassedSeen, DisabledRuleIsQuiet, Underway
<1> QED
  BY <1>5, <1>7, <1>8, <1>9 DEF IInv

LEMMA ReadRuleKeeps ==
  ASSUME IInv, NEW c \in Calls, ReadRule(c)
  PROVE  IInv'
<1>1. /\ step[c] = "readRule"
      /\ step' = [step EXCEPT ![c] = IF enabled[RuleOf[keyOf[c]]] THEN "findOpen" ELSE "returned"]
      /\ UNCHANGED <<enabled, alerts, keyOf, atOnce, sawEnabled>>
  BY DEF ReadRule, historyVars
<1>2. /\ step'[c] = IF enabled[RuleOf[keyOf[c]]] THEN "findOpen" ELSE "returned"
      /\ \A d \in Calls : d # c => step'[d] = step[d]
  BY <1>1 DEF IInv, Typed
<1>3. Typed'
  BY <1>1 DEF IInv, Typed, Steps
<1>4. OverlapCounted' /\ InsertsCounted'
  <2>1. \A k \in Keys : /\ CallsFor(k)' \subseteq CallsFor(k)
                        /\ Inserting(k)' \subseteq Inserting(k)
                        /\ Open(k)' \subseteq Open(k)
    BY <1>1, <1>2 DEF CallsFor, Inserting, Open, Underway
  <2> QED
    BY <1>1, <2>1, FewerKeepsCounts DEF IInv
<1>5. EnabledSeen' /\ PassedSeen' /\ DisabledRuleIsQuiet'
  BY <1>1, <1>2 DEF IInv, EnabledSeen, PassedSeen, DisabledRuleIsQuiet, Underway
<1> QED
  BY <1>3, <1>4, <1>5 DEF IInv

(* The first call to see no open alert finds room for all calls of its key. *)
LEMMA FindOpenKeeps ==
  ASSUME IInv, NEW c \in Calls, FindOpen(c)
  PROVE  IInv'
<1>1. /\ step[c] = "findOpen"
      /\ \/ step' = [step EXCEPT ![c] = "insert"] /\ Open(keyOf[c]) = {}
         \/ step' = [step EXCEPT ![c] = "returned"]
      /\ UNCHANGED <<enabled, alerts, keyOf, atOnce, sawEnabled>>
  BY DEF FindOpen, historyVars
<1>2. /\ step'[c] \in {"insert", "returned"}
      /\ step'[c] = "insert" => Open(keyOf[c]) = {}
      /\ \A d \in Calls : d # c => step'[d] = step[d]
      /\ step' \in [Calls -> Steps]
  BY <1>1 DEF IInv, Typed, Steps
<1>3. Typed'
  BY <1>1, <1>2 DEF IInv, Typed
<1>4. \A k \in Keys : CallsFor(k)' \subseteq CallsFor(k) /\ Open(k)' = Open(k)
  BY <1>1, <1>2 DEF CallsFor, Open, Underway
<1>5. \A k \in Keys : k # keyOf[c] \/ step'[c] = "returned" => Inserting(k)' \subseteq Inserting(k)
  BY <1>1, <1>2 DEF Inserting
<1>6. OverlapCounted' /\ InsertsCounted'
  <2>1. CASE step'[c] = "returned"
    BY <1>1, <1>4, <1>5, <2>1, FewerKeepsCounts DEF IInv
  <2>2. CASE step'[c] = "insert"
    <3> SUFFICES ASSUME NEW k \in Keys
                 PROVE  /\ Cardinality(CallsFor(k)') <= atOnce[k]
                        /\ Cardinality(Open(k)) + Cardinality(Inserting(k)') <= atOnce[k]
      BY <1>1, <1>4 DEF OverlapCounted, InsertsCounted
    <3>1. /\ atOnce[k] \in Nat
          /\ Cardinality(CallsFor(k)) <= atOnce[k]
          /\ Cardinality(Open(k)) + Cardinality(Inserting(k)) <= atOnce[k]
      BY DEF IInv, Typed, OverlapCounted, InsertsCounted
    <3>2. /\ IsFiniteSet(CallsFor(k)) /\ Cardinality(CallsFor(k)) \in Nat
          /\ IsFiniteSet(Inserting(k)) /\ Cardinality(Inserting(k)) \in Nat
          /\ Cardinality(Open(k)) \in Nat
      BY CountedAreFinite DEF IInv
    <3>3. /\ IsFiniteSet(CallsFor(k)')
          /\ Cardinality(CallsFor(k)') <= Cardinality(CallsFor(k))
          /\ Cardinality(CallsFor(k)') \in Nat
      BY <1>4, <3>2, FS_Subset, FS_CardinalityType
    <3>4. CASE k = keyOf[c]
      <4>1. Inserting(k)' \subseteq CallsFor(k)'
        BY DEF Inserting, CallsFor, Underway
      <4>2. IsFiniteSet(Inserting(k)') /\ Cardinality(Inserting(k)') <= Cardinality(CallsFor(k)')
        BY <3>3, <4>1, FS_Subset
      <4>3. Cardinality(Open(k)) = 0 /\ Cardinality(Inserting(k)') \in Nat
        BY <1>2, <2>2, <3>4, <4>2, FS_EmptySet, FS_CardinalityType
      <4> QED
        BY <3>1, <3>2, <3>3, <4>2, <4>3
    <3>5. CASE k # keyOf[c]
      <4>1. /\ Cardinality(Inserting(k)') <= Cardinality(Inserting(k))
            /\ Cardinality(Inserting(k)') \in Nat
        BY <1>5, <3>2, <3>5, FS_Subset, FS_CardinalityType
      <4> QED
        BY <3>1, <3>2, <3>3, <4>1
    <3> QED
      BY <3>4, <3>5
  <2> QED
    BY <1>2, <2>1, <2>2
<1>7. EnabledSeen' /\ PassedSeen' /\ DisabledRuleIsQuiet'
  BY <1>1, <1>2 DEF IInv, EnabledSeen, PassedSeen, DisabledRuleIsQuiet, Underway
<1> QED
  BY <1>3, <1>6, <1>7 DEF IInv

(* An insert that is carried out was counted before. *)
LEMMA InsertKeeps ==
  ASSUME IInv, NEW c \in Calls, Insert(c)
  PROVE  IInv'
<1> DEFINE x == [id |-> c, key |-> keyOf[c], status |-> "open"]
<1>1. /\ step[c] = "insert"
      /\ alerts' = alerts \union {x}
      /\ step' = [step EXCEPT ![c] = "returned"]
      /\ UNCHANGED <<enabled, keyOf, atOnce, sawEnabled>>
  BY DEF Insert, historyVars
<1>2. step'[c] = "returned" /\ \A d \in Calls : d # c => step'[d] = step[d]
  BY <1>1 DEF IInv, Typed
<1>3. Typed'
  <2>1. x \in Alert
    BY DEF IInv, Typed, Alert
  <2>2. IsFiniteSet(alerts')
    BY <1>1, FS_AddElement DEF IInv, Typed
  <2> QED
    BY <1>1, <2>1, <2>2 DEF IInv, Typed, Steps
<1>4. \A k \in Keys : CallsFor(k)' \subseteq CallsFor(k)
  BY <1>1, <1>2 DEF CallsFor, Underway
<1>5. \A k \in Keys : k # keyOf[c] => Inserting(k)' \subseteq Inserting(k) /\ Open(k)' \subseteq Open(k)
  BY <1>1, <1>2 DEF Inserting, Open
<1>6. \A k \in Keys : k = keyOf[c] =>
        /\ c \in Inserting(k)
        /\ Inserting(k)' \subseteq Inserting(k) \ {c}
        /\ Open(k)' \subseteq Open(k) \union {x}
  BY <1>1, <1>2 DEF Inserting, Open
<1>7. OverlapCounted' /\ InsertsCounted'
  <2> SUFFICES ASSUME NEW k \in Keys
               PROVE  /\ Cardinality(CallsFor(k)') <= atOnce[k]
                      /\ Cardinality(Open(k)') + Cardinality(Inserting(k)') <= atOnce[k]
    BY <1>1 DEF OverlapCounted, InsertsCounted
  <2>1. /\ atOnce[k] \in Nat
        /\ Cardinality(CallsFor(k)) <= atOnce[k]
        /\ Cardinality(Open(k)) + Cardinality(Inserting(k)) <= atOnce[k]
    BY DEF IInv, Typed, OverlapCounted, InsertsCounted
  <2>2. /\ IsFiniteSet(CallsFor(k)) /\ Cardinality(CallsFor(k)) \in Nat
        /\ IsFiniteSet(Inserting(k)) /\ Cardinality(Inserting(k)) \in Nat
        /\ IsFiniteSet(Open(k)) /\ Cardinality(Open(k)) \in Nat
    BY CountedAreFinite DEF IInv
  <2>3. Cardinality(CallsFor(k)') <= Cardinality(CallsFor(k)) /\ Cardinality(CallsFor(k)') \in Nat
    BY <1>4, <2>2, FS_Subset, FS_CardinalityType
  <2>4. CASE k = keyOf[c]
    <3>1. /\ IsFiniteSet(Inserting(k)')
          /\ Cardinality(Inserting(k)') + 1 <= Cardinality(Inserting(k))
      BY <1>6, <2>2, <2>4, OneFewer
    <3>2. IsFiniteSet(Open(k)') /\ Cardinality(Open(k)') <= Cardinality(Open(k)) + 1
      BY <1>6, <2>2, <2>4, AtMostOneMore
    <3>3. Cardinality(Inserting(k)') \in Nat /\ Cardinality(Open(k)') \in Nat
      BY <3>1, <3>2, FS_CardinalityType
    <3> QED
      BY <2>1, <2>2, <2>3, <3>1, <3>2, <3>3
  <2>5. CASE k # keyOf[c]
    <3>1. /\ Cardinality(Inserting(k)') <= Cardinality(Inserting(k))
          /\ Cardinality(Inserting(k)') \in Nat
      BY <1>5, <2>2, <2>5, FS_Subset, FS_CardinalityType
    <3>2. Cardinality(Open(k)') <= Cardinality(Open(k)) /\ Cardinality(Open(k)') \in Nat
      BY <1>5, <2>2, <2>5, FS_Subset, FS_CardinalityType
    <3> QED
      BY <2>1, <2>2, <2>3, <3>1, <3>2
  <2> QED
    BY <2>4, <2>5
<1>8. EnabledSeen' /\ PassedSeen' /\ DisabledRuleIsQuiet'
  BY <1>1, <1>2 DEF IInv, EnabledSeen, PassedSeen, DisabledRuleIsQuiet, Underway
<1> QED
  BY <1>3, <1>7, <1>8 DEF IInv

LEMMA HandleAnswerKeeps ==
  ASSUME IInv, NEW c \in Calls, HandleAnswer(c)
  PROVE  IInv'
<1>1. /\ step[c] = "returned"
      /\ step' = [step EXCEPT ![c] = "handled"]
      /\ UNCHANGED <<enabled, alerts, keyOf, atOnce, sawEnabled>>
  BY DEF HandleAnswer, historyVars
<1>2. step'[c] = "handled" /\ \A d \in Calls : d # c => step'[d] = step[d]
  BY <1>1 DEF IInv, Typed
<1>3. Typed'
  BY <1>1 DEF IInv, Typed, Steps
<1>4. OverlapCounted' /\ InsertsCounted'
  <2>1. \A k \in Keys : /\ CallsFor(k)' \subseteq CallsFor(k)
                        /\ Inserting(k)' \subseteq Inserting(k)
                        /\ Open(k)' \subseteq Open(k)
    BY <1>1, <1>2 DEF CallsFor, Inserting, Open, Underway
  <2> QED
    BY <1>1, <2>1, FewerKeepsCounts DEF IInv
<1>5. EnabledSeen' /\ PassedSeen' /\ DisabledRuleIsQuiet'
  BY <1>1, <1>2 DEF IInv, EnabledSeen, PassedSeen, DisabledRuleIsQuiet, Underway
<1> QED
  BY <1>3, <1>4, <1>5 DEF IInv

LEMMA ResolveAlertKeeps ==
  ASSUME IInv, NEW x \in alerts, ResolveAlert(x)
  PROVE  IInv'
<1> DEFINE y == [x EXCEPT !.status = "resolved"]
<1>1. /\ alerts' = (alerts \ {x}) \union {y}
      /\ UNCHANGED <<enabled, step, keyOf, atOnce, sawEnabled>>
  BY DEF ResolveAlert, historyVars
<1>2. y \in Alert /\ y.id = x.id /\ y.status = "resolved"
  BY DEF IInv, Typed, Alert
<1>3. Typed'
  <2>1. IsFiniteSet(alerts')
    BY <1>1, FS_AddElement, FS_RemoveElement, FS_Subset DEF IInv, Typed
  <2> QED
    BY <1>1, <1>2, <2>1 DEF IInv, Typed
<1>4. OverlapCounted' /\ InsertsCounted'
  <2>1. \A k \in Keys : /\ CallsFor(k)' \subseteq CallsFor(k)
                        /\ Inserting(k)' \subseteq Inserting(k)
                        /\ Open(k)' \subseteq Open(k)
    BY <1>1, <1>2 DEF CallsFor, Inserting, Open, Underway
  <2> QED
    BY <1>1, <2>1, FewerKeepsCounts DEF IInv
<1>5. EnabledSeen' /\ PassedSeen' /\ DisabledRuleIsQuiet'
  BY <1>1, <1>2 DEF IInv, EnabledSeen, PassedSeen, DisabledRuleIsQuiet, Underway
<1> QED
  BY <1>3, <1>4, <1>5 DEF IInv

LEMMA UpdateRuleKeeps ==
  ASSUME IInv, NEW r \in Rules, UpdateRule(r)
  PROVE  IInv'
<1>1. /\ enabled' = [enabled EXCEPT ![r] = ~enabled[r]]
      /\ sawEnabled' = IF enabled'[r]
                       THEN sawEnabled \union {c \in Calls : Underway(c) /\ RuleOf[keyOf[c]] = r}
                       ELSE sawEnabled
      /\ UNCHANGED <<alerts, step, keyOf, atOnce>>
  BY DEF UpdateRule
<1>2. /\ enabled' \in [Rules -> BOOLEAN]
      /\ \A q \in Rules : q # r => enabled'[q] = enabled[q]
      /\ sawEnabled \subseteq sawEnabled'
  BY <1>1, Zenon DEF IInv, Typed
<1>3. Typed'
  BY <1>1, <1>2 DEF IInv, Typed
<1>4. OverlapCounted' /\ InsertsCounted'
  BY <1>1 DEF IInv, OverlapCounted, InsertsCounted, CallsFor, Inserting, Open, Underway
<1>5. EnabledSeen'
  <2> SUFFICES ASSUME NEW c \in Calls, Underway(c), enabled'[RuleOf[keyOf[c]]]
               PROVE  c \in sawEnabled'
    BY <1>1 DEF EnabledSeen, Underway
  <2>1. RuleOf[keyOf[c]] \in Rules
    BY KeysAssumption DEF IInv, Typed
  <2>2. CASE RuleOf[keyOf[c]] = r
    BY <1>1, <2>2
  <2>3. CASE RuleOf[keyOf[c]] # r
    BY <1>2, <2>1, <2>3 DEF IInv, EnabledSeen
  <2> QED
    BY <2>2, <2>3
<1>6. PassedSeen' /\ DisabledRuleIsQuiet'
  BY <1>1, <1>2 DEF IInv, PassedSeen, DisabledRuleIsQuiet
<1> QED
  BY <1>3, <1>4, <1>5, <1>6 DEF IInv

LEMMA RestartKeeps ==
  ASSUME IInv, Restart
  PROVE  IInv'
<1>1. /\ step' = [c \in Calls |-> IF Underway(c) \/ step[c] = "returned" THEN "lost" ELSE step[c]]
      /\ UNCHANGED <<enabled, alerts, keyOf, atOnce, sawEnabled>>
  BY DEF Restart, InProgress, historyVars
<1>2. /\ step' \in [Calls -> Steps]
      /\ \A c \in Calls : step'[c] \notin {"readRule", "findOpen", "insert"}
  BY <1>1 DEF IInv, Typed, Steps, Underway
<1>3. Typed'
  BY <1>1, <1>2 DEF IInv, Typed
<1>4. OverlapCounted' /\ InsertsCounted'
  <2>1. \A k \in Keys : /\ CallsFor(k)' \subseteq CallsFor(k)
                        /\ Inserting(k)' \subseteq Inserting(k)
                        /\ Open(k)' \subseteq Open(k)
    BY <1>1, <1>2 DEF CallsFor, Inserting, Open, Underway
  <2> QED
    BY <1>1, <2>1, FewerKeepsCounts DEF IInv
<1>5. EnabledSeen' /\ PassedSeen' /\ DisabledRuleIsQuiet'
  BY <1>1, <1>2 DEF IInv, EnabledSeen, PassedSeen, DisabledRuleIsQuiet, Underway
<1> QED
  BY <1>3, <1>4, <1>5 DEF IInv

LEMMA StutterKeeps == IInv /\ UNCHANGED vars => IInv'
<1> SUFFICES ASSUME IInv, UNCHANGED vars PROVE IInv'
  OBVIOUS
<1>1. Typed'
  BY DEF IInv, vars, historyVars, Typed
<1>2. OverlapCounted' /\ InsertsCounted'
  BY DEF IInv, vars, historyVars, OverlapCounted, InsertsCounted, CallsFor, Inserting, Open, Underway
<1>3. EnabledSeen' /\ PassedSeen' /\ DisabledRuleIsQuiet'
  BY DEF IInv, vars, historyVars, EnabledSeen, PassedSeen, DisabledRuleIsQuiet, Underway
<1> QED
  BY <1>1, <1>2, <1>3 DEF IInv

LEMMA Invariance == Spec => []IInv
<1>1. IInv /\ [Next]_vars => IInv'
  BY CallKeeps, ReadRuleKeeps, FindOpenKeeps, InsertKeeps, HandleAnswerKeeps,
     ResolveAlertKeeps, UpdateRuleKeeps, RestartKeeps, StutterKeeps DEF Next, CallStep
<1> QED
  BY InitIInv, <1>1, PTL DEF Spec

----
(* A key never has more open alerts than calls of createUniqueAlert for it
   overlapped: without overlap there is at most one. *)
THEOREM OpenAlertsBounded == Spec => []DuplicatesNeedOverlap
<1>1. IInv => DuplicatesNeedOverlap
  <2> SUFFICES ASSUME IInv, NEW k \in Keys PROVE Cardinality(Open(k)) <= atOnce[k]
    BY DEF DuplicatesNeedOverlap
  <2>1. /\ Cardinality(Open(k)) \in Nat
        /\ Cardinality(Inserting(k)) \in Nat
        /\ atOnce[k] \in Nat
        /\ Cardinality(Open(k)) + Cardinality(Inserting(k)) <= atOnce[k]
    BY CountedAreFinite DEF IInv, Typed, InsertsCounted
  <2> QED
    BY <2>1
<1> QED
  BY Invariance, <1>1, PTL

(* A rule that is off while createUniqueAlert runs raises no alert, although
   its switch was read two queries before the insert. *)
THEOREM DisabledRulesAreQuiet == Spec => []DisabledRuleIsQuiet
<1>1. IInv => DisabledRuleIsQuiet
  BY DEF IInv
<1> QED
  BY Invariance, <1>1, PTL

(* A call under way while its rule is off was seen. *)
DisabledSeen ==
  \A c \in Calls : Underway(c) /\ ~enabled[RuleOf[keyOf[c]]] => c \in sawDisabled

(* The answer of a call is an alert that was open at some time of the call. *)
NoAnswerYet(c) == step[c] \in {"idle", "readRule", "findOpen", "insert"} => answer[c] = NoAlert
Answered(c) ==
  \/ c \in sawDisabled /\ answer[c] = NoAlert
  \/ \E x \in alerts :
       /\ x.id = answer[c] /\ x.key = keyOf[c]
       /\ x.status = "open" \/ <<c, x.id>> \in resolvedSince
AnswerInv ==
  /\ DisabledSeen
  /\ \A c \in Calls : NoAnswerYet(c) /\ (step[c] = "returned" => Answered(c))

(* A step of call c leaves the answers of the other calls alone. *)
LEMMA OthersAnswered ==
  ASSUME AnswerInv, NEW c \in Calls, NEW d \in Calls, d # c,
         step'[d] = step[d], answer'[d] = answer[d], keyOf' = keyOf,
         alerts \subseteq alerts', sawDisabled \subseteq sawDisabled',
         \A x \in alerts : <<d, x.id>> \in resolvedSince => <<d, x.id>> \in resolvedSince',
         step'[d] = "returned"
  PROVE  Answered(d)'
<1>1. CASE d \in sawDisabled /\ answer[d] = NoAlert
  BY <1>1 DEF Answered
<1>2. CASE ~(d \in sawDisabled /\ answer[d] = NoAlert)
  <2>1. PICK x \in alerts :
          /\ x.id = answer[d] /\ x.key = keyOf[d]
          /\ x.status = "open" \/ <<d, x.id>> \in resolvedSince
    BY <1>2 DEF AnswerInv, Answered
  <2> QED
    BY <2>1 DEF Answered
<1> QED
  BY <1>1, <1>2

(* A step of a call: its own answer is an alert of its key that is open now. *)
LEMMA CallStepAnswers ==
  ASSUME IInv, AnswerInv, NEW c \in Calls, Call(c) \/ CallStep(c),
         answer \in [Calls -> Calls \union {NoAlert}]
  PROVE  AnswerInv'
<1>1. /\ step \in [Calls -> Steps]
      /\ enabled' = enabled /\ keyOf' = keyOf /\ alerts \subseteq alerts'
      /\ sawDisabled \subseteq sawDisabled'
  BY DEF IInv, Typed, Call, CallStep, ReadRule, FindOpen, Insert, HandleAnswer, historyVars
<1>2. ASSUME NEW d \in Calls, d # c
      PROVE  /\ step'[d] = step[d] /\ answer'[d] = answer[d]
             /\ \A x \in alerts : <<d, x.id>> \in resolvedSince => <<d, x.id>> \in resolvedSince'
  <2>1. step'[d] = step[d]
    BY <1>1, <1>2 DEF Call, CallStep, ReadRule, FindOpen, Insert, HandleAnswer
  <2>2. answer'[d] = answer[d]
    BY <1>2 DEF Call, CallStep, ReadRule, FindOpen, Insert, HandleAnswer
  <2>3. \A x \in alerts : <<d, x.id>> \in resolvedSince => <<d, x.id>> \in resolvedSince'
    BY <1>2 DEF Call, CallStep, ReadRule, FindOpen, Insert, HandleAnswer, historyVars
  <2> QED
    BY <2>1, <2>2, <2>3
<1>3. DisabledSeen'
  <2> SUFFICES ASSUME NEW d \in Calls, Underway(d)', ~enabled[RuleOf[keyOf[d]]]
               PROVE  d \in sawDisabled'
    BY <1>1 DEF DisabledSeen
  <2>1. CASE Underway(d)
    BY <1>1, <2>1 DEF AnswerInv, DisabledSeen
  <2>2. CASE ~Underway(d)
    <3>1. d = c
      BY <1>2, <2>2 DEF Underway
    <3>2. Call(c)
      BY <1>1, <2>2, <3>1 DEF CallStep, ReadRule, FindOpen, Insert, HandleAnswer, Underway
    <3> QED
      BY <3>1, <3>2 DEF Call
  <2> QED
    BY <2>1, <2>2
<1>4. ASSUME step'[c] = "returned" PROVE Answered(c)'
  <2>1. CASE ReadRule(c)
    <3>1. Underway(c) /\ ~enabled[RuleOf[keyOf[c]]]
      BY <1>1, <1>4, <2>1 DEF ReadRule, Underway
    <3> QED
      <4>1. answer'[c] = NoAlert
        BY <2>1 DEF ReadRule, AnswerInv, NoAnswerYet
      <4> QED
        BY <1>1, <3>1, <4>1 DEF AnswerInv, DisabledSeen, Answered
  <2>2. CASE FindOpen(c)
    <3>1. PICK x \in Open(keyOf[c]) : answer' = [answer EXCEPT ![c] = x.id]
      BY <1>1, <1>4, <2>2 DEF FindOpen
    <3>2. x \in alerts' /\ x.key = keyOf'[c] /\ x.status = "open" /\ answer'[c] = x.id
      BY <1>1, <3>1 DEF Open
    <3> QED
      BY <3>2 DEF Answered
  <2>3. CASE Insert(c)
    <3> DEFINE x == [id |-> c, key |-> keyOf[c], status |-> "open"]
    <3>1. x \in alerts' /\ answer'[c] = c
      BY <2>3 DEF Insert
    <3>2. x.id = answer'[c] /\ x.key = keyOf'[c] /\ x.status = "open"
      BY <1>1, <3>1
    <3> QED
      BY <3>1, <3>2 DEF Answered
  <2>4. ~Call(c) /\ ~HandleAnswer(c)
    BY <1>1, <1>4 DEF Call, HandleAnswer
  <2> QED
    BY <2>1, <2>2, <2>3, <2>4 DEF CallStep
<1>5. ASSUME NEW d \in Calls, step'[d] = "returned" PROVE Answered(d)'
  <2>1. CASE d = c
    BY <1>4, <1>5, <2>1
  <2>2. CASE d # c
    BY <1>1, <1>2, <1>5, <2>2, OthersAnswered
  <2> QED
    BY <2>1, <2>2
<1>6. ASSUME NEW d \in Calls PROVE NoAnswerYet(d)'
  <2>1. CASE d # c
    BY <1>2, <2>1 DEF AnswerInv, NoAnswerYet
  <2>2. CASE d = c
    <3>1. NoAnswerYet(c)
      BY DEF AnswerInv
    <3> QED
      BY <1>1, <2>2, <3>1 DEF NoAnswerYet, Call, CallStep, ReadRule, FindOpen, Insert, HandleAnswer
  <2> QED
    BY <2>1, <2>2
<1> QED
  BY <1>3, <1>5, <1>6 DEF AnswerInv

(* Resolving an alert is on record for the calls that hold it. *)
LEMMA ResolveAnswers ==
  ASSUME IInv, AnswerInv, NEW x \in alerts, ResolveAlert(x)
  PROVE  AnswerInv'
<1> DEFINE y == [x EXCEPT !.status = "resolved"]
<1>1. /\ alerts' = (alerts \ {x}) \union {y}
      /\ resolvedSince' =
           resolvedSince \union ({c \in Calls : InProgress(c) /\ keyOf[c] = x.key} \X {x.id})
      /\ UNCHANGED <<enabled, step, keyOf, answer, sawDisabled>>
  BY DEF ResolveAlert
<1>2. y.id = x.id /\ y.key = x.key
  BY DEF IInv, Typed, Alert
<1>3. DisabledSeen'
  BY <1>1 DEF AnswerInv, DisabledSeen, Underway
<1>4. ASSUME NEW c \in Calls, step[c] = "returned" PROVE Answered(c)'
  <2>1. CASE c \in sawDisabled /\ answer[c] = NoAlert
    BY <1>1, <2>1 DEF Answered
  <2>2. CASE ~(c \in sawDisabled /\ answer[c] = NoAlert)
    <3>1. PICK z \in alerts :
            /\ z.id = answer[c] /\ z.key = keyOf[c]
            /\ z.status = "open" \/ <<c, z.id>> \in resolvedSince
      BY <1>4, <2>2 DEF AnswerInv, Answered
    <3>2. CASE z # x
      BY <1>1, <3>1, <3>2 DEF Answered
    <3>3. CASE z = x
      <4>1. <<c, x.id>> \in resolvedSince'
        BY <1>1, <1>4, <3>1, <3>3 DEF InProgress
      <4>2. y \in alerts' /\ y.id = answer'[c] /\ y.key = keyOf'[c] /\ <<c, y.id>> \in resolvedSince'
        BY <1>1, <1>2, <3>1, <3>3, <4>1
      <4> QED
        BY <4>2 DEF Answered
    <3> QED
      BY <3>2, <3>3
  <2> QED
    BY <2>1, <2>2
<1> QED
  BY <1>1, <1>3, <1>4 DEF AnswerInv, NoAnswerYet

LEMMA UpdateRuleAnswers ==
  ASSUME IInv, AnswerInv, NEW r \in Rules, UpdateRule(r)
  PROVE  AnswerInv'
<1>1. /\ enabled' = [enabled EXCEPT ![r] = ~enabled[r]]
      /\ sawDisabled' = IF enabled'[r] THEN sawDisabled
                        ELSE sawDisabled \union {c \in Calls : Underway(c) /\ RuleOf[keyOf[c]] = r}
      /\ UNCHANGED <<alerts, step, keyOf, answer, resolvedSince>>
  BY DEF UpdateRule
<1>2. \A q \in Rules : q # r => enabled'[q] = enabled[q]
  BY <1>1, Zenon DEF IInv, Typed
<1>3. sawDisabled \subseteq sawDisabled'
  BY <1>1
<1>4. DisabledSeen'
  <2> SUFFICES ASSUME NEW c \in Calls, Underway(c), ~enabled'[RuleOf[keyOf[c]]]
               PROVE  c \in sawDisabled'
    BY <1>1 DEF DisabledSeen, Underway
  <2>1. RuleOf[keyOf[c]] \in Rules
    BY KeysAssumption DEF IInv, Typed
  <2>2. CASE RuleOf[keyOf[c]] = r
    BY <1>1, <2>2
  <2>3. CASE RuleOf[keyOf[c]] # r
    BY <1>2, <1>3, <2>1, <2>3 DEF AnswerInv, DisabledSeen
  <2> QED
    BY <2>2, <2>3
<1>5. \A c \in Calls : step[c] = "returned" => Answered(c)'
  BY <1>1, <1>3 DEF AnswerInv, Answered
<1> QED
  BY <1>1, <1>4, <1>5 DEF AnswerInv, NoAnswerYet

(* The caller of createUniqueAlert resumes with an alert of its key, open or
   resolved while the call was in progress, unless its rule was off during the
   call: whatever other calls, the operator and restarts did between the query
   that found or inserted the alert and this moment. *)
THEOREM AnswersAreCurrent == Spec => []ConditionHasAlert
<1> DEFINE AnswerTyped == answer \in [Calls -> Calls \union {NoAlert}]
<1>1. Init => AnswerTyped /\ AnswerInv
  BY DEF Init, AnswerInv, DisabledSeen, NoAnswerYet, Underway
<1>2. IInv /\ AnswerTyped /\ [Next]_vars => AnswerTyped'
  <2> SUFFICES ASSUME IInv, AnswerTyped, [Next]_vars PROVE AnswerTyped'
    OBVIOUS
  <2>1. ASSUME NEW c \in Calls, FindOpen(c) PROVE AnswerTyped'
    BY <2>1 DEF FindOpen, Open, IInv, Typed, Alert
  <2>2. ASSUME NEW c \in Calls, Insert(c) PROVE AnswerTyped'
    BY <2>2 DEF Insert
  <2> QED
    BY <2>1, <2>2 DEF Next, CallStep, Call, ReadRule, HandleAnswer, ResolveAlert, UpdateRule,
       Restart, vars
<1>3. IInv /\ AnswerTyped /\ AnswerInv /\ [Next]_vars => AnswerInv'
  <2> SUFFICES ASSUME IInv, AnswerTyped, AnswerInv, [Next]_vars PROVE AnswerInv'
    OBVIOUS
  <2>1. CASE Restart
    <3>1. \A c \in Calls : /\ step'[c] \notin {"readRule", "findOpen", "insert", "returned"}
                           /\ step'[c] = "idle" => step[c] = "idle"
                           /\ answer'[c] = answer[c]
      BY <2>1 DEF Restart, InProgress, Underway, IInv, Typed
    <3> QED
      BY <3>1 DEF AnswerInv, DisabledSeen, NoAnswerYet, Underway
  <2>2. CASE UNCHANGED vars
    BY <2>2 DEF vars, historyVars, AnswerInv, DisabledSeen, NoAnswerYet, Underway, Answered
  <2> QED
    BY <2>1, <2>2, CallStepAnswers, ResolveAnswers, UpdateRuleAnswers DEF Next
<1>4. AnswerInv => ConditionHasAlert
  BY DEF AnswerInv, Answered, ConditionHasAlert
<1> HIDE DEF AnswerTyped
<1> QED
  BY Invariance, <1>1, <1>2, <1>3, <1>4, PTL DEF Spec

----
(***************************************************************************)
(* The rules of those alerts: servers that set up one table of rules       *)
(* together.  Every rule is there once while one serves, and settings      *)
(* survive, for any number of servers, rules, rows of an older database,   *)
(* crashes and seeds.                                                      *)
(***************************************************************************)
Rule == [id : Nat, name : Names, isEnabled : BOOLEAN]

SetupSteps == {"create", "deduplicate", "index", "seed", "serving", "ended"}

SetupTyped ==
  /\ rules \subseteq Rule
  /\ nextId \in Nat
  /\ updates \in Nat
  /\ setupStep \in [Servers -> SetupSteps]

IndexHolds == unique => IsUnique(rules)

(* The INSERT of a start comes after the index. *)
SeedAfterIndex == \A s \in Servers : setupStep[s] \in {"seed", "serving"} => unique

SeededWhenServing ==
  (\E s \in Servers : setupStep[s] = "serving") => \A n \in Names : \E r \in rules : r.name = n

SetupInv == SetupTyped /\ IndexHolds /\ SeedAfterIndex /\ SeededWhenServing

(* A set of rows with one of a name has an oldest one of that name. *)
LEMMA Oldest ==
  ASSUME SetupTyped, NEW r \in rules
  PROVE  \E q \in OldestRows : q.name = r.name
<1> DEFINE T == {q.id : q \in {q \in rules : q.name = r.name}}
           R == {p \in Nat \X Nat : p[1] < p[2]}
<1>1. T \subseteq Nat /\ T # {}
  BY DEF SetupTyped, Rule
<1>2. IsWellFoundedOn(R, Nat)
  BY NatLessThanWellFounded DEF OpToRel
<1> HIDE DEF R, T
<1>3. PICK x \in T : \A y \in T : ~(<<y, x>> \in R)
  BY <1>1, <1>2, WFMin
<1>4. \A y \in T : x <= y
  <2> TAKE y \in T
  <2>1. x \in Nat /\ y \in Nat
    BY <1>1
  <2>2. y < x => <<y, x>> \in R
    BY <2>1 DEF R
  <2> QED
    BY <1>3, <2>1, <2>2
<1>5. PICK q \in rules : q.name = r.name /\ q.id = x
  BY <1>3 DEF T
<1>6. \A p \in rules : p.name = q.name => p.id \in T
  BY <1>5 DEF T
<1>7. q \in OldestRows
  BY <1>4, <1>5, <1>6 DEF OldestRows
<1> QED
  BY <1>5, <1>7

LEMMA SetupInitHolds == SetupInit => SetupInv
<1> SUFFICES ASSUME SetupInit PROVE SetupInv
  OBVIOUS
<1>1. PICK n \in 0..(IF created THEN OldRows ELSE 0) :
        \E name \in [1..n -> Names], on \in [1..n -> BOOLEAN] :
          rules = {Row(i, name[i], on[i]) : i \in 1..n}
  BY DEF SetupInit
<1>2. PICK name \in [1..n -> Names], on \in [1..n -> BOOLEAN] :
        rules = {Row(i, name[i], on[i]) : i \in 1..n}
  BY <1>1
<1>3. n \in Nat
  BY BoundAssumption
<1>4. rules \subseteq Rule
  BY <1>2, <1>3 DEF Row, Rule
<1>5. nextId \in Nat
  <2>1. IsFiniteSet(1..n)
    BY <1>3, FS_Interval
  <2>2. IsFiniteSet(rules)
    <3> DEFINE F == [i \in 1..n |-> Row(i, name[i], on[i])]
    <3>1. F \in Surjection(1..n, rules)
      BY <1>2 DEF Surjection
    <3> QED
      BY <2>1, <3>1, FS_Surjection
  <2> QED
    BY <2>2, FS_CardinalityType DEF SetupInit
<1>6. SetupTyped
  <2>1. setupStep \in [Servers -> SetupSteps]
    BY DEF SetupInit, SetupSteps
  <2> QED
    BY <1>4, <1>5, <2>1 DEF SetupInit, SetupTyped
<1>7. IndexHolds
  BY DEF SetupInit, IndexHolds
<1>8. SeedAfterIndex /\ SeededWhenServing
  BY DEF SetupInit, SeedAfterIndex, SeededWhenServing
<1> QED
  BY <1>6, <1>7, <1>8 DEF SetupInv

(* What an INSERT adds, whether or not there is an index. *)
LEMMA InsertAdds ==
  ASSUME SetupTyped, IndexHolds, InsertRules
  PROVE  /\ rules \subseteq rules'
         /\ rules' \subseteq Rule
         /\ nextId' \in Nat
         /\ IndexHolds'
         /\ \A n \in Names : \E r \in rules' : r.name = n
<1> DEFINE Absent == {m \in Names : unique => \A r \in rules : r.name # m}
<1>1. Cardinality(Names) \in Nat
  BY NamesAssumption, FS_CardinalityType
<1>2. PICK number \in [Names -> nextId..(nextId + Cardinality(Names) - 1)] :
        rules' = rules \union {Row(number[n], n, TRUE) : n \in Absent}
  BY DEF InsertRules
<1>3. nextId' \in Nat
  BY <1>1 DEF InsertRules, SetupTyped
<1>4. \A n \in Names : number[n] \in Nat
  BY <1>1, <1>2 DEF SetupTyped
<1>5. \A n \in Names : Row(number[n], n, TRUE) \in Rule
  BY <1>4 DEF Row, Rule
<1>6. rules \subseteq rules' /\ rules' \subseteq Rule
  BY <1>2, <1>5 DEF SetupTyped
<1>7. IndexHolds'
  <2> SUFFICES ASSUME unique', NEW r \in rules', NEW s \in rules', r.name = s.name
               PROVE  r = s
    BY DEF IndexHolds, IsUnique
  <2>1. unique /\ IsUnique(rules)
    BY DEF InsertRules, IndexHolds
  <2>2. \A x \in rules' : x \in rules \/ (x.name \in Absent /\ x = Row(number[x.name], x.name, TRUE))
    BY <1>2 DEF Row
  <2>3. \A x \in rules : x.name \notin Absent
    BY <2>1
  <2> QED
    BY <2>1, <2>2, <2>3 DEF IsUnique
<1>8. ASSUME NEW n \in Names PROVE \E r \in rules' : r.name = n
  <2>1. CASE n \in Absent
    <3>1. Row(number[n], n, TRUE) \in rules'
      BY <1>2, <2>1
    <3> QED
      BY <3>1 DEF Row
  <2>2. CASE n \notin Absent
    BY <1>6, <2>2
  <2> QED
    BY <2>1, <2>2
<1> QED
  BY <1>3, <1>6, <1>7, <1>8

LEMMA SetupNextHolds == SetupInv /\ [SetupNext]_setupVars => SetupInv'
<1> SUFFICES ASSUME SetupInv, [SetupNext]_setupVars PROVE SetupInv'
  OBVIOUS
<1> USE DEF SetupInv
<1>0. updates + 1 \in Nat /\ setupStep \in [Servers -> SetupSteps]
  BY DEF SetupTyped
<1>10. setupStep' \in [Servers -> SetupSteps]
  <2>1. ASSUME NEW s \in Servers, ServerStep(s) \/ Crash(s) PROVE setupStep' \in [Servers -> SetupSteps]
    <3>1. \E to \in SetupSteps : setupStep' = [setupStep EXCEPT ![s] = to]
      BY <2>1 DEF ServerStep, CreateTables, Deduplicate, CreateIndex, Seed, RestartServer, Crash, Query, SetupSteps
    <3> QED
      BY <1>0, <3>1
  <2>2. CASE RunSeed \/ OperatorUpdates \/ UNCHANGED setupVars
    BY <1>0, <2>2 DEF RunSeed, OperatorUpdates, setupVars
  <2> QED
    BY <2>1, <2>2 DEF SetupNext
<1>1. ASSUME NEW s \in Servers, CreateTables(s) PROVE SetupInv'
  BY <1>0, <1>1, <1>10 DEF CreateTables, Query, boundVars, SetupTyped, IndexHolds, SeedAfterIndex, SeededWhenServing, IsUnique
<1>2. ASSUME NEW s \in Servers, Deduplicate(s) PROVE SetupInv'
  <2>1. rules' \subseteq rules /\ UNCHANGED <<nextId, unique, updates>>
    BY <1>2 DEF Deduplicate, OldestRows, boundVars
  <2>2. \A t \in Servers : setupStep'[t] \in {"seed", "serving"} => setupStep'[t] = setupStep[t]
    BY <1>0, <1>2 DEF Deduplicate, Query
  <2>3. SetupTyped'
    BY <1>10, <2>1 DEF SetupTyped
  <2>4. IndexHolds'
    BY <2>1 DEF IndexHolds, IsUnique
  <2>5. SeedAfterIndex'
    BY <2>1, <2>2 DEF SeedAfterIndex
  <2>6. SeededWhenServing'
    <3> SUFFICES ASSUME NEW t \in Servers, setupStep'[t] = "serving", NEW n \in Names
                 PROVE  \E r \in rules' : r.name = n
      BY DEF SeededWhenServing
    <3>1. PICK r \in rules : r.name = n
      BY <2>2 DEF SeededWhenServing
    <3> QED
      BY <1>2, <3>1, Oldest DEF Deduplicate
  <2> QED
    BY <2>3, <2>4, <2>5, <2>6
<1>3. ASSUME NEW s \in Servers, CreateIndex(s) PROVE SetupInv'
  <2>1. UNCHANGED <<rules, nextId, updates>>
    BY <1>3 DEF CreateIndex, boundVars
  <2>2. unique => unique'
    BY <1>3 DEF CreateIndex
  <2>3. \A t \in Servers : setupStep'[t] \in {"seed", "serving"} => setupStep'[t] = setupStep[t] \/ unique'
    BY <1>0, <1>3 DEF CreateIndex, Query
  <2>4. \A t \in Servers : setupStep'[t] = "serving" => setupStep[t] = "serving"
    BY <1>0, <1>3 DEF CreateIndex, Query
  <2>5. IndexHolds'
    BY <1>3 DEF CreateIndex, IndexHolds, IsUnique
  <2>6. SeedAfterIndex'
    BY <2>2, <2>3 DEF SeedAfterIndex
  <2>7. SeededWhenServing'
    BY <2>1, <2>4 DEF SeededWhenServing
  <2> QED
    BY <1>10, <2>1, <2>5, <2>6, <2>7 DEF SetupTyped
<1>4. ASSUME NEW s \in Servers, Seed(s) PROVE SetupInv'
  <2>1. InsertRules /\ UNCHANGED <<unique, updates>>
    BY <1>4 DEF Seed, InsertRules, boundVars
  <2>2. setupStep[s] = "seed" /\ \A t \in Servers : t # s => setupStep'[t] = setupStep[t]
    BY <1>0, <1>4 DEF Seed, Query
  <2>3. SeedAfterIndex'
    BY <2>1, <2>2 DEF SeedAfterIndex
  <2> QED
    BY <1>10, <2>1, <2>3, InsertAdds DEF SetupTyped, SeededWhenServing
<1>5. ASSUME NEW s \in Servers, RestartServer(s) PROVE SetupInv'
  <2>1. UNCHANGED <<rules, nextId, unique, updates>>
    BY <1>5 DEF RestartServer, tableVars, boundVars
  <2>2. \A t \in Servers : setupStep'[t] \in {"seed", "serving"} => setupStep'[t] = setupStep[t]
    BY <1>0, <1>5 DEF RestartServer, Query
  <2> QED
    BY <1>10, <2>1, <2>2 DEF SetupTyped, IndexHolds, IsUnique, SeedAfterIndex, SeededWhenServing
<1>6. ASSUME NEW s \in Servers, Crash(s) PROVE SetupInv'
  <2>1. UNCHANGED <<rules, nextId, unique, updates>>
    BY <1>6 DEF Crash, tableVars
  <2>2. \A t \in Servers : setupStep'[t] \in {"seed", "serving"} => setupStep'[t] = setupStep[t]
    BY <1>0, <1>6 DEF Crash
  <2> QED
    BY <1>10, <2>1, <2>2 DEF SetupTyped, IndexHolds, IsUnique, SeedAfterIndex, SeededWhenServing
<1>7. CASE RunSeed
  <2>1. InsertRules /\ UNCHANGED <<unique, setupStep, updates>>
    BY <1>7 DEF RunSeed, InsertRules
  <2> QED
    BY <1>10, <2>1, InsertAdds DEF SetupTyped, SeedAfterIndex, SeededWhenServing
<1>8. CASE OperatorUpdates
  <2>1. PICK r \in rules : rules' = (rules \ {r}) \union {Row(r.id, r.name, ~r.isEnabled)}
    BY <1>8 DEF OperatorUpdates
  <2>2. Row(r.id, r.name, ~r.isEnabled) \in Rule
    BY DEF SetupTyped, Rule, Row
  <2>3. SetupTyped'
    BY <1>0, <1>8, <1>10, <2>1, <2>2 DEF OperatorUpdates, SetupTyped
  <2>4. UNCHANGED <<unique, setupStep>>
    BY <1>8 DEF OperatorUpdates
  <2>5. \A x \in rules' : x \in rules \ {r} \/ (x = Row(r.id, r.name, ~r.isEnabled) /\ x.name = r.name)
    BY <2>1 DEF Row
  <2>6. IndexHolds'
    BY <2>4, <2>5 DEF IndexHolds, IsUnique
  <2>7. \A q \in rules : \E x \in rules' : x.name = q.name
    <3>1. Row(r.id, r.name, ~r.isEnabled) \in rules'
      BY <2>1
    <3>2. Row(r.id, r.name, ~r.isEnabled).name = r.name
      BY DEF Row
    <3> QED
      BY <2>1, <3>1, <3>2
  <2> QED
    BY <2>3, <2>4, <2>6, <2>7 DEF SeedAfterIndex, SeededWhenServing
<1>9. CASE UNCHANGED setupVars
  BY <1>9 DEF setupVars, tableVars, boundVars, SetupTyped, IndexHolds, IsUnique, SeedAfterIndex, SeededWhenServing
<1> QED
  BY <1>1, <1>2, <1>3, <1>4, <1>5, <1>6, <1>7, <1>8, <1>9 DEF SetupNext, ServerStep

LEMMA SetupInvariance == SetupSpec => []SetupInv
<1> QED
  BY SetupInitHolds, SetupNextHolds, PTL DEF SetupSpec

----
(* While a server is up, every rule is in the table exactly once. *)
THEOREM OnceWhenServing == SetupSpec => []UniqueWhenServing
<1>1. SetupInv => UniqueWhenServing
  <2> SUFFICES ASSUME SetupInv, NEW s \in Servers, setupStep[s] = "serving", NEW n \in Names
               PROVE  Cardinality({r \in rules : r.name = n}) = 1
    BY DEF UniqueWhenServing
  <2>1. IsUnique(rules)
    BY DEF SetupInv, SeedAfterIndex, IndexHolds
  <2>2. PICK q \in rules : q.name = n
    BY DEF SetupInv, SeededWhenServing
  <2>3. {r \in rules : r.name = n} = {q}
    BY <2>1, <2>2 DEF IsUnique
  <2> QED
    BY <2>3, FS_Singleton
<1> QED
  BY <1>1, SetupInvariance, PTL

(* No start, seed or deduplication changes the setting of a row that stays, and
   a row goes only if an older one of its name stays. *)
THEOREM Survival == SetupSpec => SettingsSurvive
<1> DEFINE Survives(r) ==
      \/ \E q \in rules' : q.id = r.id /\ (q = r \/ updates' # updates)
      \/ \E q \in rules' : q.name = r.name /\ q.id < r.id
<1>1. ASSUME SetupInv, SetupNext, NEW r \in rules PROVE Survives(r)
  <2>1. CASE rules \subseteq rules'
    BY <2>1
  <2>2. ASSUME NEW s \in Servers, Deduplicate(s) PROVE Survives(r)
    <3>1. PICK q \in OldestRows : q.name = r.name
      BY <1>1, Oldest DEF SetupInv
    <3>2. rules' = OldestRows
      BY <2>2 DEF Deduplicate
    <3>3. CASE r \in OldestRows
      BY <3>2, <3>3
    <3>4. CASE r \notin OldestRows
      <4>1. PICK p \in rules : p.name = r.name /\ ~(r.id <= p.id)
        BY <3>4 DEF OldestRows
      <4>2. q.id <= p.id
        BY <3>1, <4>1 DEF OldestRows
      <4>3. q.id \in Nat /\ p.id \in Nat /\ r.id \in Nat
        BY <1>1, <3>1 DEF SetupInv, SetupTyped, Rule, OldestRows
      <4>4. q.id < r.id
        BY <4>1, <4>2, <4>3
      <4> QED
        BY <3>1, <3>2, <4>4
    <3> QED
      BY <3>3, <3>4
  <2>3. CASE OperatorUpdates
    <3>1. PICK p \in rules : rules' = (rules \ {p}) \union {Row(p.id, p.name, ~p.isEnabled)}
      BY <2>3 DEF OperatorUpdates
    <3>2. updates' # updates
      BY <1>1, <2>3 DEF OperatorUpdates, SetupInv, SetupTyped
    <3>3. Row(p.id, p.name, ~p.isEnabled).id = p.id
      BY DEF Row
    <3> QED
      BY <3>1, <3>2, <3>3
  <2>4. ASSUME NEW s \in Servers, Seed(s) PROVE rules \subseteq rules'
    BY <2>4 DEF Seed, InsertRules
  <2>5. CASE RunSeed
    <3>1. rules \subseteq rules'
      BY <2>5 DEF RunSeed, InsertRules
    <3> QED
      BY <2>1, <3>1
  <2>6. ASSUME NEW s \in Servers, CreateTables(s) \/ CreateIndex(s) \/ RestartServer(s) \/ Crash(s)
        PROVE  rules \subseteq rules'
    BY <2>6 DEF CreateTables, CreateIndex, RestartServer, Crash, tableVars
  <2> QED
    BY <1>1, <2>1, <2>2, <2>3, <2>4, <2>5, <2>6 DEF SetupNext, ServerStep
<1>2. SetupInv /\ [SetupNext]_setupVars => [\A r \in rules : Survives(r)]_setupVars
  BY <1>1
<1> QED
  BY <1>2, SetupInvariance, PTL DEF SetupSpec, SettingsSurvive

----
(***************************************************************************)
(* The correlation workers: what each of them remembers is what its        *)
(* history says, as far as the window still reaches, so it raises a        *)
(* candidate exactly when the history calls for one - for any number of    *)
(* agents, addresses and messages, any threshold and any window.           *)
(***************************************************************************)
(* What the ports carry and the histories record. *)
EventMessage ==
  {m \in [agentId : Agents, eventType : Windowed \union {"auth.privilege_escalation"}, line : Lines] :
     m.eventType \in EventType(m.line)}
MetricMessage == [agentId : Agents, metricType : {"cpu", "memory", "disk"}, high : BOOLEAN]
Message(w) == IF w = "anomaly" THEN MetricMessage ELSE EventMessage
Entry(w) == [msg : Message(w), at : Nat, raised : BOOLEAN]

EngineTyped ==
  /\ now \in Nat
  /\ DOMAIN ports = Workers /\ \A w \in Workers : ports[w] \in Seq(Message(w))
  /\ DOMAIN taken = Workers /\ \A w \in Workers : taken[w] \in Seq(Entry(w))
  /\ failures \in [Addresses \union Agents -> SUBSET [nr : Nat, at : Nat]]
  /\ state \in [Agents -> SUBSET {"cpu", "memory"}]
  /\ eventWindow \in [Windowed -> SUBSET [agentId : Agents, occurredAt : Nat]]

(* The entries of history h for a key, a type or an agent. *)
FailedFor(h, k) == {j \in DOMAIN h : h[j].msg.eventType = "auth.login_failed" /\ Key(h[j].msg) = k}
OfType(h, type) == {j \in DOMAIN h : h[j].msg.eventType = type}
OfAgent(h, a) == {j \in DOMAIN h : h[j].msg.agentId = a}

(* Those of js, up to the n-th entry, that none of js with a candidate has
   followed, which makes the worker forget them. *)
Live(h, js, n) == {j \in 1..n : j \in js /\ \A i \in j..n : i \in js => ~h[i].raised}

(* What a worker counts when it takes the i-th entry. *)
Counted(h, js, i) == {j \in Live(h, js, i - 1) \union {i} : h[i].at - h[j].at < Window}

LastIsHigh(h, js, type) ==
  \E j \in js : /\ h[j].msg.metricType = type /\ h[j].msg.high
                /\ \A k \in js : h[k].msg.metricType = type => k <= j

(* The workers' memories are what their histories say, as far as the window
   still reaches. *)
KeepsFailures(h, kept, t) ==
  \A k \in Addresses \union Agents :
    /\ \A f \in kept[k] : f.nr \in Live(h, FailedFor(h, k), Len(h)) /\ f.at = h[f.nr].at
    /\ \A j \in Live(h, FailedFor(h, k), Len(h)) :
         t - h[j].at < Window => [nr |-> j, at |-> h[j].at] \in kept[k]

KeepsState(h, kept) ==
  \A a \in Agents, type \in {"cpu", "memory"} :
    type \in kept[a] <=> LastIsHigh(h, Live(h, OfAgent(h, a), Len(h)), type)

KeepsWindow(h, kept, t) ==
  \A type \in Windowed :
    /\ IsFiniteSet(kept[type])
    /\ \A e \in kept[type] : \E j \in Live(h, OfType(h, type), Len(h)) :
         e = [agentId |-> h[j].msg.agentId, occurredAt |-> h[j].at]
    /\ \A j \in Live(h, OfType(h, type), Len(h)) :
         t - h[j].at < Window
           => [agentId |-> h[j].msg.agentId, occurredAt |-> h[j].at] \in kept[type]

(* The three properties, entry by entry. *)
ExactFailure(h, i) ==
  h[i].raised <=> /\ h[i].msg.eventType = "auth.login_failed"
                  /\ Cardinality(Counted(h, FailedFor(h, Key(h[i].msg)), i)) >= Threshold

ExactAnomaly(h, i) ==
  LET js == Live(h, OfAgent(h, h[i].msg.agentId), i - 1) \union {i}
  IN h[i].raised <=> LastIsHigh(h, js, "cpu") /\ LastIsHigh(h, js, "memory")

ExactSpread(h, i) ==
  h[i].raised <=>
    \/ h[i].msg.eventType = "auth.privilege_escalation"
    \/ \E j \in Counted(h, OfType(h, h[i].msg.eventType), i) : h[j].msg.agentId # h[i].msg.agentId

Exact ==
  /\ \A i \in 1..Len(taken["bruteForce"]) : ExactFailure(taken["bruteForce"], i)
  /\ \A i \in 1..Len(taken["anomaly"]) : ExactAnomaly(taken["anomaly"], i)
  /\ \A i \in 1..Len(taken["crossServer"]) : ExactSpread(taken["crossServer"], i)

EngineInv ==
  /\ EngineTyped
  /\ KeepsFailures(taken["bruteForce"], failures, now)
  /\ KeepsState(taken["anomaly"], state)
  /\ KeepsWindow(taken["crossServer"], eventWindow, now)
  /\ Exact
----
(* The last entry of a history is new, the others stay. *)
LEMMA Appended ==
  ASSUME NEW S, NEW h \in Seq(S), NEW e \in S
  PROVE  /\ Append(h, e) \in Seq(S) /\ Len(Append(h, e)) = Len(h) + 1
         /\ DOMAIN Append(h, e) = 1..(Len(h) + 1) /\ DOMAIN h = 1..Len(h) /\ Len(h) \in Nat
         /\ Append(h, e)[Len(h) + 1] = e
         /\ \A i \in 1..Len(h) : Append(h, e)[i] = h[i]
  OBVIOUS

(* Histories, or sets of entries, that agree up to the n-th. *)
SameEntries(g, h, n) == \A j \in 1..n : g[j] = h[j]
SameMembers(ks, js, n) == \A j \in 1..n : j \in ks <=> j \in js
IsNext(m, n) == m = n + 1

LEMMA LiveStays ==
  ASSUME NEW g, NEW h, NEW n \in Nat, SameEntries(g, h, n),
         NEW js, NEW ks, SameMembers(ks, js, n)
  PROVE  Live(g, ks, n) = Live(h, js, n)
<1>1. \A j \in 1..n : \A i \in j..n : i \in 1..n
  OBVIOUS
<1>2. QED
  BY <1>1, Zenon DEF Live, SameEntries, SameMembers

LEMMA LiveGrows ==
  ASSUME NEW g, NEW h, NEW n \in Nat, SameEntries(g, h, n),
         NEW js, NEW ks, SameMembers(ks, js, n), NEW m, IsNext(m, n)
  PROVE  Live(g, ks, m) =
           IF m \notin ks THEN Live(h, js, n)
           ELSE IF g[m].raised THEN {} ELSE Live(h, js, n) \union {m}
<1>. m = n + 1
  BY DEF IsNext
<1>1. m \notin 1..n /\ \A j \in 1..m : j \in 1..n \/ j = m
  OBVIOUS
<1>2. \A j \in 1..n : j \in 1..m /\ m \in j..m /\ (\A i \in j..m : i \in j..n \/ i = m)
                     /\ (\A i \in j..n : i \in j..m)
  OBVIOUS
<1>3. m \in m..m /\ (\A i \in m..m : i = m) /\ m \in 1..m
  OBVIOUS
<1>4. Live(g, ks, n) = Live(h, js, n)
  BY LiveStays
<1>5. ASSUME NEW j PROVE j \in Live(g, ks, m) <=>
          \/ j \in Live(h, js, n) /\ (m \in ks => ~g[m].raised)
          \/ j = m /\ m \in ks /\ ~g[m].raised
  <2>1. CASE j \in 1..n
    BY <2>1, <1>1, <1>2, <1>4, Zenon DEF Live
  <2>2. CASE j = m
    BY <2>2, <1>1, <1>3, <1>4, Zenon DEF Live
  <2>3. CASE j \notin 1..m
    BY <2>3, <1>2, <1>3, <1>4, Zenon DEF Live
  <2>4. QED
    BY <2>1, <2>2, <2>3, <1>1
<1>6. m \notin ks => Live(g, ks, m) = Live(h, js, n)
  BY <1>5
<1>7. m \in ks /\ g[m].raised => Live(g, ks, m) = {}
  BY <1>5
<1>8. m \in ks /\ ~g[m].raised => Live(g, ks, m) = Live(h, js, n) \union {m}
  BY <1>5
<1>9. QED
  BY <1>6, <1>7, <1>8

LEMMA LikesStay ==
  ASSUME NEW S, NEW h \in Seq(S), NEW e \in S, NEW i \in 1..Len(h)
  PROVE  /\ \A k : i \in FailedFor(Append(h, e), k) <=> i \in FailedFor(h, k)
         /\ \A type : i \in OfType(Append(h, e), type) <=> i \in OfType(h, type)
         /\ \A a : i \in OfAgent(Append(h, e), a) <=> i \in OfAgent(h, a)
<1>1. i \in DOMAIN h /\ i \in DOMAIN Append(h, e) /\ Append(h, e)[i] = h[i]
  BY Appended
<1>2. QED
  BY <1>1, Zenon DEF FailedFor, OfType, OfAgent

LEMMA LikesNew ==
  ASSUME NEW S, NEW h \in Seq(S), NEW e \in S
  PROVE  /\ \A k : Len(h) + 1 \in FailedFor(Append(h, e), k)
                     <=> e.msg.eventType = "auth.login_failed" /\ Key(e.msg) = k
         /\ \A type : Len(h) + 1 \in OfType(Append(h, e), type) <=> e.msg.eventType = type
         /\ \A a : Len(h) + 1 \in OfAgent(Append(h, e), a) <=> e.msg.agentId = a
<1>1. Len(h) + 1 \in DOMAIN Append(h, e) /\ Append(h, e)[Len(h) + 1] = e
  BY Appended
<1>2. QED
  BY <1>1, Zenon DEF FailedFor, OfType, OfAgent

LEMMA FailedGrows ==
  ASSUME NEW S, NEW h \in Seq(S), NEW e \in S, NEW k
  PROVE  Live(Append(h, e), FailedFor(Append(h, e), k), Len(h) + 1) =
           IF e.msg.eventType = "auth.login_failed" /\ Key(e.msg) = k
           THEN IF e.raised THEN {} ELSE Live(h, FailedFor(h, k), Len(h)) \union {Len(h) + 1}
           ELSE Live(h, FailedFor(h, k), Len(h))
<1>. DEFINE g == Append(h, e)
            n == Len(h)
            m == Len(h) + 1
            js == FailedFor(h, k)
            ks == FailedFor(g, k)
<1>1. SameMembers(ks, js, n)
  BY LikesStay DEF SameMembers
<1>2. m \in ks <=> e.msg.eventType = "auth.login_failed" /\ Key(e.msg) = k
  BY LikesNew
<1>3. g[m] = e /\ n \in Nat /\ IsNext(m, n) /\ SameEntries(g, h, n)
  BY Appended DEF SameEntries, IsNext
<1>4. Live(g, ks, m) = IF m \notin ks THEN Live(h, js, n)
                       ELSE IF g[m].raised THEN {} ELSE Live(h, js, n) \union {m}
  <2>. HIDE DEF g, n, m, js, ks
  <2>. QED
    BY <1>1, <1>3, LiveGrows
<1>5. QED
  BY <1>2, <1>3, <1>4, Zenon

LEMMA TypeGrows ==
  ASSUME NEW S, NEW h \in Seq(S), NEW e \in S, NEW type
  PROVE  Live(Append(h, e), OfType(Append(h, e), type), Len(h) + 1) =
           IF e.msg.eventType = type
           THEN IF e.raised THEN {} ELSE Live(h, OfType(h, type), Len(h)) \union {Len(h) + 1}
           ELSE Live(h, OfType(h, type), Len(h))
<1>. DEFINE g == Append(h, e)
            n == Len(h)
            m == Len(h) + 1
            js == OfType(h, type)
            ks == OfType(g, type)
<1>1. SameMembers(ks, js, n)
  BY LikesStay DEF SameMembers
<1>2. m \in ks <=> e.msg.eventType = type
  BY LikesNew
<1>3. g[m] = e /\ n \in Nat /\ IsNext(m, n) /\ SameEntries(g, h, n)
  BY Appended DEF SameEntries, IsNext
<1>4. Live(g, ks, m) = IF m \notin ks THEN Live(h, js, n)
                       ELSE IF g[m].raised THEN {} ELSE Live(h, js, n) \union {m}
  <2>. HIDE DEF g, n, m, js, ks
  <2>. QED
    BY <1>1, <1>3, LiveGrows
<1>5. QED
  BY <1>2, <1>3, <1>4, Zenon

LEMMA AgentGrows ==
  ASSUME NEW S, NEW h \in Seq(S), NEW e \in S, NEW a
  PROVE  Live(Append(h, e), OfAgent(Append(h, e), a), Len(h) + 1) =
           IF e.msg.agentId = a
           THEN IF e.raised THEN {} ELSE Live(h, OfAgent(h, a), Len(h)) \union {Len(h) + 1}
           ELSE Live(h, OfAgent(h, a), Len(h))
<1>. DEFINE g == Append(h, e)
            n == Len(h)
            m == Len(h) + 1
            js == OfAgent(h, a)
            ks == OfAgent(g, a)
<1>1. SameMembers(ks, js, n)
  BY LikesStay DEF SameMembers
<1>2. m \in ks <=> e.msg.agentId = a
  BY LikesNew
<1>3. g[m] = e /\ n \in Nat /\ IsNext(m, n) /\ SameEntries(g, h, n)
  BY Appended DEF SameEntries, IsNext
<1>4. Live(g, ks, m) = IF m \notin ks THEN Live(h, js, n)
                       ELSE IF g[m].raised THEN {} ELSE Live(h, js, n) \union {m}
  <2>. HIDE DEF g, n, m, js, ks
  <2>. QED
    BY <1>1, <1>3, LiveGrows
<1>5. QED
  BY <1>2, <1>3, <1>4, Zenon

(* What was counted, and whether it was exact, does not change later. *)
LEMMA CountedStays ==
  ASSUME NEW S, NEW h \in Seq(S), NEW e \in S, NEW js, NEW ks, NEW i \in 1..Len(h),
         SameMembers(ks, js, Len(h))
  PROVE  /\ Live(Append(h, e), ks, i - 1) = Live(h, js, i - 1)
         /\ Counted(Append(h, e), ks, i) = Counted(h, js, i)
         /\ Counted(h, js, i) \subseteq 1..Len(h)
<1>1. i - 1 \in 0..Len(h) /\ i \in Nat /\ \A j \in 1..(i - 1) : j \in 1..Len(h)
  BY Appended
<1>2. Live(Append(h, e), ks, i - 1) = Live(h, js, i - 1)
  <2>1. /\ i - 1 \in Nat /\ SameEntries(Append(h, e), h, i - 1)
        /\ SameMembers(ks, js, i - 1)
    BY <1>1, Appended DEF SameEntries, SameMembers
  <2>2. QED
    BY <2>1, LiveStays
<1>3. Live(h, js, i - 1) \union {i} \subseteq 1..Len(h)
  BY <1>1 DEF Live
<1>4. \A j \in Live(h, js, i - 1) \union {i} : Append(h, e)[j] = h[j]
  BY <1>3, Appended
<1>5. Counted(Append(h, e), ks, i) = Counted(h, js, i)
  <2>1. Append(h, e)[i] = h[i]
    BY <1>4
  <2>2. \A j \in Live(h, js, i - 1) \union {i} :
          (Append(h, e)[i].at - Append(h, e)[j].at < Window) = (h[i].at - h[j].at < Window)
    BY <1>4, <2>1, Zenon
  <2>3. QED
    BY <1>2, <2>2, Zenon DEF Counted
<1>6. QED
  BY <1>2, <1>3, <1>5 DEF Counted

LEMMA ExactStays ==
  ASSUME NEW S, NEW h \in Seq(S), NEW e \in S, NEW i \in 1..Len(h)
  PROVE  /\ ExactFailure(Append(h, e), i) <=> ExactFailure(h, i)
         /\ ExactAnomaly(Append(h, e), i) <=> ExactAnomaly(h, i)
         /\ ExactSpread(Append(h, e), i) <=> ExactSpread(h, i)
<1>. DEFINE g == Append(h, e)
<1>1. g[i] = h[i] /\ i \in 1..Len(h) /\ \A j \in 1..(i - 1) : j \in 1..Len(h)
  BY Appended
<1>2. ExactFailure(g, i) <=> ExactFailure(h, i)
  <2>. DEFINE k == Key(h[i].msg)
  <2>1. SameMembers(FailedFor(g, k), FailedFor(h, k), Len(h))
    BY LikesStay DEF SameMembers
  <2>2. Counted(g, FailedFor(g, k), i) = Counted(h, FailedFor(h, k), i)
    BY <2>1, CountedStays
  <2>3. QED
    BY <1>1, <2>2, Zenon DEF ExactFailure
<1>3. ExactAnomaly(g, i) <=> ExactAnomaly(h, i)
  <2>. DEFINE a == h[i].msg.agentId
              js == Live(h, OfAgent(h, a), i - 1) \union {i}
  <2>1. SameMembers(OfAgent(g, a), OfAgent(h, a), Len(h))
    BY LikesStay DEF SameMembers
  <2>2. Live(g, OfAgent(g, a), i - 1) = Live(h, OfAgent(h, a), i - 1)
    <3>. HIDE DEF a
    <3>. QED
      BY SMTT(30), <2>1, CountedStays
  <2>3. \A j \in js : g[j] = h[j]
    BY <1>1, Appended DEF Live
  <2>4. \A type : LastIsHigh(g, js, type) <=> LastIsHigh(h, js, type)
    BY <2>3, Zenon DEF LastIsHigh
  <2>5. QED
    BY <1>1, <2>2, <2>4, Zenon DEF ExactAnomaly
<1>4. ExactSpread(g, i) <=> ExactSpread(h, i)
  <2>. DEFINE type == h[i].msg.eventType
  <2>1. SameMembers(OfType(g, type), OfType(h, type), Len(h))
    BY LikesStay DEF SameMembers
  <2>2. /\ Counted(g, OfType(g, type), i) = Counted(h, OfType(h, type), i)
        /\ Counted(h, OfType(h, type), i) \subseteq 1..Len(h)
    BY <2>1, CountedStays
  <2>3. \A j \in Counted(h, OfType(h, type), i) : g[j] = h[j]
    BY <2>2, Appended
  <2>4. QED
    BY <1>1, <2>2, <2>3, Zenon DEF ExactSpread
<1>5. QED
  BY <1>2, <1>3, <1>4

----
(* brute-force.worker.ts: its numbered times are those of the entries that
   count. *)
LEMMA Numbered ==
  ASSUME NEW C, IsFiniteSet(C), NEW g
  PROVE  Cardinality({[nr |-> j, at |-> g[j].at] : j \in C}) = Cardinality(C)
<1>. DEFINE F == [j \in C |-> [nr |-> j, at |-> g[j].at]]
            T == {[nr |-> j, at |-> g[j].at] : j \in C}
<1>1. F \in [C -> T]
  OBVIOUS
<1>2. \A i, j \in C : F[i] = F[j] => i = j
  OBVIOUS
<1>3. \A t \in T : \E j \in C : F[j] = t
  OBVIOUS
<1>4. F \in Bijection(C, T)
  <2>. HIDE DEF F, T
  <2>. QED
    BY <1>1, <1>2, <1>3 DEF Bijection, Injection, Surjection, IsInjective
<1>5. ExistsBijection(C, T)
  BY <1>4 DEF ExistsBijection
<1>6. QED
  BY <1>5, FS_Bijection

LEMMA EntryOf ==
  ASSUME NEW w \in Workers, NEW h \in Seq(Entry(w))
  PROVE  /\ \A j \in 1..Len(h) : h[j] \in Entry(w) /\ h[j].at \in Nat
         /\ \A js, n : Live(h, js, n) \subseteq 1..n
         /\ \A js : Live(h, js, Len(h)) \subseteq 1..Len(h)
         /\ Len(h) \in Nat
<1>1. \A j \in 1..Len(h) : h[j] \in Entry(w)
  OBVIOUS
<1>2. \A x \in Entry(w) : x.at \in Nat
  BY DEF Entry
<1>3. \A js, n : Live(h, js, n) \subseteq 1..n
  BY DEF Live
<1>4. QED
  BY <1>1, <1>2, <1>3

LEMMA FailuresTick ==
  ASSUME NEW h \in Seq(Entry("bruteForce")), NEW kept, NEW t \in Nat, KeepsFailures(h, kept, t),
         NEW u, u = t + 1
  PROVE  KeepsFailures(h, kept, u)
<1>1. \A js : \A j \in Live(h, js, Len(h)) : h[j].at \in Nat
  BY EntryOf DEF Workers
<1>2. \A x \in Nat : u - x < Window => t - x < Window
  BY NumberAssumption
<1>3. ASSUME NEW k \in Addresses \union Agents
      PROVE  /\ \A f \in kept[k] : f.nr \in Live(h, FailedFor(h, k), Len(h)) /\ f.at = h[f.nr].at
             /\ \A j \in Live(h, FailedFor(h, k), Len(h)) :
                  u - h[j].at < Window => [nr |-> j, at |-> h[j].at] \in kept[k]
  <2>1. /\ \A f \in kept[k] : f.nr \in Live(h, FailedFor(h, k), Len(h)) /\ f.at = h[f.nr].at
        /\ \A j \in Live(h, FailedFor(h, k), Len(h)) :
             t - h[j].at < Window => [nr |-> j, at |-> h[j].at] \in kept[k]
    BY DEF KeepsFailures
  <2>2. \A j \in Live(h, FailedFor(h, k), Len(h)) : u - h[j].at < Window => t - h[j].at < Window
    BY <1>1, <1>2
  <2>3. QED
    BY <2>1, <2>2
<1>4. QED
  BY <1>3 DEF KeepsFailures

LEMMA FailuresOther ==
  ASSUME NEW h \in Seq(Entry("bruteForce")), NEW kept, NEW t \in Nat, KeepsFailures(h, kept, t),
         NEW e \in Entry("bruteForce"), e.msg.eventType # "auth.login_failed", ~e.raised
  PROVE  /\ KeepsFailures(Append(h, e), kept, t)
         /\ ExactFailure(Append(h, e), Len(h) + 1)
<1>. DEFINE n == Len(h) + 1
            g == Append(h, e)
<1>1. g[n] = e /\ Len(g) = n /\ \A j \in 1..Len(h) : g[j] = h[j]
  BY Appended
<1>2. ASSUME NEW k PROVE Live(g, FailedFor(g, k), n) = Live(h, FailedFor(h, k), Len(h))
  BY FailedGrows
<1>3. \A k : \A j \in Live(h, FailedFor(h, k), Len(h)) : g[j] = h[j]
  BY <1>1, EntryOf DEF Workers
<1>4. KeepsFailures(g, kept, t)
  <2>1. ASSUME NEW k \in Addresses \union Agents
        PROVE  /\ \A f \in kept[k] : f.nr \in Live(g, FailedFor(g, k), n) /\ f.at = g[f.nr].at
               /\ \A j \in Live(g, FailedFor(g, k), n) :
                    t - g[j].at < Window => [nr |-> j, at |-> g[j].at] \in kept[k]
    <3>. DEFINE old == Live(h, FailedFor(h, k), Len(h))
    <3>1. Live(g, FailedFor(g, k), n) = old /\ \A j \in old : g[j] = h[j]
      BY <1>2, <1>3
    <3>2. /\ \A f \in kept[k] : f.nr \in old /\ f.at = h[f.nr].at
          /\ \A j \in old : t - h[j].at < Window => [nr |-> j, at |-> h[j].at] \in kept[k]
      BY DEF KeepsFailures
    <3>. HIDE DEF n, g, old
    <3>3. QED
      BY <3>1, <3>2
  <2>2. QED
    BY <2>1, <1>1 DEF KeepsFailures
<1>5. ExactFailure(g, n)
  BY <1>1 DEF ExactFailure
<1>6. QED
  BY <1>4, <1>5

Recent(fs, t) == {f \in fs : t - f.at < Window}

LEMMA FailuresFailed ==
  ASSUME NEW h \in Seq(Entry("bruteForce")),
         NEW kept \in [Addresses \union Agents -> SUBSET [nr : Nat, at : Nat]],
         NEW t \in Nat, KeepsFailures(h, kept, t),
         NEW e \in Entry("bruteForce"), e.msg.eventType = "auth.login_failed", e.at = t,
         NEW k \in Addresses \union Agents, k = Key(e.msg),
         NEW recent, recent = Recent(kept[k], t) \union {[nr |-> Len(h) + 1, at |-> t]},
         e.raised <=> Cardinality(recent) >= Threshold
  PROVE  /\ KeepsFailures(Append(h, e), [kept EXCEPT ![k] = IF e.raised THEN {} ELSE recent], t)
         /\ ExactFailure(Append(h, e), Len(h) + 1)
<1>. DEFINE n == Len(h) + 1
            g == Append(h, e)
            old == Live(h, FailedFor(h, k), Len(h))
            counted == Counted(g, FailedFor(g, k), n)
<1>1. g[n] = e /\ Len(g) = n /\ n \in Nat /\ \A j \in 1..Len(h) : g[j] = h[j]
  BY Appended
<1>2. \A x : \A j \in 1..Len(h) : j \in FailedFor(g, x) <=> j \in FailedFor(h, x)
  BY LikesStay
<1>3. old \subseteq 1..Len(h) /\ (\A j \in old : g[j] = h[j] /\ h[j].at \in Nat) /\ n \notin old
  <2>1. old \subseteq 1..Len(h) /\ \A j \in 1..Len(h) : h[j].at \in Nat
    BY EntryOf DEF Workers
  <2>2. n \notin 1..Len(h)
    BY <1>1
  <2>3. QED
    BY <1>1, <2>1, <2>2
<1>4. Live(g, FailedFor(g, k), n) = IF e.raised THEN {} ELSE old \union {n}
  <2>1. Live(g, FailedFor(g, k), n) =
          IF e.msg.eventType = "auth.login_failed" /\ Key(e.msg) = k
          THEN IF e.raised THEN {} ELSE old \union {n} ELSE old
    BY ONLY FailedGrows, h \in Seq(Entry("bruteForce")), e \in Entry("bruteForce")
  <2>2. QED
    BY <2>1
<1>5. ASSUME NEW x, x # k PROVE Live(g, FailedFor(g, x), n) = Live(h, FailedFor(h, x), Len(h))
  BY <1>5, FailedGrows
<1>6. Live(g, FailedFor(g, k), n - 1) = old
  <2>1. n - 1 = Len(h) /\ Len(h) \in Nat /\ SameEntries(g, h, Len(h))
    BY Appended DEF SameEntries
  <2>2. SameMembers(FailedFor(g, k), FailedFor(h, k), Len(h))
    BY <1>2 DEF SameMembers
  <2>3. QED
    BY <2>1, <2>2, LiveStays
<1>7. counted = {j \in old : t - h[j].at < Window} \union {n}
  <2>1. t - t < Window
    BY NumberAssumption
  <2>2. counted = {j \in old \union {n} : t - g[j].at < Window}
    BY <1>1, <1>6 DEF Counted
  <2>3. QED
    BY <2>1, <2>2, <1>1, <1>3
<1>8. recent = {[nr |-> j, at |-> g[j].at] : j \in counted}
  <2>1. \A f \in kept[k] : f \in [nr : Nat, at : Nat] /\ f.nr \in old /\ f.at = h[f.nr].at
    BY DEF KeepsFailures
  <2>2. \A j \in old : t - h[j].at < Window => [nr |-> j, at |-> h[j].at] \in kept[k]
    BY DEF KeepsFailures
  <2>3. ASSUME NEW f \in Recent(kept[k], t)
        PROVE  f.nr \in counted /\ f = [nr |-> f.nr, at |-> g[f.nr].at]
    BY <2>1, <1>3, <1>7 DEF Recent
  <2>4. ASSUME NEW j \in counted, j # n
        PROVE  [nr |-> j, at |-> g[j].at] \in Recent(kept[k], t)
    BY <2>2, <2>4, <1>3, <1>7 DEF Recent
  <2>5. n \in counted /\ [nr |-> n, at |-> g[n].at] = [nr |-> Len(h) + 1, at |-> t]
    BY <1>1, <1>7
  <2>. HIDE DEF counted, g, n
  <2>6. QED
    BY <2>3, <2>4, <2>5 DEF n
<1>9. Cardinality(recent) = Cardinality(counted)
  <2>1. IsFiniteSet(1..n)
    BY <1>1, FS_Interval
  <2>2. counted \in SUBSET (1..n)
    BY <1>3, <1>7, <1>1
  <2>3. IsFiniteSet(counted)
    BY <2>1, <2>2, FS_Subset
  <2>. HIDE DEF counted, g, n
  <2>4. QED
    BY <2>3, <1>8, Numbered
<1>10. ExactFailure(g, n)
  BY <1>1, <1>9 DEF ExactFailure
<1>11. ASSUME NEW x \in Addresses \union Agents, x # k,
              NEW next, next[x] = kept[x]
       PROVE  /\ \A f \in next[x] : f.nr \in Live(g, FailedFor(g, x), n) /\ f.at = g[f.nr].at
              /\ \A j \in Live(g, FailedFor(g, x), n) :
                   t - g[j].at < Window => [nr |-> j, at |-> g[j].at] \in next[x]
  <2>1. \A j \in Live(h, FailedFor(h, x), Len(h)) : g[j] = h[j]
    BY <1>1, EntryOf DEF Workers
  <2>. HIDE DEF g, n
  <2>2. QED
    BY <2>1, <1>5, <1>11, Zenon DEF KeepsFailures
<1>12. ASSUME ~e.raised
       PROVE  /\ \A f \in recent : f.nr \in Live(g, FailedFor(g, k), n) /\ f.at = g[f.nr].at
              /\ \A j \in Live(g, FailedFor(g, k), n) :
                   t - g[j].at < Window => [nr |-> j, at |-> g[j].at] \in recent
  <2>1. Live(g, FailedFor(g, k), n) = old \union {n}
    BY <1>4, <1>12
  <2>2. \A j \in old \union {n} : t - g[j].at < Window => j \in counted
    BY <1>3, <1>7
  <2>3. counted \subseteq old \union {n}
    BY <1>7
  <2>. HIDE DEF g, n, counted, old
  <2>4. QED
    BY <2>1, <2>2, <2>3, <1>8
<1>13. KeepsFailures(g, [kept EXCEPT ![k] = IF e.raised THEN {} ELSE recent], t)
  <2>. DEFINE next == [kept EXCEPT ![k] = IF e.raised THEN {} ELSE recent]
  <2>1. /\ \A x \in Addresses \union Agents : x # k => next[x] = kept[x]
        /\ next[k] = IF e.raised THEN {} ELSE recent
    OBVIOUS
  <2>. HIDE DEF next, g, n
  <2>2. CASE e.raised
    BY <2>1, <2>2, <1>4, <1>11, <1>1 DEF KeepsFailures
  <2>3. CASE ~e.raised
    BY <2>1, <2>3, <1>12, <1>11, <1>1 DEF KeepsFailures
  <2>4. QED
    BY <2>2, <2>3 DEF next
<1>14. QED
  BY <1>10, <1>13

----
(* anomaly.worker.ts: the metrics above their limit are those whose last entry
   that counts is high. *)
LEMMA HighAfter ==
  ASSUME NEW h \in Seq(Entry("anomaly")), NEW e \in Entry("anomaly"), NEW js \in SUBSET (1..Len(h)),
         NEW type
  PROVE  LastIsHigh(Append(h, e), js \union {Len(h) + 1}, type) <=>
           IF e.msg.metricType = type THEN e.msg.high ELSE LastIsHigh(h, js, type)
<1>. DEFINE n == Len(h) + 1
            g == Append(h, e)
<1>1. /\ g[n] = e /\ n \in Nat /\ \A j \in js : g[j] = h[j]
      /\ \A j \in js : j \in Nat /\ j < n
  BY Appended
<1>2. e.msg.high \in BOOLEAN
  BY DEF Entry, Message, MetricMessage
<1>. HIDE DEF n, g
<1>3. CASE e.msg.metricType = type /\ e.msg.high
  <2>1. \A k \in js \union {n} : k <= n
    BY <1>1
  <2>2. QED
    BY <2>1, <1>1, <1>3 DEF LastIsHigh, n, g
<1>4. CASE e.msg.metricType = type /\ ~e.msg.high
  <2>1. ASSUME NEW j \in js \union {n}, g[j].msg.high, n <= j PROVE FALSE
    BY <1>1, <1>4, <2>1
  <2>2. ~LastIsHigh(g, js \union {n}, type)
    BY <2>1, <1>1, <1>4 DEF LastIsHigh
  <2>3. QED
    BY <2>2, <1>4 DEF n, g
<1>5. CASE e.msg.metricType # type
  <2>1. LastIsHigh(g, js \union {n}, type) <=> LastIsHigh(h, js, type)
    BY <1>1, <1>5 DEF LastIsHigh
  <2>2. QED
    BY <2>1, <1>5 DEF n, g
<1>6. QED
  BY <1>2, <1>3, <1>4, <1>5

LEMMA StateAfter ==
  ASSUME NEW h \in Seq(Entry("anomaly")), NEW kept \in [Agents -> SUBSET {"cpu", "memory"}],
         KeepsState(h, kept), NEW e \in Entry("anomaly"), NEW a \in Agents, a = e.msg.agentId,
         NEW after,
         after = IF e.msg.metricType \notin {"cpu", "memory"} THEN kept[a]
                 ELSE IF e.msg.high THEN kept[a] \union {e.msg.metricType}
                 ELSE kept[a] \ {e.msg.metricType},
         e.raised <=> after = {"cpu", "memory"}
  PROVE  /\ KeepsState(Append(h, e), [kept EXCEPT ![a] = IF e.raised THEN {} ELSE after])
         /\ ExactAnomaly(Append(h, e), Len(h) + 1)
<1>. DEFINE n == Len(h) + 1
            g == Append(h, e)
            old == Live(h, OfAgent(h, a), Len(h))
<1>1. g[n] = e /\ Len(g) = n /\ n - 1 = Len(h) /\ Len(h) \in Nat
  BY Appended
<1>2. \A x : Live(h, OfAgent(h, x), Len(h)) \in SUBSET (1..Len(h))
  BY DEF Live
<1>3. \A type \in {"cpu", "memory"} : type \in after <=> LastIsHigh(g, old \union {n}, type)
  <2>. TAKE type \in {"cpu", "memory"}
  <2>1. LastIsHigh(g, old \union {n}, type) <=>
          IF e.msg.metricType = type THEN e.msg.high ELSE LastIsHigh(h, old, type)
    BY <1>2, HighAfter
  <2>2. type \in kept[a] <=> LastIsHigh(h, old, type)
    BY DEF KeepsState
  <2>. HIDE DEF n, g, old
  <2>3. QED
    BY <2>1, <2>2
<1>4. Live(g, OfAgent(g, a), n - 1) = old
  <2>1. SameMembers(OfAgent(g, a), OfAgent(h, a), Len(h)) /\ SameEntries(g, h, Len(h))
    BY LikesStay, Appended DEF SameMembers, SameEntries
  <2>2. QED
    BY <1>1, <2>1, LiveStays
<1>5. after \in SUBSET {"cpu", "memory"}
  OBVIOUS
<1>6. ExactAnomaly(g, n)
  <2>1. e.raised <=> LastIsHigh(g, old \union {n}, "cpu") /\ LastIsHigh(g, old \union {n}, "memory")
    <3>. HIDE DEF n, g, old
    <3>1. QED
      BY <1>3, <1>5
  <2>. HIDE DEF n, g, old
  <2>2. QED
    BY <2>1, <1>1, <1>4, Zenon DEF ExactAnomaly
<1>7. Live(g, OfAgent(g, a), n) = IF e.raised THEN {} ELSE old \union {n}
  BY ONLY ZenonT(40), AgentGrows, h \in Seq(Entry("anomaly")), e \in Entry("anomaly"), a = e.msg.agentId
<1>8. KeepsState(g, [kept EXCEPT ![a] = IF e.raised THEN {} ELSE after])
  <2>. DEFINE next == [kept EXCEPT ![a] = IF e.raised THEN {} ELSE after]
  <2>1. /\ \A x \in Agents : x # a => next[x] = kept[x]
        /\ next[a] = IF e.raised THEN {} ELSE after
    OBVIOUS
  <2>. HIDE DEF next
  <2>2. ASSUME NEW x \in Agents, NEW type \in {"cpu", "memory"}
        PROVE  type \in next[x] <=> LastIsHigh(g, Live(g, OfAgent(g, x), n), type)
    <3>1. CASE x # a
      <4>. DEFINE js == Live(h, OfAgent(h, x), Len(h))
      <4>1. Live(g, OfAgent(g, x), n) = js
        BY <3>1, AgentGrows
      <4>2. \A j \in js : g[j] = h[j]
        BY <1>2, Appended
      <4>3. type \in kept[x] <=> LastIsHigh(h, js, type)
        BY DEF KeepsState
      <4>. HIDE DEF js, g, n
      <4>4. LastIsHigh(g, js, type) <=> LastIsHigh(h, js, type)
        BY <4>2, Zenon DEF LastIsHigh
      <4>5. QED
        BY <4>1, <4>3, <4>4, <2>1, <3>1
    <3>2. CASE x = a /\ e.raised
      <4>1. Live(g, OfAgent(g, x), n) = {} /\ next[x] = {}
        BY <3>2, <1>7, <2>1
      <4>2. QED
        BY <4>1 DEF LastIsHigh
    <3>3. CASE x = a /\ ~e.raised
      <4>1. Live(g, OfAgent(g, x), n) = old \union {n} /\ next[x] = after
        BY <3>3, <1>7, <2>1
      <4>. HIDE DEF g, n, old
      <4>2. QED
        BY <4>1, <1>3
    <3>4. QED
      BY <3>1, <3>2, <3>3
  <2>. HIDE DEF g, n
  <2>3. KeepsState(g, next)
    BY <2>2, <1>1 DEF KeepsState
  <2>4. QED
    BY <2>3 DEF next
<1>9. QED
  BY <1>6, <1>8

----
(* cross-server.worker.ts *)
At(h, j) == [agentId |-> h[j].msg.agentId, occurredAt |-> h[j].at]

(* The window of one type holds the entries in js, as far as it still reaches. *)
Holds(h, js, es, t) ==
  /\ IsFiniteSet(es)
  /\ \A e \in es : \E j \in js : e = At(h, j)
  /\ \A j \in js : t - h[j].at < Window => At(h, j) \in es

LEMMA KeepsIsHolds ==
  ASSUME NEW h, NEW kept, NEW t
  PROVE  KeepsWindow(h, kept, t) <=>
           \A type \in Windowed : Holds(h, Live(h, OfType(h, type), Len(h)), kept[type], t)
  BY DEF KeepsWindow, Holds, At

LEMMA HoldsLonger ==
  ASSUME NEW h, NEW js, \A j \in js : h[j].at \in Nat, NEW es, NEW t \in Nat, NEW u, u = t + 1,
         Holds(h, js, es, t)
  PROVE  Holds(h, js, es, u)
<1>1. \A x \in Nat : u - x < Window => t - x < Window
  BY NumberAssumption
<1>2. \A j \in js : u - h[j].at < Window => t - h[j].at < Window
  BY <1>1
<1>3. QED
  BY <1>2 DEF Holds

LEMMA HoldsStays ==
  ASSUME NEW g, NEW h, NEW js, \A j \in js : g[j] = h[j], NEW es, NEW t
  PROVE  Holds(g, js, es, t) <=> Holds(h, js, es, t)
<1>1. \A j \in js : At(g, j) = At(h, j) /\ g[j].at = h[j].at
  BY DEF At
<1>2. QED
  BY <1>1 DEF Holds

LEMMA WindowTick ==
  ASSUME NEW h \in Seq(Entry("crossServer")), NEW kept, NEW t \in Nat, KeepsWindow(h, kept, t),
         NEW u, u = t + 1
  PROVE  KeepsWindow(h, kept, u)
<1>1. \A js : \A j \in Live(h, js, Len(h)) : h[j].at \in Nat
  BY EntryOf DEF Workers
<1>2. ASSUME NEW type \in Windowed
      PROVE  Holds(h, Live(h, OfType(h, type), Len(h)), kept[type], u)
  BY <1>1, KeepsIsHolds, HoldsLonger
<1>3. QED
  BY <1>2, KeepsIsHolds

(* An entry of another type, or of none that has a window. *)
LEMMA OtherType ==
  ASSUME NEW h \in Seq(Entry("crossServer")), NEW es, NEW t, NEW type,
         NEW e \in Entry("crossServer"), e.msg.eventType # type,
         Holds(h, Live(h, OfType(h, type), Len(h)), es, t)
  PROVE  Holds(Append(h, e), Live(Append(h, e), OfType(Append(h, e), type), Len(h) + 1), es, t)
<1>. DEFINE g == Append(h, e)
            js == Live(h, OfType(h, type), Len(h))
<1>1. Live(g, OfType(g, type), Len(h) + 1) = js
  BY TypeGrows
<1>2. \A j \in js : g[j] = h[j]
  BY EntryOf, Appended DEF Workers
<1>. HIDE DEF js, g
<1>3. Holds(g, js, es, t)
  BY <1>2, HoldsStays DEF js
<1>4. QED
  BY <1>1, <1>3 DEF g

LEMMA WindowEscalation ==
  ASSUME NEW h \in Seq(Entry("crossServer")), NEW kept, NEW t, KeepsWindow(h, kept, t),
         NEW e \in Entry("crossServer"), e.msg.eventType = "auth.privilege_escalation", e.raised
  PROVE  /\ KeepsWindow(Append(h, e), kept, t)
         /\ ExactSpread(Append(h, e), Len(h) + 1)
<1>1. Append(h, e)[Len(h) + 1] = e /\ Len(Append(h, e)) = Len(h) + 1
  BY Appended
<1>2. ASSUME NEW type \in Windowed
      PROVE  Holds(Append(h, e), Live(Append(h, e), OfType(Append(h, e), type), Len(h) + 1), kept[type], t)
  <2>1. e.msg.eventType # type
    BY DEF Windowed
  <2>2. QED
    BY <2>1, KeepsIsHolds, OtherType
<1>3. ExactSpread(Append(h, e), Len(h) + 1)
  BY <1>1 DEF ExactSpread
<1>4. QED
  BY <1>1, <1>2, <1>3, KeepsIsHolds

(* Two agents are among the affected ones if one is another than a's. *)
LEMMA SpreadMeansAnother ==
  ASSUME NEW es, IsFiniteSet(es), NEW e \in es
  PROVE  IsFiniteSet(AffectedAgents(es))
         /\ (Cardinality(AffectedAgents(es)) >= 2 <=> \E x \in es : x.agentId # e.agentId)
<1>. DEFINE A == AffectedAgents(es)
            F == [x \in es |-> x.agentId]
<1>1. F \in Surjection(es, A)
  BY DEF Surjection, AffectedAgents
<1>2. IsFiniteSet(A)
  BY <1>1, FS_Surjection
<1>3. e.agentId \in A
  BY DEF AffectedAgents
<1>4. CASE \A x \in es : x.agentId = e.agentId
  <2>1. A = {e.agentId}
    BY <1>4 DEF AffectedAgents
  <2>2. Cardinality(A) = 1
    BY <2>1, FS_Singleton
  <2>3. QED
    BY <1>2, <1>4, <2>2
<1>5. ASSUME NEW x \in es, x.agentId # e.agentId
      PROVE  Cardinality(A) >= 2
  <2>1. {e.agentId} \union {x.agentId} \in SUBSET A
    BY DEF AffectedAgents
  <2>2. IsFiniteSet({e.agentId}) /\ Cardinality({e.agentId}) = 1
    BY FS_Singleton
  <2>3. Cardinality({e.agentId} \union {x.agentId}) = 2
    <3>. DEFINE own == {e.agentId}
    <3>1. x.agentId \notin own
      BY <1>5
    <3>. HIDE DEF own
    <3>2. Cardinality(own \union {x.agentId}) = Cardinality(own) + 1
      BY <2>2, <3>1, FS_AddElement DEF own
    <3>3. QED
      BY <2>2, <3>2 DEF own
  <2>4. Cardinality({e.agentId} \union {x.agentId}) <= Cardinality(A)
    BY <2>1, <1>2, FS_Subset
  <2>5. Cardinality(A) \in Nat
    BY <1>2, FS_CardinalityType
  <2>6. QED
    BY <2>3, <2>4, <2>5
<1>6. QED
  BY <1>2, <1>4, <1>5

LEMMA WindowEvent ==
  ASSUME NEW h \in Seq(Entry("crossServer")),
         NEW kept \in [Windowed -> SUBSET [agentId : Agents, occurredAt : Nat]],
         NEW t \in Nat, KeepsWindow(h, kept, t),
         NEW e \in Entry("crossServer"), NEW type \in Windowed, e.msg.eventType = type, e.at = t,
         NEW recent,
         recent = {x \in kept[type] : t - x.occurredAt < Window}
                    \union {[agentId |-> e.msg.agentId, occurredAt |-> t]},
         e.raised <=> IsSpread(recent)
  PROVE  /\ KeepsWindow(Append(h, e), [kept EXCEPT ![type] = IF e.raised THEN {} ELSE recent], t)
         /\ ExactSpread(Append(h, e), Len(h) + 1)
<1>. DEFINE n == Len(h) + 1
            g == Append(h, e)
            old == Live(h, OfType(h, type), Len(h))
            own == [agentId |-> e.msg.agentId, occurredAt |-> t]
            counted == Counted(g, OfType(g, type), n)
<1>1. g[n] = e /\ Len(g) = n /\ n \in Nat /\ n - 1 = Len(h) /\ Len(h) \in Nat
  BY Appended
<1>2. old \subseteq 1..Len(h) /\ (\A j \in old : g[j] = h[j] /\ h[j].at \in Nat) /\ n \notin old
  <2>1. old \subseteq 1..Len(h) /\ \A j \in 1..Len(h) : h[j].at \in Nat
    BY EntryOf DEF Workers
  <2>2. n \notin 1..Len(h) /\ \A j \in 1..Len(h) : g[j] = h[j]
    BY Appended
  <2>3. QED
    BY <2>1, <2>2
<1>3. Live(g, OfType(g, type), n) = IF e.raised THEN {} ELSE old \union {n}
  BY ONLY ZenonT(40), TypeGrows, h \in Seq(Entry("crossServer")), e \in Entry("crossServer"), e.msg.eventType = type
<1>4. Live(g, OfType(g, type), n - 1) = old
  <2>1. SameMembers(OfType(g, type), OfType(h, type), Len(h)) /\ SameEntries(g, h, Len(h))
    BY LikesStay, Appended DEF SameMembers, SameEntries
  <2>2. QED
    BY <1>1, <2>1, LiveStays
<1>5. counted = {j \in old : t - h[j].at < Window} \union {n}
  <2>1. t - t < Window
    BY NumberAssumption
  <2>2. counted = {j \in old \union {n} : t - g[j].at < Window}
    BY <1>1, <1>4 DEF Counted
  <2>3. QED
    BY <2>1, <2>2, <1>1, <1>2
<1>6. Holds(h, old, kept[type], t)
  BY KeepsIsHolds
<1>7. /\ \A x \in kept[type] : x \in [agentId : Agents, occurredAt : Nat]
      /\ recent \subseteq kept[type] \union {own} /\ own \in recent
  OBVIOUS
<1>8. IsFiniteSet(recent)
  <2>1. IsFiniteSet(kept[type] \union {own})
    BY <1>6, FS_AddElement DEF Holds
  <2>2. QED
    BY <2>1, <1>7, FS_Subset
<1>9. recent = {At(g, j) : j \in counted}
  <2>1. \A j \in old : At(g, j) = At(h, j) /\ At(h, j).occurredAt = h[j].at
    BY <1>2 DEF At
  <2>2. At(g, n) = own /\ n \in counted
    BY <1>1, <1>5 DEF At
  <2>3. ASSUME NEW x \in kept[type], t - x.occurredAt < Window
        PROVE  \E j \in counted : x = At(g, j)
    <3>1. PICK j \in old : x = At(h, j)
      BY <1>6 DEF Holds
    <3>2. x.occurredAt = h[j].at
      BY <3>1, <2>1
    <3>3. j \in counted
      BY <1>5, <2>3, <3>2
    <3>4. QED
      BY <3>1, <3>3, <2>1
  <2>4. ASSUME NEW j \in counted, j # n
        PROVE  At(g, j) \in kept[type] /\ t - At(g, j).occurredAt < Window
    <3>1. j \in old /\ t - h[j].at < Window
      BY <1>5, <2>4
    <3>2. QED
      BY <3>1, <1>6, <2>1 DEF Holds
  <2>. HIDE DEF counted, own, g, n, old
  <2>5. \A x \in recent : \E j \in counted : x = At(g, j)
    BY <2>2, <2>3 DEF own
  <2>6. \A j \in counted : At(g, j) \in recent
    BY <2>2, <2>4 DEF own
  <2>7. QED
    BY <2>5, <2>6
<1>10. e.msg.eventType # "auth.privilege_escalation"
  BY DEF Windowed
<1>11. ExactSpread(g, n)
  <2>1. IsSpread(recent) <=> \E x \in recent : x.agentId # e.msg.agentId
    <3>1. own.agentId = e.msg.agentId
      OBVIOUS
    <3>. HIDE DEF own
    <3>2. QED
      BY <3>1, <1>7, <1>8, SpreadMeansAnother DEF IsSpread
  <2>2. \A j : At(g, j).agentId = g[j].msg.agentId
    BY DEF At
  <2>. HIDE DEF counted
  <2>3. (\E x \in recent : x.agentId # e.msg.agentId)
          <=> \E j \in counted : g[j].msg.agentId # e.msg.agentId
    BY <1>9, <2>2
  <2>. HIDE DEF g, n
  <2>4. QED
    BY <1>1, <1>10, <2>1, <2>3 DEF ExactSpread, counted
<1>12. ~e.raised => Holds(g, old \union {n}, recent, t)
  <2>1. \A j \in old \union {n} : t - g[j].at < Window => j \in counted
    BY <1>2, <1>5
  <2>2. counted \subseteq old \union {n}
    BY <1>5
  <2>. HIDE DEF counted, g, n, old
  <2>3. QED
    BY <2>1, <2>2, <1>8, <1>9 DEF Holds
<1>13. KeepsWindow(g, [kept EXCEPT ![type] = IF e.raised THEN {} ELSE recent], t)
  <2>. DEFINE next == [kept EXCEPT ![type] = IF e.raised THEN {} ELSE recent]
  <2>1. /\ \A x \in Windowed : x # type => next[x] = kept[x]
        /\ next[type] = IF e.raised THEN {} ELSE recent
    OBVIOUS
  <2>. HIDE DEF next
  <2>2. ASSUME NEW x \in Windowed
        PROVE  Holds(g, Live(g, OfType(g, x), n), next[x], t)
    <3>1. CASE x # type
      <4>1. Holds(h, Live(h, OfType(h, x), Len(h)), kept[x], t)
        BY KeepsIsHolds
      <4>2. QED
        BY <3>1, <4>1, <2>1, OtherType
    <3>2. CASE x = type /\ e.raised
      <4>1. Live(g, OfType(g, x), n) = {} /\ next[x] = {}
        BY <3>2, <1>3, <2>1
      <4>2. QED
        BY <4>1, FS_EmptySet DEF Holds
    <3>3. CASE x = type /\ ~e.raised
      <4>1. Live(g, OfType(g, x), n) = old \union {n} /\ next[x] = recent
        BY <3>3, <1>3, <2>1
      <4>2. QED
        BY <4>1, <1>12, <3>3
    <3>4. QED
      BY <3>1, <3>2, <3>3
  <2>. HIDE DEF g, n
  <2>3. KeepsWindow(g, next, t)
    BY <2>2, <1>1, KeepsIsHolds
  <2>4. QED
    BY <2>3 DEF next
<1>14. QED
  BY <1>11, <1>13

----
LEMMA TookEntry ==
  ASSUME EngineTyped, NEW w \in Workers, ports[w] # <<>>, NEW r \in BOOLEAN, Took(w, r),
         NEW e, e = [msg |-> Head(ports[w]), at |-> now, raised |-> r]
  PROVE  /\ Head(ports[w]) \in Message(w) /\ e \in Entry(w)
         /\ taken'[w] = Append(taken[w], e) /\ taken'[w] \in Seq(Entry(w)) /\ taken[w] \in Seq(Entry(w))
         /\ DOMAIN taken' = Workers /\ \A v \in Workers \ {w} : taken'[v] = taken[v]
         /\ DOMAIN ports' = Workers /\ \A v \in Workers : ports'[v] \in Seq(Message(v))
         /\ now' = now
<1>1. /\ DOMAIN ports = Workers /\ ports[w] \in Seq(Message(w))
      /\ DOMAIN taken = Workers /\ taken[w] \in Seq(Entry(w)) /\ now \in Nat
  BY DEF EngineTyped
<1>2. Head(ports[w]) \in Message(w) /\ Tail(ports[w]) \in Seq(Message(w))
  BY <1>1
<1>3. e \in Entry(w)
  BY <1>1, <1>2 DEF Entry
<1>4. /\ taken'[w] = Append(taken[w], e) /\ DOMAIN taken' = Workers
      /\ \A v \in Workers \ {w} : taken'[v] = taken[v]
  BY <1>1 DEF Took
<1>5. /\ ports'[w] = Tail(ports[w]) /\ DOMAIN ports' = Workers
      /\ \A v \in Workers \ {w} : ports'[v] = ports[v]
  BY <1>1 DEF Took
<1>6. \A v \in Workers : ports'[v] \in Seq(Message(v))
  BY <1>2, <1>5 DEF EngineTyped
<1>7. taken'[w] \in Seq(Entry(w))
  BY <1>1, <1>3, <1>4
<1>8. now' = now
  BY DEF Took
<1>9. QED
  BY <1>1, <1>2, <1>3, <1>4, <1>5, <1>6, <1>7, <1>8

LEMMA KeyType == \A m \in EventMessage : Key(m) \in Addresses \union Agents
  BY LinesAssumption DEF EventMessage, Key

LEMMA BruteForceStep ==
  ASSUME EngineInv, BruteForce
  PROVE  EngineInv'
<1>. DEFINE w == "bruteForce"
            h == taken[w]
            m == Head(ports[w])
            k == Key(m)
            recent == RecentFailures(k) \union {[nr |-> Len(h) + 1, at |-> now]}
            failed == m.eventType = "auth.login_failed"
            r == failed /\ Cardinality(recent) >= Threshold
            e == [msg |-> m, at |-> now, raised |-> r]
            next == IF failed THEN [failures EXCEPT ![k] = IF r THEN {} ELSE recent] ELSE failures
<1>1. /\ ports[w] # <<>> /\ Took(w, r) /\ failures' = next
      /\ UNCHANGED <<state, eventWindow>>
  <2>. DEFINE raise == Cardinality(recent) >= Threshold
  <2>1. /\ ports[w] # <<>> /\ UNCHANGED <<state, eventWindow>>
        /\ IF ~failed THEN Took(w, FALSE) /\ UNCHANGED failures
           ELSE Took(w, raise) /\ failures' = [failures EXCEPT ![k] = IF raise THEN {} ELSE recent]
    BY DEF BruteForce
  <2>2. raise \in BOOLEAN /\ (r <=> failed /\ raise)
    OBVIOUS
  <2>3. CASE failed
    <3>1. r = raise
      BY <2>3
    <3>. HIDE DEF r, raise, recent
    <3>2. QED
      BY <2>1, <2>3, <3>1
  <2>4. CASE ~failed
    <3>1. r = FALSE
      BY <2>4
    <3>. HIDE DEF r, raise, recent
    <3>2. QED
      BY <2>1, <2>4, <3>1
  <2>5. QED
    BY <2>3, <2>4
<1>2. /\ EngineTyped /\ KeepsFailures(h, failures, now) /\ Exact
      /\ KeepsState(taken["anomaly"], state)
      /\ KeepsWindow(taken["crossServer"], eventWindow, now)
  BY DEF EngineInv
<1>3. w \in Workers /\ {"anomaly", "crossServer"} \subseteq Workers \ {w} /\ r \in BOOLEAN
  BY DEF Workers
<1>4. /\ m \in Message(w) /\ e \in Entry(w)
      /\ taken'[w] = Append(h, e) /\ taken'[w] \in Seq(Entry(w)) /\ h \in Seq(Entry(w))
      /\ DOMAIN taken' = Workers /\ \A v \in Workers \ {w} : taken'[v] = taken[v]
      /\ DOMAIN ports' = Workers /\ \A v \in Workers : ports'[v] \in Seq(Message(v))
      /\ now' = now
  BY <1>1, <1>2, <1>3, TookEntry
<1>5. m \in EventMessage /\ k \in Addresses \union Agents /\ now \in Nat
  BY <1>2, <1>4, KeyType DEF Message, EngineTyped
<1>6. failures \in [Addresses \union Agents -> SUBSET [nr : Nat, at : Nat]]
  BY <1>2 DEF EngineTyped
<1>7. recent \in SUBSET [nr : Nat, at : Nat]
  BY <1>4, <1>5, <1>6 DEF RecentFailures
<1>8. next \in [Addresses \union Agents -> SUBSET [nr : Nat, at : Nat]]
  <2>. HIDE DEF recent, r, failed, k
  <2>. QED
    BY <1>5, <1>6, <1>7
<1>9. KeepsFailures(Append(h, e), next, now) /\ ExactFailure(Append(h, e), Len(h) + 1)
  <2>1. e.msg = m /\ e.at = now /\ e.raised = r
    OBVIOUS
  <2>2. CASE failed
    <3>1. recent = Recent(failures[k], now) \union {[nr |-> Len(h) + 1, at |-> now]}
      BY DEF Recent, RecentFailures
    <3>2. e.raised <=> Cardinality(recent) >= Threshold
      BY <2>1, <2>2
    <3>3. next = [failures EXCEPT ![k] = IF e.raised THEN {} ELSE recent]
      BY <2>1, <2>2
    <3>. HIDE DEF recent, r, e, next, h
    <3>4. QED
      BY <1>2, <1>4, <1>5, <1>6, <2>1, <2>2, <3>1, <3>2, <3>3, FailuresFailed
  <2>3. CASE ~failed
    <3>1. next = failures /\ ~e.raised
      BY <2>1, <2>3
    <3>. HIDE DEF recent, r, e, next, h
    <3>2. QED
      BY <1>2, <1>4, <1>5, <2>1, <2>3, <3>1, FailuresOther
  <2>4. QED
    BY <2>2, <2>3
<1>. HIDE DEF recent, r, next, e, h
<1>10. \A v \in Workers : taken'[v] \in Seq(Entry(v))
  BY <1>2, <1>4 DEF EngineTyped
<1>11. EngineTyped'
  BY <1>1, <1>2, <1>4, <1>5, <1>8, <1>10 DEF EngineTyped
<1>12. Exact'
  <2>1. ASSUME NEW i \in 1..Len(taken'[w]) PROVE ExactFailure(taken'[w], i)
    <3>1. i \in 1..Len(h) \/ i = Len(h) + 1
      BY <1>4, Appended
    <3>2. ASSUME i \in 1..Len(h) PROVE ExactFailure(Append(h, e), i)
      <4>1. ExactFailure(h, i)
        BY <3>2, <1>2 DEF Exact, h
      <4>2. QED
        BY <4>1, <3>2, <1>4, ExactStays
    <3>3. QED
      BY <3>1, <3>2, <1>4, <1>9
  <2>2. taken'["anomaly"] = taken["anomaly"] /\ taken'["crossServer"] = taken["crossServer"]
    BY <1>3, <1>4
  <2>3. QED
    BY <2>1, <2>2, <1>2 DEF Exact
<1>13. QED
  BY <1>1, <1>2, <1>3, <1>4, <1>9, <1>11, <1>12 DEF EngineInv

LEMMA AnomalyStep ==
  ASSUME EngineInv, Anomaly
  PROVE  EngineInv'
<1>. DEFINE w == "anomaly"
            h == taken[w]
            m == Head(ports[w])
            a == m.agentId
            after == AfterMetric(m)
            r == after = {"cpu", "memory"}
            e == [msg |-> m, at |-> now, raised |-> r]
            next == [state EXCEPT ![a] = IF r THEN {} ELSE after]
<1>1. /\ ports[w] # <<>> /\ Took(w, r) /\ state' = next
      /\ UNCHANGED <<failures, eventWindow>>
  BY DEF Anomaly
<1>2. /\ EngineTyped /\ KeepsState(h, state) /\ Exact
      /\ KeepsFailures(taken["bruteForce"], failures, now)
      /\ KeepsWindow(taken["crossServer"], eventWindow, now)
  BY DEF EngineInv
<1>3. w \in Workers /\ {"bruteForce", "crossServer"} \subseteq Workers \ {w} /\ r \in BOOLEAN
  BY DEF Workers
<1>4. /\ m \in Message(w) /\ e \in Entry(w)
      /\ taken'[w] = Append(h, e) /\ taken'[w] \in Seq(Entry(w)) /\ h \in Seq(Entry(w))
      /\ DOMAIN taken' = Workers /\ \A v \in Workers \ {w} : taken'[v] = taken[v]
      /\ DOMAIN ports' = Workers /\ \A v \in Workers : ports'[v] \in Seq(Message(v))
      /\ now' = now
  BY <1>1, <1>2, <1>3, TookEntry
<1>5. m \in MetricMessage /\ a \in Agents
  BY <1>4 DEF Message, MetricMessage
<1>6. state \in [Agents -> SUBSET {"cpu", "memory"}]
  BY <1>2 DEF EngineTyped
<1>7. after = IF m.metricType \notin {"cpu", "memory"} THEN state[a]
              ELSE IF m.high THEN state[a] \union {m.metricType}
              ELSE state[a] \ {m.metricType}
  BY DEF AfterMetric
<1>8. after \in SUBSET {"cpu", "memory"}
  BY <1>5, <1>6, <1>7
<1>9. next \in [Agents -> SUBSET {"cpu", "memory"}]
  <2>. HIDE DEF after, r, a
  <2>. QED
    BY <1>5, <1>6, <1>8
<1>10. KeepsState(Append(h, e), next) /\ ExactAnomaly(Append(h, e), Len(h) + 1)
  <2>1. e.msg = m /\ e.raised = r
    OBVIOUS
  <2>2. next = [state EXCEPT ![a] = IF e.raised THEN {} ELSE after]
    BY <2>1
  <2>3. e.raised <=> after = {"cpu", "memory"}
    BY <2>1
  <2>4. a = e.msg.agentId
    BY <2>1
  <2>5. after = IF e.msg.metricType \notin {"cpu", "memory"} THEN state[a]
                ELSE IF e.msg.high THEN state[a] \union {e.msg.metricType}
                ELSE state[a] \ {e.msg.metricType}
    BY <1>7, <2>1
  <2>6. /\ h \in Seq(Entry("anomaly")) /\ e \in Entry("anomaly") /\ a \in Agents
        /\ state \in [Agents -> SUBSET {"cpu", "memory"}] /\ KeepsState(h, state)
    BY <1>2, <1>4, <1>5, <1>6
  <2>. HIDE DEF r, e, next, h, after, a, m, w
  <2>7. /\ KeepsState(Append(h, e), [state EXCEPT ![a] = IF e.raised THEN {} ELSE after])
        /\ ExactAnomaly(Append(h, e), Len(h) + 1)
    BY ONLY <2>3, <2>4, <2>5, <2>6, StateAfter
  <2>8. QED
    BY ONLY <2>2, <2>7
<1>. HIDE DEF r, next, e, h, after
<1>11. \A v \in Workers : taken'[v] \in Seq(Entry(v))
  BY <1>2, <1>4 DEF EngineTyped
<1>12. EngineTyped'
  BY <1>1, <1>2, <1>4, <1>9, <1>11 DEF EngineTyped
<1>13. Exact'
  <2>1. ASSUME NEW i \in 1..Len(taken'[w]) PROVE ExactAnomaly(taken'[w], i)
    <3>1. i \in 1..Len(h) \/ i = Len(h) + 1
      BY <1>4, Appended
    <3>2. ASSUME i \in 1..Len(h) PROVE ExactAnomaly(Append(h, e), i)
      <4>1. ExactAnomaly(h, i)
        BY <3>2, <1>2 DEF Exact, h
      <4>2. QED
        BY <4>1, <3>2, <1>4, ExactStays
    <3>3. QED
      BY <3>1, <3>2, <1>4, <1>10
  <2>2. taken'["bruteForce"] = taken["bruteForce"] /\ taken'["crossServer"] = taken["crossServer"]
    BY <1>3, <1>4
  <2>3. QED
    BY <2>1, <2>2, <1>2 DEF Exact
<1>14. QED
  BY <1>1, <1>2, <1>3, <1>4, <1>10, <1>12, <1>13 DEF EngineInv

LEMMA CrossServerStep ==
  ASSUME EngineInv, CrossServer
  PROVE  EngineInv'
<1>. DEFINE w == "crossServer"
            h == taken[w]
            m == Head(ports[w])
            type == m.eventType
            recent == RecentEvents(type) \union {[agentId |-> m.agentId, occurredAt |-> now]}
            escalation == type = "auth.privilege_escalation"
            r == escalation \/ IsSpread(recent)
            e == [msg |-> m, at |-> now, raised |-> r]
            next == IF escalation THEN eventWindow
                    ELSE [eventWindow EXCEPT ![type] = IF r THEN {} ELSE recent]
<1>1. /\ ports[w] # <<>> /\ Took(w, r) /\ eventWindow' = next
      /\ UNCHANGED <<failures, state>>
  <2>. DEFINE raise == IsSpread(recent)
  <2>1. /\ ports[w] # <<>> /\ UNCHANGED <<failures, state>>
        /\ IF escalation THEN Took(w, TRUE) /\ UNCHANGED eventWindow
           ELSE Took(w, raise) /\ eventWindow' = [eventWindow EXCEPT ![type] = IF raise THEN {} ELSE recent]
    BY DEF CrossServer
  <2>2. raise \in BOOLEAN /\ (r <=> escalation \/ raise)
    BY DEF IsSpread
  <2>3. CASE escalation
    <3>1. r = TRUE
      BY <2>3
    <3>. HIDE DEF r, raise, recent
    <3>2. QED
      BY <2>1, <2>3, <3>1
  <2>4. CASE ~escalation
    <3>1. r = raise
      BY <2>2, <2>4
    <3>. HIDE DEF r, raise, recent
    <3>2. QED
      BY <2>1, <2>4, <3>1
  <2>5. QED
    BY <2>3, <2>4
<1>2. /\ EngineTyped /\ KeepsWindow(h, eventWindow, now) /\ Exact
      /\ KeepsFailures(taken["bruteForce"], failures, now)
      /\ KeepsState(taken["anomaly"], state)
  BY DEF EngineInv
<1>3. w \in Workers /\ {"bruteForce", "anomaly"} \subseteq Workers \ {w} /\ r \in BOOLEAN
  BY DEF Workers, IsSpread
<1>4. /\ m \in Message(w) /\ e \in Entry(w)
      /\ taken'[w] = Append(h, e) /\ taken'[w] \in Seq(Entry(w)) /\ h \in Seq(Entry(w))
      /\ DOMAIN taken' = Workers /\ \A v \in Workers \ {w} : taken'[v] = taken[v]
      /\ DOMAIN ports' = Workers /\ \A v \in Workers : ports'[v] \in Seq(Message(v))
      /\ now' = now
  BY <1>1, <1>2, <1>3, TookEntry
<1>5. m \in EventMessage /\ m.agentId \in Agents /\ (escalation \/ type \in Windowed) /\ now \in Nat
  BY <1>2, <1>4 DEF Message, EngineTyped, EventMessage
<1>6. eventWindow \in [Windowed -> SUBSET [agentId : Agents, occurredAt : Nat]]
  BY <1>2 DEF EngineTyped
<1>7. type \in Windowed => recent \in SUBSET [agentId : Agents, occurredAt : Nat]
  BY <1>5, <1>6 DEF RecentEvents
<1>8. next \in [Windowed -> SUBSET [agentId : Agents, occurredAt : Nat]]
  <2>. HIDE DEF recent, r, type
  <2>. QED
    BY <1>5, <1>6, <1>7
<1>9. KeepsWindow(Append(h, e), next, now) /\ ExactSpread(Append(h, e), Len(h) + 1)
  <2>1. e.msg = m /\ e.at = now /\ e.raised = r
    OBVIOUS
  <2>2. CASE escalation
    <3>1. next = eventWindow /\ e.raised
      BY <2>1, <2>2
    <3>. HIDE DEF recent, r, e, next, h
    <3>2. QED
      BY <1>2, <1>4, <2>1, <2>2, <3>1, WindowEscalation
  <2>3. CASE ~escalation
    <3>1. recent = {x \in eventWindow[type] : now - x.occurredAt < Window}
                     \union {[agentId |-> e.msg.agentId, occurredAt |-> now]}
      BY <2>1 DEF RecentEvents
    <3>2. e.raised <=> IsSpread(recent)
      BY <2>1, <2>3
    <3>3. next = [eventWindow EXCEPT ![type] = IF e.raised THEN {} ELSE recent]
      BY <2>1, <2>3
    <3>4. type \in Windowed /\ e.msg.eventType = type
      BY <1>5, <2>1, <2>3
    <3>. HIDE DEF recent, r, e, next, h, type
    <3>5. QED
      BY ZenonT(40), <1>2, <1>4, <1>5, <1>6, <2>1, <3>1, <3>2, <3>3, <3>4, WindowEvent
  <2>4. QED
    BY <2>2, <2>3
<1>. HIDE DEF recent, r, next, e, h
<1>10. \A v \in Workers : taken'[v] \in Seq(Entry(v))
  BY <1>2, <1>4 DEF EngineTyped
<1>11. EngineTyped'
  BY <1>1, <1>2, <1>4, <1>5, <1>8, <1>10 DEF EngineTyped
<1>12. Exact'
  <2>1. ASSUME NEW i \in 1..Len(taken'[w]) PROVE ExactSpread(taken'[w], i)
    <3>1. i \in 1..Len(h) \/ i = Len(h) + 1
      BY <1>4, Appended
    <3>2. ASSUME i \in 1..Len(h) PROVE ExactSpread(Append(h, e), i)
      <4>1. ExactSpread(h, i)
        BY <3>2, <1>2 DEF Exact, h
      <4>2. QED
        BY <4>1, <3>2, <1>4, ExactStays
    <3>3. QED
      BY <3>1, <3>2, <1>4, <1>9
  <2>2. taken'["bruteForce"] = taken["bruteForce"] /\ taken'["anomaly"] = taken["anomaly"]
    BY <1>3, <1>4
  <2>3. QED
    BY <2>1, <2>2, <1>2 DEF Exact
<1>13. QED
  BY <1>1, <1>2, <1>3, <1>4, <1>9, <1>11, <1>12 DEF EngineInv

(* What the engine posts, and the clock. *)
LEMMA PostStep ==
  ASSUME EngineInv, UNCHANGED <<now, failures, state, eventWindow, taken>>,
         DOMAIN ports' = Workers, \A v \in Workers : ports'[v] \in Seq(Message(v))
  PROVE  EngineInv'
  BY DEF EngineInv, EngineTyped, Exact

LEMMA TickStep ==
  ASSUME EngineInv, Tick
  PROVE  EngineInv'
<1>1. /\ now' = now + 1 /\ UNCHANGED <<posted, ports, failures, state, eventWindow, taken>>
      /\ EngineTyped /\ now \in Nat
  BY DEF Tick, EngineInv, EngineTyped
<1>2. taken["bruteForce"] \in Seq(Entry("bruteForce")) /\ taken["crossServer"] \in Seq(Entry("crossServer"))
  BY DEF EngineInv, EngineTyped, Workers
<1>3. KeepsFailures(taken["bruteForce"], failures, now')
  BY <1>1, <1>2, FailuresTick DEF EngineInv
<1>4. KeepsWindow(taken["crossServer"], eventWindow, now')
  BY <1>1, <1>2, WindowTick DEF EngineInv
<1>5. EngineTyped'
  BY <1>1 DEF EngineTyped
<1>6. Exact'
  BY <1>1 DEF EngineInv, Exact
<1>7. QED
  BY <1>1, <1>3, <1>4, <1>5, <1>6 DEF EngineInv

LEMMA EventTypes == \A l \in Lines : EventType(l) \subseteq Windowed \union {"auth.privilege_escalation"}
  BY Zenon DEF EventType, SyslogType, Windowed

LEMMA ProcessEventStep ==
  ASSUME EngineInv, NEW a \in Agents, NEW l \in Lines, ProcessEvent(a, l)
  PROVE  EngineInv'
<1>1. PICK type \in EventType(l) :
        ports' = [v \in Workers |-> IF v = "anomaly" THEN ports[v] ELSE Append(ports[v], Event(a, l, type))]
  BY DEF ProcessEvent
<1>2. Event(a, l, type) \in EventMessage
  BY EventTypes DEF Event, EventMessage
<1>3. \A v \in Workers : ports[v] \in Seq(Message(v))
  BY DEF EngineInv, EngineTyped
<1>4. ASSUME NEW v \in Workers PROVE ports'[v] \in Seq(Message(v))
  <2>1. CASE v = "anomaly"
    BY <2>1, <1>1, <1>3
  <2>2. CASE v # "anomaly"
    <3>1. Message(v) = EventMessage /\ ports'[v] = Append(ports[v], Event(a, l, type))
      BY <2>2, <1>1 DEF Message
    <3>2. QED
      BY <3>1, <1>2, <1>3
  <2>3. QED
    BY <2>1, <2>2
<1>5. DOMAIN ports' = Workers
  BY <1>1
<1>6. UNCHANGED <<now, failures, state, eventWindow, taken>>
  BY DEF ProcessEvent
<1>7. QED
  BY <1>4, <1>5, <1>6, PostStep

LEMMA ProcessMetricStep ==
  ASSUME EngineInv, NEW a \in Agents, NEW m \in Metrics, ProcessMetric(a, m)
  PROVE  EngineInv'
<1>. DEFINE x == [agentId |-> a, metricType |-> m.metricType, high |-> m.high]
            p == ports["anomaly"]
<1>1. x \in Message("anomaly")
  BY MetricsAssumption DEF Message, MetricMessage
<1>2. DOMAIN ports = Workers /\ (\A v \in Workers : ports[v] \in Seq(Message(v))) /\ "anomaly" \in Workers
  BY DEF EngineInv, EngineTyped, Workers
<1>3. Append(p, x) \in Seq(Message("anomaly"))
  BY <1>1, <1>2
<1>4. /\ ports' = [ports EXCEPT !["anomaly"] = Append(p, x)]
      /\ UNCHANGED <<now, failures, state, eventWindow, taken>>
  BY DEF ProcessMetric
<1>. HIDE DEF x
<1>5. DOMAIN ports' = Workers /\ \A v \in Workers : ports'[v] \in Seq(Message(v))
  BY <1>2, <1>3, <1>4
<1>6. QED
  BY <1>4, <1>5, PostStep

LEMMA EngineStep == EngineInv /\ [CorrelationNext]_correlationVars => EngineInv'
<1>1. ASSUME EngineInv, UNCHANGED correlationVars PROVE EngineInv'
  BY <1>1 DEF correlationVars, EngineInv, EngineTyped, Exact
<1>2. QED
  BY <1>1, TickStep, ProcessEventStep, ProcessMetricStep, BruteForceStep, AnomalyStep,
     CrossServerStep DEF CorrelationNext

LEMMA EngineInit == CorrelationInit => EngineInv
<1>. SUFFICES ASSUME CorrelationInit PROVE EngineInv
  OBVIOUS
<1>1. /\ taken = [w \in Workers |-> <<>>] /\ ports = [w \in Workers |-> <<>>] /\ now = 0
      /\ failures = [k \in Addresses \union Agents |-> {}] /\ state = [a \in Agents |-> {}]
      /\ eventWindow = [type \in Windowed |-> {}]
  BY DEF CorrelationInit
<1>2. EngineTyped
  BY <1>1 DEF EngineTyped
<1>3. \A w \in Workers : taken[w] = <<>> /\ Len(taken[w]) = 0
  BY <1>1
<1>4. \A w \in Workers : \A js : Live(taken[w], js, Len(taken[w])) = {}
  BY <1>3 DEF Live
<1>5. KeepsFailures(taken["bruteForce"], failures, now)
  BY <1>1, <1>4 DEF KeepsFailures, Workers
<1>6. KeepsState(taken["anomaly"], state)
  BY <1>1, <1>4 DEF KeepsState, LastIsHigh, Workers
<1>7. KeepsWindow(taken["crossServer"], eventWindow, now)
  BY <1>1, <1>4, FS_EmptySet DEF KeepsWindow, Workers
<1>8. Exact
  BY <1>3 DEF Exact, Workers
<1>9. QED
  BY <1>2, <1>5, <1>6, <1>7, <1>8 DEF EngineInv

LEMMA EngineInvariance == CorrelationSpec => []EngineInv
  BY EngineInit, EngineStep, PTL DEF CorrelationSpec

(* The properties state of each entry what Exact does: the entries that no
   candidate has used up are the live ones and the entry itself. *)
LEMMA FailuresAgree == EngineInv => BruteForceExact
<1>. SUFFICES ASSUME EngineInv PROVE BruteForceExact
  OBVIOUS
<1>. DEFINE h == taken["bruteForce"]
            Like(x, y) == x.msg.eventType = "auth.login_failed" /\ x.msg.line.from = y.msg.line.from
            Left(i) == {j \in 1..i : /\ Like(h[j], h[i])
                                     /\ \A k \in j..(i - 1) : ~(h[k].raised /\ Like(h[k], h[i]))}
            Unused(i) == {j \in Left(i) : h[i].at - h[j].at < Window}
<1>1. /\ h \in Seq(Entry("bruteForce")) /\ DOMAIN h = 1..Len(h)
      /\ \A i \in 1..Len(h) : ExactFailure(h, i)
  BY DEF EngineInv, Exact, EngineTyped, Workers
<1>2. ASSUME NEW i \in 1..Len(h), h[i].msg.line.from # NoAddress
      PROVE  \A j \in 1..Len(h) : Key(h[j].msg) = Key(h[i].msg) <=> h[j].msg.line.from = h[i].msg.line.from
  <2>1. \A j \in 1..Len(h) : h[j].msg.agentId \in Agents /\ h[j].msg.line.from \in Addresses \union {NoAddress}
    <3>1. \A j \in 1..Len(h) : h[j] \in Entry("bruteForce")
      BY <1>1
    <3>2. \A x \in Entry("bruteForce") : x.msg \in EventMessage
      BY DEF Entry, Message
    <3>3. \A m \in EventMessage : m.agentId \in Agents /\ m.line.from \in Addresses \union {NoAddress}
      BY LinesAssumption DEF EventMessage
    <3>4. QED
      BY <3>1, <3>2, <3>3
  <2>. HIDE DEF h
  <2>2. Key(h[i].msg) = h[i].msg.line.from /\ h[i].msg.line.from \in Addresses
    BY <1>2, <2>1 DEF Key
  <2>3. QED
    BY <1>2, <2>1, <2>2, AddressesAssumption DEF Key
<1>3. ASSUME NEW i \in 1..Len(h), h[i].msg.line.from # NoAddress, h[i].msg.eventType = "auth.login_failed"
      PROVE  Unused(i) = Counted(h, FailedFor(h, Key(h[i].msg)), i)
  <2>1. ASSUME NEW j \in 1..i
        PROVE  j \in Left(i)
                 <=> j \in Live(h, FailedFor(h, Key(h[i].msg)), i - 1) \union {i}
    BY <1>1, <1>2, <1>3 DEF Live, FailedFor
  <2>2. Left(i) = Live(h, FailedFor(h, Key(h[i].msg)), i - 1) \union {i}
    BY <2>1 DEF Live
  <2>3. QED
    BY <2>2 DEF Counted
<1>4. ASSUME NEW i \in 1..Len(h), h[i].msg.line.from # NoAddress
      PROVE  h[i].raised <=> /\ h[i].msg.eventType = "auth.login_failed"
                             /\ Cardinality(Unused(i)) >= Threshold
  <2>1. ExactFailure(h, i)
    BY <1>1
  <2>2. CASE h[i].msg.eventType = "auth.login_failed"
    <3>1. Unused(i) = Counted(h, FailedFor(h, Key(h[i].msg)), i)
      BY <1>3, <1>4, <2>2
    <3>. HIDE DEF Unused
    <3>2. QED
      BY <2>1, <3>1 DEF ExactFailure
  <2>3. CASE h[i].msg.eventType # "auth.login_failed"
    BY <2>1, <2>3 DEF ExactFailure
  <2>4. QED
    BY <2>2, <2>3
<1>5. QED
  BY <1>1, <1>4 DEF BruteForceExact, Unspent, InWindow

LEMMA AnomaliesAgree == EngineInv => AnomalyOfLastValues
<1>. SUFFICES ASSUME EngineInv PROVE AnomalyOfLastValues
  OBVIOUS
<1>. DEFINE h == taken["anomaly"]
            Like(x, y) == x.msg.agentId = y.msg.agentId
            Left(i) == {j \in 1..i : /\ Like(h[j], h[i])
                                     /\ \A k \in j..(i - 1) : ~(h[k].raised /\ Like(h[k], h[i]))}
            Of(i, type) == {j \in Left(i) : h[j].msg.metricType = type}
            Highs(i, type) == {j \in Of(i, type) : h[j].msg.high /\ \A k \in Of(i, type) : k <= j}
            Recents(i, type) == {j \in Highs(i, type) : h[i].at - h[j].at < Window}
            Since(i) == Live(h, OfAgent(h, h[i].msg.agentId), i - 1) \union {i}
<1>1. DOMAIN h = 1..Len(h) /\ \A i \in 1..Len(h) : ExactAnomaly(h, i)
  BY DEF EngineInv, Exact, EngineTyped, Workers
<1>2. ASSUME NEW i \in 1..Len(h)
      PROVE  Left(i) = Since(i)
  <2>1. ASSUME NEW j \in 1..i
        PROVE  j \in Left(i) <=> j \in Since(i)
    BY <1>1 DEF Live, OfAgent
  <2>2. QED
    BY <2>1 DEF Live
<1>3. ASSUME NEW i \in 1..Len(h), NEW type
      PROVE  Highs(i, type) # {} <=> LastIsHigh(h, Since(i), type)
  <2>1. Left(i) = Since(i)
    BY <1>2
  <2>2. Of(i, type) = {j \in Since(i) : h[j].msg.metricType = type}
    BY <2>1
  <2>. HIDE DEF Of, Since, h
  <2>3. QED
    BY <2>2 DEF LastIsHigh
<1>4. ASSUME NEW i \in 1..Len(h)
      PROVE  h[i].raised <=> Highs(i, "cpu") # {} /\ Highs(i, "memory") # {}
  <2>1. h[i].raised <=> LastIsHigh(h, Since(i), "cpu") /\ LastIsHigh(h, Since(i), "memory")
    BY <1>1 DEF ExactAnomaly
  <2>. HIDE DEF Highs, Since, h
  <2>2. QED
    BY <2>1, <1>3
<1>5. ASSUME NEW i \in DOMAIN h
      PROVE  /\ h[i].raised => Highs(i, "cpu") # {} /\ Highs(i, "memory") # {}
             /\ Recents(i, "cpu") # {} /\ Recents(i, "memory") # {} => h[i].raised
  <2>1. Recents(i, "cpu") \subseteq Highs(i, "cpu") /\ Recents(i, "memory") \subseteq Highs(i, "memory")
    OBVIOUS
  <2>. HIDE DEF Recents, Highs, h
  <2>2. QED
    BY <1>1, <1>4, <2>1
<1>6. (\A i \in DOMAIN h :
         /\ h[i].raised => Highs(i, "cpu") # {} /\ Highs(i, "memory") # {}
         /\ Recents(i, "cpu") # {} /\ Recents(i, "memory") # {} => h[i].raised)
        => AnomalyOfLastValues
  BY ONLY ZenonT(30) DEF AnomalyOfLastValues, Unspent, InWindow
<1>7. QED
  <2>. HIDE DEF Recents, Highs, h
  <2>1. QED
    BY <1>5, <1>6

LEMMA SpreadsAgree == EngineInv => CrossServerExact
<1>. SUFFICES ASSUME EngineInv PROVE CrossServerExact
  OBVIOUS
<1>. DEFINE h == taken["crossServer"]
            Like(x, y) == x.msg.eventType = y.msg.eventType
            Left(i) == {j \in 1..i : /\ Like(h[j], h[i])
                                     /\ \A k \in j..(i - 1) : ~(h[k].raised /\ Like(h[k], h[i]))}
            Seen(i) == {j \in Left(i) : h[i].at - h[j].at < Window}
<1>1. DOMAIN h = 1..Len(h) /\ \A i \in 1..Len(h) : ExactSpread(h, i)
  BY DEF EngineInv, Exact, EngineTyped, Workers
<1>2. ASSUME NEW i \in 1..Len(h)
      PROVE  Seen(i) = Counted(h, OfType(h, h[i].msg.eventType), i)
  <2>1. ASSUME NEW j \in 1..i
        PROVE  j \in Left(i)
                 <=> j \in Live(h, OfType(h, h[i].msg.eventType), i - 1) \union {i}
    BY <1>1 DEF Live, OfType
  <2>2. Left(i) = Live(h, OfType(h, h[i].msg.eventType), i - 1) \union {i}
    BY <2>1 DEF Live
  <2>3. QED
    BY <2>2 DEF Counted
<1>3. ASSUME NEW i \in 1..Len(h)
      PROVE  h[i].raised <=> \/ h[i].msg.eventType = "auth.privilege_escalation"
                             \/ \E j \in Seen(i) : h[j].msg.agentId # h[i].msg.agentId
  <2>1. ExactSpread(h, i) /\ Seen(i) = Counted(h, OfType(h, h[i].msg.eventType), i)
    BY <1>1, <1>2
  <2>. HIDE DEF Seen
  <2>2. QED
    BY <2>1 DEF ExactSpread
<1>4. QED
  BY <1>1, <1>3 DEF CrossServerExact, Unspent, InWindow

(* brute-force.worker.ts never misses a burst of failed logins from one address,
   never raises a candidate without one and never counts a failure twice: of
   failures that name their address it is exactly the Threshold-th unspent one
   of its address within the window that raises a candidate, whatever is posted
   before and in between and however late the worker takes it. *)
THEOREM BruteForceTheorem == CorrelationSpec => []BruteForceExact
  BY EngineInvariance, FailuresAgree, PTL

(* anomaly.worker.ts raises an anomaly only if the last CPU and the last memory
   value of an agent since its last anomaly are both high, and always if both
   are recent: forgetting everything but two flags per agent keeps no value that
   has gone down again and loses none that is still up. *)
THEOREM AnomalyTheorem == CorrelationSpec => []AnomalyOfLastValues
  BY EngineInvariance, AnomaliesAgree, PTL

(* cross-server.worker.ts raises a candidate for an event other than an
   escalation exactly when two agents have unspent events of its type within the
   window, and for every escalation: dropping the events that are older than the
   window and clearing a type after a candidate loses and repeats none. *)
THEOREM CrossServerTheorem == CorrelationSpec => []CrossServerExact
  BY EngineInvariance, SpreadsAgree, PTL
====
