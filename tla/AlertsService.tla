---- MODULE AlertsService ----
(***************************************************************************)
(* Alerts: packages/server/src/modules/alerts/alerts.service.ts, with the  *)
(* broadcasts of the correlation engine (correlation/engine.ts).           *)
(*                                                                         *)
(* createUniqueAlert reads the rule, looks for an open alert with the same *)
(* key (rule, agent, message) and inserts one if it found none.  These are *)
(* three queries with an await after each, so calls of different 'data'    *)
(* handlers and of the engine interleave, with each other and with the     *)
(* operator who resolves alerts and switches rules.  An action is the      *)
(* execution of a query; what a call read is in the step it takes next.    *)
(***************************************************************************)
EXTENDS Naturals, FiniteSets

CONSTANTS
  Calls,       \* calls of createUniqueAlert (bound)
  Keys,        \* (rule, agent, message) of an alert
  EngineKeys,  \* keys of the rules that the correlation engine reports
  Rules,
  RuleOf,      \* RuleOf[k]: the rule of key k
  MaxToggles,  \* updates of rules by the operator (bound)
  NoAlert

ASSUME KeysAssumption == EngineKeys \subseteq Keys /\ RuleOf \in [Keys -> Rules]
ASSUME MaxTogglesAssumption == MaxToggles \in Nat
ASSUME NoAlertAssumption == NoAlert \notin Calls
ASSUME CallsAssumption == IsFiniteSet(Calls)

VARIABLES
  enabled,     \* alert_rules: isEnabled; a rule without a row counts as enabled
  toggles,
  alerts,      \* alerts table; an alert's id is the call that inserted it
  step,        \* the next step of each call
  keyOf,       \* the key of each call
  answer,      \* the alert each call returned, or NoAlert
  pushed,      \* calls whose answer was broadcast to the dashboards
  atOnce,      \* history: the most calls for a key under way at one time
  sawEnabled,  \* history: calls under way while their rule was enabled
  sawDisabled, \* history: calls under way while their rule was disabled
  resolvedSince \* history: <<c, id>>, alerts resolved while call c is in progress

historyVars == <<atOnce, sawEnabled, sawDisabled, resolvedSince>>
vars == <<enabled, toggles, alerts, step, keyOf, answer, pushed, historyVars>>

Open(k) == {x \in alerts : x.key = k /\ x.status = "open"}

Underway(c) == step[c] \in {"readRule", "findOpen", "insert"}
InProgress(c) == Underway(c) \/ step[c] = "returned"
CallsFor(k) == {c \in Calls : Underway(c) /\ keyOf[c] = k}

Init ==
  /\ enabled \in [Rules -> BOOLEAN]
  /\ toggles = 0
  /\ alerts = {}
  /\ step = [c \in Calls |-> "idle"]
  /\ keyOf \in [Calls -> Keys]
  /\ answer = [c \in Calls |-> NoAlert]
  /\ pushed = {}
  /\ atOnce = [k \in Keys |-> 0]
  /\ sawEnabled = {}
  /\ sawDisabled = {}
  /\ resolvedSince = {}

----
(* createAlertsForMetric, createAlertForSecurityEvent and
   createCorrelationAlert: a threshold is exceeded, an event is critical, or
   a correlation worker found something. *)
Call(c) ==
  LET k == keyOf[c]
      n == Cardinality(CallsFor(k)) + 1
  IN  /\ step[c] = "idle"
      /\ step' = [step EXCEPT ![c] = "readRule"]
      /\ atOnce' = [atOnce EXCEPT ![k] = IF @ < n THEN n ELSE @]
      /\ sawEnabled' = IF enabled[RuleOf[k]] THEN sawEnabled \union {c} ELSE sawEnabled
      /\ sawDisabled' = IF enabled[RuleOf[k]] THEN sawDisabled ELSE sawDisabled \union {c}
      /\ UNCHANGED <<enabled, toggles, alerts, keyOf, answer, pushed, resolvedSince>>

\* Mutant: the rule is not consulted.
ReadRuleIgnored(c) ==
  /\ step[c] = "readRule"
  /\ step' = [step EXCEPT ![c] = "findOpen"]
  /\ UNCHANGED <<enabled, toggles, alerts, keyOf, answer, pushed, historyVars>>

(* The first select: a disabled rule ends the call with null. *)
ReadRule(c) ==
  /\ step[c] = "readRule"
  /\ step' = [step EXCEPT ![c] = IF enabled[RuleOf[keyOf[c]]] THEN "findOpen" ELSE "returned"]
  /\ UNCHANGED <<enabled, toggles, alerts, keyOf, answer, pushed, historyVars>>

\* Mutants: resolved alerts count as existing; nothing counts as existing.
FindAny(c) ==
  LET same == {x \in alerts : x.key = keyOf[c]}
  IN  /\ step[c] = "findOpen"
      /\ IF same = {}
         THEN step' = [step EXCEPT ![c] = "insert"] /\ UNCHANGED answer
         ELSE /\ step' = [step EXCEPT ![c] = "returned"]
              /\ \E x \in same : answer' = [answer EXCEPT ![c] = x.id]
      /\ UNCHANGED <<enabled, toggles, alerts, keyOf, pushed, historyVars>>

FindNothing(c) ==
  /\ step[c] = "findOpen"
  /\ step' = [step EXCEPT ![c] = "insert"]
  /\ UNCHANGED <<enabled, toggles, alerts, keyOf, answer, pushed, historyVars>>

(* The second select: an open alert of the key is returned as it is. *)
FindOpen(c) ==
  /\ step[c] = "findOpen"
  /\ IF Open(keyOf[c]) = {}
     THEN step' = [step EXCEPT ![c] = "insert"] /\ UNCHANGED answer
     ELSE /\ step' = [step EXCEPT ![c] = "returned"]
          /\ \E x \in Open(keyOf[c]) : answer' = [answer EXCEPT ![c] = x.id]
  /\ UNCHANGED <<enabled, toggles, alerts, keyOf, pushed, historyVars>>

(* The insert, with the table's default status. *)
Insert(c) ==
  /\ step[c] = "insert"
  /\ alerts' = alerts \union {[id |-> c, key |-> keyOf[c], status |-> "open"]}
  /\ step' = [step EXCEPT ![c] = "returned"]
  /\ answer' = [answer EXCEPT ![c] = c]
  /\ UNCHANGED <<enabled, toggles, keyOf, pushed, historyVars>>

\* Mutant: only an alert that this call inserted is broadcast.
HandleNewAnswer(c) ==
  /\ step[c] = "returned"
  /\ step' = [step EXCEPT ![c] = "handled"]
  /\ pushed' = IF keyOf[c] \in EngineKeys /\ answer[c] = c
               THEN pushed \union {c} ELSE pushed
  /\ resolvedSince' = {m \in resolvedSince : m[1] # c}
  /\ UNCHANGED <<enabled, toggles, alerts, keyOf, answer, atOnce, sawEnabled, sawDisabled>>

(* The caller resumes.  The engine broadcasts the alert it got; the 'data'
   handlers of the receiver ignore theirs. *)
HandleAnswer(c) ==
  /\ step[c] = "returned"
  /\ step' = [step EXCEPT ![c] = "handled"]
  /\ pushed' = IF keyOf[c] \in EngineKeys /\ answer[c] # NoAlert
               THEN pushed \union {c} ELSE pushed
  /\ resolvedSince' = {m \in resolvedSince : m[1] # c}
  /\ UNCHANGED <<enabled, toggles, alerts, keyOf, answer, atOnce, sawEnabled, sawDisabled>>

(* resolveAlert, for the operator. *)
ResolveAlert(x) ==
  /\ x.status = "open"
  /\ alerts' = (alerts \ {x}) \union {[x EXCEPT !.status = "resolved"]}
  /\ resolvedSince' = resolvedSince \union ({c \in Calls : InProgress(c) /\ keyOf[c] = x.key} \X {x.id})
  /\ UNCHANGED <<enabled, toggles, step, keyOf, answer, pushed, atOnce, sawEnabled, sawDisabled>>

(* updateRule, for the operator. *)
UpdateRule(r) ==
  /\ toggles < MaxToggles
  /\ toggles' = toggles + 1
  /\ enabled' = [enabled EXCEPT ![r] = ~@]
  /\ LET present == {c \in Calls : Underway(c) /\ RuleOf[keyOf[c]] = r}
     IN  /\ sawEnabled' = IF enabled'[r] THEN sawEnabled \union present ELSE sawEnabled
         /\ sawDisabled' = IF enabled'[r] THEN sawDisabled ELSE sawDisabled \union present
  /\ UNCHANGED <<alerts, step, keyOf, answer, pushed, atOnce, resolvedSince>>

(* The process ends: the calls under way are lost, the tables stay. *)
Restart ==
  /\ \E c \in Calls : InProgress(c)
  /\ step' = [c \in Calls |-> IF InProgress(c) THEN "lost" ELSE step[c]]
  /\ resolvedSince' = {}
  /\ UNCHANGED <<enabled, toggles, alerts, keyOf, answer, pushed, atOnce, sawEnabled, sawDisabled>>

CallStep(c) == ReadRule(c) \/ FindOpen(c) \/ Insert(c) \/ HandleAnswer(c)

Next ==
  \/ \E c \in Calls : Call(c) \/ CallStep(c)
  \/ \E x \in alerts : ResolveAlert(x)
  \/ \E r \in Rules : UpdateRule(r)
  \/ Restart

Spec == Init /\ [][Next]_vars

(* A query that was sent is executed and its call resumes. *)
FairSpec == Spec /\ \A c \in Calls : WF_vars(CallStep(c))

----
(* createUniqueAlert is not unique under concurrency, but a key never has
   more open alerts than there were calls for it under way at one time: calls
   that do not overlap leave at most one, however alerts are resolved. *)
DuplicatesNeedOverlap == \A k \in Keys : Cardinality(Open(k)) <= atOnce[k]

(* A rule that is off for as long as a call lasts raises no alert, although
   the rule is read two queries before the insert. *)
DisabledRuleIsQuiet == \A x \in alerts : x.id \in sawEnabled

(* When the caller resumes, it has an alert of its own key in hand.  The alert
   may have been resolved by then, but only while this call was in progress: a
   condition that comes back after its alert was resolved is never answered with
   the old alert.  There is no alert only if the rule was off during the call. *)
ConditionHasAlert ==
  \A c \in Calls : step[c] = "returned" =>
    \/ c \in sawDisabled /\ answer[c] = NoAlert
    \/ \E x \in alerts :
         /\ x.id = answer[c] /\ x.key = keyOf[c]
         /\ x.status = "open" \/ <<c, x.id>> \in resolvedSince

(* Every correlation found is broadcast, with the open alert if there is one
   already, unless its rule was off at some time or the process went down. A
   broadcast lost in a restart is thus made up for by the next one. *)
CorrelationsAreBroadcast ==
  \A c \in Calls :
    (Underway(c) /\ keyOf[c] \in EngineKeys)
      ~> (c \in pushed \/ step[c] = "lost" \/ (c \in sawDisabled /\ answer[c] = NoAlert))
====
