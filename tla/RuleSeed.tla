---- MODULE RuleSeed ----
(***************************************************************************)
(* The server's start on the table alert_rules: ensureDatabase             *)
(* (server/src/db/init.ts), seedDatabase (db/seed.ts), the bootstrap that  *)
(* awaits them (index.ts), and updateRule of a server that is up.          *)
(*                                                                         *)
(* The set-up is four queries, each atomic in PostgreSQL, with no          *)
(* transaction around them.  Servers may start together, a process may end *)
(* between two queries and is then started again, and npm run db:seed runs *)
(* the last query alone at any time.  The database may come from a version *)
(* that had no unique index: every start then seeded the rules again.      *)
(***************************************************************************)
EXTENDS Integers, FiniteSets

CONSTANTS
  Servers,
  Names,        \* the rules that are seeded
  OldRows,      \* rows of an older database (bound)
  MaxCrashes,   \* (bound)
  MaxSeeds,     \* runs of npm run db:seed (bound)
  MaxUpdates    \* (bound)

ASSUME NamesAssumption == IsFiniteSet(Names)
ASSUME BoundAssumption ==
  OldRows \in Nat /\ MaxCrashes \in Nat /\ MaxSeeds \in Nat /\ MaxUpdates \in Nat

VARIABLES
  created,   \* the tables exist
  rules,     \* rows of alert_rules
  nextId,    \* its sequence
  unique,    \* alert_rules_name_unique exists
  setupStep, \* the query each server comes to
  crashes,
  seeds,
  updates

tableVars == <<created, rules, nextId, unique>>
boundVars == <<crashes, seeds, updates>>
setupVars == <<tableVars, setupStep, boundVars>>

Row(id, name, on) == [id |-> id, name |-> name, isEnabled |-> on]

IsUnique(rows) == \A r, s \in rows : r.name = s.name => r = s

SetupInit ==
  /\ created \in BOOLEAN
  /\ \E n \in 0..(IF created THEN OldRows ELSE 0) :
       \E name \in [1..n -> Names], on \in [1..n -> BOOLEAN] :
         rules = {Row(i, name[i], on[i]) : i \in 1..n}
  /\ nextId = Cardinality(rules) + 1
  /\ unique \in {FALSE, created /\ IsUnique(rules)}
  /\ setupStep = [s \in Servers |-> "create"]
  /\ crashes = 0 /\ seeds = 0 /\ updates = 0

----
Query(s, from, to) == setupStep[s] = from /\ setupStep' = [setupStep EXCEPT ![s] = to]

CreateTables(s) ==
  /\ Query(s, "create", "deduplicate")
  /\ created' = TRUE
  /\ UNCHANGED <<rules, nextId, unique, boundVars>>

\* Mutant: MAX(id) is kept.
NewestRows == {r \in rules : \A q \in rules : q.name = r.name => q.id <= r.id}

(* The rows that the DELETE keeps: MIN(id) of each name. *)
OldestRows == {r \in rules : \A q \in rules : q.name = r.name => r.id <= q.id}

Deduplicate(s) ==
  /\ Query(s, "deduplicate", "index")
  /\ rules' = OldestRows
  /\ UNCHANGED <<created, nextId, unique, boundVars>>

\* Mutants: an index that cannot be created is done without; the server waits
\* for the rows to become unique by themselves.
CreateIndexIfPossible(s) ==
  /\ Query(s, "index", "seed")
  /\ unique' = (IF IsUnique(rules) THEN TRUE ELSE unique)
  /\ UNCHANGED <<created, rules, nextId, boundVars>>
CreateIndexAgain(s) ==
  /\ setupStep[s] = "index"
  /\ IsUnique(rules)
  /\ Query(s, "index", "seed")
  /\ unique' = TRUE
  /\ UNCHANGED <<created, rules, nextId, boundVars>>

(* Where names are not unique the query is refused, which ends the process. *)
CreateIndex(s) ==
  /\ IF IsUnique(rules)
     THEN Query(s, "index", "seed") /\ unique' = TRUE
     ELSE Query(s, "index", "ended") /\ UNCHANGED unique
  /\ UNCHANGED <<created, rules, nextId, boundVars>>

(* ON CONFLICT DO NOTHING: only the index makes a conflict.  The sequence gives
   every row of the INSERT a number, used or not. *)
InsertRules ==
  \E number \in [Names -> nextId..(nextId + Cardinality(Names) - 1)] :
    /\ \A m, n \in Names : m # n => number[m] # number[n]
    /\ rules' = rules \union
         {Row(number[n], n, TRUE) : n \in {m \in Names : unique => \A r \in rules : r.name # m}}
    /\ nextId' = nextId + Cardinality(Names)
    /\ UNCHANGED <<created, unique>>

Seed(s) ==
  /\ Query(s, "seed", "serving")
  /\ InsertRules
  /\ UNCHANGED boundVars

(* npm run db:seed; without tables it fails. *)
RunSeed ==
  /\ seeds < MaxSeeds
  /\ seeds' = seeds + 1
  /\ created
  /\ InsertRules
  /\ UNCHANGED <<setupStep, crashes, updates>>

(* PUT of a rule, at a server that is up. *)
OperatorUpdates ==
  /\ updates < MaxUpdates
  /\ updates' = updates + 1
  /\ \E s \in Servers : setupStep[s] = "serving"
  /\ \E r \in rules : rules' = (rules \ {r}) \union {Row(r.id, r.name, ~r.isEnabled)}
  /\ UNCHANGED <<created, nextId, unique, setupStep, crashes, seeds>>

(* A query fails or the process is killed. *)
Crash(s) ==
  /\ crashes < MaxCrashes
  /\ crashes' = crashes + 1
  /\ setupStep[s] # "ended"
  /\ setupStep' = [setupStep EXCEPT ![s] = "ended"]
  /\ UNCHANGED <<tableVars, seeds, updates>>

(* restart: unless-stopped *)
RestartServer(s) == Query(s, "ended", "create") /\ UNCHANGED <<tableVars, boundVars>>

ServerStep(s) ==
  CreateTables(s) \/ Deduplicate(s) \/ CreateIndex(s) \/ Seed(s) \/ RestartServer(s)

SetupNext ==
  \/ \E s \in Servers : ServerStep(s) \/ Crash(s)
  \/ RunSeed
  \/ OperatorUpdates

SetupSpec == SetupInit /\ [][SetupNext]_setupVars

(* Each server goes on to its next query, and is started again when it ends. *)
FairSetupSpec == SetupSpec /\ \A s \in Servers : WF_setupVars(ServerStep(s))

----
(* While a server is up every rule is in the table exactly once, wherever
   the processes ended before, whoever else seeds, and however often the rules
   were in an older database. *)
UniqueWhenServing ==
  (\E s \in Servers : setupStep[s] = "serving") =>
    \A n \in Names : Cardinality({r \in rules : r.name = n}) = 1

(* Only the operator changes a setting, and a row goes only if an older one of
   the same name stays: no start or seed resets a rule that was turned off. *)
SettingsSurvive ==
  [][\A r \in rules :
       \/ \E q \in rules' : q.id = r.id /\ (q = r \/ updates' # updates)
       \/ \E q \in rules' : q.name = r.name /\ q.id < r.id]_setupVars

(* Every server comes up for good once nothing ends processes any more, also
   when the rules were seeded between its second and its third query. *)
ServesInTheEnd == \A s \in Servers : <>[](setupStep[s] = "serving")
====
