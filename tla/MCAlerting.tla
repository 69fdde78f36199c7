---- MODULE MCAlerting ----
(***************************************************************************)
(* Two servers that set up a database, and three calls for a correlation   *)
(* alert and a threshold alert.  The two share no variable: calls come in  *)
(* one of the states in which the servers serve, and servers start while   *)
(* no call has begun, so that the states of both add up.                   *)
(***************************************************************************)
EXTENDS AlertsService, RuleSeed, TLC

CONSTANTS c1, c2, c3, brute, cpu, bruteRule, cpuRule

MCRuleOf == brute :> bruteRule @@ cpu :> cpuRule

(* A new database after a start without incident. *)
Serving ==
  /\ created = TRUE
  /\ rules = {Row(1, "cpu", TRUE), Row(2, "memory", TRUE)}
  /\ nextId = 5
  /\ unique = TRUE
  /\ setupStep = [s \in Servers |-> "serving"]
  /\ crashes = 0 /\ seeds = 0 /\ updates = 0

(* One of the initial states of the calls is enough for the servers. *)
NoCallYet ==
  /\ Init
  /\ enabled = [r \in Rules |-> TRUE]
  /\ keyOf = [c \in Calls |-> brute]

MCInit ==
  \/ Init /\ Serving
  \/ NoCallYet /\ SetupInit

MCNext ==
  \/ Serving /\ Next /\ UNCHANGED setupVars
  \/ NoCallYet /\ SetupNext /\ UNCHANGED vars

(* The fairness of FairSpec and of FairSetupSpec: a call has a step to take only
   where the servers serve, and a server only where no call has begun. *)
MCSpec ==
  /\ MCInit
  /\ [][MCNext]_<<vars, setupVars>>
  /\ \A c \in Calls : WF_vars(CallStep(c))
  /\ \A s \in Servers : WF_setupVars(ServerStep(s))
====
