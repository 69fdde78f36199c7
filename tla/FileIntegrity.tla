---- MODULE FileIntegrity ----
(***************************************************************************)
(* FileIntegrityMonitor (agent/src/security) for one tracked file, seen    *)
(* from the file to the TCP client: the security worker that runs it and   *)
(* the request of WorkerManager that carries its events.                   *)
(*                                                                         *)
(* Each collection reads the file, compares its hash with that of the      *)
(* collection that was handled last, and remembers it.  Collections        *)
(* overlap: the worker takes a request while it awaits files for another,  *)
(* and answers a request that was given up as well.                        *)
(***************************************************************************)
EXTENDS Integers, Sequences, FiniteSets

CONSTANTS
  Contents,        \* what the file may hold; a content stands for its hash
  AtStart,         \* the content when the agent starts
  Missing,         \* there is no file, or it cannot be read
  MaxEdits,        \* (bound)
  MaxCollections   \* (bound)

ASSUME ContentsAssumption == AtStart \in Contents /\ Missing \notin Contents
ASSUME EditAssumption == MaxEdits \in Nat /\ MaxCollections \in Nat

FileCollections == 1..MaxCollections

VARIABLES
  versions,   \* history: what the file has held; the last one is on disk
  fileStep,   \* how far each collection is
  fileSeen,   \* the version each collection has read
  hash,       \* hashes.get(target), as the version it was computed from; 0 if none
  events,     \* the event of each collection, if it has one
  listening,  \* requests with a listener and a timer
  alive,      \* the worker thread runs
  handled,    \* history: collections in the order they were handled
  sent        \* collections whose events went to the TCP client, in that order

fileVars == <<versions, fileStep, fileSeen, hash, events, listening, alive, handled, sent>>

FileInit ==
  /\ versions = <<AtStart>>
  /\ fileStep = [c \in FileCollections |-> "idle"]
  /\ fileSeen = [c \in FileCollections |-> 0]
  /\ hash = 0
  /\ events = [c \in FileCollections |-> {}]
  /\ listening = {}
  /\ alive = TRUE
  /\ handled = <<>>
  /\ sent = <<>>

Content(v) == versions[v]

FileChanges ==
  /\ Len(versions) <= MaxEdits
  /\ \E x \in (Contents \union {Missing}) \ {Content(Len(versions))} : versions' = Append(versions, x)
  /\ UNCHANGED <<fileStep, fileSeen, hash, events, listening, alive, handled, sent>>

(* requestSecurityEvents *)
Ask(c) ==
  /\ fileStep[c] = "idle"
  /\ \A d \in FileCollections : d < c => fileStep[d] # "idle"
  /\ fileStep' = [fileStep EXCEPT ![c] = "asked"]
  /\ listening' = listening \union {c}
  /\ UNCHANGED <<versions, fileSeen, hash, events, alive, handled, sent>>

(* readFile has what is on disk now. *)
ReadFile(c) ==
  /\ alive
  /\ fileStep[c] = "asked"
  /\ fileStep' = [fileStep EXCEPT ![c] = "read"]
  /\ fileSeen' = [fileSeen EXCEPT ![c] = Len(versions)]
  /\ UNCHANGED <<versions, hash, events, listening, alive, handled, sent>>

Change(v, w) == [from |-> v, to |-> w]

\* Mutant: the hash is remembered only the first time.
CompareFirst(c) ==
  IF Content(fileSeen[c]) = Missing THEN UNCHANGED <<hash, events>>
  ELSE /\ hash' = IF hash = 0 THEN fileSeen[c] ELSE hash
       /\ events' = [events EXCEPT ![c] =
                       IF hash # 0 /\ Content(hash) # Content(fileSeen[c])
                       THEN {Change(hash, fileSeen[c])} ELSE {}]

(* collect after its await; a file that cannot be read is passed over. *)
Compare(c) ==
  IF Content(fileSeen[c]) = Missing THEN UNCHANGED <<hash, events>>
  ELSE /\ hash' = fileSeen[c]
       /\ events' = [events EXCEPT ![c] =
                       IF hash # 0 /\ Content(hash) # Content(fileSeen[c])
                       THEN {Change(hash, fileSeen[c])} ELSE {}]

Handle(c) ==
  /\ alive
  /\ fileStep[c] = "read"
  /\ fileStep' = [fileStep EXCEPT ![c] = "handled"]
  /\ handled' = Append(handled, c)
  /\ Compare(c)
  /\ UNCHANGED <<versions, fileSeen, listening, alive, sent>>

(* The other monitors are done as well, and the answer finds the listener of
   its request or nobody. *)
Answer(c) ==
  /\ alive
  /\ fileStep[c] = "handled"
  /\ fileStep' = [fileStep EXCEPT ![c] = "done"]
  /\ listening' = listening \ {c}
  /\ sent' = IF c \in listening /\ events[c] # {} THEN Append(sent, c) ELSE sent
  /\ UNCHANGED <<versions, fileSeen, hash, events, alive, handled>>

(* The request's timer; the worker goes on. *)
GiveUp(c) ==
  /\ c \in listening
  /\ listening' = listening \ {c}
  /\ UNCHANGED <<versions, fileStep, fileSeen, hash, events, alive, handled, sent>>

WorkerTerminates == alive' = FALSE /\ UNCHANGED <<versions, fileStep, fileSeen, hash, events, listening, handled, sent>>

FileNext ==
  \E c \in FileCollections : ReadFile(c) \/ Handle(c) \/ Answer(c) \/ GiveUp(c)

----
(* The collections that could read the file, and those that reported a change,
   by their places in handled. *)
Readable == {i \in DOMAIN handled : Content(fileSeen[handled[i]]) # Missing}
Reported == {i \in DOMAIN handled : events[handled[i]] # {}}

First(is) == {i \in is : \A j \in is : i <= j}
Last(is) == {i \in is : \A j \in is : j <= i}

(* What a reader of the events takes for the content is x: the new one of the
   last event, or else what was there when the worker first looked. *)
Told(x) ==
  IF sent # <<>> THEN \E change \in events[sent[Len(sent)]] : x = Content(change.to)
  ELSE \E i \in First(Readable) : x = Content(fileSeen[handled[i]])

(* The events sent lead to the content of the collection handled last, unless
   the last change is not the last one sent: its answer is on its way, came
   after its timer, went down with the worker or was overtaken by that of an
   earlier collection.  And that content is the one on disk if a collection has
   read it there, unless one that read earlier was handled later. *)
BeliefNeedsReason ==
  hash # 0 =>
    /\ \/ Told(Content(hash))
       \/ \E i \in Last(Reported) : sent # <<>> => sent[Len(sent)] # handled[i]
    /\ \/ Content(hash) = Content(Len(versions))
       \/ Content(Len(versions)) = Missing
       \/ \A i \in DOMAIN handled : fileSeen[handled[i]] # Len(versions)
       \/ \E i, j \in DOMAIN handled : i < j /\ fileSeen[handled[i]] > fileSeen[handled[j]]
====
