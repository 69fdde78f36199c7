---- MODULE SharedMetrics ----
(***************************************************************************)
(* The agent's shared memory: packages/agent/src/ipc/shared-metrics.ts and *)
(* mutex.ts.  Each metric worker writes its fields, then updatedAtMs,      *)
(* under a lock in a SharedArrayBuffer; the main thread reads them all     *)
(* when SIGUSR2 asks for a dump.  Threads interleave at every access to    *)
(* the buffers, and terminate() may end a worker between any two.          *)
(*                                                                         *)
(* A value is the time at which it was collected.  The order in which one  *)
(* access goes through its fields is left open.                            *)
(***************************************************************************)
EXTENDS Naturals, FiniteSets

CONSTANTS
  Writers,     \* metric workers
  Main,        \* the main thread
  FieldsOf,    \* FieldsOf[w]: the fields that w collects
  UpdatedAt,   \* the field that every writer writes last
  MaxAccesses  \* writes and reads started (bound)

Threads == Writers \union {Main}
Fields == {UpdatedAt} \union UNION {FieldsOf[w] : w \in Writers}

ASSUME MainAssumption == Main \notin Writers
ASSUME FieldsAssumption ==
  \A w \in Writers :
    /\ UpdatedAt \notin FieldsOf[w]
    /\ \A v \in Writers \ {w} : FieldsOf[v] \intersect FieldsOf[w] = {}
ASSUME BoundAssumption == MaxAccesses \in Nat

VARIABLES
  lock,   \* lockBuffer
  data,   \* dataBuffer
  pc,     \* where each thread is
  todo,   \* the fields a thread inside the lock has yet to write or read
  value,  \* what each writer has collected
  snap,   \* the summary of the dump in progress or of the last one
  clock   \* accesses started, as the time

vars == <<lock, data, pc, todo, value, snap, clock>>

Places == {"idle", "acquire", "wait", "asleep", "inside", "notify", "ended", "killed"}

Init ==
  /\ lock = 0
  /\ data = [f \in Fields |-> 0]
  /\ pc = [p \in Threads |-> "idle"]
  /\ todo = [p \in Threads |-> {}]
  /\ value = [w \in Writers |-> 0]
  /\ snap = [f \in Fields |-> 0]
  /\ clock = 0

----
Goto(p, place) == pc' = [pc EXCEPT ![p] = place]

\* Mutant: write and read skip the lock.
BeginUnlocked(p) ==
  /\ pc[p] = "idle"
  /\ clock < MaxAccesses
  /\ clock' = clock + 1
  /\ Goto(p, "inside")
  /\ todo' = [todo EXCEPT ![p] = IF p = Main THEN Fields ELSE FieldsOf[p] \union {UpdatedAt}]
  /\ value' = IF p = Main THEN value ELSE [value EXCEPT ![p] = clock']
  /\ UNCHANGED <<lock, data, snap>>

(* A collection has its values and calls write, or a dump calls read. *)
Begin(p) ==
  /\ pc[p] = "idle"
  /\ clock < MaxAccesses
  /\ clock' = clock + 1
  /\ Goto(p, "acquire")
  /\ value' = IF p = Main THEN value ELSE [value EXCEPT ![p] = clock']
  /\ UNCHANGED <<lock, data, todo, snap>>

(* acquire: one turn of the loop up to the wait. *)
CompareExchange(p) ==
  /\ pc[p] = "acquire"
  /\ IF lock = 0
     THEN /\ lock' = 1
          /\ Goto(p, "inside")
          /\ todo' = [todo EXCEPT ![p] = IF p = Main THEN Fields ELSE FieldsOf[p] \union {UpdatedAt}]
     ELSE /\ Goto(p, "wait")
          /\ UNCHANGED <<lock, todo>>
  /\ UNCHANGED <<data, value, snap, clock>>

(* Atomics.wait sleeps only if the lock is still taken. *)
Wait(p) ==
  /\ pc[p] = "wait"
  /\ Goto(p, IF lock = 1 THEN "asleep" ELSE "acquire")
  /\ UNCHANGED <<lock, data, todo, value, snap, clock>>

(* 50 ms are over. *)
WaitTimesOut(p) ==
  /\ pc[p] = "asleep"
  /\ Goto(p, "acquire")
  /\ UNCHANGED <<lock, data, todo, value, snap, clock>>

(* write: an assignment to one field. *)
WriteField(w) ==
  /\ pc[w] = "inside"
  /\ \E f \in todo[w] :
       /\ f = UpdatedAt => todo[w] = {UpdatedAt}
       /\ data' = [data EXCEPT ![f] = IF f = UpdatedAt THEN clock ELSE value[w]]
       /\ todo' = [todo EXCEPT ![w] = @ \ {f}]
  /\ UNCHANGED <<lock, pc, value, snap, clock>>

(* read: one field of the summary. *)
ReadField ==
  /\ pc[Main] = "inside"
  /\ \E f \in todo[Main] :
       /\ snap' = [snap EXCEPT ![f] = data[f]]
       /\ todo' = [todo EXCEPT ![Main] = @ \ {f}]
  /\ UNCHANGED <<lock, data, pc, value, clock>>

\* Mutant: the lock is not freed.
StoreNothing(p) ==
  /\ pc[p] = "inside"
  /\ todo[p] = {}
  /\ Goto(p, "notify")
  /\ UNCHANGED <<lock, data, todo, value, snap, clock>>

(* release: the store, then the notification of one sleeper. *)
Store(p) ==
  /\ pc[p] = "inside"
  /\ todo[p] = {}
  /\ lock' = 0
  /\ Goto(p, "notify")
  /\ UNCHANGED <<data, todo, value, snap, clock>>

Notify(p) ==
  /\ pc[p] = "notify"
  /\ IF \E q \in Threads : pc[q] = "asleep"
     THEN \E q \in Threads :
            pc[q] = "asleep" /\ pc' = [pc EXCEPT ![p] = "idle", ![q] = "acquire"]
     ELSE Goto(p, "idle")
  /\ UNCHANGED <<lock, data, todo, value, snap, clock>>

(* WorkerManager.stop ends a worker wherever it is. *)
Terminate(w) ==
  /\ pc[w] \notin {"ended", "killed"}
  /\ Goto(w, IF pc[w] = "inside" THEN "killed" ELSE "ended")
  /\ UNCHANGED <<lock, data, todo, value, snap, clock>>

ThreadStep(p) ==
  \/ CompareExchange(p) \/ Wait(p) \/ WaitTimesOut(p) \/ Store(p) \/ Notify(p)
  \/ p \in Writers /\ WriteField(p)
  \/ p = Main /\ ReadField

Next ==
  \/ \E p \in Threads : Begin(p) \/ ThreadStep(p)
  \/ \E w \in Writers : Terminate(w)

Spec == Init /\ [][Next]_vars

(* The scheduler lets every thread run on once it has called read or write. *)
FairSpec == Spec /\ \A p \in Threads : WF_vars(ThreadStep(p))

----
TypeOK ==
  /\ lock \in 0..1
  /\ data \in [Fields -> 0..MaxAccesses]
  /\ pc \in [Threads -> Places]
  /\ todo \in [Threads -> SUBSET Fields]
  /\ value \in [Writers -> 0..MaxAccesses]
  /\ snap \in [Fields -> 0..MaxAccesses]
  /\ clock \in 0..MaxAccesses

Holds(p) == pc[p] \in {"inside", "killed"}

(* At most one thread is inside the lock, one that was terminated there
   included, and the lock word says whether there is one: it is never freed by
   a thread that does not hold it. *)
LockHasOneHolder ==
  /\ lock = 1 <=> \E p \in Threads : Holds(p)
  /\ \A p, q \in Threads : Holds(p) /\ Holds(q) => p = q

Dumped == pc[Main] \notin {"inside", "killed"}

(* A dump shows the fields of a worker as one collection left them, never half
   of one and half of the next, and a time no older than any of them. *)
DumpIsWhole ==
  Dumped => \A w \in Writers : \A f, g \in FieldsOf[w] :
              snap[f] = snap[g] /\ snap[UpdatedAt] >= snap[f]

(* dumpState blocks the main thread, but not for ever: unless a worker is
   terminated while it writes, which leaves the lock taken for good. *)
DumpReturns ==
  pc[Main] = "acquire" ~> (pc[Main] = "idle" \/ \E w \in Writers : pc[w] = "killed")
====
