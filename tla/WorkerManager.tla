---- MODULE WorkerManager ----
(***************************************************************************)
(* Collections of the agent: packages/agent/src/ipc/worker-manager.ts with *)
(* Semaphore, the message loops of the three worker threads, and the two   *)
(* collectAndSend methods of AgentRuntime.                                 *)
(*                                                                         *)
(* A call of collectMetrics asks the system and the io worker, one of      *)
(* collectSecurityEvents the security worker.  Requests and answers are    *)
(* messages; each request has a 5 s timer, and an answer that comes after  *)
(* its timer has lost its listener.  The workers' handlers are async: a    *)
(* worker takes a request while it still awaits files for an earlier one.  *)
(* An exception in a handler ends the worker, and nothing starts it again. *)
(***************************************************************************)
EXTENDS Integers, FiniteSets, Sequences

CONSTANTS
  MaxCalls,    \* collections started, by a timer or a signal (bound)
  MaxSecurity, \* those of them that ask for security events (bound)
  MaxFailures  \* workers that end in an exception (bound)

ASSUME BoundAssumption == MaxCalls \in Nat /\ MaxSecurity \in Nat /\ MaxFailures \in Nat

Calls == 1..MaxCalls
MetricWorkers == {"system", "io"}
Workers == MetricWorkers \union {"security"}
Kinds == {"metrics", "security"}

Asked(kind) == IF kind = "metrics" THEN MetricWorkers ELSE {"security"}

VARIABLES
  semaphore,   \* collectionSemaphore
  started,     \* calls so far; a call's number stands for its requestIds
  kind,        \* kind of each call
  call,        \* state of each call
  listening,   \* <<call, worker>> with a 'message' listener and a timer
  taken,       \* taken[c][w]: the request whose answer call c took from w; 0 if none
  inbox,       \* requests on their way to each worker
  busy,        \* requests each worker is handling
  outbox,      \* answers on their way back
  alive,       \* worker threads that run
  failures,
  stopping,    \* WorkerManager.stop was called
  sent         \* calls whose results went to the TCP client, in that order

requestVars == <<listening, taken>>
workerVars == <<inbox, busy, outbox, alive>>
vars == <<semaphore, started, kind, call, requestVars, workerVars, failures, stopping, sent>>

Init ==
  /\ semaphore = 1
  /\ started = 0
  /\ kind = [c \in Calls |-> "metrics"]
  /\ call = [c \in Calls |-> "idle"]
  /\ listening = {}
  /\ taken = [c \in Calls |-> [w \in Workers |-> 0]]
  /\ inbox = [w \in Workers |-> <<>>]
  /\ busy = [w \in Workers |-> {}]
  /\ outbox = [w \in Workers |-> <<>>]
  /\ alive = Workers
  /\ failures = 0
  /\ stopping = FALSE
  /\ sent = <<>>

----
\* Mutant: the semaphore is taken without a look at its value.
TryAcquireBlind == TRUE

(* Semaphore.tryAcquire; only the main thread touches this semaphore. *)
TryAcquire == semaphore > 0

(* requestMetrics and requestSecurityEvents; a message to a worker that has
   ended goes nowhere. *)
Request(c, ws) ==
  /\ listening' = listening \union {<<c, w>> : w \in ws}
  /\ inbox' = [w \in Workers |-> IF w \in ws \intersect alive THEN Append(inbox[w], c) ELSE inbox[w]]

CollectMetrics(c) ==
  IF TryAcquire
  THEN /\ semaphore' = semaphore - 1
       /\ call' = [call EXCEPT ![c] = "waiting"]
       /\ Request(c, MetricWorkers)
  ELSE /\ call' = [call EXCEPT ![c] = "skipped"]
       /\ UNCHANGED <<semaphore, listening, inbox>>

CollectSecurityEvents(c) ==
  /\ call' = [call EXCEPT ![c] = "waiting"]
  /\ Request(c, {"security"})
  /\ UNCHANGED semaphore

(* An interval fires or SIGUSR1 arrives. *)
Collect(k) ==
  /\ started < MaxCalls
  /\ k = "security" => Cardinality({c \in 1..started : kind[c] = k}) < MaxSecurity
  /\ started' = started + 1
  /\ kind' = [kind EXCEPT ![started'] = k]
  /\ IF k = "metrics" THEN CollectMetrics(started') ELSE CollectSecurityEvents(started')
  /\ UNCHANGED <<taken, busy, outbox, alive, failures, stopping, sent>>

(* The worker's 'message' handler starts and runs up to its first await. *)
WorkerTakes(w) ==
  /\ w \in alive
  /\ inbox[w] # <<>>
  /\ inbox' = [inbox EXCEPT ![w] = Tail(@)]
  /\ busy' = [busy EXCEPT ![w] = @ \union {Head(inbox[w])}]
  /\ UNCHANGED <<semaphore, started, kind, call, requestVars, outbox, alive, failures, stopping, sent>>

(* The handler has collected everything and posts its result. *)
WorkerAnswers(w, c) ==
  /\ w \in alive
  /\ c \in busy[w]
  /\ busy' = [busy EXCEPT ![w] = @ \ {c}]
  /\ outbox' = [outbox EXCEPT ![w] = Append(@, c)]
  /\ UNCHANGED <<semaphore, started, kind, call, requestVars, inbox, alive, failures, stopping, sent>>

WorkerEnds(w) ==
  /\ w \in alive
  /\ alive' = alive \ {w}
  /\ inbox' = [inbox EXCEPT ![w] = <<>>]
  /\ busy' = [busy EXCEPT ![w] = {}]
  /\ UNCHANGED <<semaphore, started, kind, call, requestVars, outbox, stopping, sent>>

(* A collector or monitor throws: the error is logged. *)
WorkerFails(w) ==
  /\ failures < MaxFailures
  /\ failures' = failures + 1
  /\ busy[w] # {}
  /\ WorkerEnds(w)

(* stop: every worker is terminated, whatever it is doing. *)
Stop ==
  /\ ~stopping
  /\ stopping' = TRUE
  /\ UNCHANGED <<semaphore, started, kind, call, requestVars, workerVars, failures, sent>>

Terminated(w) ==
  /\ stopping
  /\ WorkerEnds(w)
  /\ UNCHANGED failures

\* Mutant: the semaphore is not released.
ReleaseNothing(c) == UNCHANGED semaphore

(* The finally block of collectMetrics. *)
Release(c) == semaphore' = IF kind[c] = "metrics" THEN semaphore + 1 ELSE semaphore

\* Mutant: Promise.race instead of Promise.all.
AnsweredOnce(c) == \E w \in Asked(kind[c]) : taken'[c][w] # 0

(* Promise.all, after the message just delivered. *)
Answered(c) == \A w \in Asked(kind[c]) : taken'[c][w] # 0

(* Call c takes answer r of worker w.  The promise resolves, and what depends
   on it runs before any other callback: the results go to the client. *)
Take(c, w, r) ==
  /\ taken' = [taken EXCEPT ![c][w] = r]
  /\ listening' = listening \ {<<c, w>>}
  /\ IF call[c] = "waiting" /\ Answered(c)
     THEN /\ call' = [call EXCEPT ![c] = "sent"]
          /\ sent' = Append(sent, c)
          /\ Release(c)
     ELSE UNCHANGED <<call, sent, semaphore>>

\* Mutant: any answer of the worker is taken, whatever its requestId.
AnswerArrivesUnchecked(w) ==
  /\ outbox[w] # <<>>
  /\ outbox' = [outbox EXCEPT ![w] = Tail(@)]
  /\ IF \E c \in Calls : <<c, w>> \in listening
     THEN \E c \in Calls : <<c, w>> \in listening /\ Take(c, w, Head(outbox[w]))
     ELSE UNCHANGED <<semaphore, call, requestVars, sent>>
  /\ UNCHANGED <<started, kind, inbox, busy, alive, failures, stopping>>

(* handleMessage; an answer nobody listens for is dropped. *)
AnswerArrives(w) ==
  /\ outbox[w] # <<>>
  /\ outbox' = [outbox EXCEPT ![w] = Tail(@)]
  /\ LET r == Head(outbox[w])
     IN  IF <<r, w>> \in listening
         THEN Take(r, w, r)
         ELSE UNCHANGED <<semaphore, call, requestVars, sent>>
  /\ UNCHANGED <<started, kind, inbox, busy, alive, failures, stopping>>

\* Mutant: the timer of each request releases the semaphore.
TimesOutTwice(c, w) ==
  /\ <<c, w>> \in listening
  /\ listening' = listening \ {<<c, w>>}
  /\ call' = [call EXCEPT ![c] = "failed"]
  /\ Release(c)
  /\ UNCHANGED <<started, kind, taken, workerVars, failures, stopping, sent>>

(* The timer of a request rejects its promise.  The first rejection fails the
   whole call; the other request keeps its listener until its own timer. *)
TimesOut(c, w) ==
  /\ <<c, w>> \in listening
  /\ listening' = listening \ {<<c, w>>}
  /\ IF call[c] = "waiting"
     THEN call' = [call EXCEPT ![c] = "failed"] /\ Release(c)
     ELSE UNCHANGED <<call, semaphore>>
  /\ UNCHANGED <<started, kind, taken, workerVars, failures, stopping, sent>>

MainStep ==
  \/ \E w \in Workers : AnswerArrives(w)
  \/ \E c \in Calls, w \in Workers : TimesOut(c, w)

WorkerStep(w) == WorkerTakes(w) \/ \E c \in Calls : WorkerAnswers(w, c)

Next ==
  \/ \E k \in Kinds : Collect(k)
  \/ \E w \in Workers : WorkerStep(w) \/ WorkerFails(w) \/ Terminated(w)
  \/ Stop
  \/ MainStep

Spec == Init /\ [][Next]_vars

(* The main thread handles messages and timers; nothing is owed by a worker. *)
FairSpec == Spec /\ WF_vars(MainStep)

----
Holders == {c \in Calls : kind[c] = "metrics" /\ call[c] = "waiting"}

(* The semaphore is free exactly when no metric collection waits, through
   answers, one or two timeouts and ended workers: it is neither released twice,
   which would let two collections run, nor lost, which would end them all. *)
SemaphoreBalanced == semaphore + Cardinality(Holders) = 1

(* What is sent is whole and its own: every worker asked has answered, and to
   this very request, however late the answers to earlier ones came. *)
SentIsWholeAndFresh ==
  \A i \in 1..Len(sent) : LET c == sent[i] IN
    \A w \in Asked(kind[c]) : taken[c][w] = c

(* A metric worker handles two collections at once only when the agent has
   given the earlier one up: the collectors, which remember counters between
   collections, are otherwise used by one collection at a time. *)
OverlapNeedsTimeout ==
  \A w \in MetricWorkers : \A c, d \in busy[w] : c < d => call[c] = "failed"

(* Every collection ends, and its listeners go, also when a worker has died
   or was terminated while it was asked; the next one can then acquire the
   semaphore. *)
EveryCallEnds ==
  /\ \A c \in Calls :
       call[c] = "waiting"
         ~> (call[c] \in {"sent", "failed"} /\ \A w \in Workers : <<c, w>> \notin listening)
  /\ []<>(semaphore = 1)
====
