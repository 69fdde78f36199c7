---- MODULE WorkerManager_proofs ----
(***************************************************************************)
(* Collections that share a semaphore and workers that answer late: the    *)
(* semaphore is balanced, what is sent is whole and its own, and a metric  *)
(* worker's collections overlap only after a timeout, for any number of    *)
(* collections and ended workers.                                          *)
(***************************************************************************)
EXTENDS WorkerManager, FiniteSetTheorems, TLAPS

States == {"idle", "waiting", "skipped", "failed", "sent"}

Members(s) == {s[i] : i \in 1..Len(s)}
Distinct(s) == \A i, j \in 1..Len(s) : s[i] = s[j] => i = j

Typed ==
  /\ semaphore \in Nat
  /\ started \in 0..MaxCalls
  /\ kind \in [Calls -> Kinds]
  /\ call \in [Calls -> States]
  /\ taken \in [Calls -> [Workers -> Nat]]
  /\ inbox \in [Workers -> Seq(Calls)]
  /\ busy \in [Workers -> SUBSET Calls]
  /\ outbox \in [Workers -> Seq(Calls)]
  /\ sent \in Seq(Calls)

(* A call that has not begun has no state. *)
NotYet == \A c \in Calls : c > started => call[c] = "idle" /\ \A w \in Workers : taken[c][w] = 0

Balanced ==
  \/ semaphore = 1 /\ Holders = {}
  \/ semaphore = 0 /\ \E c \in Calls : Holders = {c}

(* No collection of metrics begins while an earlier one waits. *)
OneWaits ==
  \A c, d \in Calls :
    /\ c < d
    /\ kind[c] = "metrics" /\ kind[d] = "metrics"
    /\ call[c] = "waiting"
    => call[d] \in {"idle", "skipped"}

(* An answer is taken by the call it is for. *)
OwnAnswers == \A c \in Calls, w \in Workers : taken[c][w] \in {0, c}

SentAnswered ==
  /\ \A c \in Calls : call[c] = "sent" => \A w \in Asked(kind[c]) : taken[c][w] # 0
  /\ \A i \in 1..Len(sent) : call[sent[i]] = "sent"

(* A request is in one place: on its way, with the worker, or answered. *)
Requested(c, w) == c \in Members(inbox[w]) \union busy[w]
OnePlace ==
  \A w \in Workers :
    /\ Distinct(inbox[w])
    /\ Members(inbox[w]) \intersect busy[w] = {}
    /\ \A c \in Calls :
         /\ Requested(c, w) \/ c \in Members(outbox[w])
              => call[c] \notin {"idle", "skipped"} /\ w \in Asked(kind[c])
         /\ Requested(c, w) => c \notin Members(outbox[w]) /\ taken[c][w] = 0

IInv ==
  Typed /\ NotYet /\ Balanced /\ OneWaits /\ OwnAnswers /\ SentAnswered /\ OnePlace

----
LEMMA AppendMembers ==
  ASSUME NEW S, NEW s \in Seq(S), NEW e \in S
  PROVE  /\ Append(s, e) \in Seq(S)
         /\ Members(Append(s, e)) = Members(s) \union {e}
         /\ Distinct(s) /\ e \notin Members(s) => Distinct(Append(s, e))
<1>1. /\ Append(s, e) \in Seq(S)
      /\ Len(s) \in Nat
      /\ Len(Append(s, e)) = Len(s) + 1
      /\ Append(s, e)[Len(s) + 1] = e
      /\ \A i \in 1..Len(s) : Append(s, e)[i] = s[i]
  OBVIOUS
<1>2. \A i \in 1..(Len(s) + 1) : i \in 1..Len(s) \/ i = Len(s) + 1
  BY <1>1
<1>3. \A i \in 1..Len(s) : i \in 1..(Len(s) + 1)
  BY <1>1
<1>4. Len(s) + 1 \in 1..(Len(s) + 1)
  BY <1>1
<1>5. Members(Append(s, e)) = Members(s) \union {e}
  BY <1>1, <1>2, <1>3, <1>4 DEF Members
<1>6. ASSUME Distinct(s), e \notin Members(s) PROVE Distinct(Append(s, e))
  BY <1>1, <1>2, <1>6 DEF Distinct, Members
<1> QED
  BY <1>1, <1>5, <1>6

LEMMA TailMembers ==
  ASSUME NEW S, NEW s \in Seq(S), s # <<>>
  PROVE  /\ Tail(s) \in Seq(S)
         /\ Head(s) \in S
         /\ Members(s) = Members(Tail(s)) \union {Head(s)}
         /\ Distinct(s) => Distinct(Tail(s)) /\ Head(s) \notin Members(Tail(s))
<1>1. /\ Tail(s) \in Seq(S)
      /\ Len(s) \in Nat /\ Len(s) > 0
      /\ Len(Tail(s)) = Len(s) - 1
      /\ Head(s) = s[1]
      /\ Head(s) \in S
      /\ \A i \in 1..(Len(s) - 1) : Tail(s)[i] = s[i + 1]
  OBVIOUS
<1>2. \A i \in 1..Len(s) : i = 1 \/ (i - 1 \in 1..(Len(s) - 1) /\ Tail(s)[i - 1] = s[i])
  BY <1>1
<1>3. \A i \in 1..(Len(s) - 1) : i + 1 \in 1..Len(s) /\ i + 1 # 1
  BY <1>1
<1>4. 1 \in 1..Len(s)
  BY <1>1
<1>5. Members(s) = Members(Tail(s)) \union {Head(s)}
  BY <1>1, <1>2, <1>3, <1>4 DEF Members
<1>6. ASSUME Distinct(s) PROVE Distinct(Tail(s))
  <2> SUFFICES ASSUME NEW i \in 1..(Len(s) - 1), NEW j \in 1..(Len(s) - 1), Tail(s)[i] = Tail(s)[j]
               PROVE  i = j
    BY <1>1 DEF Distinct
  <2>1. i + 1 = j + 1
    BY <1>1, <1>3, <1>6 DEF Distinct
  <2> QED
    BY <1>1, <2>1
<1>7. ASSUME Distinct(s) PROVE Head(s) \notin Members(Tail(s))
  BY <1>1, <1>3, <1>4, <1>7 DEF Distinct, Members
<1> QED
  BY <1>1, <1>5, <1>6, <1>7

LEMMA EmptyMembers == Members(<<>>) = {} /\ Distinct(<<>>)
<1>1. 1..0 = {}
  OBVIOUS
<1> QED
  BY <1>1 DEF Members, Distinct

LEMMA InitIInv == Init => IInv
<1> SUFFICES ASSUME Init PROVE IInv
  OBVIOUS
<1>1. Typed
  BY BoundAssumption DEF Init, Typed, Kinds, States
<1>2. NotYet /\ OneWaits /\ OwnAnswers
  BY DEF Init, NotYet, OneWaits, OwnAnswers
<1>3. Balanced
  BY DEF Init, Balanced, Holders
<1>4. SentAnswered
  BY DEF Init, SentAnswered
<1>5. OnePlace
  BY EmptyMembers DEF Init, OnePlace, Requested
<1> QED
  BY <1>1, <1>2, <1>3, <1>4, <1>5 DEF IInv

----
(* Requests for a call that begins. *)
LEMMA RequestKeeps ==
  ASSUME Typed, OnePlace,
         NEW c \in Calls, NEW k \in Kinds, call[c] = "idle",
         Request(c, Asked(k)),
         kind' = [kind EXCEPT ![c] = k],
         call' = [call EXCEPT ![c] = "waiting"],
         UNCHANGED <<taken, busy, outbox>>,
         \A w \in Workers : taken[c][w] = 0
  PROVE  OnePlace' /\ inbox' \in [Workers -> Seq(Calls)]
<1>1. \A w \in Workers : ~Requested(c, w) /\ c \notin Members(outbox[w])
  BY DEF OnePlace
<1>2. ASSUME NEW w \in Workers
      PROVE  /\ inbox'[w] \in Seq(Calls)
             /\ Distinct(inbox'[w])
             /\ \/ inbox'[w] = inbox[w]
                \/ w \in Asked(k) /\ Members(inbox'[w]) = Members(inbox[w]) \union {c}
  <2>1. inbox[w] \in Seq(Calls) /\ Distinct(inbox[w]) /\ c \notin Members(inbox[w])
    BY <1>1 DEF Typed, OnePlace, Requested
  <2>2. inbox'[w] = inbox[w] \/ (w \in Asked(k) /\ inbox'[w] = Append(inbox[w], c))
    BY DEF Request
  <2>3. /\ Append(inbox[w], c) \in Seq(Calls)
        /\ Members(Append(inbox[w], c)) = Members(inbox[w]) \union {c}
        /\ Distinct(Append(inbox[w], c))
    BY <2>1, AppendMembers
  <2> QED
    BY <2>1, <2>2, <2>3
<1>3. inbox' \in [Workers -> Seq(Calls)]
  BY <1>2 DEF Request
<1>4. /\ kind'[c] = k /\ call'[c] = "waiting"
      /\ \A d \in Calls : d # c => kind'[d] = kind[d] /\ call'[d] = call[d]
  BY DEF Typed
<1>5. ASSUME NEW w \in Workers
      PROVE  /\ Members(inbox'[w]) \intersect busy'[w] = {}
             /\ \A d \in Calls : d # c =>
                  /\ Requested(d, w)' <=> Requested(d, w)
                  /\ d \in Members(outbox'[w]) <=> d \in Members(outbox[w])
  BY <1>1, <1>2 DEF OnePlace, Requested
<1>6. ASSUME NEW w \in Workers
      PROVE  /\ Requested(c, w)' => w \in Asked(k)
             /\ c \notin Members(outbox'[w])
             /\ taken'[c][w] = 0
  BY <1>1, <1>2 DEF Requested
<1>7. ASSUME NEW w \in Workers, NEW d \in Calls
      PROVE  /\ Requested(d, w)' \/ d \in Members(outbox'[w])
                  => call'[d] \notin {"idle", "skipped"} /\ w \in Asked(kind'[d])
             /\ Requested(d, w)' => d \notin Members(outbox'[w]) /\ taken'[d][w] = 0
  <2>1. CASE d = c
    BY <1>4, <1>6, <2>1
  <2>2. CASE d # c
    BY <1>4, <1>5, <2>2 DEF OnePlace
  <2> QED
    BY <2>1, <2>2
<1>8. OnePlace'
  BY <1>2, <1>5, <1>7 DEF OnePlace
<1> QED
  BY <1>3, <1>8

LEMMA CollectKeeps == ASSUME IInv, NEW k \in Kinds, Collect(k) PROVE IInv'
<1> DEFINE c == started + 1
<1>1. c \in Calls /\ c > started /\ started' = c /\ started' \in 0..MaxCalls
  BY BoundAssumption DEF Collect, IInv, Typed, Calls
<1>2. call[c] = "idle" /\ \A w \in Workers : taken[c][w] = 0
  BY <1>1 DEF IInv, NotYet
<1>3. kind' = [kind EXCEPT ![c] = k] /\ UNCHANGED <<taken, busy, outbox, sent>>
  BY <1>1 DEF Collect
<1>4. /\ kind' \in [Calls -> Kinds] /\ kind'[c] = k
      /\ \A d \in Calls : d # c => kind'[d] = kind[d]
  BY <1>1, <1>3 DEF IInv, Typed
<1>5. PICK st \in {"waiting", "skipped"} : call' = [call EXCEPT ![c] = st]
  BY <1>1 DEF Collect, CollectMetrics, CollectSecurityEvents
<1>6. /\ call' \in [Calls -> States] /\ call'[c] = st
      /\ \A d \in Calls : d # c => call'[d] = call[d]
  BY <1>1, <1>5 DEF IInv, Typed, States
<1>7. \/ /\ st = "skipped" /\ k = "metrics" /\ semaphore = 0
         /\ UNCHANGED <<semaphore, inbox>>
      \/ /\ st = "waiting" /\ k = "metrics" /\ semaphore > 0 /\ semaphore' = semaphore - 1
         /\ Request(c, Asked(k))
      \/ /\ st = "waiting" /\ k = "security" /\ semaphore' = semaphore
         /\ Request(c, Asked(k))
  <2>1. CASE k = "metrics" /\ TryAcquire
    <3>1. call' = [call EXCEPT ![c] = "waiting"] /\ semaphore' = semaphore - 1 /\ Request(c, MetricWorkers)
      BY <1>1, <2>1 DEF Collect, CollectMetrics
    <3> QED
      BY <1>1, <1>6, <2>1, <3>1 DEF TryAcquire, Asked, IInv, Typed
  <2>2. CASE k = "metrics" /\ ~TryAcquire
    <3>1. call' = [call EXCEPT ![c] = "skipped"] /\ UNCHANGED <<semaphore, inbox>>
      BY <1>1, <2>2 DEF Collect, CollectMetrics
    <3> QED
      BY <1>1, <1>6, <2>2, <3>1 DEF TryAcquire, IInv, Typed
  <2>3. CASE k = "security"
    <3>1. call' = [call EXCEPT ![c] = "waiting"] /\ semaphore' = semaphore /\ Request(c, {"security"})
      BY <1>1, <2>3 DEF Collect, CollectSecurityEvents
    <3> QED
      BY <1>1, <1>6, <2>3, <3>1 DEF Asked, IInv, Typed
  <2> QED
    BY <2>1, <2>2, <2>3 DEF Kinds
<1>8. OnePlace' /\ inbox' \in [Workers -> Seq(Calls)]
  <2>1. CASE st = "waiting"
    <3>1. Request(c, Asked(k))
      BY <1>7, <2>1
    <3> QED
      BY <1>1, <1>2, <1>3, <1>5, <2>1, <3>1, RequestKeeps DEF IInv
  <2>2. CASE st = "skipped"
    <3>1. UNCHANGED <<inbox, busy, outbox, taken>>
      BY <1>3, <1>7, <2>2
    <3>2. \A d \in Calls, w \in Workers :
            Requested(d, w) \/ d \in Members(outbox[w]) => d # c
      BY <1>2 DEF IInv, OnePlace
    <3>3. \A d \in Calls, w \in Workers : Requested(d, w)' <=> Requested(d, w)
      BY <3>1 DEF Requested
    <3>4. \A d \in Calls, w \in Workers :
            Requested(d, w)' \/ d \in Members(outbox'[w])
              => call'[d] \notin {"idle", "skipped"} /\ w \in Asked(kind'[d])
      BY <1>4, <1>6, <3>1, <3>2, <3>3 DEF IInv, OnePlace
    <3> QED
      BY <3>1, <3>3, <3>4 DEF IInv, OnePlace, Typed
  <2> QED
    BY <2>1, <2>2
<1>9. Typed'
  <2>1. semaphore' \in Nat
    BY <1>7 DEF IInv, Typed
  <2>2. /\ taken' \in [Calls -> [Workers -> Nat]]
        /\ busy' \in [Workers -> SUBSET Calls]
        /\ outbox' \in [Workers -> Seq(Calls)]
        /\ sent' \in Seq(Calls)
    BY <1>3 DEF IInv, Typed
  <2> QED
    BY <1>1, <1>4, <1>6, <1>8, <2>1, <2>2 DEF Typed
<1>10. NotYet'
  <2> SUFFICES ASSUME NEW d \in Calls, d > c
               PROVE  call'[d] = "idle" /\ \A w \in Workers : taken'[d][w] = 0
    BY <1>1 DEF NotYet
  <2>1. d # c /\ d > started
    BY <1>1 DEF IInv, Typed, Calls
  <2> QED
    BY <1>3, <1>6, <2>1 DEF IInv, NotYet
<1>11. \A d \in Calls : d # c => (d \in Holders' <=> d \in Holders)
  BY <1>4, <1>6 DEF Holders
<1>12. c \notin Holders /\ (c \in Holders' <=> st = "waiting" /\ k = "metrics")
  BY <1>1, <1>2, <1>4, <1>6 DEF Holders
<1>13. Holders \subseteq Calls /\ Holders' \subseteq Calls
  BY DEF Holders
<1>14. Balanced'
  <2>1. CASE st = "waiting" /\ k = "metrics"
    <3>1. semaphore = 1 /\ Holders = {} /\ semaphore' = 0
      BY <1>7, <2>1 DEF IInv, Balanced
    <3>2. Holders' = {c}
      BY <1>1, <1>11, <1>12, <1>13, <2>1, <3>1
    <3> QED
      BY <1>1, <3>1, <3>2 DEF Balanced
  <2>2. CASE ~(st = "waiting" /\ k = "metrics")
    <3>1. Holders' = Holders /\ semaphore' = semaphore
      BY <1>7, <1>11, <1>12, <1>13, <2>2
    <3> QED
      BY <3>1 DEF IInv, Balanced
  <2> QED
    BY <2>1, <2>2
<1>15. OneWaits'
  <2> SUFFICES ASSUME NEW d \in Calls, NEW e \in Calls, d < e,
                      kind'[d] = "metrics", kind'[e] = "metrics", call'[d] = "waiting"
               PROVE  call'[e] \in {"idle", "skipped"}
    BY DEF OneWaits
  <2>1. CASE d # c /\ e # c
    BY <1>4, <1>6, <2>1 DEF IInv, OneWaits
  <2>2. CASE d = c
    BY <1>1, <1>6, <2>2 DEF IInv, NotYet, Typed, Calls
  <2>3. CASE e = c /\ d # c
    <3>1. d \in Holders
      BY <1>4, <1>6, <2>3 DEF Holders
    <3>2. k = "metrics" /\ semaphore = 0
      BY <1>4, <2>3, <3>1 DEF IInv, Balanced
    <3> QED
      BY <1>6, <1>7, <2>3, <3>2
  <2> QED
    BY <2>1, <2>2, <2>3
<1>16. OwnAnswers'
  BY <1>3 DEF IInv, OwnAnswers
<1>17. SentAnswered'
  <2>1. \A d \in Calls : call'[d] = "sent" => d # c
    BY <1>6
  <2>2. \A d \in Calls : call[d] = "sent" => d # c
    BY <1>2
  <2>3. \A i \in 1..Len(sent) : sent[i] \in Calls
    BY DEF IInv, Typed
  <2> QED
    BY <1>3, <1>4, <1>6, <2>1, <2>2, <2>3 DEF IInv, SentAnswered
<1> QED
  BY <1>8, <1>9, <1>10, <1>14, <1>15, <1>16, <1>17 DEF IInv

----
LEMMA WorkerTakesKeeps == ASSUME IInv, NEW v \in Workers, WorkerTakes(v) PROVE IInv'
<1> DEFINE c == Head(inbox[v])
<1>1. inbox[v] \in Seq(Calls) /\ inbox[v] # <<>> /\ Distinct(inbox[v])
  BY DEF WorkerTakes, IInv, Typed, OnePlace
<1>2. /\ Tail(inbox[v]) \in Seq(Calls) /\ c \in Calls
      /\ Members(inbox[v]) = Members(Tail(inbox[v])) \union {c}
      /\ Distinct(Tail(inbox[v])) /\ c \notin Members(Tail(inbox[v]))
  BY <1>1, TailMembers
<1>3. /\ inbox' = [inbox EXCEPT ![v] = Tail(inbox[v])]
      /\ busy' = [busy EXCEPT ![v] = busy[v] \union {c}]
      /\ UNCHANGED <<semaphore, started, kind, call, listening, taken, outbox, sent>>
  BY DEF WorkerTakes, requestVars
<1>4. /\ inbox' \in [Workers -> Seq(Calls)] /\ inbox'[v] = Tail(inbox[v])
      /\ busy' \in [Workers -> SUBSET Calls] /\ busy'[v] = busy[v] \union {c}
      /\ \A w \in Workers : w # v => inbox'[w] = inbox[w] /\ busy'[w] = busy[w]
  BY <1>2, <1>3 DEF IInv, Typed
<1>5. Typed'
  BY <1>3, <1>4 DEF IInv, Typed
<1>6. NotYet' /\ Balanced' /\ OneWaits' /\ OwnAnswers' /\ SentAnswered'
  BY <1>3 DEF IInv, NotYet, Balanced, Holders, OneWaits, OwnAnswers, SentAnswered
<1>7. ASSUME NEW w \in Workers
      PROVE  /\ Distinct(inbox'[w])
             /\ Members(inbox'[w]) \intersect busy'[w] = {}
             /\ \A d \in Calls : Requested(d, w)' <=> Requested(d, w)
  <2>1. CASE w = v
    <3>1. c \notin busy[v] /\ Members(inbox[v]) \intersect busy[v] = {}
      BY <1>2 DEF IInv, OnePlace
    <3> QED
      BY <1>2, <1>4, <2>1, <3>1 DEF Requested
  <2>2. CASE w # v
    BY <1>4, <2>2 DEF IInv, OnePlace, Requested
  <2> QED
    BY <2>1, <2>2
<1>8. OnePlace'
  BY <1>3, <1>7 DEF IInv, OnePlace
<1> QED
  BY <1>5, <1>6, <1>8 DEF IInv

LEMMA WorkerAnswersKeeps ==
  ASSUME IInv, NEW v \in Workers, NEW c \in Calls, WorkerAnswers(v, c) PROVE IInv'
<1>1. c \in busy[v] /\ outbox[v] \in Seq(Calls) /\ busy[v] \subseteq Calls
  BY DEF WorkerAnswers, IInv, Typed
<1>2. /\ Append(outbox[v], c) \in Seq(Calls)
      /\ Members(Append(outbox[v], c)) = Members(outbox[v]) \union {c}
  BY <1>1, AppendMembers
<1>3. /\ busy' = [busy EXCEPT ![v] = busy[v] \ {c}]
      /\ outbox' = [outbox EXCEPT ![v] = Append(outbox[v], c)]
      /\ UNCHANGED <<semaphore, started, kind, call, listening, taken, inbox, sent>>
  BY DEF WorkerAnswers, requestVars
<1>4. /\ outbox' \in [Workers -> Seq(Calls)] /\ Members(outbox'[v]) = Members(outbox[v]) \union {c}
      /\ busy' \in [Workers -> SUBSET Calls] /\ busy'[v] = busy[v] \ {c}
      /\ \A w \in Workers : w # v => outbox'[w] = outbox[w] /\ busy'[w] = busy[w]
  BY <1>1, <1>2, <1>3 DEF IInv, Typed
<1>5. Typed'
  BY <1>3, <1>4 DEF IInv, Typed
<1>6. NotYet' /\ Balanced' /\ OneWaits' /\ OwnAnswers' /\ SentAnswered'
  BY <1>3 DEF IInv, NotYet, Balanced, Holders, OneWaits, OwnAnswers, SentAnswered
<1>7. c \notin Members(inbox[v]) /\ Requested(c, v)
  BY <1>1 DEF IInv, OnePlace, Requested
<1>8. ASSUME NEW w \in Workers, NEW d \in Calls
      PROVE  /\ Requested(d, w)' => Requested(d, w) /\ ~(d = c /\ w = v)
             /\ d \in Members(outbox'[w]) => d \in Members(outbox[w]) \/ (d = c /\ w = v)
  BY <1>3, <1>4, <1>7 DEF Requested
<1>9. ASSUME NEW w \in Workers
      PROVE  Distinct(inbox'[w]) /\ Members(inbox'[w]) \intersect busy'[w] = {}
  BY <1>3, <1>4 DEF IInv, OnePlace
<1>10. ASSUME NEW w \in Workers, NEW d \in Calls
       PROVE  /\ Requested(d, w)' \/ d \in Members(outbox'[w])
                   => call'[d] \notin {"idle", "skipped"} /\ w \in Asked(kind'[d])
              /\ Requested(d, w)' => d \notin Members(outbox'[w]) /\ taken'[d][w] = 0
  BY <1>3, <1>7, <1>8 DEF IInv, OnePlace
<1>11. OnePlace'
  BY <1>9, <1>10 DEF OnePlace
<1> QED
  BY <1>5, <1>6, <1>11 DEF IInv

LEMMA WorkerEndsKeeps == ASSUME IInv, NEW v \in Workers, WorkerEnds(v) PROVE IInv'
<1>1. /\ inbox' = [inbox EXCEPT ![v] = <<>>]
      /\ busy' = [busy EXCEPT ![v] = {}]
      /\ UNCHANGED <<semaphore, started, kind, call, listening, taken, outbox, sent>>
  BY DEF WorkerEnds, requestVars
<1>2. <<>> \in Seq(Calls)
  OBVIOUS
<1>3. /\ inbox' \in [Workers -> Seq(Calls)] /\ inbox'[v] = <<>>
      /\ busy' \in [Workers -> SUBSET Calls] /\ busy'[v] = {}
      /\ \A w \in Workers : w # v => inbox'[w] = inbox[w] /\ busy'[w] = busy[w]
  BY <1>1, <1>2 DEF IInv, Typed
<1>4. Typed'
  BY <1>1, <1>3 DEF IInv, Typed
<1>5. NotYet' /\ Balanced' /\ OneWaits' /\ OwnAnswers' /\ SentAnswered'
  BY <1>1 DEF IInv, NotYet, Balanced, Holders, OneWaits, OwnAnswers, SentAnswered
<1>6. ASSUME NEW w \in Workers
      PROVE  /\ Distinct(inbox'[w])
             /\ Members(inbox'[w]) \intersect busy'[w] = {}
             /\ \A d \in Calls : Requested(d, w)' => Requested(d, w)
  <2>1. CASE w = v
    BY <1>3, <2>1, EmptyMembers DEF Requested
  <2>2. CASE w # v
    BY <1>3, <2>2 DEF IInv, OnePlace, Requested
  <2> QED
    BY <2>1, <2>2
<1>7. OnePlace'
  BY <1>1, <1>6 DEF IInv, OnePlace
<1> QED
  BY <1>4, <1>5, <1>7 DEF IInv

----
(* A waiting call ends and gives back what it holds. *)
LEMMA EndKeeps ==
  ASSUME Typed, Balanced, OneWaits, NotYet,
         NEW c \in Calls, call[c] = "waiting",
         NEW st \in {"sent", "failed"},
         call' = [call EXCEPT ![c] = st],
         Release(c),
         UNCHANGED kind
  PROVE  /\ semaphore' \in Nat
         /\ call' \in [Calls -> States]
         /\ call'[c] = st
         /\ \A d \in Calls : d # c => call'[d] = call[d]
         /\ Balanced'
         /\ OneWaits'
<1>1. call' \in [Calls -> States] /\ call'[c] = st /\ \A d \in Calls : d # c => call'[d] = call[d]
  BY DEF Typed, States
<1>2. semaphore' \in Nat
  BY DEF Release, Typed
<1>3. Holders' = Holders \ {c}
  BY <1>1 DEF Holders
<1>4. c \in Holders <=> kind[c] = "metrics"
  BY DEF Holders
<1>5. Balanced'
  <2>1. CASE kind[c] = "metrics"
    <3>1. semaphore = 0 /\ Holders = {c}
      BY <1>4, <2>1 DEF Balanced
    <3>2. semaphore' = 1 /\ Holders' = {}
      BY <1>3, <2>1, <3>1 DEF Release
    <3> QED
      BY <3>2 DEF Balanced
  <2>2. CASE kind[c] # "metrics"
    <3>1. semaphore' = semaphore /\ Holders' = Holders
      BY <1>3, <1>4, <2>2 DEF Release
    <3> QED
      BY <3>1 DEF Balanced
  <2> QED
    BY <2>1, <2>2
<1>6. OneWaits'
  <2> SUFFICES ASSUME NEW d \in Calls, NEW e \in Calls, d < e,
                      kind[d] = "metrics", kind[e] = "metrics", call'[d] = "waiting"
               PROVE  call'[e] \in {"idle", "skipped"}
    BY DEF OneWaits
  <2>1. call[d] = "waiting"
    BY <1>1
  <2>2. call[e] \in {"idle", "skipped"}
    BY <2>1 DEF OneWaits
  <2>3. e # c
    BY <2>2
  <2> QED
    BY <1>1, <2>2, <2>3
<1> QED
  BY <1>1, <1>2, <1>5, <1>6

LEMMA StutterKeeps ==
  ASSUME IInv, UNCHANGED <<semaphore, started, kind, call, taken, inbox, busy, outbox, sent>>
  PROVE  IInv'
<1>1. Typed'
  BY DEF IInv, Typed
<1>2. NotYet' /\ Balanced' /\ OneWaits'
  BY DEF IInv, NotYet, Balanced, Holders, OneWaits
<1>3. OwnAnswers' /\ SentAnswered'
  BY DEF IInv, OwnAnswers, SentAnswered
<1>4. OnePlace'
  BY DEF IInv, OnePlace, Requested
<1> QED
  BY <1>1, <1>2, <1>3, <1>4 DEF IInv

LEMMA TimesOutKeeps ==
  ASSUME IInv, NEW c \in Calls, NEW v \in Workers, TimesOut(c, v) PROVE IInv'
<1>1. UNCHANGED <<started, kind, taken, inbox, busy, outbox, sent>>
  BY DEF TimesOut, workerVars
<1>2. CASE call[c] # "waiting"
  <2>1. UNCHANGED <<call, semaphore>>
    BY <1>2 DEF TimesOut
  <2> QED
    BY <1>1, <2>1, StutterKeeps
<1>3. CASE call[c] = "waiting"
  <2>1. call' = [call EXCEPT ![c] = "failed"] /\ Release(c)
    BY <1>3 DEF TimesOut
  <2>2. /\ semaphore' \in Nat /\ call' \in [Calls -> States]
        /\ call'[c] = "failed" /\ \A d \in Calls : d # c => call'[d] = call[d]
        /\ Balanced' /\ OneWaits'
    BY <1>1, <1>3, <2>1, EndKeeps DEF IInv
  <2>3. Typed'
    BY <1>1, <2>2 DEF IInv, Typed
  <2>4. NotYet' /\ OwnAnswers'
    BY <1>1, <1>3, <2>2 DEF IInv, NotYet, OwnAnswers
  <2>5. SentAnswered'
    <3>1. \A i \in 1..Len(sent) : sent[i] \in Calls
      BY DEF IInv, Typed
    <3> QED
      BY <1>1, <1>3, <2>2, <3>1 DEF IInv, SentAnswered
  <2>6. OnePlace'
    <3>1. \A d \in Calls : call[d] \notin {"idle", "skipped"} => call'[d] \notin {"idle", "skipped"}
      BY <2>2
    <3> QED
      BY <1>1, <3>1 DEF IInv, OnePlace, Requested
  <2> QED
    BY <2>2, <2>3, <2>4, <2>5, <2>6 DEF IInv
<1> QED
  BY <1>2, <1>3

LEMMA AnswerArrivesKeeps == ASSUME IInv, NEW v \in Workers, AnswerArrives(v) PROVE IInv'
<1> DEFINE r == Head(outbox[v])
<1>1. outbox[v] \in Seq(Calls) /\ outbox[v] # <<>>
  BY DEF AnswerArrives, IInv, Typed
<1>2. /\ Tail(outbox[v]) \in Seq(Calls) /\ r \in Calls
      /\ Members(outbox[v]) = Members(Tail(outbox[v])) \union {r}
  BY <1>1, TailMembers
<1>3. outbox' = [outbox EXCEPT ![v] = Tail(outbox[v])] /\ UNCHANGED <<started, kind, inbox, busy>>
  BY DEF AnswerArrives
<1>4. /\ outbox' \in [Workers -> Seq(Calls)] /\ outbox'[v] = Tail(outbox[v])
      /\ \A w \in Workers : w # v => outbox'[w] = outbox[w]
  BY <1>2, <1>3 DEF IInv, Typed
<1>5. \A w \in Workers : Members(outbox'[w]) \subseteq Members(outbox[w])
  BY <1>2, <1>4
<1>6. \A d \in Calls, w \in Workers : Requested(d, w)' <=> Requested(d, w)
  BY <1>3 DEF Requested
<1>7. call[r] \notin {"idle", "skipped"} /\ ~Requested(r, v)
  BY <1>2 DEF IInv, OnePlace
<1>8. CASE <<r, v>> \notin listening
  <2>1. UNCHANGED <<semaphore, call, taken, sent>>
    BY <1>8 DEF AnswerArrives, requestVars
  <2>2. Typed'
    BY <1>3, <1>4, <2>1 DEF IInv, Typed
  <2>3. NotYet' /\ Balanced' /\ OneWaits' /\ OwnAnswers' /\ SentAnswered'
    BY <1>3, <2>1 DEF IInv, NotYet, Balanced, Holders, OneWaits, OwnAnswers, SentAnswered
  <2>4. OnePlace'
    BY <1>3, <1>5, <1>6, <2>1 DEF IInv, OnePlace
  <2> QED
    BY <2>2, <2>3, <2>4 DEF IInv
<1>9. CASE <<r, v>> \in listening
  <2>1. Take(r, v, r)
    BY <1>9 DEF AnswerArrives
  <2>2. /\ taken' = [taken EXCEPT ![r][v] = r]
        /\ taken' \in [Calls -> [Workers -> Nat]]
        /\ taken'[r][v] = r
        /\ \A d \in Calls, w \in Workers : (d # r \/ w # v) => taken'[d][w] = taken[d][w]
    <3>1. taken' = [taken EXCEPT ![r][v] = r] /\ r \in Nat
      BY <1>2, <2>1 DEF Take, Calls
    <3> QED
      BY <1>2, <3>1 DEF IInv, Typed
  <2>3. OwnAnswers'
    BY <1>2, <2>2 DEF IInv, OwnAnswers
  <2>4. r # 0
    BY <1>2 DEF Calls
  <2>5. r <= started
    BY <1>2, <1>7 DEF IInv, NotYet, Typed, Calls
  <2>6. ASSUME \A d \in Calls : call[d] \notin {"idle", "skipped"} => call'[d] \notin {"idle", "skipped"}
        PROVE  OnePlace'
    <3>1. ASSUME NEW w \in Workers, NEW d \in Calls, Requested(d, w)' PROVE taken'[d][w] = 0
      BY <1>2, <1>6, <1>7, <2>2, <3>1 DEF IInv, OnePlace
    <3> QED
      BY <1>3, <1>5, <1>6, <2>6, <3>1 DEF IInv, OnePlace
  <2>7. CASE call[r] = "waiting" /\ Answered(r)
    <3>1. call' = [call EXCEPT ![r] = "sent"] /\ sent' = Append(sent, r) /\ Release(r)
      BY <2>1, <2>7 DEF Take
    <3>2. /\ semaphore' \in Nat /\ call' \in [Calls -> States]
          /\ call'[r] = "sent" /\ \A d \in Calls : d # r => call'[d] = call[d]
          /\ Balanced' /\ OneWaits'
      BY <1>2, <1>3, <2>7, <3>1, EndKeeps DEF IInv
    <3>3. sent' \in Seq(Calls) /\ Members(sent') = Members(sent) \union {r}
      BY <1>2, <3>1, AppendMembers DEF IInv, Typed
    <3>4. Typed'
      BY <1>3, <1>4, <2>2, <3>2, <3>3 DEF IInv, Typed
    <3>5. NotYet'
      <4> SUFFICES ASSUME NEW d \in Calls, d > started
                   PROVE  call'[d] = "idle" /\ \A w \in Workers : taken'[d][w] = 0
        BY <1>3 DEF NotYet
      <4>1. d # r
        BY <2>5 DEF IInv, Typed, Calls
      <4> QED
        BY <2>2, <3>2, <4>1 DEF IInv, NotYet
    <3>6. SentAnswered'
      <4>1. \A d \in Members(sent') : call'[d] = "sent"
        <5>1. \A d \in Members(sent) : d \in Calls /\ call[d] = "sent"
          BY DEF Members, IInv, Typed, SentAnswered
        <5> QED
          BY <3>2, <3>3, <5>1
      <4>2. \A i \in 1..Len(sent') : call'[sent'[i]] = "sent"
        BY <4>1 DEF Members
      <4>3. \A d \in Calls : d # r /\ call'[d] = "sent" => \A w \in Asked(kind'[d]) : taken'[d][w] # 0
        <5>1. \A d \in Calls : Asked(kind[d]) \subseteq Workers
          BY DEF Asked, Workers
        <5> QED
          BY <1>3, <2>2, <3>2, <5>1 DEF IInv, SentAnswered
      <4>4. \A w \in Asked(kind'[r]) : taken'[r][w] # 0
        BY <1>3, <2>7 DEF Answered
      <4> QED
        BY <4>2, <4>3, <4>4 DEF SentAnswered
    <3>7. OnePlace'
      BY <2>6, <3>2
    <3> QED
      BY <2>3, <3>2, <3>4, <3>5, <3>6, <3>7 DEF IInv
  <2>8. CASE ~(call[r] = "waiting" /\ Answered(r))
    <3>1. UNCHANGED <<call, sent, semaphore>>
      BY <2>1, <2>8 DEF Take
    <3>2. Typed'
      BY <1>3, <1>4, <2>2, <3>1 DEF IInv, Typed
    <3>3. NotYet'
      <4> SUFFICES ASSUME NEW d \in Calls, d > started
                   PROVE  call'[d] = "idle" /\ \A w \in Workers : taken'[d][w] = 0
        BY <1>3 DEF NotYet
      <4>1. d # r
        BY <2>5 DEF IInv, Typed, Calls
      <4> QED
        BY <2>2, <3>1, <4>1 DEF IInv, NotYet
    <3>4. Balanced' /\ OneWaits'
      BY <1>3, <3>1 DEF IInv, Balanced, Holders, OneWaits
    <3>5. SentAnswered'
      <4>1. \A d \in Calls : Asked(kind[d]) \subseteq Workers
        BY DEF Asked, Workers
      <4>2. \A d \in Calls, w \in Workers : taken[d][w] # 0 => taken'[d][w] # 0
        BY <2>2, <2>4
      <4> QED
        BY <1>3, <3>1, <4>1, <4>2 DEF IInv, SentAnswered
    <3>6. OnePlace'
      BY <2>6, <3>1
    <3> QED
      BY <2>3, <3>2, <3>3, <3>4, <3>5, <3>6 DEF IInv
  <2> QED
    BY <2>7, <2>8
<1> QED
  BY <1>8, <1>9

LEMMA NextIInv == IInv /\ [Next]_vars => IInv'
<1> SUFFICES ASSUME IInv, [Next]_vars PROVE IInv'
  OBVIOUS
<1>1. ASSUME NEW k \in Kinds, Collect(k) PROVE IInv'
  BY <1>1, CollectKeeps
<1>2. ASSUME NEW w \in Workers, WorkerStep(w) \/ WorkerFails(w) \/ Terminated(w) PROVE IInv'
  BY <1>2, WorkerTakesKeeps, WorkerAnswersKeeps, WorkerEndsKeeps DEF WorkerStep, WorkerFails, Terminated
<1>3. CASE Stop \/ UNCHANGED vars
  <2>1. UNCHANGED <<semaphore, started, kind, call, taken, inbox, busy, outbox, sent>>
    BY <1>3 DEF Stop, vars, requestVars, workerVars
  <2> QED
    BY <2>1, StutterKeeps
<1>4. CASE MainStep
  BY <1>4, AnswerArrivesKeeps, TimesOutKeeps DEF MainStep
<1> QED
  BY <1>1, <1>2, <1>3, <1>4 DEF Next

LEMMA Invariance == Spec => []IInv
<1> QED
  BY InitIInv, NextIInv, PTL DEF Spec

----
(* The semaphore is free exactly when no metric collection waits. *)
THEOREM Balance == Spec => []SemaphoreBalanced
<1>1. IInv => SemaphoreBalanced
  <2> SUFFICES ASSUME IInv PROVE SemaphoreBalanced
    OBVIOUS
  <2>1. CASE semaphore = 1 /\ Holders = {}
    BY <2>1, FS_EmptySet DEF SemaphoreBalanced
  <2>2. ASSUME semaphore = 0, NEW c \in Calls, Holders = {c} PROVE SemaphoreBalanced
    <3>1. Cardinality({c}) = 1
      BY FS_Singleton
    <3> QED
      BY <2>2, <3>1 DEF SemaphoreBalanced
  <2> QED
    BY <2>1, <2>2 DEF IInv, Balanced
<1> QED
  BY <1>1, Invariance, PTL

(* What is sent has every answer, each to its own requests. *)
THEOREM Freshness == Spec => []SentIsWholeAndFresh
<1>1. IInv => SentIsWholeAndFresh
  <2> SUFFICES ASSUME IInv, NEW i \in 1..Len(sent), NEW w \in Asked(kind[sent[i]])
               PROVE  taken[sent[i]][w] = sent[i]
    BY DEF SentIsWholeAndFresh
  <2>1. sent[i] \in Calls /\ w \in Workers
    BY DEF IInv, Typed, Asked, Workers
  <2> QED
    BY <2>1 DEF IInv, SentAnswered, OwnAnswers
<1> QED
  BY <1>1, Invariance, PTL

(* A metric worker has two collections only when the earlier one was given up. *)
THEOREM Overlap == Spec => []OverlapNeedsTimeout
<1>1. IInv => OverlapNeedsTimeout
  <2> SUFFICES ASSUME IInv, NEW w \in MetricWorkers, NEW c \in busy[w], NEW d \in busy[w], c < d
               PROVE  call[c] = "failed"
    BY DEF OverlapNeedsTimeout
  <2>1. w \in Workers /\ c \in Calls /\ d \in Calls
    BY DEF IInv, Typed, Workers
  <2>2. /\ call[c] \notin {"idle", "skipped"} /\ w \in Asked(kind[c]) /\ taken[c][w] = 0
        /\ call[d] \notin {"idle", "skipped"} /\ w \in Asked(kind[d])
    BY <2>1 DEF IInv, OnePlace, Requested
  <2>3. kind[c] = "metrics" /\ kind[d] = "metrics"
    BY <2>1, <2>2 DEF IInv, Typed, Asked, MetricWorkers, Kinds
  <2>4. call[c] # "sent"
    BY <2>1, <2>2 DEF IInv, SentAnswered
  <2>5. call[c] # "waiting"
    BY <2>1, <2>2, <2>3 DEF IInv, OneWaits
  <2> QED
    BY <2>1, <2>2, <2>4, <2>5 DEF IInv, Typed, States
<1> QED
  BY <1>1, Invariance, PTL
====
