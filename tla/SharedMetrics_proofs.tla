---- MODULE SharedMetrics_proofs ----
(***************************************************************************)
(* The lock of the shared metrics excludes, and a dump is whole, for any   *)
(* number of workers, any fields and any bound.                            *)
(***************************************************************************)
EXTENDS SharedMetrics, TLAPS

Inside(p) == pc[p] = "inside"

(* A thread inside the lock has only fields of its own left, and a writer that
   still has anything left has the time left. *)
TodoIsOwn ==
  \A w \in Writers : Inside(w) =>
    /\ todo[w] \subseteq FieldsOf[w] \union {UpdatedAt}
    /\ todo[w] # {} => UpdatedAt \in todo[w]

NothingFromTheFuture ==
  /\ \A f \in Fields : data[f] <= clock
  /\ \A w \in Writers : value[w] <= clock

(* A worker's fields are of one collection, or it is writing them: then those
   it has passed are of the new one. *)
WorkersAreWhole ==
  \A w \in Writers :
    /\ ~Holds(w) => \A f, g \in FieldsOf[w] : data[f] = data[g]
    /\ Inside(w) => \A f \in FieldsOf[w] \ todo[w] : data[f] = value[w]

Writing(w) == pc[w] = "killed" \/ (Inside(w) /\ todo[w] # {})

TimeIsLatest ==
  (\A w \in Writers : ~Writing(w)) => \A f \in Fields : data[UpdatedAt] >= data[f]

DumpFollows ==
  /\ Inside(Main) => \A f \in Fields \ todo[Main] : snap[f] = data[f]
  /\ pc[Main] \notin {"ended", "killed"}

IInv ==
  /\ TypeOK
  /\ LockHasOneHolder
  /\ TodoIsOwn
  /\ NothingFromTheFuture
  /\ WorkersAreWhole
  /\ TimeIsLatest
  /\ DumpFollows
  /\ DumpIsWhole

FieldsInFields == UpdatedAt \in Fields /\ \A w \in Writers : FieldsOf[w] \subseteq Fields

LEMMA FieldsAreFields == FieldsInFields
<1>1. UpdatedAt \in Fields
  BY DEF Fields
<1>2. ASSUME NEW w \in Writers PROVE FieldsOf[w] \subseteq Fields
  BY DEF Fields
<1> QED
  BY <1>1, <1>2 DEF FieldsInFields

LEMMA InitIInv == Init => IInv
<1> SUFFICES ASSUME Init PROVE IInv
  OBVIOUS
<1> USE BoundAssumption, MainAssumption
<1>1. TypeOK
  BY DEF Init, TypeOK, Places
<1>2. LockHasOneHolder
  BY DEF Init, LockHasOneHolder, Holds, Threads
<1>3. TodoIsOwn /\ NothingFromTheFuture /\ DumpFollows
  BY DEF Init, TodoIsOwn, NothingFromTheFuture, DumpFollows, Inside, Threads
<1>4. FieldsInFields
  BY FieldsAreFields
<1>5. WorkersAreWhole /\ TimeIsLatest
  BY <1>4 DEF Init, WorkersAreWhole, TimeIsLatest, Inside, Threads, FieldsInFields
<1>6. DumpIsWhole
  BY <1>4 DEF Init, DumpIsWhole, FieldsInFields
<1> QED
  BY <1>1, <1>2, <1>3, <1>5, <1>6 DEF IInv

(* Steps of a thread that neither enter nor leave the lock. *)
Elsewhere == {"idle", "acquire", "wait", "asleep", "notify", "ended"}

LEMMA OutsideStep ==
  ASSUME IInv,
         UNCHANGED <<lock, data, todo, snap>>,
         pc' \in [Threads -> Places],
         \A p \in Threads : pc'[p] # pc[p] => pc[p] \in Elsewhere /\ pc'[p] \in Elsewhere,
         pc'[Main] # "ended",
         value' \in [Writers -> 0..MaxAccesses],
         clock' \in 0..MaxAccesses,
         clock <= clock',
         \A w \in Writers : value'[w] # value[w] => ~Holds(w) /\ value'[w] <= clock'
  PROVE  IInv'
<1> USE BoundAssumption, MainAssumption
<1>1. TypeOK'
  BY DEF IInv, TypeOK
<1>2. \A p \in Threads : (Holds(p)' <=> Holds(p)) /\ (Inside(p)' <=> Inside(p))
                         /\ (pc'[p] = "killed" <=> pc[p] = "killed")
  BY DEF Holds, Inside, Elsewhere
<1>3. LockHasOneHolder'
  BY <1>2 DEF IInv, LockHasOneHolder
<1>4. TodoIsOwn'
  BY <1>2 DEF IInv, TodoIsOwn, Threads
<1>5. NothingFromTheFuture'
  BY DEF IInv, TypeOK, NothingFromTheFuture
<1>6. WorkersAreWhole'
  BY <1>2 DEF IInv, WorkersAreWhole, Threads, Inside, Holds
<1>7. TimeIsLatest'
  BY <1>2 DEF IInv, TimeIsLatest, Writing, Threads
<1>8. DumpFollows' /\ DumpIsWhole'
  BY <1>2 DEF IInv, DumpFollows, DumpIsWhole, Dumped, Threads, Inside, Elsewhere
<1> QED
  BY <1>1, <1>3, <1>4, <1>5, <1>6, <1>7, <1>8 DEF IInv

LEMMA EnterStep ==
  ASSUME IInv, NEW p \in Threads, CompareExchange(p)
  PROVE  IInv'
<1> USE BoundAssumption, MainAssumption, FieldsAssumption
<1>1. CASE lock # 0
  <2>1. Goto(p, "wait") /\ pc[p] = "acquire" /\ UNCHANGED <<lock, data, todo, value, snap, clock>>
    BY <1>1 DEF CompareExchange
  <2>2. pc' = [pc EXCEPT ![p] = "wait"]
    BY <2>1 DEF Goto
  <2>3. /\ pc' \in [Threads -> Places] /\ pc'[Main] # "ended"
        /\ \A q \in Threads : pc'[q] # pc[q] => pc[q] \in Elsewhere /\ pc'[q] \in Elsewhere
    BY <2>1, <2>2 DEF IInv, TypeOK, Places, Elsewhere, DumpFollows, Threads
  <2> QED
    BY <2>1, <2>3, OutsideStep DEF IInv, TypeOK
<1>2. CASE lock = 0
  <2>1. /\ pc[p] = "acquire"
        /\ pc' = [pc EXCEPT ![p] = "inside"]
        /\ lock' = 1
        /\ todo' = [todo EXCEPT ![p] = IF p = Main THEN Fields ELSE FieldsOf[p] \union {UpdatedAt}]
        /\ UNCHANGED <<data, value, snap, clock>>
    BY <1>2 DEF CompareExchange, Goto
  <2>2. \A q \in Threads : ~Holds(q)
    BY <1>2 DEF IInv, LockHasOneHolder
  <2>3. \A q \in Threads : q # p => ~Holds(q)' /\ ~Inside(q)' /\ pc'[q] = pc[q]
    BY <2>1, <2>2 DEF IInv, TypeOK, Holds, Inside
  <2>4. pc'[p] = "inside" /\ todo'[p] = (IF p = Main THEN Fields ELSE FieldsOf[p] \union {UpdatedAt})
    BY <2>1 DEF IInv, TypeOK
  <2>5. TypeOK'
    <3>1. (IF p = Main THEN Fields ELSE FieldsOf[p] \union {UpdatedAt}) \in SUBSET Fields
      BY FieldsAreFields DEF FieldsInFields, Threads
    <3> QED
      BY <3>1, <2>1 DEF IInv, TypeOK, Places
  <2>6. LockHasOneHolder'
    BY <2>1, <2>3, <2>4 DEF LockHasOneHolder, Holds
  <2>7. TodoIsOwn'
    BY <2>3, <2>4 DEF TodoIsOwn, Threads
  <2>8. NothingFromTheFuture'
    BY <2>1 DEF IInv, NothingFromTheFuture
  <2>9. WorkersAreWhole'
    <3> SUFFICES ASSUME NEW w \in Writers
                 PROVE  /\ ~Holds(w)' => \A f, g \in FieldsOf[w] : data'[f] = data'[g]
                        /\ Inside(w)' => \A f \in FieldsOf[w] \ todo'[w] : data'[f] = value'[w]
      BY DEF WorkersAreWhole
    <3>1. \A f, g \in FieldsOf[w] : data'[f] = data'[g]
      BY <2>1, <2>2 DEF IInv, WorkersAreWhole, Threads
    <3>2. Inside(w)' => w = p
      BY <2>3 DEF Threads
    <3>3. w = p => FieldsOf[w] \ todo'[w] = {}
      BY <2>4
    <3> QED
      BY <3>1, <3>2, <3>3
  <2>10. TimeIsLatest'
    <3>1. \A f \in Fields : data[UpdatedAt] >= data[f]
      BY <2>2 DEF IInv, TimeIsLatest, Writing, Holds, Inside, Threads
    <3> QED
      BY <3>1, <2>1 DEF TimeIsLatest
  <2>11. DumpFollows'
    BY <2>1, <2>3, <2>4 DEF IInv, DumpFollows, Threads, Inside
  <2>12. DumpIsWhole'
    <3>1. Dumped' => Dumped
      BY <2>1, <2>2 DEF Dumped, Holds, Threads
    <3> QED
      BY <3>1, <2>1 DEF IInv, DumpIsWhole
  <2> QED
    BY <2>5, <2>6, <2>7, <2>8, <2>9, <2>10, <2>11, <2>12 DEF IInv
<1> QED
  BY <1>1, <1>2

LEMMA WriteStep ==
  ASSUME IInv, NEW w \in Writers, WriteField(w)
  PROVE  IInv'
<1> USE BoundAssumption, MainAssumption, FieldsAssumption
<1> PICK f \in todo[w] :
      /\ f = UpdatedAt => todo[w] = {UpdatedAt}
      /\ data' = [data EXCEPT ![f] = IF f = UpdatedAt THEN clock ELSE value[w]]
      /\ todo' = [todo EXCEPT ![w] = @ \ {f}]
  BY DEF WriteField
<1>1. pc[w] = "inside" /\ UNCHANGED <<lock, pc, value, snap, clock>>
  BY DEF WriteField
<1>2. f \in Fields /\ w \in Threads /\ Main \in Threads
  BY DEF IInv, TypeOK, Threads
<1>3. \A q \in Threads : q # w => ~Holds(q) /\ ~Inside(q)
  BY <1>1, <1>2 DEF IInv, LockHasOneHolder, Holds, Inside
<1>4. todo'[w] = todo[w] \ {f} /\ \A q \in Threads : q # w => todo'[q] = todo[q]
  BY <1>2 DEF IInv, TypeOK
<1>5. /\ data'[f] = IF f = UpdatedAt THEN clock ELSE value[w]
      /\ \A g \in Fields : g # f => data'[g] = data[g]
  BY <1>2 DEF IInv, TypeOK
<1>6. todo[w] \subseteq FieldsOf[w] \union {UpdatedAt} /\ UpdatedAt \in todo[w]
  BY <1>1 DEF IInv, TodoIsOwn, Inside
<1>7. TypeOK'
  BY <1>1, <1>2 DEF IInv, TypeOK, Threads
<1>8. LockHasOneHolder'
  BY <1>1 DEF IInv, LockHasOneHolder, Holds
<1>9. TodoIsOwn'
  BY <1>1, <1>3, <1>4, <1>6, <1>2 DEF TodoIsOwn, Inside, Threads
<1>10. NothingFromTheFuture'
  BY <1>1, <1>2, <1>5 DEF IInv, TypeOK, NothingFromTheFuture
<1>11. WorkersAreWhole'
  <2> SUFFICES ASSUME NEW v \in Writers
               PROVE  /\ ~Holds(v)' => \A g, h \in FieldsOf[v] : data'[g] = data'[h]
                      /\ Inside(v)' => \A g \in FieldsOf[v] \ todo'[v] : data'[g] = value'[v]
    BY DEF WorkersAreWhole
  <2>1. FieldsOf[v] \subseteq Fields
    BY DEF Fields
  <2>2. CASE v = w
    <3>1. Holds(v)'
      BY <1>1, <2>2 DEF Holds
    <3>2. ASSUME NEW g \in FieldsOf[v] \ todo'[v] PROVE data'[g] = value'[v]
      <4>1. CASE g = f
        BY <4>1, <1>5, <1>1, <2>2
      <4>2. CASE g # f
        BY <4>2, <1>5, <1>4, <1>1, <2>1, <2>2 DEF IInv, WorkersAreWhole, Inside
      <4> QED
        BY <4>1, <4>2
    <3> QED
      BY <3>1, <3>2
  <2>3. CASE v # w
    <3>1. f \notin FieldsOf[v]
      BY <1>6, <2>3
    <3>2. ~Holds(v) /\ ~Inside(v)'
      BY <1>3, <1>1, <2>3 DEF Threads, Inside
    <3> QED
      BY <3>1, <3>2, <1>5, <2>1 DEF IInv, WorkersAreWhole
  <2> QED
    BY <2>2, <2>3
<1>12. TimeIsLatest'
  <2>1. CASE f = UpdatedAt
    BY <2>1, <1>5, <1>2, <1>10, <1>1 DEF IInv, TypeOK, TimeIsLatest, NothingFromTheFuture
  <2>2. CASE f # UpdatedAt
    <3>1. UpdatedAt \in todo'[w]
      BY <2>2, <1>6, <1>4
    <3> QED
      BY <3>1, <1>1 DEF TimeIsLatest, Writing, Inside
  <2> QED
    BY <2>1, <2>2
<1>13. DumpFollows' /\ DumpIsWhole'
  <2>1. ~Inside(Main)
    BY <1>3, <1>2
  <2> QED
    BY <2>1, <1>1 DEF IInv, DumpFollows, DumpIsWhole, Dumped, Inside
<1> QED
  BY <1>7, <1>8, <1>9, <1>10, <1>11, <1>12, <1>13 DEF IInv

LEMMA ReadStep ==
  ASSUME IInv, ReadField
  PROVE  IInv'
<1> USE BoundAssumption, MainAssumption, FieldsAssumption
<1> PICK f \in todo[Main] :
      /\ snap' = [snap EXCEPT ![f] = data[f]]
      /\ todo' = [todo EXCEPT ![Main] = @ \ {f}]
  BY DEF ReadField
<1>1. pc[Main] = "inside" /\ UNCHANGED <<lock, data, pc, value, clock>>
  BY DEF ReadField
<1>2. f \in Fields /\ Main \in Threads
  BY DEF IInv, TypeOK, Threads
<1>3. todo'[Main] = todo[Main] \ {f} /\ \A w \in Writers : todo'[w] = todo[w]
  BY <1>2 DEF IInv, TypeOK, Threads
<1>4. TypeOK'
  BY <1>1, <1>2 DEF IInv, TypeOK
<1>5. LockHasOneHolder' /\ NothingFromTheFuture'
  BY <1>1 DEF IInv, LockHasOneHolder, Holds, NothingFromTheFuture
<1>6. TodoIsOwn' /\ WorkersAreWhole' /\ TimeIsLatest'
  BY <1>1, <1>3 DEF IInv, TodoIsOwn, WorkersAreWhole, TimeIsLatest, Writing, Inside, Holds
<1>7. DumpFollows'
  BY <1>1, <1>2, <1>3 DEF IInv, TypeOK, DumpFollows, Inside
<1>8. DumpIsWhole'
  BY <1>1 DEF DumpIsWhole, Dumped
<1> QED
  BY <1>4, <1>5, <1>6, <1>7, <1>8 DEF IInv

LEMMA LeaveStep ==
  ASSUME IInv, NEW p \in Threads, Store(p)
  PROVE  IInv'
<1> USE BoundAssumption, MainAssumption, FieldsAssumption
<1>1. /\ pc[p] = "inside" /\ todo[p] = {} /\ lock' = 0
      /\ pc' = [pc EXCEPT ![p] = "notify"]
      /\ UNCHANGED <<data, todo, value, snap, clock>>
  BY DEF Store, Goto
<1>2. \A q \in Threads : q # p => ~Holds(q) /\ ~Inside(q)
  BY <1>1 DEF IInv, LockHasOneHolder, Holds, Inside
<1>3. /\ pc'[p] = "notify"
      /\ \A q \in Threads : q # p => pc'[q] = pc[q]
      /\ \A q \in Threads : ~Holds(q)' /\ ~Inside(q)'
  BY <1>1, <1>2 DEF IInv, TypeOK, Holds, Inside
<1>4. TypeOK'
  BY <1>1 DEF IInv, TypeOK, Places
<1>5. LockHasOneHolder'
  BY <1>1, <1>3 DEF LockHasOneHolder
<1>6. TodoIsOwn' /\ NothingFromTheFuture'
  BY <1>1, <1>3 DEF IInv, TodoIsOwn, NothingFromTheFuture, Threads
<1>7. WorkersAreWhole'
  <2> SUFFICES ASSUME NEW w \in Writers
               PROVE  \A f, g \in FieldsOf[w] : data[f] = data[g]
    BY <1>1, <1>3 DEF WorkersAreWhole, Threads
  <2>1. CASE w = p
    BY <2>1, <1>1 DEF IInv, WorkersAreWhole, Inside
  <2>2. CASE w # p
    BY <2>2, <1>2 DEF IInv, WorkersAreWhole, Threads
  <2> QED
    BY <2>1, <2>2
<1>8. \A f \in Fields : data[UpdatedAt] >= data[f]
  BY <1>1, <1>2 DEF IInv, TimeIsLatest, Writing, Holds, Threads
<1>9. TimeIsLatest' /\ DumpFollows'
  BY <1>1, <1>3, <1>8 DEF IInv, TimeIsLatest, DumpFollows, Threads
<1>10. DumpIsWhole'
  <2>1. CASE p = Main
    <3>1. \A f \in Fields : snap[f] = data[f]
      BY <2>1, <1>1 DEF IInv, DumpFollows, Inside
    <3>2. \A w \in Writers : \A f, g \in FieldsOf[w] : data[f] = data[g]
      BY <1>1, <1>3, <1>7 DEF WorkersAreWhole, Threads
    <3>3. \A w \in Writers : \A f, g \in FieldsOf[w] :
            snap[f] = snap[g] /\ snap[UpdatedAt] >= snap[f]
      BY <3>1, <3>2, <1>8, FieldsAreFields DEF FieldsInFields
    <3> QED
      BY <3>3, <1>1 DEF DumpIsWhole
  <2>2. CASE p # Main
    BY <2>2, <1>1, <1>3 DEF IInv, DumpIsWhole, Dumped, Threads
  <2> QED
    BY <2>1, <2>2
<1> QED
  BY <1>4, <1>5, <1>6, <1>7, <1>9, <1>10 DEF IInv

LEMMA TerminateStep ==
  ASSUME IInv, NEW w \in Writers, Terminate(w)
  PROVE  IInv'
<1> USE BoundAssumption, MainAssumption
<1>1. CASE pc[w] # "inside"
  <2>1. pc' = [pc EXCEPT ![w] = "ended"] /\ pc[w] \notin {"ended", "killed"}
        /\ UNCHANGED <<lock, data, todo, value, snap, clock>>
    BY <1>1 DEF Terminate, Goto
  <2>2. pc[w] \in Elsewhere /\ pc'[w] = "ended"
    BY <1>1, <2>1 DEF IInv, TypeOK, Places, Elsewhere, Threads
  <2>3. pc'[Main] # "ended"
    BY <2>1 DEF IInv, TypeOK, DumpFollows, Threads
  <2> QED
    BY <2>1, <2>2, <2>3, OutsideStep DEF IInv, TypeOK, Places, Elsewhere, Threads, NothingFromTheFuture
<1>2. CASE pc[w] = "inside"
  <2>1. pc' = [pc EXCEPT ![w] = "killed"] /\ UNCHANGED <<lock, data, todo, value, snap, clock>>
    BY <1>2 DEF Terminate, Goto
  <2>2. /\ pc'[w] = "killed"
        /\ \A q \in Threads : q # w => pc'[q] = pc[q]
    BY <2>1 DEF IInv, TypeOK, Threads
  <2>3. \A q \in Threads : Holds(q)' <=> Holds(q)
    BY <2>2, <1>2 DEF Holds
  <2>4. \A q \in Threads : Inside(q)' => Inside(q)
    BY <2>2 DEF Inside
  <2>5. TypeOK'
    BY <2>1 DEF IInv, TypeOK, Places
  <2>6. LockHasOneHolder'
    BY <2>1, <2>3 DEF IInv, LockHasOneHolder
  <2>7. TodoIsOwn' /\ NothingFromTheFuture'
    BY <2>1, <2>4 DEF IInv, TodoIsOwn, NothingFromTheFuture, Threads
  <2>8. WorkersAreWhole'
    BY <2>1, <2>3, <2>4 DEF IInv, WorkersAreWhole, Threads
  <2>9. TimeIsLatest'
    BY <2>2 DEF TimeIsLatest, Writing
  <2>10. DumpFollows' /\ DumpIsWhole'
    BY <2>1, <2>2, <2>4 DEF IInv, DumpFollows, DumpIsWhole, Dumped, Inside, Threads
  <2> QED
    BY <2>5, <2>6, <2>7, <2>8, <2>9, <2>10 DEF IInv
<1> QED
  BY <1>1, <1>2

LEMMA QuietSteps ==
  ASSUME IInv, NEW p \in Threads, Begin(p) \/ Wait(p) \/ WaitTimesOut(p) \/ Notify(p)
  PROVE  IInv'
<1> USE BoundAssumption, MainAssumption
<1>1. CASE Begin(p)
  <2>1. /\ pc[p] = "idle" /\ clock < MaxAccesses /\ clock' = clock + 1
        /\ pc' = [pc EXCEPT ![p] = "acquire"]
        /\ value' = IF p = Main THEN value ELSE [value EXCEPT ![p] = clock']
        /\ UNCHANGED <<lock, data, todo, snap>>
    BY <1>1 DEF Begin, Goto
  <2>2. clock' \in 0..MaxAccesses /\ clock <= clock'
    BY <2>1 DEF IInv, TypeOK
  <2>3. value' \in [Writers -> 0..MaxAccesses]
    BY <2>1, <2>2 DEF IInv, TypeOK, Threads
  <2>4. \A w \in Writers : value'[w] # value[w] => ~Holds(w) /\ value'[w] <= clock'
    BY <2>1, <2>2 DEF IInv, TypeOK, Threads, Holds
  <2>5. pc' \in [Threads -> Places] /\ pc'[Main] # "ended"
        /\ \A q \in Threads : pc'[q] # pc[q] => pc[q] \in Elsewhere /\ pc'[q] \in Elsewhere
    BY <2>1 DEF IInv, TypeOK, Places, Elsewhere, DumpFollows, Threads
  <2> QED
    BY <2>1, <2>2, <2>3, <2>4, <2>5, OutsideStep
<1>2. CASE Wait(p) \/ WaitTimesOut(p) \/ Notify(p)
  <2>1. UNCHANGED <<lock, data, todo, value, snap, clock>>
    BY <1>2 DEF Wait, WaitTimesOut, Notify
  <2>2. pc' \in [Threads -> Places] /\ pc'[Main] # "ended"
        /\ \A q \in Threads : pc'[q] # pc[q] => pc[q] \in Elsewhere /\ pc'[q] \in Elsewhere
    <3> USE DEF IInv, TypeOK, Places, Elsewhere, DumpFollows, Threads, Goto
    <3>1. CASE Wait(p)
      BY <3>1 DEF Wait
    <3>2. CASE WaitTimesOut(p)
      BY <3>2 DEF WaitTimesOut
    <3>3. CASE Notify(p)
      BY <3>3 DEF Notify
    <3> QED
      BY <1>2, <3>1, <3>2, <3>3
  <2> QED
    BY <2>1, <2>2, OutsideStep DEF IInv, TypeOK, NothingFromTheFuture
<1> QED
  BY <1>1, <1>2

LEMMA StepIInv == IInv /\ [Next]_vars => IInv'
<1> SUFFICES ASSUME IInv, [Next]_vars PROVE IInv'
  OBVIOUS
<1>1. CASE UNCHANGED vars
  BY <1>1 DEF vars, IInv, TypeOK, LockHasOneHolder, Holds, TodoIsOwn, Inside, NothingFromTheFuture,
     WorkersAreWhole, TimeIsLatest, Writing, DumpFollows, DumpIsWhole, Dumped
<1>2. CASE \E p \in Threads : Begin(p)
  BY <1>2, QuietSteps
<1>3. CASE \E p \in Threads : ThreadStep(p)
  BY <1>3, EnterStep, QuietSteps, LeaveStep, WriteStep, ReadStep DEF ThreadStep
<1>4. CASE \E w \in Writers : Terminate(w)
  BY <1>4, TerminateStep
<1> QED
  BY <1>1, <1>2, <1>3, <1>4 DEF Next

LEMMA Inductive == Spec => []IInv
<1> QED
  BY InitIInv, StepIInv, PTL DEF Spec

(* The lock word stays 0 or 1 and every thread is somewhere in its protocol. *)
THEOREM Typing == Spec => []TypeOK
<1>1. IInv => TypeOK
  BY DEF IInv
<1> QED
  BY <1>1, Inductive, PTL

(* At most one thread is ever inside the lock of the shared metrics, and the
   lock word says so, with workers terminated anywhere. *)
THEOREM Exclusion == Spec => []LockHasOneHolder
<1>1. IInv => LockHasOneHolder
  BY DEF IInv
<1> QED
  BY <1>1, Inductive, PTL

(* A dump never mixes two collections of one worker, and its time is no older
   than its values. *)
THEOREM Wholeness == Spec => []DumpIsWhole
<1>1. IInv => DumpIsWhole
  BY DEF IInv
<1> QED
  BY <1>1, Inductive, PTL
====
