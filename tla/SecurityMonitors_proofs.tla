---- MODULE SecurityMonitors_proofs ----
(***************************************************************************)
(* The security worker's monitors and the process they belong to: which    *)
(* lines of a log are reported and how often (LogMonitor), which intervals *)
(* run, and that the file monitor's events lead to what it remembers       *)
(* (AgentRuntime with FileIntegrity); for any log and file, and any number *)
(* of collections, rotations, restarts, reloads and signals.               *)
(***************************************************************************)
EXTENDS LogMonitor, AgentRuntime, FiniteSetTheorems, TLAPS

Steps == {"idle", "reading", "process", "askJournal", "journal", "done"}

Typed ==
  /\ written \in Nat /\ base \in Nat /\ restarts \in Nat /\ offset \in Int
  /\ step \in [Collections -> Steps]
  /\ content \in [Collections -> Nat \X Nat]
  /\ fromFile \in [Lines -> Nat]
  /\ fromJournal \in [Lines -> Nat]
  /\ latest \in Nat \X Nat
  /\ upset \in BOOLEAN

(* What the file was when it was read: it begins with a line, and once it was
   rotated away nothing was added to it. *)
WasFile(s) ==
  /\ s[1] % 2 = 0
  /\ s[1] <= s[2] /\ s[2] <= written
  /\ s[1] <= base
  /\ s[1] < base => s[2] <= base

Pending == {c \in Collections : step[c] = "process"}
Snapshots == {latest} \union {content[c] : c \in Pending}

Files ==
  /\ base % 2 = 0 /\ base <= written
  /\ \A s \in Snapshots : WasFile(s)
  /\ \A s, t \in Snapshots : s[1] < t[1] => s[2] <= t[1]

OffsetOfLatest == ~upset => offset = Length(latest)

TornKnown == Split(1..latest[2]) \subseteq torn

(* Until the first restart a line is reported once, and only as part of the
   newest content. *)
FileOnce ==
  restarts = 0 /\ ~upset =>
    \A l \in Lines \ torn : fromFile[l] <= (IF 2 * l <= latest[2] THEN 1 ELSE 0)

JournalOnce == \A l \in Lines : fromJournal[l] <= restarts + (IF l \in seen THEN 1 ELSE 0)

Accounted(l) == fromFile[l] > 0 \/ l \in torn \/ upset \/ Halves(l) \intersect passed # {}

(* Lines of the newest content, and those that were rotated away, are
   accounted for; a restart forgets the first, so the second are needed. *)
PastAccounted ==
  \A l \in Matching : 2 * l <= base \/ 2 * l <= latest[2] => Accounted(l)

IInv == Typed /\ Files /\ OffsetOfLatest /\ TornKnown /\ FileOnce /\ JournalOnce /\ PastAccounted

----
LEMMA LineType == \A l \in Lines : l \in Nat /\ l >= 1
  BY BoundAssumption DEF Lines

(* A set splits a line that has one half in it and one not, and no other. *)
LEMMA SplitParts ==
  ASSUME NEW us, NEW l \in Lines
  PROVE  /\ l \in Split(us) => \E u \in Halves(l) : u \in us
         /\ ~(2 * l - 1 \in us <=> 2 * l \in us) => l \in Split(us)
<1>. DEFINE both == Halves(l) \intersect us
<1>1. l \in Split(us) <=> Cardinality(both) = 1
  BY DEF Split
<1>2. both = {} => Cardinality(both) # 1
  BY FS_EmptySet
<1>3. \A x : both = {x} => Cardinality(both) = 1
  BY FS_Singleton
<1>4. ASSUME 2 * l - 1 \in us, 2 * l \notin us
      PROVE  both = {2 * l - 1}
  BY <1>4 DEF Halves
<1>5. ASSUME 2 * l - 1 \notin us, 2 * l \in us
      PROVE  both = {2 * l}
  BY <1>5 DEF Halves
<1>6. both # {} => \E u \in Halves(l) : u \in us
  OBVIOUS
<1>. HIDE DEF both
<1>7. QED
  BY <1>1, <1>2, <1>3, <1>4, <1>5, <1>6

LEMMA Even == \A n \in Nat : n % 2 = 0 => \E k \in Nat : n = 2 * k
  OBVIOUS

(* A line before the first unit of a file ends before it. *)
LEMMA LineOfFile ==
  ASSUME NEW n \in Nat, n % 2 = 0, NEW l \in Lines, 2 * l - 1 <= n
  PROVE  2 * l <= n
<1>1. PICK k \in Nat : n = 2 * k
  BY Even
<1>2. QED
  BY <1>1, LineType

LEMMA InitIInv == LogInit => IInv
<1>. SUFFICES ASSUME LogInit PROVE IInv
  OBVIOUS
<1>1. Typed
  <2>1. /\ step \in [Collections -> Steps]
        /\ content \in [Collections -> Nat \X Nat] /\ latest \in Nat \X Nat
    BY DEF LogInit, Nothing, Steps
  <2>2. fromFile \in [Lines -> Nat] /\ fromJournal \in [Lines -> Nat]
    BY DEF LogInit
  <2>3. written \in Nat /\ base \in Nat /\ restarts \in Nat /\ offset \in Int
    BY DEF LogInit
  <2>4. upset \in BOOLEAN
    BY Zenon DEF LogInit
  <2>5. QED
    BY <2>1, <2>2, <2>3, <2>4 DEF Typed
<1>2. Pending = {}
  BY DEF LogInit, Pending
<1>3. Snapshots = {<<0, 0>>}
  BY <1>2 DEF LogInit, Snapshots, Nothing
<1>4. Files
  BY <1>3 DEF LogInit, Files, WasFile
<1>5. OffsetOfLatest
  BY DEF LogInit, OffsetOfLatest, Length, Nothing
<1>6. TornKnown
  <2>1. \A l \in Lines : l \notin Split(1..0)
    BY SplitParts DEF Halves, Lines
  <2>2. QED
    BY <2>1 DEF LogInit, TornKnown, Nothing, Split
<1>7. FileOnce /\ JournalOnce
  BY LineType DEF LogInit, FileOnce, JournalOnce, Nothing
<1>8. PastAccounted
  BY LineType, MatchingAssumption DEF LogInit, PastAccounted, Nothing, Lines
<1>9. QED
  BY <1>1, <1>4, <1>5, <1>6, <1>7, <1>8 DEF IInv

----
LEMMA AddValues ==
  ASSUME NEW counts \in [Lines -> Nat], NEW found
  PROVE  /\ Add(counts, found) \in [Lines -> Nat]
         /\ \A l \in Lines : Add(counts, found)[l] = IF l \in found THEN counts[l] + 1 ELSE counts[l]
  BY DEF Add

(* What a step does to the counts of events, the seen lines and the restarts. *)
LEMMA TypedStep == Typed /\ [LogNext]_logVars => Typed'
<1>. SUFFICES ASSUME Typed, [LogNext]_logVars PROVE Typed'
  OBVIOUS
<1>. USE DEF Typed, Steps
<1>1. CASE LogWrites
  BY <1>1 DEF LogWrites, monitorVars, eventVars, historyVars
<1>2. CASE LogRotates
  BY <1>2 DEF LogRotates, monitorVars, eventVars
<1>3. ASSUME NEW c \in Collections, Collect(c) PROVE Typed'
  BY <1>3 DEF Collect, monitorVars, eventVars, historyVars
<1>4. ASSUME NEW c \in Collections, FileRead(c) PROVE Typed'
  BY <1>4 DEF FileRead, monitorVars, eventVars, historyVars
<1>5. ASSUME NEW c \in Collections, FileUnreadable(c) PROVE Typed'
  BY <1>5 DEF FileUnreadable, monitorVars, eventVars, historyVars
<1>6. ASSUME NEW c \in Collections, ProcessFile(c) PROVE Typed'
  <2>1. content[c] \in Nat \X Nat
    OBVIOUS
  <2>2. PICK found : /\ fromFile' = Add(fromFile, found)
                     /\ step' = [step EXCEPT ![c] = IF found = {} THEN "askJournal" ELSE "done"]
    BY <1>6 DEF ProcessFile
  <2>3. fromFile' \in [Lines -> Nat] /\ step' \in [Collections -> Steps]
    BY <2>2, AddValues
  <2>4. latest' \in Nat \X Nat /\ upset' \in BOOLEAN
    BY <1>6, <2>1 DEF ProcessFile, Remember, Older
  <2>5. offset' \in Int
    BY <1>6, <2>1 DEF ProcessFile, Length
  <2>6. QED
    BY <1>6, <2>3, <2>4, <2>5 DEF ProcessFile
<1>7. ASSUME NEW c \in Collections, JournalRead(c) PROVE Typed'
  BY <1>7 DEF JournalRead, monitorVars, eventVars, historyVars
<1>8. ASSUME NEW c \in Collections, ProcessJournal(c) PROVE Typed'
  <2>1. PICK found : fromJournal' = Add(fromJournal, found)
    BY <1>8 DEF ProcessJournal
  <2>2. fromJournal' \in [Lines -> Nat]
    BY <2>1, AddValues
  <2>3. QED
    BY <1>8, <2>2 DEF ProcessJournal, historyVars
<1>9. CASE Restart
  BY <1>9 DEF Restart, Nothing, eventVars
<1>10. CASE UNCHANGED logVars
  BY <1>10 DEF logVars, monitorVars, eventVars, historyVars
<1>11. QED
  BY <1>1, <1>2, <1>3, <1>4, <1>5, <1>6, <1>7, <1>8, <1>9, <1>10 DEF LogNext

(* What a collection finds that processes its content in order: the newest
   content before it lies before what is beyond the offset. *)
LEMMA InOrder ==
  ASSUME Typed, Files, OffsetOfLatest, NEW c \in Collections, ProcessFile(c), ~upset'
  PROVE  LET s == content[c]
         IN  /\ s \in Nat \X Nat /\ WasFile(s)
             /\ ~upset /\ latest' = s /\ offset = Length(latest) /\ offset >= 0
             /\ latest[1] <= s[1] /\ latest[2] <= s[2]
             /\ latest[1] < s[1] => latest[2] <= s[1]
<1>. DEFINE s == content[c]
<1>1. s \in Nat \X Nat /\ latest \in Nat \X Nat
  BY DEF Typed
<1>2. s \in Snapshots /\ latest \in Snapshots
  BY DEF Snapshots, Pending, ProcessFile
<1>3. WasFile(s) /\ WasFile(latest) /\ (latest[1] < s[1] => latest[2] <= s[1])
  BY <1>2 DEF Files
<1>4. ~upset /\ ~Older(s, latest) /\ latest' = IF Older(latest, s) THEN s ELSE latest
  BY DEF ProcessFile, Remember, Typed
<1>5. latest[1] <= s[1] /\ (latest[1] = s[1] => latest[2] <= s[2])
  BY <1>1, <1>4 DEF Older
<1>6. latest[2] <= s[2]
  BY <1>1, <1>3, <1>5 DEF WasFile
<1>7. latest' = s
  <2>1. CASE Older(latest, s)
    BY <2>1, <1>4
  <2>2. CASE ~Older(latest, s)
    <3>1. latest[1] = s[1] /\ latest[2] = s[2]
      BY <2>2, <1>1, <1>5 DEF Older
    <3>2. latest = s
      BY <3>1, <1>1
    <3>3. QED
      BY <3>2, <1>4, <2>2
  <2>3. QED
    BY <2>1, <2>2
<1>8. offset = Length(latest) /\ offset >= 0
  BY <1>1, <1>3, <1>4 DEF OffsetOfLatest, Length, WasFile
<1>9. QED
  BY <1>1, <1>3, <1>4, <1>5, <1>6, <1>7, <1>8

(* The units taken begin beyond the newest content before. *)
LEMMA DeltaIsNew ==
  ASSUME Typed, Files, OffsetOfLatest, NEW c \in Collections, ProcessFile(c), ~upset',
         NEW u \in Delta(content[c])
  PROVE  u \in Int /\ latest[2] < u /\ u <= content[c][2]
<1>. DEFINE s == content[c]
<1>1. /\ s \in Nat \X Nat /\ WasFile(s) /\ offset = Length(latest) /\ offset >= 0
      /\ latest[1] <= s[1] /\ latest[2] <= s[2]
      /\ latest[1] < s[1] => latest[2] <= s[1]
  BY InOrder
<1>2. latest \in Nat \X Nat
  BY DEF Typed
<1>3. SafeOffset(Length(s)) \in Int /\ SafeOffset(Length(s)) >= 0
  BY <1>1, <1>2 DEF SafeOffset, Length, Typed
<1>4. u \in Int /\ u > s[1] + SafeOffset(Length(s)) /\ u <= s[2]
  BY <1>1, <1>3 DEF Delta
<1>5. CASE latest[1] = s[1]
  <2>1. SafeOffset(Length(s)) = latest[2] - latest[1]
    BY <1>5, <1>1, <1>2 DEF SafeOffset, Length
  <2>2. QED
    BY <2>1, <1>1, <1>2, <1>4, <1>5
<1>6. CASE latest[1] < s[1]
  BY <1>6, <1>1, <1>2, <1>3, <1>4
<1>7. QED
  BY <1>5, <1>6, <1>1, <1>2

LEMMA FilesStep == Typed /\ Files /\ [LogNext]_logVars => Files'
<1>. SUFFICES ASSUME Typed, Files, [LogNext]_logVars PROVE Files'
  OBVIOUS
<1>1. \A s \in Snapshots : s \in Nat \X Nat
  BY DEF Snapshots, Pending, Typed
<1>2. ASSUME UNCHANGED <<written, base>>, Snapshots' \subseteq Snapshots
      PROVE  Files'
  BY <1>2 DEF Files, WasFile
<1>3. CASE LogWrites
  <2>1. Snapshots' = Snapshots /\ base' = base
    BY <1>3 DEF LogWrites, Snapshots, Pending, historyVars
  <2>2. written' \in Nat /\ written' >= written
    BY <1>3 DEF LogWrites, Typed
  <2>3. \A s \in Snapshots : WasFile(s)'
    BY <2>1, <2>2, <1>1 DEF Files, WasFile, Typed
  <2>4. QED
    BY <2>1, <2>2, <2>3 DEF Files, Typed
<1>4. CASE LogRotates
  <2>1. Snapshots' = Snapshots /\ base' = written /\ written' = written
    BY <1>4 DEF LogRotates, Snapshots, Pending
  <2>2. written % 2 = 0 /\ base < written
    BY <1>4 DEF LogRotates
  <2>3. ASSUME NEW s \in Snapshots PROVE WasFile(s)'
    <3>1. s[1] % 2 = 0 /\ s[1] <= s[2] /\ s[2] <= written /\ s[1] <= base
      BY DEF Files, WasFile
    <3>2. s[1] \in Nat /\ s[2] \in Nat /\ s[1] <= written
      BY <3>1, <2>2, <1>1 DEF Typed
    <3>3. QED
      BY <2>1, <3>1, <3>2 DEF WasFile
  <2>4. QED
    BY <2>1, <2>2, <2>3 DEF Files, Typed
<1>5. ASSUME NEW c \in Collections, FileRead(c) PROVE Files'
  <2>. DEFINE s == <<base, written>>
  <2>1. content' = [content EXCEPT ![c] = s] /\ UNCHANGED <<written, base, latest>>
    BY <1>5 DEF FileRead, historyVars
  <2>2. Pending' = Pending \union {c}
    BY <1>5 DEF FileRead, Pending, Typed, Steps
  <2>3. \A d \in Collections : content'[d] = IF d = c THEN s ELSE content[d]
    BY <2>1 DEF Typed
  <2>4. Snapshots' \subseteq Snapshots \union {s}
    BY <2>1, <2>2, <2>3 DEF Snapshots
  <2>5. WasFile(s)
    BY DEF WasFile, Files, Typed
  <2>6. \A t \in Snapshots : t[1] <= base /\ (t[1] < base => t[2] <= base)
    BY DEF Files, WasFile
  <2>7. \A t \in Snapshots \union {s} : t[1] <= base /\ (t[1] < base => t[2] <= base)
    BY <2>6 DEF Typed
  <2>8. \A t \in Snapshots \union {s} : WasFile(t)'
    BY <2>1, <2>5 DEF Files, WasFile
  <2>9. ASSUME NEW t \in Snapshots \union {s}, NEW u \in Snapshots \union {s}, t[1] < u[1]
        PROVE  t[2] <= u[1]
    <3>1. CASE u \in Snapshots /\ t \in Snapshots
      BY <3>1, <2>9 DEF Files
    <3>2. CASE u = s
      BY <3>2, <2>7, <2>9
    <3>3. CASE t = s /\ u \in Snapshots
      <4>1. u[1] <= base /\ t[1] = base /\ u[1] \in Nat
        BY <3>3, <2>7, <1>1
      <4>2. QED
        BY <4>1, <2>9 DEF Typed
    <3>4. QED
      BY <3>1, <3>2, <3>3
  <2>10. QED
    BY <2>1, <2>4, <2>8, <2>9 DEF Files
<1>6. ASSUME NEW c \in Collections, ProcessFile(c) PROVE Files'
  <2>1. PICK next \in {"askJournal", "done"} : step' = [step EXCEPT ![c] = next]
    BY <1>6 DEF ProcessFile
  <2>2. Pending' \subseteq Pending
    BY <2>1 DEF Pending, Typed, Steps
  <2>3. c \in Pending /\ content' = content /\ latest' \in {latest, content[c]}
    BY <1>6 DEF ProcessFile, Pending, Remember
  <2>4. Snapshots' \subseteq Snapshots
    BY <2>2, <2>3 DEF Snapshots
  <2>5. QED
    BY <2>4, <1>2, <1>6 DEF ProcessFile
<1>7. ASSUME NEW c \in Collections, NEW next \in Steps \ {"process"},
             step' = [step EXCEPT ![c] = next],
             \A d \in Collections \ {c} : content'[d] = content[d],
             UNCHANGED <<written, base, latest>>
      PROVE  Files'
  <2>1. Pending' = Pending \ {c}
    BY <1>7 DEF Pending, Typed, Steps
  <2>2. Snapshots' \subseteq Snapshots
    BY <2>1, <1>7 DEF Snapshots, Pending
  <2>3. QED
    BY <2>2, <1>2, <1>7
<1>8. ASSUME NEW c \in Collections, Collect(c) \/ FileUnreadable(c) \/ ProcessJournal(c)
      PROVE  Files'
  BY <1>7, <1>8 DEF Collect, FileUnreadable, ProcessJournal, historyVars, Steps
<1>9. ASSUME NEW c \in Collections, JournalRead(c) PROVE Files'
  <2>1. \A d \in Collections \ {c} : content'[d] = content[d]
    BY <1>9 DEF JournalRead, Typed
  <2>2. QED
    BY <1>7, <1>9, <2>1 DEF JournalRead, historyVars, Steps
<1>10. CASE Restart
  <2>1. Pending' = {} /\ latest' = <<0, 0>> /\ UNCHANGED <<written, base>>
    BY <1>10 DEF Restart, Pending, Nothing
  <2>2. Snapshots' = {<<0, 0>>}
    BY <2>1 DEF Snapshots
  <2>3. QED
    BY <2>1, <2>2 DEF Files, WasFile, Typed
<1>11. CASE UNCHANGED logVars
  <2>1. Snapshots' = Snapshots
    BY <1>11 DEF logVars, Snapshots, Pending, historyVars
  <2>2. QED
    BY <2>1, <1>2, <1>11 DEF logVars
<1>12. QED
  BY <1>3, <1>4, <1>5, <1>6, <1>8, <1>9, <1>10, <1>11 DEF LogNext

(* The other actions leave the offset and the histories alone. *)
LEMMA OffsetStep == Typed /\ Files /\ OffsetOfLatest /\ [LogNext]_logVars => OffsetOfLatest'
<1>. SUFFICES ASSUME Typed, Files, OffsetOfLatest, [LogNext]_logVars PROVE OffsetOfLatest'
  OBVIOUS
<1>1. ASSUME UNCHANGED <<offset, latest, upset>> PROVE OffsetOfLatest'
  BY <1>1 DEF OffsetOfLatest, Length
<1>2. ASSUME NEW c \in Collections, ProcessFile(c), ~upset' PROVE offset' = Length(latest')
  <2>1. latest' = content[c]
    BY <1>2, InOrder
  <2>2. QED
    BY <2>1, <1>2 DEF ProcessFile
<1>3. CASE Restart
  BY <1>3 DEF Restart, OffsetOfLatest, Length, Nothing
<1>4. CASE LogWrites \/ LogRotates \/ UNCHANGED logVars
  BY <1>4, <1>1 DEF LogWrites, LogRotates, logVars, monitorVars, historyVars
<1>5. ASSUME NEW c \in Collections,
             Collect(c) \/ FileRead(c) \/ FileUnreadable(c) \/ JournalRead(c) \/ ProcessJournal(c)
      PROVE  OffsetOfLatest'
  BY <1>5, <1>1 DEF Collect, FileRead, FileUnreadable, JournalRead, ProcessJournal,
                    monitorVars, historyVars
<1>6. ASSUME NEW c \in Collections, ProcessFile(c) PROVE OffsetOfLatest'
  BY <1>2, <1>6 DEF OffsetOfLatest, Length
<1>7. QED
  BY <1>3, <1>4, <1>5, <1>6 DEF LogNext

LEMMA TornStep == Typed /\ TornKnown /\ [LogNext]_logVars => TornKnown'
<1>. SUFFICES ASSUME Typed, TornKnown, [LogNext]_logVars PROVE TornKnown'
  OBVIOUS
<1>1. ASSUME UNCHANGED latest, torn \subseteq torn' PROVE TornKnown'
  BY <1>1 DEF TornKnown, Split
<1>2. ASSUME NEW c \in Collections, ProcessFile(c) PROVE TornKnown'
  <2>1. /\ latest' \in {latest, content[c]}
        /\ torn' = torn \union Split(1..content[c][2])
    BY <1>2 DEF ProcessFile, Remember
  <2>2. QED
    BY <2>1 DEF TornKnown, Split
<1>3. CASE Restart
  <2>1. \A l \in Lines : l \notin Split(1..0)
    BY SplitParts, LineType DEF Halves
  <2>2. QED
    BY <1>3, <2>1 DEF Restart, TornKnown, Nothing, Split
<1>4. CASE LogWrites \/ LogRotates \/ UNCHANGED logVars
  BY <1>4, <1>1 DEF LogWrites, LogRotates, logVars, historyVars
<1>5. ASSUME NEW c \in Collections,
             Collect(c) \/ FileRead(c) \/ FileUnreadable(c) \/ JournalRead(c) \/ ProcessJournal(c)
      PROVE  TornKnown'
  BY <1>5, <1>1 DEF Collect, FileRead, FileUnreadable, JournalRead, ProcessJournal, historyVars
<1>6. QED
  BY <1>2, <1>3, <1>4, <1>5 DEF LogNext

LEMMA JournalStep == Typed /\ JournalOnce /\ [LogNext]_logVars => JournalOnce'
<1>. SUFFICES ASSUME Typed, JournalOnce, [LogNext]_logVars PROVE JournalOnce'
  OBVIOUS
<1>1. ASSUME UNCHANGED <<fromJournal, restarts, seen>> PROVE JournalOnce'
  BY <1>1 DEF JournalOnce
<1>2. ASSUME NEW c \in Collections, ProcessJournal(c) PROVE JournalOnce'
  <2>1. PICK lines : /\ lines \intersect seen = {} /\ seen' = seen \union lines
                     /\ fromJournal' = Add(fromJournal, ParseLines(lines))
    BY <1>2 DEF ProcessJournal
  <2>2. \A l \in Lines : fromJournal'[l] = IF l \in ParseLines(lines) THEN fromJournal[l] + 1
                                           ELSE fromJournal[l]
    BY <2>1, AddValues DEF Typed
  <2>3. restarts' = restarts
    BY <1>2 DEF ProcessJournal
  <2>4. ASSUME NEW l \in Lines
        PROVE  fromJournal'[l] <= restarts' + (IF l \in seen' THEN 1 ELSE 0)
    <3>1. fromJournal[l] <= restarts + (IF l \in seen THEN 1 ELSE 0)
      BY DEF JournalOnce
    <3>2. fromJournal[l] \in Nat /\ restarts \in Nat
      BY DEF Typed
    <3>3. CASE l \in lines
      BY <3>1, <3>2, <3>3, <2>1, <2>2, <2>3
    <3>4. CASE l \notin lines
      BY <3>1, <3>2, <3>4, <2>1, <2>2, <2>3 DEF ParseLines
    <3>5. QED
      BY <3>3, <3>4
  <2>5. QED
    BY <2>4 DEF JournalOnce
<1>3. CASE Restart
  BY <1>3 DEF Restart, JournalOnce, eventVars, Typed
<1>4. CASE LogWrites \/ LogRotates \/ UNCHANGED logVars
  BY <1>4, <1>1 DEF LogWrites, LogRotates, logVars, monitorVars, eventVars
<1>5. ASSUME NEW c \in Collections,
             Collect(c) \/ FileRead(c) \/ FileUnreadable(c) \/ ProcessFile(c) \/ JournalRead(c)
      PROVE  JournalOnce'
  BY <1>5, <1>1 DEF Collect, FileRead, FileUnreadable, ProcessFile, JournalRead,
                    monitorVars, eventVars
<1>6. QED
  BY <1>2, <1>3, <1>4, <1>5 DEF LogNext

LEMMA FileOnceStep ==
  Typed /\ Files /\ OffsetOfLatest /\ TornKnown /\ FileOnce /\ [LogNext]_logVars => FileOnce'
<1>. SUFFICES ASSUME Typed, Files, OffsetOfLatest, TornKnown, FileOnce, [LogNext]_logVars
              PROVE  FileOnce'
  OBVIOUS
<1>1. ASSUME UNCHANGED <<fromFile, restarts, upset, latest, torn>> PROVE FileOnce'
  BY <1>1 DEF FileOnce
<1>2. ASSUME NEW c \in Collections, ProcessFile(c), restarts' = 0, ~upset',
             NEW l \in Lines \ torn'
      PROVE  fromFile'[l] <= (IF 2 * l <= latest'[2] THEN 1 ELSE 0)
  <2>. DEFINE s == content[c]
  <2>1. /\ s \in Nat \X Nat /\ ~upset /\ latest' = s /\ latest[2] <= s[2]
    BY <1>2, InOrder
  <2>2. PICK found : /\ found \subseteq Whole(Delta(s)) \union Split(Delta(s))
                     /\ fromFile' = Add(fromFile, found)
    BY <1>2 DEF ProcessFile, ParseLines
  <2>3. l \notin torn /\ l \notin Split(1..s[2])
    BY <1>2 DEF ProcessFile, Remember
  <2>4. restarts = 0 /\ fromFile[l] <= (IF 2 * l <= latest[2] THEN 1 ELSE 0)
    BY <1>2, <2>1, <2>3 DEF FileOnce, ProcessFile
  <2>5. l \in Nat /\ l >= 1 /\ fromFile[l] \in Nat /\ latest[2] \in Nat /\ s[2] \in Nat
    BY <2>1, LineType DEF Typed
  <2>6. fromFile'[l] = IF l \in found THEN fromFile[l] + 1 ELSE fromFile[l]
    BY <2>2, AddValues DEF Typed
  <2>7. CASE l \notin found
    BY <2>1, <2>4, <2>5, <2>6, <2>7
  <2>8. CASE l \in found
    <3>1. PICK u \in Halves(l) : u \in Delta(s)
      BY <2>2, <2>8, SplitParts DEF Whole, Halves
    <3>2. u \in {2 * l - 1, 2 * l} /\ latest[2] < u /\ u <= s[2]
      BY <3>1, <1>2, DeltaIsNew DEF Halves
    <3>3. 2 * l <= s[2]
      <4>1. SUFFICES ASSUME 2 * l > s[2] PROVE FALSE
        BY <2>5
      <4>2. 2 * l - 1 = s[2]
        BY <4>1, <3>2, <2>5
      <4>3. 2 * l - 1 \in 1..s[2] /\ 2 * l \notin 1..s[2]
        BY <4>2, <2>5
      <4>4. QED
        BY <4>3, <2>3, SplitParts
    <3>4. fromFile[l] = 0
      BY <3>2, <2>4, <2>5
    <3>5. QED
      BY <3>3, <3>4, <2>1, <2>6, <2>8
  <2>9. QED
    BY <2>7, <2>8
<1>3. ASSUME NEW c \in Collections, ProcessFile(c) PROVE FileOnce'
  BY <1>2, <1>3 DEF FileOnce
<1>4. CASE Restart
  <2>1. restarts' # 0
    BY <1>4 DEF Restart, Typed
  <2>2. QED
    BY <2>1 DEF FileOnce
<1>5. CASE LogWrites \/ LogRotates \/ UNCHANGED logVars
  BY <1>5, <1>1 DEF LogWrites, LogRotates, logVars, eventVars, historyVars
<1>6. ASSUME NEW c \in Collections,
             Collect(c) \/ FileRead(c) \/ FileUnreadable(c) \/ JournalRead(c) \/ ProcessJournal(c)
      PROVE  FileOnce'
  BY <1>6, <1>1 DEF Collect, FileRead, FileUnreadable, JournalRead, ProcessJournal,
                    eventVars, historyVars
<1>7. QED
  BY <1>3, <1>4, <1>5, <1>6 DEF LogNext

LEMMA PastStep == IInv /\ [LogNext]_logVars => PastAccounted'
<1>. SUFFICES ASSUME IInv, [LogNext]_logVars PROVE PastAccounted'
  OBVIOUS
<1>. USE DEF IInv
<1>1. \A l \in Matching : l \in Lines /\ l \in Nat /\ l >= 1
  BY LineType, MatchingAssumption DEF Lines
<1>2. ASSUME UNCHANGED <<base, latest, fromFile, torn, upset, passed>> PROVE PastAccounted'
  BY <1>2 DEF PastAccounted, Accounted
<1>3. CASE LogRotates
  <2>1. /\ base' = written /\ base < written /\ base % 2 = 0
        /\ UNCHANGED <<latest, fromFile, torn, upset>>
    BY <1>3 DEF LogRotates, eventVars, Files
  <2>2. passed' = passed \union (IF latest[1] = base THEN (latest[2] + 1)..written
                                 ELSE (base + 1)..written)
    BY <1>3 DEF LogRotates
  <2>3. ASSUME NEW l \in Matching, 2 * l <= written \/ 2 * l <= latest[2]
        PROVE  Accounted(l)'
    <3>1. CASE 2 * l <= base \/ 2 * l <= latest[2]
      <4>1. Accounted(l)
        BY <3>1 DEF PastAccounted
      <4>2. QED
        BY <4>1, <2>1, <2>2 DEF Accounted
    <3>2. CASE ~(2 * l <= base \/ 2 * l <= latest[2])
      <4>1. 2 * l \in passed'
        BY <3>2, <2>1, <2>2, <2>3, <1>1 DEF Typed
      <4>2. QED
        BY <4>1 DEF Accounted, Halves
    <3>3. QED
      BY <3>1, <3>2
  <2>4. QED
    BY <2>1, <2>3 DEF PastAccounted
<1>4. ASSUME NEW c \in Collections, ProcessFile(c), NEW l \in Matching,
             2 * l <= base \/ 2 * l <= latest'[2], ~upset'
      PROVE  fromFile'[l] > 0 \/ l \in torn' \/ Halves(l) \intersect passed' # {}
  <2>. DEFINE s == content[c]
              lower == s[1] + SafeOffset(Length(s))
  <2>1. /\ s \in Nat \X Nat /\ WasFile(s)
        /\ ~upset /\ latest' = s /\ offset = Length(latest) /\ offset >= 0
        /\ latest[1] <= s[1] /\ latest[2] <= s[2]
        /\ latest[1] < s[1] => latest[2] <= s[1]
    BY <1>4, InOrder
  <2>2. PICK halves : fromFile' = Add(fromFile, ParseLines(Whole(Delta(s)) \union halves))
    BY <1>4 DEF ProcessFile
  <2>3. /\ \A k \in Lines : fromFile'[k] >= fromFile[k] /\ fromFile'[k] \in Nat
        /\ l \in Whole(Delta(s)) => fromFile'[l] > 0
    <3>. DEFINE found == ParseLines(Whole(Delta(s)) \union halves)
    <3>1. \A k \in Lines : fromFile'[k] = IF k \in found THEN fromFile[k] + 1 ELSE fromFile[k]
      BY <2>2, AddValues DEF Typed
    <3>2. \A k \in Lines : fromFile[k] \in Nat
      BY DEF Typed
    <3>3. l \in Whole(Delta(s)) => l \in found
      BY DEF ParseLines
    <3>. HIDE DEF found
    <3>4. QED
      BY <3>1, <3>2, <3>3, <1>1
  <2>4. /\ torn \subseteq torn' /\ Split(1..s[2]) \subseteq torn'
        /\ passed \subseteq passed'
        /\ s[1] # latest[1] /\ Length(s) >= Length(latest)
             => (s[1] + 1)..(s[1] + Length(latest)) \subseteq passed'
    BY <1>4 DEF ProcessFile, Remember
  <2>5. l \in Lines /\ l \in Nat /\ l >= 1
    BY <1>1
  <2>6. CASE 2 * l <= base \/ 2 * l <= latest[2]
    <3>1. Accounted(l)
      BY <2>6 DEF PastAccounted
    <3>2. fromFile[l] > 0 => fromFile'[l] > 0
      BY <2>3, <2>5 DEF Typed
    <3>3. QED
      BY <3>1, <3>2, <2>1, <2>4 DEF Accounted
  <2>7. CASE 2 * l > base /\ 2 * l > latest[2]
    <3>1. 2 * l <= s[2] /\ s[1] < 2 * l - 1
      <4>1. 2 * l <= s[2]
        BY <1>4, <2>1, <2>5, <2>7 DEF Typed
      <4>2. s[1] < 2 * l
        BY <2>1, <2>5, <2>7 DEF WasFile, Typed
      <4>3. 2 * l - 1 <= s[1] => 2 * l <= s[1]
        BY <2>1, <2>5, LineOfFile DEF WasFile
      <4>4. QED
        BY <4>1, <4>2, <4>3, <2>1, <2>5
    <3>2. ASSUME lower < 2 * l - 1, lower \in Int PROVE fromFile'[l] > 0
      <4>1. 2 * l - 1 \in (lower + 1)..s[2] /\ 2 * l \in (lower + 1)..s[2]
        BY <3>1, <3>2, <2>1, <2>5
      <4>2. l \in Whole(Delta(s))
        BY <4>1, <2>5 DEF Whole, Delta, Halves
      <4>3. QED
        BY <4>2, <2>3
    <3>3. CASE s[1] = latest[1]
      <4>1. lower = latest[2]
        BY <3>3, <2>1 DEF SafeOffset, Length, Typed
      <4>2. CASE 2 * l - 1 > latest[2]
        BY <4>1, <4>2, <3>2 DEF Typed
      <4>3. CASE 2 * l - 1 = latest[2]
        <5>1. 2 * l - 1 \in 1..latest[2] /\ 2 * l \notin 1..latest[2]
          BY <4>3, <2>5
        <5>2. l \in torn
          BY <5>1, <2>5, SplitParts DEF TornKnown
        <5>3. QED
          BY <5>2, <2>4
      <4>4. 2 * l - 1 > latest[2] \/ 2 * l - 1 = latest[2]
        BY <2>5, <2>7 DEF Typed
      <4>5. QED
        BY <4>2, <4>3, <4>4
    <3>4. CASE s[1] # latest[1] /\ Length(s) < Length(latest)
      <4>1. lower = s[1]
        BY <3>4, <2>1 DEF SafeOffset, Length, Typed
      <4>2. QED
        BY <4>1, <3>1, <3>2, <2>1
    <3>5. CASE s[1] # latest[1] /\ Length(s) >= Length(latest)
      <4>1. lower = s[1] + offset /\ offset \in Int
        BY <3>5, <2>1 DEF SafeOffset, Length, Typed
      <4>2. CASE 2 * l - 1 > lower
        BY <4>1, <4>2, <3>2, <2>1
      <4>3. CASE 2 * l - 1 <= lower
        <5>1. 2 * l - 1 \in (s[1] + 1)..(s[1] + Length(latest))
          BY <4>1, <4>3, <3>1, <2>1, <2>5
        <5>2. 2 * l - 1 \in passed'
          BY <5>1, <3>5, <2>4
        <5>3. QED
          BY <5>2 DEF Halves
      <4>4. QED
        BY <4>1, <4>2, <4>3, <2>1, <2>5
    <3>6. QED
      BY <3>3, <3>4, <3>5, <2>1 DEF Length, Typed
  <2>8. QED
    BY <2>6, <2>7, <2>1, <2>5 DEF Typed
<1>5. ASSUME NEW c \in Collections, ProcessFile(c) PROVE PastAccounted'
  BY <1>4, <1>5 DEF PastAccounted, Accounted, ProcessFile
<1>6. CASE Restart
  <2>1. latest' = <<0, 0>> /\ UNCHANGED <<base, fromFile, torn, upset, passed>>
    BY <1>6 DEF Restart, Nothing, eventVars
  <2>2. \A l \in Matching : ~(2 * l <= latest'[2])
    BY <2>1, <1>1
  <2>3. QED
    BY <2>1, <2>2 DEF PastAccounted, Accounted
<1>7. CASE LogWrites \/ UNCHANGED logVars
  BY <1>7, <1>2 DEF LogWrites, logVars, eventVars, historyVars
<1>8. ASSUME NEW c \in Collections,
             Collect(c) \/ FileRead(c) \/ FileUnreadable(c) \/ JournalRead(c) \/ ProcessJournal(c)
      PROVE  PastAccounted'
  BY <1>8, <1>2 DEF Collect, FileRead, FileUnreadable, JournalRead, ProcessJournal,
                    eventVars, historyVars
<1>9. QED
  BY <1>3, <1>5, <1>6, <1>7, <1>8 DEF LogNext

----
LEMMA Inductive == LogSpec => []IInv
<1>1. IInv /\ [LogNext]_logVars => IInv'
  BY TypedStep, FilesStep, OffsetStep, TornStep, JournalStep, FileOnceStep, PastStep DEF IInv
<1>2. QED
  BY InitIInv, <1>1, PTL DEF LogSpec

(* A line of the file is reported once and the journal's lines once in each
   life of the monitor, apart from the reasons named: for every length of the
   log and any interleaving of collections, writes, rotations and restarts. *)
THEOREM RepeatTheorem == LogSpec => []RepeatNeedsReason
<1>1. IInv => RepeatNeedsReason
  <2>. SUFFICES ASSUME IInv, NEW l \in Matching
                PROVE  /\ fromFile[l] > 1 => restarts > 0 \/ upset \/ l \in torn
                       /\ fromJournal[l] <= restarts + 1
    BY DEF RepeatNeedsReason
  <2>1. l \in Lines
    BY MatchingAssumption DEF Lines
  <2>2. fromFile[l] \in Nat /\ fromJournal[l] \in Nat /\ restarts \in Nat
    BY <2>1 DEF IInv, Typed
  <2>3. restarts = 0 /\ ~upset /\ l \notin torn
          => fromFile[l] <= (IF 2 * l <= latest[2] THEN 1 ELSE 0)
    BY <2>1 DEF IInv, FileOnce
  <2>4. fromJournal[l] <= restarts + (IF l \in seen THEN 1 ELSE 0)
    BY <2>1 DEF IInv, JournalOnce
  <2>5. QED
    BY <2>2, <2>3, <2>4
<1>2. QED
  BY Inductive, <1>1, PTL

(* No line of a file that has been processed is lost, apart from the reasons
   named. *)
THEOREM LossTheorem == LogSpec => []LossNeedsReason
<1>1. IInv => LossNeedsReason
  <2>. SUFFICES ASSUME IInv, NEW l \in Matching, l \in Whole(1..latest[2])
                PROVE  Accounted(l)
    BY DEF LossNeedsReason, Accounted
  <2>1. 2 * l <= latest[2]
    BY DEF Whole, Halves, IInv, Typed
  <2>2. QED
    BY <2>1 DEF IInv, PastAccounted
<1>2. QED
  BY Inductive, <1>1, PTL

----
(***************************************************************************)
(* The agent's process with its file monitor, beside the log monitors.     *)
(***************************************************************************)
(* The intervals that the last call of scheduleTimers made. *)
Scheduled == {[id |-> armed, kind |-> k, period |-> config] : k \in Kinds}

(* The handles in the fields are those of the intervals that run. *)
Intervals ==
  /\ live = {} \/ live = Scheduled
  /\ live # {} => \A k \in Kinds : timer[k] = armed
  /\ process = "starting" => live = {} /\ ~shuttingDown
  /\ shuttingDown /\ live # {} => hupInStop

LEMMA ScheduleFromNone ==
  ASSUME NEW p, NEW kept, kept = {}, ScheduleTimers(p, kept), config' = p
  PROVE  live' = Scheduled' /\ \A k \in Kinds : timer'[k] = armed'
  BY DEF ScheduleTimers, Scheduled

LEMMA AllHeld == Intervals => live \ Held = {}
  BY DEF Intervals, Scheduled, Held

LEMMA IntervalsStep == Intervals /\ [Next]_vars => Intervals'
<1>. SUFFICES ASSUME Intervals, [Next]_vars PROVE Intervals'
  OBVIOUS
<1>1. ASSUME UNCHANGED <<live, armed, config, timer, shuttingDown, hupInStop>>,
             process' = process \/ process' # "starting"
      PROVE  Intervals'
  BY <1>1 DEF Intervals, Scheduled
<1>2. ASSUME NEW file, Start(file) PROVE Intervals'
  <2>1. CASE ReadEnv(file) = Invalid
    BY <1>1, <1>2, <2>1 DEF Start, timerVars
  <2>2. CASE ReadEnv(file) # Invalid
    <3>1. /\ live' = Scheduled' /\ \A k \in Kinds : timer'[k] = armed'
          /\ process' = "running" /\ ~shuttingDown'
      BY <1>2, <2>2, ScheduleFromNone DEF Start, Intervals
    <3>2. QED
      BY <3>1 DEF Intervals
  <2>3. QED
    BY <2>1, <2>2
<1>3. ASSUME NEW file, Reload(file) PROVE Intervals'
  <2>1. CASE ReadEnv(file) = Invalid
    BY <1>1, <1>3, <2>1 DEF Reload, timerVars
  <2>2. CASE ReadEnv(file) # Invalid
    <3>1. /\ live' = Scheduled' /\ \A k \in Kinds : timer'[k] = armed'
      BY <1>3, <2>2, ScheduleFromNone, AllHeld DEF Reload, ResetTimers
    <3>2. process' = "running" /\ shuttingDown' = shuttingDown /\ (shuttingDown => hupInStop')
      BY <1>3, <2>2 DEF Reload
    <3>3. QED
      BY <3>1, <3>2 DEF Intervals
  <2>3. QED
    BY <2>1, <2>2
<1>4. CASE Shutdown
  <2>1. live' = {} /\ process' = "running"
    BY <1>4, AllHeld DEF Shutdown
  <2>2. QED
    BY <2>1 DEF Intervals
<1>5. CASE \/ IntervalFires \/ ForceCollect \/ DumpState \/ CutInsideLock
           \/ WorkersStopped \/ ClientStopped \/ UNCHANGED runtimeVars
  BY <1>5, <1>1 DEF IntervalFires, ForceCollect, DumpState, CutInsideLock,
                    WorkersStopped, ClientStopped, runtimeVars, timerVars
<1>6. CASE UNCHANGED vars
  BY <1>5, <1>6 DEF vars
<1>7. QED
  BY <1>2, <1>3, <1>4, <1>5, <1>6 DEF Next

(* At most one interval of each kind runs, with the period read last, and none
   once a shutdown has begun unless SIGHUP armed them again: for any number of
   reloads, whenever they come. *)
THEOREM IntervalsTheorem == Spec => []IntervalsAccounted
<1>1. Init => Intervals
  BY DEF Init, Intervals
<1>2. Intervals => IntervalsAccounted
  BY DEF Intervals, Scheduled, IntervalsAccounted
<1>3. QED
  BY <1>1, <1>2, IntervalsStep, PTL DEF Spec

----
FileSteps == {"idle", "asked", "read", "handled", "done"}
IsHandled(c) == fileStep[c] \in {"handled", "done"}

FileTyped ==
  /\ versions \in Seq(Contents \union {AtStart, Missing}) /\ Len(versions) >= 1
  /\ fileStep \in [FileCollections -> FileSteps]
  /\ fileSeen \in [FileCollections -> Nat]
  /\ \A c \in FileCollections : fileSeen[c] <= Len(versions)
  /\ \A c \in FileCollections : fileStep[c] = "read" \/ IsHandled(c) => fileSeen[c] >= 1
  /\ hash \in 0..Len(versions)
  /\ events \in [FileCollections -> SUBSET [from : Nat, to : Nat]]
  /\ handled \in Seq(FileCollections)
  /\ sent \in Seq(FileCollections)

(* handled has the collections that have been handled; an event leads to what
   its collection has read; and only what was reported is sent. *)
HandledKnown ==
  /\ \A c \in FileCollections : IsHandled(c) <=> \E i \in 1..Len(handled) : handled[i] = c
  /\ \A c \in FileCollections :
       events[c] # {} => IsHandled(c) /\ \A change \in events[c] : change.to = fileSeen[c]
  /\ Reported \subseteq Readable
  /\ \A i \in 1..Len(sent) : events[sent[i]] # {}

HashIsLast ==
  IF hash = 0 THEN Readable = {}
  ELSE \E i \in Readable :
         /\ \A j \in Readable : j <= i
         /\ hash = fileSeen[handled[i]]

(* Since the last change that was reported, or from the start if there was
   none, the content is the remembered one. *)
Traced ==
  hash # 0 =>
    IF Reported = {}
    THEN \E i \in Readable :
           /\ \A j \in Readable : i <= j
           /\ Content(fileSeen[handled[i]]) = Content(hash)
    ELSE \E i \in Reported :
           /\ \A j \in Reported : j <= i
           /\ Content(fileSeen[handled[i]]) = Content(hash)

FileInv == FileTyped /\ HandledKnown /\ HashIsLast /\ Traced

(* Every step of the process is one of the monitor or leaves it alone. *)
LEMMA FileStepOf ==
  ASSUME [Next]_vars
  PROVE  \/ FileChanges
         \/ \E c : Ask(c)
         \/ \E c \in FileCollections : ReadFile(c) \/ Handle(c) \/ Answer(c)
         \/ UNCHANGED <<versions, fileStep, fileSeen, hash, events, handled, sent>>
<1>1. CASE Next
  BY <1>1 DEF Next, FileNext, Start, Reload, IntervalFires,
              ForceCollect, DumpState, Shutdown, CutInsideLock, WorkersStopped, ClientStopped,
              WorkerTerminates, GiveUp, fileVars
<1>2. CASE UNCHANGED vars
  BY <1>2 DEF vars, fileVars
<1>3. QED
  BY <1>1, <1>2

LEMMA FileInitInv == Init => FileInv
<1>. SUFFICES ASSUME Init PROVE FileInv
  OBVIOUS
<1>. USE DEF Init, FileInit
<1>1. Readable = {} /\ Reported = {}
  BY DEF Readable, Reported
<1>2. FileTyped
  <2>1. versions \in Seq(Contents \union {AtStart, Missing}) /\ Len(versions) = 1
    OBVIOUS
  <2>2. QED
    BY <2>1 DEF FileTyped, FileSteps, IsHandled
<1>3. HandledKnown
  BY <1>1 DEF HandledKnown, IsHandled
<1>4. QED
  BY <1>1, <1>2, <1>3 DEF FileInv, HashIsLast, Traced

LEMMA FileTypedStep == FileTyped /\ [Next]_vars => FileTyped'
<1>. SUFFICES ASSUME FileTyped, [Next]_vars PROVE FileTyped'
  OBVIOUS
<1>. USE DEF FileTyped, FileSteps, IsHandled
<1>1. CASE FileChanges
  <2>1. PICK x \in Contents \union {AtStart, Missing} : versions' = Append(versions, x)
    BY <1>1 DEF FileChanges
  <2>2. /\ versions' \in Seq(Contents \union {AtStart, Missing})
        /\ Len(versions') = Len(versions) + 1
    BY <2>1
  <2>3. QED
    BY <1>1, <2>2 DEF FileChanges
<1>2. ASSUME NEW c, Ask(c) PROVE FileTyped'
  BY <1>2 DEF Ask
<1>3. ASSUME NEW c \in FileCollections, ReadFile(c) PROVE FileTyped'
  BY <1>3 DEF ReadFile
<1>4. ASSUME NEW c \in FileCollections, Handle(c) PROVE FileTyped'
  <2>1. fileSeen[c] \in Nat /\ fileSeen[c] <= Len(versions) /\ Len(versions) \in Nat
    OBVIOUS
  <2>2. hash' \in 0..Len(versions)
    BY <1>4, <2>1 DEF Handle, Compare
  <2>3. Change(hash, fileSeen[c]) \in [from : Nat, to : Nat]
    BY <2>1 DEF Change
  <2>4. events' \in [FileCollections -> SUBSET [from : Nat, to : Nat]]
    <3>1. PICK es \in SUBSET {Change(hash, fileSeen[c])} :
            events' = events \/ events' = [events EXCEPT ![c] = es]
      BY <1>4 DEF Handle, Compare
    <3>2. QED
      BY <2>3, <3>1
  <2>5. handled' = Append(handled, c) /\ handled' \in Seq(FileCollections)
    BY <1>4 DEF Handle
  <2>6. /\ fileStep' \in [FileCollections -> FileSteps]
        /\ \A d \in FileCollections : fileStep'[d] = "read" \/ fileStep'[d] \in {"handled", "done"}
                                          => fileSeen[d] >= 1
    BY <1>4 DEF Handle
  <2>7. QED
    BY <1>4, <2>2, <2>4, <2>5, <2>6 DEF Handle
<1>5. ASSUME NEW c \in FileCollections, Answer(c) PROVE FileTyped'
  <2>1. sent' \in Seq(FileCollections)
    BY <1>5 DEF Answer
  <2>2. QED
    BY <1>5, <2>1 DEF Answer
<1>6. CASE UNCHANGED <<versions, fileStep, fileSeen, hash, events, handled, sent>>
  BY <1>6
<1>7. QED
  BY <1>1, <1>2, <1>3, <1>4, <1>5, <1>6, FileStepOf

(* The places of handled and what they name. *)
LEMMA Places ==
  ASSUME FileTyped
  PROVE  /\ DOMAIN handled = 1..Len(handled) /\ Len(handled) \in Nat
         /\ \A i \in 1..Len(handled) : handled[i] \in FileCollections
         /\ \A i \in 1..Len(sent) : sent[i] \in FileCollections
  BY DEF FileTyped

(* A step that handles nothing and changes no event leaves the invariant. *)
LEMMA SamePlaces ==
  ASSUME FileTyped, HandledKnown, HashIsLast, Traced,
         UNCHANGED <<hash, events, handled>>,
         \A c \in FileCollections : IsHandled(c)' <=> IsHandled(c),
         \A c \in FileCollections : IsHandled(c) => fileSeen'[c] = fileSeen[c],
         \A v \in 1..Len(versions) : versions'[v] = versions[v],
         \A i \in 1..Len(sent') : events[sent'[i]] # {}
  PROVE  HandledKnown' /\ HashIsLast' /\ Traced'
<1>1. \A i \in 1..Len(handled) : fileSeen'[handled[i]] = fileSeen[handled[i]]
  BY Places DEF HandledKnown
<1>2. \A i \in 1..Len(handled) : /\ fileSeen[handled[i]] \in 1..Len(versions)
                                 /\ versions'[fileSeen[handled[i]]] = versions[fileSeen[handled[i]]]
  <2>1. SUFFICES ASSUME NEW i \in 1..Len(handled) PROVE fileSeen[handled[i]] \in 1..Len(versions)
    OBVIOUS
  <2>2. handled[i] \in FileCollections /\ IsHandled(handled[i])
    BY Places DEF HandledKnown
  <2>3. QED
    BY <2>2 DEF FileTyped
<1>3. Readable' = Readable /\ Reported' = Reported
  BY <1>1, <1>2, Places DEF Readable, Reported, Content
<1>4. hash # 0 => versions'[hash] = versions[hash]
  <2>1. hash # 0 => hash \in 1..Len(versions)
    BY DEF FileTyped
  <2>2. QED
    BY <2>1
<1>5. HandledKnown'
  <2>1. \A c \in FileCollections : IsHandled(c)' <=> \E i \in 1..Len(handled') : handled'[i] = c
    BY DEF HandledKnown
  <2>2. \A c \in FileCollections :
          events'[c] # {} => IsHandled(c)' /\ \A change \in events'[c] : change.to = fileSeen'[c]
    BY DEF HandledKnown
  <2>3. QED
    BY <1>3, <2>1, <2>2 DEF HandledKnown
<1>6. HashIsLast'
  BY <1>1, <1>3, Places DEF HashIsLast, Readable
<1>7. Traced'
  <2>1. /\ Readable \subseteq 1..Len(handled)
        /\ Reported \subseteq 1..Len(handled)
    BY Places DEF Readable, Reported
  <2>2. \A i \in 1..Len(handled) :
          Content(fileSeen[handled[i]])' = Content(fileSeen[handled[i]])
    BY <1>1, <1>2 DEF Content
  <2>3. hash # 0 => Content(hash)' = Content(hash)
    BY <1>4 DEF Content
  <2>4. QED
    BY <1>3, <2>1, <2>2, <2>3 DEF Traced
<1>8. QED
  BY <1>5, <1>6, <1>7

(* What handling collection c does to the places. *)
LEMMA HandledPlaces ==
  ASSUME FileTyped, HandledKnown, NEW c \in FileCollections, Handle(c)
  PROVE  LET n == Len(handled) + 1
             missing == Content(fileSeen[c]) = Missing
         IN  /\ n \in Nat /\ 1..Len(handled') = 1..Len(handled) \union {n}
             /\ \A i \in 1..Len(handled) : handled'[i] = handled[i] /\ handled[i] # c
             /\ handled'[n] = c
             /\ \A d \in FileCollections \ {c} : events'[d] = events[d]
             /\ Readable \subseteq 1..Len(handled)
             /\ Reported \subseteq 1..Len(handled)
             /\ Readable' = Readable \union (IF missing THEN {} ELSE {n})
             /\ Reported' = Reported \union (IF events'[c] = {} THEN {} ELSE {n})
             /\ missing => hash' = hash /\ events'[c] = {}
<1>. DEFINE n == Len(handled) + 1
            missing == Content(fileSeen[c]) = Missing
<1>1. /\ handled' = Append(handled, c) /\ handled \in Seq(FileCollections)
      /\ fileStep[c] = "read" /\ UNCHANGED <<versions, fileSeen>>
  BY DEF Handle, FileTyped
<1>2. /\ n \in Nat /\ Len(handled') = n /\ 1..Len(handled') = 1..Len(handled) \union {n}
      /\ \A i \in 1..Len(handled) : handled'[i] = handled[i]
      /\ handled'[n] = c
      /\ DOMAIN handled = 1..Len(handled) /\ DOMAIN handled' = 1..Len(handled')
  BY <1>1
<1>3. \A i \in 1..Len(handled) : handled[i] # c /\ handled[i] \in FileCollections
  BY <1>1, Places DEF HandledKnown, IsHandled
<1>4. \A d \in FileCollections \ {c} : events'[d] = events[d]
  BY DEF Handle, Compare, FileTyped
<1>5. events[c] = {}
  BY <1>1 DEF HandledKnown, IsHandled
<1>6. missing => hash' = hash /\ events' = events
  BY DEF Handle, Compare
<1>7. \A d \in FileCollections :
        (Content(fileSeen[d]) # Missing)' <=> Content(fileSeen[d]) # Missing
  BY <1>1 DEF Content
<1>8. /\ Readable \subseteq 1..Len(handled)
      /\ Reported \subseteq 1..Len(handled)
  BY <1>2 DEF Readable, Reported
<1>9. Readable' = Readable \union (IF missing THEN {} ELSE {n})
  <2>1. \A i \in 1..Len(handled) :
          (Content(fileSeen[handled[i]]) # Missing)' <=> Content(fileSeen[handled[i]]) # Missing
    BY <1>1, <1>2 DEF Content
  <2>2. versions'[fileSeen'[handled'[n]]] # Missing <=> ~missing
    BY <1>1, <1>2 DEF Content
  <2>3. QED
    BY <1>2, <2>1, <2>2 DEF Readable, Content
<1>10. Reported' = Reported \union (IF events'[c] = {} THEN {} ELSE {n})
  BY <1>2, <1>3, <1>4 DEF Reported
<1>11. QED
  BY <1>2, <1>3, <1>4, <1>5, <1>6, <1>8, <1>9, <1>10

LEMMA HandleStep ==
  ASSUME FileInv, NEW c \in FileCollections, Handle(c)
  PROVE  HandledKnown' /\ HashIsLast' /\ Traced'
<1>. DEFINE n == Len(handled) + 1
            missing == Content(fileSeen[c]) = Missing
<1>. USE DEF FileInv
<1>1. /\ n \in Nat /\ 1..Len(handled') = 1..Len(handled) \union {n}
      /\ \A i \in 1..Len(handled) : handled'[i] = handled[i] /\ handled[i] # c
      /\ handled'[n] = c
      /\ \A d \in FileCollections \ {c} : events'[d] = events[d]
      /\ Readable \subseteq 1..Len(handled)
      /\ Reported \subseteq 1..Len(handled)
  BY HandledPlaces
<1>2. /\ Readable' = Readable \union (IF missing THEN {} ELSE {n})
      /\ Reported' = Reported \union (IF events'[c] = {} THEN {} ELSE {n})
      /\ missing => hash' = hash /\ events'[c] = {}
  BY HandledPlaces
<1>3. /\ fileStep[c] = "read" /\ fileStep' = [fileStep EXCEPT ![c] = "handled"]
      /\ UNCHANGED <<versions, fileSeen, sent>>
  BY DEF Handle
<1>4. ~missing =>
        /\ hash' = fileSeen[c]
        /\ events'[c] = IF hash # 0 /\ Content(hash) # Content(fileSeen[c])
                        THEN {Change(hash, fileSeen[c])} ELSE {}
  BY DEF Handle, Compare, FileTyped
<1>5. fileSeen[c] # 0 /\ Len(handled) \in Nat
  BY <1>3, Places DEF FileTyped
<1>6. \A v : Content(v)' = versions[v] /\ Content(v) = versions[v]
  BY <1>3 DEF Content
<1>7. HandledKnown'
  <2>1. ASSUME NEW d \in FileCollections
        PROVE  IsHandled(d)' <=> \E i \in 1..Len(handled') : handled'[i] = d
    <3>1. CASE d = c
      BY <3>1, <1>1, <1>3 DEF IsHandled, FileTyped
    <3>2. CASE d # c
      <4>1. IsHandled(d)' <=> IsHandled(d)
        BY <3>2, <1>3 DEF IsHandled, FileTyped
      <4>2. (\E i \in 1..Len(handled') : handled'[i] = d) <=> \E i \in 1..Len(handled) : handled[i] = d
        BY <3>2, <1>1
      <4>3. QED
        BY <4>1, <4>2 DEF HandledKnown
    <3>3. QED
      BY <3>1, <3>2
  <2>2. ASSUME NEW d \in FileCollections, events'[d] # {}
        PROVE  IsHandled(d)' /\ \A change \in events'[d] : change.to = fileSeen'[d]
    <3>1. CASE d = c
      BY <2>2, <3>1, <1>2, <1>3, <1>4 DEF IsHandled, FileTyped, Change
    <3>2. CASE d # c
      BY <2>2, <3>2, <1>1, <1>3 DEF HandledKnown, IsHandled, FileTyped
    <3>3. QED
      BY <3>1, <3>2
  <2>3. Reported' \subseteq Readable'
    BY <1>2 DEF HandledKnown
  <2>4. ASSUME NEW i \in 1..Len(sent) PROVE events'[sent[i]] # {}
    <3>1. sent[i] \in FileCollections /\ events[sent[i]] # {}
      BY Places DEF HandledKnown
    <3>2. sent[i] # c
      BY <3>1, <1>3 DEF HandledKnown, IsHandled
    <3>3. QED
      BY <3>1, <3>2, <1>1
  <2>5. QED
    BY <2>1, <2>2, <2>3, <2>4, <1>3 DEF HandledKnown
<1>8. CASE missing
  <2>1. hash' = hash /\ Readable' = Readable /\ Reported' = Reported
    BY <1>2, <1>8
  <2>2. HashIsLast'
    BY <2>1, <1>1, <1>3 DEF HashIsLast
  <2>3. Traced'
    <3>. HIDE DEF n, missing
    <3>1. QED
      BY <2>1, <1>1, <1>3, <1>6 DEF Traced, Content
  <2>4. QED
    BY <2>2, <2>3, <1>7
<1>9. CASE ~missing
  <2>1. /\ hash' = fileSeen[c] /\ hash' # 0
        /\ Readable' = Readable \union {n} /\ n \in Readable'
        /\ \A j \in Readable' : j <= n
        /\ fileSeen'[handled'[n]] = hash'
    BY <1>1, <1>2, <1>3, <1>4, <1>5, <1>9
  <2>2. HashIsLast'
    BY <2>1 DEF HashIsLast
  <2>3. Content(hash)' = versions[fileSeen[c]]
    BY <2>1, <1>3 DEF Content
  <2>4. CASE events'[c] # {}
    <3>1. n \in Reported' /\ \A j \in Reported' : j <= n
      BY <2>4, <1>1, <1>2, <1>5
    <3>2. versions'[fileSeen'[handled'[n]]] = versions'[hash']
      BY <2>1
    <3>3. QED
      BY <3>1, <3>2, <2>2, <1>7 DEF Traced, Content
  <2>5. CASE events'[c] = {} /\ hash = 0
    <3>1. Readable = {} /\ Reported' = {}
      BY <2>5, <1>2 DEF HashIsLast, HandledKnown
    <3>2. versions'[fileSeen'[handled'[n]]] = versions'[hash']
      BY <2>1
    <3>3. QED
      BY <3>1, <3>2, <2>1, <2>2, <1>7, <1>1 DEF Traced, Content
  <2>6. CASE events'[c] = {} /\ hash # 0
    <3>1. Reported' = Reported /\ versions[hash] = versions[fileSeen[c]]
      BY <2>6, <1>2, <1>4, <1>6, <1>9
    <3>2. \A i \in 1..Len(handled) :
            Content(fileSeen[handled[i]])' = Content(fileSeen[handled[i]])
      BY <1>1, <1>3 DEF Content
    <3>3. Content(hash)' = Content(hash)
      BY <2>3, <3>1, <1>6
    <3>4. CASE Reported = {}
      <4>1. PICK i \in Readable :
              /\ \A j \in Readable : i <= j
              /\ Content(fileSeen[handled[i]]) = Content(hash)
        BY <2>6, <3>4 DEF Traced
      <4>2. i \in Readable' /\ \A j \in Readable' : i <= j
        BY <4>1, <2>1, <1>1, <1>5
      <4>3. Content(fileSeen[handled[i]])' = Content(hash)'
        BY <4>1, <3>2, <3>3, <1>1
      <4>4. QED
        BY <4>2, <4>3, <3>1, <3>4, <2>2, <1>7 DEF Traced
    <3>5. CASE Reported # {}
      <4>1. PICK i \in Reported :
              /\ \A j \in Reported : j <= i
              /\ Content(fileSeen[handled[i]]) = Content(hash)
        BY <2>6, <3>5 DEF Traced
      <4>2. Content(fileSeen[handled[i]])' = Content(hash)'
        BY <4>1, <3>2, <3>3, <1>1
      <4>3. QED
        BY <4>1, <4>2, <3>1, <2>2, <1>7 DEF Traced
    <3>6. QED
      BY <3>4, <3>5
  <2>7. QED
    BY <2>4, <2>5, <2>6
<1>10. QED
  BY <1>8, <1>9

LEMMA FileInvStep == FileInv /\ [Next]_vars => FileInv'
<1>. SUFFICES ASSUME FileInv, [Next]_vars
              PROVE  HandledKnown' /\ HashIsLast' /\ Traced'
  BY FileTypedStep DEF FileInv
<1>. USE DEF FileInv
<1>1. \A i \in 1..Len(sent) : events[sent[i]] # {}
  BY DEF HandledKnown
<1>2. CASE FileChanges
  <2>1. PICK x : versions' = Append(versions, x)
    BY <1>2 DEF FileChanges
  <2>2. \A v \in 1..Len(versions) : versions'[v] = versions[v]
    BY <2>1 DEF FileTyped
  <2>3. QED
    BY <2>2, <1>1, <1>2, SamePlaces DEF FileChanges, IsHandled
<1>3. ASSUME NEW c, Ask(c) PROVE HandledKnown' /\ HashIsLast' /\ Traced'
  <2>1. \A d \in FileCollections : IsHandled(d)' <=> IsHandled(d)
    BY <1>3 DEF Ask, IsHandled, FileTyped
  <2>2. QED
    BY <2>1, <1>1, <1>3, SamePlaces DEF Ask
<1>4. ASSUME NEW c \in FileCollections, ReadFile(c)
      PROVE  HandledKnown' /\ HashIsLast' /\ Traced'
  <2>1. \A d \in FileCollections : IsHandled(d)' <=> IsHandled(d)
    BY <1>4 DEF ReadFile, IsHandled, FileTyped
  <2>2. \A d \in FileCollections : IsHandled(d) => fileSeen'[d] = fileSeen[d]
    BY <1>4 DEF ReadFile, IsHandled, FileTyped
  <2>3. QED
    BY <2>1, <2>2, <1>1, <1>4, SamePlaces DEF ReadFile
<1>5. ASSUME NEW c \in FileCollections, Answer(c)
      PROVE  HandledKnown' /\ HashIsLast' /\ Traced'
  <2>1. \A d \in FileCollections : IsHandled(d)' <=> IsHandled(d)
    BY <1>5 DEF Answer, IsHandled, FileTyped
  <2>2. \A i \in 1..Len(sent') : events[sent'[i]] # {}
    <3>1. CASE events[c] # {} /\ sent' = Append(sent, c)
      <4>1. sent \in Seq(FileCollections)
        BY DEF FileTyped
      <4>2. /\ Len(sent') = Len(sent) + 1 /\ sent'[Len(sent) + 1] = c
            /\ \A i \in 1..Len(sent) : sent'[i] = sent[i]
        BY <4>1, <3>1
      <4>3. QED
        BY <4>1, <4>2, <3>1, <1>1
    <3>2. CASE sent' = sent
      BY <3>2, <1>1
    <3>3. QED
      BY <3>1, <3>2, <1>5 DEF Answer
  <2>3. QED
    BY <2>1, <2>2, <1>5, SamePlaces DEF Answer
<1>6. CASE UNCHANGED <<versions, fileStep, fileSeen, hash, events, handled, sent>>
  BY <1>1, <1>6, SamePlaces DEF IsHandled
<1>7. ASSUME NEW c \in FileCollections, Handle(c)
      PROVE  HandledKnown' /\ HashIsLast' /\ Traced'
  BY <1>7, HandleStep
<1>8. QED
  BY <1>2, <1>3, <1>4, <1>5, <1>6, <1>7, FileStepOf

(* What was sent leads to the remembered content, unless the last change was
   not answered last. *)
LEMMA ToldOrOvertaken ==
  ASSUME FileInv, hash # 0
  PROVE  \/ Told(Content(hash))
         \/ \E i \in Last(Reported) : sent # <<>> => sent[Len(sent)] # handled[i]
<1>. USE DEF FileInv
<1>1. CASE Reported = {}
  <2>1. sent = <<>>
    <3>1. SUFFICES ASSUME sent # <<>> PROVE FALSE
      OBVIOUS
    <3>2. Len(sent) \in 1..Len(sent)
      BY <3>1 DEF FileTyped
    <3>3. sent[Len(sent)] \in FileCollections /\ events[sent[Len(sent)]] # {}
      BY <3>2, Places DEF HandledKnown
    <3>4. PICK i \in 1..Len(handled) : handled[i] = sent[Len(sent)]
      BY <3>3 DEF HandledKnown
    <3>5. QED
      BY <3>3, <3>4, <1>1, Places DEF Reported
  <2>2. PICK i \in Readable :
          /\ \A j \in Readable : i <= j
          /\ Content(fileSeen[handled[i]]) = Content(hash)
    BY <1>1 DEF Traced
  <2>3. QED
    BY <2>1, <2>2 DEF Told, First
<1>2. CASE Reported # {}
  <2>1. PICK i \in Reported :
          /\ \A j \in Reported : j <= i
          /\ Content(fileSeen[handled[i]]) = Content(hash)
    BY <1>2 DEF Traced
  <2>2. i \in Last(Reported)
    BY <2>1 DEF Last
  <2>3. CASE sent # <<>> => sent[Len(sent)] # handled[i]
    BY <2>2, <2>3
  <2>4. CASE sent # <<>> /\ sent[Len(sent)] = handled[i]
    <3>1. handled[i] \in FileCollections /\ events[handled[i]] # {}
      BY <2>1, Places DEF Reported
    <3>2. PICK change \in events[handled[i]] : change.to = fileSeen[handled[i]]
      BY <3>1 DEF HandledKnown
    <3>3. QED
      BY <3>2, <2>1, <2>4 DEF Told
  <2>5. QED
    BY <2>3, <2>4
<1>3. QED
  BY <1>1, <1>2

(* The remembered content is that of a collection that read the newest
   version, if one did and none was handled out of order. *)
LEMMA DiskOrReordered ==
  ASSUME FileInv, hash # 0,
         Content(Len(versions)) # Missing,
         NEW i \in DOMAIN handled, fileSeen[handled[i]] = Len(versions),
         \A j, k \in DOMAIN handled : j < k => ~(fileSeen[handled[j]] > fileSeen[handled[k]])
  PROVE  hash = Len(versions)
<1>. USE DEF FileInv
<1>1. i \in Readable
  BY DEF Readable
<1>2. PICK k \in Readable : (\A j \in Readable : j <= k) /\ hash = fileSeen[handled[k]]
  BY DEF HashIsLast
<1>3. i <= k /\ i \in DOMAIN handled /\ k \in DOMAIN handled /\ i \in Nat /\ k \in Nat
  BY <1>1, <1>2, Places DEF Readable
<1>4. ~(Len(versions) > hash)
  BY <1>2, <1>3
<1>5. QED
  BY <1>4 DEF FileTyped

(* The events of the file monitor lead to what it remembers, and that is what
   is on disk, apart from the reasons named: for any file, and any number of
   collections that overlap, are given up or outlive their request. *)
THEOREM BeliefTheorem == Spec => []BeliefNeedsReason
<1>1. FileInv => BeliefNeedsReason
  BY ToldOrOvertaken, DiskOrReordered DEF BeliefNeedsReason
<1>2. QED
  BY <1>1, FileInitInv, FileInvStep, PTL DEF Spec
====
