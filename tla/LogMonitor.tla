---- MODULE LogMonitor ----
(***************************************************************************)
(* The agent's log monitors: packages/agent/src/security/                  *)
(* auth-log.monitor.ts and syslog.monitor.ts, whose collect is the same.   *)
(*                                                                         *)
(* A collection reads the whole log file, takes what lies beyond the       *)
(* remembered offset, and asks the journal if the file gave no event.      *)
(* Collections overlap when SIGUSR1 forces one; each gives up the event    *)
(* loop while it reads, and reads may end in another order than they       *)
(* began.  Offsets and seen journal lines are lost with the worker.        *)
(*                                                                         *)
(* The log daemon writes lines 1, 2, 3, ...; a write may end in the middle *)
(* of a line.  A line is two units, 2l-1 and 2l, and the file holds the    *)
(* units beyond the last rotation.  Lengths and offsets count units.       *)
(***************************************************************************)
EXTENDS Integers, FiniteSets

CONSTANTS
  MaxLines,      \* lines written to the log (bound)
  Matching,      \* lines that parseLines turns into an event
  Collections,   \* calls of collect (bound)
  MaxRotations,  \* (bound)
  MaxRestarts,   \* (bound)
  HasJournal     \* whether journalctl runs and has the lines too

ASSUME BoundAssumption == MaxLines \in Nat /\ MaxRotations \in Nat /\ MaxRestarts \in Nat
ASSUME MatchingAssumption == Matching \subseteq 1..MaxLines
ASSUME JournalAssumption == HasJournal \in BOOLEAN
ASSUME CollectionsAssumption == IsFiniteSet(Collections)

VARIABLES
  written,    \* units written so far
  base,       \* units in files that were rotated away: the file is base+1..written
  rotations,
  restarts,
  offset,     \* offsets: length of the file when it was last processed
  seen,       \* seenJournalEntries
  step,       \* where each collection is
  content,    \* the file as a collection has read it, as <<base, written>>
  fromFile,   \* events of each line that came from the file
  fromJournal,\* events of each line that came from the journal
  latest,     \* history: the newest content processed since the last restart
  upset,      \* history: an older content was processed after a newer one
  torn,       \* history: lines that a content ended in the middle of
  passed      \* history: units rotated away unread, or at the beginning of a new
              \* file that outgrew the old one before it was read

monitorVars == <<offset, seen>>
eventVars == <<fromFile, fromJournal>>
historyVars == <<latest, upset, torn, passed>>
logVars == <<written, base, rotations, restarts, monitorVars, step, content, eventVars, historyVars>>

Units == 1..(2 * MaxLines)
Lines == 1..MaxLines
Halves(l) == {2 * l - 1, 2 * l}
Whole(us) == {l \in Lines : Halves(l) \subseteq us}
Split(us) == {l \in Lines : Cardinality(Halves(l) \intersect us) = 1}

Length(s) == s[2] - s[1]

(* parseLines: the lines that become events. *)
ParseLines(ls) == ls \intersect Matching

Nothing == <<0, 0>>

LogInit ==
  /\ written = 0
  /\ base = 0
  /\ rotations = 0
  /\ restarts = 0
  /\ offset = 0
  /\ seen = {}
  /\ step = [c \in Collections |-> "idle"]
  /\ content = [c \in Collections |-> Nothing]
  /\ fromFile = [l \in Lines |-> 0]
  /\ fromJournal = [l \in Lines |-> 0]
  /\ latest = Nothing
  /\ upset = FALSE
  /\ torn = {}
  /\ passed = {}

----
(* The log daemon: one write of half a line or of a whole one. *)
LogWrites ==
  /\ written < 2 * MaxLines
  /\ \E n \in 1..2 : written + n <= 2 * MaxLines /\ written' = written + n
  /\ UNCHANGED <<base, rotations, restarts, monitorVars, step, content, eventVars, historyVars>>

(* logrotate between two lines: an empty file takes the place of the old. *)
LogRotates ==
  /\ rotations < MaxRotations
  /\ rotations' = rotations + 1
  /\ written % 2 = 0
  /\ base < written
  /\ base' = written
  /\ passed' = passed \union
       (IF latest[1] = base THEN (latest[2] + 1)..written ELSE (base + 1)..written)
  /\ UNCHANGED <<written, restarts, monitorVars, step, content, eventVars, latest, upset, torn>>

(* collect is called; readFile is on its way. *)
Collect(c) ==
  /\ step[c] = "idle"
  /\ step' = [step EXCEPT ![c] = "reading"]
  /\ UNCHANGED <<written, base, rotations, restarts, monitorVars, content, eventVars, historyVars>>

(* A thread of the pool reads the file. *)
FileRead(c) ==
  /\ step[c] = "reading"
  /\ step' = [step EXCEPT ![c] = "process"]
  /\ content' = [content EXCEPT ![c] = <<base, written>>]
  /\ UNCHANGED <<written, base, rotations, restarts, monitorVars, eventVars, historyVars>>

(* Neither candidate can be read: the file does not count. *)
FileUnreadable(c) ==
  /\ step[c] = "reading"
  /\ step' = [step EXCEPT ![c] = "askJournal"]
  /\ UNCHANGED <<written, base, rotations, restarts, monitorVars, content, eventVars, historyVars>>

\* Mutants: the offset is not reset for a shorter file; it is not used.
SafeOffsetKept(length) == offset
SafeOffsetNone(length) == 0

SafeOffset(length) == IF offset > length THEN 0 ELSE offset

(* The units of a content beyond the offset. *)
Delta(s) == (s[1] + SafeOffset(Length(s)) + 1)..s[2]

Older(s, t) == s[1] < t[1] \/ (s[1] = t[1] /\ s[2] < t[2])

(* The histories after content s. *)
Remember(s) ==
  LET outgrown == s[1] # latest[1] /\ Length(s) >= Length(latest)
  IN  /\ latest' = IF Older(latest, s) THEN s ELSE latest
      /\ upset' = (upset \/ Older(s, latest))
      /\ torn' = torn \union Split(1..s[2])
      /\ passed' = IF outgrown THEN passed \union (s[1] + 1)..(s[1] + Length(latest)) ELSE passed

Add(events, found) == [l \in Lines |-> IF l \in found THEN events[l] + 1 ELSE events[l]]

(* collectFromFiles after its await.  Half a line may match or not. *)
ProcessFile(c) ==
  LET s == content[c]
  IN  /\ step[c] = "process"
      /\ offset' = Length(s)
      /\ \E halves \in SUBSET Split(Delta(s)) :
           LET found == ParseLines(Whole(Delta(s)) \union halves)
           IN  /\ fromFile' = Add(fromFile, found)
               /\ step' = [step EXCEPT ![c] = IF found = {} THEN "askJournal" ELSE "done"]
      /\ Remember(s)
      /\ UNCHANGED <<written, base, rotations, restarts, seen, content, fromJournal>>

(* journalctl runs, or cannot be run. *)
JournalRead(c) ==
  /\ step[c] = "askJournal"
  /\ IF HasJournal
     THEN /\ step' = [step EXCEPT ![c] = "journal"]
          /\ content' = [content EXCEPT ![c] = <<0, written>>]
     ELSE /\ step' = [step EXCEPT ![c] = "done"]
          /\ UNCHANGED content
  /\ UNCHANGED <<written, base, rotations, restarts, monitorVars, eventVars, historyVars>>

(* collectFromJournal after its await. *)
ProcessJournal(c) ==
  LET lines == Whole(1..content[c][2]) \ seen
  IN  /\ step[c] = "journal"
      /\ step' = [step EXCEPT ![c] = "done"]
      /\ seen' = seen \union lines
      /\ fromJournal' = Add(fromJournal, ParseLines(lines))
      /\ UNCHANGED <<written, base, rotations, restarts, offset, content, fromFile, historyVars>>

(* The agent is restarted: the monitor forgets, its collections are lost. *)
Restart ==
  /\ restarts < MaxRestarts
  /\ restarts' = restarts + 1
  /\ offset' = 0
  /\ seen' = {}
  /\ step' = [c \in Collections |-> IF step[c] = "idle" THEN "idle" ELSE "done"]
  /\ latest' = Nothing
  /\ UNCHANGED <<written, base, rotations, content, eventVars, upset, torn, passed>>

LogNext ==
  \/ LogWrites
  \/ LogRotates
  \/ \E c \in Collections :
       \/ Collect(c) \/ FileRead(c) \/ FileUnreadable(c) \/ ProcessFile(c)
       \/ JournalRead(c) \/ ProcessJournal(c)
  \/ Restart

LogSpec == LogInit /\ [][LogNext]_logVars

----
(* A line of the file is reported once, unless a restart forgot the offset, it
   was read half-written, or overlapping collections were processed in another
   order than they had read.  The journal repeats a line only after a restart.
   That a line is reported by the file and by the journal is the rule. *)
RepeatNeedsReason ==
  \A l \in Matching :
    /\ fromFile[l] > 1 => restarts > 0 \/ upset \/ l \in torn
    /\ fromJournal[l] <= restarts + 1

(* A line in a file that has been processed was reported, unless it was read
   half-written, it was rotated away before it was read, it is at the
   beginning of a new file that had outgrown the old one when it was first read,
   or overlapping collections were processed out of order.  A new file shorter
   than the old one is noticed and loses nothing. *)
LossNeedsReason ==
  \A l \in Matching \intersect Whole(1..latest[2]) :
    \/ fromFile[l] > 0
    \/ l \in torn \/ upset \/ Halves(l) \intersect passed # {}
====
