--------------------------- MODULE DataCollection ---------------------------
(***************************************************************************)
(* data_collection.cpp: one directory of dated log files (a submarine's    *)
(* measurements or its events), appended to, rotated and read.  In the     *)
(* central computer its main thread stores what the LNC reports while the  *)
(* Ground Station thread queries; the two share a mutex.  oop_fleet stores *)
(* into the same data directory from a process of its own, with a mutex of *)
(* its own.                                                                *)
(*                                                                         *)
(* A line of a file is the sequence of its comma-separated fields.  A      *)
(* field is known by the record it came from and its position in it, which *)
(* is all that tells a line that was stored from one that was not.         *)
(***************************************************************************)
EXTENDS Integers, Sequences, SequencesExt, FiniteSets, FiniteSetsExt

CONSTANTS
  Procs,         \* the processes that store
  Readers,       \* those of them with a thread that queries
  DCA_MAX_FILES, \* 7
  Widths,        \* how many fields a line may have: {6} or {3, 8}
  LastDay,       \* bound: days are 1..LastDay
  MaxRecords,    \* bound: records stored
  MaxFaults      \* bound: writes the disk had no room for, processes killed,
                 \* clocks set back

ASSUME DataCollectionAssumption ==
  /\ Readers \subseteq Procs /\ IsFiniteSet(Procs)
  /\ DCA_MAX_FILES \in Nat \ {0}
  /\ Widths \subseteq Nat \ {0} /\ IsFiniteSet(Widths)
  /\ LastDay \in Nat \ {0} /\ MaxRecords \in Nat /\ MaxFaults \in Nat

VARIABLES
  today,    \* TodayDateString()
  files,    \* the files there are: day -> lines and whether the last is torn
  mutex,    \* per process: who holds g_dcaMutex
  writing,  \* per process: where AppendLine is, and the file it will remove
  reading,  \* per process: where ReadAllLines is, the days it has yet to read,
            \* the lines it has so far
  stored,   \* history: the records appended, in order
  torn, crashes, setBacks,
  late,     \* history: the records appended on another day than the rotation
            \* before them
  \* history, per process
  overtaken, \* whether the day has changed since its rotation began
  asked,    \* Len(stored) when its query began
  disturbed \* whether another process has changed files since

query == << asked, disturbed >>
clock == << today, setBacks >>
lateness == << late, overtaken >>
faults == << torn, crashes >>
vars == << clock, files, mutex, writing, reading, stored, faults, lateness, query >>

NotWriting == [at |-> "idle", doomed |-> 0]
NotReading == [at |-> "idle", days |-> << >>, lines |-> << >>]

Init ==
  /\ today = 1
  /\ files = << >>
  /\ mutex = [p \in Procs |-> "free"]
  /\ writing = [p \in Procs |-> NotWriting]
  /\ reading = [p \in Procs |-> NotReading]
  /\ stored = << >>
  /\ torn = 0 /\ crashes = 0 /\ setBacks = 0
  /\ late = 0 /\ overtaken = [p \in Procs |-> FALSE]
  /\ asked = [p \in Procs |-> 0]
  /\ disturbed = [p \in Procs |-> FALSE]

MayFail == torn + crashes + setBacks < MaxFaults

(* Another day while some are between rotation and append. *)
Overtake ==
  /\ overtaken' = [p \in Procs |-> writing[p].at \in {"remove", "append"}]
  /\ UNCHANGED << files, mutex, writing, reading, stored, faults, late, query >>

NextDay ==
  /\ today < LastDay
  /\ today' = today + 1 /\ UNCHANGED setBacks
  /\ Overtake

SetClockBack ==
  /\ MayFail
  /\ \E d \in 1..(today - 1) : today' = d
  /\ setBacks' = setBacks + 1
  /\ Overtake

(* Fault: no mutex. *)
AlwaysFree(p) == TRUE

Free(p) == mutex[p] = "free"

-----------------------------------------------------------------------------
(* AppendLine *)

AppendLine(p) ==
  /\ writing[p].at = "idle" /\ Free(p)
  /\ Len(stored) < MaxRecords
  /\ mutex' = [mutex EXCEPT ![p] = "writer"]
  /\ writing' = [writing EXCEPT ![p].at = "list"]
  /\ overtaken' = [overtaken EXCEPT ![p] = FALSE]
  /\ UNCHANGED << clock, files, reading, stored, faults, late, query >>

(* Fault: off by one. *)
CrowdedLate(n) == n > DCA_MAX_FILES + 1

Crowded(n) == n > DCA_MAX_FILES

(* Fault: the other end of the sorted list. *)
Newest(days) == Max(days)

Oldest(days) == Min(days)

(* A change made by p that no mutex keeps apart from another process's query. *)
Disturb(p) ==
  /\ disturbed' = [q \in Procs |-> disturbed[q] \/ q # p]
  /\ UNCHANGED asked

(* RotateIfNeeded lists the directory ... *)
RotateList(p) ==
  /\ writing[p].at = "list"
  /\ writing' = [writing EXCEPT ![p] =
       IF Crowded(Cardinality(DOMAIN files))
         THEN [at |-> "remove", doomed |-> Oldest(DOMAIN files)]
         ELSE [at |-> "append", doomed |-> 0]]
  /\ UNCHANGED << clock, files, mutex, reading, stored, faults, lateness, query >>

(* ... and removes one file, if it is still there. *)
RotateRemove(p) ==
  /\ writing[p].at = "remove"
  /\ files' = [d \in DOMAIN files \ {writing[p].doomed} |-> files[d]]
  /\ writing' = [writing EXCEPT ![p] = [at |-> "append", doomed |-> 0]]
  /\ Disturb(p)
  /\ UNCHANGED << clock, mutex, reading, stored, faults, lateness >>

Fields(record, n) == [i \in 1..n |-> << record, i >>]

(* Text appended to a file continues the line a torn write has left. *)
AppendText(file, text, isTorn) ==
  [lines |-> IF file.torn
               THEN [file.lines EXCEPT ![Len(file.lines)] = @ \o text]
               ELSE Append(file.lines, text),
   torn  |-> isTorn]

FileOf(day) == IF day \in DOMAIN files THEN files[day] ELSE [lines |-> << >>, torn |-> FALSE]

Put(day, file) == [d \in DOMAIN files \cup {day} |-> IF d = day THEN file ELSE files[d]]

(* A record is in a file, and the lock given up. *)
Appended(p) ==
  /\ stored' = Append(stored, [day |-> today])
  /\ mutex' = [mutex EXCEPT ![p] = "free"]
  /\ writing' = [writing EXCEPT ![p] = NotWriting]
  /\ late' = IF overtaken[p] THEN late + 1 ELSE late
  /\ overtaken' = [overtaken EXCEPT ![p] = FALSE]
  /\ Disturb(p)
  /\ UNCHANGED << clock, reading, crashes >>

(* The line goes to the file of the day it is now. *)
WriteLine(p) ==
  /\ writing[p].at = "append"
  /\ \E n \in Widths :
       files' = Put(today, AppendText(FileOf(today), Fields(Len(stored) + 1, n), FALSE))
  /\ Appended(p)
  /\ UNCHANGED torn

(* The disk is full before the whole line is written, which nobody checks.   *)
TearLine(p) ==
  /\ writing[p].at = "append"
  /\ MayFail
  /\ \E n \in Widths : \E k \in 1..(n - 1) :
       files' = Put(today, AppendText(FileOf(today), Fields(Len(stored) + 1, k), TRUE))
  /\ Appended(p)
  /\ torn' = torn + 1

-----------------------------------------------------------------------------
(* ReadAllLines *)

(* Fault: the directory's order, which may be any, here the reverse. *)
DaysUnsorted(days) == SetToSortSeq(days, >)

DaysInOrder(days) ==
  CHOOSE s \in [1..Cardinality(days) -> days] : \A i, j \in DOMAIN s : i < j => s[i] < s[j]

ReadAllLines(p) ==
  /\ reading[p].at \in {"idle", "done"} /\ Free(p)
  /\ mutex' = [mutex EXCEPT ![p] = "reader"]
  /\ reading' = [reading EXCEPT ![p] =
       [at |-> "read", days |-> DaysInOrder(DOMAIN files), lines |-> << >>]]
  /\ asked' = [asked EXCEPT ![p] = Len(stored)]
  /\ disturbed' = [disturbed EXCEPT ![p] = FALSE]
  /\ UNCHANGED << clock, files, writing, stored, faults, lateness >>

(* Fault: the last line of a file is taken for its end. *)
LinesBeforeLast(day) == IF FileOf(day).lines = << >> THEN << >> ELSE Front(FileOf(day).lines)

LinesOf(day) == FileOf(day).lines

(* A file that has gone since it was listed has no lines. *)
ReadFile(p) ==
  /\ reading[p].at = "read" /\ reading[p].days # << >>
  /\ reading' = [reading EXCEPT ![p].days = Tail(@),
                                ![p].lines = @ \o LinesOf(Head(reading[p].days))]
  /\ UNCHANGED << clock, files, mutex, writing, stored, faults, lateness, query >>

ReadDone(p) ==
  /\ reading[p].at = "read" /\ reading[p].days = << >>
  /\ reading' = [reading EXCEPT ![p].at = "done"]
  /\ mutex' = [mutex EXCEPT ![p] = "free"]
  /\ UNCHANGED << clock, files, writing, stored, faults, lateness, query >>

(* What sscanf makes of a line: one record, its fields, or none.  Of a       *)
(* measurement it wants six fields and looks no further; of an event eight,  *)
(* or three and no fourth.                                                   *)
Scan(line) ==
  LET longest == Max(Widths)
  IN  IF Len(line) >= longest THEN << SubSeq(line, 1, longest) >>
      ELSE IF Len(line) \in Widths THEN << line >>
      ELSE << >>

(* DCA_QueryMeasurements, DCA_QueryEvents: the time range leaves some of     *)
(* these records out, by their first field.                                  *)
DCA_Query(lines) == FlattenSeq([i \in DOMAIN lines |-> Scan(lines[i])])

-----------------------------------------------------------------------------
Crash(p) ==
  /\ MayFail
  /\ crashes' = crashes + 1
  /\ mutex' = [mutex EXCEPT ![p] = "free"]
  /\ writing' = [writing EXCEPT ![p] = NotWriting]
  /\ reading' = [reading EXCEPT ![p] = NotReading]
  /\ overtaken' = [overtaken EXCEPT ![p] = FALSE]
  /\ UNCHANGED << clock, files, stored, torn, late, query >>

Next ==
  \/ NextDay \/ SetClockBack
  \/ \E p \in Procs : AppendLine(p) \/ RotateList(p) \/ RotateRemove(p)
                        \/ WriteLine(p) \/ TearLine(p) \/ Crash(p)
  \/ \E p \in Readers : ReadAllLines(p) \/ ReadFile(p) \/ ReadDone(p)

Spec == Init /\ [][Next]_vars

-----------------------------------------------------------------------------
(* Correctness *)

Days == 1..LastDay

(* The types of the variables; a thread that is inside holds its mutex.      *)
TypeOK ==
  /\ today \in Days
  /\ DOMAIN files \subseteq Days
  /\ \A d \in DOMAIN files : Len(files[d].lines) > 0 /\ files[d].torn \in BOOLEAN
  /\ \A p \in Procs :
       /\ writing[p].at \in {"idle", "list", "remove", "append"}
       /\ writing[p].doomed \in 0..LastDay
       /\ reading[p].at \in {"idle", "read", "done"}
       /\ mutex[p] = "writer" <=> writing[p].at # "idle"
       /\ mutex[p] = "reader" <=> reading[p].at = "read"
  /\ torn \in Nat /\ crashes \in Nat /\ setBacks \in Nat
  /\ torn + crashes + setBacks <= MaxFaults
  /\ late \in 0..Len(stored) /\ overtaken \in [Procs -> BOOLEAN]

(* The record a scanned line is, if it is one record's fields from the first *)
(* to the last; 0 if it is a mixture.                                        *)
Record(r) == IF \E id \in DOMAIN stored : r = Fields(id, Len(r)) THEN r[1][1] ELSE 0

Records(p) == LET q == DCA_Query(reading[p].lines) IN [i \in DOMAIN q |-> Record(q[i])]

(* "Every file operation here needs to be serialized": what a query returns, *)
(* if no other process has changed a file meanwhile, is everything in the    *)
(* store at the moment it ends.                                              *)
Everything == FlattenSeq([i \in 1..Cardinality(DOMAIN files) |->
                            files[DaysInOrder(DOMAIN files)[i]].lines])

Snapshot ==
  [][\A p \in Readers : ReadDone(p) /\ ~disturbed[p] => reading[p].lines = Everything]_vars

(* Whatever other processes do meanwhile, and as long as the disk has had    *)
(* room and the clock was not set back, a query returns records that were    *)
(* stored, in the order they were stored and none twice; and it leaves none  *)
(* out that had been stored when it began and has not been rotated away by   *)
(* the time it ends.                                                         *)
InOrder(p) ==
  \A i \in DOMAIN Records(p) :
    /\ Records(p)[i] # 0
    /\ i > 1 => Records(p)[i - 1] < Records(p)[i]

Complete ==
  [][\A p \in Readers : ReadDone(p) /\ torn = 0 /\ setBacks = 0 =>
       /\ InOrder(p)
       /\ \A id \in 1..asked[p] : stored[id].day \in DOMAIN files => id \in ToSet(Records(p))]_vars

(* Rotation removes a file only when at least DCA_MAX_FILES newer ones       *)
(* remain: a week of data is kept, whoever else is rotating and whatever the *)
(* clock has been set to since the files were listed.                        *)
WeekKept ==
  [][\A d \in DOMAIN files \ DOMAIN files' :
       Cardinality({e \in DOMAIN files' : e > d}) >= DCA_MAX_FILES]_vars

(* Rotation comes before the file of the day is made, so there may be one    *)
(* file more than it allows, and another one for every record that was       *)
(* appended on another day than its rotation was made.                       *)
FilesBounded == Cardinality(DOMAIN files) <= DCA_MAX_FILES + 1 + late

=============================================================================
