------------------------ MODULE DataCollectionProofs ------------------------
(***************************************************************************)
(* What DataCollection promises of its files, proved for every number of   *)
(* processes, files to keep, days, records and faults: a week is kept, how *)
(* many files there may be, and what a query returns while others store.   *)
(***************************************************************************)
EXTENDS DataCollection, SequenceLemmas, FiniteSetTheorems

-----------------------------------------------------------------------------
(* The inductive invariant *)

Line == Seq((Nat \ {0}) \X Nat)
File == [lines : Seq(Line), torn : BOOLEAN]

FilesTypes ==
  /\ files \in [DOMAIN files -> File]
  /\ \A d \in DOMAIN files : Len(files[d].lines) > 0

StepTypes ==
  /\ mutex \in [Procs -> {"free", "writer", "reader"}]
  /\ writing \in [Procs -> [at : {"idle", "list", "remove", "append"}, doomed : 0..LastDay]]
  /\ DOMAIN reading = Procs
  /\ \A p \in Procs : DOMAIN reading[p] = {"at", "days", "lines"}
  /\ stored \in Seq([day : Days])

(* A file that is to be removed has at least DCA_MAX_FILES newer ones. *)
NewerThan(d) == {e \in DOMAIN files : e > d}

DoomedIsOld ==
  \A p \in Procs :
    writing[p].at = "remove" => Cardinality(NewerThan(writing[p].doomed)) >= DCA_MAX_FILES

(* Who has rotated on this day leaves room for the day's file, or there is   *)
(* one, or there is still a file to be removed.                              *)
Rotated(p) == writing[p].at \in {"remove", "append"} /\ ~overtaken[p]

RoomForToday ==
  \A p \in Procs :
    \/ ~Rotated(p)
    \/ today \in DOMAIN files
    \/ writing[p].at = "remove" /\ writing[p].doomed \in DOMAIN files
    \/ Cardinality(DOMAIN files) <= DCA_MAX_FILES + late

FilesInv ==
  /\ TypeOK /\ FilesTypes /\ StepTypes
  /\ DoomedIsOld /\ FilesBounded /\ RoomForToday

-----------------------------------------------------------------------------
(* Lemmas *)

(* The oldest of the days listed is one of them, and none is older. *)
LEMMA OldestIsLeast ==
  ASSUME NEW S \in SUBSET Nat, IsFiniteSet(S), S # {}
  PROVE  Oldest(S) \in S /\ \A d \in S : Oldest(S) <= d
<1> DEFINE Below(m) == {d \in S : d <= m}
<1>1. FiniteSubsetsOf(S) = SUBSET S
  BY FS_FiniteSubsetsOfFinite
<1>2. IsWellFoundedOn(StrictSubsetOrdering(S), SUBSET S)
  BY <1>1, FS_StrictSubsetOrderingWellFounded
<1>3. {Below(m) : m \in S} \subseteq SUBSET S /\ {Below(m) : m \in S} # {}
  OBVIOUS
<1>4. PICK least \in {Below(m) : m \in S} :
        \A T \in {Below(m) : m \in S} : ~(<< T, least >> \in StrictSubsetOrdering(S))
  BY <1>2, <1>3, WFMin
<1>5. PICK m \in S : least = Below(m)
  BY <1>4
<1>6. ASSUME NEW d \in S PROVE m <= d
  <2> SUFFICES ASSUME d < m PROVE FALSE
    OBVIOUS
  <2>1. Below(d) \subseteq Below(m) /\ m \in Below(m) /\ m \notin Below(d)
    <3>1. m \in Nat /\ d \in Nat /\ \A e \in S : e \in Nat
      OBVIOUS
    <3>2. (\A e \in S : e <= d => e <= m) /\ m <= m /\ ~(m <= d)
      BY <3>1
    <3> QED
      BY <3>2
  <2>2. Below(d) \in SUBSET S /\ Below(m) \in SUBSET S
    OBVIOUS
  <2> HIDE DEF Below
  <2>3. << Below(d), Below(m) >> \in StrictSubsetOrdering(S)
    BY <2>1, <2>2 DEF StrictSubsetOrdering
  <2> QED
    BY <1>4, <1>5, <2>3
<1> QED
  BY <1>6 DEF Oldest, Min

(* The days of files are finitely many. *)
LEMMA FilesFinite ==
  ASSUME TypeOK
  PROVE  /\ IsFiniteSet(DOMAIN files) /\ Cardinality(DOMAIN files) \in Nat
         /\ DOMAIN files \in SUBSET Nat /\ today \in Nat
         /\ \A d : NewerThan(d) \in SUBSET DOMAIN files /\ IsFiniteSet(NewerThan(d))
                   /\ Cardinality(NewerThan(d)) \in Nat
<1>1. LastDay \in Nat /\ IsFiniteSet(1..LastDay)
  BY DataCollectionAssumption, FS_Interval
<1>2. DOMAIN files \in SUBSET (1..LastDay) /\ today \in 1..LastDay
  BY DEF TypeOK, Days
<1>3. IsFiniteSet(DOMAIN files)
  BY <1>1, <1>2, FS_Subset
<1>4. \A d : NewerThan(d) \in SUBSET DOMAIN files
  BY DEF NewerThan
<1>5. \A d : IsFiniteSet(NewerThan(d))
  BY <1>3, <1>4, FS_Subset
<1> QED
  BY <1>1, <1>2, <1>3, <1>4, <1>5, FS_CardinalityType

(* What is listed when there are too many: the oldest has the others, at     *)
(* least DCA_MAX_FILES, before it.                                           *)
LEMMA OldestIsDoomed ==
  ASSUME TypeOK, Crowded(Cardinality(DOMAIN files))
  PROVE  /\ Oldest(DOMAIN files) \in DOMAIN files
         /\ Oldest(DOMAIN files) \in 0..LastDay
         /\ Cardinality(NewerThan(Oldest(DOMAIN files))) >= DCA_MAX_FILES
<1> DEFINE old == Oldest(DOMAIN files)
<1>1. /\ IsFiniteSet(DOMAIN files) /\ Cardinality(DOMAIN files) \in Nat
      /\ DOMAIN files \in SUBSET Nat
  BY FilesFinite
<1>2. DCA_MAX_FILES \in Nat /\ LastDay \in Nat
  BY DataCollectionAssumption
<1>3. Cardinality(DOMAIN files) > DCA_MAX_FILES
  BY DEF Crowded
<1>4. DOMAIN files # {}
  BY <1>1, <1>2, <1>3, FS_EmptySet
<1>5. old \in DOMAIN files /\ \A d \in DOMAIN files : old <= d
  BY <1>1, <1>4, OldestIsLeast
<1> HIDE DEF old
<1>6. NewerThan(old) = DOMAIN files \ {old}
  BY <1>1, <1>5 DEF NewerThan
<1>7. Cardinality(DOMAIN files \ {old}) = Cardinality(DOMAIN files) - 1
  BY <1>1, <1>5, FS_RemoveElement
<1>8. Cardinality(NewerThan(old)) >= DCA_MAX_FILES
  BY <1>1, <1>2, <1>3, <1>6, <1>7
<1>9. old \in 0..LastDay
  BY <1>2, <1>5 DEF TypeOK, Days
<1> QED
  BY <1>5, <1>8, <1>9 DEF old

(* Initially there are no files and nobody is at work. *)
LEMMA InitHolds ==
  ASSUME Init
  PROVE  FilesInv
<1>1. DOMAIN files = {} /\ Cardinality(DOMAIN files) = 0
  BY FS_EmptySet DEF Init
<1>2. /\ LastDay \in Nat /\ LastDay > 0 /\ DCA_MAX_FILES \in Nat /\ MaxFaults \in Nat
  BY DataCollectionAssumption
<1>3. \A p \in Procs : /\ writing[p].at = "idle" /\ writing[p].doomed = 0
                       /\ reading[p].at = "idle" /\ mutex[p] = "free"
                       /\ reading[p] = NotReading
  BY DEF Init, NotWriting, NotReading
<1>4. TypeOK
  <2>1. today \in Days /\ DOMAIN files \subseteq Days
    BY <1>1, <1>2 DEF Init, Days
  <2>2. torn = 0 /\ crashes = 0 /\ setBacks = 0 /\ late = 0 /\ stored = << >>
        /\ overtaken \in [Procs -> BOOLEAN]
    BY DEF Init
  <2>3. late \in 0..Len(stored)
    BY <2>2
  <2> QED
    BY <1>1, <1>2, <1>3, <2>1, <2>2, <2>3 DEF TypeOK
<1>5. FilesTypes
  BY <1>1 DEF FilesTypes
<1>6. StepTypes
  <2>1. \A p \in Procs : DOMAIN reading[p] = {"at", "days", "lines"}
    BY <1>3 DEF NotReading
  <2>2. stored \in Seq([day : Days]) /\ DOMAIN reading = Procs
    BY DEF Init
  <2>3. NotWriting \in [at : {"idle", "list", "remove", "append"}, doomed : 0..LastDay]
    BY <1>2 DEF NotWriting
  <2> QED
    BY <2>1, <2>2, <2>3 DEF Init, StepTypes
<1>7. DoomedIsOld /\ RoomForToday
  BY <1>3 DEF DoomedIsOld, RoomForToday, Rotated
<1>8. FilesBounded
  BY <1>1, <1>2 DEF Init, FilesBounded
<1> QED
  BY <1>4, <1>5, <1>6, <1>7, <1>8 DEF FilesInv

-----------------------------------------------------------------------------
(* Types *)

(* A line continued or begun is a line. *)
LEMMA AppendTextTypes ==
  ASSUME NEW file \in File, file.torn => Len(file.lines) > 0, NEW text \in Line, NEW b \in BOOLEAN
  PROVE  /\ AppendText(file, text, b) \in File
         /\ Len(AppendText(file, text, b).lines) > 0
<1>1. file.lines \in Seq(Line) /\ file.torn \in BOOLEAN /\ Len(file.lines) \in Nat
  BY DEF File
<1>2. CASE file.torn
  <2> DEFINE l == Len(file.lines)
  <2>1. l \in 1..l /\ file.lines[l] \in Line
    BY <1>1, <1>2
  <2>2. file.lines[l] \o text \in Line
    BY <2>1 DEF Line
  <2>3. /\ [file.lines EXCEPT ![l] = @ \o text] \in Seq(Line)
        /\ Len([file.lines EXCEPT ![l] = @ \o text]) = l
    BY <1>1, <2>1, <2>2
  <2> QED
    BY <1>1, <1>2, <2>1, <2>3 DEF AppendText, File
<1>3. CASE ~file.torn
  <2>1. Append(file.lines, text) \in Seq(Line) /\ Len(Append(file.lines, text)) > 0
    BY <1>1
  <2> QED
    BY <1>3, <2>1 DEF AppendText, File
<1> QED
  BY <1>1, <1>2, <1>3

(* The file written is one of those there are or a new one, and no other     *)
(* changes.                                                                  *)
LEMMA PutTypes ==
  ASSUME FilesInv, NEW k \in Nat, NEW b \in BOOLEAN,
         files' = Put(today, AppendText(FileOf(today), Fields(Len(stored) + 1, k), b))
  PROVE  FilesTypes' /\ DOMAIN files' = DOMAIN files \cup {today}
<1>1. Fields(Len(stored) + 1, k) \in Line
  <2>1. Len(stored) \in Nat
    BY DEF FilesInv, StepTypes
  <2> QED
    BY <2>1 DEF Fields, Line
<1>2. FileOf(today) \in File /\ (FileOf(today).torn => Len(FileOf(today).lines) > 0)
  <2>1. CASE today \in DOMAIN files
    BY <2>1 DEF FileOf, FilesInv, FilesTypes
  <2>2. CASE today \notin DOMAIN files
    BY <2>2 DEF FileOf, File
  <2> QED
    BY <2>1, <2>2
<1> DEFINE new == AppendText(FileOf(today), Fields(Len(stored) + 1, k), b)
<1>3. new \in File /\ Len(new.lines) > 0
  BY <1>1, <1>2, AppendTextTypes
<1> HIDE DEF new
<1>4. files' = [d \in DOMAIN files \cup {today} |-> IF d = today THEN new ELSE files[d]]
  BY DEF new, Put
<1>5. DOMAIN files' = DOMAIN files \cup {today}
  BY <1>4
<1>6. ASSUME NEW d \in DOMAIN files' PROVE files'[d] \in File /\ Len(files'[d].lines) > 0
  BY <1>3, <1>4, <1>5 DEF FilesInv, FilesTypes
<1> QED
  BY <1>4, <1>5, <1>6 DEF FilesTypes

(* The bookkeeping of a record that was appended. *)
LEMMA AppendedTypes ==
  ASSUME FilesInv, NEW p \in Procs, writing[p].at = "append", Appended(p)
  PROVE  /\ StepTypes' /\ today' = today /\ setBacks' = setBacks /\ crashes' = crashes
         /\ late' \in 0..Len(stored') /\ overtaken' \in [Procs -> BOOLEAN]
         /\ \A q \in Procs :
              /\ writing'[q].at \in {"idle", "list", "remove", "append"}
              /\ writing'[q].doomed \in 0..LastDay
              /\ reading'[q].at \in {"idle", "read", "done"}
              /\ mutex'[q] = "writer" <=> writing'[q].at # "idle"
              /\ mutex'[q] = "reader" <=> reading'[q].at = "read"
<1>1. /\ mutex \in [Procs -> {"free", "writer", "reader"}]
      /\ writing \in [Procs -> [at : {"idle", "list", "remove", "append"}, doomed : 0..LastDay]]
      /\ stored \in Seq([day : Days]) /\ today \in Days /\ Len(stored) \in Nat
      /\ late \in 0..Len(stored) /\ overtaken \in [Procs -> BOOLEAN]
  BY DEF FilesInv, StepTypes, TypeOK
<1>2. /\ mutex' = [mutex EXCEPT ![p] = "free"] /\ writing' = [writing EXCEPT ![p] = NotWriting]
      /\ reading' = reading /\ today' = today /\ setBacks' = setBacks /\ crashes' = crashes
      /\ stored' = Append(stored, [day |-> today])
      /\ late' = IF overtaken[p] THEN late + 1 ELSE late
      /\ overtaken' = [overtaken EXCEPT ![p] = FALSE]
  BY DEF Appended, clock
<1>3. NotWriting \in [at : {"idle", "list", "remove", "append"}, doomed : 0..LastDay]
      /\ NotWriting.at = "idle"
  BY DataCollectionAssumption DEF NotWriting
<1>4. stored' \in Seq([day : Days]) /\ Len(stored') = Len(stored) + 1
  BY <1>1, <1>2
<1>5. StepTypes'
  BY <1>1, <1>2, <1>3, <1>4 DEF FilesInv, StepTypes
<1>6. late' \in 0..Len(stored') /\ overtaken' \in [Procs -> BOOLEAN]
  BY <1>1, <1>2, <1>4
<1>7. ASSUME NEW q \in Procs
      PROVE  /\ writing'[q].at \in {"idle", "list", "remove", "append"}
             /\ writing'[q].doomed \in 0..LastDay
             /\ reading'[q].at \in {"idle", "read", "done"}
             /\ mutex'[q] = "writer" <=> writing'[q].at # "idle"
             /\ mutex'[q] = "reader" <=> reading'[q].at = "read"
  BY <1>1, <1>2, <1>3 DEF FilesInv, TypeOK
<1> QED
  BY <1>2, <1>5, <1>6, <1>7

(* The types, apart from what the invariant says of them. *)
Types == TypeOK /\ FilesTypes /\ StepTypes

(* What an append changes. *)
LEMMA WriteTypes ==
  ASSUME FilesInv, NEW p \in Procs, WriteLine(p) \/ TearLine(p)
  PROVE  Types'
<1>1. PICK k \in Nat, b \in BOOLEAN :
        files' = Put(today, AppendText(FileOf(today), Fields(Len(stored) + 1, k), b))
  <2>1. CASE WriteLine(p)
    BY <2>1, DataCollectionAssumption DEF WriteLine
  <2>2. CASE TearLine(p)
    <3>1. PICK n \in Widths : \E k \in 1..(n - 1) :
            files' = Put(today, AppendText(FileOf(today), Fields(Len(stored) + 1, k), TRUE))
      BY <2>2 DEF TearLine
    <3>2. PICK k \in 1..(n - 1) :
            files' = Put(today, AppendText(FileOf(today), Fields(Len(stored) + 1, k), TRUE))
      BY <3>1
    <3>3. k \in Nat
      BY DataCollectionAssumption
    <3> QED
      BY <3>2, <3>3
  <2> QED
    BY <2>1, <2>2
<1>2. FilesTypes' /\ DOMAIN files' = DOMAIN files \cup {today}
  BY <1>1, PutTypes
<1>3. writing[p].at = "append" /\ Appended(p)
  BY DEF WriteLine, TearLine
<1>4. /\ StepTypes' /\ today' = today /\ setBacks' = setBacks /\ crashes' = crashes
      /\ late' \in 0..Len(stored') /\ overtaken' \in [Procs -> BOOLEAN]
      /\ \A q \in Procs :
           /\ writing'[q].at \in {"idle", "list", "remove", "append"}
           /\ writing'[q].doomed \in 0..LastDay
           /\ reading'[q].at \in {"idle", "read", "done"}
           /\ mutex'[q] = "writer" <=> writing'[q].at # "idle"
           /\ mutex'[q] = "reader" <=> reading'[q].at = "read"
  BY <1>3, AppendedTypes
<1>5. torn' \in Nat /\ torn' + crashes' + setBacks' <= MaxFaults
  <2>1. /\ torn \in Nat /\ crashes \in Nat /\ setBacks \in Nat /\ MaxFaults \in Nat
        /\ torn + crashes + setBacks <= MaxFaults
    BY DataCollectionAssumption DEF FilesInv, TypeOK
  <2>2. torn' = torn \/ (torn' = torn + 1 /\ torn + crashes + setBacks < MaxFaults)
    BY DEF WriteLine, TearLine, MayFail
  <2> QED
    BY <1>4, <2>1, <2>2
<1>6. \A d \in DOMAIN files' : Len(files'[d].lines) > 0 /\ files'[d].torn \in BOOLEAN
  BY <1>2 DEF FilesTypes, File
<1>7. TypeOK'
  BY <1>2, <1>4, <1>5, <1>6 DEF FilesInv, TypeOK, Days
<1> QED
  BY <1>2, <1>4, <1>7 DEF Types

(* What the clock and the rotation's and the query's own steps change. *)
LEMMA ClockTypes ==
  ASSUME FilesInv, NextDay \/ SetClockBack
  PROVE  Types'
<1>1. /\ today \in 1..LastDay /\ LastDay \in Nat /\ MaxFaults \in Nat
      /\ torn \in Nat /\ crashes \in Nat /\ setBacks \in Nat
      /\ torn + crashes + setBacks <= MaxFaults
  BY DataCollectionAssumption DEF FilesInv, TypeOK, Days
<1>2. /\ files' = files /\ mutex' = mutex /\ writing' = writing /\ reading' = reading
      /\ stored' = stored /\ torn' = torn /\ crashes' = crashes /\ late' = late
      /\ overtaken' = [p \in Procs |-> writing[p].at \in {"remove", "append"}]
  BY DEF NextDay, SetClockBack, Overtake, faults
<1>3. today' \in Days
  <2>1. CASE NextDay
    BY <1>1, <2>1 DEF NextDay, Days
  <2>2. CASE SetClockBack
    BY <1>1, <2>2 DEF SetClockBack, Days
  <2> QED
    BY <2>1, <2>2
<1>4. setBacks' \in Nat /\ torn' + crashes' + setBacks' <= MaxFaults
  <2>1. CASE NextDay
    BY <1>1, <1>2, <2>1 DEF NextDay
  <2>2. CASE SetClockBack
    BY <1>1, <1>2, <2>2 DEF SetClockBack, MayFail
  <2> QED
    BY <2>1, <2>2
<1>5. overtaken' \in [Procs -> BOOLEAN]
  BY <1>2
<1>6. FilesTypes' /\ StepTypes'
  BY <1>2 DEF FilesInv, FilesTypes, StepTypes
<1>7. TypeOK'
  BY <1>2, <1>3, <1>4, <1>5 DEF FilesInv, TypeOK, Days
<1> QED
  BY <1>6, <1>7 DEF Types

LEMMA AppendLineTypes ==
  ASSUME FilesInv, NEW p \in Procs, AppendLine(p)
  PROVE  Types'
<1>1. /\ mutex \in [Procs -> {"free", "writer", "reader"}]
      /\ writing \in [Procs -> [at : {"idle", "list", "remove", "append"}, doomed : 0..LastDay]]
      /\ overtaken \in [Procs -> BOOLEAN]
  BY DEF FilesInv, StepTypes, TypeOK
<1>2. /\ mutex[p] = "free" /\ writing[p].at = "idle"
      /\ mutex' = [mutex EXCEPT ![p] = "writer"]
      /\ writing' = [writing EXCEPT ![p].at = "list"]
      /\ overtaken' = [overtaken EXCEPT ![p] = FALSE]
      /\ UNCHANGED << today, setBacks, files, reading, stored, torn, crashes, late >>
  BY DEF AppendLine, Free, clock, faults
<1>3. StepTypes' /\ FilesTypes'
  BY <1>1, <1>2 DEF FilesInv, StepTypes, FilesTypes
<1>4. ASSUME NEW q \in Procs
      PROVE  /\ writing'[q].at \in {"idle", "list", "remove", "append"}
             /\ writing'[q].doomed \in 0..LastDay
             /\ reading'[q].at \in {"idle", "read", "done"}
             /\ mutex'[q] = "writer" <=> writing'[q].at # "idle"
             /\ mutex'[q] = "reader" <=> reading'[q].at = "read"
  BY <1>1, <1>2 DEF FilesInv, TypeOK
<1>5. overtaken' \in [Procs -> BOOLEAN]
  BY <1>1, <1>2
<1>6. TypeOK'
  BY <1>2, <1>4, <1>5 DEF FilesInv, TypeOK, Days
<1> QED
  BY <1>3, <1>6 DEF Types

LEMMA RotateTypes ==
  ASSUME FilesInv, NEW p \in Procs, RotateList(p) \/ RotateRemove(p)
  PROVE  Types'
<1>1. /\ mutex \in [Procs -> {"free", "writer", "reader"}]
      /\ writing \in [Procs -> [at : {"idle", "list", "remove", "append"}, doomed : 0..LastDay]]
      /\ LastDay \in Nat
  BY DataCollectionAssumption DEF FilesInv, StepTypes
<1>2. /\ writing[p].at # "idle"
      /\ UNCHANGED << today, setBacks, mutex, reading, stored, torn, crashes, late, overtaken >>
  BY DEF RotateList, RotateRemove, clock, faults, lateness
<1>3. PICK w \in [at : {"remove", "append"}, doomed : 0..LastDay] :
        writing' = [writing EXCEPT ![p] = w]
  <2>1. [at |-> "append", doomed |-> 0] \in [at : {"remove", "append"}, doomed : 0..LastDay]
    BY <1>1
  <2>2. Crowded(Cardinality(DOMAIN files)) =>
          [at |-> "remove", doomed |-> Oldest(DOMAIN files)]
            \in [at : {"remove", "append"}, doomed : 0..LastDay]
    BY OldestIsDoomed DEF FilesInv
  <2>3. CASE RotateList(p)
    BY <2>1, <2>2, <2>3 DEF RotateList
  <2>4. CASE RotateRemove(p)
    BY <2>1, <2>4 DEF RotateRemove
  <2> QED
    BY <2>3, <2>4
<1>4. files' = files \/ files' = [d \in DOMAIN files \ {writing[p].doomed} |-> files[d]]
  BY DEF RotateList, RotateRemove
<1>5. FilesTypes' /\ DOMAIN files' \subseteq DOMAIN files
  <2>1. \A d \in DOMAIN files : files[d] \in File /\ Len(files[d].lines) > 0
    BY DEF FilesInv, FilesTypes
  <2>2. DOMAIN files' \subseteq DOMAIN files /\ \A d \in DOMAIN files' : files'[d] = files[d]
    BY <1>4
  <2>3. files' = [d \in DOMAIN files' |-> files'[d]]
    BY <1>4 DEF FilesInv, FilesTypes
  <2> QED
    BY <2>1, <2>2, <2>3 DEF FilesTypes
<1>6. StepTypes'
  BY <1>1, <1>2, <1>3 DEF FilesInv, StepTypes
<1>7. ASSUME NEW q \in Procs
      PROVE  /\ writing'[q].at \in {"idle", "list", "remove", "append"}
             /\ writing'[q].doomed \in 0..LastDay
             /\ writing'[q].at = "idle" <=> writing[q].at = "idle"
  BY <1>1, <1>2, <1>3
<1>8. \A d \in DOMAIN files' : Len(files'[d].lines) > 0 /\ files'[d].torn \in BOOLEAN
  BY <1>5 DEF FilesTypes, File
<1>9. TypeOK'
  BY <1>2, <1>5, <1>7, <1>8 DEF FilesInv, TypeOK, Days
<1> QED
  BY <1>5, <1>6, <1>9 DEF Types

(* A query leaves everything else as it is. *)
LEMMA QueryTypes ==
  ASSUME FilesInv, NEW p \in Procs, ReadAllLines(p) \/ ReadFile(p) \/ ReadDone(p)
  PROVE  Types'
<1>1. /\ mutex \in [Procs -> {"free", "writer", "reader"}] /\ DOMAIN reading = Procs
      /\ \A q \in Procs : DOMAIN reading[q] = {"at", "days", "lines"}
  BY DEF FilesInv, StepTypes
<1>2. UNCHANGED << today, setBacks, files, writing, stored, torn, crashes, late, overtaken >>
  BY DEF ReadAllLines, ReadFile, ReadDone, clock, faults, lateness
<1>3. /\ DOMAIN reading' = Procs
      /\ \A q \in Procs : DOMAIN reading'[q] = {"at", "days", "lines"}
      /\ \A q \in Procs : q # p => reading'[q].at = reading[q].at
  <2>1. CASE ReadAllLines(p)
    BY <1>1, <2>1, Zenon DEF ReadAllLines
  <2>2. CASE ReadFile(p)
    BY <1>1, <2>2, Zenon DEF ReadFile
  <2>3. CASE ReadDone(p)
    BY <1>1, <2>3, Zenon DEF ReadDone
  <2> QED
    BY <2>1, <2>2, <2>3
<1>4. /\ reading'[p].at \in {"read", "done"} /\ writing[p].at = "idle"
      /\ mutex' = [mutex EXCEPT ![p] = IF reading'[p].at = "read" THEN "reader" ELSE "free"]
  <2>1. CASE ReadAllLines(p)
    <3>1. reading'[p].at = "read"
      BY <1>1, <2>1, Zenon DEF ReadAllLines
    <3> QED
      BY <2>1, <3>1 DEF ReadAllLines, Free, FilesInv, TypeOK
  <2>2. CASE ReadFile(p)
    <3>1. mutex[p] = "reader" /\ reading[p].at = "read" /\ mutex' = mutex
      BY <2>2 DEF ReadFile, FilesInv, TypeOK
    <3>2. reading'[p].at = "read"
      BY <1>1, <2>2, <3>1, Zenon DEF ReadFile
    <3> QED
      BY <1>1, <3>1, <3>2 DEF FilesInv, TypeOK
  <2>3. CASE ReadDone(p)
    <3>1. mutex[p] = "reader" /\ mutex' = [mutex EXCEPT ![p] = "free"]
      BY <2>3 DEF ReadDone, FilesInv, TypeOK
    <3>2. reading'[p].at = "done"
      BY <1>1, <2>3, Zenon DEF ReadDone
    <3> QED
      BY <3>1, <3>2 DEF FilesInv, TypeOK
  <2> QED
    BY <2>1, <2>2, <2>3
<1>5. mutex' \in [Procs -> {"free", "writer", "reader"}]
  BY <1>1, <1>4
<1>6. StepTypes' /\ FilesTypes'
  BY <1>2, <1>3, <1>5 DEF FilesInv, StepTypes, FilesTypes
<1>7. ASSUME NEW q \in Procs
      PROVE  /\ reading'[q].at \in {"idle", "read", "done"}
             /\ mutex'[q] = "writer" <=> writing'[q].at # "idle"
             /\ mutex'[q] = "reader" <=> reading'[q].at = "read"
  <2>1. CASE q = p
    BY <1>1, <1>2, <1>4, <2>1
  <2>2. CASE q # p
    BY <1>1, <1>2, <1>3, <1>4, <2>2 DEF FilesInv, TypeOK
  <2> QED
    BY <2>1, <2>2
<1>8. TypeOK'
  BY <1>2, <1>7 DEF FilesInv, TypeOK, Days
<1> QED
  BY <1>6, <1>8 DEF Types

LEMMA CrashTypes ==
  ASSUME FilesInv, NEW p \in Procs, Crash(p)
  PROVE  Types'
<1>1. /\ mutex \in [Procs -> {"free", "writer", "reader"}]
      /\ writing \in [Procs -> [at : {"idle", "list", "remove", "append"}, doomed : 0..LastDay]]
      /\ overtaken \in [Procs -> BOOLEAN] /\ DOMAIN reading = Procs
      /\ torn \in Nat /\ crashes \in Nat /\ setBacks \in Nat /\ MaxFaults \in Nat
  BY DataCollectionAssumption DEF FilesInv, StepTypes, TypeOK
<1>2. /\ torn + crashes + setBacks < MaxFaults /\ crashes' = crashes + 1
      /\ mutex' = [mutex EXCEPT ![p] = "free"]
      /\ writing' = [writing EXCEPT ![p] = NotWriting]
      /\ reading' = [reading EXCEPT ![p] = NotReading]
      /\ overtaken' = [overtaken EXCEPT ![p] = FALSE]
      /\ UNCHANGED << today, setBacks, files, stored, torn, late >>
  BY DEF Crash, MayFail, clock
<1>3. NotWriting \in [at : {"idle", "list", "remove", "append"}, doomed : 0..LastDay]
      /\ NotWriting.at = "idle" /\ NotReading.at = "idle"
      /\ DOMAIN NotReading = {"at", "days", "lines"}
  BY DataCollectionAssumption DEF NotWriting, NotReading
<1>4. StepTypes' /\ FilesTypes'
  BY <1>1, <1>2, <1>3 DEF FilesInv, StepTypes, FilesTypes
<1>5. crashes' \in Nat /\ torn' + crashes' + setBacks' <= MaxFaults
      /\ overtaken' \in [Procs -> BOOLEAN]
  BY <1>1, <1>2
<1>6. ASSUME NEW q \in Procs
      PROVE  /\ writing'[q].at \in {"idle", "list", "remove", "append"}
             /\ writing'[q].doomed \in 0..LastDay
             /\ reading'[q].at \in {"idle", "read", "done"}
             /\ mutex'[q] = "writer" <=> writing'[q].at # "idle"
             /\ mutex'[q] = "reader" <=> reading'[q].at = "read"
  BY <1>1, <1>2, <1>3 DEF FilesInv, TypeOK
<1>7. TypeOK'
  BY <1>2, <1>5, <1>6 DEF FilesInv, TypeOK, Days
<1> QED
  BY <1>4, <1>7 DEF Types

LEMMA TypesKept ==
  ASSUME FilesInv, [Next]_vars
  PROVE  Types'
<1>1. CASE NextDay \/ SetClockBack
  BY <1>1, ClockTypes
<1>2. CASE \E p \in Procs : AppendLine(p) \/ RotateList(p) \/ RotateRemove(p)
                            \/ WriteLine(p) \/ TearLine(p) \/ Crash(p)
  BY <1>2, AppendLineTypes, RotateTypes, WriteTypes, CrashTypes
<1>3. CASE \E p \in Readers : ReadAllLines(p) \/ ReadFile(p) \/ ReadDone(p)
  BY <1>3, QueryTypes, DataCollectionAssumption
<1>4. CASE UNCHANGED vars
  BY <1>4 DEF vars, clock, faults, lateness, query, FilesInv, Types, TypeOK, FilesTypes, StepTypes,
     Days
<1> QED
  BY <1>1, <1>2, <1>3, <1>4 DEF Next

-----------------------------------------------------------------------------
(* What is to be removed is old *)

(* Days are finitely many. *)
LEMMA DaysFinite ==
  ASSUME NEW D \in SUBSET Days
  PROVE  IsFiniteSet(D) /\ Cardinality(D) \in Nat /\ D \in SUBSET Nat
<1>1. LastDay \in Nat /\ IsFiniteSet(1..LastDay)
  BY DataCollectionAssumption, FS_Interval
<1>2. D \in SUBSET (1..LastDay)
  BY DEF Days
<1>3. IsFiniteSet(D)
  BY <1>1, <1>2, FS_Subset
<1> QED
  BY <1>1, <1>2, <1>3, FS_CardinalityType

(* If enough files newer than some day remain, an older file may still go. *)
LEMMA DoomedStays ==
  ASSUME FilesInv, Types', NEW q \in Procs, writing[q].at = "remove",
         writing'[q] = writing[q],
         \E d \in Nat : /\ Cardinality(NewerThan(d)) >= DCA_MAX_FILES
                        /\ d >= writing[q].doomed
                        /\ NewerThan(d) \subseteq DOMAIN files'
  PROVE  Cardinality(NewerThan(writing[q].doomed)') >= DCA_MAX_FILES
<1>1. PICK d \in Nat : /\ Cardinality(NewerThan(d)) >= DCA_MAX_FILES
                       /\ d >= writing[q].doomed
                       /\ NewerThan(d) \subseteq DOMAIN files'
  OBVIOUS
<1>2. writing[q].doomed \in Nat
  BY DataCollectionAssumption DEF FilesInv, TypeOK
<1>3. /\ NewerThan(writing[q].doomed)' = {e \in DOMAIN files' : e > writing[q].doomed}
      /\ NewerThan(d) = {e \in DOMAIN files : e > d}
  BY DEF NewerThan
<1>4. DOMAIN files' \in SUBSET Days /\ DOMAIN files \in SUBSET Nat
  BY FilesFinite DEF Types, TypeOK, FilesInv
<1> DEFINE T == {e \in DOMAIN files' : e > writing[q].doomed}
<1>5. NewerThan(d) \in SUBSET T
  BY <1>1, <1>2, <1>3, <1>4
<1>6. T \in SUBSET Days
  BY <1>4
<1> HIDE DEF T
<1>7. Cardinality(NewerThan(d)) <= Cardinality(T)
      /\ Cardinality(T) \in Nat /\ Cardinality(NewerThan(d)) \in Nat
  BY <1>5, <1>6, DaysFinite, FilesFinite, FS_Subset DEF FilesInv
<1>8. Cardinality(T) >= DCA_MAX_FILES
  BY <1>1, <1>7, DataCollectionAssumption
<1> QED
  BY <1>3, <1>8 DEF T

(* A file that is removed leaves another process's file old enough: of two   *)
(* files to be removed, the newer has enough that are newer than it, and     *)
(* those remain.                                                             *)
LEMMA DoomedKept ==
  ASSUME FilesInv, Types', [Next]_vars
  PROVE  DoomedIsOld'
<1> SUFFICES ASSUME NEW q \in Procs, writing'[q].at = "remove"
             PROVE  Cardinality(NewerThan(writing[q].doomed)') >= DCA_MAX_FILES
  BY DEF DoomedIsOld
<1>1. writing \in [Procs -> [at : {"idle", "list", "remove", "append"}, doomed : 0..LastDay]]
  BY DEF FilesInv, StepTypes
<1>2. /\ \A p \in Procs : writing[p].doomed \in Nat
      /\ \A p \in Procs : writing[p].at = "remove" =>
                            Cardinality(NewerThan(writing[p].doomed)) >= DCA_MAX_FILES
  BY DataCollectionAssumption DEF FilesInv, TypeOK, DoomedIsOld
<1>3. DOMAIN files \in SUBSET Nat /\ \A d : NewerThan(d) \in SUBSET DOMAIN files
  BY FilesFinite DEF FilesInv
<1>4. ASSUME DOMAIN files \subseteq DOMAIN files', writing'[q] = writing[q]
      PROVE  Cardinality(NewerThan(writing[q].doomed)') >= DCA_MAX_FILES
  <2>1. writing[q].at = "remove" /\ writing[q].doomed \in Nat
        /\ Cardinality(NewerThan(writing[q].doomed)) >= DCA_MAX_FILES
    BY <1>2, <1>4
  <2>2. NewerThan(writing[q].doomed) \subseteq DOMAIN files' /\ writing[q].doomed >= writing[q].doomed
    BY <1>3, <1>4, <2>1
  <2> QED
    BY <1>4, <2>1, <2>2, DoomedStays
<1>5. CASE NextDay \/ SetClockBack \/ UNCHANGED vars
           \/ \E p \in Readers : ReadAllLines(p) \/ ReadFile(p) \/ ReadDone(p)
  <2>1. files' = files /\ writing' = writing
    BY <1>5 DEF NextDay, SetClockBack, Overtake, vars, ReadAllLines, ReadFile, ReadDone
  <2> QED
    BY <1>4, <2>1
<1>6. ASSUME NEW p \in Procs, AppendLine(p) \/ Crash(p) \/ WriteLine(p) \/ TearLine(p)
      PROVE  Cardinality(NewerThan(writing[q].doomed)') >= DCA_MAX_FILES
  <2>1. DOMAIN files \subseteq DOMAIN files'
    BY <1>6 DEF AppendLine, Crash, WriteLine, TearLine, Put
  <2>2. writing'[q] = writing[q]
    <3>1. writing'[p].at # "remove"
      <4>1. CASE AppendLine(p)
        BY <1>1, <4>1 DEF AppendLine
      <4>2. CASE ~AppendLine(p)
        <5>1. writing' = [writing EXCEPT ![p] = NotWriting]
          BY <1>6, <4>2 DEF Crash, WriteLine, TearLine, Appended
        <5>2. NotWriting.at = "idle"
          BY DEF NotWriting
        <5> QED
          BY <1>1, <5>1, <5>2
      <4> QED
        BY <4>1, <4>2
    <3>2. q # p
      BY <3>1
    <3> QED
      BY <1>1, <1>6, <3>2 DEF AppendLine, Crash, WriteLine, TearLine, Appended
  <2> QED
    BY <1>4, <2>1, <2>2
<1>7. ASSUME NEW p \in Procs, RotateList(p)
      PROVE  Cardinality(NewerThan(writing[q].doomed)') >= DCA_MAX_FILES
  <2>1. files' = files
    BY <1>7 DEF RotateList
  <2>2. CASE q = p
    <3>1. Crowded(Cardinality(DOMAIN files)) /\ writing'[q].doomed = Oldest(DOMAIN files)
      BY <1>1, <1>7, <2>2 DEF RotateList
    <3>2. Cardinality(NewerThan(Oldest(DOMAIN files))) >= DCA_MAX_FILES
      BY <3>1, OldestIsDoomed DEF FilesInv
    <3>3. NewerThan(writing[q].doomed)' = NewerThan(Oldest(DOMAIN files))
      BY <2>1, <3>1 DEF NewerThan
    <3> QED
      BY <3>2, <3>3
  <2>3. CASE q # p
    <3>1. writing'[q] = writing[q]
      BY <1>1, <1>7, <2>3 DEF RotateList
    <3> QED
      BY <1>4, <2>1, <3>1
  <2> QED
    BY <2>2, <2>3
<1>8. ASSUME NEW p \in Procs, RotateRemove(p)
      PROVE  Cardinality(NewerThan(writing[q].doomed)') >= DCA_MAX_FILES
  <2>1. writing[p].at = "remove" /\ DOMAIN files' = DOMAIN files \ {writing[p].doomed}
        /\ writing'[p].at # "remove" /\ writing' = [writing EXCEPT ![p] = writing'[p]]
    BY <1>1, <1>8 DEF RotateRemove
  <2>2. writing'[q] = writing[q] /\ writing[q].at = "remove"
    BY <1>1, <2>1
  <2>3. writing[p].doomed \in Nat /\ writing[q].doomed \in Nat
    BY <1>2
  <2>4. CASE writing[p].doomed > writing[q].doomed
    <3>1. NewerThan(writing[p].doomed) \subseteq DOMAIN files'
      BY <1>3, <2>1, <2>3 DEF NewerThan
    <3>2. writing[p].doomed >= writing[q].doomed
          /\ Cardinality(NewerThan(writing[p].doomed)) >= DCA_MAX_FILES
      BY <1>2, <2>1, <2>3, <2>4
    <3> QED
      BY <2>2, <2>3, <3>1, <3>2, DoomedStays
  <2>5. CASE ~(writing[p].doomed > writing[q].doomed)
    <3>1. NewerThan(writing[q].doomed) \subseteq DOMAIN files'
      BY <1>3, <2>1, <2>3, <2>5 DEF NewerThan
    <3>2. writing[q].doomed >= writing[q].doomed
          /\ Cardinality(NewerThan(writing[q].doomed)) >= DCA_MAX_FILES
      BY <1>2, <2>2, <2>3
    <3> QED
      BY <2>2, <2>3, <3>1, <3>2, DoomedStays
  <2> QED
    BY <2>4, <2>5
<1> QED
  BY <1>5, <1>6, <1>7, <1>8 DEF Next

-----------------------------------------------------------------------------
(* How many files there are *)

(* A step that changes no file, and rotates for nobody. *)
LEMMA RoomStays ==
  ASSUME FilesInv, Types', late' = late, files' = files,
         \A q \in Procs : Rotated(q)' => /\ Rotated(q) /\ today' = today
                                         /\ writing'[q] = writing[q]
  PROVE  FilesBounded' /\ RoomForToday'
<1>1. FilesBounded'
  BY DEF FilesInv, FilesBounded
<1>2. RoomForToday'
  BY DEF FilesInv, RoomForToday
<1> QED
  BY <1>1, <1>2

(* A rotation leaves room for one file, and an append makes no more than one. *)
LEMMA BoundKept ==
  ASSUME FilesInv, Types', [Next]_vars
  PROVE  FilesBounded' /\ RoomForToday'
<1> DEFINE N == Cardinality(DOMAIN files)
<1>1. /\ writing \in [Procs -> [at : {"idle", "list", "remove", "append"}, doomed : 0..LastDay]]
      /\ overtaken \in [Procs -> BOOLEAN]
  BY DEF FilesInv, StepTypes, TypeOK
<1>2. /\ IsFiniteSet(DOMAIN files) /\ N \in Nat /\ late \in Nat /\ DCA_MAX_FILES \in Nat
      /\ N <= DCA_MAX_FILES + 1 + late
  BY FilesFinite, DataCollectionAssumption DEF FilesInv, FilesBounded, TypeOK
<1>3. \A p \in Procs :
        \/ ~Rotated(p)
        \/ today \in DOMAIN files
        \/ writing[p].at = "remove" /\ writing[p].doomed \in DOMAIN files
        \/ N <= DCA_MAX_FILES + late
  BY DEF FilesInv, RoomForToday
<1> HIDE DEF N
<1>4. CASE UNCHANGED vars \/ \E p \in Readers : ReadAllLines(p) \/ ReadFile(p) \/ ReadDone(p)
  <2>1. /\ files' = files /\ writing' = writing /\ late' = late /\ today' = today
        /\ overtaken' = overtaken
    BY <1>4 DEF vars, clock, lateness, ReadAllLines, ReadFile, ReadDone
  <2>2. \A q \in Procs : Rotated(q)' => Rotated(q)
    BY <2>1 DEF Rotated
  <2> QED
    BY <2>1, <2>2, RoomStays
<1>5. CASE NextDay \/ SetClockBack
  <2>1. /\ files' = files /\ writing' = writing /\ late' = late
        /\ overtaken' = [p \in Procs |-> writing[p].at \in {"remove", "append"}]
    BY <1>5 DEF NextDay, SetClockBack, Overtake
  <2>2. \A q \in Procs : ~Rotated(q)'
    BY <2>1 DEF Rotated
  <2> QED
    BY <2>1, <2>2, RoomStays
<1>6. ASSUME NEW p \in Procs, AppendLine(p) \/ Crash(p)
      PROVE  FilesBounded' /\ RoomForToday'
  <2>1. /\ files' = files /\ late' = late /\ today' = today
        /\ \A q \in Procs : q # p => writing'[q] = writing[q] /\ overtaken'[q] = overtaken[q]
    BY <1>1, <1>6 DEF AppendLine, Crash, clock
  <2>2. writing'[p].at \notin {"remove", "append"}
    BY <1>1, <1>6 DEF AppendLine, Crash, NotWriting
  <2>3. ASSUME NEW q \in Procs, Rotated(q)'
        PROVE  Rotated(q) /\ writing'[q] = writing[q]
    <3>1. q # p
      BY <2>2, <2>3 DEF Rotated
    <3> QED
      BY <2>1, <2>3, <3>1 DEF Rotated
  <2> QED
    BY <2>1, <2>3, RoomStays
<1>7. ASSUME NEW p \in Procs, RotateList(p)
      PROVE  FilesBounded' /\ RoomForToday'
  <2>1. /\ files' = files /\ late' = late /\ today' = today /\ overtaken' = overtaken
        /\ \A q \in Procs : q # p => writing'[q] = writing[q]
    BY <1>1, <1>7 DEF RotateList, clock, lateness
  <2>2. \/ /\ writing'[p].at = "remove" /\ writing'[p].doomed \in DOMAIN files
        \/ N <= DCA_MAX_FILES
    <3>1. CASE Crowded(N)
      BY <1>1, <1>7, <3>1, OldestIsDoomed DEF RotateList, FilesInv, N
    <3>2. CASE ~Crowded(N)
      BY <1>2, <3>2 DEF Crowded
    <3> QED
      BY <3>1, <3>2
  <2>3. FilesBounded'
    BY <1>2, <2>1 DEF FilesBounded, N
  <2>4. ASSUME NEW q \in Procs
        PROVE  \/ ~Rotated(q)'
               \/ today' \in DOMAIN files'
               \/ writing'[q].at = "remove" /\ writing'[q].doomed \in DOMAIN files'
               \/ Cardinality(DOMAIN files') <= DCA_MAX_FILES + late'
    <3>1. CASE q = p
      <4>1. N <= DCA_MAX_FILES => N <= DCA_MAX_FILES + late
        BY <1>2
      <4> QED
        BY <2>1, <2>2, <3>1, <4>1 DEF N
    <3>2. CASE q # p
      <4>1. Rotated(q)' => Rotated(q)
        BY <2>1, <3>2 DEF Rotated
      <4> QED
        BY <1>3, <2>1, <3>2, <4>1 DEF N
    <3> QED
      BY <3>1, <3>2
  <2> QED
    BY <2>3, <2>4 DEF RoomForToday
<1>8. ASSUME NEW p \in Procs, RotateRemove(p)
      PROVE  FilesBounded' /\ RoomForToday'
  <2>1. /\ late' = late /\ today' = today /\ overtaken' = overtaken
        /\ DOMAIN files' = DOMAIN files \ {writing[p].doomed}
        /\ writing[p].at = "remove" /\ writing'[p].at = "append"
        /\ \A q \in Procs : q # p => writing'[q] = writing[q]
    BY <1>1, <1>8 DEF RotateRemove, clock, lateness
  <2>2. \A q \in Procs : Rotated(q)' => Rotated(q)
    BY <2>1 DEF Rotated
  <2>3. CASE writing[p].doomed \in DOMAIN files
    <3>1. Cardinality(DOMAIN files') = N - 1
      BY <1>2, <2>1, <2>3, FS_RemoveElement DEF N
    <3>2. Cardinality(DOMAIN files') <= DCA_MAX_FILES + late'
          /\ Cardinality(DOMAIN files') <= DCA_MAX_FILES + 1 + late'
      BY <1>2, <2>1, <3>1
    <3> QED
      BY <3>2 DEF FilesBounded, RoomForToday
  <2>4. CASE writing[p].doomed \notin DOMAIN files
    <3>1. DOMAIN files' = DOMAIN files
      BY <2>1, <2>4
    <3>2. FilesBounded'
      BY <1>2, <2>1, <3>1 DEF FilesBounded, N
    <3>3. ASSUME NEW q \in Procs
          PROVE  \/ ~Rotated(q)'
                 \/ today' \in DOMAIN files'
                 \/ writing'[q].at = "remove" /\ writing'[q].doomed \in DOMAIN files'
                 \/ Cardinality(DOMAIN files') <= DCA_MAX_FILES + late'
      <4>1. CASE q = p
        BY <1>3, <2>1, <2>2, <2>4, <3>1, <4>1 DEF N
      <4>2. CASE q # p
        BY <1>3, <2>1, <2>2, <3>1, <4>2 DEF N
      <4> QED
        BY <4>1, <4>2
    <3> QED
      BY <3>2, <3>3 DEF RoomForToday
  <2> QED
    BY <2>3, <2>4
<1>9. ASSUME NEW p \in Procs, WriteLine(p) \/ TearLine(p)
      PROVE  FilesBounded' /\ RoomForToday'
  <2>1. /\ DOMAIN files' = DOMAIN files \cup {today} /\ today' = today
        /\ writing[p].at = "append" /\ late' = IF overtaken[p] THEN late + 1 ELSE late
    BY <1>9 DEF WriteLine, TearLine, Appended, Put, clock
  <2>2. RoomForToday'
    BY <2>1 DEF RoomForToday
  <2>3. Cardinality(DOMAIN files') <= N + 1 /\ Cardinality(DOMAIN files') \in Nat
    <3>1. Cardinality(DOMAIN files') = IF today \in DOMAIN files THEN N ELSE N + 1
      BY <1>2, <2>1, FS_AddElement DEF N
    <3> QED
      BY <1>2, <3>1
  <2>4. CASE overtaken[p]
    <3>1. late' = late + 1
      BY <2>1, <2>4
    <3>2. Cardinality(DOMAIN files') <= DCA_MAX_FILES + 1 + late'
      BY <1>2, <2>3, <3>1
    <3> QED
      BY <2>2, <3>2 DEF FilesBounded
  <2>5. CASE ~overtaken[p]
    <3>1. late' = late
      BY <2>1, <2>5
    <3>2. CASE today \in DOMAIN files
      <4>1. DOMAIN files' = DOMAIN files
        BY <2>1, <3>2
      <4> QED
        BY <1>2, <2>2, <3>1, <4>1 DEF FilesBounded, N
    <3>3. CASE today \notin DOMAIN files
      <4>1. N <= DCA_MAX_FILES + late
        BY <1>3, <2>1, <2>5, <3>3 DEF Rotated
      <4>2. Cardinality(DOMAIN files') <= DCA_MAX_FILES + 1 + late'
        BY <1>2, <2>3, <3>1, <4>1
      <4> QED
        BY <2>2, <4>2 DEF FilesBounded
    <3> QED
      BY <3>2, <3>3
  <2> QED
    BY <2>2, <2>4, <2>5
<1> QED
  BY <1>4, <1>5, <1>6, <1>7, <1>8, <1>9 DEF Next

-----------------------------------------------------------------------------
(* Theorems *)

(* FilesInv holds in every reachable state. *)
THEOREM FilesInvariant == Spec => []FilesInv
<1>1. FilesInv /\ [Next]_vars => FilesInv'
  <2> SUFFICES ASSUME FilesInv, [Next]_vars PROVE FilesInv'
    OBVIOUS
  <2>1. Types'
    BY TypesKept
  <2>2. DoomedIsOld' /\ FilesBounded' /\ RoomForToday'
    BY <2>1, DoomedKept, BoundKept
  <2> QED
    BY <2>1, <2>2 DEF Types, FilesInv
<1> QED
  BY InitHolds, <1>1, PTL DEF Spec

(* Threads that are inside hold their process's mutex, and every file there  *)
(* is has a line, whatever the disk, the clock and the processes do.         *)
THEOREM FilesTyping == Spec => []TypeOK
<1>1. FilesInv => TypeOK
  BY DEF FilesInv
<1> QED
  BY FilesInvariant, <1>1, PTL

(* There are never more files than the limit, one, and one for every record  *)
(* that was appended on another day than its rotation.                       *)
THEOREM FilesAreBounded == Spec => []FilesBounded
<1>1. FilesInv => FilesBounded
  BY DEF FilesInv
<1> QED
  BY FilesInvariant, <1>1, PTL

(* No process removes a file that is not older than DCA_MAX_FILES others,    *)
(* however many of them rotate the same directory, and whatever they do      *)
(* between listing the files and removing one.                               *)
THEOREM WeekIsKept == Spec => WeekKept
<1> DEFINE A == \A d \in DOMAIN files \ DOMAIN files' :
                  Cardinality({e \in DOMAIN files' : e > d}) >= DCA_MAX_FILES
<1>1. FilesInv /\ [Next]_vars => [A]_vars
  <2> SUFFICES ASSUME FilesInv, Next, NEW d \in DOMAIN files \ DOMAIN files'
               PROVE  Cardinality({e \in DOMAIN files' : e > d}) >= DCA_MAX_FILES
    OBVIOUS
  <2>1. CASE NextDay \/ SetClockBack
             \/ \E p \in Readers : ReadAllLines(p) \/ ReadFile(p) \/ ReadDone(p)
    <3>1. files' = files
      BY <2>1 DEF NextDay, SetClockBack, Overtake, ReadAllLines, ReadFile, ReadDone
    <3> QED
      BY <3>1
  <2>2. ASSUME NEW p \in Procs, AppendLine(p) \/ RotateList(p) \/ Crash(p)
        PROVE  FALSE
    BY <2>2 DEF AppendLine, RotateList, Crash
  <2>3. ASSUME NEW p \in Procs, WriteLine(p) \/ TearLine(p)
        PROVE  FALSE
    <3>1. DOMAIN files' = DOMAIN files \cup {today}
      BY <2>3 DEF WriteLine, TearLine, Put
    <3> QED
      BY <3>1
  <2>4. ASSUME NEW p \in Procs, RotateRemove(p)
        PROVE  Cardinality({e \in DOMAIN files' : e > d}) >= DCA_MAX_FILES
    <3>1. DOMAIN files' = DOMAIN files \ {writing[p].doomed} /\ writing[p].at = "remove"
      BY <2>4 DEF RotateRemove
    <3>2. d = writing[p].doomed /\ d \in Nat
      BY <3>1, FilesFinite DEF FilesInv
    <3>3. {e \in DOMAIN files' : e > d} = NewerThan(d)
      <4>1. DOMAIN files \in SUBSET Nat
        BY FilesFinite DEF FilesInv
      <4>2. \A e \in Nat : e > d => e # d
        BY <3>2
      <4> QED
        BY <3>1, <3>2, <4>1, <4>2 DEF NewerThan
    <3>4. Cardinality(NewerThan(d)) >= DCA_MAX_FILES
      BY <3>1, <3>2 DEF FilesInv, DoomedIsOld
    <3> QED
      BY <3>3, <3>4
  <2> QED
    BY <2>1, <2>2, <2>3, <2>4 DEF Next
<1>2. [][A]_vars => WeekKept
  BY DEF WeekKept
<1> QED
  BY FilesInvariant, <1>1, <1>2, PTL DEF Spec

-----------------------------------------------------------------------------
(* What is listed *)

RisingNumbers(s) == \A i, j \in DOMAIN s : i < j => s[i] < s[j]

HasRising(A, k) == \E s \in [1..k -> A] : RisingNumbers(s)

(* A finite set of numbers can be listed in order. *)
LEMMA RisingExists ==
  ASSUME NEW S \in SUBSET Nat, IsFiniteSet(S)
  PROVE  HasRising(S, Cardinality(S))
<1> DEFINE n == Cardinality(S)
           T == {k \in 0..n : \A A \in SUBSET S : Cardinality(A) = k => HasRising(A, k)}
<1>1. n \in Nat
  BY FS_CardinalityType
<1>2. 0 \in T
  <2>1. ASSUME NEW A PROVE HasRising(A, 0)
    <3> DEFINE s == [i \in 1..0 |-> 0]
    <3>1. s \in [1..0 -> A] /\ RisingNumbers(s)
      BY DEF RisingNumbers
    <3> HIDE DEF s
    <3> QED
      BY <3>1 DEF HasRising
  <2> QED
    BY <1>1, <2>1
<1>3. ASSUME NEW k \in 0..(n - 1), k \in T PROVE k + 1 \in T
  <2>1. k \in Nat /\ k + 1 \in 0..n
    BY <1>1
  <2>2. ASSUME NEW A \in SUBSET S, Cardinality(A) = k + 1 PROVE HasRising(A, k + 1)
    <3>1. IsFiniteSet(A)
      BY FS_Subset
    <3>2. A # {} /\ A \in SUBSET Nat
      BY <2>1, <2>2, FS_EmptySet
    <3>3. PICK m \in A : \A d \in A : m <= d
      BY <3>2, LeastNumber
    <3>4. Cardinality(A \ {m}) = k
      <4>1. Cardinality(A \ {m}) = Cardinality(A) - 1
        BY <3>1, FS_RemoveElement
      <4> QED
        BY <2>1, <2>2, <4>1
    <3>5. PICK s \in [1..k -> A \ {m}] : RisingNumbers(s)
      <4>1. A \ {m} \in SUBSET S
        OBVIOUS
      <4>2. HasRising(A \ {m}, k)
        BY <1>3, <3>4, <4>1
      <4> QED
        BY <4>2 DEF HasRising
    <3> DEFINE e == [i \in 1..(k + 1) |-> IF i = 1 THEN m ELSE s[i - 1]]
    <3>6. ASSUME NEW i \in 1..k PROVE s[i] \in A /\ s[i] \in Nat /\ m \in Nat /\ m < s[i]
      <4>1. s[i] \in A /\ s[i] # m
        BY <3>5
      <4>2. s[i] \in Nat /\ m \in Nat /\ m <= s[i]
        BY <3>2, <3>3, <4>1
      <4> QED
        BY <4>1, <4>2
    <3>7. e \in [1..(k + 1) -> A]
      <4>1. ASSUME NEW i \in 1..(k + 1) PROVE (IF i = 1 THEN m ELSE s[i - 1]) \in A
        <5>1. i # 1 => i - 1 \in 1..k
          BY <2>1
        <5> QED
          BY <3>6, <5>1
      <4> QED
        BY <4>1
    <3>8. ASSUME NEW i \in 1..(k + 1), NEW j \in 1..(k + 1), i < j PROVE e[i] < e[j]
      <4>1. j # 1 /\ j - 1 \in 1..k
        BY <2>1, <3>8
      <4>2. CASE i = 1
        BY <3>6, <4>1, <4>2
      <4>3. CASE i # 1
        <5>1. i - 1 \in 1..k /\ i - 1 < j - 1
          BY <2>1, <3>8, <4>3
        <5>2. s[i - 1] < s[j - 1]
          BY <3>5, <4>1, <5>1 DEF RisingNumbers
        <5> QED
          BY <4>1, <4>3, <5>2
      <4> QED
        BY <4>2, <4>3
    <3> HIDE DEF e
    <3>9. RisingNumbers(e)
      BY <3>7, <3>8 DEF RisingNumbers
    <3> QED
      BY <3>7, <3>9 DEF HasRising
  <2> QED
    BY <2>1, <2>2
<1> HIDE DEF T
<1>4. n \in T
  <2>1. \A k \in 0..(n - 1) : k \in T => k + 1 \in T
    BY <1>3
  <2>2. n \in 0..n
    BY <1>1
  <2> HIDE DEF n
  <2> QED
    BY <1>1, <1>2, <2>1, <2>2, UpTo
<1> QED
  BY <1>4 DEF T

(* DaysInOrder lists every day, in order. *)
LEMMA Listed ==
  ASSUME NEW S \in SUBSET Nat, IsFiniteSet(S)
  PROVE  /\ Cardinality(S) \in Nat
         /\ DaysInOrder(S) \in [1..Cardinality(S) -> S]
         /\ \A i, j \in 1..Cardinality(S) : i < j => DaysInOrder(S)[i] < DaysInOrder(S)[j]
         /\ \A d \in S : \E i \in 1..Cardinality(S) : DaysInOrder(S)[i] = d
<1>1. PICK n \in Nat : n = Cardinality(S)
  BY FS_CardinalityType
<1>2. PICK s \in [1..n -> S] : s = DaysInOrder(S) /\ RisingNumbers(s)
  <2>1. \E s \in [1..n -> S] : \A i, j \in DOMAIN s : i < j => s[i] < s[j]
    BY <1>1, RisingExists DEF HasRising, RisingNumbers
  <2> QED
    BY <1>1, <2>1 DEF DaysInOrder, RisingNumbers
<1>3. \A i, j \in 1..n : i < j => s[i] < s[j]
  BY <1>2 DEF RisingNumbers
<1>4. s \in Injection(1..n, S)
  <2>1. ASSUME NEW i \in 1..n, NEW j \in 1..n, s[i] = s[j] PROVE i = j
    <3>1. s[i] \in Nat /\ ~(s[i] < s[j]) /\ ~(s[j] < s[i])
      <4>1. s[i] \in S
        BY <1>2
      <4>2. PICK v \in Nat : s[i] = v /\ s[j] = v
        BY <2>1, <4>1
      <4> QED
        BY <4>2
    <3>2. ~(i < j) /\ ~(j < i)
      BY <1>3, <2>1, <3>1
    <3> QED
      BY <3>2
  <2> QED
    BY <1>2, <2>1 DEF Injection, IsInjective
<1>5. s \in Surjection(1..n, S)
  <2>1. Cardinality(1..n) = n
    BY <1>1, FS_Interval
  <2> QED
    BY <1>1, <1>4, <2>1, FS_Injection
<1>6. \A d \in S : \E i \in 1..n : s[i] = d
  BY <1>2, <1>5 DEF Surjection
<1> QED
  BY <1>1, <1>2, <1>3, <1>6

-----------------------------------------------------------------------------
(* What a query has read *)

(* The types of what a query has read and is yet to read. *)
ReadTypes ==
  /\ \A p \in Readers : reading[p].days \in Seq(Nat) /\ reading[p].lines \in Seq(Line)
  /\ asked \in [Procs -> Nat] /\ disturbed \in [Procs -> BOOLEAN]

(* The next file's lines go behind those read. *)
LEMMA ReadFileEffect ==
  ASSUME FilesInv, NEW p \in Procs, ReadFile(p)
  PROVE  /\ reading[p].at = "read" /\ reading'[p].at = "read" /\ reading[p].days # << >>
         /\ reading'[p].days = Tail(reading[p].days)
         /\ reading'[p].lines = reading[p].lines \o LinesOf(Head(reading[p].days))
         /\ \A q \in Procs : q # p => reading'[q] = reading[q]
         /\ UNCHANGED << today, setBacks, files, stored, torn, asked, disturbed >>
<1>1. DOMAIN reading = Procs /\ DOMAIN reading[p] = {"at", "days", "lines"}
  BY DEF FilesInv, StepTypes
<1>2. PICK r : r = [reading[p] EXCEPT !.days = Tail(@), !.lines = @ \o LinesOf(Head(reading[p].days))]
  OBVIOUS
<1>3. reading' = [reading EXCEPT ![p] = r]
  BY <1>2 DEF ReadFile
<1>4. r.at = reading[p].at /\ r.days = Tail(reading[p].days)
      /\ r.lines = reading[p].lines \o LinesOf(Head(reading[p].days))
  BY <1>1, <1>2, Zenon
<1>5. reading'[p] = r /\ \A q \in Procs : q # p => reading'[q] = reading[q]
  BY <1>1, <1>3, Zenon
<1>6. UNCHANGED << today, setBacks, files, stored, torn, asked, disturbed >>
  BY DEF ReadFile, clock, query, faults
<1> QED
  BY <1>4, <1>5, <1>6 DEF ReadFile

(* What a query begins with. *)
LEMMA ReadAllLinesEffect ==
  ASSUME FilesInv, ReadTypes, NEW p \in Procs, ReadAllLines(p)
  PROVE  /\ reading'[p].at = "read"
         /\ reading'[p].days = DaysInOrder(DOMAIN files) /\ reading'[p].lines = << >>
         /\ \A q \in Procs : q # p => reading'[q] = reading[q]
         /\ asked'[p] = Len(stored) /\ ~disturbed'[p]
         /\ asked' = [asked EXCEPT ![p] = Len(stored)]
         /\ disturbed' = [disturbed EXCEPT ![p] = FALSE]
         /\ UNCHANGED << today, setBacks, files, stored, torn >>
<1>1. DOMAIN reading = Procs
  BY DEF FilesInv, StepTypes
<1>2. reading' = [reading EXCEPT ![p] =
                    [at |-> "read", days |-> DaysInOrder(DOMAIN files), lines |-> << >>]]
  BY DEF ReadAllLines
<1>3. reading'[p] = [at |-> "read", days |-> DaysInOrder(DOMAIN files), lines |-> << >>]
      /\ \A q \in Procs : q # p => reading'[q] = reading[q]
  BY <1>1, <1>2, Zenon
<1>4. asked' = [asked EXCEPT ![p] = Len(stored)] /\ disturbed' = [disturbed EXCEPT ![p] = FALSE]
      /\ UNCHANGED << today, setBacks, files, stored, torn >>
  BY DEF ReadAllLines, clock, faults
<1> QED
  BY <1>3, <1>4 DEF ReadTypes

(* While p reads, p's own process changes no file, and of what another       *)
(* process changes it takes note.                                            *)
LEMMA WhileReading ==
  ASSUME FilesInv, ReadTypes, [Next]_vars, NEW p \in Readers, reading'[p].at = "read"
  PROVE  \/ ReadAllLines(p)
         \/ ReadFile(p)
         \/ /\ reading'[p] = reading[p] /\ asked'[p] = asked[p]
            /\ disturbed'[p] \/ (disturbed'[p] = disturbed[p] /\ files' = files)
<1> DEFINE Kept == /\ reading'[p] = reading[p] /\ asked'[p] = asked[p]
                   /\ disturbed'[p] \/ (disturbed'[p] = disturbed[p] /\ files' = files)
<1>1. p \in Procs /\ DOMAIN reading = Procs /\ DOMAIN disturbed = Procs
  BY DataCollectionAssumption DEF FilesInv, StepTypes, ReadTypes
<1>2. CASE NextDay \/ SetClockBack \/ UNCHANGED vars
  BY <1>2 DEF NextDay, SetClockBack, Overtake, query, vars
<1>3. ASSUME NEW q \in Procs, AppendLine(q) \/ RotateList(q)
      PROVE  Kept
  BY <1>3 DEF AppendLine, RotateList, query
<1>4. ASSUME NEW q \in Procs, RotateRemove(q) \/ WriteLine(q) \/ TearLine(q)
      PROVE  Kept
  <2>1. reading' = reading /\ asked' = asked /\ writing[q].at # "idle"
        /\ disturbed' = [r \in Procs |-> disturbed[r] \/ r # q]
    BY <1>4 DEF RotateRemove, WriteLine, TearLine, Appended, Disturb
  <2>2. p # q
    BY <1>1, <2>1 DEF FilesInv, TypeOK
  <2> QED
    BY <1>1, <2>1, <2>2
<1>5. ASSUME NEW q \in Procs, Crash(q)
      PROVE  Kept
  <2>1. reading' = [reading EXCEPT ![q] = NotReading] /\ UNCHANGED << files, asked, disturbed >>
    BY <1>5 DEF Crash, query
  <2>2. NotReading.at # "read"
    BY DEF NotReading
  <2> QED
    BY <1>1, <2>1, <2>2
<1>6. ASSUME NEW q \in Readers, ReadAllLines(q), q # p
      PROVE  Kept
  <2>1. q \in Procs
    BY DataCollectionAssumption
  <2>2. /\ reading'[p] = reading[p] /\ files' = files
        /\ asked' = [asked EXCEPT ![q] = Len(stored)]
        /\ disturbed' = [disturbed EXCEPT ![q] = FALSE]
    BY <1>1, <1>6, <2>1, ReadAllLinesEffect
  <2> QED
    BY <1>1, <1>6, <2>1, <2>2 DEF ReadTypes
<1>7. ASSUME NEW q \in Readers, ReadFile(q), q # p
      PROVE  Kept
  <2>1. q \in Procs
    BY DataCollectionAssumption
  <2> QED
    BY <1>1, <1>7, <2>1, ReadFileEffect
<1>8. ASSUME NEW q \in Readers, ReadDone(q)
      PROVE  Kept
  <2>1. q \in Procs
    BY DataCollectionAssumption
  <2>2. reading' = [reading EXCEPT ![q].at = "done"] /\ UNCHANGED << files, asked, disturbed >>
    BY <1>8 DEF ReadDone, query
  <2>3. q # p
    <3> SUFFICES ASSUME q = p PROVE FALSE
      OBVIOUS
    <3>1. DOMAIN reading[p] = {"at", "days", "lines"}
      BY <1>1 DEF FilesInv, StepTypes
    <3>2. reading'[p].at = "done"
      BY <1>1, <2>2, <3>1, Zenon
    <3> QED
      BY <3>2
  <2> QED
    BY <1>1, <2>2, <2>3
<1> QED
  BY <1>2, <1>3, <1>4, <1>5, <1>6, <1>7, <1>8, Zenon DEF Next

(* The days listed and the lines of files are of their types. *)
LEMMA ListingTypes ==
  ASSUME FilesInv
  PROVE  /\ IsFiniteSet(DOMAIN files) /\ DOMAIN files \in SUBSET Nat
         /\ DaysInOrder(DOMAIN files) \in Seq(Nat)
         /\ Len(DaysInOrder(DOMAIN files)) = Cardinality(DOMAIN files)
         /\ \A d : LinesOf(d) \in Seq(Line)
<1>1. IsFiniteSet(DOMAIN files) /\ DOMAIN files \in SUBSET Nat
  BY FilesFinite DEF FilesInv
<1>2. PICK D : D = DaysInOrder(DOMAIN files)
  OBVIOUS
<1>3. Cardinality(DOMAIN files) \in Nat /\ D \in [1..Cardinality(DOMAIN files) -> DOMAIN files]
  BY <1>1, <1>2, Listed
<1>4. D \in [1..Cardinality(DOMAIN files) -> Nat]
  BY <1>1, <1>3
<1>5. D \in Seq(Nat) /\ Len(D) = Cardinality(DOMAIN files)
  BY <1>3, <1>4
<1>6. \A d : LinesOf(d) \in Seq(Line)
  BY DEF LinesOf, FileOf, FilesInv, FilesTypes, File
<1> QED
  BY <1>1, <1>2, <1>5, <1>6

(* And so is what a query has. *)
LEMMA ReadTypesKept ==
  ASSUME FilesInv, ReadTypes, [Next]_vars
  PROVE  ReadTypes'
<1>1. asked' \in [Procs -> Nat] /\ disturbed' \in [Procs -> BOOLEAN]
  <2>1. asked \in [Procs -> Nat] /\ disturbed \in [Procs -> BOOLEAN] /\ Len(stored) \in Nat
    BY DEF ReadTypes, FilesInv, StepTypes
  <2>2. CASE UNCHANGED query
    BY <2>1, <2>2 DEF query
  <2>3. CASE \E q \in Procs : Disturb(q)
    BY <2>1, <2>3 DEF Disturb
  <2>4. CASE \E q \in Readers : ReadAllLines(q)
    BY <2>1, <2>4 DEF ReadAllLines
  <2> QED
    BY <2>2, <2>3, <2>4, Zenon
       DEF Next, vars, NextDay, SetClockBack, Overtake, AppendLine, RotateList, RotateRemove,
           WriteLine, TearLine, Appended, ReadFile, ReadDone, Crash
<1>2. ASSUME NEW p \in Readers
      PROVE  reading'[p].days \in Seq(Nat) /\ reading'[p].lines \in Seq(Line)
  <2>1. p \in Procs /\ DOMAIN reading = Procs /\ DOMAIN reading[p] = {"at", "days", "lines"}
        /\ reading[p].days \in Seq(Nat) /\ reading[p].lines \in Seq(Line)
    BY DataCollectionAssumption DEF FilesInv, StepTypes, ReadTypes
  <2>2. CASE reading'[p].at = "read"
    <3>1. CASE ReadAllLines(p)
      <4>1. reading'[p].days = DaysInOrder(DOMAIN files) /\ reading'[p].lines = << >>
        BY <2>1, <3>1, ReadAllLinesEffect
      <4> QED
        BY <4>1, ListingTypes
    <3>2. CASE ReadFile(p)
      <4>1. /\ reading'[p].days = Tail(reading[p].days) /\ reading[p].days # << >>
            /\ reading'[p].lines = reading[p].lines \o LinesOf(Head(reading[p].days))
        BY <2>1, <3>2, ReadFileEffect
      <4>2. LinesOf(Head(reading[p].days)) \in Seq(Line)
        BY ListingTypes
      <4> QED
        BY <2>1, <4>1, <4>2
    <3> QED
      BY <2>1, <2>2, <3>1, <3>2, WhileReading
  <2>3. CASE reading'[p].at # "read"
    <3>1. CASE reading' = reading
      BY <2>1, <3>1
    <3>2. ASSUME NEW q \in Procs, Crash(q)
          PROVE  reading'[p].days \in Seq(Nat) /\ reading'[p].lines \in Seq(Line)
      <4>1. reading' = [reading EXCEPT ![q] = NotReading]
        BY <3>2 DEF Crash
      <4>2. reading'[p] = reading[p] \/ reading'[p] = NotReading
        BY <2>1, <4>1
      <4>3. NotReading.days = << >> /\ NotReading.lines = << >>
        BY DEF NotReading
      <4>4. << >> \in Seq(Nat) /\ << >> \in Seq(Line)
        OBVIOUS
      <4> QED
        BY <2>1, <4>2, <4>3, <4>4
    <3>3. ASSUME NEW q \in Readers, ReadAllLines(q) \/ ReadFile(q) \/ ReadDone(q)
          PROVE  reading'[p].days \in Seq(Nat) /\ reading'[p].lines \in Seq(Line)
      <4>1. q \in Procs /\ DOMAIN reading[q] = {"at", "days", "lines"}
        BY DataCollectionAssumption DEF FilesInv, StepTypes
      <4>2. CASE q # p
        <5>1. reading'[p] = reading[p]
          BY <2>1, <3>3, <4>1, <4>2, ReadAllLinesEffect, ReadFileEffect DEF ReadDone
        <5> QED
          BY <2>1, <5>1
      <4>3. CASE q = p
        <5>1. reading' = [reading EXCEPT ![p].at = "done"]
          BY <2>3, <3>3, <4>1, <4>3, ReadAllLinesEffect, ReadFileEffect DEF ReadDone
        <5>2. reading'[p].days = reading[p].days /\ reading'[p].lines = reading[p].lines
          BY <2>1, <5>1, Zenon
        <5> QED
          BY <2>1, <5>2
      <4> QED
        BY <4>2, <4>3
    <3> QED
      BY <3>1, <3>2, <3>3, Zenon
         DEF Next, vars, NextDay, SetClockBack, Overtake, AppendLine, RotateList, RotateRemove,
             WriteLine, TearLine, Appended
  <2> QED
    BY <2>2, <2>3
<1> QED
  BY <1>1, <1>2 DEF ReadTypes

-----------------------------------------------------------------------------
(* A query that nobody disturbs *)

(* The lines of the first n files. *)
LinesUpTo(n) == FlattenSeq([i \in 1..n |-> files[DaysInOrder(DOMAIN files)[i]].lines])

(* It has n files behind it and the others before it. *)
HasRead(p, n) ==
  /\ Len(reading[p].days) = Cardinality(DOMAIN files) - n
  /\ \A k \in 1..Len(reading[p].days) : reading[p].days[k] = DaysInOrder(DOMAIN files)[n + k]
  /\ reading[p].lines = LinesUpTo(n)

(* Until another process disturbs it, a query has read the first files there *)
(* are and has the others yet to read.                                       *)
SoFar ==
  \A p \in Readers : reading[p].at = "read" /\ ~disturbed[p] =>
    \E n \in 0..Cardinality(DOMAIN files) : HasRead(p, n)

(* With the lines of one more file. *)
LEMMA OneFileMore ==
  ASSUME FilesInv, NEW n \in 0..(Cardinality(DOMAIN files) - 1)
  PROVE  LinesUpTo(n + 1) = LinesUpTo(n) \o LinesOf(DaysInOrder(DOMAIN files)[n + 1])
<1> DEFINE D == DaysInOrder(DOMAIN files)
           c == Cardinality(DOMAIN files)
<1>1. /\ c \in Nat /\ D \in [1..c -> DOMAIN files]
      /\ n \in Nat /\ n + 1 \in 1..c
  BY ListingTypes, Listed
<1>2. \A i \in 1..c : D[i] \in DOMAIN files /\ files[D[i]].lines \in Seq(Line)
                      /\ LinesOf(D[i]) = files[D[i]].lines
  <2>1. \A d \in DOMAIN files : files[d].lines \in Seq(Line) /\ LinesOf(d) = files[d].lines
    BY DEF FilesInv, FilesTypes, File, LinesOf, FileOf
  <2> QED
    BY <1>1, <2>1
<1> HIDE DEF D, c
<1>3. PICK SL : SL = Seq(Line)
  OBVIOUS
<1>4. PICK a : a = [i \in 1..n |-> files[D[i]].lines]
  OBVIOUS
<1>5. PICK b : b = [i \in 1..(n + 1) |-> files[D[i]].lines]
  OBVIOUS
<1>6. a \in Seq(SL) /\ Len(a) = n /\ \A i \in 1..n : a[i] = files[D[i]].lines
  <2>1. \A i \in 1..n : files[D[i]].lines \in SL
    BY <1>1, <1>2, <1>3
  <2>2. a \in [1..n -> SL]
    BY <1>4, <2>1
  <2> QED
    BY <1>1, <1>4, <2>2
<1>7. b \in Seq(SL) /\ Len(b) = n + 1 /\ \A i \in 1..(n + 1) : b[i] = files[D[i]].lines
  <2>1. \A i \in 1..(n + 1) : files[D[i]].lines \in SL
    BY <1>1, <1>2, <1>3
  <2>2. b \in [1..(n + 1) -> SL]
    BY <1>5, <2>1
  <2> QED
    BY <1>1, <1>5, <2>2
<1>8. PICK e \in SL : e = files[D[n + 1]].lines
  BY <1>1, <1>2, <1>3
<1>9. /\ Append(a, e) \in Seq(SL) /\ Len(Append(a, e)) = n + 1
       /\ Append(a, e)[n + 1] = e /\ \A i \in 1..n : Append(a, e)[i] = a[i]
  BY <1>6, <1>8, AppendElements
<1>10. b = Append(a, e)
  <2>1. PICK t \in Seq(SL) : t = Append(a, e)
    BY <1>9
  <2>2. ASSUME NEW i \in 1..(n + 1) PROVE b[i] = t[i]
    <3>1. CASE i = n + 1
      BY <1>7, <1>8, <1>9, <2>1, <3>1
    <3>2. CASE i # n + 1
      <4>1. i \in 1..n
        BY <1>1, <3>2
      <4> QED
        BY <1>6, <1>7, <1>9, <2>1, <4>1
    <3> QED
      BY <3>1, <3>2
  <2>3. b = t
    BY <1>7, <1>9, <2>1, <2>2, SeqEqual
  <2> QED
    BY <2>1, <2>3
<1>11. FlattenSeq(b) = FlattenSeq(a) \o e
  <2>1. a \in Seq(Seq(Line)) /\ e \in Seq(Line)
    BY <1>3, <1>6, <1>8
  <2> QED
    BY <1>10, <2>1, FlattenAppend
<1>12. LinesUpTo(n) = FlattenSeq(a) /\ LinesUpTo(n + 1) = FlattenSeq(b)
  BY <1>4, <1>5 DEF LinesUpTo, D
<1>13. LinesOf(D[n + 1]) = e
  BY <1>1, <1>2, <1>8
<1> QED
  BY <1>11, <1>12, <1>13 DEF D

(* Of no files there are no lines. *)
LEMMA NoLines == LinesUpTo(0) = << >>
<1>1. [i \in 1..0 |-> files[DaysInOrder(DOMAIN files)[i]].lines] = << >>
  OBVIOUS
<1> QED
  BY <1>1, FlattenNothing DEF LinesUpTo

(* A step of a query, or of anybody who does not disturb it, keeps this. *)
LEMMA SoFarKept ==
  ASSUME FilesInv, ReadTypes, SoFar, [Next]_vars
  PROVE  SoFar'
<1> SUFFICES ASSUME NEW p \in Readers, reading'[p].at = "read", ~disturbed'[p]
             PROVE  \E n \in 0..Cardinality(DOMAIN files') : HasRead(p, n)'
  BY DEF SoFar
<1> DEFINE D == DaysInOrder(DOMAIN files)
           c == Cardinality(DOMAIN files)
<1>1. p \in Procs /\ c \in Nat /\ D \in Seq(Nat) /\ Len(D) = c
  BY DataCollectionAssumption, ListingTypes, Listed
<1>2. CASE ReadAllLines(p)
  <2>1. reading'[p].days = D /\ reading'[p].lines = << >> /\ files' = files
    BY <1>1, <1>2, ReadAllLinesEffect
  <2>2. /\ Len(reading'[p].days) = c - 0
        /\ \A k \in 1..Len(reading'[p].days) : reading'[p].days[k] = D[0 + k]
    BY <1>1, <2>1
  <2>3. LinesUpTo(0)' = << >>
    BY <2>1, NoLines DEF LinesUpTo
  <2>4. HasRead(p, 0)' /\ 0 \in 0..c
    BY <1>1, <2>1, <2>2, <2>3 DEF HasRead
  <2> QED
    BY <2>1, <2>4
<1>3. CASE ReadFile(p)
  <2>1. /\ reading[p].at = "read" /\ reading[p].days # << >>
        /\ reading'[p].days = Tail(reading[p].days)
        /\ reading'[p].lines = reading[p].lines \o LinesOf(Head(reading[p].days))
        /\ UNCHANGED << files, disturbed >>
    BY <1>1, <1>3, ReadFileEffect
  <2>2. PICK n \in 0..c : HasRead(p, n)
    BY <2>1 DEF SoFar
  <2>3. PICK u \in Seq(Nat) : u = reading[p].days
    BY DEF ReadTypes
  <2>4. Len(u) = c - n /\ u # << >> /\ \A k \in 1..Len(u) : u[k] = D[n + k]
    BY <2>1, <2>2, <2>3 DEF HasRead
  <2>5. /\ Head(u) = u[1] /\ Tail(u) \in Seq(Nat) /\ Len(u) \in Nat \ {0}
        /\ Len(Tail(u)) = Len(u) - 1 /\ \A i \in 1..(Len(u) - 1) : Tail(u)[i] = u[i + 1]
    BY <2>4, TailElements
  <2>6. n \in 0..(c - 1) /\ n + 1 \in 0..c /\ 1 \in 1..Len(u)
    BY <1>1, <2>4, <2>5
  <2>7. Len(Tail(u)) = c - (n + 1) /\ Head(u) = D[n + 1]
    BY <1>1, <2>4, <2>5, <2>6
  <2>8. \A k \in 1..Len(Tail(u)) : Tail(u)[k] = D[(n + 1) + k]
    <3> SUFFICES ASSUME NEW k \in 1..Len(Tail(u)) PROVE Tail(u)[k] = D[(n + 1) + k]
      OBVIOUS
    <3>1. k \in 1..(Len(u) - 1) /\ k + 1 \in 1..Len(u) /\ n + (k + 1) = (n + 1) + k
      BY <2>5, <2>6
    <3> QED
      BY <2>4, <2>5, <3>1
  <2>9. LinesUpTo(n + 1) = LinesUpTo(n) \o LinesOf(Head(u))
    BY <2>6, <2>7, OneFileMore
  <2>10. reading'[p].days = Tail(u) /\ reading'[p].lines = LinesUpTo(n + 1)
    BY <2>1, <2>2, <2>3, <2>9 DEF HasRead
  <2>11. LinesUpTo(n + 1)' = LinesUpTo(n + 1)
    BY <2>1 DEF LinesUpTo
  <2>12. HasRead(p, n + 1)'
    BY <2>1, <2>7, <2>8, <2>10, <2>11 DEF HasRead
  <2> QED
    BY <2>1, <2>6, <2>12
<1>4. CASE reading'[p] = reading[p] /\ disturbed'[p] = disturbed[p] /\ files' = files
  <2>1. PICK n \in 0..c : HasRead(p, n)
    BY <1>4 DEF SoFar
  <2>2. HasRead(p, n)'
    BY <1>4, <2>1 DEF HasRead, LinesUpTo
  <2> QED
    BY <1>4, <2>2
<1> QED
  BY <1>2, <1>3, <1>4, WhileReading

(* "Every file operation here needs to be serialized": a query that no other *)
(* process disturbs ends with everything there is.                           *)
LEMMA EverythingRead ==
  ASSUME FilesInv, ReadTypes, SoFar, NEW p \in Readers, ReadDone(p), ~disturbed[p]
  PROVE  reading[p].lines = Everything
<1>1. reading[p].at = "read" /\ reading[p].days = << >>
  BY DEF ReadDone
<1>2. PICK c \in Nat : c = Cardinality(DOMAIN files)
  BY ListingTypes, FS_CardinalityType
<1>3. PICK n \in 0..c : HasRead(p, n)
  BY <1>1, <1>2 DEF SoFar
<1>4. Len(<< >>) = c - n
  BY <1>1, <1>2, <1>3 DEF HasRead
<1>5. n = c
  BY <1>4
<1> QED
  BY <1>2, <1>3, <1>5 DEF HasRead, LinesUpTo, Everything

-----------------------------------------------------------------------------
(* What the files hold *)

(* The record a line is of. *)
IdOf(line) == line[1][1]

IsRecord(line) == \E n \in Widths : line = Fields(IdOf(line), n)

IdsOf(lines) == {IdOf(lines[i]) : i \in DOMAIN lines}

(* Whole records, one a line, in the order they were stored. *)
InTurn(lines) ==
  /\ \A i \in DOMAIN lines : IsRecord(lines[i]) /\ IdOf(lines[i]) \in Nat
  /\ \A i, j \in DOMAIN lines : i < j => IdOf(lines[i]) < IdOf(lines[j])

StoredOn(d) == {id \in DOMAIN stored : stored[id].day = d}

DaysInTurn ==
  /\ \A i, j \in DOMAIN stored : i <= j => stored[i].day <= stored[j].day
  /\ \A i \in DOMAIN stored : stored[i].day <= today

(* A file has the records of its day. *)
FilesHold ==
  \A d \in DOMAIN files :
    /\ d <= today
    /\ ~files[d].torn
    /\ InTurn(files[d].lines)
    /\ IdsOf(files[d].lines) = StoredOn(d)

(* A file that has been removed is of a day that is over. *)
GoneIsPast ==
  \A id \in DOMAIN stored : stored[id].day \in DOMAIN files \/ stored[id].day < today

Undamaged == torn = 0 /\ setBacks = 0

(* With room on the disk and no clock set back, the files hold the records   *)
(* of their days, in turn; and a file that is gone is of a past day.         *)
StoreInTurn == Undamaged => DaysInTurn /\ FilesHold /\ GoneIsPast

(* A line of a record is one. *)
LEMMA RecordsLine ==
  ASSUME NEW id \in Nat \ {0}, NEW n \in Widths
  PROVE  /\ Fields(id, n) \in Line /\ IdOf(Fields(id, n)) = id /\ IsRecord(Fields(id, n))
         /\ Len(Fields(id, n)) = n /\ n \in Nat \ {0}
<1>1. n \in Nat \ {0} /\ n >= 1 /\ 1 \in 1..n
  BY DataCollectionAssumption
<1>2. IdOf(Fields(id, n)) = id
  BY <1>1 DEF IdOf, Fields
<1>3. Fields(id, n) \in Line
  BY <1>1 DEF Fields, Line
<1>4. Len(Fields(id, n)) = n
  BY <1>1 DEF Fields
<1> QED
  BY <1>1, <1>2, <1>3, <1>4 DEF IsRecord

(* Later records behind earlier ones. *)
LEMMA InTurnConcat ==
  ASSUME NEW u \in Seq(Line), NEW v \in Seq(Line), InTurn(u), InTurn(v),
         \A a \in IdsOf(u), b \in IdsOf(v) : a < b
  PROVE  InTurn(u \o v) /\ IdsOf(u \o v) = IdsOf(u) \cup IdsOf(v)
<1>1. PICK w \in Seq(Line) : w = u \o v
  BY ConcatProperties
<1>2. PICK m \in Nat, n \in Nat : m = Len(u) /\ n = Len(v)
  OBVIOUS
<1>3. /\ DOMAIN u = 1..m /\ DOMAIN v = 1..n /\ DOMAIN w = 1..(m + n)
      /\ \A i \in 1..(m + n) : w[i] = IF i <= m THEN u[i] ELSE v[i - m]
  BY <1>1, <1>2, ConcatProperties
<1>4. \A i \in 1..(m + n) : i \in 1..m \/ (i \notin 1..m /\ ~(i <= m) /\ i - m \in 1..n)
  BY <1>2
<1>5. \A i \in 1..m : i \in 1..(m + n) /\ w[i] = u[i]
  BY <1>2, <1>3
<1>6. \A i \in 1..n : i + m \in 1..(m + n) /\ w[i + m] = v[i]
  <2> SUFFICES ASSUME NEW i \in 1..n PROVE i + m \in 1..(m + n) /\ w[i + m] = v[i]
    OBVIOUS
  <2>1. i + m \in 1..(m + n) /\ ~(i + m <= m) /\ (i + m) - m = i
    BY <1>2
  <2> QED
    BY <1>3, <2>1
<1>7. \A i \in 1..(m + n) : i \notin 1..m => w[i] = v[i - m]
  BY <1>3, <1>4
<1>8. \A i \in 1..m : IdOf(u[i]) \in IdsOf(u) /\ IsRecord(u[i]) /\ IdOf(u[i]) \in Nat
  BY <1>3 DEF IdsOf, InTurn
<1>9. \A i \in 1..n : IdOf(v[i]) \in IdsOf(v) /\ IsRecord(v[i]) /\ IdOf(v[i]) \in Nat
  BY <1>3 DEF IdsOf, InTurn
<1>10. \A i \in DOMAIN w : IsRecord(w[i]) /\ IdOf(w[i]) \in Nat
  BY <1>3, <1>4, <1>5, <1>7, <1>8, <1>9
<1>11. ASSUME NEW i \in DOMAIN w, NEW j \in DOMAIN w, i < j
       PROVE  IdOf(w[i]) < IdOf(w[j])
  <2>1. CASE i \in 1..m /\ j \in 1..m
    BY <1>3, <1>5, <1>11, <2>1 DEF InTurn
  <2>2. CASE i \in 1..m /\ j \notin 1..m
    BY <1>3, <1>4, <1>5, <1>7, <1>8, <1>9, <2>2
  <2>3. CASE i \notin 1..m
    <3>1. j \notin 1..m /\ i - m \in 1..n /\ j - m \in 1..n /\ i - m < j - m
      BY <1>2, <1>3, <1>4, <1>11, <2>3
    <3> QED
      BY <1>3, <1>7, <2>3, <3>1 DEF InTurn
  <2> QED
    BY <2>1, <2>2, <2>3
<1>12. IdsOf(w) = IdsOf(u) \cup IdsOf(v)
  <2>1. \A x \in IdsOf(w) : x \in IdsOf(u) \cup IdsOf(v)
    BY <1>3, <1>4, <1>5, <1>7, <1>8, <1>9 DEF IdsOf
  <2>2. \A x \in IdsOf(u) : x \in IdsOf(w)
    BY <1>3, <1>5 DEF IdsOf
  <2>3. \A x \in IdsOf(v) : x \in IdsOf(w)
    BY <1>3, <1>6 DEF IdsOf
  <2> QED
    BY <2>1, <2>2, <2>3
<1> QED
  BY <1>1, <1>10, <1>11, <1>12 DEF InTurn

(* The next record at the end. *)
LEMMA InTurnAppend ==
  ASSUME NEW u \in Seq(Line), InTurn(u), NEW id \in Nat \ {0}, NEW n \in Widths,
         \A a \in IdsOf(u) : a < id
  PROVE  /\ InTurn(Append(u, Fields(id, n)))
         /\ IdsOf(Append(u, Fields(id, n))) = IdsOf(u) \cup {id}
<1>1. PICK e \in Line : e = Fields(id, n) /\ IdOf(e) = id /\ IsRecord(e)
  BY RecordsLine
<1>2. PICK v \in Seq(Line) : v = << e >> /\ Len(v) = 1 /\ v[1] = e
  <2>1. << e >> \in Seq(Line) /\ Len(<< e >>) = 1 /\ << e >>[1] = e
    OBVIOUS
  <2> QED
    BY <2>1
<1>3. DOMAIN v = 1..1
  BY <1>2
<1>4. InTurn(v) /\ IdsOf(v) = {id}
  <2>1. \A i \in 1..1 : v[i] = e
    BY <1>2
  <2>2. IdsOf(v) = {id}
    BY <1>1, <1>3, <2>1 DEF IdsOf
  <2>3. \A i \in DOMAIN v : IsRecord(v[i]) /\ IdOf(v[i]) \in Nat
    BY <1>1, <1>3, <2>1
  <2>4. \A i, j \in DOMAIN v : ~(i < j)
    BY <1>3
  <2> QED
    BY <2>2, <2>3, <2>4 DEF InTurn
<1>5. Append(u, e) = u \o v
  BY <1>2, AppendIsConcat
<1> QED
  BY <1>1, <1>4, <1>5, InTurnConcat

(* No fault is undone. *)
LEMMA UndamagedBefore ==
  ASSUME FilesInv, [Next]_vars, Undamaged'
  PROVE  Undamaged
<1>1. torn \in Nat /\ setBacks \in Nat
  BY DEF FilesInv, TypeOK
<1>2. torn' \in {torn, torn + 1} /\ setBacks' \in {setBacks, setBacks + 1}
  BY DEF Next, vars, NextDay, SetClockBack, Overtake, AppendLine, RotateList, RotateRemove,
         WriteLine, TearLine, Appended, ReadAllLines, ReadFile, ReadDone, Crash, clock, faults
<1> QED
  BY <1>1, <1>2 DEF Undamaged

(* Records are of days. *)
LEMMA StoredDays ==
  ASSUME FilesInv
  PROVE  /\ DOMAIN stored = 1..Len(stored) /\ Len(stored) \in Nat
         /\ \A i \in DOMAIN stored : stored[i].day \in Nat /\ stored[i].day \in Days
<1>1. PICK R : R = [day : Days]
  OBVIOUS
<1>2. stored \in Seq(R)
  BY <1>1 DEF FilesInv, StepTypes
<1>3. Len(stored) \in Nat /\ DOMAIN stored = 1..Len(stored) /\ \A i \in 1..Len(stored) : stored[i] \in R
  BY <1>2, ElementOfSeq, LenProperties
<1>4. \A r \in R : r.day \in Days
  BY <1>1
<1>5. \A d \in Days : d \in Nat
  BY DEF Days
<1> QED
  BY <1>3, <1>4, <1>5

(* What a record more does. *)
LEMMA WriteKeeps ==
  ASSUME FilesInv, StoreInTurn, Undamaged, NEW p \in Procs, WriteLine(p)
  PROVE  /\ DaysInTurn' /\ FilesHold' /\ GoneIsPast'
         /\ \A id \in DOMAIN stored : stored'[id] = stored[id]
         /\ \A id \in DOMAIN stored : id \in DOMAIN stored'
         /\ \A id \in DOMAIN stored : stored[id].day \in DOMAIN files' => stored[id].day \in DOMAIN files
<1> DEFINE new == Len(stored) + 1
<1>1. DaysInTurn /\ FilesHold /\ GoneIsPast
  BY DEF StoreInTurn
<1>2. /\ stored \in Seq([day : Days]) /\ today \in Nat /\ today \in Days
      /\ \A i \in DOMAIN stored : stored[i].day \in Nat
  <2>1. stored \in Seq([day : Days]) /\ today \in Days
    BY DEF FilesInv, StepTypes, TypeOK
  <2>2. \A d \in Days : d \in Nat
    BY DEF Days
  <2> QED
    BY <2>1, <2>2, StoredDays
<1>3. PICK n \in Widths :
        files' = Put(today, AppendText(FileOf(today), Fields(new, n), FALSE))
  BY DEF WriteLine
<1>4. stored' = Append(stored, [day |-> today]) /\ today' = today
  BY DEF WriteLine, Appended, clock
<1>5. /\ DOMAIN stored = 1..Len(stored) /\ DOMAIN stored' = 1..new /\ new \in Nat \ {0}
      /\ \A i \in 1..Len(stored) : stored'[i] = stored[i]
      /\ stored'[new] = [day |-> today]
  BY <1>2, <1>4
<1>6. \A i \in 1..new : i \in 1..Len(stored) \/ i = new
  BY <1>5
<1>7. \A i \in 1..Len(stored) : i \in 1..new /\ i < new /\ i # new
  BY <1>5
<1>8. DaysInTurn'
  <2>1. \A i \in 1..new : stored'[i].day <= today
    BY <1>1, <1>2, <1>5, <1>6 DEF DaysInTurn
  <2>2. ASSUME NEW i \in 1..new, NEW j \in 1..new, i <= j
        PROVE  stored'[i].day <= stored'[j].day
    <3>1. CASE j = new
      BY <1>5, <2>1, <3>1
    <3>2. CASE j # new
      <4>1. j \in 1..Len(stored) /\ i \in 1..Len(stored)
        BY <1>5, <2>2, <3>2
      <4> QED
        BY <1>1, <1>5, <2>2, <4>1 DEF DaysInTurn
    <3> QED
      BY <3>1, <3>2
  <2> QED
    BY <1>4, <1>5, <2>1, <2>2 DEF DaysInTurn
<1>9. /\ FileOf(today).lines \in Seq(Line) /\ ~FileOf(today).torn /\ InTurn(FileOf(today).lines)
      /\ IdsOf(FileOf(today).lines) = StoredOn(today)
  <2>1. CASE today \in DOMAIN files
    <3>1. FileOf(today) = files[today]
      BY <2>1 DEF FileOf
    <3>2. files[today].lines \in Seq(Line)
      BY <2>1 DEF FilesInv, FilesTypes, File
    <3> QED
      BY <1>1, <2>1, <3>1, <3>2 DEF FilesHold
  <2>2. CASE today \notin DOMAIN files
    <3>1. FileOf(today).lines = << >> /\ FileOf(today).torn = FALSE
      BY <2>2 DEF FileOf
    <3>2. << >> \in Seq(Line) /\ DOMAIN << >> = {}
      OBVIOUS
    <3>3. InTurn(<< >>) /\ IdsOf(<< >>) = {}
      BY <3>2 DEF InTurn, IdsOf
    <3>4. StoredOn(today) = {}
      <4>1. ASSUME NEW i \in DOMAIN stored PROVE stored[i].day # today
        <5>1. stored[i].day \in DOMAIN files \/ stored[i].day < today
          BY <1>1 DEF GoneIsPast
        <5> QED
          BY <1>2, <2>2, <5>1
      <4> QED
        BY <4>1 DEF StoredOn
    <3> QED
      BY <3>1, <3>2, <3>3, <3>4
  <2> QED
    BY <2>1, <2>2
<1>10. PICK file : file = AppendText(FileOf(today), Fields(new, n), FALSE)
  OBVIOUS
<1>11. file.lines = Append(FileOf(today).lines, Fields(new, n)) /\ file.torn = FALSE
  BY <1>9, <1>10 DEF AppendText
<1>12. InTurn(file.lines) /\ IdsOf(file.lines) = StoredOn(today) \cup {new}
  <2>1. \A a \in IdsOf(FileOf(today).lines) : a < new
    BY <1>5, <1>7, <1>9 DEF StoredOn
  <2> QED
    BY <1>5, <1>9, <1>11, <2>1, InTurnAppend
<1>13. /\ DOMAIN files' = DOMAIN files \cup {today} /\ files'[today] = file
       /\ \A d \in DOMAIN files : d # today => files'[d] = files[d]
  BY <1>3, <1>10 DEF Put
<1>14. /\ StoredOn(today)' = StoredOn(today) \cup {new}
       /\ \A d : d # today => StoredOn(d)' = StoredOn(d)
  <2>1. \A d : StoredOn(d)' = {id \in 1..new : stored'[id].day = d}
    BY <1>5 DEF StoredOn
  <2>2. \A d : StoredOn(d) = {id \in 1..Len(stored) : stored[id].day = d}
    BY <1>5 DEF StoredOn
  <2>3. stored'[new].day = today
    BY <1>5
  <2>4. \A d : {id \in 1..new : stored'[id].day = d} =
                 {id \in 1..Len(stored) : stored[id].day = d} \cup (IF d = today THEN {new} ELSE {})
    BY <1>5, <1>6, <1>7, <2>3
  <2>5. StoredOn(today)' = StoredOn(today) \cup {new}
    <3>1. StoredOn(today)' = {id \in 1..new : stored'[id].day = today}
      BY <1>4, <1>5 DEF StoredOn
    <3> QED
      BY <2>2, <2>4, <3>1
  <2>6. ASSUME NEW d, d # today PROVE StoredOn(d)' = StoredOn(d)
    <3>1. {id \in 1..new : stored'[id].day = d} = {id \in 1..Len(stored) : stored[id].day = d}
      BY <2>4, <2>6
    <3> QED
      BY <2>1, <2>2, <3>1
  <2> QED
    BY <2>5, <2>6
<1>15. FilesHold'
  <2> SUFFICES ASSUME NEW d \in DOMAIN files'
               PROVE  /\ d <= today /\ ~files'[d].torn
                      /\ InTurn(files'[d].lines) /\ IdsOf(files'[d].lines) = StoredOn(d)'
    BY <1>4 DEF FilesHold, InTurn, IdsOf
  <2>1. CASE d = today
    <3>1. StoredOn(d)' = StoredOn(today) \cup {new}
      BY <1>4, <1>14, <2>1 DEF StoredOn
    <3>2. files'[d] = file /\ d <= today
      BY <1>2, <1>13, <2>1
    <3> QED
      BY <1>11, <1>12, <3>1, <3>2
  <2>2. CASE d # today
    <3>1. d \in DOMAIN files /\ files'[d] = files[d]
      BY <1>13, <2>2
    <3>2. StoredOn(d)' = StoredOn(d)
      BY <1>14, <2>2
    <3> QED
      BY <1>1, <3>1, <3>2 DEF FilesHold
  <2> QED
    BY <2>1, <2>2
<1>16. GoneIsPast'
  <2>1. ASSUME NEW i \in 1..new PROVE stored'[i].day \in DOMAIN files' \/ stored'[i].day < today
    <3>1. CASE i = new
      BY <1>5, <1>13, <3>1
    <3>2. CASE i \in 1..Len(stored)
      BY <1>1, <1>5, <1>13, <3>2 DEF GoneIsPast
    <3> QED
      BY <1>6, <3>1, <3>2
  <2> QED
    BY <1>4, <1>5, <2>1 DEF GoneIsPast
<1>17. ASSUME NEW id \in DOMAIN stored, stored[id].day \in DOMAIN files'
       PROVE  stored[id].day \in DOMAIN files
  BY <1>1, <1>2, <1>13, <1>17 DEF GoneIsPast
<1> QED
  BY <1>5, <1>7, <1>8, <1>15, <1>16, <1>17

(* What is removed is of a day that is over. *)
LEMMA RemoveKeeps ==
  ASSUME FilesInv, StoreInTurn, Undamaged, NEW p \in Procs, RotateRemove(p)
  PROVE  DaysInTurn' /\ FilesHold' /\ GoneIsPast'
<1>1. DaysInTurn /\ FilesHold /\ GoneIsPast
  BY DEF StoreInTurn
<1>2. PICK d : d = writing[p].doomed
  OBVIOUS
<1>3. /\ DOMAIN files' = DOMAIN files \ {d} /\ \A e \in DOMAIN files' : files'[e] = files[e]
      /\ stored' = stored /\ today' = today
  BY <1>2 DEF RotateRemove, clock
<1>4. DaysInTurn'
  BY <1>1, <1>3 DEF DaysInTurn
<1>5. FilesHold'
  BY <1>1, <1>3 DEF FilesHold, StoredOn, InTurn, IdsOf
<1>6. d < today
  <2>1. Cardinality(NewerThan(d)) >= DCA_MAX_FILES
    BY <1>2 DEF RotateRemove, FilesInv, DoomedIsOld
  <2>2. IsFiniteSet(NewerThan(d)) /\ Cardinality(NewerThan(d)) \in Nat /\ today \in Nat
        /\ DOMAIN files \in SUBSET Nat /\ NewerThan(d) \in SUBSET DOMAIN files
    BY FilesFinite DEF FilesInv
  <2>3. NewerThan(d) # {}
    BY <2>1, <2>2, DataCollectionAssumption, FS_EmptySet
  <2>4. PICK e \in DOMAIN files : e > d
    BY <2>3 DEF NewerThan
  <2>5. e <= today /\ e \in Nat /\ d \in Int
    BY <1>1, <1>2, <2>2, <2>4, DataCollectionAssumption DEF FilesHold, FilesInv, StepTypes
  <2> QED
    BY <2>2, <2>4, <2>5
<1>7. GoneIsPast'
  BY <1>1, <1>3, <1>6 DEF GoneIsPast
<1> QED
  BY <1>4, <1>5, <1>7

(* Everything else leaves files and records. *)
LEMMA StoreInTurnKept ==
  ASSUME FilesInv, StoreInTurn, [Next]_vars
  PROVE  StoreInTurn'
<1> SUFFICES ASSUME Undamaged' PROVE DaysInTurn' /\ FilesHold' /\ GoneIsPast'
  BY DEF StoreInTurn
<1>1. Undamaged
  BY UndamagedBefore
<1>2. DaysInTurn /\ FilesHold /\ GoneIsPast
  BY <1>1 DEF StoreInTurn
<1>3. CASE files' = files /\ stored' = stored /\ today' \in {today, today + 1}
  <2>1. /\ today \in Nat /\ DOMAIN files \in SUBSET Nat
        /\ \A i \in DOMAIN stored : stored[i].day \in Nat
    <3>1. today \in Days /\ \A d \in Days : d \in Nat
      BY DEF FilesInv, TypeOK, Days
    <3> QED
      BY <3>1, FilesFinite, StoredDays DEF FilesInv
  <2>2. DaysInTurn'
    <3>1. \A i \in DOMAIN stored : stored[i].day <= today'
      BY <1>2, <1>3, <2>1 DEF DaysInTurn
    <3> QED
      BY <1>2, <1>3, <3>1 DEF DaysInTurn
  <2>3. FilesHold'
    <3>1. \A d \in DOMAIN files : d <= today'
      BY <1>2, <1>3, <2>1 DEF FilesHold
    <3> QED
      BY <1>2, <1>3, <3>1 DEF FilesHold, StoredOn, InTurn, IdsOf
  <2>4. GoneIsPast'
    <3>1. \A i \in DOMAIN stored : stored[i].day \in DOMAIN files \/ stored[i].day < today'
      BY <1>2, <1>3, <2>1 DEF GoneIsPast
    <3> QED
      BY <1>3, <3>1 DEF GoneIsPast
  <2> QED
    BY <2>2, <2>3, <2>4
<1>4. ASSUME NEW q \in Procs, WriteLine(q) PROVE DaysInTurn' /\ FilesHold' /\ GoneIsPast'
  BY <1>1, <1>4, WriteKeeps
<1>5. ASSUME NEW q \in Procs, RotateRemove(q) PROVE DaysInTurn' /\ FilesHold' /\ GoneIsPast'
  BY <1>1, <1>5, RemoveKeeps
<1>6. ASSUME NEW q \in Procs, TearLine(q) PROVE FALSE
  BY <1>1, <1>6 DEF TearLine, Undamaged
<1>7. CASE SetClockBack
  BY <1>1, <1>7 DEF SetClockBack, Undamaged
<1> QED
  BY <1>3, <1>4, <1>5, <1>6, <1>7, Zenon
     DEF Next, vars, NextDay, Overtake, AppendLine, RotateList, ReadAllLines, ReadFile, ReadDone,
         Crash, clock

-----------------------------------------------------------------------------
(* What a query has, and what it has yet to read *)

(* It has records in the order they were stored, of days before those it has *)
(* yet to read; and one that was there when it began and has not been        *)
(* rotated away is among them or of one of those days.                       *)
ReadInTurn(p) ==
  LET days == reading[p].days
      read == IdsOf(reading[p].lines)
  IN  /\ \A i, j \in DOMAIN days : i < j => days[i] < days[j]
      /\ InTurn(reading[p].lines)
      /\ \A id \in read : id \in DOMAIN stored /\ \A k \in DOMAIN days : stored[id].day < days[k]
      /\ asked[p] <= Len(stored)
      /\ \A id \in 1..asked[p] : stored[id].day \in DOMAIN files =>
           id \in read \/ \E k \in DOMAIN days : days[k] = stored[id].day

(* ... and a query has read stored records in turn, and is yet to read the   *)
(* others it owes.                                                           *)
ReadersInTurn ==
  Undamaged => \A p \in Readers : reading[p].at = "read" => ReadInTurn(p)

(* No record changes, and no file comes back. *)
LEMMA StoreGrows ==
  ASSUME FilesInv, StoreInTurn, [Next]_vars, Undamaged'
  PROVE  /\ \A id \in DOMAIN stored : id \in DOMAIN stored' /\ stored'[id] = stored[id]
         /\ Len(stored) <= Len(stored')
         /\ \A id \in DOMAIN stored :
              stored[id].day \in DOMAIN files' => stored[id].day \in DOMAIN files
<1> DEFINE Grows ==
      /\ \A id \in DOMAIN stored : id \in DOMAIN stored' /\ stored'[id] = stored[id]
      /\ Len(stored) <= Len(stored')
      /\ \A id \in DOMAIN stored :
           stored[id].day \in DOMAIN files' => stored[id].day \in DOMAIN files
<1>1. Undamaged
  BY UndamagedBefore
<1>2. CASE files' = files /\ stored' = stored
  BY <1>2, StoredDays
<1>3. ASSUME NEW q \in Procs, WriteLine(q) PROVE Grows
  <2>1. stored' = Append(stored, [day |-> today]) /\ stored \in Seq([day : Days]) /\ today \in Days
    BY <1>3 DEF WriteLine, Appended, FilesInv, StepTypes, TypeOK
  <2>2. Len(stored) <= Len(stored')
    BY <2>1
  <2> QED
    BY <1>1, <1>3, <2>2, WriteKeeps
<1>4. ASSUME NEW q \in Procs, RotateRemove(q) PROVE Grows
  <2>1. stored' = stored /\ DOMAIN files' \subseteq DOMAIN files
    BY <1>4 DEF RotateRemove
  <2> QED
    BY <2>1, StoredDays
<1>5. ASSUME NEW q \in Procs, TearLine(q) PROVE FALSE
  BY <1>1, <1>5 DEF TearLine, Undamaged
<1> QED
  BY <1>2, <1>3, <1>4, <1>5, Zenon
     DEF Next, vars, NextDay, SetClockBack, Overtake, AppendLine, RotateList, ReadAllLines,
         ReadFile, ReadDone, Crash

(* The lines of a listed day: its records, or none when it has gone. *)
LEMMA LinesOfDay ==
  ASSUME FilesInv, StoreInTurn, Undamaged, NEW d
  PROVE  /\ LinesOf(d) \in Seq(Line) /\ InTurn(LinesOf(d))
         /\ IdsOf(LinesOf(d)) \subseteq StoredOn(d)
         /\ d \in DOMAIN files => IdsOf(LinesOf(d)) = StoredOn(d)
<1>1. LinesOf(d) \in Seq(Line)
  BY ListingTypes
<1>2. CASE d \in DOMAIN files
  <2>1. LinesOf(d) = files[d].lines
    BY <1>2 DEF LinesOf, FileOf
  <2> QED
    BY <1>1, <1>2, <2>1 DEF StoreInTurn, FilesHold
<1>3. CASE d \notin DOMAIN files
  <2>1. LinesOf(d) = << >>
    BY <1>3 DEF LinesOf, FileOf
  <2>2. InTurn(<< >>) /\ IdsOf(<< >>) = {}
    BY DEF InTurn, IdsOf
  <2> QED
    BY <1>1, <1>3, <2>1, <2>2
<1> QED
  BY <1>2, <1>3

(* A query begins. *)
LEMMA BeginsInTurn ==
  ASSUME FilesInv, ReadTypes, NEW p \in Procs, ReadAllLines(p)
  PROVE  ReadInTurn(p)'
<1>1. /\ reading'[p].days = DaysInOrder(DOMAIN files) /\ reading'[p].lines = << >>
      /\ asked'[p] = Len(stored) /\ UNCHANGED << files, stored >>
  BY ReadAllLinesEffect
<1>2. PICK D :
        /\ D = DaysInOrder(DOMAIN files) /\ DOMAIN D = 1..Cardinality(DOMAIN files)
        /\ \A i, j \in DOMAIN D : i < j => D[i] < D[j]
        /\ \A d \in DOMAIN files : \E i \in DOMAIN D : D[i] = d
  BY ListingTypes, Listed
<1>3. InTurn(<< >>) /\ IdsOf(<< >>) = {}
  BY DEF InTurn, IdsOf
<1>4. Len(stored) \in Nat /\ Len(stored) <= Len(stored)
  BY StoredDays
<1>5. InTurn(reading'[p].lines) /\ IdsOf(reading'[p].lines) = {}
  BY <1>1, <1>3
<1> QED
  BY <1>1, <1>2, <1>4, <1>5 DEF ReadInTurn, InTurn, IdsOf

(* The records of the next day come behind those it has. *)
LEMMA ReadsOnInTurn ==
  ASSUME FilesInv, ReadTypes, StoreInTurn, Undamaged, NEW p \in Readers, ReadInTurn(p), ReadFile(p)
  PROVE  ReadInTurn(p)'
<1>1. p \in Procs
  BY DataCollectionAssumption
<1>2. /\ reading[p].days # << >> /\ reading'[p].days = Tail(reading[p].days)
      /\ reading'[p].lines = reading[p].lines \o LinesOf(Head(reading[p].days))
      /\ UNCHANGED << files, stored, asked >>
  BY <1>1, ReadFileEffect
<1>3. PICK u \in Seq(Nat) : u = reading[p].days
  BY DEF ReadTypes
<1>4. PICK v \in Seq(Line) : v = reading[p].lines
  BY DEF ReadTypes
<1>5. PICK n \in Nat : n + 1 = Len(u)
  <2>1. Len(u) \in Nat \ {0}
    BY <1>2, <1>3, TailElements
  <2>2. Len(u) - 1 \in Nat /\ (Len(u) - 1) + 1 = Len(u)
    BY <2>1
  <2> QED
    BY <2>2
<1>6. PICK t \in Seq(Nat) : t = Tail(u) /\ Len(t) = n /\ \A i \in 1..n : t[i] = u[i + 1]
  <2>1. /\ Tail(u) \in Seq(Nat) /\ Len(Tail(u)) = Len(u) - 1
        /\ \A i \in 1..(Len(u) - 1) : Tail(u)[i] = u[i + 1]
    BY <1>2, <1>3, TailElements
  <2>2. Len(u) - 1 = n
    BY <1>5
  <2> QED
    BY <2>1, <2>2
<1>7. PICK d \in Nat : d = Head(u) /\ d = u[1]
  <2>1. Head(u) \in Nat /\ Head(u) = u[1]
    BY <1>2, <1>3, TailElements
  <2> QED
    BY <2>1
<1>8. DOMAIN u = 1..(n + 1) /\ DOMAIN t = 1..n
  BY <1>3, <1>5, <1>6
<1>9. /\ \A i, j \in 1..(n + 1) : i < j => u[i] < u[j]
      /\ InTurn(v)
      /\ \A id \in IdsOf(v) : id \in DOMAIN stored /\ \A k \in 1..(n + 1) : stored[id].day < u[k]
      /\ asked[p] <= Len(stored)
      /\ \A id \in 1..asked[p] : stored[id].day \in DOMAIN files =>
           id \in IdsOf(v) \/ \E k \in 1..(n + 1) : u[k] = stored[id].day
  BY <1>3, <1>4, <1>8 DEF ReadInTurn
<1>10. PICK w \in Seq(Line) :
         /\ w = LinesOf(d) /\ InTurn(w) /\ IdsOf(w) \subseteq StoredOn(d)
         /\ d \in DOMAIN files => IdsOf(w) = StoredOn(d)
  BY LinesOfDay
<1>11. 1 \in 1..(n + 1) /\ \A k \in 1..n : k + 1 \in 1..(n + 1) /\ 1 < k + 1
  BY <1>5
<1>12. \A b \in IdsOf(w) : b \in DOMAIN stored /\ stored[b].day = d
  BY <1>10 DEF StoredOn
<1>13. ASSUME NEW a \in IdsOf(v), NEW b \in IdsOf(w) PROVE a < b
  <2>1. a \in DOMAIN stored /\ b \in DOMAIN stored /\ stored[a].day < d /\ stored[b].day = d
    BY <1>7, <1>9, <1>11, <1>12
  <2>2. stored[a].day \in Nat /\ a \in Nat /\ b \in Nat
    BY <2>1, StoredDays
  <2>3. ~(stored[b].day <= stored[a].day)
    BY <1>7, <2>1, <2>2
  <2>4. ~(b <= a)
    BY <2>1, <2>3 DEF StoreInTurn, DaysInTurn
  <2> QED
    BY <2>2, <2>4
<1>14. PICK x \in Seq(Line) : x = v \o w /\ InTurn(x) /\ IdsOf(x) = IdsOf(v) \cup IdsOf(w)
  <2>1. InTurn(v \o w) /\ IdsOf(v \o w) = IdsOf(v) \cup IdsOf(w)
    BY <1>9, <1>10, <1>13, InTurnConcat
  <2>2. v \o w \in Seq(Line)
    BY ConcatProperties
  <2> QED
    BY <2>1, <2>2
<1>15. \A i, j \in 1..n : i < j => t[i] < t[j]
  <2> SUFFICES ASSUME NEW i \in 1..n, NEW j \in 1..n, i < j PROVE t[i] < t[j]
    OBVIOUS
  <2>1. i + 1 < j + 1
    OBVIOUS
  <2> QED
    BY <1>6, <1>9, <1>11, <2>1
<1>16. ASSUME NEW id \in IdsOf(x)
       PROVE  id \in DOMAIN stored /\ \A k \in 1..n : stored[id].day < t[k]
  <2>1. CASE id \in IdsOf(v)
    BY <1>6, <1>9, <1>11, <2>1
  <2>2. CASE id \in IdsOf(w)
    <3>1. \A k \in 1..n : d < u[k + 1]
      BY <1>7, <1>9, <1>11
    <3> QED
      BY <1>6, <1>12, <2>2, <3>1
  <2> QED
    BY <1>14, <2>1, <2>2
<1>17. ASSUME NEW id \in 1..asked[p], stored[id].day \in DOMAIN files
       PROVE  id \in IdsOf(x) \/ \E k \in 1..n : t[k] = stored[id].day
  <2>1. CASE id \in IdsOf(v)
    BY <1>14, <2>1
  <2>2. ASSUME NEW k \in 1..(n + 1), u[k] = stored[id].day
        PROVE  id \in IdsOf(x) \/ \E m \in 1..n : t[m] = stored[id].day
    <3>1. CASE k = 1
      <4>1. stored[id].day = d /\ d \in DOMAIN files
        BY <1>7, <1>17, <2>2, <3>1
      <4>2. id \in DOMAIN stored
        <5>1. asked[p] \in Nat /\ Len(stored) \in Nat /\ DOMAIN stored = 1..Len(stored)
          BY <1>1, StoredDays DEF ReadTypes
        <5> QED
          BY <1>9, <5>1
      <4>3. id \in IdsOf(w)
        BY <1>10, <4>1, <4>2 DEF StoredOn
      <4> QED
        BY <1>14, <4>3
    <3>2. CASE k # 1
      <4>1. k - 1 \in 1..n /\ (k - 1) + 1 = k
        BY <1>5, <3>2
      <4>2. t[k - 1] = stored[id].day
        BY <1>6, <2>2, <4>1
      <4> QED
        BY <4>1, <4>2
    <3> QED
      BY <3>1, <3>2
  <2> QED
    BY <1>9, <1>17, <2>1, <2>2
<1>18. reading'[p].days = t /\ reading'[p].lines = x
  BY <1>2, <1>3, <1>4, <1>6, <1>7, <1>10, <1>14
<1>19. /\ InTurn(reading'[p].lines) /\ IdsOf(reading'[p].lines) = IdsOf(x)
       /\ asked'[p] = asked[p] /\ stored' = stored /\ files' = files
  BY <1>2, <1>14, <1>18
<1> QED
  BY <1>8, <1>9, <1>15, <1>16, <1>17, <1>18, <1>19 DEF ReadInTurn, InTurn, IdsOf

(* What others do meanwhile takes nothing of it away. *)
LEMMA WaitsInTurn ==
  ASSUME FilesInv, ReadTypes, StoreInTurn, [Next]_vars, Undamaged',
         NEW p \in Readers, ReadInTurn(p), reading'[p] = reading[p], asked'[p] = asked[p]
  PROVE  ReadInTurn(p)'
<1>1. /\ DOMAIN stored = 1..Len(stored) /\ Len(stored) \in Nat /\ asked[p] \in Nat
      /\ DOMAIN stored' = 1..Len(stored') /\ Len(stored') \in Nat
  <2>1. stored' \in Seq([day : Days])'
    BY TypesKept DEF Types, StepTypes
  <2>2. DOMAIN stored' = 1..Len(stored') /\ Len(stored') \in Nat
    BY <2>1
  <2> QED
    BY <2>2, StoredDays, DataCollectionAssumption DEF ReadTypes
<1>2. /\ \A id \in DOMAIN stored : id \in DOMAIN stored' /\ stored'[id] = stored[id]
      /\ Len(stored) <= Len(stored')
      /\ \A id \in DOMAIN stored :
           stored[id].day \in DOMAIN files' => stored[id].day \in DOMAIN files
  BY StoreGrows
<1>3. PICK days, lines : days = reading[p].days /\ lines = reading[p].lines
  OBVIOUS
<1>4. /\ \A i, j \in DOMAIN days : i < j => days[i] < days[j]
      /\ InTurn(lines)
      /\ \A id \in IdsOf(lines) :
           id \in DOMAIN stored /\ \A k \in DOMAIN days : stored[id].day < days[k]
      /\ asked[p] <= Len(stored)
      /\ \A id \in 1..asked[p] : stored[id].day \in DOMAIN files =>
           id \in IdsOf(lines) \/ \E k \in DOMAIN days : days[k] = stored[id].day
  BY <1>3 DEF ReadInTurn
<1>5. \A id \in IdsOf(lines) :
        id \in DOMAIN stored' /\ \A k \in DOMAIN days : stored'[id].day < days[k]
  BY <1>2, <1>4
<1>6. asked'[p] <= Len(stored')
  BY <1>1, <1>2, <1>4
<1>7. ASSUME NEW id \in 1..asked[p], stored'[id].day \in DOMAIN files'
      PROVE  id \in IdsOf(lines) \/ \E k \in DOMAIN days : days[k] = stored'[id].day
  <2>1. id \in DOMAIN stored
    BY <1>1, <1>4
  <2>2. stored'[id] = stored[id] /\ stored[id].day \in DOMAIN files
    BY <1>2, <1>7, <2>1
  <2> QED
    BY <1>4, <2>2
<1>8. /\ reading'[p].days = days /\ reading'[p].lines = lines
      /\ InTurn(reading'[p].lines) /\ IdsOf(reading'[p].lines) = IdsOf(lines)
  BY <1>3, <1>4
<1> QED
  BY <1>4, <1>5, <1>6, <1>7, <1>8 DEF ReadInTurn, InTurn, IdsOf

LEMMA ReadersInTurnKept ==
  ASSUME FilesInv, ReadTypes, StoreInTurn, ReadersInTurn, [Next]_vars
  PROVE  ReadersInTurn'
<1> SUFFICES ASSUME Undamaged', NEW p \in Readers, reading'[p].at = "read"
             PROVE  ReadInTurn(p)'
  BY DEF ReadersInTurn
<1>1. Undamaged /\ p \in Procs
  BY UndamagedBefore, DataCollectionAssumption
<1>2. CASE ReadAllLines(p)
  BY <1>1, <1>2, BeginsInTurn
<1>3. CASE ReadFile(p)
  <2>1. ReadInTurn(p)
    BY <1>1, <1>3 DEF ReadersInTurn, ReadFile
  <2> QED
    BY <1>1, <1>3, <2>1, ReadsOnInTurn
<1>4. CASE reading'[p] = reading[p] /\ asked'[p] = asked[p]
  <2>1. ReadInTurn(p)
    BY <1>1, <1>4 DEF ReadersInTurn
  <2> QED
    BY <1>4, <2>1, WaitsInTurn
<1> QED
  BY <1>2, <1>3, <1>4, WhileReading

-----------------------------------------------------------------------------
(* What is made of the lines *)

(* One of the widths is the largest. *)
LEMMA Longest ==
  ASSUME Widths # {}
  PROVE  Max(Widths) \in Widths /\ \A n \in Widths : n <= Max(Widths)
<1> DEFINE Above(m) == {d \in Widths : d >= m}
<1>1. IsFiniteSet(Widths) /\ \A n \in Widths : n \in Nat
  BY DataCollectionAssumption
<1>2. FiniteSubsetsOf(Widths) = SUBSET Widths
  BY <1>1, FS_FiniteSubsetsOfFinite
<1>3. IsWellFoundedOn(StrictSubsetOrdering(Widths), SUBSET Widths)
  BY <1>2, FS_StrictSubsetOrderingWellFounded
<1>4. {Above(m) : m \in Widths} \subseteq SUBSET Widths /\ {Above(m) : m \in Widths} # {}
  OBVIOUS
<1>5. PICK least \in {Above(m) : m \in Widths} :
        \A T \in {Above(m) : m \in Widths} : ~(<< T, least >> \in StrictSubsetOrdering(Widths))
  BY <1>3, <1>4, WFMin
<1>6. PICK m \in Widths : least = Above(m)
  BY <1>5
<1>7. ASSUME NEW d \in Widths PROVE m >= d
  <2> SUFFICES ASSUME m < d PROVE FALSE
    BY <1>1
  <2>1. Above(d) \subseteq Above(m) /\ m \in Above(m) /\ m \notin Above(d)
    <3>1. m \in Nat /\ d \in Nat /\ \A e \in Widths : e \in Nat
      BY <1>1
    <3>2. (\A e \in Widths : e >= d => e >= m) /\ m >= m /\ ~(m >= d)
      BY <3>1
    <3> QED
      BY <3>2
  <2>2. Above(d) \in SUBSET Widths /\ Above(m) \in SUBSET Widths
    OBVIOUS
  <2> HIDE DEF Above
  <2>3. << Above(d), Above(m) >> \in StrictSubsetOrdering(Widths)
    BY <2>1, <2>2 DEF StrictSubsetOrdering
  <2> QED
    BY <1>5, <1>6, <2>3
<1>8. Max(Widths) \in Widths /\ \A n \in Widths : Max(Widths) >= n
  BY <1>7 DEF Max
<1> QED
  BY <1>1, <1>8

(* A whole record is scanned as it is. *)
LEMMA ScanRecord ==
  ASSUME NEW line \in Line, IsRecord(line)
  PROVE  Scan(line) = << line >>
<1>1. PICK n \in Widths : line = Fields(IdOf(line), n)
  BY DEF IsRecord
<1>2. n \in Nat \ {0}
  BY DataCollectionAssumption
<1>3. Len(line) = n /\ line \in Seq((Nat \ {0}) \X Nat)
  BY <1>1, <1>2 DEF Fields, Line
<1>4. Max(Widths) \in Widths /\ n <= Max(Widths) /\ Max(Widths) \in Nat
  BY Longest, DataCollectionAssumption
<1>5. CASE n >= Max(Widths)
  <2>1. n = Max(Widths)
    BY <1>2, <1>4, <1>5
  <2>2. SubSeq(line, 1, n) = line
    BY <1>3
  <2> QED
    BY <1>3, <1>5, <2>1, <2>2 DEF Scan
<1>6. CASE ~(n >= Max(Widths))
  BY <1>3, <1>6 DEF Scan
<1> QED
  BY <1>5, <1>6

(* And so are all of them. *)
LEMMA QueryRecords ==
  ASSUME NEW lines \in Seq(Line), InTurn(lines)
  PROVE  DCA_Query(lines) = lines
<1>1. \A i \in DOMAIN lines : Scan(lines[i]) = << lines[i] >>
  <2> SUFFICES ASSUME NEW i \in DOMAIN lines PROVE Scan(lines[i]) = << lines[i] >>
    OBVIOUS
  <2>1. lines[i] \in Line /\ IsRecord(lines[i])
    BY DEF InTurn
  <2> QED
    BY <2>1, ScanRecord
<1>2. [i \in DOMAIN lines |-> Scan(lines[i])] = [i \in DOMAIN lines |-> << lines[i] >>]
  BY <1>1
<1> QED
  BY <1>2, FlattenSingles DEF DCA_Query

(* A query that has read everything returns the records in turn, and each it *)
(* owes.                                                                     *)
LEMMA QueryInTurn ==
  ASSUME FilesInv, ReadTypes, ReadersInTurn, Undamaged, NEW p \in Readers, ReadDone(p)
  PROVE  /\ InOrder(p)
         /\ \A id \in 1..asked[p] : stored[id].day \in DOMAIN files => id \in ToSet(Records(p))
<1>1. reading[p].at = "read" /\ reading[p].days = << >> /\ ReadInTurn(p)
  BY DEF ReadDone, ReadersInTurn
<1>2. PICK lines \in Seq(Line) : lines = reading[p].lines
  BY DEF ReadTypes
<1>3. /\ InTurn(lines)
      /\ \A id \in IdsOf(lines) : id \in DOMAIN stored
      /\ \A id \in 1..asked[p] : stored[id].day \in DOMAIN files => id \in IdsOf(lines)
  BY <1>1, <1>2 DEF ReadInTurn
<1>4. Records(p) = [i \in DOMAIN lines |-> Record(lines[i])]
  BY <1>2, <1>3, QueryRecords DEF Records
<1>5. ASSUME NEW i \in DOMAIN lines
      PROVE  Record(lines[i]) = IdOf(lines[i]) /\ IdOf(lines[i]) \in IdsOf(lines)
             /\ IdOf(lines[i]) \in Nat \ {0}
  <2>1. IdOf(lines[i]) \in IdsOf(lines) /\ IdOf(lines[i]) \in DOMAIN stored /\ IsRecord(lines[i])
    BY <1>3 DEF IdsOf, InTurn
  <2>2. IdOf(lines[i]) \in Nat \ {0}
    BY <2>1, StoredDays
  <2>3. lines[i] = Fields(IdOf(lines[i]), Len(lines[i]))
    <3>1. PICK n \in Widths : lines[i] = Fields(IdOf(lines[i]), n)
      BY <2>1 DEF IsRecord
    <3>2. Len(Fields(IdOf(lines[i]), n)) = n
      BY <2>2, RecordsLine
    <3> QED
      BY <3>1, <3>2
  <2> QED
    BY <2>1, <2>2, <2>3 DEF Record, IdOf
<1>6. DOMAIN Records(p) = DOMAIN lines /\ \A i \in DOMAIN lines : Records(p)[i] = IdOf(lines[i])
  BY <1>4, <1>5
<1>7. InOrder(p)
  <2> SUFFICES ASSUME NEW i \in DOMAIN lines
               PROVE  Records(p)[i] # 0 /\ (i > 1 => Records(p)[i - 1] < Records(p)[i])
    BY <1>6 DEF InOrder
  <2>1. Records(p)[i] # 0
    BY <1>5, <1>6
  <2>2. ASSUME i > 1 PROVE Records(p)[i - 1] < Records(p)[i]
    <3>1. i - 1 \in DOMAIN lines /\ i - 1 < i
      BY <2>2
    <3> QED
      BY <1>3, <1>6, <3>1 DEF InTurn
  <2> QED
    BY <2>1, <2>2
<1>8. ASSUME NEW id \in IdsOf(lines) PROVE id \in ToSet(Records(p))
  <2>1. PICK i \in DOMAIN lines : id = IdOf(lines[i])
    BY <1>8 DEF IdsOf
  <2> QED
    BY <1>6, <2>1 DEF ToSet
<1> QED
  BY <1>3, <1>7, <1>8

-----------------------------------------------------------------------------
(* The invariant of the queries *)

QueryInv == FilesInv /\ ReadTypes /\ SoFar /\ StoreInTurn /\ ReadersInTurn

LEMMA QueryInvInit == Init => QueryInv
<1> SUFFICES ASSUME Init PROVE QueryInv
  OBVIOUS
<1>1. /\ reading = [p \in Procs |-> NotReading] /\ asked = [p \in Procs |-> 0]
      /\ disturbed = [p \in Procs |-> FALSE] /\ stored = << >> /\ files = << >>
  BY DEF Init
<1>2. \A p \in Readers : p \in Procs /\ reading[p] = NotReading
  BY <1>1, DataCollectionAssumption
<1>3. /\ NotReading.at = "idle" /\ NotReading.days = << >> /\ NotReading.lines = << >>
      /\ << >> \in Seq(Nat) /\ << >> \in Seq(Line)
  BY DEF NotReading
<1>4. ReadTypes
  BY <1>1, <1>2, <1>3 DEF ReadTypes
<1>5. SoFar /\ ReadersInTurn
  BY <1>2, <1>3 DEF SoFar, ReadersInTurn
<1>6. DOMAIN stored = {} /\ DOMAIN files = {}
  BY <1>1
<1>7. StoreInTurn
  BY <1>6 DEF StoreInTurn, DaysInTurn, FilesHold, GoneIsPast
<1> QED
  BY <1>4, <1>5, <1>7, InitHolds DEF QueryInv

(* QueryInv holds in every reachable state. *)
THEOREM QueryInvariant == Spec => []QueryInv
<1>1. FilesInv' /\ QueryInv /\ [Next]_vars => QueryInv'
  BY ReadTypesKept, SoFarKept, StoreInTurnKept, ReadersInTurnKept DEF QueryInv
<1> QED
  BY QueryInvInit, FilesInvariant, <1>1, PTL DEF Spec

(* A query that no other process disturbs returns everything that is in the  *)
(* store at the moment it ends: within a process the mutex keeps it whole.   *)
THEOREM QueryIsSnapshot == Spec => Snapshot
<1> DEFINE A == \A p \in Readers : ReadDone(p) /\ ~disturbed[p] => reading[p].lines = Everything
<1>1. QueryInv /\ [Next]_vars => [A]_vars
  BY EverythingRead DEF QueryInv
<1>2. [][A]_vars => Snapshot
  BY DEF Snapshot
<1> QED
  BY QueryInvariant, <1>1, <1>2, PTL DEF Spec

(* Whatever other processes do while it reads, as long as no write was torn  *)
(* and no clock set back, a query returns stored records, in turn and none   *)
(* twice, and leaves out none that it owes.                                  *)
THEOREM QueryIsComplete == Spec => Complete
<1> DEFINE A == \A p \in Readers : ReadDone(p) /\ torn = 0 /\ setBacks = 0 =>
                  /\ InOrder(p)
                  /\ \A id \in 1..asked[p] :
                       stored[id].day \in DOMAIN files => id \in ToSet(Records(p))
<1>1. QueryInv /\ [Next]_vars => [A]_vars
  <2> SUFFICES ASSUME QueryInv PROVE A
    OBVIOUS
  <2> QED
    BY QueryInTurn DEF QueryInv, Undamaged
<1>2. [][A]_vars => Complete
  BY DEF Complete
<1> QED
  BY QueryInvariant, <1>1, <1>2, PTL DEF Spec

=============================================================================
