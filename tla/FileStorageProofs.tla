-------------------------- MODULE FileStorageProofs --------------------------
(***************************************************************************)
(* Proofs about FileStorage, for a disk, a calendar and a number of        *)
(* records and restarts of any size.                                       *)
(*                                                                         *)
(* RecordsAreKept is lost by the step that removes an archived data file:  *)
(* StorageInv adds that the archive then has every record of the file that *)
(* was not appended after it (ArchivedBeforeRemoval), and that a file that *)
(* is being archived is still there, so that a torn archive costs nothing. *)
(*                                                                         *)
(* MidnightInv adds what the cleaner knows of the clock: its limit is no   *)
(* later than today while localtime() is read in one piece, so that the    *)
(* files it touches are of past days and the check of the date closes them *)
(* before a second record; and the folder it removes was the oldest and    *)
(* stays so, since today's is the only one that is added.                  *)
(***************************************************************************)
EXTENDS FileStorage, FiniteSetTheorems, TLAPS

Kept(f) == \A r \in content[f] \ late :
             f \in data \cup rolled \/ (f \in archives /\ r \in archive[f])

\* What the two threads rely on between their steps.
WriterReady ==
  /\ write_step # "check" => written >= 1
  /\ write_step = "write" => file_fd \in 1 .. opened

CleanerReady ==
  /\ clean_step \in {"remove", "files", "tar", "rm"} => folder \in Days
  /\ clean_step \in {"tar", "rm"} => file \in data

ArchivedBeforeRemoval ==
  clean_step = "rm" => /\ file \in archives
                       /\ content[file] \ late \subseteq archive[file]

StorageInv == RecordsAreKept /\ WriterReady /\ CleanerReady
                /\ ArchivedBeforeRemoval

USE SizesAssumption, BoundsAssumption

-----------------------------------------------------------------------------

LEMMA MinOfDays ==
  ASSUME NEW S, S \subseteq Nat, S # {}
  PROVE  Min(S) \in S /\ \A y \in S : Min(S) <= y
<1> DEFINE R == OpToRel(<, Nat)
<1>1. PICK x \in S : \A y \in S : ~(<<y, x>> \in R)
  <2>1. IsWellFoundedOn(R, Nat)
    BY NatLessThanWellFounded
  <2> HIDE DEF R
  <2> QED
    BY <2>1, WFMin
<1>2. ASSUME NEW y \in S PROVE x <= y
  <2>1. <<y, x>> \notin R /\ y \in Nat /\ x \in Nat
    BY <1>1
  <2> QED
    BY <2>1 DEF OpToRel
<1> QED
  BY <1>2 DEF Min

LEMMA MaxOfDays ==
  ASSUME NEW n \in Nat, NEW S, S \subseteq 0 .. n, S # {}
  PROVE  Max(S) \in S
<1> DEFINE T == {n - x : x \in S}
           R == OpToRel(<, Nat)
<1>1. T \subseteq Nat /\ T # {}
  <2>1. ASSUME NEW x \in S PROVE n - x \in Nat
    <3>1. x \in 0 .. n
      OBVIOUS
    <3> QED
      BY <3>1
  <2> QED
    BY <2>1
<1>2. PICK t \in T : \A y \in T : ~(<<y, t>> \in R)
  <2>1. IsWellFoundedOn(R, Nat)
    BY NatLessThanWellFounded
  <2> HIDE DEF R, T
  <2> QED
    BY <1>1, <2>1, WFMin
<1>3. PICK x \in S : t = n - x
  OBVIOUS
<1>4. ASSUME NEW y \in S PROVE x >= y
  <2>1. n - y \in T /\ t \in Nat /\ n - y \in Nat
    BY <1>1
  <2>2. ~(n - y < t)
    BY <1>2, <2>1 DEF OpToRel
  <2>3. x \in 0 .. n /\ y \in 0 .. n
    OBVIOUS
  <2> QED
    BY <1>3, <2>2, <2>3
<1> QED
  BY <1>4 DEF Max

LEMMA Bounds == /\ MaxDay \in Nat /\ MaxRecords \in Nat /\ MaxFiles \in Nat
                /\ MaxKills \in Nat /\ Capacity \in Nat /\ FreeSpace \in Nat
OBVIOUS

LEMMA FreeIsInteger == TypeOK => Free \in Int
<1> SUFFICES ASSUME TypeOK PROVE Free \in Int
  OBVIOUS
<1> DEFINE stored == UNION {content[f] : f \in data \cup ({file_fd} \ {NoFile})}
<1>1. opened \in Nat /\ opened <= MaxFiles
  BY Bounds DEF TypeOK
<1>2. Cardinality(archives) \in Nat
  <2>1. archives \subseteq 1 .. opened
    BY DEF TypeOK
  <2>2. IsFiniteSet(1 .. opened)
    BY <1>1, FS_Interval
  <2> QED
    BY <2>1, <2>2, FS_Subset, FS_CardinalityType
<1>3. Cardinality(stored) \in Nat
  <2>1. ASSUME NEW f \in data \cup ({file_fd} \ {NoFile})
        PROVE  content[f] \subseteq Records
    <3>1. f \in 1 .. opened
      BY <1>1 DEF TypeOK, NoFile
    <3>2. f \in Files
      BY <1>1, <3>1, Bounds DEF Files
    <3> QED
      BY <3>2 DEF TypeOK
  <2>2. stored \subseteq Records
    BY <2>1
  <2>3. IsFiniteSet(Records)
    BY Bounds, FS_Interval DEF Records
  <2> HIDE DEF stored
  <2> QED
    BY <2>2, <2>3, FS_Subset, FS_CardinalityType
<1>4. Free = Capacity - Cardinality(archives) - Cardinality(stored)
  BY DEF Free
<1> HIDE DEF stored
<1> QED
  BY <1>2, <1>3, <1>4, Bounds

\* The oldest folder that the loop does not refuse is that of a day.
LEMMA OldestIsADay ==
  TypeOK /\ ~ReachesLimit(OldestFolder) => OldestFolder \in Days
<1> SUFFICES ASSUME TypeOK, ~ReachesLimit(OldestFolder)
             PROVE  OldestFolder \in Days
  OBVIOUS
<1> DEFINE oldest_month == IF months = {} THEN -1 ELSE Min(months)
           its_days == {d \in days : Month(d) = oldest_month}
<1>1. OldestFolder = IF its_days = {} THEN MaxDay + 2 ELSE Min(its_days)
  BY DEF OldestFolder
<1>2. its_days \subseteq Days
  BY DEF TypeOK
<1> HIDE DEF its_days
<1>3. CASE its_days = {}
  <2>1. max_timestamp \in 0 .. MaxDay + 1 /\ MaxDay \in Nat
    BY Bounds DEF TypeOK
  <2>2. ~(MaxDay + 2 >= max_timestamp)
    BY <1>1, <1>3 DEF ReachesLimit
  <2> QED
    BY <2>1, <2>2
<1>4. CASE its_days # {}
  <2>1. its_days \subseteq Nat
    BY <1>2, Bounds DEF Days
  <2>2. Min(its_days) \in its_days
    BY <1>4, <2>1, MinOfDays
  <2> QED
    BY <1>1, <1>2, <1>4, <2>2
<1> QED
  BY <1>3, <1>4

LEMMA ClosestIsADay == TypeOK /\ ClosestFolder # -1 => ClosestFolder \in Days
<1> SUFFICES ASSUME TypeOK, ClosestFolder # -1 PROVE ClosestFolder \in Days
  OBVIOUS
<1> DEFINE past_months == {m \in months : m * DaysPerMonth < max_timestamp}
           its_days == {d \in days : /\ past_months # {}
                                     /\ Month(d) = Max(past_months)
                                     /\ d < max_timestamp}
<1>1. ClosestFolder = IF its_days = {} THEN -1 ELSE Max(its_days)
  BY DEF ClosestFolder
<1>2. its_days \subseteq 0 .. MaxDay
  BY DEF TypeOK, Days
<1> HIDE DEF its_days
<1> QED
  BY <1>1, <1>2, MaxOfDays, Bounds DEF Days

-----------------------------------------------------------------------------
(* The steps, one by one.                                                  *)

LEMMA StorageInit == Init => StorageInv
<1> SUFFICES ASSUME Init PROVE StorageInv
  OBVIOUS
<1>1. today \in Days /\ kills \in 0 .. MaxKills /\ opened \in 0 .. MaxFiles
      /\ written \in 0 .. MaxRecords /\ file_fd \in 0 .. opened
      /\ max_timestamp \in 0 .. MaxDay + 1 /\ last_bytes_free \in Int
  BY Bounds DEF Init, Days, NoFile
<1>2. /\ day_of \in [Files -> Days] /\ content \in [Files -> SUBSET Records]
      /\ archive \in [Files -> SUBSET Records]
  BY <1>1 DEF Init
<1>3. /\ {Month(d) : d \in days} \subseteq months
      /\ {day_of[f] : f \in data \cup archives} \subseteq days
      /\ months \subseteq Months /\ days \subseteq Days
      /\ data \cup archives \cup rolled \subseteq 1 .. opened
      /\ late \subseteq 1 .. written
  BY DEF Init
<1>4. /\ write_step = "check" /\ clean_step = "sleep" /\ folder = -1
      /\ file = NoFile /\ folder_has_zip = FALSE /\ torn_clock = FALSE
  BY DEF Init
<1>5. TypeOK
  BY <1>1, <1>2, <1>3, <1>4 DEF TypeOK
<1>6. \A f \in Files : content[f] = {}
  BY DEF Init
<1> QED
  BY <1>4, <1>5, <1>6 DEF StorageInv, RecordsAreKept, WriterReady,
                          CleanerReady, ArchivedBeforeRemoval

\* The steps of the collecting thread that store nothing.
LEMMA CheckDateKeeps == StorageInv /\ CheckDate => StorageInv'
<1> SUFFICES ASSUME StorageInv, CheckDate PROVE StorageInv'
  OBVIOUS
<1> USE DEF CheckDate, disk, cleaner, observers
<1>1. TypeOK
  BY DEF StorageInv, RecordsAreKept
<1>2. written' = written + 1 /\ written' \in 1 .. MaxRecords
  BY <1>1, Bounds DEF TypeOK
<1>3. file_fd' \in {file_fd, NoFile}
      /\ (write_step' = "write" => file_fd' = file_fd /\ file_fd # NoFile)
      /\ write_step' \in {"write", "open"}
  OBVIOUS
<1>4. TypeOK'
  <2>1. file_fd' \in 0 .. opened'
    BY <1>1, <1>3, Bounds DEF TypeOK, NoFile
  <2>2. late' \subseteq 1 .. written'
    BY <1>1, <1>2 DEF TypeOK
  <2> QED
    BY <1>1, <1>2, <1>3, <2>1, <2>2 DEF TypeOK
<1>5. WriterReady'
  BY <1>1, <1>2, <1>3 DEF WriterReady, TypeOK, NoFile
<1> QED
  BY <1>4, <1>5 DEF StorageInv, RecordsAreKept, CleanerReady,
                    ArchivedBeforeRemoval

LEMMA OpenFileKeeps == StorageInv /\ OpenFile => StorageInv'
<1> SUFFICES ASSUME StorageInv, OpenFile PROVE StorageInv'
  OBVIOUS
<1> USE DEF OpenFile, Mkdirs, Folders, cleaner, observers
<1>1. TypeOK
  BY DEF StorageInv, RecordsAreKept
<1>2. /\ months \subseteq months' /\ months' \subseteq Months
      /\ days \subseteq days' /\ days' \subseteq Days
      /\ {Month(d) : d \in days'} \subseteq months'
  BY <1>1 DEF TypeOK, Months
<1>3. CASE /\ write_step' = "check"
           /\ UNCHANGED <<opened, file_fd, day_of, data>>
  <2>1. TypeOK'
    BY <1>1, <1>2, <1>3 DEF TypeOK
  <2> QED
    BY <1>3, <2>1 DEF StorageInv, RecordsAreKept, WriterReady, CleanerReady,
                      ArchivedBeforeRemoval
<1>4. CASE /\ today \in days'
           /\ opened < MaxFiles
           /\ opened' = opened + 1 /\ file_fd' = opened + 1
           /\ day_of' = [day_of EXCEPT ![opened + 1] = today]
           /\ data' = data \cup {opened + 1}
           /\ write_step' = "write"
  <2>1. opened \in Nat /\ opened + 1 \in Files /\ opened' \in 0 .. MaxFiles
    BY <1>1, <1>4, Bounds DEF TypeOK, Files
  <2>2. data' \cup archives' \cup rolled' \subseteq 1 .. opened'
    BY <1>1, <1>4, <2>1 DEF TypeOK
  <2>3. day_of' \in [Files -> Days]
    BY <1>1, <1>4, <2>1 DEF TypeOK
  <2>4. ASSUME NEW f \in data' \cup archives' PROVE day_of'[f] \in days'
    <3>1. CASE f = opened + 1
      BY <1>1, <1>4, <2>1, <3>1 DEF TypeOK
    <3>2. CASE f # opened + 1
      <4>1. f \in data \cup archives
        BY <1>4, <3>2
      <4>2. f \in Files
        BY <1>1, <2>1, <4>1 DEF TypeOK, Files
      <4> QED
        BY <1>1, <1>2, <1>4, <2>1, <3>2, <4>1, <4>2 DEF TypeOK
    <3> QED
      BY <3>1, <3>2
  <2>5. file_fd' \in 1 .. opened'
    BY <1>4, <2>1
  <2>6. TypeOK'
    BY <1>1, <1>2, <1>4, <2>1, <2>2, <2>3, <2>4, <2>5 DEF TypeOK
  <2> QED
    BY <1>4, <2>5, <2>6 DEF StorageInv, RecordsAreKept, WriterReady,
                            CleanerReady, ArchivedBeforeRemoval
<1> QED
  BY <1>3, <1>4

\* A record appended to a file that has an archive is late.
LEMMA WriteRecordKeeps == StorageInv /\ WriteRecord => StorageInv'
<1> SUFFICES ASSUME StorageInv, WriteRecord PROVE StorageInv'
  OBVIOUS
<1> USE DEF WriteRecord, cleaner
<1>1. TypeOK /\ \A f \in Files : Kept(f)
  BY DEF StorageInv, RecordsAreKept, Kept
<1>2. CASE UNCHANGED <<content, late>>
  BY <1>1, <1>2 DEF StorageInv, RecordsAreKept, TypeOK, WriterReady,
                    CleanerReady, ArchivedBeforeRemoval
<1>3. CASE /\ content' = [content EXCEPT ![file_fd] = @ \cup {written}]
           /\ late' = IF file_fd \in data \ archives
                      THEN late ELSE late \cup {written}
  <2>1. /\ file_fd \in 1 .. opened /\ file_fd \in Files
        /\ written \in Records /\ written \in 1 .. written
    BY <1>1, Bounds DEF StorageInv, WriterReady, TypeOK, Files, Records
  <2>2. content' \in [Files -> SUBSET Records]
    BY <1>1, <1>3, <2>1 DEF TypeOK
  <2>3. /\ content'[file_fd] = content[file_fd] \cup {written}
        /\ \A f \in Files \ {file_fd} : content'[f] = content[f]
    BY <1>1, <1>3, <2>1 DEF TypeOK
  <2>4. late \subseteq late' /\ late' \subseteq 1 .. written
    BY <1>1, <1>3, <2>1 DEF TypeOK
  <2>5. TypeOK'
    BY <1>1, <2>1, <2>2, <2>4 DEF TypeOK
  <2>6. ASSUME NEW f \in Files PROVE Kept(f)'
    <3>1. CASE f # file_fd
      BY <1>1, <2>3, <2>4, <3>1 DEF Kept
    <3>2. CASE f = file_fd /\ file_fd \in data \ archives
      BY <3>2 DEF Kept
    <3>3. CASE f = file_fd /\ file_fd \notin data \ archives
      BY <1>1, <1>3, <2>3, <3>3 DEF Kept
    <3> QED
      BY <3>1, <3>2, <3>3
  <2>7. ArchivedBeforeRemoval'
    <3> SUFFICES ASSUME clean_step = "rm"
                 PROVE  content'[file] \ late' \subseteq archive[file]
      BY DEF StorageInv, ArchivedBeforeRemoval
    <3>1. file \in archives /\ content[file] \ late \subseteq archive[file]
      BY DEF StorageInv, ArchivedBeforeRemoval
    <3>2. file \in Files
      BY <1>1, <3>1, Bounds DEF TypeOK, Files
    <3>3. CASE file # file_fd
      BY <2>3, <2>4, <3>1, <3>2, <3>3
    <3>4. CASE file = file_fd
      BY <1>3, <2>3, <3>1, <3>4
    <3> QED
      BY <3>3, <3>4
  <2> QED
    BY <2>5, <2>6, <2>7 DEF StorageInv, RecordsAreKept, Kept, WriterReady,
                            CleanerReady
<1> QED
  BY <1>2, <1>3

\* The steps of the cleaner that only decide what to do next.
LEMMA CleanerStepKeeps ==
  ASSUME StorageInv, UNCHANGED <<today, disk, writer, kills, rolled, late>>,
         clean_step' \in {"sleep", "roll", "remove", "compress", "folders",
                          "files", "tar"},
         max_timestamp' \in 0 .. MaxDay + 1, last_bytes_free' \in Int,
         folder' \in {-1} \cup Days, file' \in {NoFile} \cup Files,
         folder_has_zip' \in BOOLEAN, torn_clock' \in BOOLEAN,
         clean_step' \in {"remove", "files", "tar"} => folder' \in Days,
         clean_step' = "tar" => file' \in data
  PROVE  StorageInv'
<1> USE DEF disk, writer
<1>1. TypeOK'
  BY DEF StorageInv, RecordsAreKept, TypeOK
<1> QED
  BY <1>1 DEF StorageInv, RecordsAreKept, WriterReady, CleanerReady,
              ArchivedBeforeRemoval

LEMMA CleanerType ==
  StorageInv => /\ max_timestamp \in 0 .. MaxDay + 1 /\ last_bytes_free \in Int
                /\ folder \in {-1} \cup Days /\ file \in {NoFile} \cup Files
                /\ folder_has_zip \in BOOLEAN /\ torn_clock \in BOOLEAN
                /\ today \in Days /\ 0 \in 0 .. MaxDay + 1
BY Bounds DEF StorageInv, RecordsAreKept, TypeOK

LEMMA LimitType ==
  ASSUME StorageInv, NEW limit \in Midnight, Limit(limit)
  PROVE  max_timestamp' \in 0 .. MaxDay + 1 /\ torn_clock' \in BOOLEAN
BY CleanerType, Bounds DEF Midnight, Limit, Days

LEMMA StartRollingKeeps == StorageInv /\ StartRolling => StorageInv'
<1> SUFFICES ASSUME StorageInv, StartRolling PROVE StorageInv'
  OBVIOUS
<1>1. /\ UNCHANGED <<today, disk, writer, kills, rolled, late>>
      /\ UNCHANGED <<folder, folder_has_zip, file>>
      /\ clean_step' \in {"roll", "compress"}
  BY DEF StartRolling
<1>2. /\ last_bytes_free' \in Int
      /\ max_timestamp' \in 0 .. MaxDay + 1 /\ torn_clock' \in BOOLEAN
  BY CleanerType, LimitType DEF StartRolling
<1> QED
  BY <1>1, <1>2, CleanerType, CleanerStepKeeps

LEMMA RollFolderKeeps == StorageInv /\ RollFolder => StorageInv'
<1> SUFFICES ASSUME StorageInv, RollFolder PROVE StorageInv'
  OBVIOUS
<1>1. UNCHANGED <<today, disk, writer, kills, rolled, late, torn_clock,
                  folder_has_zip, file>>
  BY DEF RollFolder, observers
<1>2. CASE EndRolling
  BY <1>1, <1>2, CleanerType, CleanerStepKeeps DEF EndRolling
<1>3. CASE \E bytes_free \in FreeInLoop :
             /\ ~ReachesLimit(OldestFolder)
             /\ last_bytes_free' = bytes_free
             /\ folder' = OldestFolder /\ clean_step' = "remove"
             /\ UNCHANGED max_timestamp
  <2>1. TypeOK
    BY DEF StorageInv, RecordsAreKept
  <2>2. last_bytes_free' \in Int
    BY <1>3, <2>1, FreeIsInteger DEF FreeInLoop, StatfsFailed
  <2>3. folder' \in Days
    BY <1>3, <2>1, OldestIsADay
  <2> QED
    BY <1>1, <1>3, <2>2, <2>3, CleanerType, CleanerStepKeeps
<1> QED
  BY <1>2, <1>3 DEF RollFolder

\* What is removed with its folder is rolled.
LEMMA RemoveFolderKeeps == StorageInv /\ RemoveFolder => StorageInv'
<1> SUFFICES ASSUME StorageInv, RemoveFolder PROVE StorageInv'
  OBVIOUS
<1> USE DEF RemoveFolder, writer
<1> DEFINE inside == {f \in data \cup archives : day_of[f] = folder}
<1>1. PICK gone \in SUBSET inside :
        /\ data' = data \ gone /\ archives' = archives \ gone
        /\ rolled' = rolled \cup gone
        /\ \/ gone = inside /\ days' = days \ {folder}
           \/ UNCHANGED days
  OBVIOUS
<1>2. TypeOK
  BY DEF StorageInv, RecordsAreKept
<1>3. data' \cup archives' \cup rolled' \subseteq 1 .. opened
  BY <1>1, <1>2 DEF TypeOK
<1>4. {day_of[f] : f \in data' \cup archives'} \subseteq days'
  BY <1>1, <1>2 DEF TypeOK
<1>5. days' \subseteq days
  BY <1>1
<1>6. TypeOK'
  BY <1>2, <1>3, <1>4, <1>5 DEF TypeOK
<1>7. ASSUME NEW f \in Files, NEW r \in content[f] \ late
      PROVE  f \in data' \cup rolled' \/ (f \in archives' /\ r \in archive[f])
  BY <1>1 DEF StorageInv, RecordsAreKept
<1> QED
  BY <1>6, <1>7 DEF StorageInv, RecordsAreKept, WriterReady, CleanerReady,
                    ArchivedBeforeRemoval

LEMMA StartCompressionKeeps == StorageInv /\ StartCompression => StorageInv'
<1> SUFFICES ASSUME StorageInv, StartCompression PROVE StorageInv'
  OBVIOUS
<1>1. max_timestamp' \in 0 .. MaxDay + 1 /\ torn_clock' \in BOOLEAN
  BY LimitType DEF StartCompression
<1> QED
  BY <1>1, CleanerType, CleanerStepKeeps DEF StartCompression

LEMMA EndCleaningType ==
  EndCleaning =>
    /\ clean_step' = "sleep" /\ folder' \in {-1} \cup Days
    /\ file' \in {NoFile} \cup Files /\ folder_has_zip' \in BOOLEAN
    /\ max_timestamp' \in 0 .. MaxDay + 1 /\ last_bytes_free' \in Int
<1>1. 0 \in 0 .. MaxDay + 1
  BY Bounds
<1> HAVE EndCleaning
<1>2. clean_step' = "sleep" /\ folder' \in {-1} \cup Days
  BY DEF EndCleaning
<1>3. file' \in {NoFile} \cup Files
  BY DEF EndCleaning
<1>4. folder_has_zip' \in BOOLEAN
  BY DEF EndCleaning
<1>5. max_timestamp' \in 0 .. MaxDay + 1 /\ last_bytes_free' \in Int
  BY <1>1 DEF EndCleaning
<1> QED
  BY <1>2, <1>3, <1>4, <1>5

LEMMA EndCleaningKeeps ==
  ASSUME StorageInv, EndCleaning,
         UNCHANGED <<today, disk, writer, kills, observers>>
  PROVE  StorageInv'
BY CleanerType, CleanerStepKeeps, EndCleaningType DEF observers

LEMMA FindFolderKeeps == StorageInv /\ FindFolder => StorageInv'
<1> SUFFICES ASSUME StorageInv, FindFolder PROVE StorageInv'
  OBVIOUS
<1>1. UNCHANGED <<today, disk, writer, kills, observers>>
  BY DEF FindFolder
<1>2. CASE EndCleaning
  BY <1>1, <1>2, EndCleaningKeeps
<1>3. CASE ~EndCleaning
  <2>1. folder' \in Days
    BY <1>3, ClosestIsADay DEF FindFolder, StorageInv, RecordsAreKept
  <2> QED
    BY <1>1, <1>3, <2>1, CleanerType, CleanerStepKeeps
       DEF FindFolder, observers
<1> QED
  BY <1>2, <1>3

LEMMA FindFileKeeps == StorageInv /\ FindFile => StorageInv'
<1> SUFFICES ASSUME StorageInv, FindFile PROVE StorageInv'
  OBVIOUS
<1>1. UNCHANGED <<today, disk, writer, kills, observers>>
      /\ folder \in Days
  BY DEF FindFile, StorageInv, CleanerReady
<1>2. CASE EndCleaning
  BY <1>1, <1>2, EndCleaningKeeps
<1>3. CASE /\ file' \in data /\ clean_step' = "tar" /\ folder_has_zip' = TRUE
           /\ UNCHANGED <<max_timestamp, last_bytes_free, folder>>
  <2>1. file' \in Files
    BY <1>3, Bounds DEF StorageInv, RecordsAreKept, TypeOK, Files
  <2> QED
    BY <1>1, <1>3, <2>1, CleanerType, CleanerStepKeeps DEF observers
<1>4. CASE /\ max_timestamp' = folder /\ clean_step' = "folders"
           /\ UNCHANGED <<last_bytes_free, folder, folder_has_zip, file>>
  <2>1. max_timestamp' \in 0 .. MaxDay + 1
    BY <1>1, <1>4, Bounds DEF Days
  <2> QED
    BY <1>1, <1>4, <2>1, CleanerType, CleanerStepKeeps DEF observers
<1> QED
  BY <1>2, <1>3, <1>4 DEF FindFile

\* The archive takes what the file holds, or the file is still there.
LEMMA TarKeeps == StorageInv /\ Tar => StorageInv'
<1> SUFFICES ASSUME StorageInv, Tar PROVE StorageInv'
  OBVIOUS
<1> USE DEF Tar, writer, observers
<1>1. TypeOK /\ \A f \in Files : Kept(f)
  BY DEF StorageInv, RecordsAreKept, Kept
<1>2. file \in data /\ file \in Files /\ folder \in Days
  BY <1>1, Bounds DEF StorageInv, CleanerReady, TypeOK, Files
<1>3. CASE /\ archives' = archives \cup {file}
           /\ archive' = [archive EXCEPT ![file] = content[file]]
           /\ clean_step' = "rm"
           /\ UNCHANGED <<max_timestamp, last_bytes_free, folder,
                          folder_has_zip, file>>
  <2>1. /\ archive' \in [Files -> SUBSET Records]
        /\ archive'[file] = content[file]
        /\ \A f \in Files \ {file} : archive'[f] = archive[f]
    BY <1>1, <1>2, <1>3 DEF TypeOK
  <2>2. TypeOK'
    BY <1>1, <1>2, <1>3, <2>1 DEF TypeOK
  <2>3. ASSUME NEW f \in Files PROVE Kept(f)'
    BY <1>1, <1>2, <1>3, <2>1 DEF Kept
  <2> QED
    BY <1>2, <1>3, <2>1, <2>2, <2>3 DEF StorageInv, RecordsAreKept, Kept,
         WriterReady, CleanerReady, ArchivedBeforeRemoval
<1>4. CASE /\ archives' = archives \ {file}
           /\ archive' = [archive EXCEPT ![file] = {}]
           /\ EndCleaning
  <2>1. /\ archive' \in [Files -> SUBSET Records]
        /\ \A f \in Files \ {file} : archive'[f] = archive[f]
    BY <1>1, <1>2, <1>4 DEF TypeOK
  <2>2. TypeOK'
    BY <1>1, <1>4, <2>1, EndCleaningType DEF TypeOK
  <2>3. ASSUME NEW f \in Files PROVE Kept(f)'
    BY <1>1, <1>2, <1>4, <2>1 DEF Kept
  <2> QED
    BY <1>4, <2>2, <2>3 DEF StorageInv, RecordsAreKept, Kept, WriterReady,
         CleanerReady, ArchivedBeforeRemoval, EndCleaning
<1> QED
  BY <1>3, <1>4 DEF TarFailed

\* The file that is removed has its records in the archive.
LEMMA RemoveOriginalKeeps == StorageInv /\ RemoveOriginal => StorageInv'
<1> SUFFICES ASSUME StorageInv, RemoveOriginal PROVE StorageInv'
  OBVIOUS
<1> USE DEF RemoveOriginal, writer, observers
<1>1. TypeOK /\ \A f \in Files : Kept(f)
  BY DEF StorageInv, RecordsAreKept, Kept
<1>2. CASE EndCleaning /\ UNCHANGED data
  BY <1>2, EndCleaningKeeps DEF disk
<1>3. CASE /\ data' = data \ {file} /\ clean_step' = "files"
           /\ UNCHANGED <<max_timestamp, last_bytes_free, folder,
                          folder_has_zip, file>>
  <2>1. /\ file \in archives /\ content[file] \ late \subseteq archive[file]
        /\ folder \in Days
    BY DEF StorageInv, ArchivedBeforeRemoval, CleanerReady
  <2>2. TypeOK'
    BY <1>1, <1>3 DEF TypeOK
  <2>3. ASSUME NEW f \in Files PROVE Kept(f)'
    BY <1>1, <1>3, <2>1 DEF Kept
  <2> QED
    BY <1>3, <2>1, <2>2, <2>3 DEF StorageInv, RecordsAreKept, Kept,
         WriterReady, CleanerReady, ArchivedBeforeRemoval
<1> QED
  BY <1>2, <1>3

LEMMA PassMidnightKeeps == StorageInv /\ PassMidnight => StorageInv'
<1> SUFFICES ASSUME StorageInv, PassMidnight PROVE StorageInv'
  OBVIOUS
<1> USE DEF PassMidnight, disk, writer, cleaner, observers
<1>1. today' \in Days
  BY Bounds DEF StorageInv, RecordsAreKept, TypeOK, Days
<1>2. TypeOK'
  BY <1>1 DEF StorageInv, RecordsAreKept, TypeOK
<1> QED
  BY <1>2 DEF StorageInv, RecordsAreKept, WriterReady, CleanerReady,
              ArchivedBeforeRemoval

\* A file whose archive is torn is still there.
LEMMA RestartKeeps == StorageInv /\ Restart => StorageInv'
<1> SUFFICES ASSUME StorageInv, Restart PROVE StorageInv'
  OBVIOUS
<1> USE DEF Restart, observers
<1>1. TypeOK /\ \A f \in Files : Kept(f)
  BY DEF StorageInv, RecordsAreKept, Kept
<1>2. kills' \in 0 .. MaxKills /\ file_fd' \in 0 .. opened
  BY <1>1, Bounds DEF TypeOK, NoFile
<1>3. WriterReady' /\ CleanerReady' /\ ArchivedBeforeRemoval'
  BY EndCleaningType DEF WriterReady, CleanerReady, ArchivedBeforeRemoval
<1>4. CASE UNCHANGED <<archives, archive>>
  <2>1. TypeOK'
    BY <1>1, <1>2, <1>4, EndCleaningType DEF TypeOK
  <2> QED
    BY <1>3, <1>4, <2>1 DEF StorageInv, RecordsAreKept
<1>5. CASE /\ clean_step = "tar" /\ archives' = archives \ {file}
           /\ archive' = [archive EXCEPT ![file] = {}]
  <2>1. file \in data /\ file \in Files
    BY <1>1, <1>5, Bounds DEF StorageInv, CleanerReady, TypeOK, Files
  <2>2. /\ archive' \in [Files -> SUBSET Records]
        /\ \A f \in Files \ {file} : archive'[f] = archive[f]
    BY <1>1, <1>5, <2>1 DEF TypeOK
  <2>3. TypeOK'
    BY <1>1, <1>2, <1>5, <2>2, EndCleaningType DEF TypeOK
  <2>4. ASSUME NEW f \in Files PROVE Kept(f)'
    BY <1>1, <1>5, <2>1, <2>2 DEF Kept
  <2> QED
    BY <1>3, <2>3, <2>4 DEF StorageInv, RecordsAreKept, Kept
<1> QED
  BY <1>4, <1>5

LEMMA StorageNext == StorageInv /\ [Next]_vars => StorageInv'
<1> SUFFICES ASSUME StorageInv, [Next]_vars PROVE StorageInv'
  OBVIOUS
<1>1. CASE Write
  BY <1>1, CheckDateKeeps, OpenFileKeeps, WriteRecordKeeps DEF Write
<1>2. CASE Roll
  BY <1>2, StartRollingKeeps, RollFolderKeeps, RemoveFolderKeeps DEF Roll
<1>3. CASE Compress
  BY <1>3, StartCompressionKeeps, FindFolderKeeps, FindFileKeeps, TarKeeps,
     RemoveOriginalKeeps DEF Compress
<1>4. CASE PassMidnight
  BY <1>4, PassMidnightKeeps
<1>5. CASE Restart
  BY <1>5, RestartKeeps
<1>6. CASE UNCHANGED vars
  <2> USE <1>6 DEF vars, disk, writer, cleaner, observers
  <2>1. TypeOK'
    BY DEF StorageInv, RecordsAreKept, TypeOK
  <2> QED
    BY <2>1 DEF StorageInv, RecordsAreKept, WriterReady, CleanerReady,
                ArchivedBeforeRemoval
<1> QED
  BY <1>1, <1>2, <1>3, <1>4, <1>5, <1>6 DEF Next, Clean

\* No failure of tar or rm, no restart and no race of the two threads loses
\* a stored record, but for those of rolled days and those appended to a file
\* after it had been archived (file_storage_compress, file_storage_rolling).
THEOREM NoRecordIsLost == Spec => []RecordsAreKept
<1>1. Init => StorageInv
  BY StorageInit
<1>2. StorageInv /\ [Next]_vars => StorageInv'
  BY StorageNext
<1>3. StorageInv => RecordsAreKept
  BY DEF StorageInv
<1> QED
  BY <1>1, <1>2, <1>3, PTL DEF Spec

-----------------------------------------------------------------------------
(* Rolling, and the record that midnight may cost.                         *)

LateIn(f) == content[f] \cap late

\* The cleaner's limit and the folder it is at: no later than today, and of a
\* past day unless the clock was torn.  What it is about to remove is the
\* oldest folder, still.
CleanerStaysBehind ==
  /\ max_timestamp <= today + 1
  /\ clean_step \in {"remove", "files", "tar", "rm"} => folder <= today
  /\ clean_step = "remove" => \A d \in days : folder <= d
  /\ clean_step \in {"tar", "rm"} => day_of[file] = folder
  /\ ~torn_clock =>
       /\ max_timestamp <= today
       /\ clean_step \in {"remove", "files", "tar", "rm"} => folder < today

\* A sample has its number from CheckDate on, and is nowhere before it is
\* appended.
RecordsAreNew ==
  /\ write_step # "check" => /\ written \notin late
                             /\ \A f \in Files : written \notin content[f]
  /\ \A f \in Files : content[f] \subseteq 1 .. written
  /\ \A f \in Files : f > opened => content[f] = {}

\* A file that the cleaner has touched is of a past day, so that the check of
\* the date closes it before the next record.
TouchedIsPast ==
  ~torn_clock =>
    /\ \A f \in 1 .. opened : f \notin data \ archives => day_of[f] < today
    /\ \A f \in Files : LateIn(f) # {} =>
         day_of[f] < today /\ ~(write_step = "write" /\ file_fd = f)
    /\ \A f \in Files : \E r \in 0 .. MaxRecords : LateIn(f) \subseteq {r}

MidnightInv == StorageInv /\ CleanerStaysBehind /\ RecordsAreNew
                 /\ TouchedIsPast

LEMMA DivMod ==
  ASSUME NEW n \in Nat \ {0}, NEW a \in Int
  PROVE  /\ a \div n \in Int
         /\ a % n \in 0 .. n - 1
         /\ a = n * (a \div n) + (a % n)
  OBVIOUS

LEMMA MultiplesApart ==
  ASSUME NEW n \in Nat \ {0}, NEW d \in Int, NEW e \in Int, d > e
  PROVE  n * d >= n * e + n
  OBVIOUS

\* A later month has only later days.
LEMMA MonthsInOrder ==
  ASSUME NEW d \in Nat, NEW e \in Nat, Month(d) < Month(e)
  PROVE  d < e
<1> DEFINE n == DaysPerMonth
           p == n * Month(e)
           q == n * Month(d)
           i == d % n
           j == e % n
<1>1. n \in Nat \ {0}
  OBVIOUS
<1> HIDE DEF n
<1>2. Month(d) \in Int /\ i \in 0 .. n - 1 /\ d = q + i
  BY <1>1, DivMod DEF Month, n
<1>3. Month(e) \in Int /\ j \in 0 .. n - 1 /\ e = p + j
  BY <1>1, DivMod DEF Month, n
<1>4. p >= q + n
  BY <1>1, <1>2, <1>3, MultiplesApart
<1>5. p \in Int /\ q \in Int
  BY <1>1, <1>2, <1>3
<1> HIDE DEF p, q, i, j
<1> QED
  BY <1>1, <1>2, <1>3, <1>4, <1>5

LEMMA OldestIsOldest ==
  TypeOK /\ ~ReachesLimit(OldestFolder) => \A d \in days : OldestFolder <= d
<1> SUFFICES ASSUME TypeOK, ~ReachesLimit(OldestFolder), NEW d \in days
             PROVE  OldestFolder <= d
  OBVIOUS
<1> DEFINE oldest_month == IF months = {} THEN -1 ELSE Min(months)
           its_days == {e \in days : Month(e) = oldest_month}
<1>1. OldestFolder = IF its_days = {} THEN MaxDay + 2 ELSE Min(its_days)
  BY DEF OldestFolder
<1>2. days \subseteq Nat /\ its_days \subseteq days
  BY Bounds DEF TypeOK, Days
<1>3. Month(d) \in months /\ Month(d) \in Int
  BY <1>2 DEF TypeOK, Month
<1>4. months \subseteq Nat
  <2>1. ASSUME NEW e \in Days PROVE Month(e) \in Nat
    <3>1. e \in Nat
      BY Bounds DEF Days
    <3> QED
      BY <3>1 DEF Month
  <2> QED
    BY <2>1 DEF TypeOK, Months
<1>5. oldest_month <= Month(d) /\ oldest_month \in Nat
  BY <1>3, <1>4, MinOfDays
<1> HIDE DEF its_days, oldest_month
<1>6. its_days # {}
  <2>1. max_timestamp <= MaxDay + 1 /\ max_timestamp \in Int
    BY Bounds DEF TypeOK
  <2> QED
    BY <1>1, <2>1, Bounds DEF ReachesLimit
<1>7. Min(its_days) \in its_days /\ \A y \in its_days : Min(its_days) <= y
  BY <1>2, <1>6, MinOfDays
<1>8. PICK m \in its_days : OldestFolder = m
  BY <1>1, <1>6, <1>7
<1>9. Month(m) = oldest_month /\ m \in Nat /\ d \in Nat
  BY <1>2, <1>8 DEF its_days
<1>10. CASE Month(d) = oldest_month
  BY <1>1, <1>6, <1>7, <1>8, <1>10 DEF its_days
<1>11. CASE oldest_month < Month(d)
  BY <1>8, <1>9, <1>11, MonthsInOrder
<1> QED
  BY <1>3, <1>5, <1>10, <1>11

\* The closest folder is before the limit.
LEMMA ClosestIsPast ==
  TypeOK /\ ClosestFolder # -1 => ClosestFolder < max_timestamp
<1> SUFFICES ASSUME TypeOK, ClosestFolder # -1
             PROVE  ClosestFolder < max_timestamp
  OBVIOUS
<1> DEFINE past_months == {m \in months : m * DaysPerMonth < max_timestamp}
           its_days == {d \in days : /\ past_months # {}
                                     /\ Month(d) = Max(past_months)
                                     /\ d < max_timestamp}
<1>1. ClosestFolder = IF its_days = {} THEN -1 ELSE Max(its_days)
  BY DEF ClosestFolder
<1>2. its_days \subseteq 0 .. MaxDay /\ \A d \in its_days : d < max_timestamp
  BY DEF TypeOK, Days
<1> HIDE DEF its_days
<1> QED
  BY <1>1, <1>2, MaxOfDays, Bounds

LEMMA MidnightInit == Init => MidnightInv
<1> SUFFICES ASSUME Init PROVE MidnightInv
  OBVIOUS
<1>1. CleanerStaysBehind
  BY DEF Init, CleanerStaysBehind
<1>2. RecordsAreNew
  BY DEF Init, RecordsAreNew
<1>3. \A f \in Files : LateIn(f) = {}
  BY DEF Init, LateIn
<1>4. TouchedIsPast
  BY <1>3, Bounds DEF Init, TouchedIsPast
<1> QED
  BY <1>1, <1>2, <1>4, StorageInit DEF MidnightInv

-----------------------------------------------------------------------------
(* The cleaner stays behind the clock.                                     *)

LEMMA Types ==
  StorageInv => /\ today \in Int /\ max_timestamp \in Int /\ folder \in Int
                /\ opened \in Nat /\ opened <= MaxFiles
                /\ written \in Nat /\ written <= MaxRecords
                /\ days \subseteq Nat /\ data \cup archives \subseteq 1 .. opened
                /\ 1 .. opened \subseteq Files /\ torn_clock \in BOOLEAN
                /\ \A f \in Files : day_of[f] \in Int
BY Bounds DEF StorageInv, RecordsAreKept, TypeOK, Days, Files

\* When the other thread goes on, or the clock.
LEMMA OthersLeaveCleanerBehind ==
  ASSUME MidnightInv, StorageInv', UNCHANGED <<cleaner, torn_clock>>,
         today' >= today, days' \subseteq days \cup {today},
         \A f \in 1 .. opened : day_of'[f] = day_of[f]
  PROVE  CleanerStaysBehind'
<1> USE DEF MidnightInv, cleaner
<1>1. clean_step \in {"tar", "rm"} => file \in 1 .. opened
  BY Types DEF StorageInv, CleanerReady
<1>2. /\ today \in Int /\ today' \in Int /\ max_timestamp \in Int
      /\ folder \in Int
  <2>1. today' \in Int
    BY Bounds DEF StorageInv, RecordsAreKept, TypeOK, Days
  <2> QED
    BY <2>1, Types
<1>3. max_timestamp' <= today' + 1
  <2>1. max_timestamp <= today + 1 /\ max_timestamp' = max_timestamp
    BY DEF CleanerStaysBehind
  <2> QED
    BY <1>2, <2>1
<1>4. /\ clean_step' \in {"remove", "files", "tar", "rm"} => folder' <= today'
      /\ clean_step' = "remove" => \A d \in days' : folder' <= d
  BY <1>2 DEF CleanerStaysBehind
<1>5. clean_step' \in {"tar", "rm"} => day_of'[file'] = folder'
  BY <1>1 DEF CleanerStaysBehind
<1>6. ~torn_clock' =>
        /\ max_timestamp' <= today'
        /\ clean_step' \in {"remove", "files", "tar", "rm"} => folder' < today'
  BY <1>2 DEF CleanerStaysBehind
<1> QED
  BY <1>3, <1>4, <1>5, <1>6 DEF CleanerStaysBehind

\* When the cleaner decides what to do next, and when it ends.
LEMMA ParkedCleanerIsBehind ==
  ASSUME MidnightInv, UNCHANGED <<today, days, day_of>>,
         clean_step' \in {"sleep", "roll", "compress", "folders"},
         \/ max_timestamp' = 0 /\ torn_clock' = torn_clock
         \/ UNCHANGED <<max_timestamp, torn_clock>>
         \/ \E limit \in Midnight : Limit(limit)
  PROVE  CleanerStaysBehind'
<1>1. today \in Nat /\ max_timestamp \in Int /\ torn_clock \in BOOLEAN
  BY Bounds DEF MidnightInv, StorageInv, RecordsAreKept, TypeOK, Days
<1>2. /\ max_timestamp' <= today + 1
      /\ ~torn_clock' => max_timestamp' <= today
  <2>1. CASE max_timestamp' = 0 /\ torn_clock' = torn_clock
    BY <1>1, <2>1
  <2>2. CASE UNCHANGED <<max_timestamp, torn_clock>>
    BY <1>1, <2>2 DEF MidnightInv, CleanerStaysBehind
  <2>3. CASE \E limit \in Midnight : Limit(limit)
    <3>1. PICK limit \in Midnight : Limit(limit)
      BY <2>3
    <3>2. max_timestamp' = limit /\ (~torn_clock' => limit = today)
      BY <3>1 DEF Limit
    <3> QED
      BY <1>1, <3>2 DEF Midnight
  <2> QED
    BY <2>1, <2>2, <2>3
<1> QED
  BY <1>2 DEF CleanerStaysBehind

LEMMA CleanerBehind ==
  MidnightInv /\ [Next]_vars /\ StorageInv' => CleanerStaysBehind'
<1> SUFFICES ASSUME MidnightInv, [Next]_vars, StorageInv'
             PROVE  CleanerStaysBehind'
  OBVIOUS
<1> USE DEF disk, writer, cleaner, observers
<1>t. StorageInv /\ TypeOK
  BY DEF MidnightInv, StorageInv, RecordsAreKept
<1>1. CASE CheckDate
  BY <1>1, <1>t, Types, OthersLeaveCleanerBehind DEF CheckDate
<1>2. CASE OpenFile
  <2>1. UNCHANGED <<cleaner, torn_clock, today>> /\ today' >= today
    BY <1>2, <1>t, Types DEF OpenFile
  <2>2. days' \subseteq days \cup {today}
    BY <1>2 DEF OpenFile, Mkdirs
  <2>3. \A f \in 1 .. opened : day_of'[f] = day_of[f]
    BY <1>2, <1>t, Types DEF OpenFile, TypeOK
  <2> QED
    BY <2>1, <2>2, <2>3, OthersLeaveCleanerBehind
<1>3. CASE WriteRecord
  BY <1>3, <1>t, Types, OthersLeaveCleanerBehind DEF WriteRecord
<1>4. CASE StartRolling
  BY <1>4, ParkedCleanerIsBehind DEF StartRolling
<1>5. CASE RollFolder
  <2>1. CASE EndRolling
    BY <1>5, <2>1, ParkedCleanerIsBehind DEF RollFolder, EndRolling
  <2>2. CASE ~EndRolling
    <3>1. /\ ~ReachesLimit(OldestFolder) /\ folder' = OldestFolder
          /\ clean_step' = "remove"
          /\ UNCHANGED <<max_timestamp, today, days, torn_clock>>
      BY <1>5, <2>2 DEF RollFolder
    <3>2. folder' \in Int /\ folder' < max_timestamp
      BY <1>t, <3>1, OldestIsADay, Bounds DEF ReachesLimit, Days, TypeOK
    <3>3. \A d \in days' : folder' <= d
      BY <1>t, <3>1, OldestIsOldest
    <3>4. today \in Int /\ max_timestamp \in Int
      BY <1>t, Types
    <3> QED
      BY <3>1, <3>2, <3>3, <3>4 DEF MidnightInv, CleanerStaysBehind
  <2> QED
    BY <2>1, <2>2
<1>6. CASE RemoveFolder
  <2>1. /\ clean_step' = "roll"
        /\ UNCHANGED <<max_timestamp, today, torn_clock>>
    BY <1>6 DEF RemoveFolder
  <2> QED
    BY <2>1 DEF MidnightInv, CleanerStaysBehind
<1>7. CASE StartCompression
  BY <1>7, ParkedCleanerIsBehind DEF StartCompression
<1>8. CASE FindFolder
  <2>1. CASE EndCleaning
    BY <1>8, <2>1, ParkedCleanerIsBehind DEF FindFolder, EndCleaning
  <2>2. CASE ~EndCleaning
    <3>1. /\ ClosestFolder # -1 /\ folder' = ClosestFolder
          /\ clean_step' = "files"
          /\ UNCHANGED <<max_timestamp, today, torn_clock>>
      BY <1>8, <2>2 DEF FindFolder
    <3>2. folder' \in Int /\ folder' < max_timestamp
      BY <1>t, <3>1, ClosestIsADay, ClosestIsPast, Bounds DEF Days
    <3>3. today \in Int /\ max_timestamp \in Int
      BY <1>t, Types
    <3> QED
      BY <3>1, <3>2, <3>3 DEF MidnightInv, CleanerStaysBehind
  <2> QED
    BY <2>1, <2>2
<1>9. CASE FindFile
  <2>1. CASE EndCleaning
    BY <1>9, <2>1, ParkedCleanerIsBehind DEF FindFile, EndCleaning
  <2>2. CASE /\ file' \in {f \in data : day_of[f] = folder}
             /\ clean_step' = "tar" /\ UNCHANGED <<max_timestamp, folder>>
    <3>1. clean_step = "files" /\ UNCHANGED <<today, day_of, torn_clock>>
      BY <1>9 DEF FindFile
    <3> QED
      BY <2>2, <3>1 DEF MidnightInv, CleanerStaysBehind
  <2>3. CASE max_timestamp' = folder /\ clean_step' = "folders"
    <3>1. clean_step = "files" /\ UNCHANGED <<today, torn_clock>>
      BY <1>9 DEF FindFile
    <3>2. folder \in Days /\ today \in Days /\ torn_clock \in BOOLEAN
      BY <1>t, <3>1 DEF StorageInv, CleanerReady, TypeOK
    <3>3. folder <= today /\ (~torn_clock => folder < today)
      BY <3>1 DEF MidnightInv, CleanerStaysBehind
    <3>4. folder \in Int /\ today \in Int
      BY <1>t, Types
    <3> QED
      BY <2>3, <3>1, <3>3, <3>4 DEF CleanerStaysBehind
  <2> QED
    BY <1>9, <2>1, <2>2, <2>3 DEF FindFile
<1>10. CASE Tar
  <2>1. CASE EndCleaning
    BY <1>10, <2>1, ParkedCleanerIsBehind DEF Tar, EndCleaning
  <2>2. CASE ~EndCleaning
    BY <1>10, <2>2 DEF Tar, TarFailed, MidnightInv, CleanerStaysBehind
  <2> QED
    BY <2>1, <2>2
<1>11. CASE RemoveOriginal
  <2>1. CASE EndCleaning
    BY <1>11, <2>1, ParkedCleanerIsBehind DEF RemoveOriginal, EndCleaning
  <2>2. CASE ~EndCleaning
    BY <1>11, <2>2 DEF RemoveOriginal, MidnightInv, CleanerStaysBehind
  <2> QED
    BY <2>1, <2>2
<1>12. CASE PassMidnight
  BY <1>12, <1>t, Types, OthersLeaveCleanerBehind DEF PassMidnight
<1>13. CASE Restart
  BY <1>13, ParkedCleanerIsBehind DEF Restart, EndCleaning
<1>14. CASE UNCHANGED vars
  BY <1>14, <1>t, Types, OthersLeaveCleanerBehind DEF vars
<1> QED
  BY <1>1, <1>2, <1>3, <1>4, <1>5, <1>6, <1>7, <1>8, <1>9, <1>10, <1>11,
     <1>12, <1>13, <1>14 DEF Next, Write, Clean, Roll, Compress

\* What goes is the oldest folder, of a past day.
LEMMA RollingStep ==
  MidnightInv /\ [Next]_vars =>
    [\A d \in days \ days' : /\ \A e \in days : d <= e
                             /\ torn_clock \/ d < today]_vars
<1> SUFFICES ASSUME MidnightInv, [Next]_vars, NEW d \in days \ days'
             PROVE  (\A e \in days : d <= e) /\ (torn_clock \/ d < today)
  OBVIOUS
<1> USE DEF disk, writer, cleaner, observers
<1>1. CASE RemoveFolder
  <2>1. d = folder /\ clean_step = "remove"
    BY <1>1 DEF RemoveFolder
  <2> QED
    BY <2>1 DEF MidnightInv, CleanerStaysBehind
<1>2. CASE OpenFile
  BY <1>2 DEF OpenFile, Mkdirs
<1>3. CASE ~RemoveFolder /\ ~OpenFile
  <2>1. UNCHANGED days
    BY <1>3 DEF Next, Write, Clean, Roll, Compress, CheckDate, WriteRecord,
         StartRolling, RollFolder, StartCompression, FindFolder, FindFile,
         Tar, RemoveOriginal, PassMidnight, Restart, vars
  <2> QED
    BY <2>1
<1> QED
  BY <1>1, <1>2, <1>3

-----------------------------------------------------------------------------
(* Where a record is, and in which files a late one.                       *)

LEMMA RecordsNew ==
  MidnightInv /\ [Next]_vars /\ StorageInv' => RecordsAreNew'
<1> SUFFICES ASSUME MidnightInv, [Next]_vars, StorageInv'
             PROVE  RecordsAreNew'
  OBVIOUS
<1> USE DEF disk, writer, observers
<1>t. TypeOK /\ StorageInv /\ RecordsAreNew
  BY DEF MidnightInv, StorageInv, RecordsAreKept
<1>a. written \in Nat /\ opened \in Nat
  BY <1>t, Types
<1>1. CASE CheckDate
  <2>1. UNCHANGED <<content, late, opened>> /\ written' = written + 1
    BY <1>1 DEF CheckDate
  <2>2. written' \notin late'
    BY <1>t, <1>a, <2>1 DEF TypeOK
  <2>3. \A f \in Files : written' \notin content'[f]
    BY <1>t, <1>a, <2>1 DEF RecordsAreNew
  <2>4. \A f \in Files : content'[f] \subseteq 1 .. written'
    BY <1>t, <1>a, <2>1 DEF RecordsAreNew
  <2>5. \A f \in Files : f > opened' => content'[f] = {}
    BY <1>t, <2>1 DEF RecordsAreNew
  <2> QED
    BY <2>2, <2>3, <2>4, <2>5 DEF RecordsAreNew
<1>2. CASE OpenFile
  <2>1. /\ UNCHANGED <<content, late, written>>
        /\ write_step # "check"
        /\ opened' \in {opened, opened + 1}
    BY <1>2 DEF OpenFile
  <2>2. \A f \in Files : f > opened' => content'[f] = {}
    BY <1>t, <1>a, <2>1 DEF RecordsAreNew, Files
  <2> QED
    BY <1>t, <2>1, <2>2 DEF RecordsAreNew
<1>3. CASE WriteRecord
  <2>1. /\ write_step = "write" /\ write_step' = "check"
        /\ UNCHANGED <<opened, written>>
    BY <1>3 DEF WriteRecord
  <2>2. /\ file_fd \in 1 .. opened /\ written \in 1 .. written
        /\ file_fd \in Files
    BY <1>t, <1>a, <2>1, Types DEF StorageInv, WriterReady
  <2>3. \/ UNCHANGED content
        \/ content' = [content EXCEPT ![file_fd] = @ \cup {written}]
    BY <1>3 DEF WriteRecord
  <2>4. content \in [Files -> SUBSET Records]
    BY <1>t DEF TypeOK
  <2>5. \A f \in Files : \/ content'[f] = content[f]
                         \/ f = file_fd /\ content'[f] = content[f] \cup {written}
    BY <2>2, <2>3, <2>4
  <2>6. \A f \in Files : content'[f] \subseteq 1 .. written'
    BY <1>t, <2>1, <2>2, <2>5 DEF RecordsAreNew
  <2>7. \A f \in Files : f > opened' => content'[f] = {}
    BY <1>t, <1>a, <2>1, <2>2, <2>5 DEF RecordsAreNew, Files
  <2> QED
    BY <2>1, <2>6, <2>7 DEF RecordsAreNew
<1>4. CASE ~CheckDate /\ ~OpenFile /\ ~WriteRecord
  <2>1. /\ UNCHANGED <<content, late, written, opened>>
        /\ write_step' \in {write_step, "check"}
    BY <1>4 DEF Next, Write, Clean, Roll, Compress, StartRolling, RollFolder,
         RemoveFolder, StartCompression, FindFolder, FindFile, Tar,
         RemoveOriginal, PassMidnight, Restart, vars
  <2> QED
    BY <1>t, <2>1 DEF RecordsAreNew
<1> QED
  BY <1>1, <1>2, <1>3, <1>4

\* Files of past days stay so, and no late record comes in.
LEMMA TouchedStayPast ==
  ASSUME MidnightInv, TypeOK', today' >= today, torn_clock => torn_clock',
         UNCHANGED <<late, content>>,
         opened' >= opened, \A f \in 1 .. opened : day_of'[f] = day_of[f],
         \A f \in 1 .. opened' :
           f \notin data' \ archives' =>
             (f \in 1 .. opened /\ f \notin data \ archives)
               \/ (~torn_clock' => day_of'[f] < today'),
         write_step' = "write" =>
           \/ file_fd' > opened
           \/ day_of[file_fd'] = today /\ today' = today
           \/ write_step = "write" /\ file_fd' = file_fd
  PROVE  TouchedIsPast'
<1> SUFFICES ASSUME ~torn_clock' PROVE TouchedIsPast'
  BY DEF TouchedIsPast
<1>t. TypeOK /\ StorageInv
  BY DEF MidnightInv, StorageInv, RecordsAreKept
<1>a. /\ ~torn_clock /\ opened \in Nat /\ opened' \in Nat
      /\ today \in Int /\ today' \in Int
      /\ \A f \in Files : day_of[f] \in Int /\ day_of'[f] \in Int
      /\ 1 .. opened \subseteq Files /\ 1 .. opened' \subseteq Files
  <2>1. /\ opened' \in Nat /\ today' \in Int /\ 1 .. opened' \subseteq Files
        /\ \A f \in Files : day_of'[f] \in Int
    BY Bounds DEF TypeOK, Days, Files
  <2> QED
    BY <1>t, <2>1, Types
<1>1. ASSUME NEW f \in 1 .. opened', f \notin data' \ archives'
      PROVE  day_of'[f] < today'
  <2>1. CASE f \in 1 .. opened /\ f \notin data \ archives
    <3>1. day_of[f] < today /\ f \in Files
      BY <1>a, <2>1 DEF MidnightInv, TouchedIsPast
    <3> QED
      BY <1>a, <2>1, <3>1
  <2>2. CASE day_of'[f] < today'
    BY <2>2
  <2> QED
    BY <1>1, <2>1, <2>2
<1>2. ASSUME NEW f \in Files, LateIn(f)' # {}
      PROVE  day_of'[f] < today' /\ ~(write_step' = "write" /\ file_fd' = f)
  <2>1. LateIn(f) # {}
    BY <1>2 DEF LateIn
  <2>2. day_of[f] < today /\ ~(write_step = "write" /\ file_fd = f)
    BY <1>a, <2>1 DEF MidnightInv, TouchedIsPast
  <2>3. f \in 1 .. opened
    <3>1. ~(f > opened)
      BY <2>1 DEF LateIn, MidnightInv, RecordsAreNew
    <3> QED
      BY <1>a, <3>1 DEF Files
  <2>4. day_of'[f] < today'
    BY <1>a, <2>2, <2>3
  <2>5. ASSUME write_step' = "write", file_fd' = f PROVE FALSE
    BY <1>a, <2>2, <2>3, <2>5
  <2> QED
    BY <2>4, <2>5
<1>3. ASSUME NEW f \in Files PROVE \E r \in 0 .. MaxRecords : LateIn(f)' \subseteq {r}
  BY <1>a DEF MidnightInv, TouchedIsPast, LateIn
<1> QED
  BY <1>1, <1>2, <1>3 DEF TouchedIsPast

LEMMA TouchedPast ==
  MidnightInv /\ [Next]_vars /\ StorageInv' => TouchedIsPast'
<1> SUFFICES ASSUME MidnightInv, [Next]_vars, StorageInv'
             PROVE  TouchedIsPast'
  OBVIOUS
<1> USE DEF disk, writer, cleaner, observers
<1>t. TypeOK /\ StorageInv /\ TypeOK'
  BY DEF MidnightInv, StorageInv, RecordsAreKept
<1>a. /\ opened \in Nat /\ today \in Int /\ 1 .. opened \subseteq Files
      /\ data \cup archives \subseteq 1 .. opened
      /\ torn_clock \in BOOLEAN
  BY <1>t, Types
<1>1. CASE CheckDate
  <2>1. /\ UNCHANGED <<today, content, late, opened, day_of, data, archives,
                       torn_clock>>
        /\ write_step' = "write" => /\ file_fd' = file_fd
                                    /\ day_of[file_fd] = today
    BY <1>1 DEF CheckDate
  <2> QED
    BY <1>t, <1>a, <2>1, TouchedStayPast
<1>2. CASE OpenFile
  <2>1. /\ UNCHANGED <<today, content, late, archives, torn_clock>>
        /\ \/ UNCHANGED <<opened, data, day_of>> /\ write_step' = "check"
           \/ /\ opened' = opened + 1 /\ file_fd' = opened + 1
              /\ day_of' = [day_of EXCEPT ![opened + 1] = today]
              /\ data' = data \cup {opened + 1}
    BY <1>2 DEF OpenFile
  <2>2. opened' >= opened /\ \A f \in 1 .. opened : day_of'[f] = day_of[f]
    BY <1>t, <1>a, <2>1 DEF TypeOK
  <2>3. \A f \in 1 .. opened' : f \notin data' \ archives' =>
          f \in 1 .. opened /\ f \notin data \ archives
    BY <1>a, <2>1
  <2>4. write_step' = "write" => file_fd' > opened
    BY <1>a, <2>1
  <2> QED
    BY <1>t, <1>a, <2>1, <2>2, <2>3, <2>4, TouchedStayPast
<1>3. CASE WriteRecord
  <2> SUFFICES ASSUME ~torn_clock' PROVE TouchedIsPast'
    BY DEF TouchedIsPast
  <2>1. /\ write_step = "write" /\ write_step' = "check" /\ ~torn_clock
        /\ UNCHANGED <<today, opened, day_of, data, archives, written>>
    BY <1>3 DEF WriteRecord
  <2>2. /\ file_fd \in 1 .. opened /\ file_fd \in Files
        /\ written \in 0 .. MaxRecords /\ written \in Records
    BY <1>t, <1>a, <2>1, Types, Bounds
       DEF StorageInv, WriterReady, TypeOK, Records
  <2>3. /\ LateIn(file_fd) = {}
        /\ written \notin late /\ \A f \in Files : written \notin content[f]
    BY <2>1, <2>2 DEF MidnightInv, TouchedIsPast, RecordsAreNew
  <2>4. ASSUME NEW f \in Files
        PROVE  \/ LateIn(f)' = LateIn(f)
               \/ /\ f = file_fd /\ f \notin data \ archives
                  /\ LateIn(f)' = {written}
    <3>1. CASE UNCHANGED <<content, late>>
      BY <3>1 DEF LateIn
    <3>2. CASE /\ content' = [content EXCEPT ![file_fd] = @ \cup {written}]
               /\ late' = IF file_fd \in data \ archives
                          THEN late ELSE late \cup {written}
      <4>1. /\ content'[file_fd] = content[file_fd] \cup {written}
            /\ f # file_fd => content'[f] = content[f]
        BY <1>t, <2>2, <3>2 DEF TypeOK
      <4>2. CASE f # file_fd
        BY <2>3, <3>2, <4>1, <4>2 DEF LateIn
      <4>3. CASE f = file_fd /\ file_fd \in data \ archives
        BY <2>3, <3>2, <4>1, <4>3 DEF LateIn
      <4>4. CASE f = file_fd /\ file_fd \notin data \ archives
        BY <2>3, <3>2, <4>1, <4>4 DEF LateIn
      <4> QED
        BY <4>2, <4>3, <4>4
    <3> QED
      BY <1>3, <3>1, <3>2 DEF WriteRecord
  <2>5. \A f \in 1 .. opened : f \notin data \ archives => day_of[f] < today
    BY <2>1 DEF MidnightInv, TouchedIsPast
  <2>6. ASSUME NEW f \in Files, LateIn(f)' # {} PROVE day_of[f] < today
    <3>1. CASE LateIn(f)' = LateIn(f)
      BY <2>1, <2>6, <3>1 DEF MidnightInv, TouchedIsPast
    <3>2. CASE f = file_fd /\ f \notin data \ archives
      BY <2>2, <2>5, <3>2
    <3> QED
      BY <2>4, <3>1, <3>2
  <2>7. ASSUME NEW f \in Files
        PROVE  \E r \in 0 .. MaxRecords : LateIn(f)' \subseteq {r}
    BY <2>1, <2>2, <2>4 DEF MidnightInv, TouchedIsPast
  <2> QED
    BY <2>1, <2>5, <2>6, <2>7 DEF TouchedIsPast
<1>4. CASE RemoveFolder
  <2>1. /\ UNCHANGED <<today, content, late, opened, day_of, torn_clock,
                       write_step, file_fd>>
        /\ clean_step = "remove"
        /\ \A f \in data \ archives : f \in data' \ archives' \/ day_of[f] = folder
    BY <1>4 DEF RemoveFolder
  <2>2. ~torn_clock => folder < today
    BY <2>1 DEF MidnightInv, CleanerStaysBehind
  <2>3. \A f \in 1 .. opened : f \notin data' \ archives' =>
          (f \in 1 .. opened /\ f \notin data \ archives)
            \/ (~torn_clock' => day_of'[f] < today')
    BY <2>1, <2>2
  <2> QED
    BY <1>t, <1>a, <2>1, <2>3, TouchedStayPast
<1>5. CASE Tar \/ RemoveOriginal
  <2>1. /\ UNCHANGED <<today, content, late, opened, day_of, torn_clock,
                       write_step, file_fd>>
        /\ clean_step \in {"tar", "rm"}
        /\ \A f \in data \ archives : f \in data' \ archives' \/ f = file
    BY <1>5 DEF Tar, RemoveOriginal
  <2>2. ~torn_clock => day_of[file] < today
    BY <2>1 DEF MidnightInv, CleanerStaysBehind
  <2>3. \A f \in 1 .. opened : f \notin data' \ archives' =>
          (f \in 1 .. opened /\ f \notin data \ archives)
            \/ (~torn_clock' => day_of'[f] < today')
    BY <2>1, <2>2
  <2> QED
    BY <1>t, <1>a, <2>1, <2>3, TouchedStayPast
<1>6. CASE PassMidnight
  <2>1. /\ UNCHANGED <<content, late, opened, day_of, data, archives,
                       torn_clock, write_step, file_fd>>
        /\ today' >= today
    BY <1>6, <1>a DEF PassMidnight
  <2> QED
    BY <1>t, <1>a, <2>1, TouchedStayPast
<1>7. CASE Restart
  <2>1. /\ UNCHANGED <<today, content, late, opened, day_of, data, torn_clock>>
        /\ write_step' = "check" /\ archives' \subseteq archives
    BY <1>7 DEF Restart
  <2> QED
    BY <1>t, <1>a, <2>1, TouchedStayPast
<1>8. CASE StartRolling \/ StartCompression
  <2>1. /\ UNCHANGED <<today, content, late, opened, day_of, data, archives,
                       write_step, file_fd>>
        /\ torn_clock => torn_clock'
    BY <1>8 DEF StartRolling, StartCompression, Limit
  <2> QED
    BY <1>t, <1>a, <2>1, TouchedStayPast
<1>9. CASE RollFolder \/ FindFolder \/ FindFile \/ UNCHANGED vars
  <2>1. UNCHANGED <<today, content, late, opened, day_of, data, archives,
                    torn_clock, write_step, file_fd>>
    BY <1>9 DEF RollFolder, FindFolder, FindFile, vars
  <2> QED
    BY <1>t, <1>a, <2>1, TouchedStayPast
<1> QED
  BY <1>1, <1>2, <1>3, <1>4, <1>5, <1>6, <1>7, <1>8, <1>9
     DEF Next, Write, Clean, Roll, Compress

LEMMA MidnightNext == MidnightInv /\ [Next]_vars => MidnightInv'
BY StorageNext, CleanerBehind, RecordsNew, TouchedPast DEF MidnightInv

LEMMA MidnightCost == MidnightInv => MidnightCostsOneRecord
<1> SUFFICES ASSUME MidnightInv, ~torn_clock, NEW f \in Files
             PROVE  Cardinality(LateIn(f)) <= 1
  BY DEF MidnightCostsOneRecord, LateIn
<1>1. PICK r \in 0 .. MaxRecords : LateIn(f) \subseteq {r}
  BY DEF MidnightInv, TouchedIsPast
<1>2. LateIn(f) = {} \/ LateIn(f) = {r}
  BY <1>1
<1>3. Cardinality({}) = 0 /\ Cardinality({r}) = 1
  BY FS_EmptySet, FS_Singleton
<1> QED
  BY <1>2, <1>3

\* However the two threads interleave around midnight, and whatever fails, a
\* data file loses at most the one record that was being appended, as long as
\* localtime() is read in one piece (file_storage_write, file_storage_compress,
\* file_storage_rolling).
THEOREM MidnightLosesOne == Spec => []MidnightCostsOneRecord
BY MidnightInit, MidnightNext, MidnightCost, PTL DEF Spec

\* Whatever the collecting thread and the clock do between the choice of a
\* folder and its removal, what rolling removes is the oldest day there is
\* (file_storage_rolling).
THEOREM OldestGoesFirst == Spec => RollingTakesOldest
<1>1. MidnightInv /\ [Next]_vars =>
        [\A d \in days \ days' : /\ \A e \in days : d <= e
                                 /\ torn_clock \/ d < today]_vars
  BY RollingStep
<1> QED
  BY <1>1, MidnightInit, MidnightNext, PTL DEF Spec, RollingTakesOldest
=============================================================================
