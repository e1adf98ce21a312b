----------------------------- MODULE FileStorage -----------------------------
(***************************************************************************)
(* The local storage of the collector and the two threads that share it:   *)
(* the collecting thread appends samples to the data file of the day, and  *)
(* the cleaner removes the oldest day folders when space is short and      *)
(* replaces the data files of past days by archives                        *)
(* (data-collector-demo3/src/file-storage/file-storage.c, and the cleaner  *)
(* of src/modbus-rtu/modbus-rtu.c).                                        *)
(*                                                                         *)
(* Nothing protects the files: one action per step whose effect the other  *)
(* thread can see.  A day is a number, the clock only moves on, and a      *)
(* record takes one block, as does an archive.  The storage is on the      *)
(* local disk, or on the SD card when OnSdCard.                            *)
(***************************************************************************)
EXTENDS Integers, FiniteSets, FiniteSetsExt

CONSTANTS DaysPerMonth,
          Capacity,    \* blocks of the disk
          FreeSpace,   \* rolling_free_space
          OnSdCard,    \* whether the path is below /media/sdcard/
          MaxDay,      \* bound: the last day
          MaxRecords,  \* bound: samples saved
          MaxFiles,    \* bound: data files opened
          MaxKills     \* bound: the process is killed and started again

ASSUME SizesAssumption ==
         {DaysPerMonth, Capacity, FreeSpace} \subseteq Nat \ {0}
ASSUME SdCardAssumption == OnSdCard \in BOOLEAN
ASSUME BoundsAssumption ==
         {MaxDay, MaxRecords, MaxFiles, MaxKills} \subseteq Nat

Days == 0 .. MaxDay
Month(d) == d \div DaysPerMonth
Months == {Month(d) : d \in Days}
Records == 1 .. MaxRecords
Files == 1 .. MaxFiles
NoFile == 0
StatfsFailed == -1

VARIABLES
  today,
  months, days,  \* the month and day folders on the disk
  opened,        \* files opened so far: they are 1 .. opened
  day_of,        \* the day whose folder a file is in
  content,       \* the records a file holds
  data,          \* files whose .bin is on the disk
  archives,      \* files that have a whole .tar.gz
  archive,       \* what it holds
  written,       \* samples handed to file_storage_write
  write_step,    \* what the collecting thread does next
  file_fd,
  clean_step,    \* what the cleaner does next
  max_timestamp, \* the day it leaves alone, with all later days
  last_bytes_free,
  folder,        \* the day folder it removes or compresses
  folder_has_zip,
  file,          \* the data file it archives
  kills,
  \* For the properties only:
  rolled,        \* files removed with their day's folder
  late,          \* records appended to a file after it had been archived
                 \* or removed
  torn_clock     \* localtime() has once failed to give midnight

disk == <<months, days, opened, day_of, content, data, archive, archives>>
writer == <<written, write_step, file_fd>>
cleaner == <<clean_step, max_timestamp, last_bytes_free, folder,
             folder_has_zip, file>>
observers == <<rolled, late, torn_clock>>
vars == <<today, disk, writer, cleaner, kills, observers>>

TypeOK ==
  /\ today \in Days /\ kills \in 0 .. MaxKills
  /\ months \subseteq Months /\ days \subseteq Days
  /\ {Month(d) : d \in days} \subseteq months
  /\ opened \in 0 .. MaxFiles
  /\ day_of \in [Files -> Days] /\ content \in [Files -> SUBSET Records]
  /\ archive \in [Files -> SUBSET Records]
  /\ data \cup archives \cup rolled \subseteq 1 .. opened
  /\ {day_of[f] : f \in data \cup archives} \subseteq days
  /\ written \in 0 .. MaxRecords /\ late \subseteq 1 .. written
  /\ write_step \in {"check", "open", "write"}
  /\ file_fd \in 0 .. opened
  /\ clean_step \in {"sleep", "roll", "remove", "compress", "folders",
                     "files", "tar", "rm"}
  /\ max_timestamp \in 0 .. MaxDay + 1
  /\ last_bytes_free \in Int
  /\ folder \in {-1} \cup Days /\ file \in {NoFile} \cup Files
  /\ {folder_has_zip, torn_clock} \subseteq BOOLEAN

Init ==
  /\ today = 0 /\ kills = 0
  /\ months = {} /\ days = {} /\ opened = 0
  /\ day_of = [f \in Files |-> 0] /\ content = [f \in Files |-> {}]
  /\ data = {} /\ archive = [f \in Files |-> {}] /\ archives = {}
  /\ written = 0 /\ write_step = "check" /\ file_fd = NoFile
  /\ clean_step = "sleep" /\ max_timestamp = 0 /\ last_bytes_free = 0
  /\ folder = -1 /\ folder_has_zip = FALSE /\ file = NoFile
  /\ rolled = {} /\ late = {} /\ torn_clock = FALSE

\* An open file keeps its blocks when it is removed.
Free ==
  Capacity - Cardinality(archives)
    - Cardinality(UNION {content[f] : f \in data \cup ({file_fd} \ {NoFile})})

-----------------------------------------------------------------------------
(* The collecting thread: file_storage_write.                              *)

\* Mutant: an open file is taken to be the right one.
CheckOpenOnly ==
  /\ write_step = "check" /\ written < MaxRecords
  /\ written' = written + 1
  /\ write_step' = IF file_fd # NoFile THEN "write" ELSE "open"
  /\ UNCHANGED <<today, disk, file_fd, cleaner, kills, observers>>

\* The file of another day is closed.
CheckDate ==
  /\ write_step = "check" /\ written < MaxRecords
  /\ written' = written + 1
  /\ LET current == file_fd # NoFile /\ day_of[file_fd] = today
     IN /\ write_step' = IF current THEN "write" ELSE "open"
        /\ file_fd' = IF current THEN file_fd ELSE NoFile
  /\ UNCHANGED <<today, disk, cleaner, kills, observers>>

\* The folders that are missing are made one below the other, up to the first
\* that cannot be made.
Folders == 2
Mkdirs(made) ==
  /\ months' = IF made >= 1 THEN months \cup {Month(today)} ELSE months
  /\ days' = IF made = Folders THEN days \cup {today} ELSE days

\* The folders are made and the file opened; when either fails the sample is
\* given up.
OpenFile ==
  /\ write_step = "open"
  /\ \E made \in 0 .. Folders :
       /\ Mkdirs(made)
       /\ \/ /\ made = Folders /\ opened < MaxFiles
             /\ opened' = opened + 1 /\ file_fd' = opened + 1
             /\ day_of' = [day_of EXCEPT ![opened + 1] = today]
             /\ data' = data \cup {opened + 1}
             /\ write_step' = "write"
          \/ /\ write_step' = "check"
             /\ UNCHANGED <<opened, file_fd, day_of, data>>
  /\ UNCHANGED <<today, content, archive, archives, written, cleaner, kills,
                 observers>>

\* A full disk refuses the sample.
WriteRecord ==
  /\ write_step = "write" /\ write_step' = "check"
  /\ IF Free > 0
     THEN /\ content' = [content EXCEPT ![file_fd] = @ \cup {written}]
          /\ late' = IF file_fd \in data \ archives
                     THEN late ELSE late \cup {written}
     ELSE UNCHANGED <<content, late>>
  /\ UNCHANGED <<today, months, days, opened, day_of, data, archive,
                 archives, written, file_fd, cleaner, kills, rolled,
                 torn_clock>>

-----------------------------------------------------------------------------
(* The cleaner: file_storage_rolling and file_storage_compress, in turn.   *)

\* Midnight of today, computed in the structure that localtime() shares
\* between the threads: a call of another thread puts the hour back before
\* mktime() reads it, and today then counts as a past day.
Midnight == {today, today + 1}

Limit(limit) ==
  /\ max_timestamp' = limit
  /\ torn_clock' = (torn_clock \/ limit # today)

\* Whether the card is found among the mounts, or the mounts be read at all.
SdcardMounted == IF OnSdCard THEN BOOLEAN ELSE {TRUE}

\* Nothing is done while there is space, on a card that is not mounted, or
\* when statfs() fails.
StartRolling ==
  /\ clean_step = "sleep"
  /\ \E mounted \in SdcardMounted, answered \in BOOLEAN :
       IF mounted /\ answered /\ Free <= FreeSpace
       THEN /\ clean_step' = "roll" /\ last_bytes_free' = 0
            /\ \E limit \in Midnight : Limit(limit)
       ELSE /\ clean_step' = "compress"
            /\ UNCHANGED <<max_timestamp, last_bytes_free, torn_clock>>
  /\ UNCHANGED <<today, disk, writer, folder, folder_has_zip, file, kills,
                 rolled, late>>

\* The oldest day of the oldest month, and a day after all others when that
\* month has none.
OldestFolder ==
  LET oldest_month == IF months = {} THEN -1 ELSE Min(months)
      its_days == {d \in days : Month(d) = oldest_month}
  IN IF its_days = {} THEN MaxDay + 2 ELSE Min(its_days)

\* Mutant: today's folder may be removed as well.
ReachesLimitLate(oldest) == oldest > max_timestamp

ReachesLimit(oldest) == oldest >= max_timestamp

\* Mutant: the loop goes on although nothing was freed.
NeverStuck(bytes_free) == FALSE

NothingFreed(bytes_free) == bytes_free = last_bytes_free

\* What statfs() answers within the loop, where it is asked in every round: a
\* failure is no reason to stop, it counts as no space at all.
FreeInLoop == {StatfsFailed, Free}

EndRolling ==
  /\ clean_step' = "compress"
  /\ max_timestamp' = 0 /\ last_bytes_free' = 0 /\ folder' = -1

\* One round of the loop up to the removal: there is space again, or the
\* last removal freed none, or a folder cannot be read, or the oldest folder
\* is not of a past day.
RollFolder ==
  /\ clean_step = "roll"
  /\ \E bytes_free \in FreeInLoop :
       IF bytes_free >= FreeSpace \/ NothingFreed(bytes_free)
       THEN EndRolling
       ELSE \/ EndRolling  \* opendir() failed, or ReachesLimit(OldestFolder)
            \/ /\ ~ReachesLimit(OldestFolder)
               /\ last_bytes_free' = bytes_free
               /\ folder' = OldestFolder /\ clean_step' = "remove"
               /\ UNCHANGED max_timestamp
  /\ UNCHANGED <<today, disk, writer, folder_has_zip, file, kills,
                 observers>>

\* rm -rf: the folder is gone, or rm fails with some of its files removed,
\* which file_storage_rolling does not look at.
RemoveFolder ==
  /\ clean_step = "remove" /\ clean_step' = "roll"
  /\ LET inside == {f \in data \cup archives : day_of[f] = folder}
     IN \E gone \in SUBSET inside :
          /\ data' = data \ gone /\ archives' = archives \ gone
          /\ rolled' = rolled \cup gone
          /\ \/ gone = inside /\ days' = days \ {folder}
             \/ UNCHANGED days
  /\ UNCHANGED <<today, months, opened, day_of, content, archive, writer,
                 max_timestamp, last_bytes_free, folder, folder_has_zip, file,
                 kills, late, torn_clock>>

StartCompression ==
  /\ clean_step = "compress"
  /\ clean_step' = "folders" /\ \E limit \in Midnight : Limit(limit)
  /\ UNCHANGED <<today, disk, writer, last_bytes_free, folder,
                 folder_has_zip, file, kills, rolled, late>>

\* The newest past day of the newest month that has begun before the limit,
\* and none when that month has no past day.
ClosestFolder ==
  LET past_months == {m \in months : m * DaysPerMonth < max_timestamp}
      its_days == {d \in days : /\ past_months # {}
                                /\ Month(d) = Max(past_months)
                                /\ d < max_timestamp}
  IN IF its_days = {} THEN -1 ELSE Max(its_days)

EndCleaning ==
  /\ clean_step' = "sleep" /\ folder' = -1 /\ file' = NoFile
  /\ folder_has_zip' = FALSE /\ max_timestamp' = 0 /\ last_bytes_free' = 0

\* The compression ends when no past day is left, or a folder cannot be read.
FindFolder ==
  /\ clean_step = "folders"
  /\ \/ EndCleaning
     \/ /\ ClosestFolder # -1
        /\ folder' = ClosestFolder /\ folder_has_zip' = FALSE
        /\ clean_step' = "files"
        /\ UNCHANGED <<max_timestamp, last_bytes_free, file>>
  /\ UNCHANGED <<today, disk, writer, kills, observers>>

\* The next data file of the folder; when there is none, the folder before
\* it is next, but only after a folder that had something to compress.
FindFile ==
  /\ clean_step = "files"
  /\ LET files == {f \in data : day_of[f] = folder}
     IN \/ /\ files # {}
           /\ file' \in files /\ clean_step' = "tar" /\ folder_has_zip' = TRUE
           /\ UNCHANGED <<max_timestamp, last_bytes_free, folder>>
        \/ /\ files = {} /\ folder_has_zip
           /\ max_timestamp' = folder /\ clean_step' = "folders"
           /\ UNCHANGED <<last_bytes_free, folder, folder_has_zip, file>>
        \/ EndCleaning  \* or opendir() failed
  /\ UNCHANGED <<today, disk, writer, kills, observers>>

\* Mutant: the exit status of tar is not looked at.
TarFailedIgnored ==
  /\ clean_step' = "rm"
  /\ UNCHANGED <<max_timestamp, last_bytes_free, folder, folder_has_zip, file>>

TarFailed == EndCleaning

\* tar reads the file at one point, or fails: for want of space, or because
\* the file grew under its hands.  A torn archive is no archive.
Tar ==
  /\ clean_step = "tar"
  /\ \/ /\ Free > 0
        /\ archives' = archives \cup {file}
        /\ archive' = [archive EXCEPT ![file] = content[file]]
        /\ clean_step' = "rm"
        /\ UNCHANGED <<max_timestamp, last_bytes_free, folder, folder_has_zip,
                       file>>
     \/ /\ archives' = archives \ {file}
        /\ archive' = [archive EXCEPT ![file] = {}]
        /\ TarFailed
  /\ UNCHANGED <<today, months, days, opened, day_of, content, data, writer,
                 kills, observers>>

RemoveOriginal ==
  /\ clean_step = "rm"
  /\ \/ /\ data' = data \ {file} /\ clean_step' = "files"
        /\ UNCHANGED <<max_timestamp, last_bytes_free, folder, folder_has_zip,
                       file>>
     \/ EndCleaning /\ UNCHANGED <<data>>
  /\ UNCHANGED <<today, months, days, opened, day_of, content, archive,
                 archives, writer, kills, observers>>

-----------------------------------------------------------------------------
PassMidnight ==
  /\ today < MaxDay /\ today' = today + 1
  /\ UNCHANGED <<disk, writer, cleaner, kills, observers>>

\* The process ends and is started again, at any point: the threads stop,
\* the collecting thread may have freed the contexts under the cleaner's
\* hands (dispose_modbus_rtu_context), and an archive may be torn.
Restart ==
  /\ kills < MaxKills /\ kills' = kills + 1
  /\ write_step' = "check" /\ file_fd' = NoFile
  /\ EndCleaning
  /\ IF clean_step = "tar"
     THEN /\ archives' = archives \ {file}
          /\ archive' = [archive EXCEPT ![file] = {}]
     ELSE UNCHANGED <<archives, archive>>
  /\ UNCHANGED <<today, months, days, opened, day_of, content, data, written,
                 observers>>

Write == CheckDate \/ OpenFile \/ WriteRecord
Roll == StartRolling \/ RollFolder \/ RemoveFolder
Compress == StartCompression \/ FindFolder \/ FindFile \/ Tar
              \/ RemoveOriginal
Clean == Roll \/ Compress
Next == Write \/ Clean \/ PassMidnight \/ Restart

\* The cleaner's thread is scheduled, and what it calls returns.
Spec == Init /\ [][Next]_vars /\ WF_vars(Clean)

-----------------------------------------------------------------------------
(* Properties.                                                             *)

\* A record that file_storage_write has stored is in its data file or in
\* the archive of it, unless its folder was rolled or the cleaner had
\* archived or removed the file before the record was appended: no failure
\* of tar or rm and no restart loses one.
RecordsAreKept ==
  /\ TypeOK
  /\ \A f \in Files : \A r \in content[f] \ late :
       f \in data \cup rolled \/ (f \in archives /\ r \in archive[f])

\* The cleaner works on files of past days without a lock, and the
\* collecting thread checks the date before it appends: as long as
\* localtime() is read in one piece, a file loses at most the one record
\* that was being appended while midnight passed.
MidnightCostsOneRecord ==
  torn_clock \/ \A f \in Files : Cardinality(content[f] \cap late) <= 1

\* Rolling removes the oldest day there is, and a past day unless the
\* structure of localtime() was torn (file_storage_rolling).
RollingTakesOldest ==
  [][\A d \in days \ days' : /\ \A e \in days : d <= e
                             /\ torn_clock \/ d < today]_vars

\* Every pass of the cleaner ends, whatever tar and rm do and however much is
\* written meanwhile, so that on_shutdown can join its thread, unless
\* statfs() fails in the loop again and again: when a failure and an answer
\* take turns and rm removes nothing, the loop of file_storage_rolling never
\* sees the same free space twice.
CleanerReturns ==
  <>[](last_bytes_free # StatfsFailed)
    => (clean_step # "sleep" ~> clean_step = "sleep")

\* "delete old dated files if free space lower than then water level": a pass
\* of rolling that finds too little space, has removed nothing yet, and sees
\* the folder of a past day, can remove it (the comment in
\* file_storage_rolling).  The code takes a disk with no free block for one on
\* which the last removal freed nothing, because last_bytes_free begins at 0:
\* a disk that is quite full is never rolled.
LowSpaceIsRolled ==
  clean_step = "roll" /\ folder = -1 /\ Free < FreeSpace
      /\ ~ReachesLimit(OldestFolder) /\ ~torn_clock
    => ENABLED (/\ RollFolder /\ clean_step' = "remove"
                /\ last_bytes_free' = Free)

=============================================================================
