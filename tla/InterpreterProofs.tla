-------------------------- MODULE InterpreterProofs --------------------------
(***************************************************************************)
(* For any number of jobs, archives and files: a script reads the files of *)
(* its own archive, and whole ones.                                        *)
(*                                                                         *)
(* Both follow from what the directories hold at any time.  A directory is *)
(* named by a hash that only one archive has, so that it holds files of    *)
(* that archive alone (NamedByHash), and a job that has come to an entry   *)
(* has put that file there, from where nobody removes it (FilesArrive).    *)
(* Whoever cuts the file off later by creating it anew makes the job one   *)
(* of the disturbed (FilesStayWhole).                                      *)
(***************************************************************************)
EXTENDS Interpreter, TLAPS, FiniteSetTheorems

Versions == [of : Archives \cup {Nobody}, by : Jobs \cup {Nobody}, whole : BOOLEAN]

\* Every variable has its type, a job has an entry to write while it writes,
\* and nothing is loaded but by an interpreter that runs.
TypeOK ==
  /\ stage \in [Jobs -> {"idle", "extract", "writing", "forked", "running", "over"}]
  /\ archive \in [Jobs -> Archives]
  /\ dir \in [Jobs -> Hashes]
  /\ done \in [Jobs -> 0 .. Len(Files)]
  /\ disk \in [Hashes -> [Names -> Versions]]
  /\ loaded \in [Jobs -> SUBSET [name : Names, of : Archives \cup {Nobody}, whole : BOOLEAN]]
  /\ cutOff \subseteq Jobs /\ disturbed \subseteq Jobs
  /\ \A j \in Jobs : stage[j] = "writing" => done[j] < Len(Files)
  /\ \A j \in Jobs : loaded[j] # {} => stage[j] = "running"

\* A directory other than the temporary directory itself is filled from the
\* archive that has its name for a hash, and no job uses another's.
NamedByHash ==
  /\ \A h \in Hashes \ {NoHash}, n \in Names :
       disk[h][n].of # Nobody => Blocks[disk[h][n].of] = h
  /\ \A j \in Jobs : dir[j] \in {NoHash, Blocks[archive[j]]}

\* The entries whose files job j has created.
Reached(j) ==
  {i \in DOMAIN Files :
     \/ stage[j] = "extract" /\ i <= done[j]
     \/ stage[j] = "writing" /\ i <= done[j] + 1
     \/ stage[j] \in {"forked", "running"}}

\* The file of an entry, in the directory of job j.
FileOf(j, i) == disk[dir[j]][Files[i]]

FilesArrive == \A j \in Jobs : \A i \in Reached(j) : FileOf(j, i).of # Nobody

\* The file that j is writing.
Open(j, i) == stage[j] = "writing" /\ Files[i] = Files[done[j] + 1]

FilesStayWhole ==
  \A j \in Jobs \ disturbed : \A i \in Reached(j) :
    IF Open(j, i) THEN FileOf(j, i).by = j
                  ELSE FileOf(j, i).whole \/ j \in cutOff

IInv ==
  /\ TypeOK
  /\ NamedByHash
  /\ FilesArrive
  /\ FilesStayWhole
  /\ OwnFiles
  /\ WholeFiles

-----------------------------------------------------------------------------
(* Entries, and what a step does to the disk *)

\* What the assumption on Files says of the entries.
LEMMA EntriesHaveNames ==
  /\ Len(Files) \in Nat /\ DOMAIN Files = 1 .. Len(Files)
  /\ \A i \in DOMAIN Files : Files[i] \in Names
  /\ "main.py" \in Names
BY InterpreterAssumption DEF Names

\* A job begins before the first entry.
LEMMA NothingExtractedYet ==
  ASSUME NEW h
  PROVE  Len(Files) - Cardinality(ToExtract(h)) = 0
<1>1. Cardinality(1 .. Len(Files)) = Len(Files)
  BY EntriesHaveNames, FS_Interval
<1>2. QED
  BY <1>1, EntriesHaveNames DEF ToExtract

\* An archive's directory is named by its own contents, or by no hash.
LEMMA HashesOfArchives ==
  ASSUME NEW a \in Archives, NEW h \in file_hash_values(a)
  PROVE  h \in Hashes /\ h \in {NoHash, Blocks[a]}
BY DEF Hashes, file_hash_values

\* Creating a file replaces one file, by an empty one.
LEMMA CreateEffect ==
  ASSUME TypeOK, NEW j \in Jobs, CreateFile(j)
  PROVE  /\ done[j] + 1 \in DOMAIN Files
         /\ \A h \in Hashes, n \in Names :
              disk'[h][n] = IF h = dir[j] /\ n = Files[done[j] + 1]
                              THEN [of |-> archive[j], by |-> j, whole |-> FALSE]
                              ELSE disk[h][n]
<1>1. done[j] + 1 \in DOMAIN Files
  BY EntriesHaveNames DEF CreateFile, TypeOK
<1>2. QED
  BY <1>1, EntriesHaveNames DEF CreateFile, TypeOK

\* Writing a file makes none less whole, and changes nobody's.
LEMMA WriteEffect ==
  ASSUME TypeOK, NEW j \in Jobs, WriteFile(j)
  PROVE  /\ done[j] + 1 \in DOMAIN Files
         /\ \A h \in Hashes, n \in Names :
              /\ disk'[h][n].of = disk[h][n].of /\ disk'[h][n].by = disk[h][n].by
              /\ disk[h][n].whole => disk'[h][n].whole
         /\ disk' \in [Hashes -> [Names -> Versions]]
         /\ \/ j \in cutOff'
            \/ FileOf(j, done[j] + 1).by = j =>
                 disk'[dir[j]][Files[done[j] + 1]].whole
<1> DEFINE name == Files[done[j] + 1]
<1>1. done[j] + 1 \in DOMAIN Files /\ name \in Names /\ dir[j] \in Hashes
  BY EntriesHaveNames DEF WriteFile, Goto, TypeOK
<1>2. CASE UNCHANGED disk /\ (j \in cutOff' \/ FileOf(j, done[j] + 1).by # j)
  BY <1>1, <1>2 DEF TypeOK
<1>3. CASE disk' = [disk EXCEPT ![dir[j]][name].whole = TRUE]
  <2>1. ASSUME NEW h \in Hashes, NEW n \in Names, ~(h = dir[j] /\ n = name)
        PROVE  disk'[h][n] = disk[h][n]
    BY <1>1, <1>3, <2>1 DEF TypeOK
  <2>2. disk'[dir[j]][name] = [disk[dir[j]][name] EXCEPT !.whole = TRUE]
    BY <1>1, <1>3 DEF TypeOK
  <2>3. disk' \in [Hashes -> [Names -> Versions]]
    <3> DEFINE file == [disk[dir[j]][name] EXCEPT !.whole = TRUE]
               row == [disk[dir[j]] EXCEPT ![name] = file]
    <3>1. disk[dir[j]][name] \in Versions /\ disk[dir[j]] \in [Names -> Versions]
      BY <1>1 DEF TypeOK
    <3>2. file \in Versions
      BY <3>1 DEF Versions
    <3>3. row \in [Names -> Versions]
      BY <3>1, <3>2
    <3>4. disk' = [disk EXCEPT ![dir[j]] = row]
      BY <1>3
    <3>5. QED
      BY <1>1, <3>3, <3>4 DEF TypeOK
  <2>4. \A h \in Hashes, n \in Names :
          /\ disk'[h][n].of = disk[h][n].of /\ disk'[h][n].by = disk[h][n].by
          /\ disk[h][n].whole => disk'[h][n].whole
    <3>1. disk[dir[j]][name] \in Versions
      BY <1>1 DEF TypeOK
    <3>2. QED
      BY <1>1, <2>1, <2>2, <3>1 DEF Versions
  <2>5. QED
    BY <1>1, <2>2, <2>3, <2>4 DEF TypeOK
<1>4. QED
  BY <1>2, <1>3 DEF WriteFile, FileOf

\* Every step keeps the types.
LEMMA TypeStep == TypeOK /\ [Next]_vars => TypeOK'
<1> SUFFICES ASSUME TypeOK, [Next]_vars PROVE TypeOK'
  OBVIOUS
<1> USE InterpreterAssumption DEF TypeOK, Goto
<1>1. ASSUME NEW j \in Jobs, run_on_path(j) PROVE TypeOK'
  <2>1. PICK h \in file_hash_values(archive[j]) :
          /\ dir' = [dir EXCEPT ![j] = h]
          /\ done' = [done EXCEPT ![j] = 0]
    BY <1>1, NothingExtractedYet DEF run_on_path
  <2>2. QED
    BY <1>1, <2>1, HashesOfArchives, EntriesHaveNames DEF run_on_path
<1>2. ASSUME NEW j \in Jobs, CreateFile(j) PROVE TypeOK'
  <2>1. disk' \in [Hashes -> [Names -> Versions]]
    BY <1>2 DEF CreateFile, Versions
  <2>2. QED
    BY <1>2, <2>1 DEF CreateFile, Neighbours
<1>3. ASSUME NEW j \in Jobs, WriteFile(j) PROVE TypeOK'
  <2>1. disk' \in [Hashes -> [Names -> Versions]] /\ done[j] + 1 \in 0 .. Len(Files)
    BY <1>3, WriteEffect, EntriesHaveNames
  <2>2. QED
    BY <1>3, <2>1 DEF WriteFile
<1>4. ASSUME NEW j \in Jobs, Abandon(j) PROVE TypeOK'
  BY <1>4, EntriesHaveNames DEF Abandon
<1>5. ASSUME NEW j \in Jobs, StartProcess(j) PROVE TypeOK'
  BY <1>5, EntriesHaveNames DEF StartProcess
<1>6. ASSUME NEW j \in Jobs, exec_file(j) PROVE TypeOK'
  BY <1>6, EntriesHaveNames DEF exec_file, Load, Versions
<1>7. ASSUME NEW j \in Jobs, NEW n \in Names, Import(j, n) PROVE TypeOK'
  BY <1>7 DEF Import, Load, Versions
<1>8. ASSUME NEW j \in Jobs, EndProcess(j) PROVE TypeOK'
  BY <1>8 DEF EndProcess
<1>9. CASE UNCHANGED vars
  BY <1>9 DEF vars
<1>10. QED
  BY <1>1, <1>2, <1>3, <1>4, <1>5, <1>6, <1>7, <1>8, <1>9 DEF Next

-----------------------------------------------------------------------------
(* The inductive invariant *)

\* The inductive invariant holds before the first job.
LEMMA InvInit == Init => IInv
BY InterpreterAssumption, EntriesHaveNames
   DEF Init, IInv, TypeOK, Versions, NamedByHash, FilesArrive, FilesStayWhole, Reached, FileOf, Open,
       OwnFiles, WholeFiles, NoFile, Hashes, file_hash_values

\* What an interpreter finds under any name: the file of its own archive, whole.
LEMMA LoadsItsOwn ==
  ASSUME IInv, NEW j \in Jobs, stage[j] \in {"forked", "running"}, NEW n \in Names
  PROVE  /\ dir[j] # NoHash => disk[dir[j]][n].of = archive[j]
         /\ j \notin cutOff \cup disturbed => disk[dir[j]][n].whole
<1>1. PICK i \in DOMAIN Files : Files[i] = n
  BY DEF Names
<1>2. i \in Reached(j) /\ ~Open(j, i)
  BY DEF Reached, Open
<1>3. disk[dir[j]][n].of # Nobody /\ disk[dir[j]][n].of \in Archives
  BY <1>1, <1>2 DEF IInv, FilesArrive, FileOf, TypeOK, Versions
<1>4. dir[j] # NoHash => disk[dir[j]][n].of = archive[j]
  <2>1. dir[j] \in Hashes /\ archive[j] \in Archives
    BY DEF IInv, TypeOK
  <2>2. QED
    BY <1>3, <2>1, InterpreterAssumption DEF IInv, NamedByHash
<1>5. QED
  BY <1>1, <1>2, <1>4 DEF IInv, FilesStayWhole, FileOf

\* A step of job j that leaves the disk alone, and that brings it to no entry
\* whose file it has not created and closed before.
LEMMA SameDisk ==
  ASSUME IInv, NEW j \in Jobs, UNCHANGED <<archive, dir, disk, cutOff, disturbed>>,
         \A k \in Jobs \ {j} : UNCHANGED <<stage[k], done[k]>>,
         Reached(j)' \subseteq Reached(j), stage[j] # "writing" \/ Reached(j)' = {},
         stage'[j] # "writing"
  PROVE  NamedByHash' /\ FilesArrive' /\ FilesStayWhole'
<1>1. NamedByHash'
  BY DEF IInv, NamedByHash
<1>2. \A k \in Jobs : Reached(k)' \subseteq Reached(k)
  BY DEF Reached
<1>3. \A k \in Jobs, i \in DOMAIN Files : FileOf(k, i)' = FileOf(k, i)
  BY DEF FileOf
<1>4. \A k \in Jobs : \A i \in Reached(k)' : Open(k, i)' = Open(k, i)
  BY DEF Open
<1>5. FilesArrive'
  BY <1>2, <1>3 DEF IInv, FilesArrive, Reached
<1>6. FilesStayWhole'
  BY <1>2, <1>3, <1>4 DEF IInv, FilesStayWhole, Reached
<1>7. QED
  BY <1>1, <1>5, <1>6

\* Every step keeps the invariant.
LEMMA InvStep == IInv /\ [Next]_vars => IInv'
<1> SUFFICES ASSUME IInv, [Next]_vars PROVE IInv'
  OBVIOUS
<1>0. TypeOK /\ TypeOK'
  BY TypeStep DEF IInv
<1> USE <1>0, InterpreterAssumption
<1>1. ASSUME NEW j \in Jobs, run_on_path(j) PROVE IInv'
  <2>1. PICK h \in file_hash_values(archive[j]) : dir' = [dir EXCEPT ![j] = h]
    BY <1>1 DEF run_on_path
  <2>2. done'[j] = 0 /\ \A k \in Jobs \ {j} : done'[k] = done[k]
    BY <1>1, NothingExtractedYet DEF run_on_path, TypeOK
  <2>3. NamedByHash'
    BY <1>1, <2>1, HashesOfArchives DEF run_on_path, IInv, NamedByHash, TypeOK
  <2>4. stage'[j] = "extract" /\ \A k \in Jobs \ {j} : stage'[k] = stage[k]
    BY <1>1 DEF run_on_path, Goto, TypeOK
  <2>5. Reached(j)' = {}
    BY <2>2, <2>4, EntriesHaveNames DEF Reached
  <2>6. ASSUME NEW k \in Jobs \ {j}
        PROVE  /\ Reached(k)' = Reached(k)
               /\ \A i \in DOMAIN Files : FileOf(k, i)' = FileOf(k, i) /\ Open(k, i)' = Open(k, i)
    BY <1>1, <2>1, <2>2, <2>4 DEF run_on_path, Reached, FileOf, Open, TypeOK
  <2>7. FilesArrive'
    BY <2>5, <2>6 DEF IInv, FilesArrive, Reached
  <2>8. FilesStayWhole'
    BY <1>1, <2>5, <2>6 DEF run_on_path, IInv, FilesStayWhole, Reached
  <2>9. OwnFiles' /\ WholeFiles'
    BY <1>1, <2>1 DEF run_on_path, Goto, IInv, OwnFiles, WholeFiles, TypeOK
  <2>10. QED
    BY <2>3, <2>7, <2>8, <2>9 DEF IInv
<1>2. ASSUME NEW j \in Jobs, CreateFile(j) PROVE IInv'
  <2> DEFINE n == Files[done[j] + 1]
  <2>1. /\ done[j] + 1 \in DOMAIN Files /\ dir[j] \in Hashes /\ archive[j] \in Archives
        /\ n \in Names
    BY <1>2, CreateEffect, EntriesHaveNames DEF TypeOK
  <2>2. \A h \in Hashes, m \in Names :
          disk'[h][m] = IF h = dir[j] /\ m = n
                          THEN [of |-> archive[j], by |-> j, whole |-> FALSE]
                          ELSE disk[h][m]
    BY <1>2, CreateEffect
  <2>3. /\ UNCHANGED <<archive, dir, done, loaded, cutOff>>
        /\ stage[j] = "extract" /\ stage'[j] = "writing"
        /\ \A k \in Jobs \ {j} : stage'[k] = stage[k]
    BY <1>2 DEF CreateFile, Goto, TypeOK
  <2>4. NamedByHash'
    BY <2>1, <2>2, <2>3 DEF IInv, NamedByHash
  <2>5. Reached(j)' = Reached(j) \cup {done[j] + 1} /\ \A k \in Jobs \ {j} : Reached(k)' = Reached(k)
    BY <2>1, <2>3, EntriesHaveNames DEF Reached, TypeOK
  <2>6. \A k \in Jobs, i \in DOMAIN Files :
          FileOf(k, i)' = IF dir[k] = dir[j] /\ Files[i] = n
                            THEN [of |-> archive[j], by |-> j, whole |-> FALSE]
                            ELSE FileOf(k, i)
    <3>1. \A k \in Jobs, i \in DOMAIN Files :
            /\ dir[k] \in Hashes /\ Files[i] \in Names
            /\ FileOf(k, i) = disk[dir[k]][Files[i]]
            /\ FileOf(k, i)' = disk'[dir[k]][Files[i]]
      BY <2>3, EntriesHaveNames DEF FileOf, TypeOK
    <3> HIDE DEF n
    <3>2. QED
      BY <2>2, <3>1
  <2>7. FilesArrive'
    BY <2>1, <2>5, <2>6 DEF IInv, FilesArrive, Reached
  <2>8. ASSUME NEW k \in Jobs, k \notin disturbed', NEW i \in Reached(k)'
        PROVE  IF Open(k, i)' THEN FileOf(k, i)'.by = k ELSE FileOf(k, i)'.whole \/ k \in cutOff'
    <3>1. k \notin disturbed /\ i \in DOMAIN Files
      BY <1>2, <2>8 DEF CreateFile, Reached
    <3>2. CASE k = j
      BY <2>1, <2>3, <2>5, <2>6, <2>8, <3>1, <3>2 DEF IInv, FilesStayWhole, Open
    <3>3. CASE k # j
      <4>1. stage[k] # "idle" /\ k \notin Neighbours(j)
        BY <1>2, <2>3, <2>8, <3>3 DEF CreateFile, Reached
      <4>2. dir[k] # dir[j]
        BY <3>3, <4>1 DEF Neighbours
      <4>3. FileOf(k, i)' = FileOf(k, i) /\ Open(k, i)' = Open(k, i) /\ i \in Reached(k)
        BY <2>3, <2>5, <2>6, <2>8, <3>1, <3>3, <4>2 DEF Open
      <4>4. QED
        BY <2>3, <3>1, <4>3 DEF IInv, FilesStayWhole
    <3>4. QED
      BY <3>2, <3>3
  <2>9. OwnFiles' /\ WholeFiles'
    BY <1>2, <2>3 DEF CreateFile, IInv, OwnFiles, WholeFiles
  <2>10. QED
    BY <2>4, <2>7, <2>8, <2>9 DEF IInv, FilesStayWhole
<1>3. ASSUME NEW j \in Jobs, WriteFile(j) PROVE IInv'
  <2>1. /\ UNCHANGED <<archive, dir, loaded, disturbed>> /\ cutOff \subseteq cutOff'
        /\ stage[j] = "writing" /\ stage'[j] = "extract" /\ done'[j] = done[j] + 1
        /\ \A k \in Jobs \ {j} : stage'[k] = stage[k] /\ done'[k] = done[k]
    BY <1>3 DEF WriteFile, Goto, TypeOK
  <2>2. \A h \in Hashes, n \in Names :
          /\ disk'[h][n].of = disk[h][n].of /\ disk'[h][n].by = disk[h][n].by
          /\ disk[h][n].whole => disk'[h][n].whole
    BY <1>3, WriteEffect
  <2>3. j \in cutOff' \/ (FileOf(j, done[j] + 1).by = j =>
                              disk'[dir[j]][Files[done[j] + 1]].whole)
    BY <1>3, WriteEffect
  <2>4. NamedByHash'
    BY <2>1, <2>2 DEF IInv, NamedByHash
  <2>5. \A k \in Jobs : Reached(k)' = Reached(k)
    BY <2>1, EntriesHaveNames DEF Reached, TypeOK
  <2>6. \A k \in Jobs, i \in DOMAIN Files :
          /\ FileOf(k, i)'.of = FileOf(k, i).of /\ FileOf(k, i)'.by = FileOf(k, i).by
          /\ FileOf(k, i).whole => FileOf(k, i)'.whole
    BY <2>1, <2>2, EntriesHaveNames DEF FileOf, TypeOK
  <2>7. FilesArrive'
    BY <2>5, <2>6 DEF IInv, FilesArrive, Reached
  <2>8. ASSUME NEW k \in Jobs \ disturbed, NEW i \in Reached(k)
        PROVE  IF Open(k, i)' THEN FileOf(k, i)'.by = k ELSE FileOf(k, i)'.whole \/ k \in cutOff'
    <3>1. i \in DOMAIN Files
      BY DEF Reached
    <3>2. IF Open(k, i) THEN FileOf(k, i).by = k ELSE FileOf(k, i).whole \/ k \in cutOff
      BY DEF IInv, FilesStayWhole
    <3>3. CASE k = j /\ Open(k, i)
      <4>1. FileOf(j, i) = FileOf(j, done[j] + 1) /\ FileOf(j, i)' = disk'[dir[j]][Files[done[j] + 1]]
        BY <3>3, <2>1 DEF Open, FileOf
      <4>2. QED
        BY <2>1, <2>3, <3>2, <3>3, <4>1 DEF Open
    <3>4. CASE k = j /\ ~Open(k, i)
      BY <2>1, <2>6, <3>1, <3>2, <3>4 DEF Open
    <3>5. CASE k # j
      BY <2>1, <2>6, <3>1, <3>2, <3>5 DEF Open
    <3>6. QED
      BY <3>3, <3>4, <3>5
  <2>9. FilesStayWhole'
    BY <2>1, <2>5, <2>8 DEF FilesStayWhole
  <2>10. OwnFiles' /\ WholeFiles'
    BY <2>1 DEF IInv, OwnFiles, WholeFiles
  <2>11. QED
    BY <2>4, <2>7, <2>9, <2>10 DEF IInv
<1>4. ASSUME NEW j \in Jobs, Abandon(j) \/ EndProcess(j) PROVE IInv'
  <2>1. /\ UNCHANGED <<archive, dir, disk, cutOff, disturbed>> /\ stage'[j] = "over"
        /\ \A k \in Jobs \ {j} : UNCHANGED <<stage[k], done[k]>>
        /\ \A k \in Jobs : loaded'[k] \subseteq loaded[k]
    BY <1>4 DEF Abandon, EndProcess, TypeOK
  <2>2. Reached(j)' = {}
    BY <2>1 DEF Reached
  <2>3. NamedByHash' /\ FilesArrive' /\ FilesStayWhole'
    BY <2>1, <2>2, SameDisk
  <2>4. OwnFiles' /\ WholeFiles'
    BY <2>1 DEF IInv, OwnFiles, WholeFiles
  <2>5. QED
    BY <2>3, <2>4 DEF IInv
<1>5. ASSUME NEW j \in Jobs, StartProcess(j) PROVE IInv'
  <2>1. /\ UNCHANGED <<archive, dir, disk, loaded, cutOff, disturbed>>
        /\ stage[j] = "extract" /\ done[j] = Len(Files) /\ stage'[j] = "forked"
        /\ \A k \in Jobs \ {j} : UNCHANGED <<stage[k], done[k]>>
    BY <1>5 DEF StartProcess, Goto, TypeOK
  <2>2. Reached(j)' \subseteq Reached(j)
    BY <2>1, EntriesHaveNames DEF Reached
  <2>3. NamedByHash' /\ FilesArrive' /\ FilesStayWhole'
    BY <2>1, <2>2, SameDisk
  <2>4. OwnFiles' /\ WholeFiles'
    BY <2>1 DEF IInv, OwnFiles, WholeFiles
  <2>5. QED
    BY <2>3, <2>4 DEF IInv
<1>6. ASSUME NEW j \in Jobs, NEW n \in Names, stage[j] \in {"forked", "running"}, Load(j, n),
             UNCHANGED <<archive, dir, done, disk, cutOff, disturbed>>,
             stage' = [stage EXCEPT ![j] = "running"]
      PROVE  IInv'
  <2>1. stage'[j] = "running" /\ \A k \in Jobs \ {j} : UNCHANGED <<stage[k], done[k]>>
    BY <1>6 DEF TypeOK
  <2>2. Reached(j)' \subseteq Reached(j)
    BY <1>6, <2>1 DEF Reached
  <2>3. NamedByHash' /\ FilesArrive' /\ FilesStayWhole'
    BY <1>6, <2>1, <2>2, SameDisk
  <2>4. ASSUME NEW k \in Jobs, NEW l \in loaded'[k]
        PROVE  /\ dir[k] # NoHash => l.of = archive[k]
               /\ k \notin cutOff \cup disturbed => l.whole
    <3>1. CASE l \in loaded[k]
      BY <3>1 DEF IInv, OwnFiles, WholeFiles
    <3>2. CASE l \notin loaded[k]
      <4>1. k = j /\ l.of = disk[dir[j]][n].of /\ l.whole = disk[dir[j]][n].whole
        BY <1>6, <2>4, <3>2 DEF Load, TypeOK
      <4>2. QED
        BY <1>6, <4>1, LoadsItsOwn
    <3>3. QED
      BY <3>1, <3>2
  <2>5. OwnFiles' /\ WholeFiles'
    BY <1>6, <2>4 DEF OwnFiles, WholeFiles
  <2>6. QED
    BY <2>3, <2>5 DEF IInv
<1>7. ASSUME NEW j \in Jobs, exec_file(j) PROVE IInv'
  BY <1>6, <1>7, EntriesHaveNames DEF exec_file, Goto
<1>8. ASSUME NEW j \in Jobs, NEW n \in Names, Import(j, n) PROVE IInv'
  <2>1. stage' = [stage EXCEPT ![j] = "running"]
    BY <1>8 DEF Import, TypeOK
  <2>2. QED
    BY <1>6, <1>8, <2>1 DEF Import
<1>9. CASE UNCHANGED vars
  BY <1>9 DEF vars, IInv, NamedByHash, FilesArrive, FilesStayWhole, Reached, FileOf, Open,
       OwnFiles, WholeFiles
<1>10. QED
  BY <1>1, <1>2, <1>3, <1>4, <1>5, <1>7, <1>8, <1>9 DEF Next

\* The invariant holds always.
LEMMA Invariance == Spec => []IInv
BY InvInit, InvStep, PTL DEF Spec

-----------------------------------------------------------------------------

(***************************************************************************)
(* A script reads the files of the archive its job was given, however many *)
(* jobs extract into the temporary directory at the same time and wherever *)
(* agents were killed before, unless the hash of its archive has failed.   *)
(***************************************************************************)
THEOREM ScriptsReadTheirOwnFiles == Spec => []OwnFiles
<1>1. IInv => OwnFiles
  BY DEF IInv
<1>2. QED
  BY <1>1, Invariance, PTL

(***************************************************************************)
(* What it reads is there to the last byte, also in a directory that a     *)
(* killed agent has left half full, unless an entry was cut off unsaid or  *)
(* another job has written to the directory since its own began to.        *)
(***************************************************************************)
THEOREM ScriptsReadWholeFiles == Spec => []WholeFiles
<1>1. IInv => WholeFiles
  BY DEF IInv
<1>2. QED
  BY <1>1, Invariance, PTL
=============================================================================
