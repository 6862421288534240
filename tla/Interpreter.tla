----------------------------- MODULE Interpreter -----------------------------
(***************************************************************************)
(* python_interpreter::run_on_path: an archive is unpacked into a          *)
(* directory named by its hash, and a child runs the main.py found there.  *)
(*                                                                         *)
(* A job is one call and its child.  The jobs are those of several agents, *)
(* or of one after the other, that share the temporary directory; an agent *)
(* may be killed anywhere in a call.  Of Archive this takes that entries   *)
(* are extracted in their order, that an error leaves the rest out, and    *)
(* that a warning, data that end early or a failing finish_entry may leave *)
(* an entry cut off unsaid (WholeUnlessWarned); of SubProcess that a fork  *)
(* gives one child.                                                        *)
(***************************************************************************)
EXTENDS Naturals, Sequences, FiniteSets

CONSTANTS
  Jobs,
  Archives,
  Blocks,     \* what each archive file consists of, as read returns it
  Files,      \* the entries of every archive, main.py among them, in their order
  Nobody

ASSUME InterpreterAssumption ==
  /\ Nobody \notin Jobs \cup Archives
  /\ \A a, b \in Archives : Blocks[a] = Blocks[b] => a = b
  /\ \A a \in Archives : Blocks[a] # <<>>
  /\ Files \in Seq(STRING) /\ "main.py" \in {Files[i] : i \in DOMAIN Files}

NoHash == <<>>
Names == {Files[i] : i \in DOMAIN Files}

VARIABLES
  stage,     \* where the job is: in its call, in its child, or over
  archive,   \* the archive it was given
  dir,       \* temp_dir, as the hash that names it
  done,      \* entries extracted
  disk,      \* what each file of each directory is
  loaded,    \* the files its interpreter has read, as they were then
  cutOff,    \* history: jobs one of whose entries was cut off unsaid
  disturbed  \* history: jobs in whose directory another job has written since
             \* they began to extract

vars == <<stage, archive, dir, done, disk, loaded, cutOff, disturbed>>

\* A file: whose archive's, who created it, and whether all of it is there.
NoFile == [of |-> Nobody, by |-> Nobody, whole |-> FALSE]

\* Mutant: the digest ends with the first buffer.
file_hash_values_FirstBlock(a) == {<<Head(Blocks[a])>>, NoHash}

\* hash_tools::file_hash_values: the digest stands for all that was read, and
\* any failure, of open, of read or of OpenSSL, for "".
file_hash_values(a) == {Blocks[a], NoHash}

Hashes == UNION {file_hash_values(a) : a \in Archives}

\* What an earlier run of the agent has left is that of an earlier job here.
Init ==
  /\ stage = [j \in Jobs |-> "idle"]
  /\ archive \in [Jobs -> Archives]
  /\ dir = [j \in Jobs |-> NoHash]
  /\ done = [j \in Jobs |-> 0]
  /\ disk = [d \in Hashes |-> [n \in Names |-> NoFile]]
  /\ loaded = [j \in Jobs |-> {}]
  /\ cutOff = {} /\ disturbed = {}

Goto(j, from, to) ==
  /\ stage[j] = from
  /\ stage' = [stage EXCEPT ![j] = to]

-----------------------------------------------------------------------------
(* The agent *)

\* Mutant: a directory somebody has filled is not filled again.
ToExtract_Reuses(h) == {i \in DOMAIN Files : disk[h][Files[i]] = NoFile}

\* The entries to extract into directory h, whatever is there: all.
ToExtract(h) == DOMAIN Files

\* The hash, and the directory, made if it does not exist ("" names the
\* temporary directory itself, which does); then the archive is opened.
run_on_path(j) ==
  /\ Goto(j, "idle", "extract")
  /\ \E h \in file_hash_values(archive[j]) :
       /\ dir' = [dir EXCEPT ![j] = h]
       /\ done' = [done EXCEPT ![j] = Len(Files) - Cardinality(ToExtract(h))]
  /\ UNCHANGED <<archive, disk, loaded, cutOff, disturbed>>

\* The jobs that use j's directory.
Neighbours(j) == {k \in Jobs \ {j} : dir[k] = dir[j] /\ stage[k] # "idle"}

\* The header of the next entry: an old file of that name is unlinked.
CreateFile(j) ==
  /\ done[j] < Len(Files)
  /\ Goto(j, "extract", "writing")
  /\ disk' = [disk EXCEPT ![dir[j]][Files[done[j] + 1]] =
                [of |-> archive[j], by |-> j, whole |-> FALSE]]
  /\ disturbed' = disturbed \cup Neighbours(j)
  /\ UNCHANGED <<archive, dir, done, loaded, cutOff>>

\* The data go to the file that was created, even if another has its name now.
WriteFile(j) ==
  LET name == Files[done[j] + 1]
  IN  /\ Goto(j, "writing", "extract")
      /\ done' = [done EXCEPT ![j] = @ + 1]
      /\ \/ /\ IF disk[dir[j]][name].by = j
                 THEN disk' = [disk EXCEPT ![dir[j]][name].whole = TRUE]
                 ELSE UNCHANGED disk
            /\ UNCHANGED cutOff
         \/ cutOff' = cutOff \cup {j} /\ UNCHANGED disk
      /\ UNCHANGED <<archive, dir, loaded, disturbed>>

\* A call throws, or the agent is killed: what is on the disk stays.
Abandon(j) ==
  /\ stage[j] \in {"extract", "writing"}
  /\ stage' = [stage EXCEPT ![j] = "over"]
  /\ done' = [done EXCEPT ![j] = 0]
  /\ UNCHANGED <<archive, dir, disk, loaded, cutOff, disturbed>>

\* Mutant: an exception of the extraction is swallowed.
StartProcess_Anyway(j) ==
  /\ stage[j] \in {"extract", "writing"}
  /\ stage' = [stage EXCEPT ![j] = "forked"]
  /\ UNCHANGED <<archive, dir, done, disk, loaded, cutOff, disturbed>>

\* The end of the archive; the container is made and kept, and forks.
StartProcess(j) ==
  /\ done[j] = Len(Files)
  /\ Goto(j, "extract", "forked")
  /\ done' = [done EXCEPT ![j] = 0]
  /\ UNCHANGED <<archive, dir, disk, loaded, cutOff, disturbed>>

-----------------------------------------------------------------------------
(* The child: container's function, in the directory it has entered *)

\* The interpreter reads a file, by its name in the directory.
Load(j, n) ==
  LET f == disk[dir[j]][n]
  IN  loaded' = [loaded EXCEPT ![j] = @ \cup {[name |-> n, of |-> f.of, whole |-> f.whole]}]

exec_file(j) ==
  /\ Goto(j, "forked", "running")
  /\ Load(j, "main.py")
  /\ UNCHANGED <<archive, dir, done, disk, cutOff, disturbed>>

\* The script imports another file of the archive (PYTHONPATH is ".").
Import(j, n) ==
  /\ stage[j] = "running" /\ n \notin {l.name : l \in loaded[j]}
  /\ Load(j, n)
  /\ UNCHANGED <<stage, archive, dir, done, disk, cutOff, disturbed>>

\* exit(EXIT_SUCCESS), however the script has ended; or a kill.
EndProcess(j) ==
  /\ stage[j] \in {"forked", "running"}
  /\ stage' = [stage EXCEPT ![j] = "over"]
  /\ loaded' = [loaded EXCEPT ![j] = {}]
  /\ UNCHANGED <<archive, dir, done, disk, cutOff, disturbed>>

-----------------------------------------------------------------------------

Next ==
  \E j \in Jobs :
    \/ run_on_path(j)
    \/ CreateFile(j)
    \/ WriteFile(j)
    \/ Abandon(j)
    \/ StartProcess(j)
    \/ exec_file(j)
    \/ \E n \in Names : Import(j, n)
    \/ EndProcess(j)

Spec == Init /\ [][Next]_vars

-----------------------------------------------------------------------------
(* Properties *)

\* Whatever other jobs extract, and wherever agents were killed before, a child
\* reads the files of the archive its own job was given, unless the hash of
\* that archive failed and its directory is everybody's.
OwnFiles ==
  \A j \in Jobs : dir[j] # NoHash => \A l \in loaded[j] : l.of = archive[j]

\* A child reads whole files, even out of a directory that a killed agent has
\* left half full, unless an entry was cut off unsaid, or somebody wrote to the
\* same directory while it was being filled or read.
WholeFiles ==
  \A j \in Jobs \ (cutOff \cup disturbed) : \A l \in loaded[j] : l.whole
=============================================================================
