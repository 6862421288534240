------------------------------- MODULE Archive -------------------------------
(***************************************************************************)
(* utils/archive_decompress over a libarchive that may answer every call   *)
(* with any of its codes.                                                  *)
(*                                                                         *)
(* Of an archive only the sizes of its entries, as their headers give      *)
(* them, matter.  libarchive is outside the repository; assumed of it: a   *)
(* read handle that has failed fatally keeps failing so, and the data of   *)
(* an entry are not longer than its header says.  They may be shorter.     *)
(* One object is modelled, from its constructor to its end; its pc is      *)
(*   "new"     in the constructor, _archive allocated                      *)
(*   "ready"   between two calls                                           *)
(*   "header"  in an extract_next, about to read the next header           *)
(*   "copy"    in copy_data                                                *)
(*   "read"    in the read loop of the extract_next that returns a vector  *)
(*   "thrown"  the constructor has thrown, there is no object              *)
(*   "gone"    the object is destroyed                                     *)
(***************************************************************************)
EXTENDS Integers, Sequences

CONSTANT Sizes   \* the size of each entry, in blocks

ASSUME SizesAssumption == Sizes \in Seq(Nat)

Bad == {"RETRY", "FAILED", "FATAL"}
Unextracted == -1

VARIABLES
  pc,
  op,         \* "none", "next", "all" (extract_to_directory) or "vector"
  result,     \* of the last call: "none", "entry", "end" or "error"
  process,    \* "up", or "terminated" by undefined behaviour
  open,       \* _open
  frees,      \* how often _archive was freed
  writer,     \* an archive_write_disk handle exists
  fatal,      \* _archive has failed fatally
  failed,     \* history: some call has thrown
  count,      \* how many entries the reader was given
  entry,      \* the entry whose header was read last
  moved,      \* the blocks of it copied or read so far
  extracted,  \* history: blocks of each entry when it was reported extracted
  warned,     \* history: the entries during whose data a WARN came back
  short,      \* history: the entries whose data ended before the header's size
  unfinished  \* history: the entries that archive_write_finish_entry failed on

flaws == <<warned, short, unfinished>>
handle == <<open, frees, fatal, failed>>
vars == <<pc, op, result, process, handle, writer, count, entry, moved,
          extracted, flaws>>

Entries == 1 .. Len(Sizes)

Init ==
  /\ pc = "new" /\ op = "none" /\ result = "none" /\ process = "up"
  /\ open = TRUE /\ frees = 0 /\ writer = FALSE
  /\ fatal = FALSE /\ failed = FALSE
  /\ count \in {0, Len(Sizes)}
  /\ entry = 0 /\ moved = 0
  /\ extracted = [e \in Entries |-> Unextracted]
  /\ warned = {} /\ short = {} /\ unfinished = {}

-----------------------------------------------------------------------------
(* Constructors, destructor *)

\* Mutant: the flag is cleared and the handle forgotten.
close_Nothing ==
  /\ open' = FALSE
  /\ UNCHANGED frees

close ==
  /\ frees' = IF open THEN frees + 1 ELSE frees
  /\ open' = FALSE

\* stat fails; the members go, but _archive is a plain pointer.
StatFails ==
  /\ pc = "new"
  /\ pc' = "thrown"
  /\ UNCHANGED <<op, result, process, handle, writer, count, entry, moved,
                 extracted, flaws>>

\* The calls of init and the open, checked with close_before_throw.  The vector
\* constructor opens the buffer it has just moved from: no entries (see Init).
Open ==
  /\ pc = "new"
  /\ \/ pc' = "ready" /\ UNCHANGED handle
     \/ pc' = "thrown" /\ close /\ fatal' = TRUE /\ failed' = TRUE
     \/ pc' = "thrown" /\ failed' = TRUE /\ UNCHANGED <<open, frees, fatal>>
  /\ UNCHANGED <<op, result, process, writer, count, entry, moved, extracted, flaws>>

\* The explicit destructor, or the unwinding after an exception.
Destroy ==
  /\ pc = "ready"
  /\ pc' = "gone"
  /\ close
  /\ UNCHANGED <<op, result, process, fatal, failed, writer, count, entry,
                 moved, extracted, flaws>>

-----------------------------------------------------------------------------
(* How a call ends *)

\* The scope exit has closed and freed the writer.
Return(r) ==
  /\ pc' = "ready" /\ op' = "none" /\ result' = r
  /\ writer' = FALSE

\* check_error with a code of _archive: its text is thrown.
ReadError(code) ==
  /\ code \in Bad /\ (fatal => code = "FATAL")
  /\ failed' = TRUE
  /\ fatal' = (code = "FATAL")
  /\ Return("error")
  /\ UNCHANGED <<process, open, frees, extracted, unfinished>>

\* check_error with a code of the writer asks _archive for the text: it is that
\* of an older error, or there is none and a null pointer is made a string.
WriteError ==
  /\ failed' = TRUE
  /\ process' \in {"up", "terminated"}
  /\ Return("error")
  /\ UNCHANGED <<open, frees, fatal, extracted, unfinished>>

\* On disk the scope exit calls archive_write_finish_entry, and drops its code:
\* where it fails, less may be there than was written.
Finish(e, blocks) ==
  \/ /\ extracted' = [extracted EXCEPT ![e] = blocks]
     /\ UNCHANGED unfinished
  \/ /\ op # "vector"
     /\ \E there \in 0 .. blocks : extracted' = [extracted EXCEPT ![e] = there]
     /\ unfinished' = unfinished \cup {e}

\* The call has the entry: extract_to_directory goes on, the others return.
EntryDone(e, blocks) ==
  /\ Finish(e, blocks)
  /\ IF op = "all"
       THEN pc' = "header" /\ UNCHANGED <<op, result, writer>>
       ELSE Return("entry")
  /\ UNCHANGED <<process, handle>>

-----------------------------------------------------------------------------
(* The calls *)

Begin(o) ==
  /\ pc = "ready"
  /\ op' = o
  /\ pc' = "header"
  /\ result' = "none"
  /\ writer' = (o # "vector")
  /\ UNCHANGED <<process, handle, count, entry, moved, extracted, flaws>>

HeaderEof ==
  /\ pc = "header" /\ entry = count /\ ~fatal
  /\ Return("end")
  /\ UNCHANGED <<process, handle, count, entry, moved, extracted, flaws>>

HeaderError ==
  /\ pc = "header"
  /\ \E code \in Bad : ReadError(code)
  /\ UNCHANGED <<count, entry, moved, warned, short>>

\* OK or WARN; then, on disk, the header is written, and checked likewise.
Header ==
  /\ pc = "header" /\ entry < count /\ ~fatal
  /\ entry' = entry + 1
  /\ moved' = 0
  /\ \/ op # "vector" /\ WriteError
     \/ Sizes[entry'] = 0 /\ EntryDone(entry', 0)
     \/ /\ Sizes[entry'] > 0
        /\ pc' = IF op = "vector" THEN "read" ELSE "copy"
        /\ UNCHANGED <<op, result, process, handle, writer, extracted, unfinished>>
  /\ UNCHANGED <<count, warned, short>>

\* The data of the entry are over.
DataEnd == short' = IF moved < Sizes[entry] THEN short \cup {entry} ELSE short

\* A block is read and written.
CopyBlock ==
  /\ pc = "copy" /\ moved < Sizes[entry] /\ ~fatal
  /\ moved' = moved + 1
  /\ UNCHANGED <<pc, op, result, process, handle, writer, count, entry,
                 extracted, flaws>>

\* Mutant: the caller takes the end of the data for the end of the archive.
CopyEnds_SkipsNext ==
  /\ pc = "copy" /\ ~fatal
  /\ extracted' = [extracted EXCEPT ![entry] = moved]
  /\ Return("end")
  /\ DataEnd
  /\ UNCHANGED <<process, handle, count, entry, moved, warned, unfinished>>

\* ARCHIVE_EOF, whatever was copied: copy_data returns ARCHIVE_OK.
CopyEnds ==
  /\ pc = "copy" /\ ~fatal
  /\ EntryDone(entry, moved)
  /\ DataEnd
  /\ UNCHANGED <<count, entry, moved, warned>>

\* A WARN of either handle ends copy_data, and check_error lets it pass.
CopyWarns ==
  /\ pc = "copy" /\ ~fatal
  /\ EntryDone(entry, moved)
  /\ warned' = warned \cup {entry}
  /\ UNCHANGED <<count, entry, moved, short>>

CopyFails ==
  /\ pc = "copy"
  /\ (\E code \in Bad : ReadError(code)) \/ WriteError
  /\ UNCHANGED <<count, entry, moved, warned, short>>

\* Mutant: the loop stops after the first read that returned something.
Full_Once == TRUE

Full == moved' = Sizes[entry]

\* archive_read_data fills a part of the vector; the loop ends when it is full.
ReadSome ==
  /\ pc = "read" /\ moved < Sizes[entry] /\ ~fatal
  /\ \E n \in 1 .. Sizes[entry] - moved :
       /\ moved' = moved + n
       /\ IF Full
            THEN EntryDone(entry, moved')
            ELSE UNCHANGED <<pc, op, result, process, handle, writer, extracted, unfinished>>
  /\ UNCHANGED <<count, entry, warned, short>>

\* archive_read_data has nothing more: the loop ends on 0, and the entry is
\* returned with the rest of its vector zero.
ReadEnds ==
  /\ pc = "read" /\ ~fatal
  /\ EntryDone(entry, moved)
  /\ DataEnd
  /\ UNCHANGED <<count, entry, moved, warned>>

\* WARN passes check_error and its value, which is negative, is added to
\* read_index: the next read goes outside the vector.
ReadWarns ==
  /\ pc = "read" /\ ~fatal
  /\ warned' = warned \cup {entry}
  /\ \/ process' = "terminated"
        /\ UNCHANGED <<pc, op, result, handle, writer, extracted, unfinished>>
     \/ EntryDone(entry, moved)
  /\ UNCHANGED <<count, entry, moved, short>>

ReadFails ==
  /\ pc = "read"
  /\ \E code \in Bad : ReadError(code)
  /\ UNCHANGED <<count, entry, moved, warned, short>>

-----------------------------------------------------------------------------

\* The steps of a call under way.
Step ==
  /\ process = "up"
  /\ \/ HeaderEof
     \/ HeaderError
     \/ Header
     \/ CopyBlock
     \/ CopyEnds
     \/ CopyWarns
     \/ CopyFails
     \/ ReadSome
     \/ ReadEnds
     \/ ReadWarns
     \/ ReadFails

\* What the owner of the object does between two calls.
Client ==
  /\ process = "up"
  /\ \/ StatFails
     \/ Open
     \/ Destroy
     \/ \E o \in {"next", "all", "vector"} : Begin(o)

Next == Step \/ Client

Spec == Init /\ [][Next]_vars

\* A call under way goes on; nothing makes the owner call, or destroy.
FairSpec == Spec /\ WF_vars(Step)

-----------------------------------------------------------------------------
(* Properties *)

\* An entry that a call reported as extracted is there from its first block to
\* its last, unless libarchive said otherwise in a way the code passes over: a
\* WARN in the middle of its data, data that end before the size of the header
\* is reached, or a failing archive_write_finish_entry.  However often a read
\* returns a part only, the code itself leaves nothing out.
WholeUnlessWarned ==
  \A e \in Entries :
    extracted[e] # Unextracted =>
      extracted[e] = Sizes[e] \/ e \in warned \cup short \cup unfinished

\* The read handle is freed once, not twice, and lives as long as the object;
\* only a constructor that throws can leave it behind.  The writer is freed however
\* a call ends.
HandleFreedOnce ==
  /\ frees <= 1
  /\ pc \in {"ready", "header", "copy", "read"} => frees = 0
  /\ pc = "gone" => frees = 1
  /\ pc = "thrown" /\ fatal => frees = 1
  /\ writer <=> op \in {"next", "all"}

-----------------------------------------------------------------------------
(* What callers rely on *)

State ==
  CASE process = "terminated" \/ pc \in {"thrown", "gone"} -> "over"
    [] pc = "new" -> "new"
    [] pc = "ready" -> "idle"
    [] OTHER -> op

\* An entry whose data are still being moved is not consumed yet.
Consumed == IF pc \in {"copy", "read"} THEN entry - 1 ELSE entry
Given == {e \in Entries : extracted[e] # Unextracted}

Promised == INSTANCE Extraction WITH
  state <- State, consumed <- Consumed, given <- Given

\* archive_decompress is an Extraction: entries come in their order and never
\* twice, the end is told only after the last, a failed call loses one entry at
\* most (ImplementsExtraction); and the loops over entries and over blocks end.
ImplementsExtraction == Promised!Spec
ImplementsFairExtraction == Promised!FairSpec
=============================================================================
