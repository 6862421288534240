------------------------------ MODULE PipeTalk ------------------------------
(***************************************************************************)
(* A started sub_process with output{PIPE} and error{PIPE}: its owner's    *)
(* read, err_read and wait, against a child that writes to both pipes.     *)
(*                                                                         *)
(* FdPlumbing shows what this takes for granted: each pipe joins the child *)
(* and a member of the owner, which keeps no end to write to; the output   *)
(* has a FILE to read from and the error has none (PipesAreJoined); and    *)
(* another program may hold an end to write to (ProgramsLeakInWindow).     *)
(* Without a FILE nothing drains the pipe of the error.  A chunk is what   *)
(* the child writes with one write; only how many there are matters.       *)
(***************************************************************************)
EXTENDS Integers

CONSTANTS
  Capacity,    \* of a pipe, in chunks
  MaxChunks    \* bound: chunks that the child writes to each pipe

ASSUME PipeTalkAssumption == Capacity \in Nat \ {0} /\ MaxChunks \in Nat

Streams == {"output", "error"}

\* The calls that read: err_read of a vector calls read.
Reads == {"read", "err_read_vector"}

VARIABLES
  child,     \* "thinks", the stream it is writing to, or "ended"
  leaked,    \* another program holds the pipes' ends to write to
  sent,      \* chunks written to each pipe
  pipe,      \* chunks in it
  buffer,    \* chunks in the FILE that the output is read through
  op, size,  \* the call under way, "none" or "crashed", and the chunks it asks for
  short      \* history: the last read returned less than that

vars == <<child, leaked, sent, pipe, buffer, op, size, short>>

Init ==
  /\ child = "thinks" /\ leaked \in BOOLEAN
  /\ sent = [s \in Streams |-> 0]
  /\ pipe = [s \in Streams |-> 0]
  /\ buffer = 0
  /\ op = "none" /\ size = 0 /\ short = FALSE

-----------------------------------------------------------------------------
(* The child, and the program that holds its pipes *)

Choose(s) ==
  /\ child = "thinks" /\ sent[s] < MaxChunks
  /\ child' = s
  /\ UNCHANGED <<leaked, sent, pipe, buffer, op, size, short>>

\* write blocks while the pipe is full, and succeeds while the owner lives.
Write(s) ==
  /\ child = s /\ pipe[s] < Capacity /\ op # "crashed"
  /\ child' = "thinks"
  /\ sent' = [sent EXCEPT ![s] = @ + 1]
  /\ pipe' = [pipe EXCEPT ![s] = @ + 1]
  /\ UNCHANGED <<leaked, buffer, op, size, short>>

End ==
  /\ child = "thinks"
  /\ child' = "ended"
  /\ UNCHANGED <<leaked, sent, pipe, buffer, op, size, short>>

\* By anybody's signal, or by SIGPIPE when the owner is gone.
Killed ==
  /\ child \in Streams
  /\ child' = "ended"
  /\ UNCHANGED <<leaked, sent, pipe, buffer, op, size, short>>

HolderEnds ==
  /\ leaked
  /\ leaked' = FALSE
  /\ UNCHANGED <<child, sent, pipe, buffer, op, size, short>>

-----------------------------------------------------------------------------
(* The owner *)

Begin(o, n) ==
  /\ op = "none"
  /\ op' = o /\ size' = n
  /\ UNCHANGED <<child, leaked, sent, pipe, buffer, short>>

\* err_read of an array is fread from no FILE.  A C library may return 0 from
\* it at once, which is no step here, or crash.
ErrReadCrashes ==
  /\ op = "none"
  /\ op' = "crashed"
  /\ UNCHANGED <<child, leaked, sent, pipe, buffer, size, short>>

\* fread fills the FILE with what is in the pipe, and waits if nothing is.
Fill ==
  /\ op \in Reads /\ buffer < size
  /\ pipe["output"] > 0
  /\ pipe' = [pipe EXCEPT !["output"] = 0]
  /\ buffer' = buffer + pipe["output"]
  /\ UNCHANGED <<child, leaked, sent, op, size, short>>

\* Mutant: the end of file is not looked for.
EndOfFile_Never == FALSE

EndOfFile == pipe["output"] = 0 /\ child = "ended" /\ ~leaked

\* Mutant: what is there is returned, as by read(2).
Enough_Some == buffer > 0 \/ EndOfFile

Enough == buffer >= size \/ EndOfFile

Left == IF buffer < size THEN 0 ELSE buffer - size

ReadReturns ==
  /\ op \in Reads /\ Enough
  /\ buffer' = Left
  /\ short' = (buffer < size)
  /\ op' = "none" /\ size' = 0
  /\ UNCHANGED <<child, leaked, sent, pipe>>

\* Mutant: the output is read to its end before the status is asked for.
Reapable_WhenRead == child = "ended" /\ pipe["output"] = 0

Reapable == child = "ended"

\* wait_for_child_exit spins until waitpid has a status, or no child.
WaitReturns ==
  /\ op = "wait" /\ Reapable
  /\ op' = "none"
  /\ UNCHANGED <<child, leaked, sent, pipe, buffer, size, short>>

-----------------------------------------------------------------------------

ChildStep == End \/ \E s \in Streams : Choose(s) \/ Write(s)

OwnerStep == Fill \/ ReadReturns \/ WaitReturns

Environment ==
  \/ Killed
  \/ HolderEnds
  \/ ErrReadCrashes
  \/ Begin("wait", 0)
  \/ \E o \in Reads, n \in 1 .. MaxChunks + 1 : Begin(o, n)

Next == ChildStep \/ OwnerStep \/ Environment

\* The owner runs, and the kernel completes a write that has room.  Nothing
\* makes the owner call, or the child write, end or be killed: it may think for
\* ever.
Spec ==
  /\ Init /\ [][Next]_vars
  /\ WF_vars(OwnerStep)
  /\ \A s \in Streams : WF_vars(Write(s))

-----------------------------------------------------------------------------
(* Properties *)

\* A read that returned less than it was asked for has come to the end of the
\* output: the child is over and all that it wrote there has been handed out.
ShortMeansEnd == short => child = "ended" /\ pipe["output"] = 0 /\ buffer = 0

\* A read, err_read of a vector among them, hangs for ever only next to a child
\* that goes on without a word, or that hangs on the pipe of the error, which is
\* full and read by nobody, or because another program holds the output open.
ReadsEnd ==
  <>[](op \in Reads) =>
    <>[](\/ leaked
         \/ child = "thinks"
         \/ child = "error" /\ pipe["error"] = Capacity)

\* wait hangs for ever only if the child goes on, or hangs on a full pipe: who
\* waits before having read the output can wait for ever.
WaitEnds ==
  <>[](op = "wait") =>
    <>[](child = "thinks" \/ (child \in Streams /\ pipe[child] = Capacity))
=============================================================================
