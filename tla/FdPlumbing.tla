----------------------------- MODULE FdPlumbing -----------------------------
(***************************************************************************)
(* The descriptors of utils/sub_process: the options that open pipes and   *)
(* files, the two ends of the bridge, fork, and what execute_child leaves  *)
(* the child with.                                                         *)
(*                                                                         *)
(* Each object is constructed by a thread of its own and started once.     *)
(* The threads share the descriptor table of the process, and a fork by    *)
(* one of them copies all of it.                                           *)
(***************************************************************************)
EXTENDS Integers, Sequences, FiniteSets, FiniteSetsExt

CONSTANTS
  Objects,      \* the sub_process objects, and the child of each
  Programs,     \* those that exec a program; the others run exe_func
  Closers,      \* those with close_fds{true}
  Parent,
  Nothing,      \* a descriptor that is not open
  MaxFd,        \* bound: descriptors of a process
  MaxOptions    \* bound: options that open something, for each object

ASSUME FdPlumbingAssumption ==
  /\ IsFiniteSet(Objects) /\ Parent \notin Objects
  /\ Programs \subseteq Objects /\ Closers \subseteq Objects
  /\ MaxFd \in Nat /\ MaxFd >= 2
  /\ MaxOptions \in [Objects -> Nat]

Streams == {"input", "output", "error"}
Std == [input |-> 0, output |-> 1, error |-> 2]
NoFd == -1
Fds == 0 .. MaxFd
Processes == Objects \cup {Parent}

\* The members of a bridge: first is the ParentEnd and second the ChildEnd.
Slots == {"first", "second"} \X Streams
EmptyBridge == [slot \in Slots |-> NoFd]
FirstSlots == {"first"} \X Streams

\* Mutant: close_fds leaves the error descriptor alone.
SecondSlots_NoError == {"second"} \X {"input", "output"}

SecondSlots == {"second"} \X Streams

VARIABLES
  fds,        \* the descriptor table of each process
  bridge,     \* the objects' bridges in the parent
  inherited,  \* the copy of its bridge that a child works on
  fresh,      \* what the option being set has opened: its stream and descriptors
  asked,      \* history: the option that gave a stream its descriptor, or 0
  options,    \* history: options set so far
  pc,         \* where the object's thread is
  child,      \* where its child is
  window      \* history: what was yet to be marked when the child was forked

vars == <<fds, bridge, inherited, fresh, asked, options, pc, child, window>>

\* What descriptors refer to: option n of an object opened it.
Ref(o, n, end) == [by |-> o, n |-> n, end |-> end]
Refs == [by : Processes, n : Nat, end : {"r", "w", "file", "std"}]
Entries == [ref : Refs, cloexec : BOOLEAN]

ASSUME NothingAssumption == Nothing \notin Entries

Inherit(f) == [ref |-> Ref(Parent, f, "std"), cloexec |-> FALSE]
NoOption == [stream |-> Nothing, open |-> <<>>]

\* The process is started with the three standard streams open.
Init ==
  /\ fds = [p \in Processes |->
              [f \in Fds |-> IF p = Parent /\ f < 3 THEN Inherit(f) ELSE Nothing]]
  /\ bridge = [o \in Objects |-> EmptyBridge]
  /\ inherited = [o \in Objects |-> EmptyBridge]
  /\ fresh = [o \in Objects |-> NoOption]
  /\ asked = [o \in Objects |-> [s \in Streams |-> 0]]
  /\ options = [o \in Objects |-> 0]
  /\ pc = [o \in Objects |-> "options"]
  /\ child = [o \in Objects |-> "none"]
  /\ window = [o \in Objects |-> {}]

-----------------------------------------------------------------------------
(* Descriptor tables *)

OpenIn(table) == {f \in Fds : table[f] # Nothing}

\* The table without the descriptors of set; closing NoFd is not attempted.
Close(table, set) == [f \in Fds |-> IF f \in set THEN Nothing ELSE table[f]]

\* A descriptor made by dup2 has no close-on-exec, but dup2(f, f) does nothing.
Dup2(table, from, to) ==
  IF from \in {NoFd, to} THEN table
  ELSE [table EXCEPT ![to] =
          IF table[from] = Nothing THEN @ ELSE [table[from] EXCEPT !.cloexec = FALSE]]

\* The descriptors behind some slots of a bridge.
Behind(b, slots) == {b[slot] : slot \in slots}

\* Mutant: the descriptors are closed and the members keep their numbers.
Cleared_Not(b, slots) == b

\* close_fds closes descriptors, and forgets them.
Cleared(b, slots) == [slot \in Slots |-> IF slot \in slots THEN NoFd ELSE b[slot]]

-----------------------------------------------------------------------------
(* The options of the constructor *)

\* Mutant: the next option is set while the last one is being marked.
MaySet_WhileMarking(o) == options[o] < MaxOptions[o]

MaySet(o) == pc[o] = "options" /\ options[o] < MaxOptions[o]

\* The kernel hands out the lowest descriptors that are free.
Opens(o, s, refs) ==
  LET free == Fds \ OpenIn(fds[Parent])
      low == Min(free)
      next == Min(free \ {low})
      numbers == IF Len(refs) = 1 THEN <<low>> ELSE <<low, next>>
  IN  /\ Cardinality(free) >= Len(refs)
      /\ fds' = [fds EXCEPT ![Parent] = [f \in Fds |->
                   IF \E i \in DOMAIN refs : numbers[i] = f
                     THEN [ref |-> refs[CHOOSE i \in DOMAIN refs : numbers[i] = f],
                           cloexec |-> FALSE]
                     ELSE @[f]]]
      /\ fresh' = [fresh EXCEPT ![o] = [stream |-> s, open |-> numbers]]
      /\ options' = [options EXCEPT ![o] = @ + 1]
      /\ pc' = [pc EXCEPT ![o] = "marking"]
      /\ UNCHANGED <<bridge, inherited, asked, child, window>>

\* PIPE: pipe() without close-on-exec, the end to read from first.
pipe_cloexec(o, s) ==
  /\ MaySet(o)
  /\ Opens(o, s, <<Ref(o, options[o] + 1, "r"), Ref(o, options[o] + 1, "w")>>)

\* FILE_PATH: open() for reading, whatever the stream.
OpenFile(o, s) ==
  /\ MaySet(o)
  /\ Opens(o, s, <<Ref(o, options[o] + 1, "file")>>)

\* pipe() or open() fails, and the constructor throws: there is no destructor
\* to close what earlier options have opened.
OpenFails(o) ==
  /\ MaySet(o)
  /\ pc' = [pc EXCEPT ![o] = "thrown"]
  /\ UNCHANGED <<fds, bridge, inherited, fresh, asked, options, child, window>>

\* output{STDIN} and error{STDIN}: the assertion lets them pass, set_option
\* throws.  input{STDIN} changes nothing.
Unsupported(o) ==
  /\ MaySet(o)
  /\ pc' = [pc EXCEPT ![o] = "unsupported"]
  /\ UNCHANGED <<fds, bridge, inherited, fresh, asked, options, child, window>>

\* Mutant: only the first descriptor of a pipe is marked.
Unmarked_First(o) ==
  {i \in DOMAIN fresh[o].open : i = 1 /\ ~fds[Parent][fresh[o].open[i]].cloexec}

Unmarked(o) ==
  {i \in DOMAIN fresh[o].open : ~fds[Parent][fresh[o].open[i]].cloexec}

set_clo_on_exec(o) ==
  /\ pc[o] = "marking" /\ Unmarked(o) # {}
  /\ fds' = [fds EXCEPT ![Parent][fresh[o].open[Min(Unmarked(o))]].cloexec = TRUE]
  /\ UNCHANGED <<bridge, inherited, fresh, asked, options, pc, child, window>>

\* The parent reads what the child writes, and the other way round.
Peer == [input |-> "output", output |-> "input", error |-> "error"]

\* Where set_option puts what it opened: of a pipe the first goes to the
\* parent and the second to the child.  For input, too: there the parent gets
\* the end to read from and the child's stdin the end to write to.
Targets(o) ==
  LET s == fresh[o].stream
      open == fresh[o].open
  IN  IF Len(open) = 1
        THEN [slot \in {<<"second", s>>} |-> open[1]]
        ELSE [slot \in {<<"first", Peer[s]>>, <<"second", s>>} |->
                IF slot[1] = "first" THEN open[1] ELSE open[2]]

\* Mutant: what a member held before is not closed.
Replaced_None(o) == {}

Replaced(o) == Behind(bridge[o], DOMAIN Targets(o))

\* fdopen: "rb" for the member input and "wb" for output and error, whatever the
\* descriptor was opened for.
Modes == [input |-> {"r", "file"}, output |-> {"w"}, error |-> {"w"}]

\* The member has a FILE, and not the NULL of an fdopen whose mode did not fit.
\* Its number is closed either way.
HasFile(o, slot) ==
  bridge[o][slot] # NoFd /\ fds[Parent][bridge[o][slot]].ref.end \in Modes[slot[2]]

\* BaseEed::input, output and error: what the member held is closed.
Attach(o) ==
  /\ pc[o] = "marking" /\ Unmarked(o) = {}
  /\ bridge' = [bridge EXCEPT ![o] =
       [slot \in Slots |-> IF slot \in DOMAIN Targets(o) THEN Targets(o)[slot] ELSE @[slot]]]
  /\ fds' = [fds EXCEPT ![Parent] = Close(@, Replaced(o))]
  /\ asked' = [asked EXCEPT ![o][fresh[o].stream] = options[o]]
  /\ fresh' = [fresh EXCEPT ![o] = NoOption]
  /\ pc' = [pc EXCEPT ![o] = "options"]
  /\ UNCHANGED <<inherited, options, child, window>>

-----------------------------------------------------------------------------
(* execute_process *)

fork(o) ==
  /\ pc[o] = "options"
  /\ pc' = [pc EXCEPT ![o] = "forked"]
  /\ child' = [child EXCEPT ![o] = "born"]
  /\ fds' = [fds EXCEPT ![o] = fds[Parent]]
  /\ inherited' = [inherited EXCEPT ![o] = bridge[o]]
  /\ window' = [window EXCEPT ![o] =
       {fds[Parent][f].ref :
          f \in UNION {{fresh[x].open[i] : i \in Unmarked(x)} : x \in Objects}}]
  /\ UNCHANGED <<bridge, fresh, asked, options>>

ForkFails(o) ==
  /\ pc[o] = "options"
  /\ pc' = [pc EXCEPT ![o] = "thrown"]
  /\ UNCHANGED <<fds, bridge, inherited, fresh, asked, options, child, window>>

\* bridge.second.close_fds(), in the parent.
ParentCloses(o) ==
  /\ pc[o] = "forked"
  /\ fds' = [fds EXCEPT ![Parent] = Close(@, Behind(bridge[o], SecondSlots))]
  /\ bridge' = [bridge EXCEPT ![o] = Cleared(@, SecondSlots)]
  /\ pc' = [pc EXCEPT ![o] = "started"]
  /\ UNCHANGED <<inherited, fresh, asked, options, child, window>>

-----------------------------------------------------------------------------
(* execute_child *)

\* The three calls of dup2, in their order.
Redirected(table, b) ==
  LET in == Dup2(table, b[<<"second", "input">>], Std.input)
      out == Dup2(in, b[<<"second", "output">>], Std.output)
  IN  Dup2(out, b[<<"second", "error">>], Std.error)

\* Mutant: the child's end is closed before its streams are made of it.
Arranged_CloseFirst(o, loop) ==
  Redirected(Close(fds[o], Behind(inherited[o], Slots)), inherited[o])

\* The child's table after the dup2 and close calls, the loop of close_fds among
\* them if it runs.
Arranged(o, loop) ==
  LET alone == Close(fds[o], Behind(inherited[o], FirstSlots))
      own == Close(Redirected(alone, inherited[o]), Behind(inherited[o], SecondSlots))
  IN  Close(own, IF loop THEN Fds \ (0 .. 2) ELSE {})

Arrange(o) ==
  /\ child[o] = "born"
  /\ fds' = [fds EXCEPT ![o] = Arranged(o, o \in Closers)]
  /\ inherited' = [inherited EXCEPT ![o] = EmptyBridge]
  /\ child' = [child EXCEPT ![o] = "ready"]
  /\ UNCHANGED <<bridge, fresh, asked, options, pc, window>>

\* sysconf does not know the number of descriptors: the loop is not run, and the
\* OSError takes the child out of execute_process with everything open.
SysconfFails(o) ==
  /\ child[o] = "born" /\ o \in Closers
  /\ fds' = [fds EXCEPT ![o] = Arranged(o, FALSE)]
  /\ inherited' = [inherited EXCEPT ![o] = EmptyBridge]
  /\ child' = [child EXCEPT ![o] = "strayed"]
  /\ UNCHANGED <<bridge, fresh, asked, options, pc, window>>

execvp(o) ==
  /\ child[o] = "ready" /\ o \in Programs
  /\ fds' = [fds EXCEPT ![o] = Close(@, {f \in OpenIn(@) : @[f].cloexec})]
  /\ child' = [child EXCEPT ![o] = "program"]
  /\ UNCHANGED <<bridge, inherited, fresh, asked, options, pc, window>>

exe_func(o) ==
  /\ child[o] = "ready" /\ o \notin Programs
  /\ child' = [child EXCEPT ![o] = "function"]
  /\ UNCHANGED <<fds, bridge, inherited, fresh, asked, options, pc, window>>

\* chdir, setsid, execvp or the function throws OSError: it leaves
\* execute_process in the child, which goes on as a second parent.
Strays(o) ==
  /\ child[o] \in {"ready", "function"}
  /\ child' = [child EXCEPT ![o] = "strayed"]
  /\ UNCHANGED <<fds, bridge, inherited, fresh, asked, options, pc, window>>

\* A child ends, or is killed at any time.
Exit(o) ==
  /\ child[o] \notin {"none", "ended"}
  /\ fds' = [fds EXCEPT ![o] = Close(@, Fds)]
  /\ inherited' = [inherited EXCEPT ![o] = EmptyBridge]
  /\ child' = [child EXCEPT ![o] = "ended"]
  /\ UNCHANGED <<bridge, fresh, asked, options, pc, window>>

-----------------------------------------------------------------------------

Next ==
  \E o \in Objects :
    \/ \E s \in Streams : pipe_cloexec(o, s) \/ OpenFile(o, s)
    \/ OpenFails(o)
    \/ Unsupported(o)
    \/ set_clo_on_exec(o)
    \/ Attach(o)
    \/ fork(o)
    \/ ForkFails(o)
    \/ ParentCloses(o)
    \/ Arrange(o)
    \/ SysconfFails(o)
    \/ execvp(o)
    \/ exe_func(o)
    \/ Strays(o)
    \/ Exit(o)

Spec == Init /\ [][Next]_vars

-----------------------------------------------------------------------------
(* Properties *)

\* Every variable stays in its range, and children that do not run hold nothing.
TypeOK ==
  /\ fds \in [Processes -> [Fds -> Entries \cup {Nothing}]]
  /\ bridge \in [Objects -> [Slots -> Fds \cup {NoFd}]]
  /\ inherited \in [Objects -> [Slots -> Fds \cup {NoFd}]]
  /\ fresh \in [Objects -> [stream : Streams \cup {Nothing}, open : Seq(Fds)]]
  /\ asked \in [Objects -> [Streams -> Nat]]
  /\ options \in [Objects -> Nat]
  /\ \A o \in Objects :
       options[o] <= MaxOptions[o] /\ \A s \in Streams : asked[o][s] <= options[o]
  /\ pc \in [Objects -> {"options", "marking", "forked", "started", "thrown", "unsupported"}]
  /\ child \in [Objects -> {"none", "born", "ready", "program", "function", "strayed", "ended"}]
  /\ window \in [Objects -> SUBSET Refs]
  /\ \A o \in Objects : fresh[o].open = <<>> <=> pc[o] # "marking"
  /\ \A o \in Objects : child[o] \in {"none", "ended"} => OpenIn(fds[o]) = {}

\* Who in the parent believes to own descriptor f.
Owners(f) ==
  {own \in Objects \X Slots : bridge[own[1]][own[2]] = f} \cup
  {own \in Objects \X ({"fresh"} \X {1, 2}) :
     LET i == own[2][2]
     IN  i \in DOMAIN fresh[own[1]].open /\ fresh[own[1]].open[i] = f}

\* Whatever the threads open, replace and close, each descriptor of the parent
\* has one owner, so that none is closed twice, and none is without one as long
\* as the objects live.
OneOwner ==
  \A f \in Fds \ (0 .. 2) :
    Cardinality(Owners(f)) = IF fds[Parent][f] = Nothing THEN 0 ELSE 1

\* A descriptor number in a bridge never comes to mean another file because
\* somebody closed it and the kernel gave it out again.
NumbersStayTrue ==
  [][\A o \in Objects, slot \in Slots :
       LET f == bridge[o][slot]
       IN  f # NoFd /\ bridge'[o][slot] = f => fds'[Parent][f] = fds[Parent][f]]_vars

\* A child gets the streams that the last option for each of them opened, and
\* the parent's own for the others: neither the order of the dup2 and close
\* calls nor a replaced option mixes them up.  For output and error a pipe is
\* the end to write to.
StreamsAsAsked ==
  \A o \in Objects, s \in Streams :
    child[o] \in {"ready", "program", "function", "strayed"} =>
      /\ fds[o][Std[s]] # Nothing
      /\ LET ref == fds[o][Std[s]].ref
         IN  IF asked[o][s] = 0 THEN ref = Inherit(Std[s]).ref
             ELSE /\ ref.by = o /\ ref.n = asked[o][s]
                  /\ s # "input" => ref.end \in {"w", "file"}

\* The input option names what pipe_cloexec gives it p_w and c_r, for the parent
\* to write and the child to read: what a child has as stdin can be read.
InputPipesAreReadable ==
  \A o \in Objects :
    child[o] \in {"ready", "program", "function", "strayed"} /\ asked[o].input # 0 =>
      fds[o][Std.input].ref.end \in {"r", "file"}

\* A child that writes to a pipe has a parent that holds the other end of that
\* very pipe; of the output in a FILE to read from, while that of the error has
\* no FILE and nothing can read it.  And the parent never stands in the way of
\* the end of file: once the object is started it holds nothing of its pipes but
\* those ends.
PipesAreJoined ==
  /\ \A o \in Objects, s \in {"output", "error"} :
       LET mine == fds[o][Std[s]]
           end == <<"first", Peer[s]>>
           f == bridge[o][end]
       IN  mine # Nothing /\ child[o] # "born" /\ mine.ref.end = "w" =>
             /\ f # NoFd /\ fds[Parent][f].ref = Ref(o, asked[o][s], "r")
             /\ HasFile(o, end) <=> s = "output"
  /\ \A o \in Objects, f \in Fds :
       pc[o] = "started" /\ fds[Parent][f] # Nothing /\ fds[Parent][f].ref.by = o =>
         fds[Parent][f].ref.end = "r"

\* A program holds pipes and files of other objects only if it was forked in
\* between their opening and their marking.
ProgramsLeakInWindow ==
  \A o \in Objects, f \in Fds \ (0 .. 2) :
    child[o] = "program" /\ fds[o][f] # Nothing => fds[o][f].ref \in window[o]

=============================================================================
