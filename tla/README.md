# TLA+ project for scriptbaby-agent (pongo agent)

The agent is a C++ program that connects to a manager over zRPC, authenticates, reports the
machine's status once a second and asks for pending tasks. Beside that it has the parts that
will run a task: unpack an archive, start a child process, run a Python script in it.
This directory models those parts in TLA+, checks the models with TLC on small instances and
proves theorems about them with TLAPS.

## Inventory

| Part | State | Operations | What is hard | Correct when |
|---|---|---|---|---|
| `utils/thread_pool.h` | task queue, `running_`, mutex, condition variable, threads | constructor, `run_task`, `pool_main`, destructor | wake-ups, unlocked read of `running_`, join, exceptions | tasks start once, in order, while a worker is free; shutdown neither hangs nor starts more |
| `pongo_connect` | zRPC context, client, caller; a pool | `connect_to_manager`, `main_loop`, channel callbacks | callbacks come from zRPC's thread; activations pile up; destruction joins endless tasks | one useful run per live channel |
| `pongo_protocol` | `key`, `session`, `caller`, `client` | `main_loop`, `auth`, `report_system_status`, `get_pending_tasks`, stubs | several runs share `session` and the caller's results; no timeout, no correlation of calls | a run uses its own answers and session, and goes on |
| `main.cpp` | – | options, start, shutdown | order of destruction | leaves only when nobody runs |
| `utils/sub_process`: children | `child_pid`, `is_child_created`, `ret_code`; the kernel's table | `start_process`, `wait`, `poll`, `kill` | pids are reused, -1 means everybody, two reapers | a caller learns how its own child ended |
| `utils/sub_process`: descriptors | two ends with descriptors and `FILE*`s | options, `execute_child`, read/write | ends swapped, inherited ends, buffer arithmetic | parent and child hold matching ends |
| `utils/archive_decompress` | read handle, `_open` | constructors, `extract_next` (two), `extract_to_directory`, `close` | every libarchive call can fail or warn | an entry reported is an entry extracted; handles are freed once |
| `python_interpreter`, `python_container` | list of tasks, one process pointer | `run_on_path`, `run` | directories shared by equal archives, children never waited for | a task's files are its own |
| `utils/hash_tools` | – | `file_hash_values` | every failure is `""` | different files get different names |
| `utils/crow` | counters of the last sample | `collection` | 64-bit arithmetic, unread results | percentages in range |
| `utils/singleton.h` | instance, `is_destructed` | `get_instance` | destruction at exit | no use after destruction |
| `tests/ab_log.py` | one memory handler per decorator | decorator, `LoggingContext` | nested and concurrent calls | errors are logged with their context |
| `py_object/` | – | export tables, stubs | – | – |
| zRPC, the manager | outside the repository (empty submodule) | | | |

How they interact: `main` creates the protocol singleton and one `pongo_connect`. zRPC calls
`connect_callback` on the dispatching thread for each activation of the channel;
the callback pushes `pongo_protocol::main_loop` onto the connection's pool (call plus shared
state). Runs of `main_loop` block in zRPC until the dispatching thread has delivered
results. `delete connect` destroys the pool, which joins its threads. `python_interpreter` uses
`hash_tools`, `archive_decompress` and `python_container`, which uses `sub_process`; `main`
includes it and does not call it.

The hazards, with the lines where they bite and the properties that watch them, are listed in
`PROJECT.json`.

## Modules

| Module | Models | Role |
|---|---|---|
| `TaskPool` | what `thread_pool` promises | abstract specification: submit, start, finish, leave, close |
| `ThreadPool` | `utils/thread_pool.h` | detailed specification, one action per critical section; implements `TaskPool` with `open <- running` and, as its staff, the workers that have not exited |
| `Agent` | `main.cpp`, `pongo_connect`, `pongo_protocol` | composed on `TaskPool` by INSTANCE; zRPC and the manager are external definitions |
| `Extraction` | what `archive_decompress` promises | abstract specification: construct, begin, give, end, fail, destroy |
| `Interpreter` | `python_interpreter`, `python_container::run`, `hash_tools` | several calls of `run_on_path` over one temporary directory |
| `Crow` | `utils/crow` | one crow against the kernel's counters |
| `PipeTalk` | reading and waiting of `utils/sub_process` | one started object against a child with two pipes |
| `SubProcess` | forking, `wait`, `poll`, `kill` of `utils/sub_process` | several objects over one table of children |
| `FdPlumbing` | options, pipes, fork and `execute_child` of `utils/sub_process` | several threads over one table of descriptors |
| `Archive` | `utils/archive_decompress` | one object over a libarchive that may answer anything; implements `Extraction` |
| `ThreadPoolProofs`, `AgentProofs`, `SubProcessProofs`, `FdPlumbingProofs`, `PipeTalkProofs`, `ArchiveProofs`, `InterpreterProofs`, `CrowProofs` | – | the theorems about each detailed specification (below, "Proofs") |
| `MC...` | – | constants for TLC |

Operators named `X_Something` just before a definition `X` are the faulty versions of `X` that the
properties must reject (`PROJECT.json`, "mutants"); no specification uses them.

### ThreadPool

`pc[w]` is the place of worker `w` in `pool_main`; the header comment of the module lists the
places. `run_task` and the destructor's block hold the mutex from their first to their last
line and read nothing before, so each is one action that needs the mutex free. In `pool_main` the
lock is held over several looks at the state, so taking it, waiting, breaking out and taking a
task are separate actions. `condition_.wait` gives up the lock and blocks in one step, may
return spuriously, and has to take the lock again. The unlocked read of `running_` in the outer
`while` races with the destructor's write: after the write it may return either value. A task
may be endless (`Endless`), throw something that is no `std::exception` (`Rogue`), which ends
the process, as does an exception of `create_thread`, or throw `boost::thread_interrupted`
(`Interrupted`): that one leaves `pool_main` as well, but Boost's own thread function catches it, so
only the worker ends, and the pool goes on with one less (`InterruptTask`). `TaskPool` has this as `Leave`. The
callers are arbitrary; once the destructor is in `join_all` only a task that still runs can call
`run_task`.

### Agent

The pool's tasks are the runs of `main_loop`, numbered by activation. A run's `stage` is the call
it is at (`auth`, `report`, `tasks`), its `pc` whether it is about to make it, waits for its
result, or is about to assign `session`. Collecting the status, printing and sleeping
change nothing another run sees and belong to the time before a call. Answers are bags of records
`[kind, by]`: `inflight` between the call and its delivery, `results` once the caller holds them.
`zRPC_caller_wait_result` is told no call, so it may return any of them. A session is named by
the run whose `auth` it answers. `disconnect_callback` does nothing in the code; what zRPC does,
the loss of everything in flight, is the action.

Undefined behaviour is a choice. `call_auth` always reads the session after it has destroyed the result that
holds it (`pongo_protocol.cpp:44-46`), and a list or a session may be read from an answer that has
none: each such read (`Misread`) gives garbage, throws a `std::exception`, which ends the run in silence, or
ends the process. So does a `session` read or written while another run assigns it. No task of the
agent is interrupted, so the pool's staff is all of its workers.

### SubProcess

The kernel's table (`proc`, `status`, `leads`) is shared by all objects; `child_pid`, `is_child_created`
and `ret_code` are the members. `-1` is what `child_pid` is before a fork and after a failed one, and
what makes `waitpid` and `kill` mean everybody. A call of `wait` is its begin (`wait`), the `waitpid`
that hears something (`WaitFindsNone`, `WaitReaps`) and the return to the caller (`WaitReturns`), since
the loop of `wait_for_child_exit` spins, and its caller returns, while other threads act; `poll` is the
`waitpid` and the return. What `waitpid` has said to a call that has not returned is in `heard`. In
between the pid is free and may be given out again while the object still knows it. The variables
`starts`, `asked`, `exit`, `answer` and `forker` are histories for the properties. A status is kept as
`waitpid` returns it; what callers are told goes through `Decoded`, but for the pid of a child that is
another object's, which `poll` hands on as if it were a code. Nothing in the repository but
`python_container::run` uses the class, and that only to start a child; the callers are therefore given
by a constant. `Careful` callers start an object until it has a child, do not poll it while they wait for
it, and leave it alone once they know that the child ended. They may kill while another thread waits or
polls: nothing tells them that the pid is free already, and `KillsItsOwn` says that this is the only way
in which a signal of theirs can hit another object's child. The other callers may do anything.

### FdPlumbing

The other half of `sub_process`: descriptor tables of the parent and of each child, as functions from
descriptor numbers to what they refer to, so that a number can be closed and given out again. A pipe is
named by the option that opened it. One action per system call that another thread's fork can come
between: `pipe` or `open`, each `fcntl`, the assignment to the bridge, `fork`, the parent's `close_fds`.
The child's calls up to `exec` are one action, since its table is its own. `BaseEed` keeps a number and a
`FILE`, which `fdopen` makes with a mode that depends on the member and not on the descriptor; closing
either closes the number. Whether the member has a `FILE` or the NULL of a mode that does not fit is
`HasFile`.

What the model shows of the code as it is: the input option gives the child's stdin the end of the pipe
to write to (`Targets`); a file for the output is opened for reading; a child whose `chdir`, `setsid` or
`exec` fails goes on as a second parent (`Strays`); what a constructor that throws has opened stays open;
the parent's end of the error pipe is the end to read from, opened "wb", so that it has no `FILE`
(`PipesAreJoined` says so); if `sysconf` fails the child strays before the loop of `close_fds` has closed
anything (`SysconfFails`). A child is started once here (`SubProcess` has the restarts), and the standard
streams of the agent are open when it starts. `output{STDOUT}` is left out: the assertion of `_io_param`
aborts on it.

### Archive and Extraction

An archive is the sequence of its entries' sizes, as their headers give them. One action per call on
libarchive, or per outcome where outcomes differ in what the code does. libarchive may answer each call
with any of its codes, and the data of an entry may end at any point before its size is reached:
`ARCHIVE_EOF` in `copy_data` (`CopyEnds`), a read of 0 in the other loop (`ReadEnds`); only that they are
no longer than the header says is assumed. The code of `archive_write_finish_entry` is dropped, and where
it fails less of the file may be there (`Finish`). `check_error` takes `ARCHIVE_WARN` for success: in
`copy_data` and in the read loop that ends or derails an entry that is then reported as extracted. These
three are what `WholeUnlessWarned` excepts; a read that returns a part is not among them. An error of the
writer makes `check_error` ask the reader for its text, which may not exist.

`Extraction` leaves out libarchive and its codes: entries are handed out in order, none twice, "no
more" is said only at the end, a failed call loses at most the entry it was at, every call ends.
The mapping (`State`, `Consumed`, `Given`) counts an entry whose data are still being moved as not yet
consumed. `ImplementsExtraction` is the safety of the refinement, which is proved;
`ImplementsFairExtraction` adds that every call ends, which the run `archive` checks.

### Interpreter

A job is one call of `run_on_path` and the child it starts. The jobs belong to several agents, or to one
agent started again, and share the temporary directory; `disk` says of each file of each directory whose
archive's it is and whether all of it is there. Extraction goes file by file, an old file is unlinked
when its successor is created, and the data of a job that has lost its name to another still go to the
unlinked file. `Abandon` is an exception or a kill of the agent: nothing cleans up. A directory is named
by the archive's hash, and a hash that could not be made is `""`, which names the temporary directory
itself; a failed hash therefore mixes archives, and `OwnFiles` says that nothing else does. `WholeFiles`
has the two exceptions the code leaves open: an entry that libarchive cut off unsaid (a `WARN`, short
data, a failing `archive_write_finish_entry`), and two jobs on equal archives at the same time, of which
the second unlinks and refills what the first one's child is reading.

### Crow

`kernel` are the counters of `/proc/stat`, `last` the sample before. `main_loop` makes a crow for each
report and calls `collection` once; the model lets any number of calls follow. The difference of two
samples (`Since`) and the sums of differences are taken modulo the width of the counters, as the code's
arithmetic does. The counters start anywhere, go on and may go back, which is the case the code answers
with -1.0. That their sum stays below the modulus (`4 * MaxCount < Modulus`) holds of 2^64 for as long as
any machine runs. If `/proc/stat` cannot be opened `fscanf` is given a null pointer and the process ends;
if `statvfs` fails the disk figures stay unset. The `guest` and other later counters are not read by the
code. Outside the model, which keeps no sizes and no types of the report: `_c_disk` uses `f_bsize` where
`f_blocks` counts in `f_frsize`, and the report hands 64-bit integers to zRPC as pointers to `float`
(`pongo_protocol.cpp:122` on).

### PipeTalk

A child that was started with `output{PIPE}` and `error{PIPE}` writes chunks to either pipe and blocks
while that one is full. Its owner calls `read`, `err_read` of a vector, which calls `read` and so takes
from the output, or `wait`. `err_read` of an array gives `fread` the NULL that `FdPlumbing` shows
`error()` to be: the process crashes (`ErrReadCrashes`), or a lenient C library returns 0 and nothing
changes. So the pipe of the error is never drained, and a child that fills it is stuck. `fread` goes on
until it has what was asked for or the end of the stream, and the end comes only when every copy of the
end to write to is closed: that of the child, and those that another program has inherited in the window
that `FdPlumbing` shows (`leaked`). The child may think for ever, and end or not. `write` is left out:
the input option gives the owner the end to read from, and `fdopen` refuses it.

## Runs

| Run | Instance | Shows |
|---|---|---|
| `pool_safety` | 3 workers, 4 tasks, of which one may escape and two interrupt | the safety invariants. More tasks than workers makes them queue while all run; with three workers two can sleep while one is on its way, which a lost wake-up needs |
| `pool_live` | 2 workers, 3 tasks, one endless and one that may interrupt | the refinement to `TaskPool` with its fairness (a submitted task is started while a worker is free), and that the destructor returns |
| `pool_exceptions` | 1 worker, 1 rogue task, which throws an int, say | a comment of the header that the code contradicts (below) |
| `agent` | 2 workers, 3 activations | two overlapping runs and a third that waits for a worker; the channel fails and comes back anywhere. The agent goes on reporting while no answer is lost; only live runs hold up the exit |
| `children_careful` | 3 objects, 2 pids, one session leader | with pids reused between objects, answers, reaping and wait are right, and kills but for those between a `waitpid` and its caller's return |
| `children_careless` | 2 objects, 2 pids, one object started twice and the other once; under a view without `asked`, `exit` and `answer`, which only the properties of careful callers look at | what is left when callers do anything |
| `descriptors` | a program with one option, a function with close_fds and two options | who owns and who inherits which descriptor. Two threads are enough for a fork between another's pipe and fcntl, two options for one to replace the other |
| `descriptors_input` | a program with one option | that stdin is the wrong end of its pipe (below) |
| `pipes` | capacity 2, 3 chunks on each pipe | a short read means the end; what a read or a wait that never returns is waiting for: a child that says nothing, or a full pipe, or another holder. Three chunks fill a pipe of two and block the child on it, reads ask for one to four |
| `archive` | 4 entries of 2, 0, 1 and 3 blocks | what "extracted" means when data end early, codes are warnings or dropped; handles, and the refinement to `Extraction` with termination |
| `interpreter` | 3 jobs, 2 archives of 2 files that begin alike | whose files a child reads and whether they are whole. Two jobs meet in one directory, and a third has the other archive or comes after a crash |
| `crow` | counters up to 2, 4 ticks, arithmetic modulo 16 | percentages and ticks, with counters that stand still, go on and go back. 16 is more than what the four counters add up to, so only a difference below zero wraps |

Bounds: `MaxFd` (room for all that the options can open) and `MaxOptions` of `FdPlumbing`,
`MaxConnects` (activations of the channel), `MaxCount` and `MaxTicks` of `Crow`, `Capacity` and
`MaxChunks` of `PipeTalk`, `MaxStarts` (calls of `start_process` for
each object), the sets of tasks and pids. The bags of `Agent` need no bound, since a run has at most one
call outstanding. The properties compare at most two or three actors, and each instance has one
more of what they compete for than there is to have: tasks than workers, activations than
workers, objects than pids.

Deadlock is checked in `pool_safety`. Elsewhere the program really may stop: an endless task
holds up the destructor, a run without an answer waits for ever, an object that is destroyed or a
child that is reaped leaves nothing to do.

What the agent's properties say in plain words: a run alone gets its own answers, reports with a session
and, once past `call_auth`, is harmed by nothing (`OneLoopIsSafe`); at `call_auth` the read of a
destroyed result may kill it or the process, or leave it a session that is none. A reconnection starts a
second run next to the first, and from then on answers can be swapped. Nobody starves of that alone,
since answers and waiting runs balance (`AnswersBalance`), but every lost answer strands one run, not
always the one that asked. No run ever ends by itself, so after as many activations as workers nothing
new starts unless a run has died (`LoopsNeedWorkers`) and `delete connect` waits (`OnlyLoopsBlockExit`).

### Fairness

`ThreadPool`: weak fairness of the threads, of their creation and of `join_all`. Boost threads are
scheduled by the system; a mutex that is free is eventually given to somebody, and nothing is assumed of
who gets it or of spurious wake-ups. `Agent`: weak fairness of each run, of the pool (`TaskPool`'s
promise, which `pool_live` shows) and of delivery while the channel is up and the main thread dispatches;
nothing makes the channel come up or the dispatch return. `SubProcess`: a `wait` under way keeps polling;
programs need not end. `Archive` and `Extraction`: a call under way goes on; nothing makes the owner
call. `PipeTalk`: the owner runs when it can, and the kernel completes a write that has room; nothing
makes the owner call, the child write, end or be killed, or the program end that holds a pipe.

### Disagreements of the code with itself

`thread_pool.h:80` says "Suppress all exceptions". The handler catches `std::exception`; an int that a
task throws ends the process (`pool_exceptions`). `boost::thread_interrupted` is no `std::exception`
either, but ends only the worker.

`sub_process.h:474` and `485` name what `pipe_cloexec` returns `p_w` and `c_r`, for the parent to write
and the child to read, and `write` (593) goes through the parent's `output`. `pipe_cloexec` returns the
end to read from first (231), so the child's stdin is the end to write to (`descriptors_input`).

Two more that no run shows: `thread_pool.h:41` says a task is added "if a thread is currently
available", and `run_task` looks at no thread; `sub_process.h:64` asserts that the type of an option
is `STDIN` or `PIPE`, and `set_option` throws for `output{STDIN}` and `error{STDIN}` (`Unsupported` of
`FdPlumbing`).

## Proofs

Every invariant and every safety action property that a run checks is also a theorem, as are the two
refinements without their fairness. The theorems hold for every value of the constants that the named
assumptions of the modules allow:

| Assumption | Says |
|---|---|
| `ThreadPoolAssumption`, `AgentAssumption` | a finite, non-empty set of workers; names that stand for nothing are no tasks and no runs |
| `SubProcessAssumption` | finitely many objects and pids, pids positive, exit codes of a byte |
| `FdPlumbingAssumption`, `NothingAssumption` | finitely many objects, a table with room for the three streams, and a closed descriptor is no open one |
| `PipeTalkAssumption` | a pipe holds something |
| `SizesAssumption` | an archive is a sequence of sizes |
| `InterpreterAssumption` | different archives have different contents, and none is empty; `main.py` is among the files |
| `CrowAssumption` | the four counters together stay below the modulus |

The `Max...` constants that bound counters (`MaxStarts`, `MaxOptions`, `MaxConnects`, `MaxFd`,
`MaxCount`, `MaxTicks`, `MaxChunks`) are any natural numbers here (`MaxFd` at least 2, `MaxCount` below a
quarter of the modulus), so that the bounds of the runs do not limit the theorems. One assumption is the
hypothesis of single theorems: `Careful`, for what `SubProcess` promises careful callers (the others may
steal each other's children, and the run `children_careless` has them do so).

### ThreadPool

`TypeCorrect`, `LockProtects`, `TasksAreKept`, `TasksRunOnce`, `NoLostWakeup`, `ThreadsAreJoined`: the
invariants of `pool_safety`, and that `pool_main` looks at the queue only under the lock.
`PoolRefinesTaskPool`: `Spec => ImplementsTaskPool`.

The inductive invariant `IInv` is the conjunction of the six and of `SubmittedOnce` (`run_task` is called
once for each task). None but the types is inductive alone. `WakeupAccounted` says that while a worker
sleeps and the pool is open, there are at least as many workers awake as tasks queued. A push adds a task
and wakes a sleeper if there is one; a take removes a task and one awake worker; a worker goes to sleep
only under the lock and in front of an empty queue, which is where `MutualExclusion` comes in, and none
leaves an open pool but from a task, where it is not counted as awake (`ThreadsOutliveUse` counts those).
The counting rests on `OneMoreAwake` and `OneLessAwake`, from the library's facts on cardinality.
`TasksRunOnce` is about what was started, what is queued and what runs: it follows from `NothingLost` and
`SubmittedOnce`, since the head of the queue is the first submitted task not yet started, so that no
started task is equal to it. The refinement uses the same: taking the head is `TaskPool`'s `Start`, a
worker that exits is its `Leave`, closing, submitting and finishing map to themselves, everything else
stutters; that nothing starts in a closed pool is part of it.

### Agent

`TypeCorrect`, `AnswersBalanceRuns`, `LoopsKeepWorkers`, `LoopsAreOverAtExit`, `OneLoopAloneIsSafe`.

What the properties leave out is where a run is while it waits: `LoopsInOrder` (activation n submits run
n, runs begin in that order, and those that have begun are the ones that are not idle) and `LoopsInPool`
(a run that has begun and not died sits on a worker). From these follow `LoopsNeedWorkers`, since workers
run one task each, and `LoopsEndBeforeExit`, since `delete connect` has joined every worker.
`AnswersBalance` needs, beside them, arithmetic on bags: their elements are counted as the set of their
copies (`Copies`), and `OneMoreCopy` and `OneCopyLess` say that putting in and taking out an answer
changes the count by one. `OneLoopIsSafe` is not inductive: the swapped answers it excludes may already
be on their way. `OneLoopSoFar` says that while there is one run, every answer under way is to the call
it now waits for, and that what the destroyed result of `call_auth` does to it happens before it is past
auth; that no answer is left once it waits no more is `AnswersBalance` again.

### SubProcess

With any callers: `TypeCorrect`, `ChildrenStayKnown`, `ReturnCodesStick`. With careful ones:
`CarefulAnswersAreTrue`, `CarefulCallersLeaveNoZombie`, `CarefulKillsHitTheirOwn`.

`ChildrenAreKnown` needs that only a started object has forked. The second group rests on `OneChildEach`:
until a `wait` or `poll` has reaped an object's child, the child is in the kernel's table under the pid
that the object knows (`HasChild`, `ForkedBy`), and `EndedAs` is what became of it; from then on the call
that reaped it has heard how it ended (`HasHeard`). Before the reaping the pid is therefore not free,
nobody is given it a second time, and `waitpid` and `kill` with it reach that child alone (`OwnChild`).
Between the reaping and the return the pid may be anybody's, which does no harm to the answer, since the
status is already in the call, but does to a `kill`: that is the exception in `KillsItsOwn`, and the
theorem says that it is the only one.

### FdPlumbing

`TypeCorrect`, `DescriptorsHaveOneOwner`, `NumbersAreNotReused`, `ChildrenGetTheirStreams`,
`ParentsHoldTheOtherEnd`, `LeaksAreOfTheWindow`: all the properties of
`descriptors`, for any number of objects, options and descriptors.

The invariant has two halves. `ParentInv`: what somebody holds is open, one holds it, what is open
somebody holds (`HeldIsOpen`, `OneHolder`, `OpenIsHeld`), and it refers to what the holder opened
(`SecondRefs`, `FirstRefs`, `FreshOpen`). `ChildInv`: a newly forked child holds its copy of the
bridge in different descriptors above the streams (`Copied`); what is, or is going to be, each stream is
what was asked for (`StreamsGiven`); anything else is marked close-on-exec or was not yet marked
at the fork (`MarkedOrInWindow`). The first half is what makes the second hold: three `dup2` calls
in a row do not overwrite each other's sources only because those are different and above 2, which
they are in the parent. Its preservation by `pipe` and `open` rests on `MinIsIn`, that the kernel's least
unused number is an unused number; `RedirectedIs` and `ArrangedIs` say what the
calls of `execute_child` leave in the table.

### PipeTalk, Archive, Interpreter, Crow

* `ShortReadsEnd`: a chunk of the output under way was written (`NothingMadeUp`), so a read that is left with an
  empty pipe and an empty buffer, next to a child that has ended, has seen all of it.
* `ReportedEntriesAreWhole`, `HandlesAreFreedOnce`, `ArchiveIsAnExtraction`: `Alive` ties the handle to
  the object's place in its code, `UnderWay` says which call it is in and that no more blocks were moved
  than the entry has. An entry handed over short of that has left its name in one of `warned`, `short`
  and `unfinished` (`DataEndTells`, `EntryDoneKeeps`). Each step is then a step of `Extraction` or a
  stutter: `EntryDoneGives` for the places where an entry is handed over, `ErrorFails` for every way to
  throw.
* `ScriptsReadTheirOwnFiles`, `ScriptsReadWholeFiles`: `NamedByHash` (a directory holds the files of the
  archive it is named after), `FilesArrive` (what a job has come past is there; nobody removes it without
  putting another in its place) and `FilesStayWhole` (it stays as the job wrote it unless the job is
  disturbed or one of its entries was cut off).
* `PercentagesAreInRange`, `TicksAreCountedOnce`: when no counter went back the sums modulo the width are
  the plain sums (`SincesAreDifferences`), and the ticks counted and those still to be counted are no
  more than there were.

### Only model-checked

All liveness, which with fairness and ENABLED is out of the prover's reach: `ShutdownCompletes` and
`ImplementsFairTaskPool` of `ThreadPool`, `KeepsReporting` and `OnlyLoopsBlockExit` of `Agent`,
`WaitEndsWithChild` of `SubProcess`, `ReadsEnd` and `WaitEnds` of `PipeTalk`, `ImplementsFairExtraction`
of `Archive`. No module has a recursive operator.

## The plan

What is left are theorems behind the liveness properties, the part of them that is an invariant:

1. `SubProcess`: a careful `wait` always has a child to wait for. `PipeTalk`: where a read that
   cannot go on leaves the child. `ThreadPool`: what a state holds in which the destructor cannot go on.
2. `Extraction`, and with it `Archive`: what `Given` says of the entries once "no more" was said.

## Not modelled

* Code that no caller reaches: `write_n`, `read_all` and `read_atmost_n` of `sub_process` (the last
  reads to the same place again and again), the constructors of `sub_process` that start at once
  (the same `execute_process`), the `shell` option, which only rewrites the command line.
* A second start of one object with pipes, and what a child does after an exception has taken it
  back into a copy of its parent (`Strays` is where `FdPlumbing` stops).
* The children of `python_interpreter` are never waited for; `SubProcess` shows what a zombie is,
  and nothing bounds their number.
* `singleton`: `main` is the only caller, before there are threads. That runs are over before its
  destruction is `LoopsEndBeforeExit` of `Agent`.
* `_c_memory` of `crow`: arithmetic on one call of `sysinfo`, which keeps nothing.
* `tests/ab_log.py`: a script for tests, run by the agent's interpreter.
* `py_object/` and the stub methods of `pongo_protocol`, which have no state; the bodies of calls and
  the printing; OpenSSL, libarchive, Boost.Python and zRPC themselves.
