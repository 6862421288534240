----------------------------- MODULE ThreadPool -----------------------------
(***************************************************************************)
(* utils/thread_pool.h, at the grain of its critical sections.             *)
(*                                                                         *)
(* A worker's pc says where it is in pool_main:                            *)
(*   "none"    not yet created by the constructor                          *)
(*   "test"    about to read running_ in the outer while, without the lock *)
(*   "lock"    about to take the lock at the top of the loop               *)
(*   "check"   holds the lock, about to look at tasks_ and running_        *)
(*   "wait"    blocked in condition_.wait                                  *)
(*   "woken"   notified (or woken spuriously), about to retake the lock    *)
(*   "run"     runs its task, lock released                                *)
(*   "relock"  task over, about to take the lock and leave the loop body   *)
(*   "exited"  pool_main has returned                                      *)
(* run_task and the block of the destructor that closes the pool do one    *)
(* thing under the lock and release it: each is one action that needs the  *)
(* lock to be free.                                                        *)
(***************************************************************************)
EXTENDS Naturals, Sequences, FiniteSets

CONSTANTS
  Workers,   \* the threads the constructor creates (pool_size of them)
  Tasks,     \* the function objects given to run_task, each at most once
  Endless,   \* the tasks that never return
  Rogue,     \* the tasks that may throw what neither the pool nor Boost catches
  Interrupted,  \* the tasks that may throw boost::thread_interrupted
  NoTask,
  NoWorker

ASSUME ThreadPoolAssumption ==
  /\ IsFiniteSet(Workers)
  /\ Workers # {}
  /\ Endless \subseteq Tasks
  /\ Rogue \subseteq Tasks
  /\ Interrupted \subseteq Tasks
  /\ NoTask \notin Tasks
  /\ NoWorker \notin Workers

VARIABLES
  queue,     \* tasks_
  running,   \* running_
  owner,     \* the worker that holds mutex_, or NoWorker
  pc,        \* where each worker is in pool_main
  task,      \* each worker's local copy of the task it runs
  phase,     \* "constructing", "live", "joining" (in ~thread_pool), "destroyed"
  process,   \* "up", or "terminated" by an exception nobody catches
  submitted, \* history: the tasks pushed, in the order of the pushes
  started    \* history: the tasks popped, in the order of the pops

vars == <<queue, running, owner, pc, task, phase, process, submitted, started>>

PcValues == {"none", "test", "lock", "check", "wait", "woken", "run",
             "relock", "exited"}

ElementsOf(s) == {s[i] : i \in DOMAIN s}

Waiting == {w \in Workers : pc[w] = "wait"}

\* The workers that will look at tasks_ before they next block.
Awake == {w \in Workers : pc[w] \in {"test", "lock", "check", "woken", "relock"}}

Goto(w, from, to) ==
  /\ pc[w] = from
  /\ pc' = [pc EXCEPT ![w] = to]

Init ==
  /\ queue = <<>>
  /\ running = TRUE
  /\ owner = NoWorker
  /\ pc = [w \in Workers |-> "none"]
  /\ task = [w \in Workers |-> NoTask]
  /\ phase = "constructing"
  /\ process = "up"
  /\ submitted = <<>>
  /\ started = <<>>

-----------------------------------------------------------------------------
(* The constructor *)

CreateThread(w) ==
  /\ phase = "constructing"
  /\ Goto(w, "none", "test")
  /\ phase' = IF \A v \in Workers \ {w} : pc[v] # "none" THEN "live" ELSE phase
  /\ UNCHANGED <<queue, running, owner, task, process, submitted, started>>

\* create_thread throws; no caller of the constructor catches it.
CreateThreadFails ==
  /\ phase = "constructing"
  /\ process' = "terminated"
  /\ UNCHANGED <<queue, running, owner, pc, task, phase, submitted, started>>

(* run_task *)

\* Mutant: run_task pushes and forgets to notify.
NotifyOne_Forgotten == UNCHANGED pc

\* notify_one wakes one of the waiting workers, if there is one.
NotifyOne ==
  \/ Waiting = {} /\ UNCHANGED pc
  \/ \E w \in Waiting : pc' = [pc EXCEPT ![w] = "woken"]

\* While the destructor joins, only a task that still runs can be the caller.
RunTask(t) ==
  /\ \/ phase = "live"
     \/ phase = "joining" /\ \E w \in Workers : pc[w] = "run"
  /\ owner = NoWorker
  /\ t \notin ElementsOf(submitted)
  /\ queue' = Append(queue, t)
  /\ submitted' = Append(submitted, t)
  /\ NotifyOne
  /\ UNCHANGED <<running, owner, task, phase, process, started>>

(* The destructor *)

\* Mutant: the destructor clears running_ and notifies a single worker.
Close_NotifiesOne ==
  /\ phase = "live"
  /\ owner = NoWorker
  /\ running' = FALSE
  /\ NotifyOne
  /\ phase' = "joining"
  /\ UNCHANGED <<queue, owner, task, process, submitted, started>>

Close ==
  /\ phase = "live"
  /\ owner = NoWorker
  /\ running' = FALSE
  /\ pc' = [w \in Workers |-> IF pc[w] = "wait" THEN "woken" ELSE pc[w]]
  /\ phase' = "joining"
  /\ UNCHANGED <<queue, owner, task, process, submitted, started>>

\* Mutant: the destructor does not wait for its threads.
JoinAll_Detaches ==
  /\ phase = "joining"
  /\ phase' = "destroyed"
  /\ UNCHANGED <<queue, running, owner, pc, task, process, submitted, started>>

\* join_all returns, then the members go.
JoinAll ==
  /\ phase = "joining"
  /\ \A w \in Workers : pc[w] = "exited"
  /\ phase' = "destroyed"
  /\ UNCHANGED <<queue, running, owner, pc, task, process, submitted, started>>

-----------------------------------------------------------------------------
(* pool_main *)

\* The read of running_ is not synchronised with the destructor's write: after
\* the write it may still return the old value.
TestRunning(w) ==
  /\ pc[w] = "test"
  /\ \E seen \in {TRUE, running} :
       pc' = [pc EXCEPT ![w] = IF seen THEN "lock" ELSE "exited"]
  /\ UNCHANGED <<queue, running, owner, task, phase, process, submitted, started>>

AcquireLock(w) ==
  /\ owner = NoWorker
  /\ owner' = w
  /\ Goto(w, "lock", "check") \/ Goto(w, "woken", "check")
  /\ UNCHANGED <<queue, running, task, phase, process, submitted, started>>

\* Blocking and releasing the lock are one step, as condition_.wait promises.
Wait(w) ==
  /\ owner = w
  /\ queue = <<>> /\ running
  /\ Goto(w, "check", "wait")
  /\ owner' = NoWorker
  /\ UNCHANGED <<queue, running, task, phase, process, submitted, started>>

SpuriousWakeup(w) ==
  /\ Goto(w, "wait", "woken")
  /\ UNCHANGED <<queue, running, owner, task, phase, process, submitted, started>>

BreakOut(w) ==
  /\ owner = w
  /\ ~running
  /\ Goto(w, "check", "exited")
  /\ owner' = NoWorker
  /\ UNCHANGED <<queue, running, task, phase, process, submitted, started>>

\* Mutant: the front of tasks_ is copied but not popped.
TakeTask_NoPop(w) ==
  /\ owner = w
  /\ queue # <<>> /\ running
  /\ Goto(w, "check", "run")
  /\ task' = [task EXCEPT ![w] = Head(queue)]
  /\ started' = Append(started, Head(queue))
  /\ owner' = NoWorker
  /\ UNCHANGED <<queue, running, phase, process, submitted>>

\* Mutant: running_ is not looked at again after the wait.
TakeTask_IgnoresStop(w) ==
  /\ owner = w
  /\ queue # <<>>
  /\ Goto(w, "check", "run")
  /\ task' = [task EXCEPT ![w] = Head(queue)]
  /\ queue' = Tail(queue)
  /\ started' = Append(started, Head(queue))
  /\ owner' = NoWorker
  /\ UNCHANGED <<running, phase, process, submitted>>

TakeTask(w) ==
  /\ owner = w
  /\ queue # <<>> /\ running
  /\ Goto(w, "check", "run")
  /\ task' = [task EXCEPT ![w] = Head(queue)]
  /\ queue' = Tail(queue)
  /\ started' = Append(started, Head(queue))
  /\ owner' = NoWorker
  /\ UNCHANGED <<running, phase, process, submitted>>

\* Mutant: the local copy of the task is kept after the task has run.
FinishTask_KeepsTask(w) ==
  /\ task[w] \notin Endless
  /\ Goto(w, "run", "relock")
  /\ UNCHANGED <<queue, running, owner, task, phase, process, submitted, started>>

\* The task returns, or throws a std::exception, which is swallowed.
FinishTask(w) ==
  /\ task[w] \notin Endless
  /\ Goto(w, "run", "relock")
  /\ task' = [task EXCEPT ![w] = NoTask]
  /\ UNCHANGED <<queue, running, owner, phase, process, submitted, started>>

\* boost::thread_interrupted is no std::exception: it leaves pool_main, and
\* Boost's own thread function ends the thread quietly.  The lock is not held.
InterruptTask(w) ==
  /\ task[w] \in Interrupted
  /\ Goto(w, "run", "exited")
  /\ task' = [task EXCEPT ![w] = NoTask]
  /\ UNCHANGED <<queue, running, owner, phase, process, submitted, started>>

\* Any other exception leaves the thread's function, which ends the process.
EscapeTask(w) ==
  /\ pc[w] = "run"
  /\ task[w] \in Rogue
  /\ process' = "terminated"
  /\ UNCHANGED <<queue, running, owner, pc, task, phase, submitted, started>>

\* lock.lock(), and at once the end of the scope that releases it.
EndOfLoop(w) ==
  /\ owner = NoWorker
  /\ Goto(w, "relock", "test")
  /\ UNCHANGED <<queue, running, owner, task, phase, process, submitted, started>>

-----------------------------------------------------------------------------

WorkerStep(w) ==
  /\ process = "up"
  /\ \/ TestRunning(w)
     \/ AcquireLock(w)
     \/ Wait(w)
     \/ BreakOut(w)
     \/ TakeTask(w)
     \/ FinishTask(w)
     \/ EndOfLoop(w)

Construct(w) == process = "up" /\ CreateThread(w)
Destroy == process = "up" /\ JoinAll

Environment ==
  /\ process = "up"
  /\ \/ CreateThreadFails
     \/ Close
     \/ \E t \in Tasks : RunTask(t)
     \/ \E w \in Workers : SpuriousWakeup(w) \/ EscapeTask(w) \/ InterruptTask(w)

\* The program has stopped: the pool is gone, or the whole process is.
Stopped ==
  /\ phase = "destroyed" \/ process = "terminated"
  /\ UNCHANGED vars

Next ==
  \/ \E w \in Workers : Construct(w) \/ WorkerStep(w)
  \/ Destroy
  \/ Environment
  \/ Stopped

Spec == Init /\ [][Next]_vars

(***************************************************************************)
(* Every runnable thread is eventually scheduled, and tasks outside        *)
(* Endless return.  Nothing is assumed of callers, of spurious wake-ups,   *)
(* or of which worker wins a contended mutex.                              *)
(***************************************************************************)
Fairness ==
  /\ \A w \in Workers : WF_vars(Construct(w)) /\ WF_vars(WorkerStep(w))
  /\ WF_vars(Destroy)

FairSpec == Spec /\ Fairness

-----------------------------------------------------------------------------
(* Properties *)

\* Every variable stays in its range, and a worker holds a copy of a task for
\* exactly as long as it runs it: "the task object is destructed immediately
\* after running the task" (thread_pool.h:67).
TypeOK ==
  /\ queue \in Seq(Tasks)
  /\ running \in BOOLEAN
  /\ owner \in Workers \cup {NoWorker}
  /\ pc \in [Workers -> PcValues]
  /\ task \in [Workers -> Tasks \cup {NoTask}]
  /\ phase \in {"constructing", "live", "joining", "destroyed"}
  /\ process \in {"up", "terminated"}
  /\ submitted \in Seq(Tasks)
  /\ started \in Seq(Tasks)
  /\ \A w \in Workers : task[w] = NoTask <=> pc[w] # "run"

\* No two workers are between lock and unlock at once: whoever looks at tasks_
\* and running_ in pool_main owns mutex_, whichever way it came to look.
MutualExclusion == \A w \in Workers : pc[w] = "check" <=> owner = w

\* The pool neither loses, duplicates nor reorders a task: what workers have
\* popped, followed by what is still in tasks_, is what run_task pushed.
NothingLost == started \o queue = submitted

\* No task is run twice, at once or one time after the other, although every
\* worker copies the front of one shared queue and runs it unlocked: a task that
\* was popped is never popped again, nor still in tasks_, and one worker has it.
RunsAtMostOnce ==
  /\ \A i, j \in DOMAIN started : started[i] = started[j] => i = j
  /\ ElementsOf(started) \cap ElementsOf(queue) = {}
  /\ \A w \in Workers : task[w] # NoTask => task[w] \in ElementsOf(started)
  /\ \A v, w \in Workers : task[v] = task[w] /\ task[v] # NoTask => v = w

\* No wake-up is lost: while some worker sleeps in condition_.wait, at least as
\* many workers are on their way to the queue as there are tasks in it.
WakeupAccounted ==
  running /\ Waiting # {} => Len(queue) <= Cardinality(Awake)

\* The tasks that may have taken their worker with them.
Quitters ==
  {t \in Interrupted \cap ElementsOf(started) : \A w \in Workers : task[w] # t}

Gone == {w \in Workers : pc[w] = "exited"}

\* The pool keeps its threads: until the destructor has cleared running_, which
\* workers read without the lock, one is lost at most for each task that could
\* throw boost::thread_interrupted and is over; and none is left in pool_main
\* once the members are destroyed.
ThreadsOutliveUse ==
  /\ running <=> phase \in {"constructing", "live"}
  /\ running => Cardinality(Gone) <= Cardinality(Quitters)
  /\ phase = "destroyed" => Gone = Workers

\* The destructor returns unless one of the running tasks never does.
ShutdownCompletes ==
  phase = "joining" ~>
    \/ phase = "destroyed"
    \/ process = "terminated"
    \/ \E w \in Workers : task[w] \in Endless

\* The pool does what TaskPool promises, running_ being the abstract open flag:
\* safety always, and never sitting on a task that a free worker could run.
Abstract == INSTANCE TaskPool WITH open <- running, staff <- Workers \ Gone
ImplementsTaskPool == Abstract!Spec
ImplementsFairTaskPool == Abstract!FairSpec

-----------------------------------------------------------------------------
(* What a comment of the header says *)

\* thread_pool.h:80: "Suppress all exceptions", so no exception of a task ends
\* the process (create_thread's, before the pool is live, is another matter).
AllExceptionsSuppressed == phase # "constructing" => process = "up"
=============================================================================
