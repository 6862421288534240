------------------------------ MODULE TaskPool ------------------------------
(***************************************************************************)
(* What utils/thread_pool.h promises its callers, without mutex, condition *)
(* variable or wake-ups: tasks are started in the order in which they were *)
(* submitted, each at most once, each on a worker that runs nothing else,  *)
(* and none after the pool has been closed.  A worker may leave for good.  *)
(* ThreadPool implements it, and Agent is composed on it.                  *)
(***************************************************************************)
EXTENDS Naturals, Sequences, FiniteSets

CONSTANTS
  Workers,   \* the pool's threads (4 unless the constructor is told otherwise)
  Tasks,     \* the function objects given to run_task, each at most once
  NoTask     \* what a worker holds while it runs nothing

VARIABLES
  submitted, \* every task run_task was called with, in the order of the calls
  started,   \* every task a worker has begun to run, in that order
  task,      \* the task each worker is running
  staff,     \* the workers that have not left
  open       \* the pool has not been told to shut down

poolVars == <<submitted, started, task, staff, open>>

ElementsOf(s) == {s[i] : i \in DOMAIN s}

\* The tasks still queued are the submitted ones after the started ones.
SomethingQueued == Len(started) < Len(submitted)
NextTask == submitted[Len(started) + 1]

Init ==
  /\ submitted = <<>>
  /\ started = <<>>
  /\ task = [w \in Workers |-> NoTask]
  /\ staff = Workers
  /\ open = TRUE

Submit(t) ==
  /\ t \notin ElementsOf(submitted)
  /\ submitted' = Append(submitted, t)
  /\ UNCHANGED <<started, task, open>> /\ staff' = staff

Start(w) ==
  /\ open
  /\ w \in staff /\ task[w] = NoTask
  /\ SomethingQueued
  /\ task' = [task EXCEPT ![w] = NextTask]
  /\ started' = Append(started, NextTask)
  /\ UNCHANGED <<submitted, open>> /\ staff' = staff

\* The task has returned, or thrown an exception the pool swallows.
Finish(w) ==
  /\ task[w] # NoTask
  /\ task' = [task EXCEPT ![w] = NoTask]
  /\ UNCHANGED <<submitted, started, open>> /\ staff' = staff

\* The worker is through with a task that makes it leave, or the pool is closed.
Leave(w) ==
  /\ w \in staff
  /\ task[w] # NoTask \/ ~open
  /\ staff' = staff \ {w}
  /\ task' = [task EXCEPT ![w] = NoTask]
  /\ UNCHANGED <<submitted, started, open>>

Close ==
  /\ open
  /\ open' = FALSE
  /\ UNCHANGED <<submitted, started, task>> /\ staff' = staff

Next ==
  \/ \E t \in Tasks : Submit(t)
  \/ \E w \in Workers : Start(w) \/ Finish(w) \/ Leave(w)
  \/ Close

Spec == Init /\ [][Next]_poolVars

(***************************************************************************)
(* While it stays open the pool does not sit on a task that a free worker  *)
(* could run: this is the promise a lost wake-up would break.              *)
(***************************************************************************)
StartSome == \E w \in Workers : Start(w)

FairSpec == Spec /\ WF_poolVars(StartSome)
=============================================================================
