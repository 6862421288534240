-------------------------- MODULE ThreadPoolProofs --------------------------
(***************************************************************************)
(* For every finite set of workers and every set of tasks: ThreadPool      *)
(* keeps its safety invariants, and implements TaskPool.                   *)
(*                                                                         *)
(* The six invariants the runs check are inductive together with: no task  *)
(* is submitted twice.  RunsAtMostOnce follows from that and NothingLost,  *)
(* which says where a submitted task may be.  A wake-up                    *)
(* cannot be lost because the count of WakeupAccounted moves by at most    *)
(* one on each side of every step; it needs MutualExclusion (a worker      *)
(* sleeps only on an empty queue it has looked at under the lock) and the  *)
(* first half of ThreadsOutliveUse (no worker leaves an open pool).        *)
(***************************************************************************)
EXTENDS ThreadPool, TLAPS, FiniteSetTheorems, SequenceTheorems

SubmittedOnce ==
  \A i, j \in DOMAIN submitted : submitted[i] = submitted[j] => i = j

IInv ==
  /\ TypeOK
  /\ MutualExclusion
  /\ NothingLost
  /\ SubmittedOnce
  /\ RunsAtMostOnce
  /\ WakeupAccounted
  /\ ThreadsOutliveUse

-----------------------------------------------------------------------------
(* Moving one element from the front of a queue to the end of a history *)

LEMMA TakePreservesConcat ==
  ASSUME NEW S, NEW h \in Seq(S), NEW q \in Seq(S), q # <<>>
  PROVE  Append(h, Head(q)) \o Tail(q) = h \o q
<1>1. Head(q) \in S /\ Tail(q) \in Seq(S) /\ Len(Tail(q)) = Len(q) - 1
  BY HeadTailProperties
<1>2. \A i \in 1 .. Len(Tail(q)) : Tail(q)[i] = q[i+1]
  BY HeadTailProperties
<1>3. Append(h, Head(q)) \in Seq(S) /\ Len(Append(h, Head(q))) = Len(h) + 1
  BY <1>1
<1> DEFINE l == Append(h, Head(q)) \o Tail(q)
           r == h \o q
<1>4. l \in Seq(S) /\ r \in Seq(S) /\ Len(l) = Len(r) /\ Len(r) = Len(h) + Len(q)
  BY <1>1, <1>3, ConcatProperties
<1>5. ASSUME NEW i \in 1 .. Len(l) PROVE l[i] = r[i]
  BY <1>1, <1>2, <1>3, <1>4, <1>5
<1>6. QED
  BY <1>4, <1>5, SeqEqual

LEMMA AppendAssociates ==
  ASSUME NEW S, NEW h \in Seq(S), NEW q \in Seq(S), NEW t \in S
  PROVE  h \o Append(q, t) = Append(h \o q, t)
OBVIOUS

LEMMA ElementsOfAppend ==
  ASSUME NEW S, NEW h \in Seq(S), NEW e \in S
  PROVE  ElementsOf(Append(h, e)) = ElementsOf(h) \cup {e}
<1>1. /\ DOMAIN h = 1 .. Len(h) /\ Len(h) \in Nat
      /\ DOMAIN Append(h, e) = 1 .. Len(h) + 1
  BY LenProperties, AppendProperties
<1>2. /\ Append(h, e)[Len(h) + 1] = e
      /\ \A i \in 1 .. Len(h) : Append(h, e)[i] = h[i]
  BY AppendProperties
<1>3. DOMAIN Append(h, e) = DOMAIN h \cup {Len(h) + 1}
  BY <1>1
<1>4. QED
  BY <1>1, <1>2, <1>3, Zenon DEF ElementsOf

-----------------------------------------------------------------------------
(* The histories *)

\* What is popped and what is queued are two ends of what was submitted.
LEMMA DistinctEnds ==
  ASSUME NEW h \in Seq(Tasks), NEW q \in Seq(Tasks), NEW s, h \o q = s,
         \A i, j \in DOMAIN s : s[i] = s[j] => i = j
  PROVE  /\ \A i, j \in DOMAIN h : h[i] = h[j] => i = j
         /\ ElementsOf(h) \cap ElementsOf(q) = {}
<1>1. /\ Len(h) \in Nat /\ DOMAIN h = 1 .. Len(h)
      /\ Len(q) \in Nat /\ DOMAIN q = 1 .. Len(q)
      /\ DOMAIN s = 1 .. Len(h) + Len(q)
  BY LenProperties, ConcatProperties
<1>2. \A i \in DOMAIN h : h[i] = s[i] /\ i \in DOMAIN s
  BY <1>1, ConcatProperties
<1>3. \A i \in DOMAIN q :
         /\ q[i] = s[Len(h) + i]
         /\ Len(h) + i \in DOMAIN s
         /\ Len(h) + i \notin DOMAIN h
  BY <1>1, ConcatProperties
<1>4. \A i, j \in DOMAIN h : h[i] = h[j] => i = j
  BY <1>2
<1>5. \A i \in DOMAIN h, j \in DOMAIN q : h[i] # q[j]
  BY <1>2, <1>3
<1>6. QED
  BY <1>4, <1>5 DEF ElementsOf

-----------------------------------------------------------------------------
(* Types *)

LEMMA NotifyEffect ==
  ASSUME TypeOK, NotifyOne
  PROVE  /\ pc' \in [Workers -> PcValues]
         /\ \A w \in Workers : pc'[w] # pc[w] => pc[w] = "wait" /\ pc'[w] = "woken"
<1>1. CASE UNCHANGED pc
  BY <1>1 DEF TypeOK
<1>2. CASE \E w \in Waiting : pc' = [pc EXCEPT ![w] = "woken"]
  BY <1>2 DEF TypeOK, Waiting, PcValues
<1>3. QED
  BY <1>1, <1>2 DEF NotifyOne

LEMMA ReadsRunning ==
  ASSUME TypeOK, NEW w \in Workers, TestRunning(w)
  PROVE  Goto(w, "test", "lock") \/ (~running /\ Goto(w, "test", "exited"))
<1>1. PICK seen \in {TRUE, running} :
        pc' = [pc EXCEPT ![w] = IF seen THEN "lock" ELSE "exited"]
  BY DEF TestRunning
<1>2. CASE seen
  BY <1>1, <1>2 DEF TestRunning, Goto
<1>3. CASE ~seen
  <2>1. ~running
    BY <1>3
  <2>2. QED
    BY <1>1, <1>3, <2>1 DEF TestRunning, Goto
<1>4. QED
  BY <1>2, <1>3

LEMMA TypeStep == TypeOK /\ [Next]_vars => TypeOK'
<1> USE ThreadPoolAssumption DEF TypeOK, PcValues, Goto
<1> SUFFICES ASSUME TypeOK, [Next]_vars PROVE TypeOK'
  OBVIOUS
<1>1. ASSUME NEW w \in Workers, CreateThread(w) PROVE TypeOK'
  BY <1>1 DEF CreateThread
<1>2. ASSUME NEW w \in Workers, TestRunning(w) PROVE TypeOK'
  BY <1>2 DEF TestRunning
<1>3. ASSUME NEW w \in Workers, AcquireLock(w) PROVE TypeOK'
  BY <1>3 DEF AcquireLock
<1>4. ASSUME NEW w \in Workers, Wait(w) PROVE TypeOK'
  BY <1>4 DEF Wait
<1>5. ASSUME NEW w \in Workers, BreakOut(w) PROVE TypeOK'
  BY <1>5 DEF BreakOut
<1>6. ASSUME NEW w \in Workers, TakeTask(w) PROVE TypeOK'
  <2>1. Head(queue) \in Tasks /\ Tail(queue) \in Seq(Tasks)
    BY <1>6, HeadTailProperties DEF TakeTask
  <2>2. QED
    BY <1>6, <2>1 DEF TakeTask
<1>7. ASSUME NEW w \in Workers, FinishTask(w) PROVE TypeOK'
  BY <1>7 DEF FinishTask
<1>8. ASSUME NEW w \in Workers, EndOfLoop(w) PROVE TypeOK'
  BY <1>8 DEF EndOfLoop
<1>9. ASSUME NEW w \in Workers, SpuriousWakeup(w) PROVE TypeOK'
  BY <1>9 DEF SpuriousWakeup
<1>10. ASSUME NEW w \in Workers, EscapeTask(w) PROVE TypeOK'
  BY <1>10 DEF EscapeTask
<1>11. ASSUME NEW w \in Workers, InterruptTask(w) PROVE TypeOK'
  BY <1>11 DEF InterruptTask
<1>12. ASSUME NEW t \in Tasks, RunTask(t) PROVE TypeOK'
  <2>1. /\ pc' \in [Workers -> PcValues]
        /\ \A w \in Workers : pc'[w] # "run" <=> pc[w] # "run"
    BY <1>12, NotifyEffect DEF RunTask
  <2>2. QED
    BY <1>12, <2>1 DEF RunTask
<1>13. CASE CreateThreadFails
  BY <1>13 DEF CreateThreadFails
<1>14. CASE Close
  BY <1>14 DEF Close
<1>15. CASE JoinAll
  BY <1>15 DEF JoinAll
<1>16. CASE UNCHANGED vars
  BY <1>16 DEF vars
<1>17. QED
  BY <1>1, <1>2, <1>3, <1>4, <1>5, <1>6, <1>7, <1>8, <1>9, <1>10, <1>11,
     <1>12, <1>13, <1>14, <1>15, <1>16
     DEF Next, Construct, WorkerStep, Destroy, Environment, Stopped

(***************************************************************************)
(* Every variable keeps its type, and a worker holds its copy of a task    *)
(* exactly while it runs it, whatever the number of workers and tasks.     *)
(***************************************************************************)
THEOREM TypeCorrect == Spec => []TypeOK
<1>1. Init => TypeOK
  BY ThreadPoolAssumption DEF Init, TypeOK, PcValues
<1>2. QED
  BY <1>1, TypeStep, PTL DEF Spec

-----------------------------------------------------------------------------
(* Counting the workers that are awake *)

LEMMA AwakeIsFinite ==
  /\ IsFiniteSet(Awake) /\ Cardinality(Awake) \in Nat
  /\ IsFiniteSet(Awake') /\ Cardinality(Awake') \in Nat
<1>1. Awake \in SUBSET Workers /\ Awake' \in SUBSET Workers
  BY DEF Awake
<1>2. QED
  BY <1>1, ThreadPoolAssumption, FS_Subset, FS_CardinalityType

\* A step that wakes one worker and queues at most one task.
LEMMA OneMoreAwake ==
  ASSUME NEW w, w \notin Awake, Awake' = Awake \cup {w}
  PROVE  Cardinality(Awake') = Cardinality(Awake) + 1
BY AwakeIsFinite, FS_AddElement

\* A step that sends one worker off with one task.
LEMMA OneLessAwake ==
  ASSUME NEW w, w \in Awake, Awake' = Awake \ {w}
  PROVE  Cardinality(Awake') = Cardinality(Awake) - 1
BY AwakeIsFinite, FS_RemoveElement

-----------------------------------------------------------------------------
(* The inductive invariant *)

\* A step that leaves the queue, the histories and the running tasks alone.
LEMMA SameTasks ==
  ASSUME IInv, UNCHANGED <<queue, submitted, started, task>>
  PROVE  NothingLost' /\ SubmittedOnce' /\ RunsAtMostOnce'
<1>1. NothingLost' /\ SubmittedOnce'
  BY DEF IInv, NothingLost, SubmittedOnce
<1>2. RunsAtMostOnce /\ ElementsOf(started') = ElementsOf(started)
      /\ ElementsOf(queue') = ElementsOf(queue)
  BY DEF IInv
<1>3. RunsAtMostOnce'
  BY <1>2 DEF RunsAtMostOnce, ElementsOf
<1>4. QED
  BY <1>1, <1>3

\* A worker is through with its task, and may leave.
LEMMA TaskOver ==
  ASSUME IInv, NEW w \in Workers, UNCHANGED <<queue, submitted, started>>,
         task' = [task EXCEPT ![w] = NoTask]
  PROVE  NothingLost' /\ SubmittedOnce' /\ RunsAtMostOnce'
<1>1. NothingLost' /\ SubmittedOnce'
  BY DEF IInv, NothingLost, SubmittedOnce
<1>2. /\ RunsAtMostOnce
      /\ \A v \in Workers : task'[v] = IF v = w THEN NoTask ELSE task[v]
  BY DEF IInv, TypeOK
<1>3. RunsAtMostOnce'
  BY <1>2 DEF RunsAtMostOnce, ElementsOf
<1>4. QED
  BY <1>1, <1>3

-----------------------------------------------------------------------------
(* Counting the workers that have left an open pool *)

LEMMA CountsOfLeft ==
  ASSUME NEW h \in Seq(Tasks), NEW Q, Q \subseteq ElementsOf(h),
         NEW G, G \subseteq Workers
  PROVE  /\ IsFiniteSet(G) /\ Cardinality(G) \in Nat
         /\ IsFiniteSet(Q) /\ Cardinality(Q) \in Nat
<1>1. DOMAIN h = 1 .. Len(h) /\ Len(h) \in Nat
  BY LenProperties
<1>2. IsFiniteSet(1 .. Len(h))
  BY <1>1, FS_Interval
<1>3. h \in Surjection(1 .. Len(h), ElementsOf(h))
  <2>1. h \in [1 .. Len(h) -> ElementsOf(h)]
    BY <1>1 DEF ElementsOf
  <2>2. \A e \in ElementsOf(h) : \E i \in 1 .. Len(h) : h[i] = e
    BY <1>1 DEF ElementsOf
  <2>3. QED
    BY <2>1, <2>2 DEF Surjection
<1>4. IsFiniteSet(ElementsOf(h))
  BY <1>2, <1>3, FS_Surjection
<1>5. QED
  BY <1>4, ThreadPoolAssumption, FS_Subset, FS_CardinalityType

\* Before and after a step.
LEMMA LeftAreFinite ==
  ASSUME TypeOK, TypeOK'
  PROVE  /\ IsFiniteSet(Gone) /\ Cardinality(Gone) \in Nat
         /\ IsFiniteSet(Gone') /\ Cardinality(Gone') \in Nat
         /\ IsFiniteSet(Quitters) /\ Cardinality(Quitters) \in Nat
         /\ IsFiniteSet(Quitters') /\ Cardinality(Quitters') \in Nat
<1>1. Gone \subseteq Workers /\ Gone' \subseteq Workers
  BY DEF Gone
<1>2. Quitters \subseteq ElementsOf(started) /\ Quitters' \subseteq ElementsOf(started')
  BY DEF Quitters, ElementsOf
<1>3. started \in Seq(Tasks) /\ started' \in Seq(Tasks)
  BY DEF TypeOK
<1>4. QED
  BY <1>1, <1>2, <1>3, CountsOfLeft

\* While nobody leaves, and the quitters are still over.
LEMMA NobodyLeaves ==
  ASSUME TypeOK, TypeOK', ThreadsOutliveUse, running => Gone' \subseteq Gone,
         Quitters \subseteq Quitters', UNCHANGED running, phase' # "destroyed",
         phase' \in {"constructing", "live"} <=> phase \in {"constructing", "live"}
  PROVE  ThreadsOutliveUse'
<1>1. ASSUME running PROVE Cardinality(Gone') <= Cardinality(Quitters')
  <2>1. Gone' \subseteq Gone
    BY <1>1
  <2>2. /\ Cardinality(Gone') <= Cardinality(Gone)
        /\ Cardinality(Quitters) <= Cardinality(Quitters')
    BY <2>1, LeftAreFinite, FS_Subset
  <2>3. Cardinality(Gone) <= Cardinality(Quitters)
    BY <1>1 DEF ThreadsOutliveUse
  <2>4. QED
    BY <2>2, <2>3, LeftAreFinite
<1>2. QED
  BY <1>1 DEF ThreadsOutliveUse

\* A worker's step that leaves the tasks alone and does not lead out of an open
\* pool.
LEMMA SameThreads ==
  ASSUME TypeOK, TypeOK', ThreadsOutliveUse, NEW w \in Workers, NEW from, NEW to,
         Goto(w, from, to), from # "exited", running => to # "exited",
         UNCHANGED <<running, phase, task, started>>
  PROVE  ThreadsOutliveUse'
<1>1. running => Gone' \subseteq Gone
  BY DEF TypeOK, Goto, Gone
<1>2. Quitters' = Quitters
  BY DEF Quitters, ElementsOf
<1>3. phase # "destroyed"
  BY DEF ThreadsOutliveUse, Gone, Goto
<1>4. QED
  BY <1>1, <1>2, <1>3, NobodyLeaves

\* A step that wakes a worker and leaves the queue alone.
LEMMA StillAccounted ==
  ASSUME WakeupAccounted, queue \in Seq(Tasks), UNCHANGED <<queue, running>>,
         NEW w, w \notin Awake, Awake' = Awake \cup {w}, Waiting' \subseteq Waiting
  PROVE  WakeupAccounted'
<1>1. Cardinality(Awake') = Cardinality(Awake) + 1 /\ Cardinality(Awake) \in Nat
  BY OneMoreAwake, AwakeIsFinite
<1>2. Len(queue) \in Nat
  BY LenProperties
<1>3. Waiting' # {} => Waiting # {}
  OBVIOUS
<1>4. QED
  BY <1>1, <1>2, <1>3 DEF WakeupAccounted

LEMMA InvStep == IInv /\ [Next]_vars => IInv'
<1> SUFFICES ASSUME IInv, [Next]_vars PROVE IInv'
  OBVIOUS
<1> USE ThreadPoolAssumption
<1>1. TypeOK /\ TypeOK'
  BY TypeStep DEF IInv
<1>2. ASSUME NEW w \in Workers, CreateThread(w) PROVE IInv'
  <2>1. MutualExclusion'
    BY <1>1, <1>2 DEF CreateThread, Goto, IInv, MutualExclusion, TypeOK
  <2>2. NothingLost' /\ SubmittedOnce' /\ RunsAtMostOnce'
    BY <1>2, SameTasks DEF CreateThread
  <2>3. Awake' = Awake \cup {w} /\ w \notin Awake /\ Waiting' = Waiting
    BY <1>1, <1>2 DEF CreateThread, Goto, Awake, Waiting, TypeOK
  <2>4. WakeupAccounted'
    BY <1>1, <1>2, <2>3, StillAccounted DEF CreateThread, IInv, TypeOK
  <2>5. ThreadsOutliveUse'
    <3>1. Gone' = Gone /\ Quitters' = Quitters
      BY <1>1, <1>2 DEF CreateThread, Goto, Gone, Quitters, ElementsOf, TypeOK
    <3>2. QED
      BY <1>1, <1>2, <3>1, NobodyLeaves DEF CreateThread, IInv
  <2>6. QED
    BY <1>1, <2>1, <2>2, <2>4, <2>5 DEF IInv
<1>3. ASSUME NEW w \in Workers, TestRunning(w) PROVE IInv'
  <2>1. MutualExclusion'
    BY <1>1, <1>3 DEF TestRunning, IInv, MutualExclusion, TypeOK
  <2>2. NothingLost' /\ SubmittedOnce' /\ RunsAtMostOnce'
    BY <1>3, SameTasks DEF TestRunning
  <2>3. running => Awake' = Awake /\ Waiting' = Waiting
    BY <1>1, <1>3 DEF TestRunning, Awake, Waiting, TypeOK
  <2>4. WakeupAccounted'
    BY <1>3, <2>3 DEF TestRunning, IInv, WakeupAccounted
  <2>5. ThreadsOutliveUse'
    <3>1. UNCHANGED <<running, phase, task, started>>
      BY <1>3 DEF TestRunning
    <3>2. CASE Goto(w, "test", "lock")
      BY <1>1, <3>1, <3>2, SameThreads DEF IInv
    <3>3. CASE ~running /\ Goto(w, "test", "exited")
      BY <1>1, <3>1, <3>3, SameThreads DEF IInv
    <3>4. QED
      BY <1>1, <1>3, <3>2, <3>3, ReadsRunning
  <2>6. QED
    BY <1>1, <2>1, <2>2, <2>4, <2>5 DEF IInv
<1>4. ASSUME NEW w \in Workers, AcquireLock(w) PROVE IInv'
  <2>1. MutualExclusion'
    BY <1>1, <1>4 DEF AcquireLock, Goto, IInv, MutualExclusion, TypeOK
  <2>2. NothingLost' /\ SubmittedOnce' /\ RunsAtMostOnce'
    BY <1>4, SameTasks DEF AcquireLock
  <2>3. Awake' = Awake /\ Waiting' = Waiting
    BY <1>1, <1>4 DEF AcquireLock, Goto, Awake, Waiting, TypeOK
  <2>4. WakeupAccounted'
    BY <1>4, <2>3 DEF AcquireLock, IInv, WakeupAccounted
  <2>5. ThreadsOutliveUse'
    <3>1. PICK from \in {"lock", "woken"} : Goto(w, from, "check")
      BY <1>4 DEF AcquireLock
    <3>2. QED
      BY <1>1, <1>4, <3>1, SameThreads DEF AcquireLock, IInv
  <2>6. QED
    BY <1>1, <2>1, <2>2, <2>4, <2>5 DEF IInv
<1>5. ASSUME NEW w \in Workers, Wait(w) PROVE IInv'
  <2>1. MutualExclusion'
    BY <1>1, <1>5 DEF Wait, Goto, IInv, MutualExclusion, TypeOK
  <2>2. NothingLost' /\ SubmittedOnce' /\ RunsAtMostOnce'
    BY <1>5, SameTasks DEF Wait
  <2>3. Len(queue') = 0
    BY <1>5 DEF Wait
  <2>4. WakeupAccounted'
    <3>1. Cardinality(Awake') \in Nat
      BY AwakeIsFinite
    <3>2. Len(queue') <= Cardinality(Awake')
      BY <2>3, <3>1
    <3>3. QED
      BY <3>2 DEF WakeupAccounted
  <2>5. ThreadsOutliveUse'
    BY <1>1, <1>5, SameThreads DEF Wait, IInv
  <2>6. QED
    BY <1>1, <2>1, <2>2, <2>4, <2>5 DEF IInv
<1>6. ASSUME NEW w \in Workers, BreakOut(w) PROVE IInv'
  <2>1. MutualExclusion'
    BY <1>1, <1>6 DEF BreakOut, Goto, IInv, MutualExclusion, TypeOK
  <2>2. NothingLost' /\ SubmittedOnce' /\ RunsAtMostOnce'
    BY <1>6, SameTasks DEF BreakOut
  <2>3. WakeupAccounted'
    BY <1>6 DEF BreakOut, WakeupAccounted
  <2>4. ThreadsOutliveUse'
    BY <1>1, <1>6, SameThreads DEF BreakOut, IInv
  <2>5. QED
    BY <1>1, <2>1, <2>2, <2>3, <2>4 DEF IInv
<1>7. ASSUME NEW w \in Workers, TakeTask(w) PROVE IInv'
  <2> DEFINE h == Head(queue)
  <2>1. /\ h \in Tasks /\ Tail(queue) \in Seq(Tasks)
        /\ Len(Tail(queue)) = Len(queue) - 1 /\ Len(queue) \in Nat
    BY <1>1, <1>7, HeadTailProperties, LenProperties DEF TakeTask, TypeOK
  <2>2. MutualExclusion'
    BY <1>1, <1>7 DEF TakeTask, Goto, IInv, MutualExclusion, TypeOK
  <2>3. NothingLost'
    BY <1>1, <1>7, TakePreservesConcat DEF TakeTask, TypeOK, IInv, NothingLost
  <2>4. SubmittedOnce' /\ RunsAtMostOnce'
    <3>1. h \in ElementsOf(queue) /\ h \notin ElementsOf(started)
      <4>1. h = queue[1] /\ 1 \in DOMAIN queue
        BY <1>1, <1>7, <2>1, LenProperties, EmptySeq DEF TakeTask, TypeOK
      <4>2. h \in ElementsOf(queue)
        BY <4>1 DEF ElementsOf
      <4>3. QED
        BY <4>2 DEF IInv, RunsAtMostOnce
    <3>2. ElementsOf(started') = ElementsOf(started) \cup {h}
      BY <1>1, <1>7, <2>1, ElementsOfAppend DEF TakeTask, TypeOK
    <3>3. \A v \in Workers : task'[v] = IF v = w THEN h ELSE task[v]
      BY <1>1, <1>7 DEF TakeTask, TypeOK
    <3>4. \A v \in Workers : task'[v] # NoTask => task'[v] \in ElementsOf(started')
      BY <3>2, <3>3 DEF IInv, RunsAtMostOnce
    <3>5. \A v, u \in Workers :
             task'[v] = task'[u] /\ task'[v] # NoTask => v = u
      BY <3>1, <3>3 DEF IInv, RunsAtMostOnce
    <3>6. SubmittedOnce'
      BY <1>7 DEF TakeTask, IInv, SubmittedOnce
    <3>7. /\ \A i, j \in DOMAIN started' : started'[i] = started'[j] => i = j
          /\ ElementsOf(started') \cap ElementsOf(queue') = {}
      <4>1. /\ started' \in Seq(Tasks) /\ queue' \in Seq(Tasks)
            /\ started' \o queue' = submitted'
        BY <1>1, <2>3 DEF TypeOK, NothingLost
      <4>2. \A i, j \in DOMAIN submitted' : submitted'[i] = submitted'[j] => i = j
        BY  <3>6 DEF SubmittedOnce
      <4>3. QED
        BY <4>1, <4>2, DistinctEnds
    <3>8. QED
      BY <3>4, <3>5, <3>6, <3>7 DEF RunsAtMostOnce, ElementsOf
  <2>5. w \in Awake /\ Awake' = Awake \ {w} /\ Waiting' = Waiting
    BY <1>1, <1>7 DEF TakeTask, Goto, Awake, Waiting, TypeOK
  <2>6. WakeupAccounted'
    <3>1. Cardinality(Awake') = Cardinality(Awake) - 1 /\ Cardinality(Awake) \in Nat
      BY <2>5, OneLessAwake, AwakeIsFinite
    <3>2. Len(queue') = Len(queue) - 1 /\ running' = running
      BY <1>7, <2>1 DEF TakeTask
    <3>3. QED
      BY <2>1, <2>5, <3>1, <3>2 DEF IInv, WakeupAccounted
  <2>7. ThreadsOutliveUse'
    <3>1. Gone' = Gone
      BY <1>1, <1>7 DEF TakeTask, Goto, Gone, TypeOK
    <3>2. h \notin ElementsOf(started)
      <4>1. h = queue[1] /\ 1 \in DOMAIN queue
        BY <1>1, <1>7, <2>1, LenProperties, EmptySeq DEF TakeTask, TypeOK
      <4>2. QED
        BY <4>1 DEF IInv, RunsAtMostOnce, ElementsOf
    <3>3. ElementsOf(started') = ElementsOf(started) \cup {h}
      BY <1>1, <1>7, <2>1, ElementsOfAppend DEF TakeTask, TypeOK
    <3>4. \A v \in Workers : task'[v] = IF v = w THEN h ELSE task[v]
      BY <1>1, <1>7 DEF TakeTask, TypeOK
    <3>5. Quitters \subseteq Quitters'
      BY <3>2, <3>3, <3>4 DEF Quitters
    <3>6. phase # "destroyed" /\ UNCHANGED <<running, phase>>
      BY <1>7 DEF TakeTask, IInv, ThreadsOutliveUse
    <3>7. QED
      BY <1>1, <3>1, <3>5, <3>6, NobodyLeaves DEF IInv
  <2>8. QED
    BY <1>1, <2>2, <2>3, <2>4, <2>6, <2>7 DEF IInv
<1>8. ASSUME NEW w \in Workers, FinishTask(w) PROVE IInv'
  <2>1. MutualExclusion'
    BY <1>1, <1>8 DEF FinishTask, Goto, IInv, MutualExclusion, TypeOK
  <2>2. NothingLost' /\ SubmittedOnce' /\ RunsAtMostOnce'
    BY <1>8, TaskOver DEF FinishTask
  <2>3. Gone' = Gone /\ Quitters \subseteq Quitters' /\ phase # "destroyed"
    <3>1. \A v \in Workers : task'[v] \in {task[v], NoTask}
      BY <1>1, <1>8 DEF FinishTask, TypeOK
    <3>2. \A t \in Quitters : \A v \in Workers : task'[v] # t
      BY <3>1, ThreadPoolAssumption DEF Quitters
    <3>3. Quitters \subseteq Quitters'
      BY <1>8, <3>2 DEF FinishTask, Quitters, ElementsOf
    <3>4. Gone' = Gone /\ phase # "destroyed"
      BY <1>1, <1>8 DEF FinishTask, Goto, Gone, TypeOK, IInv, ThreadsOutliveUse
    <3>5. QED
      BY <3>3, <3>4
  <2>4. w \notin Awake /\ Awake' = Awake \cup {w} /\ Waiting' = Waiting
    BY <1>1, <1>8 DEF FinishTask, Goto, Awake, Waiting, TypeOK
  <2>5. WakeupAccounted'
    BY <1>1, <1>8, <2>4, StillAccounted DEF FinishTask, IInv, TypeOK
  <2>6. ThreadsOutliveUse'
    BY <1>1, <1>8, <2>3, NobodyLeaves DEF FinishTask, IInv
  <2>7. QED
    BY <1>1, <2>1, <2>2, <2>5, <2>6 DEF IInv
<1>9. ASSUME NEW w \in Workers, EndOfLoop(w) PROVE IInv'
  <2>1. MutualExclusion'
    BY <1>1, <1>9 DEF EndOfLoop, Goto, IInv, MutualExclusion, TypeOK
  <2>2. NothingLost' /\ SubmittedOnce' /\ RunsAtMostOnce'
    BY <1>9, SameTasks DEF EndOfLoop
  <2>3. Awake' = Awake /\ Waiting' = Waiting
    BY <1>1, <1>9 DEF EndOfLoop, Goto, Awake, Waiting, TypeOK
  <2>4. WakeupAccounted'
    BY <1>9, <2>3 DEF EndOfLoop, IInv, WakeupAccounted
  <2>5. ThreadsOutliveUse'
    BY <1>1, <1>9, SameThreads DEF EndOfLoop, IInv
  <2>6. QED
    BY <1>1, <2>1, <2>2, <2>4, <2>5 DEF IInv
<1>10. ASSUME NEW w \in Workers, SpuriousWakeup(w) PROVE IInv'
  <2>1. MutualExclusion'
    BY <1>1, <1>10 DEF SpuriousWakeup, Goto, IInv, MutualExclusion, TypeOK
  <2>2. NothingLost' /\ SubmittedOnce' /\ RunsAtMostOnce'
    BY <1>10, SameTasks DEF SpuriousWakeup
  <2>3. w \notin Awake /\ Awake' = Awake \cup {w} /\ Waiting' \subseteq Waiting
    BY <1>1, <1>10 DEF SpuriousWakeup, Goto, Awake, Waiting, TypeOK
  <2>4. WakeupAccounted'
    BY <1>1, <1>10, <2>3, StillAccounted DEF SpuriousWakeup, IInv, TypeOK
  <2>5. ThreadsOutliveUse'
    BY <1>1, <1>10, SameThreads DEF SpuriousWakeup, IInv
  <2>6. QED
    BY <1>1, <2>1, <2>2, <2>4, <2>5 DEF IInv
<1>11. ASSUME UNCHANGED <<queue, running, owner, pc, task, phase, submitted, started>>
       PROVE  IInv'
  <2>1. Awake' = Awake /\ Waiting' = Waiting
    BY <1>11 DEF Awake, Waiting
  <2>2. NothingLost' /\ SubmittedOnce' /\ RunsAtMostOnce'
    BY <1>11, SameTasks
  <2>3. MutualExclusion' /\ WakeupAccounted'
    BY <1>11, <2>1 DEF IInv, MutualExclusion, WakeupAccounted
  <2>4. ThreadsOutliveUse'
    BY <1>11 DEF IInv, ThreadsOutliveUse, Gone, Quitters, ElementsOf
  <2>5. QED
    BY <1>1, <2>2, <2>3, <2>4 DEF IInv
<1>12. ASSUME NEW w \in Workers, InterruptTask(w) PROVE IInv'
  <2>1. MutualExclusion'
    BY <1>1, <1>12 DEF InterruptTask, Goto, IInv, MutualExclusion, TypeOK
  <2>2. NothingLost' /\ SubmittedOnce' /\ RunsAtMostOnce'
    BY <1>12, TaskOver DEF InterruptTask
  <2>3. Awake' = Awake /\ Waiting' = Waiting
    BY <1>1, <1>12 DEF InterruptTask, Goto, Awake, Waiting, TypeOK
  <2>4. WakeupAccounted'
    BY <1>12, <2>3 DEF InterruptTask, IInv, WakeupAccounted
  <2>5. ThreadsOutliveUse'
    <3>1. /\ Gone' = Gone \cup {w} /\ w \notin Gone
          /\ phase # "destroyed" /\ UNCHANGED <<running, phase>>
      BY <1>1, <1>12 DEF InterruptTask, Goto, Gone, TypeOK, IInv, ThreadsOutliveUse
    <3>2. \A v \in Workers : task'[v] = IF v = w THEN NoTask ELSE task[v]
      BY <1>1, <1>12 DEF InterruptTask, TypeOK
    <3>3. \A v \in Workers : task'[v] # task[w]
      BY <1>1, <1>12, <3>2 DEF InterruptTask, IInv, RunsAtMostOnce
    <3>4. task[w] \in Interrupted \cap ElementsOf(started)
      BY <1>12 DEF InterruptTask, IInv, RunsAtMostOnce
    <3>5. \A t \in Quitters : \A v \in Workers : task'[v] # t
      BY <3>2, ThreadPoolAssumption DEF Quitters
    <3>6. Quitters \cup {task[w]} \subseteq Quitters' /\ task[w] \notin Quitters
      BY <1>12, <3>3, <3>4, <3>5 DEF InterruptTask, Quitters, ElementsOf
    <3>7. Cardinality(Gone') = Cardinality(Gone) + 1
      BY <1>1, <3>1, LeftAreFinite, FS_AddElement
    <3>8. Cardinality(Quitters) + 1 <= Cardinality(Quitters')
      <4>1. Cardinality(Quitters \cup {task[w]}) = Cardinality(Quitters) + 1
        BY <1>1, <3>6, LeftAreFinite, FS_AddElement
      <4>2. Cardinality(Quitters \cup {task[w]}) <= Cardinality(Quitters')
        BY <1>1, <3>6, LeftAreFinite, FS_Subset
      <4>3. QED
        BY <4>1, <4>2
    <3>9. running => Cardinality(Gone') <= Cardinality(Quitters')
      BY <1>1, <3>7, <3>8, LeftAreFinite DEF IInv, ThreadsOutliveUse
    <3>10. QED
      BY <3>1, <3>9 DEF IInv, ThreadsOutliveUse
  <2>6. QED
    BY <1>1, <2>1, <2>2, <2>4, <2>5 DEF IInv
<1>13. ASSUME NEW t \in Tasks, RunTask(t) PROVE IInv'
  <2>1. /\ \A w \in Workers : pc'[w] # pc[w] => pc[w] = "wait" /\ pc'[w] = "woken"
        /\ queue' = Append(queue, t) /\ submitted' = Append(submitted, t)
        /\ t \notin ElementsOf(submitted)
        /\ UNCHANGED <<running, owner, task, phase, started>>
    BY <1>1, <1>13, NotifyEffect DEF RunTask
  <2>2. MutualExclusion'
    BY <2>1 DEF IInv, MutualExclusion
  <2>3. NothingLost'
    <3>1. started \in Seq(Tasks) /\ queue \in Seq(Tasks) /\ started \o queue = submitted
      BY <1>1 DEF TypeOK, IInv, NothingLost
    <3>2. started \o Append(queue, t) = Append(started \o queue, t)
      BY <3>1, AppendAssociates
    <3>3. QED
      BY <2>1, <3>1, <3>2 DEF NothingLost
  <2>4. SubmittedOnce' /\ RunsAtMostOnce'
    <3>1. SubmittedOnce'
      <4>1. /\ submitted \in Seq(Tasks) /\ Len(submitted) \in Nat
            /\ DOMAIN submitted = 1 .. Len(submitted)
            /\ DOMAIN submitted' = 1 .. Len(submitted) + 1
        BY <1>1, <2>1, LenProperties, AppendProperties DEF TypeOK
      <4>2. /\ submitted'[Len(submitted) + 1] = t
            /\ \A i \in DOMAIN submitted : submitted'[i] = submitted[i]
        BY <2>1, <4>1, AppendProperties
      <4>3. \A i \in DOMAIN submitted : submitted[i] # t
        BY <2>1 DEF ElementsOf
      <4>4. \A i \in DOMAIN submitted' :
               i \in DOMAIN submitted \/ i = Len(submitted) + 1
        BY <4>1
      <4>5. QED
        BY <4>2, <4>3, <4>4 DEF IInv, SubmittedOnce
    <3>2. /\ \A i, j \in DOMAIN started' : started'[i] = started'[j] => i = j
          /\ ElementsOf(started') \cap ElementsOf(queue') = {}
      <4>1. /\ started' \in Seq(Tasks) /\ queue' \in Seq(Tasks)
            /\ started' \o queue' = submitted'
        BY <1>1, <2>3 DEF TypeOK, NothingLost
      <4>2. \A i, j \in DOMAIN submitted' : submitted'[i] = submitted'[j] => i = j
        BY  <3>1 DEF SubmittedOnce
      <4>3. QED
        BY <4>1, <4>2, DistinctEnds
    <3>3. QED
      BY <2>1, <3>1, <3>2 DEF IInv, RunsAtMostOnce, ElementsOf
  <2>5. WakeupAccounted'
    <3>1. CASE Waiting = {}
      <4>1. Waiting' = {}
        BY <2>1, <3>1 DEF Waiting
      <4>2. QED
        BY <4>1 DEF WakeupAccounted
    <3>2. CASE Waiting # {}
      <4>1. PICK w \in Waiting : pc' = [pc EXCEPT ![w] = "woken"]
        BY <1>13, <3>2 DEF RunTask, NotifyOne
      <4>2. w \notin Awake /\ Awake' = Awake \cup {w} /\ Waiting' \subseteq Waiting
        BY <1>1, <4>1 DEF Awake, Waiting, TypeOK
      <4>3. Cardinality(Awake') = Cardinality(Awake) + 1 /\ Cardinality(Awake) \in Nat
        BY <4>2, OneMoreAwake, AwakeIsFinite
      <4>4. Len(queue') = Len(queue) + 1 /\ Len(queue) \in Nat
        BY <1>1, <2>1, AppendProperties, LenProperties DEF TypeOK
      <4>5. QED
        BY <2>1, <3>2, <4>3, <4>4 DEF IInv, WakeupAccounted
    <3>3. QED
      BY <3>1, <3>2
  <2>6. ThreadsOutliveUse'
    <3>1. Gone' = Gone /\ Quitters' = Quitters
      BY <2>1 DEF Gone, Quitters, ElementsOf
    <3>2. QED
      BY <2>1, <3>1 DEF IInv, ThreadsOutliveUse
  <2>7. QED
    BY <1>1, <2>2, <2>3, <2>4, <2>5, <2>6 DEF IInv
<1>14. CASE Close
  <2>1. MutualExclusion'
    BY <1>1, <1>14 DEF Close, IInv, MutualExclusion, TypeOK
  <2>2. NothingLost' /\ SubmittedOnce' /\ RunsAtMostOnce'
    BY <1>14, SameTasks DEF Close
  <2>3. WakeupAccounted' /\ ThreadsOutliveUse'
    BY <1>14 DEF Close, WakeupAccounted, ThreadsOutliveUse
  <2>4. QED
    BY <1>1, <2>1, <2>2, <2>3 DEF IInv
<1>15. CASE JoinAll
  <2>1. MutualExclusion'
    BY <1>15 DEF JoinAll, IInv, MutualExclusion
  <2>2. NothingLost' /\ SubmittedOnce' /\ RunsAtMostOnce'
    BY <1>15, SameTasks DEF JoinAll
  <2>3. ~running' /\ WakeupAccounted' /\ ThreadsOutliveUse'
    BY <1>15 DEF JoinAll, IInv, WakeupAccounted, ThreadsOutliveUse, Gone
  <2>4. QED
    BY <1>1, <2>1, <2>2, <2>3 DEF IInv
<1>16. QED
  BY <1>2, <1>3, <1>4, <1>5, <1>6, <1>7, <1>8, <1>9, <1>10, <1>11, <1>12,
     <1>13, <1>14, <1>15
     DEF Next, Construct, WorkerStep, Destroy, Environment, Stopped, vars,
         CreateThreadFails, EscapeTask

LEMMA Invariance == Spec => []IInv
<1>1. Init => IInv
  <2> SUFFICES ASSUME Init PROVE IInv
    OBVIOUS
  <2>1. TypeOK
    BY ThreadPoolAssumption DEF Init, TypeOK, PcValues
  <2>2. NothingLost
    BY DEF Init, NothingLost
  <2>3. Waiting = {}
    BY DEF Init, Waiting
  <2>4. Gone = {} /\ Quitters = {}
    BY DEF Init, Gone, Quitters, ElementsOf
  <2>5. ThreadsOutliveUse
    BY <2>4, FS_EmptySet DEF Init, ThreadsOutliveUse
  <2>6. SubmittedOnce /\ RunsAtMostOnce
    BY DEF Init, SubmittedOnce, RunsAtMostOnce, ElementsOf
  <2>7. QED
    BY ThreadPoolAssumption, <2>1, <2>2, <2>3, <2>5, <2>6
       DEF Init, IInv, MutualExclusion, WakeupAccounted
<1>2. QED
  BY <1>1, InvStep, PTL DEF Spec

-----------------------------------------------------------------------------
(* The results *)

(***************************************************************************)
(* Whoever looks at tasks_ and running_ in pool_main owns mutex_.          *)
(***************************************************************************)
THEOREM LockProtects == Spec => []MutualExclusion
BY Invariance, PTL DEF IInv

(***************************************************************************)
(* The pool neither loses, duplicates nor reorders a task.                 *)
(***************************************************************************)
THEOREM TasksAreKept == Spec => []NothingLost
BY Invariance, PTL DEF IInv

(***************************************************************************)
(* A task that was popped is never popped again, nor still queued, and no  *)
(* two workers run the same.                                               *)
(***************************************************************************)
THEOREM TasksRunOnce == Spec => []RunsAtMostOnce
BY Invariance, PTL DEF IInv

(***************************************************************************)
(* No wake-up is lost: a worker sleeps next to queued tasks only while     *)
(* enough others are on their way to the queue.                            *)
(***************************************************************************)
THEOREM NoLostWakeup == Spec => []WakeupAccounted
BY Invariance, PTL DEF IInv

(***************************************************************************)
(* A thread leaves an open pool only with a task that may interrupt it,    *)
(* and none outlives the members.                                          *)
(***************************************************************************)
THEOREM ThreadsAreJoined == Spec => []ThreadsOutliveUse
BY Invariance, PTL DEF IInv

-----------------------------------------------------------------------------
(* The refinement: every step is a step of TaskPool or leaves it alone *)

USE DEF Abstract!poolVars

LEMMA AbstractTake ==
  ASSUME IInv, NEW w \in Workers, TakeTask(w)
  PROVE  Abstract!Start(w)
<1>1. /\ queue \in Seq(Tasks) /\ started \in Seq(Tasks) /\ submitted \in Seq(Tasks)
      /\ queue # <<>> /\ running /\ pc[w] = "check"
  BY DEF TakeTask, Goto, IInv, TypeOK
<1>2. started \o queue = submitted
  BY DEF IInv, NothingLost
<1>3. Len(queue) \in Nat /\ Len(queue) > 0 /\ Len(started) \in Nat
  BY <1>1, LenProperties, EmptySeq
<1>4. Len(submitted) = Len(started) + Len(queue)
  BY <1>1, <1>2, ConcatProperties
<1>5. submitted[Len(started) + 1] = Head(queue)
  BY <1>1, <1>2, <1>3, ConcatProperties
<1>6. task[w] = NoTask
  BY <1>1 DEF IInv, TypeOK
<1>7. w \in Workers \ Gone /\ Gone' = Gone
  BY <1>1 DEF TakeTask, Goto, Gone, IInv, TypeOK
<1>8. QED
  BY <1>1, <1>3, <1>4, <1>5, <1>6, <1>7
     DEF TakeTask, Abstract!Start, Abstract!SomethingQueued, Abstract!NextTask

\* A worker leaves pool_main, through with its task or because the pool closed.
LEMMA AbstractLeave ==
  ASSUME IInv, NEW w \in Workers, NEW from, Goto(w, from, "exited"), from # "exited",
         task[w] # NoTask \/ ~running, task' = [task EXCEPT ![w] = NoTask],
         UNCHANGED <<submitted, started, running>>
  PROVE  Abstract!Next
<1>1. w \in Workers \ Gone /\ Gone' = Gone \cup {w}
  BY DEF Goto, Gone, IInv, TypeOK
<1>2. (Workers \ Gone)' = (Workers \ Gone) \ {w}
  BY <1>1
<1>3. Abstract!Leave(w)
  BY <1>1, <1>2 DEF Abstract!Leave
<1>4. QED
  BY <1>3 DEF Abstract!Next

\* The other steps of the threads.
LEMMA AbstractStutter ==
  ASSUME Gone' = Gone, UNCHANGED <<submitted, started, task, running>>
  PROVE  UNCHANGED Abstract!poolVars
OBVIOUS

LEMMA NotifyKeepsStaff ==
  ASSUME TypeOK, NotifyOne
  PROVE  Gone' = Gone
BY NotifyEffect DEF Gone

LEMMA AbstractStep == IInv /\ [Next]_vars => [Abstract!Next]_(Abstract!poolVars)
<1> SUFFICES ASSUME IInv, [Next]_vars PROVE [Abstract!Next]_(Abstract!poolVars)
  OBVIOUS
<1>1. ASSUME NEW w \in Workers, TakeTask(w) PROVE Abstract!Next
  BY <1>1, AbstractTake DEF Abstract!Next
<1>2. ASSUME NEW w \in Workers, FinishTask(w) PROVE Abstract!Next
  <2>1. task[w] # NoTask
    BY <1>2 DEF FinishTask, Goto, IInv, TypeOK
  <2>2. Gone' = Gone
    BY <1>2 DEF FinishTask, Goto, Gone, IInv, TypeOK
  <2>3. QED
    BY <1>2, <2>1, <2>2 DEF FinishTask, Abstract!Finish, Abstract!Next
<1>3. ASSUME NEW t \in Tasks, RunTask(t) PROVE Abstract!Next
  <2>1. Gone' = Gone
    BY <1>3, NotifyKeepsStaff DEF RunTask, IInv
  <2>2. QED
    BY <1>3, <2>1
       DEF RunTask, Abstract!Submit, Abstract!Next, ElementsOf, Abstract!ElementsOf
<1>4. CASE Close
  <2>1. running /\ Gone' = Gone
    BY <1>4 DEF Close, Gone, IInv, ThreadsOutliveUse, TypeOK
  <2>2. QED
    BY <1>4, <2>1 DEF Close, Abstract!Close, Abstract!Next
<1>5. ASSUME NEW w \in Workers, InterruptTask(w) PROVE Abstract!Next
  <2>1. task[w] # NoTask
    BY <1>5 DEF InterruptTask, Goto, IInv, TypeOK
  <2>2. QED
    BY <1>5, <2>1, AbstractLeave DEF InterruptTask
<1>6. ASSUME NEW w \in Workers, task[w] = NoTask
      PROVE  task = [task EXCEPT ![w] = NoTask]
  BY <1>6 DEF IInv, TypeOK
<1>7. ASSUME NEW w \in Workers, BreakOut(w) PROVE Abstract!Next
  <2>1. task[w] = NoTask
    BY <1>7 DEF BreakOut, Goto, IInv, TypeOK
  <2>2. QED
    BY <1>6, <1>7, <2>1, AbstractLeave DEF BreakOut
<1>8. ASSUME NEW w \in Workers, TestRunning(w)
      PROVE  Abstract!Next \/ UNCHANGED Abstract!poolVars
  <2>1. CASE ~running /\ Goto(w, "test", "exited")
    <3>1. task[w] = NoTask
      BY <2>1 DEF Goto, IInv, TypeOK
    <3>2. QED
      BY <1>6, <1>8, <2>1, <3>1, AbstractLeave DEF TestRunning
  <2>2. CASE Goto(w, "test", "lock")
    <3>1. Gone' = Gone
      BY <2>2 DEF Goto, Gone, IInv, TypeOK
    <3>2. QED
      BY <1>8, <3>1 DEF TestRunning
  <2>3. QED
    BY <1>8, <2>1, <2>2, ReadsRunning DEF IInv
<1>9. ASSUME NEW w \in Workers,
             CreateThread(w) \/ AcquireLock(w) \/ Wait(w) \/ EndOfLoop(w)
               \/ SpuriousWakeup(w)
      PROVE  UNCHANGED Abstract!poolVars
  <2>1. Gone' = Gone
    BY <1>9 DEF CreateThread, AcquireLock, Wait, EndOfLoop, SpuriousWakeup, Goto,
                Gone, IInv, TypeOK
  <2>2. QED
    BY <1>9, <2>1, AbstractStutter
       DEF CreateThread, AcquireLock, Wait, EndOfLoop, SpuriousWakeup
<1>10. ASSUME UNCHANGED <<pc, submitted, started, task, running>>
       PROVE  UNCHANGED Abstract!poolVars
  BY <1>10 DEF Gone
<1>11. QED
  BY <1>1, <1>2, <1>3, <1>4, <1>5, <1>7, <1>8, <1>9, <1>10
     DEF Next, Construct, WorkerStep, Destroy, Environment, Stopped, vars,
         CreateThreadFails, JoinAll, EscapeTask

(***************************************************************************)
(* thread_pool does what TaskPool promises: tasks start in the order of    *)
(* the submissions, once each, on a free worker, and none after the close. *)
(***************************************************************************)
THEOREM PoolRefinesTaskPool == Spec => ImplementsTaskPool
<1>1. Init => Abstract!Init
  BY DEF Init, Gone, Abstract!Init
<1>2. QED
  BY <1>1, AbstractStep, Invariance, PTL DEF Spec, ImplementsTaskPool, Abstract!Spec
=============================================================================
