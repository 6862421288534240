----------------------------- MODULE AgentProofs -----------------------------
(***************************************************************************)
(* For any number of workers and activations: the answers balance the runs *)
(* that wait for them, runs keep their workers, all of them are over when  *)
(* main returns, and one run alone is safe.                                *)
(*                                                                         *)
(* What ties it together is where the runs are (LoopsInPool): activation   *)
(* number n submits run n, the runs begun are the first ones submitted,    *)
(* and one that has begun and not died sits on a worker.                   *)
(***************************************************************************)
EXTENDS Agent, TLAPS, FiniteSetTheorems

-----------------------------------------------------------------------------
(* Bags, by their copies *)

ABag(bag) == IsABag(bag) /\ IsFiniteSet(Copies(bag))

\* The copies of a bag are its elements, numbered.
LEMMA CopiesOf ==
  ASSUME NEW bag, IsABag(bag)
  PROVE  \A a, n : <<a, n>> \in Copies(bag) <=> a \in DOMAIN bag /\ n \in 1 .. bag[a]
BY DEF Copies, BagToSet

\* A copy is an element and its number.
LEMMA CopiesArePairs ==
  ASSUME NEW bag, NEW c \in Copies(bag)
  PROVE  c = <<c[1], c[2]>>
BY DEF Copies, BagToSet

\* The empty bag has no copies, and a bag without copies no elements.
LEMMA NoCopies ==
  /\ ABag(EmptyBag) /\ Cardinality(Copies(EmptyBag)) = 0 /\ BagToSet(EmptyBag) = {}
  /\ \A bag : IsABag(bag) /\ Copies(bag) = {} => BagToSet(bag) = {}
<1>1. BagToSet(EmptyBag) = {} /\ IsABag(EmptyBag)
  BY DEF EmptyBag, SetToBag, BagToSet, IsABag
<1>2. Copies(EmptyBag) = {}
  BY <1>1 DEF Copies
<1>3. ASSUME NEW bag, IsABag(bag), Copies(bag) = {} PROVE BagToSet(bag) = {}
  <2>1. SUFFICES ASSUME NEW a \in DOMAIN bag PROVE FALSE
    BY DEF BagToSet
  <2>2. <<a, 1>> \in Copies(bag)
    <3>1. bag[a] \in Nat /\ bag[a] > 0
      BY <1>3 DEF IsABag
    <3>2. 1 \in 1 .. bag[a]
      BY <3>1
    <3>3. QED
      BY <1>3, <3>2, CopiesOf
  <2>3. QED
    BY <1>3, <2>2
<1>4. QED
  BY <1>1, <1>2, <1>3, FS_EmptySet DEF ABag

\* Adding an element adds one copy.
LEMMA OneMoreCopy ==
  ASSUME NEW bag, ABag(bag), NEW a
  PROVE  LET more == bag (+) SetToBag({a})
         IN  /\ ABag(more) /\ BagToSet(more) = BagToSet(bag) \cup {a}
             /\ Cardinality(Copies(more)) = Cardinality(Copies(bag)) + 1
<1> DEFINE more == bag (+) SetToBag({a})
           n == IF a \in DOMAIN bag THEN bag[a] ELSE 0
<1>1. n \in Nat
  BY DEF ABag, IsABag
<1>2. /\ DOMAIN more = DOMAIN bag \cup {a}
      /\ \A e \in DOMAIN more : more[e] = IF e = a THEN n + 1 ELSE bag[e]
  BY <1>1 DEF ABag, IsABag, (+), SetToBag
<1>3. IsABag(more)
  <2>1. more = [e \in DOMAIN more |-> more[e]]
    BY DEF (+)
  <2>2. \A e \in DOMAIN bag : bag[e] \in Nat /\ bag[e] > 0
    BY DEF ABag, IsABag
  <2> HIDE DEF more
  <2>3. \A e \in DOMAIN more : more[e] \in {m \in Nat : m > 0}
    BY <1>1, <1>2, <2>2
  <2>4. QED
    BY <2>1, <2>3 DEF IsABag
<1> HIDE DEF more, n
<1>4. Copies(more) = Copies(bag) \cup {<<a, n + 1>>} /\ <<a, n + 1>> \notin Copies(bag)
  <2>1. ASSUME NEW e, NEW m
        PROVE  <<e, m>> \in Copies(more) <=> <<e, m>> \in Copies(bag) \/ (e = a /\ m = n + 1)
    <3>1. <<e, m>> \in Copies(more) <=> e \in DOMAIN more /\ m \in 1 .. more[e]
      BY <1>3, CopiesOf
    <3>2. <<e, m>> \in Copies(bag) <=> e \in DOMAIN bag /\ m \in 1 .. bag[e]
      BY CopiesOf DEF ABag
    <3>3. CASE e = a
      <4>1. m \in 1 .. n + 1 <=> m \in 1 .. n \/ m = n + 1
        BY <1>1
      <4>2. QED
        BY <1>1, <1>2, <3>1, <3>2, <3>3, <4>1 DEF n
    <3>4. CASE e # a
      BY <1>2, <3>1, <3>2, <3>4
    <3>5. QED
      BY <3>3, <3>4
  <2>2. <<a, n + 1>> \notin Copies(bag)
    BY <1>1, CopiesOf DEF ABag, n
  <2>3. QED
    BY <2>1, <2>2, CopiesArePairs
<1>5. QED
  BY <1>2, <1>3, <1>4, FS_AddElement DEF ABag, BagToSet, more

\* Taking an element of a bag away takes one copy away.
LEMMA OneCopyLess ==
  ASSUME NEW bag, ABag(bag), NEW a \in BagToSet(bag)
  PROVE  LET less == bag (-) SetToBag({a})
         IN  /\ ABag(less) /\ BagToSet(less) \subseteq BagToSet(bag)
             /\ Cardinality(Copies(less)) = Cardinality(Copies(bag)) - 1
<1> DEFINE less == bag (-) SetToBag({a})
           n == bag[a]
<1>1. n \in Nat /\ n > 0
  BY DEF ABag, IsABag, BagToSet
<1>2. /\ DOMAIN less = {e \in DOMAIN bag : e = a => n > 1}
      /\ \A e \in DOMAIN less : less[e] = IF e = a THEN n - 1 ELSE bag[e]
  BY <1>1 DEF ABag, IsABag, (-), SetToBag
<1>3. IsABag(less)
  <2>1. less = [e \in DOMAIN less |-> less[e]]
    BY DEF (-)
  <2>2. \A e \in DOMAIN bag : bag[e] \in Nat /\ bag[e] > 0
    BY DEF ABag, IsABag
  <2> HIDE DEF less
  <2>3. \A e \in DOMAIN less : less[e] \in {m \in Nat : m > 0}
    BY <1>1, <1>2, <2>2
  <2>4. QED
    BY <2>1, <2>3 DEF IsABag
<1> HIDE DEF less
<1>4. Copies(less) = Copies(bag) \ {<<a, n>>} /\ <<a, n>> \in Copies(bag)
  <2>1. ASSUME NEW e, NEW m
        PROVE  <<e, m>> \in Copies(less) <=> <<e, m>> \in Copies(bag) /\ ~(e = a /\ m = n)
    <3>1. <<e, m>> \in Copies(less) <=> e \in DOMAIN less /\ m \in 1 .. less[e]
      BY <1>3, CopiesOf
    <3>2. <<e, m>> \in Copies(bag) <=> e \in DOMAIN bag /\ m \in 1 .. bag[e]
      BY CopiesOf DEF ABag
    <3>3. CASE e = a
      <4>1. m \in 1 .. n /\ m # n <=> n > 1 /\ m \in 1 .. n - 1
        BY <1>1
      <4>2. QED
        BY <1>1, <1>2, <3>1, <3>2, <3>3, <4>1 DEF BagToSet
    <3>4. CASE e # a
      BY <1>2, <3>1, <3>2, <3>4
    <3>5. QED
      BY <3>3, <3>4
  <2>2. <<a, n>> \in Copies(bag)
    BY <1>1, CopiesOf DEF ABag, BagToSet
  <2>3. QED
    BY <2>1, <2>2, CopiesArePairs
<1>5. QED
  BY <1>2, <1>3, <1>4, FS_RemoveElement DEF ABag, BagToSet, less

-----------------------------------------------------------------------------
(* The inductive invariant *)

\* Activation n submits run n, runs begin in that order, and only those that
\* have begun have left "idle".
LoopsInOrder ==
  /\ Len(submitted) <= MaxConnects /\ Len(started) <= Len(submitted)
  /\ \A i \in DOMAIN submitted : submitted[i] = i
  /\ \A i \in DOMAIN started : started[i] = i
  /\ \A l \in Loops : pc[l] # "idle" <=> l <= Len(started)

\* A run that has begun and not died sits on a worker, what a worker runs has
\* begun, and main has closed the pool, or never used it, when it joins.
LoopsInPool ==
  /\ \A l \in Alive : \E w \in Workers : task[w] = l
  /\ \A w \in Workers : task[w] # NoLoop => pc[task[w]] # "idle"
  /\ main = "start" => submitted = <<>>
  /\ main = "joining" => ~open
  /\ main = "exited" => \A w \in Workers : task[w] = NoLoop
  /\ main = "exited" => ~open \/ submitted = <<>>

Bags == ABag(inflight) /\ ABag(results)

IInv ==
  /\ TypeOK
  /\ LoopsInOrder
  /\ LoopsInPool
  /\ Bags
  /\ AnswersBalance

\* There are finitely many runs, so that they can be counted.
LEMMA LoopsAreFinite ==
  /\ MaxConnects \in Nat /\ IsFiniteSet(Loops)
  /\ \A L \in SUBSET Loops : IsFiniteSet(L) /\ Cardinality(L) \in Nat
<1>1. MaxConnects \in Nat
  BY AgentAssumption
<1>2. IsFiniteSet(Loops)
  BY <1>1, FS_Interval DEF Loops
<1>3. QED
  BY <1>1, <1>2, FS_Subset, FS_CardinalityType

\* The inductive invariant holds when main begins.
LEMMA InvInit == Init => IInv
<1> SUFFICES ASSUME Init PROVE IInv
  OBVIOUS
<1> USE AgentAssumption DEF Init, Pool!Init
<1>1. Waiting = {} /\ Alive = {}
  BY DEF Waiting, Alive
<1>2. TypeOK
  BY NoCopies DEF TypeOK, Stages, FirstStage, Loops
<1>3. LoopsInOrder /\ LoopsInPool
  BY <1>1 DEF LoopsInOrder, LoopsInPool, Loops
<1>4. Bags /\ AnswersBalance
  BY <1>1, NoCopies, FS_EmptySet DEF Bags, AnswersBalance
<1>5. QED
  BY <1>2, <1>3, <1>4 DEF IInv

\* The next run to begin is the one after those begun, and is idle.
LEMMA NextLoop ==
  ASSUME IInv, Len(started) < Len(submitted)
  PROVE  /\ Pool!NextTask = Len(started) + 1 /\ Pool!NextTask \in Loops
         /\ pc[Pool!NextTask] = "idle"
<1>1. Len(started) \in Nat /\ Len(submitted) \in Nat /\ DOMAIN submitted = 1 .. Len(submitted)
  BY DEF IInv, TypeOK
<1>2. Pool!NextTask = Len(started) + 1 /\ Pool!NextTask \in Loops
  BY <1>1, LoopsAreFinite DEF IInv, LoopsInOrder, Pool!NextTask, Loops
<1>3. QED
  BY <1>1, <1>2 DEF IInv, LoopsInOrder

-----------------------------------------------------------------------------
(* Its parts, over the kinds of steps *)

\* A run starts waiting, with the call that it has made.
LEMMA WaitsForOne ==
  ASSUME TypeOK, NEW l \in Loops, pc[l] # "wait", pc' = [pc EXCEPT ![l] = "wait"]
  PROVE  Cardinality(Waiting)' = Cardinality(Waiting) + 1
<1>1. Waiting' = Waiting \cup {l} /\ l \notin Waiting
  BY DEF Waiting, TypeOK
<1>2. IsFiniteSet(Waiting)
  BY LoopsAreFinite DEF Waiting
<1>3. QED
  BY <1>1, <1>2, FS_AddElement

\* A run that takes its answer leaves those that wait.
LEMMA WaitsNoMore ==
  ASSUME TypeOK, NEW l \in Loops, pc[l] = "wait", NEW place, place # "wait",
         pc' = [pc EXCEPT ![l] = place]
  PROVE  Cardinality(Waiting)' = Cardinality(Waiting) - 1
<1>1. Waiting' = Waiting \ {l} /\ l \in Waiting
  BY DEF Waiting, TypeOK
<1>2. IsFiniteSet(Waiting)
  BY LoopsAreFinite DEF Waiting
<1>3. QED
  BY <1>1, <1>2, FS_RemoveElement

\* The numbers of AnswersBalance are numbers.
LEMMA Counts ==
  ASSUME TypeOK, Bags
  PROVE  /\ Cardinality(Waiting) \in Nat /\ lost \in Nat
         /\ Cardinality(Copies(inflight)) \in Nat
         /\ Cardinality(Copies(results)) \in Nat
<1>1. Cardinality(Waiting) \in Nat
  BY LoopsAreFinite DEF Waiting
<1>2. QED
  BY <1>1, FS_CardinalityType DEF TypeOK, Bags, ABag

\* A call is answered later, or lost at once.
LEMMA CallBalances ==
  ASSUME IInv, NEW l \in Loops, DoCall(l)
  PROVE  Bags' /\ AnswersBalance' /\ BagToSet(inflight)' \subseteq Answers /\ lost' \in Nat
<1>1. Cardinality(Waiting)' = Cardinality(Waiting) + 1
  BY WaitsForOne DEF IInv, DoCall, AwaitResult
<1>2. [kind |-> stage[l], by |-> l] \in Answers
  BY DEF IInv, TypeOK, Answers
<1>3. /\ ABag(inflight) /\ ABag(results) /\ BagToSet(inflight) \subseteq Answers
      /\ Cardinality(Waiting) = Cardinality(Copies(inflight)) + Cardinality(Copies(results)) + lost
      /\ Cardinality(Waiting) \in Nat /\ lost \in Nat
      /\ Cardinality(Copies(inflight)) \in Nat /\ Cardinality(Copies(results)) \in Nat
  BY Counts DEF IInv, TypeOK, Bags, AnswersBalance
<1>4. CASE channel = "up"
  <2> DEFINE call == [kind |-> stage[l], by |-> l]
  <2>1. inflight' = inflight (+) SetToBag({call}) /\ lost' = lost /\ results' = results
    BY <1>4 DEF DoCall, Send
  <2> HIDE DEF call
  <2>2. /\ ABag(inflight') /\ BagToSet(inflight') = BagToSet(inflight) \cup {call}
        /\ Cardinality(Copies(inflight')) = Cardinality(Copies(inflight)) + 1
    BY <1>3, <2>1, OneMoreCopy
  <2>3. BagToSet(inflight') \subseteq Answers
    BY <1>2, <1>3, <2>2 DEF call
  <2>4. QED
    BY <1>1, <1>3, <2>1, <2>2, <2>3 DEF AnswersBalance, Bags
<1>5. CASE channel # "up"
  <2>1. lost' = lost + 1 /\ inflight' = inflight /\ results' = results
    BY <1>5 DEF DoCall, Send
  <2>2. QED
    BY <1>1, <1>3, <2>1 DEF AnswersBalance, Bags
<1>6. QED
  BY <1>4, <1>5

\* A result is taken by one run, which stops waiting.
LEMMA TakeBalances ==
  ASSUME IInv, NEW l \in Loops, NEW a, Take(l, a),
         NEW place, place # "wait", pc' = [pc EXCEPT ![l] = place]
  PROVE  Bags' /\ AnswersBalance' /\ BagToSet(results)' \subseteq Answers
<1>1. Cardinality(Waiting)' = Cardinality(Waiting) - 1
  BY WaitsNoMore DEF IInv, Take
<1>2. /\ ABag(results') /\ BagToSet(results') \subseteq BagToSet(results)
      /\ Cardinality(Copies(results')) = Cardinality(Copies(results)) - 1
  BY OneCopyLess DEF IInv, Bags, Take
<1>3. UNCHANGED <<inflight, lost>>
  BY DEF Take
<1>4. QED
  BY <1>1, <1>2, <1>3, Counts DEF IInv, AnswersBalance, Bags, TypeOK

\* Steps that move no answer, and no run into or out of wait_result.
LEMMA StillBalanced ==
  ASSUME IInv, UNCHANGED rpcVars, Waiting' = Waiting
  PROVE  Bags' /\ AnswersBalance'
BY DEF IInv, Bags, AnswersBalance, rpcVars

\* A run moves on, on its worker, or dies there.
LEMMA LoopMoves ==
  ASSUME IInv, NEW l \in Loops, NEW place \in {"call", "wait", "store", "dead"},
         pc[l] \in {"call", "wait", "store"}, pc' = [pc EXCEPT ![l] = place],
         UNCHANGED <<main, poolVars>>
  PROVE  LoopsInOrder' /\ LoopsInPool'
<1>1. \A m \in Loops : pc'[m] = "idle" <=> pc[m] = "idle"
  BY DEF IInv, TypeOK
<1>2. Alive' \subseteq Alive
  BY DEF IInv, TypeOK, Alive
<1>3. LoopsInOrder'
  BY <1>1 DEF IInv, LoopsInOrder, poolVars
<1>4. LoopsInPool'
  BY <1>1, <1>2, AgentAssumption DEF IInv, TypeOK, LoopsInPool, poolVars
<1>5. QED
  BY <1>3, <1>4

\* All that a step of main_loop of run l may change.
LEMMA LoopKeeps ==
  ASSUME IInv, NEW l \in Loops, LoopStep(l)
  PROVE  /\ LoopsInOrder' /\ LoopsInPool' /\ Bags' /\ AnswersBalance' /\ TypeOK'
<1> USE DEF IInv, TypeOK
<1>1. CASE DoCall(l)
  <2>1. LoopsInOrder' /\ LoopsInPool'
    BY <1>1, LoopMoves DEF DoCall, AwaitResult
  <2>2. Bags' /\ AnswersBalance' /\ BagToSet(inflight)' \subseteq Answers /\ lost' \in Nat
    BY <1>1, CallBalances
  <2>3. TypeOK'
    BY <1>1, <2>2 DEF DoCall, AwaitResult, poolVars
  <2>4. QED
    BY <2>1, <2>2, <2>3
<1>2. CASE StoreSession(l)
  <2>1. LoopsInOrder' /\ LoopsInPool'
    BY <1>2, LoopMoves DEF StoreSession
  <2>2. Waiting' = Waiting
    BY <1>2 DEF StoreSession, Waiting
  <2>3. Bags' /\ AnswersBalance'
    BY <1>2, <2>2, StillBalanced DEF StoreSession
  <2>4. TypeOK'
    BY <1>2, AgentAssumption DEF StoreSession, poolVars, rpcVars, Stages
  <2>5. QED
    BY <2>1, <2>3, <2>4
<1>3. ASSUME NEW a, Take(l, a), NEW place \in {"call", "store", "dead"},
             pc' = [pc EXCEPT ![l] = place]
      PROVE  /\ LoopsInOrder' /\ LoopsInPool' /\ Bags' /\ AnswersBalance'
             /\ BagToSet(results)' \subseteq Answers
  <2>1. LoopsInOrder' /\ LoopsInPool'
    BY <1>3, LoopMoves DEF Take
  <2>2. Bags' /\ AnswersBalance' /\ BagToSet(results)' \subseteq Answers
    BY <1>3, TakeBalances
  <2>3. QED
    BY <2>1, <2>2
<1>4. CASE auth(l)
  <2>1. PICK a \in Answers : Take(l, a) /\ got' = [got EXCEPT ![l] = a.by]
    BY <1>4 DEF auth
  <2>2. pc' = [pc EXCEPT ![l] = "store"] /\ UNCHANGED <<process, stage, session>>
    BY <1>4 DEF auth
  <2>3. a.by \in Loops
    BY DEF Answers
  <2>4. BagToSet(results)' \subseteq Answers
    BY <1>3, <2>1, <2>2
  <2>5. TypeOK'
    BY <2>1, <2>2, <2>3, <2>4, AgentAssumption DEF Take, poolVars
  <2>6. QED
    BY <1>3, <2>1, <2>2, <2>5
<1>5. CASE report_system_status(l) \/ get_pending_tasks(l)
  <2>1. PICK a \in Answers : Take(l, a)
    BY <1>5 DEF report_system_status, get_pending_tasks
  <2>2. /\ pc' = [pc EXCEPT ![l] = "call"]
        /\ stage' \in [Loops -> Stages] /\ UNCHANGED <<process, got, session>>
    BY <1>5 DEF report_system_status, get_pending_tasks, Stages
  <2>3. BagToSet(results)' \subseteq Answers
    BY <1>3, <2>1, <2>2
  <2>4. TypeOK'
    BY <2>1, <2>2, <2>3 DEF Take, poolVars
  <2>5. QED
    BY <1>3, <2>1, <2>2, <2>4
<1>6. CASE Misread(l)
  <2>1. PICK a \in Answers : Take(l, a)
    BY <1>6 DEF Misread
  <2>2. PICK place \in {"call", "store", "dead"} :
          /\ pc' = [pc EXCEPT ![l] = place] /\ UNCHANGED session
          /\ stage' \in [Loops -> Stages] /\ process' \in {"up", "terminated"}
          /\ got' = IF place = "store" THEN [got EXCEPT ![l] = Garbage] ELSE got
    BY <1>6 DEF Misread, Stages
  <2>3. BagToSet(results)' \subseteq Answers
    BY <1>3, <2>1, <2>2
  <2>4. got' \in [Loops -> Loops \cup {NoLoop, Garbage}]
        /\ \A m \in Loops : got'[m] # NoLoop <=> pc'[m] = "store"
    BY <2>1, <2>2, AgentAssumption DEF Take
  <2>5. TypeOK'
    BY <2>1, <2>2, <2>3, <2>4 DEF Take, poolVars
  <2>6. QED
    BY <1>3, <2>1, <2>2, <2>5
<1>7. QED
  BY <1>1, <1>2, <1>4, <1>5, <1>6 DEF LoopStep

\* What pongo_connect's pool does, starting and ending runs, keeps the invariant.
LEMMA PoolKeeps ==
  ASSUME IInv, NEW w \in Workers, StartLoop(w) \/ EndLoop(w)
  PROVE  IInv'
<1>1. CASE StartLoop(w)
  <2> DEFINE l == Pool!NextTask
  <2>1. /\ task[w] = NoLoop /\ open /\ task' = [task EXCEPT ![w] = l]
        /\ started' = Append(started, l) /\ pc' = [pc EXCEPT ![l] = "call"]
        /\ UNCHANGED <<submitted, open, main, process, channel, stage, got, session, rpcVars>>
    BY <1>1 DEF StartLoop, Pool!Start
  <2>2. /\ l = Len(started) + 1 /\ l \in Loops /\ pc[l] = "idle"
        /\ Len(started) < Len(submitted)
    BY <1>1, NextLoop DEF StartLoop, Pool!Start, Pool!SomethingQueued
  <2> HIDE DEF l
  <2>3. /\ Len(started') = Len(started) + 1 /\ started' \in Seq(Loops) /\ Len(started) \in Nat
        /\ \A i \in DOMAIN started' : started'[i] = i
    BY <2>1, <2>2 DEF IInv, TypeOK, LoopsInOrder
  <2>4. pc'[l] = "call" /\ \A m \in Loops \ {l} : pc'[m] = pc[m]
    BY <2>1, <2>2 DEF IInv, TypeOK
  <2>5. TypeOK'
    BY <2>1, <2>2, <2>3, <2>4 DEF IInv, TypeOK, rpcVars
  <2>6. LoopsInOrder'
    <3>1. Len(submitted) \in Nat /\ Len(started') <= Len(submitted)
      BY <2>2, <2>3 DEF IInv, TypeOK
    <3>2. ASSUME NEW m \in Loops PROVE pc'[m] # "idle" <=> m <= Len(started')
      <4>1. m \in Nat
        BY DEF Loops
      <4>2. QED
        BY <2>2, <2>3, <2>4, <4>1 DEF IInv, LoopsInOrder
    <3>3. QED
      BY <2>1, <2>3, <3>1, <3>2 DEF IInv, LoopsInOrder
  <2>7. LoopsInPool'
    <3>1. submitted # <<>>
      BY <2>2, <2>3 DEF IInv, TypeOK
    <3>2. main = "dispatch"
      BY <2>1, <3>1 DEF IInv, TypeOK, LoopsInPool
    <3>3. \A m \in Alive' : \E x \in Workers : task'[x] = m
      <4>1. SUFFICES ASSUME NEW m \in Alive' PROVE \E x \in Workers : task'[x] = m
        OBVIOUS
      <4>2. CASE m = l
        BY <2>1, <4>2 DEF IInv, TypeOK
      <4>3. CASE m # l
        <5>1. m \in Alive /\ m \in Loops
          BY <2>4, <4>3 DEF Alive
        <5>2. PICK x \in Workers : task[x] = m
          BY <5>1 DEF IInv, LoopsInPool
        <5>3. x # w
          BY <2>1, <5>1, <5>2, AgentAssumption
        <5>4. QED
          BY <2>1, <5>2, <5>3 DEF IInv, TypeOK
      <4>4. QED
        BY <4>2, <4>3
    <3>4. ASSUME NEW x \in Workers, task'[x] # NoLoop PROVE pc'[task'[x]] # "idle"
      <4>1. CASE x = w
        BY <2>1, <2>4, <4>1 DEF IInv, TypeOK
      <4>2. CASE x # w
        <5>1. task'[x] = task[x] /\ task[x] \in Loops /\ pc[task[x]] # "idle"
          BY <2>1, <3>4, <4>2 DEF IInv, TypeOK, LoopsInPool
        <5>2. QED
          BY <2>4, <5>1
      <4>3. QED
        BY <4>1, <4>2
    <3>5. QED
      BY <2>1, <3>2, <3>3, <3>4 DEF LoopsInPool
  <2>8. Waiting' = Waiting
    BY <2>2, <2>4 DEF Waiting
  <2>9. QED
    BY <2>1, <2>5, <2>6, <2>7, <2>8, StillBalanced DEF IInv
<1>2. CASE EndLoop(w)
  <2>1. /\ task[w] \in Dead /\ task' = [task EXCEPT ![w] = NoLoop]
        /\ UNCHANGED <<submitted, started, open, main, process, channel, loopVars, rpcVars>>
    BY <1>2 DEF EndLoop, Over, Pool!Finish
  <2>2. TypeOK' /\ LoopsInOrder' /\ Waiting' = Waiting
    BY <2>1 DEF IInv, TypeOK, LoopsInOrder, Waiting, loopVars, rpcVars
  <2>3. LoopsInPool'
    <3>1. \A m \in Alive' : \E x \in Workers : task'[x] = m
      <4>1. SUFFICES ASSUME NEW m \in Alive PROVE \E x \in Workers : task'[x] = m
        BY <2>1 DEF Alive, loopVars
      <4>2. PICK x \in Workers : task[x] = m
        BY DEF IInv, LoopsInPool
      <4>3. x # w
        BY <2>1, <4>2 DEF Alive, Dead
      <4>4. QED
        BY <2>1, <4>2, <4>3 DEF IInv, TypeOK
    <3>2. \A x \in Workers : task'[x] # NoLoop => task'[x] = task[x]
      BY <2>1 DEF IInv, TypeOK
    <3>3. QED
      BY <2>1, <3>1, <3>2 DEF IInv, LoopsInPool, loopVars
  <2>4. QED
    BY <2>1, <2>2, <2>3, StillBalanced DEF IInv
<1>3. QED
  BY <1>1, <1>2

\* What zRPC does, callbacks and deliveries, keeps the invariant.
LEMMA ChannelKeeps ==
  ASSUME IInv, connect_callback \/ disconnect_callback \/ Deliver
  PROVE  IInv'
<1>1. CASE connect_callback
  <2> DEFINE n == Len(submitted) + 1
  <2>1. /\ main = "dispatch" /\ channel' = "up" /\ submitted' = Append(submitted, n)
        /\ UNCHANGED <<started, task, open, main, process, loopVars, rpcVars>>
        /\ n \in Loops /\ n <= MaxConnects
    BY <1>1, LoopsAreFinite DEF connect_callback, Pool!Submit, IInv, TypeOK, Loops
  <2>2. TypeOK'
    BY <2>1 DEF IInv, TypeOK, loopVars, rpcVars
  <2>3. LoopsInOrder'
    BY <2>1, LoopsAreFinite DEF IInv, TypeOK, LoopsInOrder, loopVars
  <2>4. LoopsInPool' /\ Waiting' = Waiting
    BY <2>1 DEF IInv, LoopsInPool, loopVars, Alive, Waiting
  <2>5. QED
    BY <2>1, <2>2, <2>3, <2>4, StillBalanced DEF IInv
<1>2. ASSUME UNCHANGED <<main, process, poolVars, loopVars>>
      PROVE  LoopsInOrder' /\ LoopsInPool' /\ Waiting' = Waiting
  BY <1>2 DEF IInv, LoopsInOrder, LoopsInPool, poolVars, loopVars, Alive, Waiting
<1>3. CASE disconnect_callback
  <2>1. /\ UNCHANGED <<main, process, poolVars, loopVars>> /\ channel' = "down"
        /\ inflight' = EmptyBag /\ lost' = lost + Cardinality(Copies(inflight)) /\ results' = results
    BY <1>3 DEF disconnect_callback
  <2>2. Bags' /\ AnswersBalance' /\ lost' \in Nat
    BY <1>2, <2>1, NoCopies, Counts DEF IInv, Bags, AnswersBalance
  <2>3. TypeOK'
    BY <2>1, <2>2, NoCopies DEF IInv, TypeOK, poolVars, loopVars
  <2>4. QED
    BY <1>2, <2>1, <2>2, <2>3 DEF IInv
<1>4. CASE Deliver
  <2>1. PICK a \in BagToSet(inflight) :
          inflight' = inflight (-) SetToBag({a}) /\ results' = results (+) SetToBag({a})
    BY <1>4 DEF Deliver
  <2>2. UNCHANGED <<main, process, channel, poolVars, loopVars, lost>>
    BY <1>4 DEF Deliver
  <2>3. /\ ABag(inflight') /\ BagToSet(inflight') \subseteq BagToSet(inflight)
        /\ Cardinality(Copies(inflight')) = Cardinality(Copies(inflight)) - 1
    BY <2>1, OneCopyLess DEF IInv, Bags
  <2>4. /\ ABag(results') /\ BagToSet(results') = BagToSet(results) \cup {a}
        /\ Cardinality(Copies(results')) = Cardinality(Copies(results)) + 1
    BY <2>1, OneMoreCopy DEF IInv, Bags
  <2>5. Bags' /\ AnswersBalance'
    BY <1>2, <2>2, <2>3, <2>4, Counts DEF IInv, Bags, AnswersBalance
  <2>6. TypeOK'
    BY <2>2, <2>3, <2>4 DEF IInv, TypeOK, poolVars, loopVars
  <2>7. QED
    BY <1>2, <2>2, <2>5, <2>6 DEF IInv
<1>5. QED
  BY <1>1, <1>3, <1>4

\* What main does keeps the invariant.
LEMMA MainKeeps ==
  ASSUME IInv, Connect \/ Help \/ BadOptions \/ DeleteConnect \/ Exit \/ Stopped \/ UNCHANGED vars
               \/ \E l \in Loops : ReadsFreedSession(l)
  PROVE  IInv'
<1>1. /\ UNCHANGED <<channel, submitted, started, task, loopVars, rpcVars>>
      /\ main' \in {"start", "dispatch", "joining", "exited"} /\ process' \in {"up", "terminated"}
      /\ open' \in BOOLEAN /\ (~open => ~open')
      /\ main' = "start" => main = "start"
      /\ main' = "joining" => ~open'
      /\ main' = "exited" => ~open' \/ submitted = <<>>
  <2>1. CASE Connect \/ Help
    BY <2>1 DEF IInv, TypeOK, LoopsInPool, Connect, Help, poolVars
  <2>2. CASE BadOptions \/ \E l \in Loops : ReadsFreedSession(l)
    BY <2>2 DEF IInv, TypeOK, LoopsInPool, BadOptions, ReadsFreedSession, poolVars
  <2>3. CASE DeleteConnect
    <3>1. open' = FALSE /\ main' = "joining"
      BY <2>3 DEF DeleteConnect, Pool!Close
    <3>2. QED
      BY <2>3, <3>1 DEF IInv, TypeOK, DeleteConnect, Pool!Close
  <2>4. CASE Exit
    BY <2>4 DEF IInv, TypeOK, LoopsInPool, Exit, poolVars
  <2>5. CASE Stopped \/ UNCHANGED vars
    BY <2>5 DEF IInv, TypeOK, LoopsInPool, Stopped, vars, poolVars
  <2>6. QED
    BY <2>1, <2>2, <2>3, <2>4, <2>5
<1>2. main' = "exited" => \A w \in Workers : task[w] = NoLoop
  <2>1. CASE Help
    <3>1. submitted = <<>> /\ Len(started) = 0
      BY <2>1 DEF Help, IInv, TypeOK, LoopsInPool, LoopsInOrder
    <3>2. \A l \in Loops : pc[l] = "idle"
      BY <3>1 DEF IInv, LoopsInOrder, Loops
    <3>3. QED
      BY <3>2 DEF IInv, TypeOK, LoopsInPool
  <2>2. CASE Exit
    BY <2>2 DEF Exit, Joined
  <2>3. CASE main' = main
    BY <2>3 DEF IInv, LoopsInPool
  <2>4. QED
    BY <2>1, <2>2, <2>3 DEF Connect, BadOptions, DeleteConnect, Stopped, ReadsFreedSession, vars
<1>3. TypeOK' /\ LoopsInOrder' /\ Waiting' = Waiting
  BY <1>1 DEF IInv, TypeOK, LoopsInOrder, Waiting, loopVars, rpcVars
<1>4. LoopsInPool'
  BY <1>1, <1>2 DEF IInv, LoopsInPool, loopVars, Alive
<1>5. QED
  BY <1>1, <1>3, <1>4, StillBalanced DEF IInv

\* Every step keeps the invariant.
LEMMA InvStep == IInv /\ [Next]_vars => IInv'
<1> SUFFICES ASSUME IInv, [Next]_vars PROVE IInv'
  OBVIOUS
<1>1. ASSUME NEW l \in Loops, LoopStep(l) PROVE IInv'
  BY <1>1, LoopKeeps DEF IInv
<1>2. CASE PoolStep
  BY <1>2, PoolKeeps DEF PoolStep
<1>3. CASE Dispatch
  BY <1>3, ChannelKeeps DEF Dispatch
<1>4. CASE Environment
  BY <1>4, ChannelKeeps, MainKeeps DEF Environment
<1>5. CASE Leave \/ Stopped \/ UNCHANGED vars
  BY <1>5, MainKeeps DEF Leave
<1>6. QED
  BY <1>1, <1>2, <1>3, <1>4, <1>5 DEF Next

\* The invariant holds always.
LEMMA Invariance == Spec => []IInv
BY InvInit, InvStep, PTL DEF Spec

-----------------------------------------------------------------------------
(* One run alone *)

\* While no second run has begun, there is no answer but to the call that run 1
\* waits for, and no session but its own.
OneLoopSoFar ==
  Len(started) <= 1 =>
    /\ \A a \in BagToSet(inflight) \cup BagToSet(results) :
         1 \in Loops /\ pc[1] = "wait" /\ a.by = 1 /\ a.kind = stage[1]
    /\ 1 \in Loops /\ stage[1] # "auth" => Len(started) = 1 /\ session # NoLoop
    /\ Len(started) = 1 /\ (process = "terminated" \/ 1 \in Dead) => stage[1] = "auth"

\* When nobody waits nothing is on its way.
LEMMA NobodyWaits ==
  ASSUME NEW few, NEW many, ABag(few), ABag(many), NEW none \in Nat,
         Cardinality(Copies(few)) + Cardinality(Copies(many)) + none = 0
  PROVE  BagToSet(few) = {} /\ BagToSet(many) = {}
<1>1. Cardinality(Copies(few)) = 0 /\ Cardinality(Copies(many)) = 0
  BY FS_CardinalityType DEF ABag
<1>2. Copies(few) = {} /\ Copies(many) = {}
  BY <1>1, FS_EmptySet DEF ABag
<1>3. QED
  BY <1>2, NoCopies DEF ABag

\* The only run is the first.
LEMMA OneStarted ==
  ASSUME TypeOK, LoopsInOrder, Len(started) = 1
  PROVE  started[1] = 1 /\ 1 \in Loops
<1>1. 1 \in DOMAIN started
  BY DEF TypeOK
<1>2. started[1] = 1
  BY <1>1 DEF LoopsInOrder
<1>3. started \in Seq(Loops)
  BY DEF TypeOK
<1>4. started[1] \in Loops
  BY <1>1, <1>3
<1>5. QED
  BY <1>2, <1>4

\* With one run at most, no answer is left once it waits no more.
LEMMA OneLoopTakes ==
  ASSUME IInv', Len(started)' <= 1, pc'[1] # "wait"
  PROVE  BagToSet(inflight)' = {} /\ BagToSet(results)' = {}
<1>1. Waiting' = {}
  BY DEF Waiting, Loops, IInv, TypeOK, LoopsInOrder
<1>2. Cardinality(Waiting)' = 0
  BY <1>1, FS_EmptySet
<1>3. QED
  BY <1>2, NobodyWaits DEF IInv, TypeOK, Bags, AnswersBalance

LEMMA OnlyOne ==
  ASSUME NEW l \in Nat, NEW n \in Nat, l >= 1, l <= n, n <= 1
  PROVE  l = 1 /\ n = 1
OBVIOUS

\* Until a second run begins, no step makes the first one less than safe.
LEMMA OneLoopStep ==
  ASSUME IInv, IInv', OneLoopSoFar, Next
  PROVE  OneLoopSoFar'
<1> SUFFICES ASSUME Len(started') <= 1 PROVE OneLoopSoFar'
  BY DEF OneLoopSoFar
<1>1. ASSUME NEW l \in Loops, LoopStep(l) PROVE OneLoopSoFar'
  <2>1. l = 1 /\ Len(started) = 1 /\ UNCHANGED started
    <3>1. pc[l] # "idle" /\ UNCHANGED started
      BY <1>1 DEF LoopStep, DoCall, auth, StoreSession, report_system_status, get_pending_tasks,
         Misread, Take, poolVars
    <3>2. l \in Nat /\ l >= 1 /\ l <= Len(started) /\ Len(started) \in Nat
      BY <3>1 DEF IInv, TypeOK, LoopsInOrder, Loops
    <3>3. Len(started) <= 1
      BY <3>1
    <3>4. l = 1 /\ Len(started) = 1
      BY <3>2, <3>3, OnlyOne
    <3>5. QED
      BY <3>1, <3>4
  <2>2. ~Racing(1)
    BY <2>1 DEF Racing, Loops, IInv, TypeOK, LoopsInOrder
  <2>3. process = "up" /\ 1 \in Loops /\ (stage[1] # "auth" => session # NoLoop)
    BY <1>1, <2>1 DEF OneLoopSoFar, LoopStep
  <2>4. CASE DoCall(1)
    <3>1. BagToSet(inflight) = {} /\ BagToSet(results) = {}
      BY <2>1, <2>4 DEF OneLoopSoFar, DoCall
    <3>2. pc'[1] = "wait" /\ UNCHANGED <<stage, got, session, process, results>>
      BY <2>3, <2>4 DEF DoCall, AwaitResult, IInv, TypeOK
    <3>3. \A a \in BagToSet(inflight)' : a = [kind |-> stage[1], by |-> 1]
      <4>1. CASE channel = "up"
        <5> DEFINE call == [kind |-> stage[1], by |-> 1]
        <5>1. inflight' = inflight (+) SetToBag({call})
          BY <2>4, <4>1 DEF DoCall, Send
        <5> HIDE DEF call
        <5>2. ABag(inflight)
          BY DEF IInv, Bags
        <5>3. BagToSet(inflight') = BagToSet(inflight) \cup {call}
          BY <5>1, <5>2, OneMoreCopy
        <5>4. QED
          BY <3>1, <5>3 DEF call
      <4>2. CASE channel # "up"
        BY <2>4, <3>1, <4>2 DEF DoCall, Send
      <4>3. QED
        BY <4>1, <4>2
    <3>4. QED
      BY <2>1, <2>3, <3>1, <3>2, <3>3 DEF OneLoopSoFar, Dead
  <2>5. CASE /\ pc'[1] \in {"call", "store", "dead"}
             /\ stage'[1] # "auth" =>
                  pc'[1] # "dead" /\ process' = "up" /\ session' # NoLoop
    BY <2>1, <2>3, <2>5, OneLoopTakes DEF OneLoopSoFar, Dead
  <2>6. CASE StoreSession(1)
    <3>1. got[1] # NoLoop /\ session' = got[1] /\ process' = "up"
      BY <2>2, <2>3, <2>6 DEF StoreSession, IInv, TypeOK
    <3>2. pc'[1] = "call"
      BY <2>3, <2>6 DEF StoreSession, IInv, TypeOK
    <3>3. QED
      BY <2>5, <3>1, <3>2
  <2>7. CASE auth(1)
    <3>1. pc'[1] = "store" /\ UNCHANGED <<process, stage, session>>
      BY <2>3, <2>7 DEF auth, IInv, TypeOK
    <3>2. QED
      BY <2>3, <2>5, <3>1
  <2>8. CASE report_system_status(1) \/ get_pending_tasks(1)
    <3>1. pc'[1] = "call" /\ stage[1] # "auth" /\ UNCHANGED <<process, session>>
      BY <2>3, <2>8 DEF report_system_status, get_pending_tasks, IInv, TypeOK
    <3>2. QED
      BY <2>3, <2>5, <3>1
  <2>9. CASE Misread(1)
    <3>1. \A a \in BagToSet(results) : a.kind = stage[1]
      BY <2>1 DEF OneLoopSoFar
    <3>2. stage[1] = "auth"
      BY <2>9, <3>1 DEF Misread, Take
    <3>3. UNCHANGED stage /\ pc'[1] \in {"store", "dead"}
      BY <2>3, <2>9, <3>2 DEF Misread, IInv, TypeOK
    <3>4. QED
      BY <2>5, <3>2, <3>3
  <2>10. QED
    BY <1>1, <2>1, <2>4, <2>6, <2>7, <2>8, <2>9 DEF LoopStep
<1>2. ASSUME NEW w \in Workers, process = "up", StartLoop(w) PROVE OneLoopSoFar'
  <2>1. started' = Append(started, Pool!NextTask) /\ pc' = [pc EXCEPT ![Pool!NextTask] = "call"]
        /\ UNCHANGED <<process, stage, got, session, rpcVars>>
        /\ Len(started) < Len(submitted)
    BY <1>2 DEF StartLoop, Pool!Start, Pool!SomethingQueued
  <2>2. Len(started) = 0 /\ Pool!NextTask = 1 /\ 1 \in Loops /\ pc[1] = "idle"
    BY <2>1, NextLoop DEF IInv, TypeOK
  <2>3. pc'[1] = "call" /\ got[1] = NoLoop
    BY <2>1, <2>2 DEF IInv, TypeOK
  <2>4. stage'[1] = "auth"
    BY <2>1, <2>2 DEF OneLoopSoFar
  <2>5. QED
    BY <1>2, <2>1, <2>2, <2>3, <2>4, OneLoopTakes DEF OneLoopSoFar, Dead
<1>3. ASSUME UNCHANGED <<started, loopVars>>, process' = process \/ Len(started) = 0,
             BagToSet(inflight)' \cup BagToSet(results)' \subseteq BagToSet(inflight) \cup BagToSet(results)
      PROVE  OneLoopSoFar'
  <2>1. Len(started) \in Nat /\ UNCHANGED <<pc, stage, got, session>>
    BY <1>3 DEF IInv, TypeOK, loopVars
  <2>2. QED
    BY <1>3, <2>1 DEF OneLoopSoFar, Dead
<1>4. CASE \E w \in Workers : EndLoop(w)
  BY <1>3, <1>4 DEF EndLoop, Pool!Finish, rpcVars, loopVars
<1>5. CASE Deliver
  <2>1. PICK a \in BagToSet(inflight) :
          inflight' = inflight (-) SetToBag({a}) /\ results' = results (+) SetToBag({a})
    BY <1>5 DEF Deliver
  <2>2. BagToSet(inflight') \subseteq BagToSet(inflight)
    BY <2>1, OneCopyLess DEF IInv, Bags
  <2>3. BagToSet(results') = BagToSet(results) \cup {a}
    BY <2>1, OneMoreCopy DEF IInv, Bags
  <2>4. QED
    BY <1>3, <1>5, <2>2, <2>3 DEF Deliver, poolVars
<1>6. CASE disconnect_callback
  BY <1>3, <1>6, NoCopies DEF disconnect_callback, poolVars
<1>7. CASE connect_callback \/ Connect \/ Help \/ DeleteConnect \/ Exit \/ Stopped
  BY <1>3, <1>7 DEF connect_callback, Connect, Help, DeleteConnect, Exit, Stopped, Pool!Submit,
     Pool!Close, vars, poolVars, rpcVars
<1>8. CASE BadOptions
  <2>1. Len(started) = 0
    BY <1>8 DEF BadOptions, IInv, TypeOK, LoopsInPool, LoopsInOrder
  <2>2. QED
    BY <1>3, <1>8, <2>1 DEF BadOptions, poolVars, rpcVars
<1>9. ASSUME NEW l \in Loops PROVE ~ReadsFreedSession(l)
  BY DEF ReadsFreedSession, Racing, IInv, TypeOK, LoopsInOrder, Loops, poolVars
<1>10. QED
  BY <1>1, <1>2, <1>4, <1>5, <1>6, <1>7, <1>8, <1>9 DEF Next, Dispatch, PoolStep, Leave, Environment

\* The two invariants together hold always.
LEMMA OneLoopInvariance == Spec => [](IInv /\ OneLoopSoFar)
<1>1. Init => IInv /\ OneLoopSoFar
  <2>1. Init => OneLoopSoFar
    BY NoCopies DEF Init, Pool!Init, OneLoopSoFar, FirstStage
  <2>2. QED
    BY <2>1, InvInit
<1>2. IInv /\ OneLoopSoFar /\ [Next]_vars => (IInv /\ OneLoopSoFar)'
  <2>1. CASE Next
    BY <2>1, InvStep, OneLoopStep
  <2>2. CASE UNCHANGED vars
    BY <2>2, InvStep DEF OneLoopSoFar, Dead, vars, poolVars, loopVars, rpcVars
  <2>3. QED
    BY <2>1, <2>2
<1>3. QED
  BY <1>1, <1>2, PTL DEF Spec

-----------------------------------------------------------------------------

(***************************************************************************)
(* Every variable of the agent keeps its type, and a run holds a session   *)
(* that it has not stored exactly between call_auth and the assignment.    *)
(***************************************************************************)
THEOREM TypeCorrect == Spec => []TypeOK
<1>1. IInv => TypeOK
  BY DEF IInv
<1>2. QED
  BY <1>1, Invariance, PTL

(***************************************************************************)
(* The runs that are in zRPC_caller_wait_result are as many as the answers *)
(* on their way, held by the caller, or lost with a channel, whoever took  *)
(* whose answer before.                                                    *)
(***************************************************************************)
THEOREM AnswersBalanceRuns == Spec => []AnswersBalance
<1>1. IInv => AnswersBalance
  BY DEF IInv
<1>2. QED
  BY <1>1, Invariance, PTL

(***************************************************************************)
(* main_loop never returns: of the runs that have begun, those that have   *)
(* not died of an exception sit on as many workers of pongo_connect's pool.*)
(***************************************************************************)
THEOREM LoopsKeepWorkers == Spec => []LoopsNeedWorkers
<1>1. IInv => LoopsNeedWorkers
  <2> SUFFICES ASSUME IInv PROVE LoopsNeedWorkers
    OBVIOUS
  <2>1. IsFiniteSet(Alive) /\ IsFiniteSet(Dead) /\ Cardinality(Dead) \in Nat
        /\ Cardinality(Alive) \in Nat
    BY LoopsAreFinite DEF Alive, Dead
  <2>2. Cardinality(Alive) <= Cardinality(Workers)
    <3> DEFINE seat == [l \in Alive |-> CHOOSE w \in Workers : task[w] = l]
    <3>1. \A l \in Alive : seat[l] \in Workers /\ task[seat[l]] = l
      BY DEF IInv, LoopsInPool
    <3>2. seat \in Injection(Alive, Workers)
      BY <3>1 DEF Injection, IsInjective
    <3>3. QED
      BY <3>2, AgentAssumption, FS_Injection
  <2>3. 1 .. Len(started) = Alive \cup Dead
    BY LoopsAreFinite DEF IInv, TypeOK, LoopsInOrder, Loops, Alive, Dead
  <2>4. Cardinality(1 .. Len(started)) = Len(started) /\ Len(started) \in Nat
    <3>1. Len(started) \in Nat
      BY DEF IInv, TypeOK
    <3>2. QED
      BY <3>1, FS_Interval
  <2>5. Cardinality(Alive \cap Dead) = 0
    <3>1. Alive \cap Dead = {}
      BY DEF Alive, Dead
    <3>2. QED
      BY <3>1, FS_EmptySet
  <2>6. Cardinality(Alive \cup Dead) = Cardinality(Alive) + Cardinality(Dead)
    <3>1. Cardinality(Alive \cup Dead) =
            Cardinality(Alive) + Cardinality(Dead) - Cardinality(Alive \cap Dead)
      BY <2>1, FS_Union, Zenon
    <3>2. QED
      BY <2>1, <2>5, <3>1
  <2>7. Cardinality(Workers) \in Nat
    BY AgentAssumption, FS_CardinalityType
  <2>8. Len(started) = Cardinality(Alive) + Cardinality(Dead)
    BY <2>3, <2>4, <2>6
  <2>9. QED
    BY <2>1, <2>2, <2>4, <2>7, <2>8 DEF LoopsNeedWorkers
<1>2. QED
  BY <1>1, Invariance, PTL

(***************************************************************************)
(* When main returns, and the singletons are destroyed, no run of          *)
(* main_loop is left that uses them, and none begins after.                *)
(***************************************************************************)
THEOREM LoopsAreOverAtExit == Spec => []LoopsEndBeforeExit
<1>1. IInv => LoopsEndBeforeExit
  BY AgentAssumption DEF IInv, LoopsInPool, LoopsEndBeforeExit, Alive
<1>2. QED
  BY <1>1, Invariance, PTL

(***************************************************************************)
(* One run, through any number of channel failures, only ever finds the    *)
(* answer to its own latest call, reports with a session, and can be       *)
(* harmed only by call_auth's read of a result it has destroyed.           *)
(***************************************************************************)
THEOREM OneLoopAloneIsSafe == Spec => []OneLoopIsSafe
<1>1. IInv /\ OneLoopSoFar => OneLoopIsSafe
  <2> SUFFICES ASSUME IInv, OneLoopSoFar, Len(started) = 1
               PROVE  /\ \A a \in BagToSet(inflight) \cup BagToSet(results) :
                           pc[1] = "wait" /\ a = [kind |-> stage[1], by |-> 1]
                      /\ stage[1] # "auth" => session # NoLoop
                      /\ process = "terminated" \/ 1 \in Dead => stage[1] = "auth"
    <3>1. IInv /\ Len(started) = 1 => started[1] = 1
      BY OneStarted DEF IInv
    <3>2. QED
      BY <3>1 DEF OneLoopIsSafe
  <2>1. 1 \in Loops
    BY OneStarted DEF IInv
  <2>2. \A a \in BagToSet(inflight) \cup BagToSet(results) : a = [kind |-> a.kind, by |-> a.by]
    BY DEF IInv, TypeOK, Answers
  <2>3. QED
    BY <2>1, <2>2 DEF OneLoopSoFar
<1>2. QED
  BY <1>1, OneLoopInvariance, PTL
=============================================================================
