-------------------------------- MODULE Agent --------------------------------
(***************************************************************************)
(* The agent as main.cpp wires it up: pongo_connect pushes one run of      *)
(* pongo_protocol::main_loop onto its pool for each activation of the      *)
(* channel to the manager, and each run talks to the manager through the   *)
(* one zRPC caller all of them share.                                      *)
(*                                                                         *)
(* The pool is what TaskPool promises (ThreadPool implements it): its      *)
(* tasks are the runs of main_loop, numbered by activation.  zRPC and the  *)
(* manager are outside the repository and are modelled from the calls made *)
(* on them: zRPC_caller_wait_result is given the caller and nothing that   *)
(* names a call, so it may return any result the caller has received.      *)
(*                                                                         *)
(* A run's stage is the call it is at; its pc is                           *)
(*   "idle"   not started                                                  *)
(*   "call"   about to make the call (after collecting, or sleeping)       *)
(*   "wait"   in zRPC_caller_wait_result                                   *)
(*   "store"  auth has returned, session is about to be assigned           *)
(*   "dead"   main_loop was left by a std::exception, which the pool eats  *)
(***************************************************************************)
EXTENDS Naturals, Sequences, FiniteSets, Bags

CONSTANTS
  Workers,            \* the threads of pongo_connect's pool
  MaxConnects,        \* bound: activations of the channel
  NoLoop,             \* no activation: an idle worker, or no session yet
  Garbage             \* a session read from memory that is not one

Loops == 1 .. MaxConnects

ASSUME AgentAssumption ==
  /\ IsFiniteSet(Workers) /\ Workers # {}
  /\ MaxConnects \in Nat
  /\ NoLoop \notin Loops /\ Garbage \notin Loops /\ Garbage # NoLoop

Stages == {"auth", "report", "tasks"}

FirstStage == "auth"

\* What the manager answers: the call it answers is all that tells it apart.
\* The session in an "auth" answer is named by the run that asked for it.
Answers == [kind : Stages, by : Loops]

VARIABLES
  main,      \* main(): "start", "dispatch", "joining" (in delete connect), "exited"
  process,   \* "up", or "terminated" by undefined behaviour or an exception
  channel,   \* "up" or "down"
  submitted, started, task, open,   \* the pool, as TaskPool has them
  pc, stage, \* where each run of main_loop is
  got,       \* the session call_auth returned to a run that has yet to store it
  session,   \* pongo_protocol::session, shared by the runs
  inflight,  \* bag of the answers still to come
  results,   \* bag of the answers the caller holds for wait_result
  lost       \* history: how many calls will never be answered

poolVars == <<submitted, started, task, open>>
loopVars == <<pc, stage, got, session>>
rpcVars == <<inflight, results, lost>>
vars == <<main, process, channel, poolVars, loopVars, rpcVars>>

\* Nothing interrupts the pool's threads, so none leaves before the close.
Pool == INSTANCE TaskPool WITH Tasks <- Loops, NoTask <- NoLoop, staff <- Workers

\* The answers of a bag, copy by copy.
Copies(bag) == UNION {{a} \X (1 .. bag[a]) : a \in BagToSet(bag)}

Waiting == {l \in Loops : pc[l] = "wait"}
Alive == {l \in Loops : pc[l] \in {"call", "wait", "store"}}
Dead == {l \in Loops : pc[l] = "dead"}

Init ==
  /\ main = "start" /\ process = "up" /\ channel = "down"
  /\ Pool!Init
  /\ pc = [l \in Loops |-> "idle"]
  /\ stage = [l \in Loops |-> FirstStage]
  /\ got = [l \in Loops |-> NoLoop]
  /\ session = NoLoop
  /\ inflight = EmptyBag /\ results = EmptyBag /\ lost = 0

-----------------------------------------------------------------------------
(* main *)

Connect ==
  /\ main = "start"
  /\ main' = "dispatch"
  /\ UNCHANGED <<process, channel, poolVars, loopVars, rpcVars>>

\* --help prints the options and returns.
Help ==
  /\ main = "start"
  /\ main' = "exited"
  /\ UNCHANGED <<process, channel, poolVars, loopVars, rpcVars>>

\* The options do not parse, or there is no --key and the cast of it throws.
BadOptions ==
  /\ main = "start"
  /\ process' = "terminated"
  /\ UNCHANGED <<main, channel, poolVars, loopVars, rpcVars>>

\* zRPC_context_dispatch returns and connect is deleted: its pool closes.
DeleteConnect ==
  /\ main = "dispatch"
  /\ main' = "joining"
  /\ Pool!Close
  /\ UNCHANGED <<process, channel, loopVars, rpcVars>>

\* Mutant: the pool's threads are not joined.
Joined_Detached == TRUE

Joined == \A w \in Workers : task[w] = NoLoop

\* The pool's threads are joined, main returns, the singletons are destroyed.
Exit ==
  /\ main = "joining"
  /\ Joined
  /\ main' = "exited"
  /\ UNCHANGED <<process, channel, poolVars, loopVars, rpcVars>>

-----------------------------------------------------------------------------
(* pongo_connect's callbacks, on the thread that dispatches *)

connect_callback ==
  /\ main = "dispatch" /\ channel = "down"
  /\ Len(submitted) < MaxConnects
  /\ channel' = "up"
  /\ Pool!Submit(Len(submitted) + 1)
  /\ UNCHANGED <<main, process, loopVars, rpcVars>>

\* The callback itself does nothing: no run is told that its answer is lost.
disconnect_callback ==
  /\ main = "dispatch" /\ channel = "up"
  /\ channel' = "down"
  /\ inflight' = EmptyBag
  /\ lost' = lost + Cardinality(Copies(inflight))
  /\ UNCHANGED <<main, process, poolVars, loopVars, results>>

\* The manager's answer to some call reaches the caller.
Deliver ==
  /\ main = "dispatch" /\ channel = "up"
  /\ \E a \in BagToSet(inflight) :
       /\ inflight' = inflight (-) SetToBag({a})
       /\ results' = results (+) SetToBag({a})
  /\ UNCHANGED <<main, process, channel, poolVars, loopVars, lost>>

-----------------------------------------------------------------------------
(* pongo_protocol::main_loop *)

StartLoop(w) ==
  /\ Pool!Start(w)
  /\ pc' = [pc EXCEPT ![Pool!NextTask] = "call"]
  /\ UNCHANGED <<main, process, channel, stage, got, session, rpcVars>>

\* Mutant: the worker looks for its next task while main_loop still runs.
Over_Early(w) == TRUE

\* Mutant: the task is kept by its worker after main_loop was left.
Over_Never(w) == FALSE

Over(w) == task[w] \in Dead

EndLoop(w) ==
  /\ Over(w)
  /\ Pool!Finish(w)
  /\ UNCHANGED <<main, process, channel, loopVars, rpcVars>>

\* Another run may be in the middle of assigning session.
Racing(l) == \E m \in Loops \ {l} : pc[m] = "store"

\* Mutant: the result is waited for and the call is never made.
Send_Not(l) == UNCHANGED <<inflight, lost>>

\* zRPC_caller_do_call, whose outcome is not looked at.
Send(l) ==
  IF channel = "up"
    THEN /\ inflight' = inflight (+) SetToBag({[kind |-> stage[l], by |-> l]})
         /\ UNCHANGED lost
    ELSE lost' = lost + 1 /\ UNCHANGED inflight

\* Mutant: the report is sent and its result is not waited for.
AwaitResult_NotOfReports(l) ==
  IF stage[l] = "report"
    THEN stage' = [stage EXCEPT ![l] = "tasks"] /\ UNCHANGED pc
    ELSE pc' = [pc EXCEPT ![l] = "wait"] /\ UNCHANGED stage

AwaitResult(l) == pc' = [pc EXCEPT ![l] = "wait"] /\ UNCHANGED stage

DoCall(l) ==
  /\ pc[l] = "call"
  /\ Send(l)
  /\ AwaitResult(l)
  /\ UNCHANGED <<main, process, channel, poolVars, got, session, results>>

\* report and get_pending_tasks copy session while another run overwrites it.
ReadsFreedSession(l) ==
  /\ pc[l] = "call" /\ stage[l] # "auth" /\ Racing(l)
  /\ process' = "terminated"
  /\ UNCHANGED <<main, channel, poolVars, loopVars, rpcVars>>

\* zRPC_caller_wait_result returns a.
Take(l, a) ==
  /\ pc[l] = "wait"
  /\ a \in BagToSet(results)
  /\ results' = results (-) SetToBag({a})
  /\ UNCHANGED <<main, channel, poolVars, inflight, lost>>

\* call_auth gets a session, of whichever run asked for it.
auth(l) ==
  /\ stage[l] = "auth"
  /\ \E a \in Answers :
       /\ Take(l, a)
       /\ a.kind = "auth"
       /\ got' = [got EXCEPT ![l] = a.by]
  /\ pc' = [pc EXCEPT ![l] = "store"]
  /\ UNCHANGED <<process, stage, session>>

\* Mutant: call_auth's result is left where it is.
StoreSession_Kept(l) ==
  /\ pc[l] = "store"
  /\ pc' = [pc EXCEPT ![l] = "call"]
  /\ stage' = [stage EXCEPT ![l] = "report"]
  /\ session' = got[l]
  /\ UNCHANGED <<main, process, channel, poolVars, got, rpcVars>>

\* session = ...; two assignments at once leave either value, or neither.
StoreSession(l) ==
  /\ pc[l] = "store"
  /\ pc' = [pc EXCEPT ![l] = "call"]
  /\ stage' = [stage EXCEPT ![l] = "report"]
  /\ got' = [got EXCEPT ![l] = NoLoop]
  /\ \/ session' = got[l] /\ UNCHANGED process
     \/ Racing(l) /\ session' = Garbage /\ process' \in {"up", "terminated"}
  /\ UNCHANGED <<main, channel, poolVars, rpcVars>>

\* Any result does: its value is not used.
report_system_status(l) ==
  /\ stage[l] = "report"
  /\ \E a \in Answers : Take(l, a)
  /\ pc' = [pc EXCEPT ![l] = "call"]
  /\ stage' = [stage EXCEPT ![l] = "tasks"]
  /\ UNCHANGED <<process, got, session>>

\* The list is copied and printed, then the run sleeps and starts over.
get_pending_tasks(l) ==
  /\ stage[l] = "tasks"
  /\ \E a \in Answers : Take(l, a) /\ a.kind = "tasks"
  /\ pc' = [pc EXCEPT ![l] = "call"]
  /\ stage' = [stage EXCEPT ![l] = "report"]
  /\ UNCHANGED <<process, got, session>>

\* A list of tasks, or a session, is read from an answer that has none; or the
\* session is read from its result after zRPC_caller_destroy_result, as call_auth
\* always does: the run goes on with what it finds there, throws a std::exception
\* (a null or oversized string), or brings the process down.
Misread(l) ==
  /\ stage[l] \in {"auth", "tasks"}
  /\ \E a \in Answers : Take(l, a) /\ (a.kind = stage[l] => stage[l] = "auth")
  /\ \/ /\ stage[l] = "auth"
        /\ pc' = [pc EXCEPT ![l] = "store"]
        /\ got' = [got EXCEPT ![l] = Garbage]
        /\ UNCHANGED <<process, stage>>
     \/ /\ stage[l] = "tasks"
        /\ pc' = [pc EXCEPT ![l] = "call"]
        /\ stage' = [stage EXCEPT ![l] = "report"]
        /\ UNCHANGED <<process, got>>
     \/ /\ pc' = [pc EXCEPT ![l] = "dead"]
        /\ process' \in {"up", "terminated"}
        /\ UNCHANGED <<stage, got>>
  /\ UNCHANGED session

-----------------------------------------------------------------------------

LoopStep(l) ==
  /\ process = "up"
  /\ \/ DoCall(l)
     \/ auth(l)
     \/ StoreSession(l)
     \/ report_system_status(l)
     \/ get_pending_tasks(l)
     \/ Misread(l)

Dispatch == process = "up" /\ Deliver
PoolStep == process = "up" /\ \E w \in Workers : StartLoop(w) \/ EndLoop(w)
Leave == process = "up" /\ Exit

Environment ==
  /\ process = "up"
  /\ \/ Connect
     \/ Help
     \/ BadOptions
     \/ connect_callback
     \/ disconnect_callback
     \/ DeleteConnect
     \/ \E l \in Loops : ReadsFreedSession(l)

Stopped ==
  /\ main = "exited" \/ process = "terminated"
  /\ UNCHANGED vars

Next ==
  \/ \E l \in Loops : LoopStep(l)
  \/ Dispatch
  \/ PoolStep
  \/ Leave
  \/ Environment
  \/ Stopped

Spec == Init /\ [][Next]_vars

(***************************************************************************)
(* Threads run, the pool hands out tasks, and the manager answers while    *)
(* the channel is up.  Nothing makes the channel come up or go down, or    *)
(* the dispatch return.                                                    *)
(***************************************************************************)
Fairness ==
  /\ \A l \in Loops : WF_vars(LoopStep(l))
  /\ WF_vars(Dispatch) /\ WF_vars(PoolStep) /\ WF_vars(Leave)

FairSpec == Spec /\ Fairness

-----------------------------------------------------------------------------
(* Properties *)

\* Every variable stays in its range, and a run holds a session that it has
\* not stored exactly between call_auth's return and the assignment.
TypeOK ==
  /\ main \in {"start", "dispatch", "joining", "exited"}
  /\ process \in {"up", "terminated"}
  /\ channel \in {"up", "down"}
  /\ submitted \in Seq(Loops) /\ started \in Seq(Loops)
  /\ task \in [Workers -> Loops \cup {NoLoop}]
  /\ open \in BOOLEAN
  /\ pc \in [Loops -> {"idle", "call", "wait", "store", "dead"}]
  /\ stage \in [Loops -> Stages]
  /\ got \in [Loops -> Loops \cup {NoLoop, Garbage}]
  /\ session \in Loops \cup {NoLoop, Garbage}
  /\ BagToSet(inflight) \subseteq Answers /\ BagToSet(results) \subseteq Answers
  /\ lost \in Nat
  /\ \A l \in Loops : got[l] # NoLoop <=> pc[l] = "store"

\* Runs may take each other's answers, but between them nobody is left out:
\* there are as many runs in wait_result as answers on their way, held by the
\* caller, or lost with a channel.  Only a lost answer can strand a run.
AnswersBalance ==
  Cardinality(Waiting) =
    Cardinality(Copies(inflight)) + Cardinality(Copies(results)) + lost

\* Without a second run answers are never mixed up: through any number of channel
\* failures one run finds the answer to its own latest call, and no other, reports
\* with a session, and is harmed by nothing but the read of a session whose result
\* call_auth has destroyed: past auth it neither dies nor takes the process down.
OneLoopIsSafe ==
  Len(started) = 1 =>
    LET l == started[1] IN
      /\ \A a \in BagToSet(inflight) \cup BagToSet(results) :
           pc[l] = "wait" /\ a = [kind |-> stage[l], by |-> l]
      /\ stage[l] # "auth" => session # NoLoop
      /\ process = "terminated" \/ l \in Dead => stage[l] = "auth"

\* A run never ends of itself, so it keeps a worker for good: the activation
\* after the pool is full gets its run only when an earlier run has died.
LoopsNeedWorkers == Len(started) <= Cardinality(Workers) + Cardinality(Dead)

\* main returns, and pongo_protocol is destroyed under the runs that use it,
\* only when all of them are over; those still queued never start.
LoopsEndBeforeExit == main = "exited" => Alive = {}

\* While no answer is lost and the agent is left dispatching, the runs go on
\* reporting for ever, even if they mix up their answers.
KeepsReporting ==
  <>[](channel = "up" /\ main = "dispatch" /\ process = "up" /\ lost = 0 /\ Alive # {})
    => []<>(\E l \in Loops : pc[l] = "call" /\ stage[l] = "report")

\* Leaving is held up by the runs that are still alive, and by nothing else.
OnlyLoopsBlockExit ==
  <>[](main = "joining" /\ process = "up") => <>[](Alive # {})
=============================================================================
