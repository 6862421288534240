----------------------------- MODULE SubProcess -----------------------------
(***************************************************************************)
(* The life of the children of utils/sub_process: fork, exit, waitpid and  *)
(* kill, through several sub_process objects of one process.               *)
(*                                                                         *)
(* The objects are deferred ones, as in python_container::run, their only  *)
(* user: the constructor forks nothing and start_process does.  Objects    *)
(* share the kernel's table of children, which waitpid(-1) and a reused    *)
(* pid make visible.  Other threads run between the waitpid of a wait or a *)
(* poll and its return, which is where they may still use a pid that is no *)
(* longer the child's.  What the child does with its descriptors is not    *)
(* modelled here.                                                          *)
(***************************************************************************)
EXTENDS Integers, FiniteSets

CONSTANTS
  Objects,    \* the sub_process objects
  Leaders,    \* those with session_leader{true}
  Pids,       \* the pids the kernel hands out, and hands out again
  Codes,      \* exit codes of the programs
  NoObject,
  MaxStarts,  \* bound: calls of start_process on each object
  Careful     \* callers start an object until it has a child and leave it
              \* alone once it has told them that the child ended

SIGKILL == 9
Running == -1   \* what poll and return_code say while the child runs
NoPid == -1     \* child_pid before a fork, and after a fork that failed
Idle == 0       \* nobody is in wait(), or waitpid has yet to say something

Calls == {"wait", "poll"}

\* What waitpid has said to a call under way: not a word, that there is no such
\* child, or how one ended.
Nothing == [pid |-> Idle, status |-> Running]
NoChild == [pid |-> NoPid, status |-> Running]

ASSUME SubProcessAssumption ==
  /\ IsFiniteSet(Objects) /\ IsFiniteSet(Pids)
  /\ Leaders \subseteq Objects
  /\ NoObject \notin Objects
  /\ Pids \subseteq Nat \ {0}
  /\ Codes \subseteq 0 .. 255
  /\ MaxStarts \in [Objects -> Nat]
  /\ Careful \in BOOLEAN

VARIABLES
  proc,      \* the kernel's view of each pid: "free", "running" or "zombie"
  status,    \* of a zombie, as waitpid gives it: the signal, or 256 times the code
  leads,     \* the child has called setsid
  forker,    \* history: the object that forked the child of this pid
  is_child_created, child_pid, ret_code,   \* members of the objects
  waiting,   \* the pid that a wait() under way polls for, or Idle
  heard,     \* what waitpid has said to the wait and the poll that have to return
  starts,    \* history: calls of start_process
  asked,     \* history: kill was called since the object's last fork
  exit,      \* history: how the object's last child ended, or Running
  answer     \* history: what wait or poll first said of it, or Running

kernel == <<proc, status, leads, forker>>
members == <<is_child_created, child_pid, ret_code>>
history == <<starts, asked, exit, answer>>
calls == <<waiting, heard>>
vars == <<kernel, members, calls, history>>

Init ==
  /\ proc = [p \in Pids |-> "free"]
  /\ status = [p \in Pids |-> Running]
  /\ leads = [p \in Pids |-> FALSE]
  /\ forker = [p \in Pids |-> NoObject]
  /\ is_child_created = [o \in Objects |-> FALSE]
  /\ child_pid = [o \in Objects |-> NoPid]
  /\ ret_code = [o \in Objects |-> Running]
  /\ waiting = [o \in Objects |-> Idle]
  /\ heard = [o \in Objects |-> [c \in Calls |-> Nothing]]
  /\ starts = [o \in Objects |-> 0]
  /\ asked = [o \in Objects |-> FALSE]
  /\ exit = [o \in Objects |-> Running]
  /\ answer = [o \in Objects |-> Running]

\* What waitpid(pid, ...) looks at, pid being NoPid or positive.
Children(pid) == {p \in Pids : proc[p] # "free" /\ pid \in {p, NoPid}}
Zombies(pid) == {p \in Children(pid) : proc[p] = "zombie"}

\* A wait or a poll of o has heard from waitpid and has not returned.
Returning(o) == \E c \in Calls : heard[o][c] # Nothing

\* A careful caller's object has a child of whose end it has not told.
MayUse(o) == Careful => is_child_created[o] /\ answer[o] = Running

-----------------------------------------------------------------------------
(* start_process *)

MayStart(o) ==
  /\ starts[o] < MaxStarts[o]
  /\ Careful => ~is_child_created[o]

\* fork hands out a free pid; the object forgets the child it had before.
execute_process(o) ==
  /\ MayStart(o)
  /\ \E p \in Pids :
       /\ proc[p] = "free"
       /\ proc' = [proc EXCEPT ![p] = "running"]
       /\ forker' = [forker EXCEPT ![p] = o]
       /\ child_pid' = [child_pid EXCEPT ![o] = p]
  /\ is_child_created' = [is_child_created EXCEPT ![o] = TRUE]
  /\ starts' = [starts EXCEPT ![o] = @ + 1]
  /\ asked' = [asked EXCEPT ![o] = FALSE]
  /\ exit' = [exit EXCEPT ![o] = Running]
  /\ answer' = [answer EXCEPT ![o] = Running]
  /\ UNCHANGED <<status, leads, ret_code, calls>>

\* child_pid is assigned before fork's result is looked at.
ForkFails(o) ==
  /\ MayStart(o)
  /\ child_pid' = [child_pid EXCEPT ![o] = NoPid]
  /\ starts' = [starts EXCEPT ![o] = @ + 1]
  /\ UNCHANGED <<kernel, is_child_created, ret_code, calls, asked, exit, answer>>

-----------------------------------------------------------------------------
(* The children *)

SetSid(p) ==
  /\ proc[p] = "running" /\ forker[p] \in Leaders
  /\ leads' = [leads EXCEPT ![p] = TRUE]
  /\ UNCHANGED <<proc, status, forker, members, calls, history>>

\* The processes of ps end; exit records how for those that are not replaced.
End(ps, raw, code) ==
  /\ proc' = [p \in Pids |-> IF p \in ps THEN "zombie" ELSE proc[p]]
  /\ status' = [p \in Pids |-> IF p \in ps THEN raw ELSE status[p]]
  /\ exit' = [o \in Objects |->
                IF \E p \in ps : forker[p] = o /\ child_pid[o] = p THEN code ELSE exit[o]]

Exit(p) ==
  /\ proc[p] = "running"
  /\ \E code \in Codes : End({p}, 256 * code, code)
  /\ UNCHANGED <<leads, forker, members, calls, starts, asked, answer>>

-----------------------------------------------------------------------------
(* wait, poll and kill *)

Reap(p) ==
  /\ proc' = [proc EXCEPT ![p] = "free"]
  /\ status' = [status EXCEPT ![p] = Running]
  /\ leads' = [leads EXCEPT ![p] = FALSE]
  /\ forker' = [forker EXCEPT ![p] = NoObject]

\* Mutant: the status is handed on as it comes.
Decoded_Not(raw) == raw

\* WTERMSIG if there is a signal, WEXITSTATUS if not.
Decoded(raw) == IF raw % 128 # 0 THEN raw % 128 ELSE raw \div 256

\* The first answer an object gives about its child.
Tell(o, code) ==
  answer' = [answer EXCEPT ![o] = IF @ = Running THEN code ELSE @]

Hear(o, call, words) == heard' = [heard EXCEPT ![o][call] = words]

\* waitpid has reaped p.
Reaps(o, call, p) ==
  /\ Reap(p)
  /\ Hear(o, call, [pid |-> p, status |-> status[p]])

\* A caller that is careful does not poll while it waits, nor wait while it polls.
MayWait(o) ==
  /\ MayUse(o)
  /\ waiting[o] = Idle
  /\ Careful => ~Returning(o)

MayPoll(o) ==
  /\ MayUse(o) /\ is_child_created[o]
  /\ heard[o]["poll"] = Nothing
  /\ Careful => waiting[o] = Idle

\* Mutant: the object lets go of the pid before the child has ended.
wait_LetsGo(o) ==
  /\ MayWait(o)
  /\ waiting' = [waiting EXCEPT ![o] = child_pid[o]]
  /\ child_pid' = [child_pid EXCEPT ![o] = NoPid]
  /\ UNCHANGED <<kernel, is_child_created, ret_code, heard, history>>

\* wait_for_child_exit spins on waitpid for the pid it was given,
wait(o) ==
  /\ MayWait(o)
  /\ waiting' = [waiting EXCEPT ![o] = child_pid[o]]
  /\ UNCHANGED <<kernel, members, heard, history>>

Spinning(o) == waiting[o] # Idle /\ heard[o]["wait"] = Nothing

\* until the child is gone, or there never was one: ECHILD,
WaitFindsNone(o) ==
  /\ Spinning(o)
  /\ Children(waiting[o]) = {}
  /\ Hear(o, "wait", NoChild)
  /\ UNCHANGED <<kernel, members, waiting, history>>

\* Mutant: waitpid is called for any child, whatever the pid.
WaitedFor_Any(o) == Zombies(NoPid)

WaitedFor(o) == Zombies(waiting[o])

\* or until waitpid reaps it.
WaitReaps(o) ==
  /\ Spinning(o)
  /\ \E p \in WaitedFor(o) : Reaps(o, "wait", p)
  /\ UNCHANGED <<members, waiting, history>>

\* Mutant: the loop goes on after waitpid has reaped the child.
Leave_SpinsOn(o) == UNCHANGED waiting

Leave(o) == waiting' = [waiting EXCEPT ![o] = Idle]

\* ECHILD counts as exit code 0.  Nothing is stored in ret_code.
WaitReturns(o) ==
  LET words == heard[o]["wait"] IN
    /\ words # Nothing
    /\ Tell(o, IF words = NoChild THEN 0 ELSE Decoded(words.status))
    /\ Hear(o, "wait", Nothing)
    /\ Leave(o)
    /\ UNCHANGED <<kernel, members, starts, asked, exit>>

\* Mutant: poll asks with WNOWAIT.
PollReaps_Keeps(o) ==
  /\ MayPoll(o)
  /\ \E p \in Zombies(child_pid[o]) :
       Hear(o, "poll", [pid |-> p, status |-> status[p]])
  /\ UNCHANGED <<kernel, members, waiting, history>>

\* While the child runs poll says Running and changes nothing.
PollReaps(o) ==
  /\ MayPoll(o)
  /\ \E p \in Zombies(child_pid[o]) : Reaps(o, "poll", p)
  /\ UNCHANGED <<members, waiting, history>>

PollFindsNone(o) ==
  /\ MayPoll(o)
  /\ Children(child_pid[o]) = {}
  /\ Hear(o, "poll", NoChild)
  /\ UNCHANGED <<kernel, members, waiting, history>>

\* Mutant: waitpid's -1 is taken for an answer.
CodesOfNone_Raw(o) == {Running}

\* ECHILD counts as exit code 0; but waitpid's -1 may equal child_pid, and then
\* a status nobody wrote is decoded.
CodesOfNone(o) == IF child_pid[o] = NoPid THEN Codes \cup {SIGKILL, 255} ELSE {0}

\* A child that is not the one the object knows by now is answered with its pid.
PollCodes(o) ==
  LET words == heard[o]["poll"] IN
    IF words = NoChild THEN CodesOfNone(o)
    ELSE {IF words.pid = child_pid[o] THEN Decoded(words.status) ELSE words.pid}

PollReturns(o) ==
  /\ heard[o]["poll"] # Nothing
  /\ \E code \in PollCodes(o) :
       /\ ret_code' = [ret_code EXCEPT ![o] = code]
       /\ Tell(o, code)
  /\ Hear(o, "poll", Nothing)
  /\ UNCHANGED <<kernel, is_child_created, child_pid, waiting, starts, asked, exit>>

\* Mutant: a negative pid means every process.
Targets_All(o) == Pids

\* killpg reaches a child that has called setsid, kill(-1) everybody.
Targets(o) ==
  IF o \in Leaders
    THEN {p \in Pids : p = child_pid[o] /\ leads[p]}
    ELSE {p \in Pids : child_pid[o] \in {p, NoPid}}

kill(o) ==
  /\ MayUse(o)
  /\ End({p \in Targets(o) : proc[p] = "running"}, SIGKILL, SIGKILL)
  /\ asked' = [asked EXCEPT ![o] = TRUE]
  /\ UNCHANGED <<leads, forker, members, calls, starts, answer>>

-----------------------------------------------------------------------------

WaitStep(o) == WaitFindsNone(o) \/ WaitReaps(o) \/ WaitReturns(o)

Next ==
  \/ \E o \in Objects :
       \/ execute_process(o)
       \/ ForkFails(o)
       \/ wait(o)
       \/ WaitStep(o)
       \/ PollReaps(o)
       \/ PollFindsNone(o)
       \/ PollReturns(o)
       \/ kill(o)
  \/ \E p \in Pids : SetSid(p) \/ Exit(p)

Spec == Init /\ [][Next]_vars

\* A wait() under way keeps polling.  Programs need not end.
FairSpec == Spec /\ \A o \in Objects : WF_vars(WaitStep(o))

-----------------------------------------------------------------------------
(* Properties *)

\* Every variable stays in its range, and a status is kept for zombies, and for
\* those that a call has reaped and not yet told of, alone.
TypeOK ==
  /\ proc \in [Pids -> {"free", "running", "zombie"}]
  /\ status \in [Pids -> {256 * code : code \in Codes} \cup {SIGKILL, Running}]
  /\ leads \in [Pids -> BOOLEAN]
  /\ forker \in [Pids -> Objects \cup {NoObject}]
  /\ is_child_created \in [Objects -> BOOLEAN]
  /\ child_pid \in [Objects -> Pids \cup {NoPid}]
  /\ ret_code \in [Objects -> {Running} \cup Codes \cup Pids \cup {SIGKILL, 0, 255}]
  /\ waiting \in [Objects -> Pids \cup {NoPid, Idle}]
  /\ heard \in [Objects -> [Calls -> [pid : Pids \cup {NoPid, Idle}, status :
                   {256 * code : code \in Codes} \cup {SIGKILL, Running}]]]
  /\ starts \in [Objects -> Nat]
  /\ asked \in [Objects -> BOOLEAN]
  /\ exit \in [Objects -> Codes \cup {SIGKILL, Running}]
  /\ answer \in [Objects -> {Running} \cup Codes \cup Pids \cup {SIGKILL, 0, 255}]
  /\ \A p \in Pids : status[p] # Running <=> proc[p] = "zombie"
  /\ \A p \in Pids : forker[p] # NoObject <=> proc[p] # "free"
  /\ \A o \in Objects, c \in Calls :
       heard[o][c].status # Running <=> heard[o][c].pid \in Pids

\* An object loses track of a child only by being started again: otherwise
\* each process left in the kernel's table is some object's child_pid.
ChildrenAreKnown ==
  \A p \in Pids :
    proc[p] # "free" /\ starts[forker[p]] = 1 => child_pid[forker[p]] = p

\* Once poll has set return_code() it never goes back to "still running",
\* whichever children were reaped, restarted or stolen in between.
ReturnCodeSticks ==
  [][\A o \in Objects : ret_code[o] # Running => ret_code'[o] # Running]_vars

\* To a careful caller wait and poll tell how its own child ended, although
\* other objects fork, reap and reuse pids all the while.
AnswersAreTrue ==
  \A o \in Objects : answer[o] # Running => answer[o] = exit[o]

\* To a careful caller the answer also means that the child is reaped: no
\* zombie of its is left when it stops asking.
NoZombieLeft ==
  \A p \in Pids : proc[p] = "zombie" => answer[forker[p]] = Running

\* A careful caller's kill signals its own child, with one exception: between the
\* waitpid that reaps the child and the return of that wait or poll the caller
\* cannot know that the pid is free, and its kill may hit another object's child.
KillsItsOwn ==
  [][\A p \in Pids :
       status'[p] = SIGKILL /\ status[p] # SIGKILL =>
         \/ asked'[forker[p]]
         \/ \E o \in Objects : child_pid[o] = p /\ Returning(o)]_vars

\* A careful caller's wait returns once its child has ended.
WaitEndsWithChild ==
  \A o \in Objects : waiting[o] # Idle /\ exit[o] # Running ~> waiting[o] = Idle
=============================================================================
