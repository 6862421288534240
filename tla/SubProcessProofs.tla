-------------------------- MODULE SubProcessProofs --------------------------
(***************************************************************************)
(* For any number of objects, pids, codes and starts: what sub_process     *)
(* keeps to with every caller, and what a careful one may count on.        *)
(*                                                                         *)
(* A careful caller is safe because of one fact (OneChildEach): until a    *)
(* wait or a poll has reaped an object's child, the child is in the        *)
(* kernel's table under the pid the object knows, so that waitpid and kill *)
(* reach it and nothing else, and nobody is given its pid; and from then   *)
(* on the call that has reaped it knows how it ended.                      *)
(***************************************************************************)
EXTENDS SubProcess, TLAPS

Answers == Codes \cup Pids \cup {SIGKILL, 0, 255}
Told == {Running} \cup Codes \cup Pids \cup {SIGKILL, 0, 255}
Statuses == {256 * code : code \in Codes} \cup {SIGKILL}
Words == [pid : Pids \cup {NoPid, Idle}, status :
            {256 * code : code \in Codes} \cup {SIGKILL, Running}]

\* What waitpid has said has its type.
HeardOK ==
  /\ heard \in [Objects -> [Calls -> Words]]
  /\ \A o \in Objects, c \in Calls :
       heard[o][c].status # Running <=> heard[o][c].pid \in Pids

\* Only an object that has been started has forked.
ForkersStarted == \A p \in Pids : proc[p] # "free" => starts[forker[p]] > 0

IInv ==
  /\ TypeOK
  /\ ForkersStarted
  /\ ChildrenAreKnown

-----------------------------------------------------------------------------
(* Codes, statuses and the steps *)

\* No answer is the -1 that stands for none.
LEMMA AnswersAreNotRunning ==
  /\ Running \notin Answers
  /\ \A a \in Answers : a \in Nat
BY SubProcessAssumption DEF Answers, Running, SIGKILL

\* wait and poll turn a status back into the code the child ended with.
LEMMA DecodesStatuses ==
  /\ Decoded(SIGKILL) = SIGKILL
  /\ \A code \in Codes : Decoded(256 * code) = code
  /\ \A raw \in Statuses : Decoded(raw) \in Codes \cup {SIGKILL}
  /\ Running \notin Statuses
<1>1. Decoded(SIGKILL) = SIGKILL
  BY DEF Decoded, SIGKILL
<1>2. ASSUME NEW code \in Codes PROVE Decoded(256 * code) = code /\ 256 * code # Running
  <2>1. code \in 0 .. 255
    BY SubProcessAssumption
  <2>2. (256 * code) % 128 = 0 /\ (256 * code) \div 256 = code
    BY <2>1
  <2>3. QED
    BY <2>1, <2>2 DEF Decoded, Running
<1>3. QED
  BY <1>1, <1>2 DEF Statuses, Running, SIGKILL

\* The pids of children are pids; none of them is NoPid.
LEMMA PidsArePositive ==
  /\ \A p \in Pids : p \in Nat /\ p > 0
  /\ NoPid \notin Pids
  /\ Idle \notin Pids \cup {NoPid}
BY SubProcessAssumption DEF NoPid, Idle

\* The types hold before the first start.
LEMMA TypeInit == Init => TypeOK
<1> SUFFICES ASSUME Init PROVE TypeOK
  OBVIOUS
<1>1. Nothing \in Words /\ Nothing.status = Running /\ Nothing.pid \notin Pids
  BY PidsArePositive DEF Nothing, Words
<1>2. HeardOK
  BY <1>1 DEF Init, HeardOK
<1>3. QED
  BY <1>2, SubProcessAssumption DEF Init, TypeOK, HeardOK, Words

\* The end of children keeps the types.
LEMMA EndTypes ==
  ASSUME TypeOK, NEW ps \in SUBSET Pids, \A p \in ps : proc[p] = "running",
         NEW raw \in Statuses, NEW code \in Codes \cup {SIGKILL}, End(ps, raw, code),
         UNCHANGED <<forker>>
  PROVE  /\ proc' \in [Pids -> {"free", "running", "zombie"}]
         /\ status' \in [Pids -> {256 * c : c \in Codes} \cup {SIGKILL, Running}]
         /\ exit' \in [Objects -> Codes \cup {SIGKILL, Running}]
         /\ \A p \in Pids : status'[p] # Running <=> proc'[p] = "zombie"
         /\ \A p \in Pids : forker'[p] # NoObject <=> proc'[p] # "free"
         /\ forker' \in [Pids -> Objects \cup {NoObject}]
<1>1. raw # Running /\ raw \in {256 * c : c \in Codes} \cup {SIGKILL, Running}
  BY DecodesStatuses DEF Statuses
<1>2. QED
  BY <1>1 DEF End, TypeOK

\* So does waitpid,
LEMMA ReapTypes ==
  ASSUME TypeOK, NEW p \in Pids, Reap(p)
  PROVE  /\ proc' \in [Pids -> {"free", "running", "zombie"}]
         /\ status' \in [Pids -> {256 * c : c \in Codes} \cup {SIGKILL, Running}]
         /\ leads' \in [Pids -> BOOLEAN]
         /\ forker' \in [Pids -> Objects \cup {NoObject}]
         /\ \A q \in Pids : status'[q] # Running <=> proc'[q] = "zombie"
         /\ \A q \in Pids : forker'[q] # NoObject <=> proc'[q] # "free"
BY DEF Reap, TypeOK

\* What poll and wait find in the table decodes to an answer.
LEMMA ZombiesAnswer ==
  ASSUME TypeOK, NEW pid, NEW p \in Zombies(pid)
  PROVE  /\ p \in Pids /\ proc[p] = "zombie" /\ pid \in {p, NoPid}
         /\ status[p] \in Statuses /\ Decoded(status[p]) \in Codes \cup {SIGKILL}
<1>1. p \in Pids /\ proc[p] = "zombie" /\ pid \in {p, NoPid}
  BY DEF Zombies, Children
<1>2. status[p] \in Statuses
  BY <1>1 DEF TypeOK, Statuses
<1>3. QED
  BY <1>1, <1>2, DecodesStatuses

\* what it says to a call,
LEMMA HearTypes ==
  ASSUME TypeOK, NEW o \in Objects, NEW call \in Calls, NEW words \in Words,
         words.status # Running <=> words.pid \in Pids, Hear(o, call, words)
  PROVE  HeardOK'
<1>1. heard \in [Objects -> [Calls -> Words]]
  BY DEF TypeOK, Words
<1>2. heard' = [heard EXCEPT ![o][call] = words]
  BY DEF Hear
<1>3. heard' \in [Objects -> [Calls -> Words]]
  BY <1>1, <1>2
<1>4. ASSUME NEW x \in Objects, NEW c \in Calls
      PROVE  heard'[x][c] = IF x = o /\ c = call THEN words ELSE heard[x][c]
  BY <1>1, <1>2
<1>5. \A x \in Objects, c \in Calls : heard[x][c].status # Running <=> heard[x][c].pid \in Pids
  BY DEF TypeOK
<1>6. ASSUME NEW x \in Objects, NEW c \in Calls
      PROVE  heard'[x][c].status # Running <=> heard'[x][c].pid \in Pids
  <2>1. CASE x = o /\ c = call
    BY <1>4, <2>1
  <2>2. CASE ~(x = o /\ c = call)
    BY <1>4, <1>5, <2>2
  <2>3. QED
    BY <2>1, <2>2
<1>7. QED
  BY <1>3, <1>6 DEF HeardOK

\* which is not a word, that there is no child, or a child's pid and status,
LEMMA WordsOf ==
  /\ Nothing \in Words /\ NoChild \in Words /\ Nothing # NoChild
  /\ Nothing.status = Running /\ Nothing.pid \notin Pids
  /\ NoChild.status = Running /\ NoChild.pid \notin Pids
  /\ \A p \in Pids, raw \in Statuses :
       LET words == [pid |-> p, status |-> raw] IN
         /\ words \in Words /\ words.status # Running /\ words.pid \in Pids
         /\ words # Nothing /\ words # NoChild
BY PidsArePositive, DecodesStatuses DEF Nothing, NoChild, Words, Statuses, NoPid, Idle

\* that decode to an answer,
LEMMA HeardAnswers ==
  ASSUME TypeOK, NEW o \in Objects, NEW c \in Calls,
         heard[o][c] # Nothing, heard[o][c] # NoChild
  PROVE  /\ heard[o][c].pid \in Pids /\ heard[o][c].status \in Statuses
         /\ Decoded(heard[o][c].status) \in Codes \cup {SIGKILL}
<1> DEFINE words == heard[o][c]
<1>1. words \in Words /\ (words.status # Running <=> words.pid \in Pids)
  BY DEF TypeOK, Words
<1>2. words = [pid |-> words.pid, status |-> words.status]
  BY <1>1 DEF Words
<1>3. ASSUME words.pid \notin Pids PROVE FALSE
  <2>1. words.status = Running /\ words.pid \in {NoPid, Idle}
    BY <1>1, <1>3 DEF Words
  <2>2. QED
    BY <1>2, <2>1 DEF Nothing, NoChild
<1>4. words.status \in Statuses
  BY <1>1, <1>3 DEF Words, Statuses
<1>5. QED
  BY <1>3, <1>4, DecodesStatuses

\* and the answer to the caller.
LEMMA TellTypes ==
  ASSUME TypeOK, NEW o \in Objects, NEW code \in Answers, Tell(o, code)
  PROVE  answer' \in [Objects -> Told]
BY DEF Tell, TypeOK, Told, Answers

\* poll's answer is an answer, also when waitpid has nothing to say.
LEMMA PollAnswers ==
  ASSUME TypeOK, NEW o \in Objects, heard[o]["poll"] # Nothing
  PROVE  PollCodes(o) \subseteq Answers
<1>1. CASE heard[o]["poll"] = NoChild
  BY <1>1 DEF PollCodes, CodesOfNone, Answers
<1>2. CASE heard[o]["poll"] # NoChild
  BY <1>2, HeardAnswers DEF PollCodes, Answers, Calls
<1>3. QED
  BY <1>1, <1>2

-----------------------------------------------------------------------------
(* With any callers *)

\* Every step keeps the types.
LEMMA TypeStep == TypeOK /\ [Next]_vars => TypeOK'
<1> SUFFICES ASSUME TypeOK, [Next]_vars PROVE TypeOK'
  OBVIOUS
<1> USE SubProcessAssumption, PidsArePositive
<1>1. ASSUME NEW o \in Objects, execute_process(o) PROVE TypeOK'
  <2>1. PICK p \in Pids :
          /\ proc[p] = "free"
          /\ proc' = [proc EXCEPT ![p] = "running"]
          /\ forker' = [forker EXCEPT ![p] = o]
          /\ child_pid' = [child_pid EXCEPT ![o] = p]
    BY <1>1 DEF execute_process
  <2>2. starts' \in [Objects -> Nat]
    BY <1>1 DEF execute_process, MayStart, TypeOK
  <2>3. UNCHANGED <<status, leads, ret_code, calls>>
    BY <1>1 DEF execute_process
  <2>4. /\ is_child_created' \in [Objects -> BOOLEAN] /\ asked' \in [Objects -> BOOLEAN]
        /\ exit' \in [Objects -> Codes \cup {SIGKILL, Running}]
        /\ answer' \in [Objects -> {Running} \cup Codes \cup Pids \cup {SIGKILL, 0, 255}]
    BY <1>1 DEF execute_process, TypeOK
  <2>5. /\ proc' \in [Pids -> {"free", "running", "zombie"}]
        /\ forker' \in [Pids -> Objects \cup {NoObject}]
        /\ child_pid' \in [Objects -> Pids \cup {NoPid}]
    BY <2>1 DEF TypeOK
  <2>6. \A q \in Pids : /\ status'[q] # Running <=> proc'[q] = "zombie"
                        /\ forker'[q] # NoObject <=> proc'[q] # "free"
    BY <2>1, <2>3 DEF TypeOK
  <2>7. HeardOK'
    BY <2>3 DEF HeardOK, TypeOK, calls, Words
  <2>8. /\ status' \in [Pids -> {256 * c : c \in Codes} \cup {SIGKILL, Running}]
        /\ leads' \in [Pids -> BOOLEAN]
        /\ ret_code' \in [Objects -> {Running} \cup Codes \cup Pids \cup {SIGKILL, 0, 255}]
        /\ waiting' \in [Objects -> Pids \cup {NoPid, Idle}]
    BY <2>3 DEF TypeOK, calls
  <2>9. QED
    BY <2>2, <2>4, <2>5, <2>6, <2>7, <2>8, SMTT(30) DEF TypeOK, HeardOK, Words
<1>2. ASSUME NEW o \in Objects, ForkFails(o) PROVE TypeOK'
  <2>1. starts' \in [Objects -> Nat]
    BY <1>2 DEF ForkFails, MayStart, TypeOK
  <2>2. QED
    BY <1>2, <2>1 DEF ForkFails, TypeOK, kernel, calls
<1>3. ASSUME NEW o \in Objects, wait(o) PROVE TypeOK'
  BY <1>3 DEF wait, TypeOK, kernel, members, history
<1>4. ASSUME NEW o \in Objects, WaitFindsNone(o) PROVE TypeOK'
  <2>1. HeardOK'
    BY <1>4, WordsOf, HearTypes DEF WaitFindsNone, Calls
  <2>2. QED
    BY <1>4, <2>1, SMTT(30) DEF WaitFindsNone, TypeOK, HeardOK, Words, kernel, members, history
<1>5. ASSUME NEW o \in Objects, NEW call \in Calls, NEW p \in Zombies(NoPid), Reaps(o, call, p),
             UNCHANGED <<members, waiting, history>>
      PROVE  TypeOK'
  <2>1. p \in Pids /\ status[p] \in Statuses
    BY <1>5, ZombiesAnswer
  <2>2. HeardOK'
    BY <1>5, <2>1, WordsOf, HearTypes DEF Reaps
  <2>3. /\ proc' \in [Pids -> {"free", "running", "zombie"}]
        /\ status' \in [Pids -> {256 * c : c \in Codes} \cup {SIGKILL, Running}]
        /\ leads' \in [Pids -> BOOLEAN]
        /\ forker' \in [Pids -> Objects \cup {NoObject}]
        /\ \A q \in Pids : status'[q] # Running <=> proc'[q] = "zombie"
        /\ \A q \in Pids : forker'[q] # NoObject <=> proc'[q] # "free"
    BY <1>5, <2>1, ReapTypes DEF Reaps
  <2>4. UNCHANGED <<is_child_created, child_pid, ret_code, waiting, starts, asked, exit, answer>>
    BY <1>5 DEF members, history
  <2>5. QED
    BY <2>2, <2>3, <2>4, SMTT(30) DEF TypeOK, HeardOK, Words
<1>6. ASSUME NEW o \in Objects, WaitReaps(o) \/ PollReaps(o) PROVE TypeOK'
  <2>1. PICK call \in Calls, p \in Pids :
          proc[p] = "zombie" /\ Reaps(o, call, p)
    BY <1>6 DEF WaitReaps, PollReaps, WaitedFor, Zombies, Children, Calls
  <2>2. p \in Zombies(NoPid)
    BY <2>1 DEF Zombies, Children
  <2>3. QED
    BY <1>5, <1>6, <2>1, <2>2 DEF WaitReaps, PollReaps
<1>7. ASSUME NEW o \in Objects, WaitReturns(o) PROVE TypeOK'
  <2> DEFINE words == heard[o]["wait"]
             code == IF words = NoChild THEN 0 ELSE Decoded(words.status)
  <2>1. code \in Answers
    BY <1>7, HeardAnswers DEF WaitReturns, Answers, Calls
  <2>2. Tell(o, code) /\ Hear(o, "wait", Nothing)
    BY <1>7 DEF WaitReturns
  <2> HIDE DEF code
  <2>3. answer' \in [Objects -> Told] /\ HeardOK'
    BY <2>1, <2>2, TellTypes, WordsOf, HearTypes DEF Calls
  <2>4. waiting' = [waiting EXCEPT ![o] = Idle] /\ UNCHANGED <<kernel, members, starts, asked, exit>>
    BY <1>7 DEF WaitReturns, Leave
  <2>5. QED
    BY <2>3, <2>4, SMTT(30) DEF TypeOK, HeardOK, Words, Told, kernel, members
<1>8. ASSUME NEW o \in Objects, PollFindsNone(o) PROVE TypeOK'
  <2>1. HeardOK'
    BY <1>8, WordsOf, HearTypes DEF PollFindsNone, Calls
  <2>2. QED
    BY <1>8, <2>1, SMTT(30) DEF PollFindsNone, TypeOK, HeardOK, Words, kernel, members, history
<1>9. ASSUME NEW o \in Objects, PollReturns(o) PROVE TypeOK'
  <2>1. PICK code \in PollCodes(o) : ret_code' = [ret_code EXCEPT ![o] = code] /\ Tell(o, code)
    BY <1>9 DEF PollReturns
  <2>2. code \in Answers
    BY <1>9, PollAnswers DEF PollReturns
  <2>3. /\ answer' \in [Objects -> Told]
        /\ ret_code' \in [Objects -> Told]
    BY <2>1, <2>2, TellTypes DEF TypeOK, Told, Answers
  <2>4. HeardOK'
    BY <1>9, WordsOf, HearTypes DEF PollReturns, Calls
  <2>5. QED
    BY <1>9, <2>3, <2>4, SMTT(30) DEF PollReturns, TypeOK, HeardOK, Words, Told, kernel
<1>10. ASSUME NEW o \in Objects, kill(o) PROVE TypeOK'
  <2> DEFINE ps == {p \in Targets(o) : proc[p] = "running"}
  <2>1. ps \in SUBSET Pids /\ End(ps, SIGKILL, SIGKILL) /\ SIGKILL \in Statuses
    BY <1>10 DEF kill, Targets, Statuses
  <2>2. UNCHANGED <<leads, forker, members, calls, starts, answer>> /\ asked' \in [Objects -> BOOLEAN]
    BY <1>10 DEF kill, TypeOK
  <2> HIDE DEF ps
  <2>3. \A p \in ps : proc[p] = "running"
    BY DEF ps
  <2>4. /\ proc' \in [Pids -> {"free", "running", "zombie"}]
        /\ status' \in [Pids -> {256 * c : c \in Codes} \cup {SIGKILL, Running}]
        /\ exit' \in [Objects -> Codes \cup {SIGKILL, Running}]
        /\ \A p \in Pids : status'[p] # Running <=> proc'[p] = "zombie"
        /\ \A p \in Pids : forker'[p] # NoObject <=> proc'[p] # "free"
        /\ forker' \in [Pids -> Objects \cup {NoObject}]
    BY <2>1, <2>2, <2>3, EndTypes
  <2>5. QED
    BY <2>2, <2>4, SMTT(30) DEF TypeOK, members, calls
<1>11. ASSUME NEW p \in Pids, SetSid(p) PROVE TypeOK'
  BY <1>11 DEF SetSid, TypeOK, members, calls, history
<1>12. ASSUME NEW p \in Pids, Exit(p) PROVE TypeOK'
  <2>1. PICK code \in Codes : End({p}, 256 * code, code)
    BY <1>12 DEF Exit
  <2>2. 256 * code \in Statuses
    BY DEF Statuses
  <2>3. {p} \in SUBSET Pids /\ \A q \in {p} : proc[q] = "running"
    BY <1>12 DEF Exit
  <2>4. UNCHANGED <<leads, forker, members, calls, starts, asked, answer>>
    BY <1>12 DEF Exit
  <2>5. /\ proc' \in [Pids -> {"free", "running", "zombie"}]
        /\ status' \in [Pids -> {256 * c : c \in Codes} \cup {SIGKILL, Running}]
        /\ exit' \in [Objects -> Codes \cup {SIGKILL, Running}]
        /\ \A q \in Pids : status'[q] # Running <=> proc'[q] = "zombie"
        /\ \A q \in Pids : forker'[q] # NoObject <=> proc'[q] # "free"
        /\ forker' \in [Pids -> Objects \cup {NoObject}]
    BY <2>1, <2>2, <2>3, <2>4, EndTypes
  <2>6. QED
    BY <2>4, <2>5, SMTT(30) DEF TypeOK, members, calls
<1>13. CASE UNCHANGED vars
  BY <1>13 DEF vars, kernel, members, calls, history, TypeOK
<1>14. QED
  BY <1>1, <1>2, <1>3, <1>4, <1>6, <1>7, <1>8, <1>9, <1>10, <1>11, <1>12, <1>13 DEF Next, WaitStep

(***************************************************************************)
(* The members of sub_process and the table of children have their types,  *)
(* however callers start, poll, wait for and kill their objects: a pid in  *)
(* the table was forked by an object, and only a zombie has a status.      *)
(***************************************************************************)
THEOREM TypeCorrect == Spec => []TypeOK
BY TypeInit, TypeStep, PTL DEF Spec

\* What holds with every caller holds at first.
LEMMA InvInit == Init => IInv
BY TypeInit, SubProcessAssumption DEF Init, IInv, ForkersStarted, ChildrenAreKnown

\* Every step, of any caller, keeps it.
LEMMA InvStep == IInv /\ [Next]_vars => IInv'
<1> SUFFICES ASSUME IInv, [Next]_vars PROVE IInv'
  OBVIOUS
<1>1. TypeOK /\ TypeOK' /\ \A o \in Objects : starts[o] \in Nat
  BY TypeStep, SubProcessAssumption DEF IInv, TypeOK
<1> USE DEF IInv, ForkersStarted, ChildrenAreKnown
<1>2. ASSUME NEW o \in Objects, execute_process(o) PROVE IInv'
  <2>1. PICK p \in Pids :
          /\ proc[p] = "free"
          /\ proc' = [proc EXCEPT ![p] = "running"]
          /\ forker' = [forker EXCEPT ![p] = o]
          /\ child_pid' = [child_pid EXCEPT ![o] = p]
    BY <1>2 DEF execute_process
  <2>2. starts' = [starts EXCEPT ![o] = @ + 1]
    BY <1>2 DEF execute_process
  <2>3. ASSUME NEW q \in Pids, proc'[q] # "free"
        PROVE  starts'[forker'[q]] > 0 /\ (starts'[forker'[q]] = 1 => child_pid'[forker'[q]] = q)
    <3>1. CASE q = p
      BY <1>1, <2>1, <2>2, <3>1 DEF TypeOK
    <3>2. CASE q # p
      <4>1. proc[q] # "free" /\ forker'[q] = forker[q] /\ forker[q] \in Objects
        BY <1>1, <2>1, <2>3, <3>2 DEF TypeOK
      <4>2. QED
        BY <1>1, <2>1, <2>2, <4>1 DEF TypeOK
    <3>3. QED
      BY <3>1, <3>2
  <2>4. QED
    BY <1>1, <2>3
<1>3. ASSUME NEW o \in Objects, ForkFails(o) PROVE IInv'
  BY <1>1, <1>3 DEF ForkFails, kernel, TypeOK
<1>4. ASSUME NEW p \in Pids, Reap(p), UNCHANGED <<starts, child_pid>> PROVE IInv'
  BY <1>1, <1>4 DEF Reap, TypeOK
<1>5. ASSUME NEW o \in Objects, WaitReaps(o) \/ PollReaps(o) PROVE IInv'
  <2>1. PICK p \in Pids : Reap(p)
    BY <1>5 DEF WaitReaps, PollReaps, Reaps, WaitedFor, Zombies, Children
  <2>2. QED
    BY <1>4, <1>5, <2>1 DEF WaitReaps, PollReaps, members, history
<1>6. ASSUME NEW ps, NEW raw, NEW code, End(ps, raw, code), UNCHANGED <<forker, starts, child_pid>>,
             \A p \in ps : proc[p] = "running"
      PROVE  IInv'
  BY <1>1, <1>6 DEF End, TypeOK
<1>7. ASSUME NEW o \in Objects, kill(o) PROVE IInv'
  <2>1. UNCHANGED <<forker, starts, child_pid>>
    BY <1>7 DEF kill, members
  <2>2. QED
    BY <1>6, <1>7, <2>1 DEF kill
<1>8. ASSUME NEW p \in Pids, Exit(p) PROVE IInv'
  <2>1. UNCHANGED <<forker, starts, child_pid>>
    BY <1>8 DEF Exit, members
  <2>2. QED
    BY <1>6, <1>8, <2>1 DEF Exit
<1>9. ASSUME UNCHANGED <<proc, forker, starts, child_pid>> PROVE IInv'
  BY <1>1, <1>9
<1>10. QED
  BY <1>2, <1>3, <1>5, <1>7, <1>8, <1>9
     DEF Next, WaitStep, WaitReturns, wait, WaitFindsNone, PollFindsNone, PollReturns, SetSid, vars,
         kernel, members, history

\* It holds always.
LEMMA Invariance == Spec => []IInv
BY InvInit, InvStep, PTL DEF Spec

-----------------------------------------------------------------------------
(* With careful callers *)

\* An object that has no child knows none, waits for none and tells of none.
Untouched(o) ==
  /\ child_pid[o] = NoPid /\ waiting[o] = Idle /\ ~Returning(o)
  /\ answer[o] = Running /\ exit[o] = Running

\* What is recorded of the end of a child that p is the pid of.
EndedAs(p) == IF proc[p] = "zombie" THEN Decoded(status[p]) ELSE Running

\* A process in the table is the child of the object that forked it, which has
\* not reaped it yet.
ForkedBy(p) ==
  /\ is_child_created[forker[p]] /\ child_pid[forker[p]] = p
  /\ answer[forker[p]] = Running /\ ~Returning(forker[p])

\* waitpid has told a call of the object's child and how it ended.
HasHeard(o) ==
  \A c \in Calls : heard[o][c] # Nothing =>
    /\ answer[o] = Running
    /\ heard[o][c].pid = child_pid[o]
    /\ Decoded(heard[o][c].status) = exit[o] /\ exit[o] # Running

\* An object has its child in the table until one of its calls has reaped it,
\* and at most one call is under way.
HasChild(o) ==
  /\ child_pid[o] \in Pids
  /\ answer[o] = Running /\ ~Returning(o) =>
       forker[child_pid[o]] = o /\ exit[o] = EndedAs(child_pid[o])
  /\ HasHeard(o)
  /\ waiting[o] # Idle =>
       waiting[o] = child_pid[o] /\ answer[o] = Running /\ heard[o]["poll"] = Nothing
  /\ heard[o]["wait"] # Nothing => waiting[o] # Idle

OneChildEach ==
  /\ \A p \in Pids : proc[p] # "free" => ForkedBy(p)
  /\ \A o \in Objects : IF is_child_created[o] THEN HasChild(o) ELSE Untouched(o)

CInv ==
  /\ TypeOK
  /\ OneChildEach
  /\ AnswersAreTrue

\* What a careful caller may count on holds at first.
LEMMA CarefulInit == Init => CInv
BY TypeInit DEF Init, CInv, OneChildEach, Untouched, Returning, AnswersAreTrue

\* Until it has reaped it, an object sees its own child and no other.
LEMMA OwnChild ==
  ASSUME CInv, NEW o \in Objects, is_child_created[o], answer[o] = Running, ~Returning(o)
  PROVE  /\ child_pid[o] \in Pids /\ proc[child_pid[o]] # "free"
         /\ forker[child_pid[o]] = o
         /\ Children(child_pid[o]) = {child_pid[o]}
<1>1. child_pid[o] \in Pids /\ forker[child_pid[o]] = o
  BY DEF CInv, OneChildEach, HasChild
<1>2. proc[child_pid[o]] # "free"
  BY <1>1, SubProcessAssumption DEF CInv, TypeOK
<1>3. Children(child_pid[o]) = {child_pid[o]}
  BY <1>1, <1>2, PidsArePositive DEF Children
<1>4. QED
  BY <1>1, <1>2, <1>3

\* Whatever the variables an object's facts are about, they carry over with them.
LEMMA Unchanged ==
  ASSUME NEW o \in Objects, NEW p,
         child_pid[o] = p,
         is_child_created'[o] = is_child_created[o], child_pid'[o] = child_pid[o],
         answer'[o] = answer[o], exit'[o] = exit[o], waiting'[o] = waiting[o],
         heard'[o] = heard[o],
         IF is_child_created[o] THEN HasChild(o) ELSE Untouched(o),
         is_child_created[o] /\ answer[o] = Running /\ ~Returning(o) =>
           UNCHANGED <<forker[p], proc[p], status[p]>>
  PROVE  IF is_child_created'[o] THEN HasChild(o)' ELSE Untouched(o)'
<1>1. Returning(o)' <=> Returning(o)
  BY DEF Returning
<1>2. CASE is_child_created[o]
  <2>1. HasHeard(o)'
    BY <1>2 DEF HasHeard, HasChild, Decoded
  <2>2. ASSUME answer[o] = Running, ~Returning(o)
        PROVE  forker'[p] = o /\ exit'[o] = EndedAs(p)'
    <3>1. UNCHANGED <<forker[p], proc[p], status[p]>>
      BY <1>2, <2>2
    <3>2. EndedAs(p)' = EndedAs(p)
      BY <3>1 DEF EndedAs, Decoded
    <3>3. QED
      BY <1>2, <2>2, <3>1, <3>2 DEF HasChild
  <2>3. QED
    BY <1>1, <1>2, <2>1, <2>2 DEF HasChild
<1>3. CASE ~is_child_created[o]
  BY <1>1, <1>3 DEF Untouched
<1>4. QED
  BY <1>2, <1>3

\* A call reaps the object's child: waitpid has told it how the child ended.
LEMMA ReapKeeps ==
  ASSUME CInv, TypeOK', NEW o \in Objects, NEW call \in Calls,
         is_child_created[o], answer[o] = Running, ~Returning(o),
         call = "poll" <=> waiting[o] = Idle,
         NEW p \in Zombies(child_pid[o]), Reaps(o, call, p),
         UNCHANGED <<members, waiting, history>>
  PROVE  CInv'
<1>1. p = child_pid[o] /\ p \in Pids /\ forker[p] = o /\ proc[p] = "zombie"
  BY OwnChild, ZombiesAnswer DEF CInv, Zombies
<1>2. Decoded(status[p]) = exit[o] /\ exit[o] # Running /\ status[p] \in Statuses
  BY <1>1, ZombiesAnswer, AnswersAreNotRunning DEF CInv, OneChildEach, HasChild, EndedAs, Answers
<1>3. \A q \in Pids \ {p} : UNCHANGED <<proc[q], status[q], forker[q]>>
  BY DEF Reaps, Reap, CInv, TypeOK
<1>4. proc'[p] = "free"
  BY <1>1 DEF Reaps, Reap, CInv, TypeOK
<1>5. /\ \A x \in Objects \ {o} : heard'[x] = heard[x]
      /\ heard'[o] = [heard[o] EXCEPT ![call] = [pid |-> p, status |-> status[p]]]
      /\ heard[o] \in [Calls -> Words]
  BY DEF Reaps, Hear, CInv, TypeOK, Words
<1>6. \A c \in Calls : heard[o][c] = Nothing
  BY DEF Returning
<1>7. /\ heard'[o][call] = [pid |-> p, status |-> status[p]]
      /\ \A c \in Calls \ {call} : heard'[o][c] = Nothing
  BY <1>5, <1>6
<1>8. ASSUME NEW q \in Pids, proc'[q] # "free" PROVE ForkedBy(q)'
  <2>1. q # p /\ proc[q] # "free" /\ forker'[q] = forker[q] /\ forker[q] \in Objects
    BY <1>3, <1>4, <1>8 DEF CInv, TypeOK
  <2>2. ForkedBy(q)
    BY <2>1 DEF CInv, OneChildEach
  <2>3. forker[q] # o
    BY <1>1, <2>1, <2>2 DEF ForkedBy
  <2>4. heard'[forker[q]] = heard[forker[q]]
    BY <1>5, <2>1, <2>3
  <2>5. QED
    BY <2>1, <2>2, <2>4 DEF ForkedBy, Returning, members, history
<1>9. HasChild(o)'
  <2>1. Returning(o)'
    BY <1>1, <1>2, <1>7, WordsOf DEF Returning
  <2>2. HasHeard(o)'
    BY <1>1, <1>2, <1>7 DEF HasHeard, Decoded, members, history
  <2>3. waiting[o] # Idle => waiting[o] = child_pid[o] /\ heard'[o]["poll"] = Nothing
    BY <1>7 DEF CInv, OneChildEach, HasChild, Calls
  <2>4. heard'[o]["wait"] # Nothing => waiting[o] # Idle
    BY <1>7 DEF Calls
  <2>5. QED
    BY <1>1, <2>1, <2>2, <2>3, <2>4 DEF HasChild, members, history
<1>10. ASSUME NEW x \in Objects
       PROVE  IF is_child_created'[x] THEN HasChild(x)' ELSE Untouched(x)'
  <2>1. CASE x = o
    BY <1>9, <2>1 DEF members
  <2>2. CASE x # o
    <3>1. ASSUME is_child_created[x], answer[x] = Running, ~Returning(x)
          PROVE  UNCHANGED <<forker[child_pid[x]], proc[child_pid[x]], status[child_pid[x]]>>
      <4>1. child_pid[x] \in Pids \ {p}
        BY <1>1, <2>2, <3>1, OwnChild
      <4>2. QED
        BY <1>3, <4>1 DEF members
    <3>2. heard'[x] = heard[x]
      BY <1>5, <2>2
    <3>3. IF is_child_created[x] THEN HasChild(x) ELSE Untouched(x)
      BY DEF CInv, OneChildEach
    <3>4. /\ is_child_created'[x] = is_child_created[x] /\ child_pid'[x] = child_pid[x]
          /\ answer'[x] = answer[x] /\ exit'[x] = exit[x] /\ waiting'[x] = waiting[x]
      BY DEF members, history
    <3>5. QED
      BY <3>1, <3>2, <3>3, <3>4, Unchanged
  <2>3. QED
    BY <2>1, <2>2
<1>11. AnswersAreTrue'
  BY DEF CInv, AnswersAreTrue, history
<1>12. QED
  BY <1>8, <1>10, <1>11 DEF CInv, OneChildEach

\* The call that has heard returns, with how the child ended.
LEMMA ReturnKeeps ==
  ASSUME CInv, TypeOK', NEW o \in Objects, NEW call \in Calls, heard[o][call] # Nothing,
         Tell(o, Decoded(heard[o][call].status)), Hear(o, call, Nothing),
         UNCHANGED <<kernel, is_child_created, child_pid, exit>>,
         waiting' = [waiting EXCEPT ![o] = Idle]
  PROVE  CInv'
<1>1. is_child_created[o] /\ Returning(o) /\ HasChild(o)
  BY DEF CInv, OneChildEach, Untouched, Returning
<1>2. answer[o] = Running /\ Decoded(heard[o][call].status) = exit[o] /\ exit[o] # Running
  BY <1>1 DEF HasChild, HasHeard
<1>3. answer'[o] = exit[o] /\ \A x \in Objects \ {o} : answer'[x] = answer[x]
  BY <1>2 DEF Tell, CInv, TypeOK
<1>4. \A c \in Calls \ {call} : heard[o][c] = Nothing
  BY <1>1 DEF HasChild, Calls
<1>5. /\ \A x \in Objects \ {o} : heard'[x] = heard[x]
      /\ heard'[o] = [heard[o] EXCEPT ![call] = Nothing]
      /\ heard[o] \in [Calls -> Words]
  BY DEF Hear, CInv, TypeOK, Words
<1>6. \A c \in Calls : heard'[o][c] = Nothing
  BY <1>4, <1>5
<1>7. waiting'[o] = Idle /\ \A x \in Objects \ {o} : waiting'[x] = waiting[x]
  BY DEF CInv, TypeOK
<1>8. ASSUME NEW q \in Pids, proc'[q] # "free" PROVE ForkedBy(q)'
  <2>1. ForkedBy(q) /\ forker'[q] = forker[q] /\ forker[q] \in Objects
    BY <1>8 DEF CInv, OneChildEach, TypeOK, kernel
  <2>2. forker[q] # o
    BY <1>1, <2>1 DEF ForkedBy
  <2>3. QED
    BY <1>3, <1>5, <2>1, <2>2 DEF ForkedBy, Returning
<1>9. ASSUME NEW x \in Objects
      PROVE  IF is_child_created'[x] THEN HasChild(x)' ELSE Untouched(x)'
  <2>1. CASE x = o
    <3>1. HasHeard(o)'
      BY <1>6 DEF HasHeard
    <3>2. QED
      BY <1>1, <1>2, <1>3, <1>6, <1>7, <2>1, <3>1 DEF HasChild, Calls
  <2>2. CASE x # o
    <3>1. IF is_child_created[x] THEN HasChild(x) ELSE Untouched(x)
      BY DEF CInv, OneChildEach
    <3>2. heard'[x] = heard[x] /\ waiting'[x] = waiting[x] /\ answer'[x] = answer[x]
      BY <1>3, <1>5, <1>7, <2>2
    <3>3. /\ is_child_created'[x] = is_child_created[x] /\ child_pid'[x] = child_pid[x]
          /\ exit'[x] = exit[x]
          /\ UNCHANGED <<forker[child_pid[x]], proc[child_pid[x]], status[child_pid[x]]>>
      BY DEF kernel
    <3>4. QED
      BY <3>1, <3>2, <3>3, Unchanged
  <2>3. QED
    BY <2>1, <2>2
<1>10. AnswersAreTrue'
  BY <1>3 DEF CInv, AnswersAreTrue
<1>11. QED
  BY <1>8, <1>9, <1>10 DEF CInv, OneChildEach

\* Processes end: each is the child of an object, which records how.
LEMMA EndKeeps ==
  ASSUME CInv, TypeOK', NEW ps \in SUBSET Pids, \A p \in ps : proc[p] = "running",
         NEW raw \in Statuses, End(ps, raw, Decoded(raw)),
         UNCHANGED <<forker, members, calls, answer>>
  PROVE  CInv'
<1>1. \A p \in Pids :
        IF p \in ps THEN proc'[p] = "zombie" /\ status'[p] = raw
                    ELSE proc'[p] = proc[p] /\ status'[p] = status[p]
  BY DEF End
<1>2. \A x \in Objects :
        exit'[x] = IF \E p \in ps : forker[p] = x /\ child_pid[x] = p THEN Decoded(raw) ELSE exit[x]
  BY DEF End
<1>3. \A p \in Pids :
        /\ proc'[p] # "free" <=> proc[p] # "free"
        /\ EndedAs(p)' = IF p \in ps THEN Decoded(raw) ELSE EndedAs(p)
  BY <1>1 DEF EndedAs, Decoded
<1>4. \A p \in Pids : proc[p] # "free" => forker[p] \in Objects /\ ForkedBy(p)
  BY DEF CInv, OneChildEach, TypeOK
<1>5. \A x \in Objects : ~is_child_created[x] \/ Returning(x) \/ answer[x] # Running =>
        exit'[x] = exit[x]
  BY <1>2, <1>4 DEF ForkedBy
<1>6. \A x \in Objects : Returning(x)' <=> Returning(x)
  BY DEF Returning, calls
<1>7. ASSUME NEW x \in Objects
      PROVE  IF is_child_created'[x] THEN HasChild(x)' ELSE Untouched(x)'
  <2>1. CASE is_child_created[x]
    <3>1. HasChild(x)
      BY <2>1 DEF CInv, OneChildEach
    <3>2. HasHeard(x)'
      <4>1. \A c \in Calls : heard[x][c] # Nothing => exit'[x] = exit[x]
        BY <1>5 DEF Returning
      <4>2. QED
        BY <3>1, <4>1 DEF HasChild, HasHeard, Decoded, calls, members
    <3>3. ASSUME answer[x] = Running, ~Returning(x)
          PROVE  forker[child_pid[x]] = x /\ exit'[x] = EndedAs(child_pid[x])'
      <4>1. child_pid[x] \in Pids /\ forker[child_pid[x]] = x /\ exit[x] = EndedAs(child_pid[x])
        BY <3>1, <3>3 DEF HasChild
      <4>2. exit'[x] = IF child_pid[x] \in ps THEN Decoded(raw) ELSE exit[x]
        BY <1>2, <4>1
      <4>3. EndedAs(child_pid[x])' = IF child_pid[x] \in ps THEN Decoded(raw) ELSE EndedAs(child_pid[x])
        BY <1>1, <4>1 DEF EndedAs, Decoded, members
      <4>4. QED
        BY <4>1, <4>2, <4>3
    <3>4. child_pid'[x] \in Pids
      BY <3>1 DEF HasChild, members
    <3>5. /\ waiting'[x] # Idle =>
               waiting'[x] = child_pid'[x] /\ answer'[x] = Running /\ heard'[x]["poll"] = Nothing
          /\ heard'[x]["wait"] # Nothing => waiting'[x] # Idle
      BY <3>1 DEF HasChild, calls, members
    <3>6. answer'[x] = Running /\ ~Returning(x)' =>
            forker'[child_pid'[x]] = x /\ exit'[x] = EndedAs(child_pid[x])'
      BY <1>6, <3>3 DEF members
    <3>7. QED
      BY <2>1, <3>2, <3>4, <3>5, <3>6 DEF HasChild, members
  <2>2. CASE ~is_child_created[x]
    BY <1>5, <1>6, <2>2 DEF CInv, OneChildEach, Untouched, members, calls
  <2>3. QED
    BY <2>1, <2>2
<1>8. \A p \in Pids : proc'[p] # "free" => ForkedBy(p)'
  BY <1>3, <1>4, <1>6 DEF ForkedBy, members
<1>9. AnswersAreTrue'
  BY <1>5 DEF CInv, AnswersAreTrue
<1>10. QED
  BY <1>7, <1>8, <1>9 DEF CInv, OneChildEach

\* Every step of careful callers keeps it.
LEMMA CarefulStep ==
  ASSUME Careful
  PROVE  CInv /\ [Next]_vars => CInv'
<1> SUFFICES ASSUME CInv, [Next]_vars PROVE CInv'
  OBVIOUS
<1>1. TypeOK /\ TypeOK'
  BY TypeStep DEF CInv
<1>2. ASSUME NEW o \in Objects, execute_process(o) PROVE CInv'
  <2>1. PICK p \in Pids :
          /\ proc[p] = "free"
          /\ proc' = [proc EXCEPT ![p] = "running"]
          /\ forker' = [forker EXCEPT ![p] = o]
          /\ child_pid' = [child_pid EXCEPT ![o] = p]
    BY <1>2 DEF execute_process
  <2>2. /\ ~is_child_created[o] /\ is_child_created' = [is_child_created EXCEPT ![o] = TRUE]
        /\ answer' = [answer EXCEPT ![o] = Running] /\ exit' = [exit EXCEPT ![o] = Running]
        /\ UNCHANGED <<status, calls>>
    BY <1>2 DEF execute_process, MayStart
  <2>3. Untouched(o)
    BY <2>2 DEF CInv, OneChildEach
  <2>4. \A q \in Pids : proc[q] # "free" =>
          forker[q] # o /\ forker[q] \in Objects /\ ForkedBy(q)
    BY <2>2 DEF CInv, OneChildEach, TypeOK, ForkedBy
  <2>5. \A x \in Objects : Returning(x)' <=> Returning(x)
    BY <2>2 DEF Returning, calls
  <2>6. ASSUME NEW q \in Pids, proc'[q] # "free" PROVE ForkedBy(q)'
    <3>1. CASE q = p
      <4>1. forker'[q] = o /\ child_pid'[o] = q /\ is_child_created'[o] /\ answer'[o] = Running
        BY <1>1, <2>1, <2>2, <3>1 DEF TypeOK
      <4>2. QED
        BY <2>3, <2>5, <4>1 DEF ForkedBy, Untouched
    <3>2. CASE q # p
      <4>1. proc[q] # "free" /\ forker'[q] = forker[q]
        BY <1>1, <2>1, <2>6, <3>2 DEF TypeOK
      <4>2. forker[q] # o /\ forker[q] \in Objects /\ ForkedBy(q)
        BY <2>4, <4>1
      <4>3. /\ is_child_created'[forker[q]] = is_child_created[forker[q]]
            /\ child_pid'[forker[q]] = child_pid[forker[q]]
            /\ answer'[forker[q]] = answer[forker[q]]
        BY <1>1, <2>1, <2>2, <4>2 DEF TypeOK
      <4>4. QED
        BY <2>5, <4>1, <4>2, <4>3 DEF ForkedBy
    <3>3. QED
      BY <3>1, <3>2
  <2>7. ASSUME NEW x \in Objects
        PROVE  IF is_child_created'[x] THEN HasChild(x)' ELSE Untouched(x)'
    <3>1. CASE x = o
      <4>1. /\ is_child_created'[o] /\ child_pid'[o] = p /\ answer'[o] = Running
            /\ exit'[o] = Running /\ forker'[p] = o /\ proc'[p] = "running"
        BY <1>1, <2>1, <2>2 DEF TypeOK
      <4>2. waiting'[o] = Idle /\ \A c \in Calls : heard'[o][c] = Nothing
        BY <2>2, <2>3 DEF Untouched, Returning, calls
      <4>3. HasHeard(o)'
        BY <4>2 DEF HasHeard
      <4>4. EndedAs(p)' = Running
        BY <4>1 DEF EndedAs
      <4>5. QED
        BY <3>1, <4>1, <4>2, <4>3, <4>4 DEF HasChild, Calls
    <3>2. CASE x # o
      <4>1. /\ is_child_created'[x] = is_child_created[x] /\ child_pid'[x] = child_pid[x]
            /\ answer'[x] = answer[x] /\ exit'[x] = exit[x] /\ waiting'[x] = waiting[x]
            /\ heard'[x] = heard[x]
        BY <1>1, <2>1, <2>2, <3>2 DEF TypeOK, calls
      <4>2. ASSUME is_child_created[x], answer[x] = Running, ~Returning(x)
            PROVE  UNCHANGED <<forker[child_pid[x]], proc[child_pid[x]], status[child_pid[x]]>>
        <5>1. child_pid[x] \in Pids \ {p}
          BY <2>1, <4>2, OwnChild
        <5>2. QED
          BY <1>1, <2>1, <2>2, <4>1, <5>1 DEF TypeOK
      <4>3. IF is_child_created[x] THEN HasChild(x) ELSE Untouched(x)
        BY DEF CInv, OneChildEach
      <4>4. QED
        BY <4>1, <4>2, <4>3, Unchanged
    <3>3. QED
      BY <3>1, <3>2
  <2>8. AnswersAreTrue'
    BY <1>1, <2>2 DEF CInv, AnswersAreTrue, TypeOK
  <2>9. QED
    BY <1>1, <2>6, <2>7, <2>8 DEF CInv, OneChildEach
<1>3. ASSUME TypeOK', UNCHANGED <<proc, status, forker, members, calls, answer, exit>> PROVE CInv'
  <2>1. \A x \in Objects : Returning(x)' <=> Returning(x)
    BY <1>3 DEF Returning, calls
  <2>2. ASSUME NEW q \in Pids, proc'[q] # "free" PROVE ForkedBy(q)'
    <3>1. ForkedBy(q) /\ forker[q] \in Objects
      BY <1>1, <1>3, <2>2 DEF CInv, OneChildEach, TypeOK
    <3>2. QED
      BY <1>3, <2>1, <3>1 DEF ForkedBy, members
  <2>3. ASSUME NEW x \in Objects
        PROVE  IF is_child_created'[x] THEN HasChild(x)' ELSE Untouched(x)'
    <3>1. IF is_child_created[x] THEN HasChild(x) ELSE Untouched(x)
      BY DEF CInv, OneChildEach
    <3>2. /\ is_child_created'[x] = is_child_created[x] /\ child_pid'[x] = child_pid[x]
          /\ answer'[x] = answer[x] /\ exit'[x] = exit[x] /\ waiting'[x] = waiting[x]
          /\ heard'[x] = heard[x]
          /\ UNCHANGED <<forker[child_pid[x]], proc[child_pid[x]], status[child_pid[x]]>>
      BY <1>3 DEF members, calls
    <3>3. QED
      BY <3>1, <3>2, Unchanged
  <2>4. AnswersAreTrue'
    BY <1>3 DEF CInv, AnswersAreTrue
  <2>5. QED
    BY <1>3, <2>2, <2>3, <2>4 DEF CInv, OneChildEach
<1>4. ASSUME NEW o \in Objects, ForkFails(o) PROVE CInv'
  <2>1. /\ ~is_child_created[o] /\ child_pid' = [child_pid EXCEPT ![o] = NoPid]
        /\ UNCHANGED <<kernel, is_child_created, ret_code, calls, exit, answer>>
    BY <1>4 DEF ForkFails, MayStart
  <2>2. child_pid[o] = NoPid
    BY <2>1 DEF CInv, OneChildEach, Untouched
  <2>3. child_pid' = child_pid
    BY <1>1, <2>1, <2>2 DEF TypeOK
  <2>4. QED
    BY <1>1, <1>3, <2>1, <2>3 DEF kernel, members
<1>5. ASSUME NEW o \in Objects, wait(o) PROVE CInv'
  <2>1. /\ is_child_created[o] /\ answer[o] = Running /\ ~Returning(o)
        /\ waiting' = [waiting EXCEPT ![o] = child_pid[o]]
        /\ UNCHANGED <<kernel, members, heard, history>>
    BY <1>5 DEF wait, MayWait, MayUse
  <2>2. \A x \in Objects : Returning(x)' <=> Returning(x)
    BY <2>1 DEF Returning
  <2>3. ASSUME NEW q \in Pids, proc'[q] # "free" PROVE ForkedBy(q)'
    <3>1. ForkedBy(q) /\ forker[q] \in Objects
      BY <1>1, <2>1, <2>3 DEF CInv, OneChildEach, TypeOK, kernel
    <3>2. QED
      BY <2>1, <2>2, <3>1 DEF ForkedBy, kernel, members, history
  <2>4. ASSUME NEW x \in Objects
        PROVE  IF is_child_created'[x] THEN HasChild(x)' ELSE Untouched(x)'
    <3>1. IF is_child_created[x] THEN HasChild(x) ELSE Untouched(x)
      BY DEF CInv, OneChildEach
    <3>2. /\ is_child_created'[x] = is_child_created[x] /\ child_pid'[x] = child_pid[x]
          /\ answer'[x] = answer[x] /\ exit'[x] = exit[x] /\ heard'[x] = heard[x]
          /\ UNCHANGED <<forker[child_pid[x]], proc[child_pid[x]], status[child_pid[x]]>>
      BY <2>1 DEF kernel, members, history
    <3>3. CASE x = o
      <4>1. waiting'[o] = child_pid[o] /\ \A c \in Calls : heard[o][c] = Nothing
        BY <1>1, <2>1 DEF TypeOK, Returning
      <4>2. HasChild(o) /\ EndedAs(child_pid[o])' = EndedAs(child_pid[o])
        BY <2>1, <3>1, <3>2, <3>3 DEF EndedAs, Decoded, members
      <4>3. HasHeard(o)'
        BY <3>2, <3>3, <4>1 DEF HasHeard
      <4>4. QED
        BY <2>1, <2>2, <3>2, <3>3, <4>1, <4>2, <4>3 DEF HasChild, Calls, members
    <3>4. CASE x # o
      <4>1. waiting'[x] = waiting[x]
        BY <1>1, <2>1, <3>4 DEF TypeOK
      <4>2. QED
        BY <3>1, <3>2, <4>1, Unchanged
    <3>5. QED
      BY <3>3, <3>4
  <2>5. AnswersAreTrue'
    BY <2>1 DEF CInv, AnswersAreTrue, history
  <2>6. QED
    BY <1>1, <2>3, <2>4, <2>5 DEF CInv, OneChildEach
<1>6. ASSUME NEW o \in Objects, Spinning(o)
      PROVE  /\ is_child_created[o] /\ answer[o] = Running /\ ~Returning(o)
             /\ waiting[o] = child_pid[o] /\ waiting[o] # Idle
  BY <1>6 DEF Spinning, CInv, OneChildEach, Untouched, HasChild, Returning, Calls
<1>7. ASSUME NEW o \in Objects, MayPoll(o)
      PROVE  /\ is_child_created[o] /\ answer[o] = Running /\ ~Returning(o) /\ waiting[o] = Idle
  BY <1>7 DEF MayPoll, MayUse, CInv, OneChildEach, HasChild, Returning, Calls
<1>8. ASSUME NEW o \in Objects PROVE ~WaitFindsNone(o) /\ ~PollFindsNone(o)
  BY <1>6, <1>7, OwnChild DEF WaitFindsNone, PollFindsNone
<1>9. ASSUME NEW o \in Objects, WaitReaps(o) PROVE CInv'
  <2>1. Spinning(o) /\ UNCHANGED <<members, waiting, history>>
    BY <1>9 DEF WaitReaps
  <2>2. PICK p \in Zombies(waiting[o]) : Reaps(o, "wait", p)
    BY <1>9 DEF WaitReaps, WaitedFor
  <2>3. QED
    BY <1>1, <1>6, <2>1, <2>2, ReapKeeps DEF Calls
<1>10. ASSUME NEW o \in Objects, PollReaps(o) PROVE CInv'
  <2>1. MayPoll(o) /\ UNCHANGED <<members, waiting, history>>
    BY <1>10 DEF PollReaps
  <2>2. PICK p \in Zombies(child_pid[o]) : Reaps(o, "poll", p)
    BY <1>10 DEF PollReaps
  <2>3. QED
    BY <1>1, <1>7, <2>1, <2>2, ReapKeeps DEF Calls
<1>11. ASSUME NEW o \in Objects, NEW c \in Calls, heard[o][c] # Nothing
       PROVE  /\ heard[o][c] # NoChild /\ heard[o][c].pid = child_pid[o]
              /\ c = "poll" => waiting[o] = Idle
  <2>1. HasChild(o)
    BY <1>11 DEF CInv, OneChildEach, Untouched, Returning
  <2>2. heard[o][c].pid = child_pid[o] /\ child_pid[o] \in Pids
    BY <1>11, <2>1 DEF HasChild, HasHeard
  <2>3. QED
    BY <1>11, <2>1, <2>2, WordsOf DEF HasChild
<1>12. ASSUME NEW o \in Objects, WaitReturns(o) PROVE CInv'
  <2>1. heard[o]["wait"] # Nothing /\ Hear(o, "wait", Nothing) /\ Leave(o)
        /\ UNCHANGED <<kernel, members, exit>>
    BY <1>12 DEF WaitReturns
  <2>2. Tell(o, Decoded(heard[o]["wait"].status))
    BY <1>11, <1>12 DEF WaitReturns, Calls
  <2>3. QED
    BY <1>1, <2>1, <2>2, ReturnKeeps DEF Calls, Leave, members
<1>13. ASSUME NEW o \in Objects, PollReturns(o) PROVE CInv'
  <2>1. /\ heard[o]["poll"] # Nothing /\ Hear(o, "poll", Nothing)
        /\ UNCHANGED <<kernel, is_child_created, child_pid, waiting, exit>>
    BY <1>13 DEF PollReturns
  <2>2. PollCodes(o) = {Decoded(heard[o]["poll"].status)} /\ waiting[o] = Idle
    BY <1>11, <2>1 DEF PollCodes, Calls
  <2>3. Tell(o, Decoded(heard[o]["poll"].status))
    BY <1>13, <2>2 DEF PollReturns
  <2>4. waiting' = [waiting EXCEPT ![o] = Idle]
    BY <1>1, <2>1, <2>2 DEF TypeOK
  <2>5. QED
    BY <1>1, <2>1, <2>3, <2>4, ReturnKeeps DEF Calls
<1>14. ASSUME NEW o \in Objects, kill(o) PROVE CInv'
  <2> DEFINE ps == {p \in Targets(o) : proc[p] = "running"}
  <2>1. ps \in SUBSET Pids
    BY DEF Targets
  <2>2. End(ps, SIGKILL, Decoded(SIGKILL)) /\ SIGKILL \in Statuses
    BY <1>14, DecodesStatuses DEF kill, Statuses
  <2>3. UNCHANGED <<forker, members, calls, answer>>
    BY <1>14 DEF kill
  <2>4. \A p \in ps : proc[p] = "running"
    OBVIOUS
  <2> HIDE DEF ps
  <2>5. QED
    BY <1>1, <2>1, <2>2, <2>3, <2>4, EndKeeps
<1>15. ASSUME NEW p \in Pids, SetSid(p) PROVE CInv'
  BY <1>1, <1>3, <1>15 DEF SetSid, history
<1>16. ASSUME NEW p \in Pids, Exit(p) PROVE CInv'
  <2>1. PICK code \in Codes : End({p}, 256 * code, code)
    BY <1>16 DEF Exit
  <2>2. 256 * code \in Statuses /\ Decoded(256 * code) = code
    BY DecodesStatuses DEF Statuses
  <2>3. {p} \in SUBSET Pids /\ \A q \in {p} : proc[q] = "running"
    BY <1>16 DEF Exit
  <2>4. UNCHANGED <<forker, members, calls, answer>>
    BY <1>16 DEF Exit
  <2>5. QED
    BY <1>1, <2>1, <2>2, <2>3, <2>4, EndKeeps
<1>17. CASE UNCHANGED vars
  BY <1>1, <1>3, <1>17 DEF vars, kernel, history
<1>18. QED
  BY <1>2, <1>4, <1>5, <1>8, <1>9, <1>10, <1>12, <1>13, <1>14, <1>15, <1>16, <1>17
     DEF Next, WaitStep

\* With careful callers it holds always.
LEMMA CarefulInvariance == ASSUME Careful PROVE Spec => []CInv
BY CarefulInit, CarefulStep, PTL DEF Spec

-----------------------------------------------------------------------------

(***************************************************************************)
(* With any callers, an object loses track of a child only by being        *)
(* started again: wait and poll may reap other objects' children, but the  *)
(* child_pid of an object started once is the pid of its child.            *)
(***************************************************************************)
THEOREM ChildrenStayKnown == Spec => []ChildrenAreKnown
<1>1. IInv => ChildrenAreKnown
  BY DEF IInv
<1>2. QED
  BY <1>1, Invariance, PTL

(***************************************************************************)
(* With any callers, what poll stores in ret_code is an exit code, a       *)
(* signal or a pid, never the -1 that says that the child still runs.      *)
(***************************************************************************)
THEOREM ReturnCodesStick == Spec => ReturnCodeSticks
<1>1. TypeOK /\ [Next]_vars =>
        [\A o \in Objects : ret_code[o] # Running => ret_code'[o] # Running]_vars
  <2> SUFFICES ASSUME TypeOK, Next, NEW x \in Objects, ret_code[x] # Running
               PROVE  ret_code'[x] # Running
    OBVIOUS
  <2>1. ASSUME NEW o \in Objects, PollReturns(o) PROVE ret_code'[x] # Running
    <3>1. PICK code \in PollCodes(o) : ret_code' = [ret_code EXCEPT ![o] = code]
      BY <2>1 DEF PollReturns
    <3>2. code # Running
      BY <2>1, PollAnswers, AnswersAreNotRunning DEF PollReturns
    <3>3. QED
      BY <3>1, <3>2 DEF TypeOK
  <2>2. CASE UNCHANGED ret_code
    BY <2>2
  <2>3. QED
    BY <2>1, <2>2
       DEF Next, execute_process, ForkFails, wait, WaitStep, WaitReturns, WaitFindsNone, WaitReaps,
           PollReaps, PollFindsNone, kill, SetSid, Exit, members
<1>2. QED
  BY <1>1, TypeCorrect, PTL DEF Spec, ReturnCodeSticks

(***************************************************************************)
(* A careful caller is told by wait or poll how its own child ended,       *)
(* however many other objects fork, reap and reuse pids meanwhile.         *)
(***************************************************************************)
THEOREM CarefulAnswersAreTrue == ASSUME Careful PROVE Spec => []AnswersAreTrue
<1>1. CInv => AnswersAreTrue
  BY DEF CInv
<1>2. QED
  BY <1>1, CarefulInvariance, PTL

(***************************************************************************)
(* A child of careful callers that is left as a zombie is one whose end    *)
(* its object has not told yet: the answer and the reaping come together.  *)
(***************************************************************************)
THEOREM CarefulCallersLeaveNoZombie == ASSUME Careful PROVE Spec => []NoZombieLeft
<1>1. CInv => NoZombieLeft
  BY DEF CInv, OneChildEach, ForkedBy, NoZombieLeft
<1>2. QED
  BY <1>1, CarefulInvariance, PTL

(***************************************************************************)
(* A careful caller's kill signals its own child alone, which it asked to  *)
(* be killed; it can hit another object's child only in the window between *)
(* the waitpid of a wait or a poll and the return of that call.            *)
(***************************************************************************)
THEOREM CarefulKillsHitTheirOwn == ASSUME Careful PROVE Spec => KillsItsOwn
<1> DEFINE Own == \A p \in Pids :
                    status'[p] = SIGKILL /\ status[p] # SIGKILL =>
                      \/ asked'[forker[p]]
                      \/ \E o \in Objects : child_pid[o] = p /\ Returning(o)
<1>1. CInv /\ [Next]_vars => [Own]_vars
  <2> SUFFICES ASSUME CInv, Next, NEW p \in Pids, status'[p] = SIGKILL, status[p] # SIGKILL
               PROVE  \/ asked'[forker[p]]
                      \/ \E o \in Objects : child_pid[o] = p /\ Returning(o)
    OBVIOUS
  <2>1. ASSUME NEW o \in Objects, kill(o)
        PROVE  \/ asked'[forker[p]]
               \/ \E x \in Objects : child_pid[x] = p /\ Returning(x)
    <3>1. is_child_created[o] /\ answer[o] = Running /\ child_pid[o] \in Pids
      BY <2>1 DEF kill, MayUse, CInv, OneChildEach, HasChild
    <3>2. p \in Targets(o)
      BY <2>1 DEF kill, End
    <3>3. p = child_pid[o]
      BY <3>1, <3>2, PidsArePositive DEF Targets
    <3>4. ~Returning(o) => forker[p] = o
      BY <3>1, <3>3, OwnChild
    <3>5. asked'[o]
      BY <2>1 DEF kill, CInv, TypeOK
    <3>6. QED
      BY <3>3, <3>4, <3>5
  <2>2. ASSUME NEW q \in Pids, Exit(q) PROVE FALSE
    <3>1. PICK code \in Codes : status'[p] = IF p \in {q} THEN 256 * code ELSE status[p]
      BY <2>2 DEF Exit, End
    <3>2. 256 * code # SIGKILL
      BY SubProcessAssumption DEF SIGKILL
    <3>3. QED
      BY <3>1, <3>2
  <2>3. ASSUME NEW q \in Pids, Reap(q) PROVE FALSE
    BY <2>3 DEF Reap, CInv, TypeOK, Running, SIGKILL
  <2>4. ASSUME NEW o \in Objects, WaitReaps(o) \/ PollReaps(o) PROVE FALSE
    <3>1. PICK q \in Pids : Reap(q)
      BY <2>4 DEF WaitReaps, PollReaps, Reaps, WaitedFor, Zombies, Children
    <3>2. QED
      BY <2>3, <3>1
  <2>5. status' # status
    OBVIOUS
  <2>6. QED
    BY <2>1, <2>2, <2>4, <2>5
       DEF Next, execute_process, ForkFails, wait, WaitStep, WaitReturns, WaitFindsNone,
           PollReturns, PollFindsNone, SetSid, kernel
<1>2. QED
  BY <1>1, CarefulInvariance, PTL DEF Spec, KillsItsOwn
=============================================================================
