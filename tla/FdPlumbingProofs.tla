-------------------------- MODULE FdPlumbingProofs --------------------------
(***************************************************************************)
(* Proofs about FdPlumbing, for any objects, options and table size.       *)
(*                                                                         *)
(* The invariant has two halves.  ParentInv says who holds what in the     *)
(* parent: every open descriptor beyond the streams is held by exactly one *)
(* member of a bridge or one option being set, and refers to what that     *)
(* holder opened.  ChildInv says what a child has of it, from the copy     *)
(* that fork made to the streams that the dup2 calls leave.  Neither       *)
(* OneOwner nor StreamsAsAsked is inductive without the other half: that   *)
(* dup2 gives a child its own file needs the owners to be different, and   *)
(* that closing in one thread leaves the others' pipes alone, too.         *)
(***************************************************************************)
EXTENDS FdPlumbing, TLAPS, FiniteSetTheorems, WellFoundedInduction

High == Fds \ (0 .. 2)

Table == [Fds -> Entries \cup {Nothing}]

\* The least of a set of numbers is one of them.
LEMMA MinIsIn ==
  ASSUME NEW S \in SUBSET Nat, S # {}
  PROVE  Min(S) \in S
<1> DEFINE Less == {pair \in Nat \X Nat : pair[1] < pair[2]}
<1>1. IsWellFoundedOn(Less, Nat)
  BY NatLessThanWellFounded DEF OpToRel
<1>2. PICK x \in S : \A y \in S : ~(<<y, x>> \in Less)
  <2> HIDE DEF Less
  <2>1. QED
    BY <1>1, WFMin
<1>3. \A y \in S : x <= y
  <2>1. TAKE y \in S
  <2>2. <<y, x>> \in Nat \X Nat /\ <<y, x>>[1] = y /\ <<y, x>>[2] = x
    OBVIOUS
  <2>3. ~(<<y, x>>[1] < <<y, x>>[2])
    BY <1>2, <2>2
  <2>4. QED
    BY <2>2, <2>3
<1>4. QED
  BY <1>3 DEF Min

\* What Close leaves of a table.
LEMMA CloseIs ==
  ASSUME NEW t \in Table, NEW set
  PROVE  /\ Close(t, set) \in Table
         /\ \A f \in Fds : Close(t, set)[f] = IF f \in set THEN Nothing ELSE t[f]
BY DEF Close, Table

\* An entry as dup2 copies it.
Plain(e) == [ref |-> e.ref, cloexec |-> FALSE]

\* An entry without its close-on-exec flag refers to the same.
LEMMA PlainIs ==
  ASSUME NEW e \in Entries
  PROVE  /\ Plain(e) \in Entries /\ Plain(e) # Nothing
         /\ Plain(e).ref = e.ref /\ Plain(e).cloexec = FALSE
         /\ [e EXCEPT !.cloexec = FALSE] = Plain(e)
<1>1. e.ref \in Refs
  BY DEF Entries
<1>2. Plain(e) \in Entries
  <2> HIDE DEF Refs
  <2>1. QED
    BY <1>1 DEF Plain, Entries
<1>3. [e EXCEPT !.cloexec = FALSE] = Plain(e)
  <2> DEFINE d == [e EXCEPT !.cloexec = FALSE]
  <2>1. d \in Entries /\ d.ref = e.ref /\ d.cloexec = FALSE
    BY DEF Entries
  <2> HIDE DEF d
  <2>2. d = [ref |-> d.ref, cloexec |-> d.cloexec]
    BY <2>1 DEF Entries
  <2>3. d = Plain(e)
    BY <2>1, <2>2 DEF Plain
  <2>4. QED
    BY <2>3 DEF d
<1>4. Plain(e).ref = e.ref /\ Plain(e).cloexec = FALSE
  BY DEF Plain
<1>5. QED
  BY <1>2, <1>3, <1>4, NothingAssumption

\* What Dup2 makes of a table.
LEMMA Dup2Is ==
  ASSUME NEW t \in Table, NEW from \in Fds \cup {NoFd}, NEW to \in 0 .. 2,
         from # NoFd => from \in High /\ t[from] # Nothing
  PROVE  /\ Dup2(t, from, to) \in Table
         /\ \A f \in Fds : f # to \/ from = NoFd => Dup2(t, from, to)[f] = t[f]
         /\ from # NoFd => Dup2(t, from, to)[to] = Plain(t[from])
<1>1. to \in Fds /\ from # to
  BY FdPlumbingAssumption DEF Fds, High, NoFd
<1>2. CASE from = NoFd
  BY <1>2 DEF Dup2
<1>3. CASE from # NoFd
  <2>1. from \in Fds /\ t[from] \in Entries
    BY <1>3 DEF High, Table
  <2>2. [t[from] EXCEPT !.cloexec = FALSE] = Plain(t[from])
    BY <2>1, PlainIs
  <2>3. Dup2(t, from, to) = [t EXCEPT ![to] = Plain(t[from])]
    BY <1>1, <1>3, <2>2 DEF Dup2, Table
  <2>4. QED
    BY <1>1, <1>3, <2>1, <2>3, PlainIs DEF Table
<1>4. QED
  BY <1>2, <1>3

-----------------------------------------------------------------------------
\* What the members of a bridge, and the option being set, hold.
Keys == Slots \cup ({"fresh"} \X {1, 2})

Held(o, k) ==
  IF k \in Slots THEN bridge[o][k]
  ELSE IF k[2] \in DOMAIN fresh[o].open THEN fresh[o].open[k[2]] ELSE NoFd

\* The descriptor of a stream at either end, or NoFd.
ChildEnd(b, s) == b[<<"second", s>>]
ParentEnd(b, s) == b[<<"first", Peer[s]>>]

\* The child has a table.
Living(o) == child[o] \notin {"none", "ended"}

-----------------------------------------------------------------------------
(* The parent *)

\* What the option being set has opened is what it was meant to be.
FreshOf(o) ==
  /\ fresh[o].stream \in Streams
  /\ options[o] # 0
  /\ \/ \E f \in Fds :
          /\ fresh[o].open = <<f>>
          /\ fds[Parent][f].ref = Ref(o, options[o], "file")
     \/ \E f, g \in Fds :
          /\ fresh[o].open = <<f, g>>
          /\ fds[Parent][f].ref = Ref(o, options[o], "r")
          /\ fds[Parent][g].ref = Ref(o, options[o], "w")

FreshOpen == \A o \in Objects : pc[o] = "marking" => FreshOf(o)

\* A thread that sets no option has nothing but its bridge.
Resting == \A o \in Objects : pc[o] # "marking" => fresh[o] = NoOption

\* The parent's streams stay as the process got them.
StdOpen == \A f \in 0 .. 2 : fds[Parent][f] = Inherit(f)

\* What somebody holds is open, one holds it, and what is open somebody holds.
HeldIsOpen ==
  \A o \in Objects, k \in Keys :
    Held(o, k) # NoFd => Held(o, k) \in High /\ fds[Parent][Held(o, k)] # Nothing

OneHolder ==
  \A o1, o2 \in Objects, k1, k2 \in Keys :
    Held(o1, k1) # NoFd /\ Held(o1, k1) = Held(o2, k2) => o1 = o2 /\ k1 = k2

OpenIsHeld ==
  \A f \in High :
    fds[Parent][f] # Nothing => \E o \in Objects, k \in Keys : Held(o, k) = f

\* The parent holds the other end of the pipe that stream s was given.
Joined(o, s) ==
  /\ ParentEnd(bridge[o], s) # NoFd
  /\ fds[Parent][ParentEnd(bridge[o], s)].ref = Ref(o, asked[o][s], "r")

\* What a child is meant to have as stream s.
Meant(o, s) == {Ref(o, asked[o][s], "w"), Ref(o, asked[o][s], "file")}

\* The child's end of stream s is marked, and of the option that gave it.
SecondOf(o, s) ==
  LET f == ChildEnd(bridge[o], s)
  IN  IF f = NoFd THEN pc[o] # "started" => asked[o][s] = 0
      ELSE /\ pc[o] # "started" /\ asked[o][s] # 0
           /\ fds[Parent][f].cloexec
           /\ fds[Parent][f].ref \in Meant(o, s)
           /\ fds[Parent][f].ref.end = "w" => Joined(o, s)

SecondRefs == \A o \in Objects, s \in Streams : SecondOf(o, s)

\* The parent's ends are marked, and ends to read from of pipes of the object.
FirstRefs ==
  \A o \in Objects, s \in Streams :
    LET g == ParentEnd(bridge[o], s)
    IN  g # NoFd => /\ fds[Parent][g].cloexec
                    /\ fds[Parent][g].ref.by = o /\ fds[Parent][g].ref.end = "r"

-----------------------------------------------------------------------------
(* The children *)

\* The descriptor that is stream s of the child, or is going to be.
Given(o, s) ==
  IF child[o] = "born" /\ ChildEnd(inherited[o], s) # NoFd
    THEN ChildEnd(inherited[o], s) ELSE Std[s]

\* The members of the child's copy of the bridge hold different descriptors, and
\* none of its streams.
Copied(o) ==
  /\ \A slot \in Slots : inherited[o][slot] \in High \cup {NoFd}
  /\ \A one, two \in Slots :
       inherited[o][one] # NoFd /\ inherited[o][one] = inherited[o][two] => one = two

\* No stream of a child is closed on exec.
PlainStreams(o) == \A f \in 0 .. 2 : fds[o][f] # Nothing /\ ~fds[o][f].cloexec

\* What is stream s of the child, or is to be, is what was asked for.
StreamsGiven(o) ==
  \A s \in Streams :
    LET mine == fds[o][Given(o, s)]
    IN  /\ mine # Nothing
        /\ IF asked[o][s] = 0 THEN mine.ref = Inherit(Std[s]).ref
           ELSE mine.ref \in Meant(o, s)
        /\ mine.ref.end = "w" => Joined(o, s)

\* Beyond the streams a child has what is closed on exec or was unmarked.
MarkedOrInWindow(o) ==
  \A f \in High : fds[o][f] # Nothing => fds[o][f].cloexec \/ fds[o][f].ref \in window[o]

OnlyWindow(o) == \A f \in High : fds[o][f] # Nothing => fds[o][f].ref \in window[o]

ChildOf(o) ==
  /\ child[o] # "none" => pc[o] \in {"forked", "started"}
  /\ child[o] = "born" => Copied(o)
  /\ Living(o) => PlainStreams(o) /\ StreamsGiven(o)
  /\ child[o] \in {"born", "ready"} => MarkedOrInWindow(o)
  /\ child[o] = "program" => OnlyWindow(o)

-----------------------------------------------------------------------------
(* The inductive invariant *)

ParentInv ==
  /\ Resting /\ FreshOpen /\ StdOpen
  /\ HeldIsOpen /\ OneHolder /\ OpenIsHeld
  /\ SecondRefs /\ FirstRefs

ChildInv == \A o \in Objects : ChildOf(o)

IInv == TypeOK /\ ParentInv /\ ChildInv

-----------------------------------------------------------------------------
(* What the kernel gives *)

\* What open does: one unused number, in the parent alone.
LEMMA OpensOne ==
  ASSUME TypeOK, StdOpen, NEW o \in Objects, NEW s \in Streams, NEW r \in Refs,
         Opens(o, s, <<r>>)
  PROVE  \E f \in High :
           /\ fds[Parent][f] = Nothing
           /\ fds' = [fds EXCEPT ![Parent] = [x \in Fds |->
                        IF x = f THEN [ref |-> r, cloexec |-> FALSE] ELSE fds[Parent][x]]]
           /\ fresh' = [fresh EXCEPT ![o] = [stream |-> s, open |-> <<f>>]]
<1> DEFINE free == Fds \ OpenIn(fds[Parent])
           low == Min(free)
           refs == <<r>>
<1>1. free \in SUBSET Nat /\ free # {}
  <2>1. Cardinality(free) >= 1
    BY DEF Opens
  <2>2. QED
    BY <2>1, FS_EmptySet DEF Fds
<1>2. low \in free
  BY <1>1, MinIsIn
<1>3. low \in High /\ fds[Parent][low] = Nothing
  <2>1. low \in Fds /\ fds[Parent][low] = Nothing
    BY <1>2 DEF OpenIn
  <2>2. low \notin 0 .. 2
    <3>1. \A f \in 0 .. 2 : Inherit(f) \in Entries
      BY DEF Inherit, Entries, Refs, Ref, Processes
    <3>2. QED
      BY <2>1, <3>1, NothingAssumption DEF StdOpen
  <2>3. QED
    BY <2>1, <2>2 DEF High
<1> HIDE DEF low
<1>4. fds' = [fds EXCEPT ![Parent] = [x \in Fds |->
                IF \E i \in DOMAIN <<r>> : <<low>>[i] = x
                  THEN [ref |-> refs[CHOOSE i \in DOMAIN <<r>> : <<low>>[i] = x],
                        cloexec |-> FALSE]
                  ELSE @[x]]]
  BY DEF Opens, low
<1>5. \A x \in Fds :
        /\ (\E i \in DOMAIN <<r>> : <<low>>[i] = x) <=> x = low
        /\ x = low => refs[CHOOSE i \in DOMAIN <<r>> : <<low>>[i] = x] = r
  OBVIOUS
<1>6. fds' = [fds EXCEPT ![Parent] = [x \in Fds |->
                IF x = low THEN [ref |-> r, cloexec |-> FALSE] ELSE fds[Parent][x]]]
  <2> HIDE DEF refs
  <2>1. Parent \in DOMAIN fds
    BY DEF TypeOK, Processes
  <2>2. QED
    BY <1>4, <1>5, <2>1
<1>7. fresh' = [fresh EXCEPT ![o] = [stream |-> s, open |-> <<low>>]]
  BY DEF Opens, low
<1>8. QED
  BY <1>3, <1>6, <1>7

\* What pipe does: two different unused numbers, in the parent alone.
LEMMA OpensTwo ==
  ASSUME TypeOK, StdOpen, NEW o \in Objects, NEW s \in Streams,
         NEW r1 \in Refs, NEW r2 \in Refs, Opens(o, s, <<r1, r2>>)
  PROVE  \E f, g \in High :
           /\ f # g /\ fds[Parent][f] = Nothing /\ fds[Parent][g] = Nothing
           /\ fds' = [fds EXCEPT ![Parent] = [x \in Fds |->
                        IF x = f THEN [ref |-> r1, cloexec |-> FALSE]
                        ELSE IF x = g THEN [ref |-> r2, cloexec |-> FALSE]
                        ELSE fds[Parent][x]]]
           /\ fresh' = [fresh EXCEPT ![o] = [stream |-> s, open |-> <<f, g>>]]
<1> DEFINE free == Fds \ OpenIn(fds[Parent])
           low == Min(free)
           next == Min(free \ {low})
           refs == <<r1, r2>>
           numbers == <<low, next>>
<1>1. free \in SUBSET Nat /\ free # {} /\ free \ {low} # {}
  <2>1. Cardinality(free) >= 2
    BY DEF Opens
  <2>2. free # {}
    BY <2>1, FS_EmptySet
  <2>3. free # {low}
    <3> HIDE DEF low
    <3>1. QED
      BY <2>1, FS_Singleton
  <2>4. low \in free
    BY <2>2, MinIsIn DEF Fds
  <2> HIDE DEF low
  <2>5. QED
    BY <2>2, <2>3, <2>4 DEF Fds
<1>2. low \in free /\ next \in free \ {low}
  BY <1>1, MinIsIn
<1> HIDE DEF low, next
<1>3. \A f \in free : f \in High /\ fds[Parent][f] = Nothing
  <2>1. \A f \in free : f \in Fds /\ fds[Parent][f] = Nothing
    BY DEF OpenIn
  <2>2. \A f \in 0 .. 2 : Inherit(f) \in Entries
    BY DEF Inherit, Entries, Refs, Ref, Processes
  <2>3. QED
    BY <2>1, <2>2, NothingAssumption DEF StdOpen, High
<1>4. fds' = [fds EXCEPT ![Parent] = [x \in Fds |->
                IF \E i \in DOMAIN <<r1, r2>> : numbers[i] = x
                  THEN [ref |-> refs[CHOOSE i \in DOMAIN <<r1, r2>> : numbers[i] = x],
                        cloexec |-> FALSE]
                  ELSE @[x]]]
  BY DEF Opens, low, next
<1>5. \A x \in Fds :
        /\ (\E i \in DOMAIN <<r1, r2>> : numbers[i] = x) <=> x \in {low, next}
        /\ x = low => refs[CHOOSE i \in DOMAIN <<r1, r2>> : numbers[i] = x] = r1
        /\ x = next => refs[CHOOSE i \in DOMAIN <<r1, r2>> : numbers[i] = x] = r2
  BY <1>2
<1>6. fds' = [fds EXCEPT ![Parent] = [x \in Fds |->
                IF x = low THEN [ref |-> r1, cloexec |-> FALSE]
                ELSE IF x = next THEN [ref |-> r2, cloexec |-> FALSE]
                ELSE fds[Parent][x]]]
  <2> HIDE DEF refs, numbers
  <2>1. Parent \in DOMAIN fds
    BY DEF TypeOK, Processes
  <2>2. QED
    BY <1>2, <1>4, <1>5, <2>1
<1>7. fresh' = [fresh EXCEPT ![o] = [stream |-> s, open |-> <<low, next>>]]
  BY DEF Opens, low, next
<1>8. QED
  BY <1>2, <1>3, <1>6, <1>7

-----------------------------------------------------------------------------
(* What the child makes of its copy *)

\* Three calls of dup2 give each stream what the bridge holds for it, and leave
\* every other descriptor alone.
LEMMA RedirectedIs ==
  ASSUME NEW t \in Table, NEW b \in [Slots -> High \cup {NoFd}],
         \A s \in Streams :
           ChildEnd(b, s) # NoFd => t[ChildEnd(b, s)] # Nothing
  PROVE  /\ Redirected(t, b) \in Table
         /\ \A f \in High : Redirected(t, b)[f] = t[f]
         /\ \A s \in Streams :
              Redirected(t, b)[Std[s]] =
                IF ChildEnd(b, s) = NoFd THEN t[Std[s]] ELSE Plain(t[ChildEnd(b, s)])
<1> DEFINE x == ChildEnd(b, "input")
           y == ChildEnd(b, "output")
           z == ChildEnd(b, "error")
           in == Dup2(t, x, 0)
           out == Dup2(in, y, 1)
           all == Dup2(out, z, 2)
<1>1. /\ x \in High \cup {NoFd} /\ y \in High \cup {NoFd} /\ z \in High \cup {NoFd}
      /\ x # NoFd => t[x] # Nothing
      /\ y # NoFd => t[y] # Nothing
      /\ z # NoFd => t[z] # Nothing
  BY DEF ChildEnd, Slots, Streams
<1>2. Redirected(t, b) = all
  BY DEF Redirected, Std, ChildEnd
<1>3. /\ \A f \in High : f \in Fds /\ f # 0 /\ f # 1 /\ f # 2
      /\ {0, 1, 2} \subseteq Fds
      /\ NoFd \notin Fds /\ High \subseteq Fds
      /\ 0 \in 0 .. 2 /\ 1 \in 0 .. 2 /\ 2 \in 0 .. 2
  BY FdPlumbingAssumption DEF High, Fds, NoFd
<1> HIDE DEF x, y, z
<1>4. /\ in \in Table
      /\ \A f \in Fds : f # 0 \/ x = NoFd => in[f] = t[f]
      /\ x # NoFd => in[0] = Plain(t[x])
  <2>1. x \in Fds \cup {NoFd} /\ (x # NoFd => x \in High /\ t[x] # Nothing)
    BY <1>1, <1>3
  <2>2. QED
    <3> HIDE DEF in
    <3>1. QED
      BY <1>3, <2>1, Dup2Is DEF in
<1> HIDE DEF in
<1>5. /\ out \in Table
      /\ \A f \in Fds : f # 1 \/ y = NoFd => out[f] = in[f]
      /\ y # NoFd => out[1] = Plain(in[y])
  <2>1. y # NoFd => in[y] = t[y]
    BY <1>1, <1>3, <1>4
  <2>2. y \in Fds \cup {NoFd} /\ (y # NoFd => y \in High /\ in[y] # Nothing)
    BY <1>1, <1>3, <2>1
  <2>3. QED
    BY <1>3, <1>4, <2>2, Dup2Is
<1> HIDE DEF out
<1>6. /\ all \in Table
      /\ \A f \in Fds : f # 2 \/ z = NoFd => all[f] = out[f]
      /\ z # NoFd => all[2] = Plain(out[z])
  <2>1. z # NoFd => out[z] = t[z]
    BY <1>1, <1>3, <1>4, <1>5
  <2>2. z \in Fds \cup {NoFd} /\ (z # NoFd => z \in High /\ out[z] # Nothing)
    BY <1>1, <1>3, <2>1
  <2>3. QED
    BY <1>3, <1>5, <2>2, Dup2Is
<1> HIDE DEF all
<1>7. \A f \in High : all[f] = t[f]
  BY <1>3, <1>4, <1>5, <1>6
<1>8. /\ IF x = NoFd THEN all[0] = t[0]
         ELSE all[0] = Plain(t[x])
      /\ IF y = NoFd THEN all[1] = t[1]
         ELSE all[1] = Plain(t[y])
      /\ IF z = NoFd THEN all[2] = t[2]
         ELSE all[2] = Plain(t[z])
  BY <1>1, <1>3, <1>4, <1>5, <1>6
<1>9. QED
  BY <1>2, <1>6, <1>7, <1>8 DEF Streams, Std, x, y, z

\* What is left of the child's table: its streams, of which none is closed on
\* exec, and of the rest at most what it was forked with.
LEMMA ArrangedIs ==
  ASSUME TypeOK, NEW o \in Objects, ChildOf(o), child[o] = "born", NEW loop \in BOOLEAN
  PROVE  /\ Arranged(o, loop) \in Table
         /\ \A s \in Streams :
              /\ Arranged(o, loop)[Std[s]] # Nothing
              /\ Arranged(o, loop)[Std[s]].ref = fds[o][Given(o, s)].ref
              /\ Arranged(o, loop)[Std[s]].cloexec = FALSE
         /\ \A f \in High : Arranged(o, loop)[f] \in {fds[o][f], Nothing}
<1> DEFINE b == inherited[o]
           alone == Close(fds[o], Behind(b, FirstSlots))
           streams == Redirected(alone, b)
           own == Close(streams, Behind(b, SecondSlots))
           rest == IF loop THEN Fds \ (0 .. 2) ELSE {}
<1>1. Arranged(o, loop) = Close(own, rest)
  BY DEF Arranged
<1>2. fds[o] \in Table
  BY DEF TypeOK, Table, Processes
<1>3. Copied(o) /\ Living(o) /\ child[o] = "born"
  BY DEF ChildOf, Living
<1>4. b \in [Slots -> High \cup {NoFd}]
  BY <1>3 DEF Copied, TypeOK
<1>5. /\ \A f \in High : f \in Fds /\ f \notin 0 .. 2
      /\ 0 .. 2 \subseteq Fds /\ NoFd \notin Fds
      /\ \A s \in Streams : Std[s] \in 0 .. 2
      /\ \A f \in 0 .. 2 : \E s \in Streams : f = Std[s]
  BY FdPlumbingAssumption DEF High, Fds, NoFd, Std, Streams
<1>6. \A s \in Streams : <<"second", s>> \in Slots /\ <<"second", s>> \in SecondSlots
  BY DEF Slots, SecondSlots
<1>7. /\ alone \in Table
      /\ \A f \in Fds : alone[f] = IF f \in Behind(b, FirstSlots) THEN Nothing ELSE fds[o][f]
  BY <1>2, CloseIs
<1>8. \A f \in 0 .. 2 : f \notin Behind(b, FirstSlots) /\ f \notin Behind(b, SecondSlots)
  <2>1. FirstSlots \subseteq Slots /\ SecondSlots \subseteq Slots
    BY DEF FirstSlots, SecondSlots, Slots
  <2>2. \A slot \in Slots : b[slot] \notin 0 .. 2
    BY <1>4, <1>5 DEF NoFd
  <2>3. QED
    BY <2>1, <2>2 DEF Behind
<1>9. \A s \in Streams : ChildEnd(b, s) # NoFd =>
        /\ ChildEnd(b, s) \in High
        /\ alone[ChildEnd(b, s)] = fds[o][ChildEnd(b, s)]
        /\ Given(o, s) = ChildEnd(b, s)
  <2>1. SUFFICES ASSUME NEW s \in Streams, ChildEnd(b, s) # NoFd
                 PROVE  /\ ChildEnd(b, s) \in High
                        /\ ChildEnd(b, s) \notin Behind(b, FirstSlots)
                        /\ Given(o, s) = ChildEnd(b, s)
    BY <1>5, <1>7
  <2>2. ChildEnd(b, s) \in High
    BY <1>4, <1>6, <2>1 DEF ChildEnd
  <2>3. ChildEnd(b, s) \notin Behind(b, FirstSlots)
    <3>1. SUFFICES ASSUME NEW slot \in FirstSlots, b[slot] = ChildEnd(b, s)
                   PROVE  FALSE
      BY DEF Behind
    <3>2. slot \in Slots /\ slot # <<"second", s>>
      BY DEF FirstSlots, Slots
    <3>3. QED
      BY <1>3, <1>6, <2>1, <3>1, <3>2 DEF Copied, ChildEnd
  <2>4. QED
    BY <1>3, <2>1, <2>2, <2>3 DEF Given
<1>10. \A s \in Streams : fds[o][Given(o, s)] # Nothing
  BY <1>3 DEF ChildOf, StreamsGiven
<1> HIDE DEF alone, b
<1>11. /\ streams \in Table
       /\ \A f \in High : streams[f] = alone[f]
       /\ \A s \in Streams :
            streams[Std[s]] =
              IF ChildEnd(b, s) = NoFd THEN alone[Std[s]] ELSE Plain(alone[ChildEnd(b, s)])
  <2>1. \A s \in Streams : ChildEnd(b, s) # NoFd => alone[ChildEnd(b, s)] # Nothing
    BY <1>9, <1>10
  <2>2. QED
    BY <1>4, <1>7, <2>1, RedirectedIs
<1> HIDE DEF streams
<1>12. \A s \in Streams :
         /\ streams[Std[s]] # Nothing
         /\ streams[Std[s]].ref = fds[o][Given(o, s)].ref
         /\ streams[Std[s]].cloexec = FALSE
  <2>1. TAKE s \in Streams
  <2>2. CASE ChildEnd(b, s) = NoFd
    <3>1. Given(o, s) = Std[s]
      BY <2>2 DEF Given, b
    <3>2. streams[Std[s]] = fds[o][Std[s]]
      BY <1>5, <1>7, <1>8, <1>11, <2>2
    <3>3. fds[o][Std[s]].cloexec = FALSE
      <4>1. fds[o][Std[s]] # Nothing /\ ~fds[o][Std[s]].cloexec
        BY <1>3, <1>5 DEF ChildOf, PlainStreams
      <4>2. fds[o][Std[s]] \in Entries
        BY <1>2, <1>5, <4>1 DEF Table
      <4>3. QED
        BY <4>1, <4>2 DEF Entries
    <3>4. QED
      BY <1>10, <3>1, <3>2, <3>3
  <2>3. CASE ChildEnd(b, s) # NoFd
    <3>1. streams[Std[s]] = Plain(fds[o][Given(o, s)])
      BY <1>9, <1>11, <2>3
    <3>2. fds[o][Given(o, s)] \in Entries
      BY <1>2, <1>5, <1>9, <1>10, <2>3 DEF Table
    <3>3. QED
      <4> DEFINE e == fds[o][Given(o, s)]
      <4>1. /\ Plain(e) # Nothing
            /\ Plain(e).ref = e.ref
            /\ Plain(e).cloexec = FALSE
        <5> HIDE DEF e
        <5>1. QED
          BY <3>2, PlainIs DEF e
      <4>2. QED
        BY <3>1, <4>1
  <2>4. QED
    BY <2>2, <2>3
<1>13. /\ own \in Table
       /\ \A f \in Fds : own[f] = IF f \in Behind(b, SecondSlots) THEN Nothing ELSE streams[f]
  BY <1>11, CloseIs
<1> HIDE DEF own
<1>14. /\ Arranged(o, loop) \in Table
       /\ \A f \in Fds : Arranged(o, loop)[f] = IF f \in rest THEN Nothing ELSE own[f]
  BY <1>1, <1>13, CloseIs
<1>15. \A s \in Streams : Arranged(o, loop)[Std[s]] = streams[Std[s]]
  <2>1. \A f \in 0 .. 2 : f \notin rest
    OBVIOUS
  <2> HIDE DEF rest
  <2>2. QED
    BY <1>5, <1>8, <1>13, <1>14, <2>1
<1>16. \A f \in High : Arranged(o, loop)[f] \in {fds[o][f], Nothing}
  BY <1>5, <1>7, <1>11, <1>13, <1>14
<1>17. QED
  BY <1>12, <1>14, <1>15, <1>16

-----------------------------------------------------------------------------
(* The steps of the parent's threads *)

\* The places of an object, and which of them are members of its bridge.
LEMMA KeysAre ==
  /\ Slots \subseteq Keys
  /\ <<"fresh", 1>> \in Keys \ Slots /\ <<"fresh", 2>> \in Keys \ Slots
  /\ \A k \in Keys \ Slots : k \in {<<"fresh", 1>>, <<"fresh", 2>>} /\ k[2] \in {1, 2}
  /\ \A s \in Streams :
       /\ <<"second", s>> \in Slots /\ <<"first", s>> \in Slots
       /\ <<"second", s>> \in SecondSlots /\ <<"first", s>> \notin SecondSlots
       /\ Peer[s] \in Streams /\ Peer[Peer[s]] = s
BY DEF Keys, Slots, Streams, SecondSlots, Peer

\* A descriptor that a thread holds is in the table.
LEMMA EntriesAre ==
  ASSUME TypeOK
  PROVE  /\ \A p \in Processes, f \in Fds :
              fds[p][f] # Nothing =>
                /\ fds[p][f] \in Entries
                /\ fds[p][f].ref \in Refs /\ fds[p][f].cloexec \in BOOLEAN
         /\ Parent \in Processes /\ Objects \subseteq Processes /\ Parent \notin Objects
         /\ \A p \in Processes : fds[p] \in Table
<1>1. \A p \in Processes, f \in Fds : fds[p][f] \in Entries \cup {Nothing}
  BY DEF TypeOK
<1>2. \A e \in Entries : e.ref \in Refs /\ e.cloexec \in BOOLEAN
  BY DEF Entries
<1>3. QED
  BY <1>1, <1>2, FdPlumbingAssumption DEF Processes, Table, TypeOK

\* What an option opens is the second of a bridge's owners or the first, and in
\* the hands of its thread alone.
LEMMA FreshIsHeld ==
  ASSUME TypeOK, FreshOpen, HeldIsOpen, OneHolder,
         NEW o \in Objects, pc[o] = "marking"
  PROVE  /\ fresh[o].stream \in Streams
         /\ \/ \E f \in High :
                 /\ fresh[o].open = <<f>>
                 /\ Held(o, <<"fresh", 1>>) = f /\ Held(o, <<"fresh", 2>>) = NoFd
                 /\ fds[Parent][f] # Nothing
                 /\ fds[Parent][f].ref = Ref(o, options[o], "file")
            \/ \E f, g \in High :
                 /\ fresh[o].open = <<f, g>> /\ f # g
                 /\ Held(o, <<"fresh", 1>>) = f /\ Held(o, <<"fresh", 2>>) = g
                 /\ fds[Parent][f] # Nothing /\ fds[Parent][g] # Nothing
                 /\ fds[Parent][f].ref = Ref(o, options[o], "r")
                 /\ fds[Parent][g].ref = Ref(o, options[o], "w")
<1>1. fresh[o].stream \in Streams
  BY DEF FreshOpen, FreshOf
<1>2. NoFd \notin Fds
  BY DEF NoFd, Fds
<1>3. ASSUME NEW f \in Fds, fresh[o].open = <<f>>,
             fds[Parent][f].ref = Ref(o, options[o], "file")
      PROVE  /\ Held(o, <<"fresh", 1>>) = f /\ Held(o, <<"fresh", 2>>) = NoFd
             /\ f \in High /\ fds[Parent][f] # Nothing
  <2>1. Held(o, <<"fresh", 1>>) = f /\ Held(o, <<"fresh", 2>>) = NoFd
    BY <1>3, KeysAre DEF Held
  <2>2. QED
    BY <1>2, <2>1, KeysAre DEF HeldIsOpen
<1>4. ASSUME NEW f \in Fds, NEW g \in Fds, fresh[o].open = <<f, g>>
      PROVE  /\ Held(o, <<"fresh", 1>>) = f /\ Held(o, <<"fresh", 2>>) = g
             /\ f \in High /\ g \in High /\ f # g
             /\ fds[Parent][f] # Nothing /\ fds[Parent][g] # Nothing
  <2>1. Held(o, <<"fresh", 1>>) = f /\ Held(o, <<"fresh", 2>>) = g
    BY <1>4, KeysAre DEF Held
  <2>2. /\ f \in High /\ g \in High
        /\ fds[Parent][f] # Nothing /\ fds[Parent][g] # Nothing
    BY <1>2, <2>1, KeysAre DEF HeldIsOpen
  <2>3. f # g
    <3>1. <<"fresh", 1>> # <<"fresh", 2>>
      OBVIOUS
    <3>2. QED
      BY <1>2, <2>1, <3>1, KeysAre DEF OneHolder
  <2>4. QED
    BY <2>1, <2>2, <2>3
<1>5. CASE \E f \in Fds :
             /\ fresh[o].open = <<f>>
             /\ fds[Parent][f].ref = Ref(o, options[o], "file")
  BY <1>1, <1>3, <1>5
<1>6. CASE \E f, g \in Fds :
             /\ fresh[o].open = <<f, g>>
             /\ fds[Parent][f].ref = Ref(o, options[o], "r")
             /\ fds[Parent][g].ref = Ref(o, options[o], "w")
  BY <1>1, <1>4, <1>6
<1>7. QED
  BY <1>5, <1>6 DEF FreshOpen, FreshOf

\* The step in which option n of o opens nums: descriptors that were free, of
\* which its thread alone knows.
Gives(o, s, n, nums) ==
  /\ fresh' = [fresh EXCEPT ![o] = [stream |-> s, open |-> nums]]
  /\ fds' \in [Processes -> [Fds -> Entries \cup {Nothing}]]
  /\ \A x \in Objects : fds'[x] = fds[x]
  /\ nums \in Seq(Fds) /\ nums # <<>> /\ DOMAIN nums \subseteq {1, 2}
  /\ \A i \in DOMAIN nums : nums[i] \in High /\ fds[Parent][nums[i]] = Nothing
  /\ \A i, j \in DOMAIN nums : nums[i] = nums[j] => i = j
  /\ \A x \in Fds : fds'[Parent][x] # Nothing <=>
       fds[Parent][x] # Nothing \/ \E i \in DOMAIN nums : nums[i] = x
  /\ \A x \in Fds : fds[Parent][x] # Nothing => fds'[Parent][x] = fds[Parent][x]
  /\ \/ \E f \in Fds : nums = <<f>> /\ fds'[Parent][f].ref = Ref(o, n, "file")
     \/ \E f, g \in Fds :
          /\ nums = <<f, g>>
          /\ fds'[Parent][f].ref = Ref(o, n, "r")
          /\ fds'[Parent][g].ref = Ref(o, n, "w")

\* A number just opened has one holder, the option that opened it.
LEMMA OpensHeld ==
  ASSUME TypeOK, Resting, HeldIsOpen, OneHolder, OpenIsHeld,
         NEW o \in Objects, pc[o] = "options", bridge' = bridge,
         NEW s, NEW n, NEW nums, Gives(o, s, n, nums)
  PROVE  HeldIsOpen' /\ OneHolder' /\ OpenIsHeld'
<1>1. /\ DOMAIN nums \subseteq {1, 2}
      /\ \A i \in DOMAIN nums : nums[i] \in High /\ fds[Parent][nums[i]] = Nothing
      /\ \A i, j \in DOMAIN nums : nums[i] = nums[j] => i = j
      /\ \A x \in Fds : fds'[Parent][x] # Nothing <=>
           fds[Parent][x] # Nothing \/ \E i \in DOMAIN nums : nums[i] = x
      /\ fresh' = [fresh EXCEPT ![o] = [stream |-> s, open |-> nums]]
  BY DEF Gives
<1> DEFINE Gained(k) == k \in Keys \ Slots /\ k[2] \in DOMAIN nums
<1>2. /\ \A x \in Objects \ {o}, k \in Keys : Held(x, k)' = Held(x, k)
      /\ \A k \in Keys : Gained(k) => Held(o, k)' = nums[k[2]] /\ Held(o, k) = NoFd
      /\ \A k \in Keys : ~Gained(k) => Held(o, k)' = Held(o, k)
  <2>1. fresh[o].open = <<>>
    BY DEF Resting, NoOption
  <2>2. fresh'[o].open = nums /\ \A x \in Objects \ {o} : fresh'[x] = fresh[x]
    BY <1>1 DEF TypeOK
  <2>3. QED
    BY <2>1, <2>2 DEF Held
<1>3. NoFd \notin High /\ High \subseteq Fds
  BY DEF NoFd, High, Fds
<1>4. \A x \in Objects, k \in Keys, i \in DOMAIN nums : Held(x, k) # nums[i]
  BY <1>1, <1>3 DEF HeldIsOpen
<1>5. \A k1, k2 \in Keys : Gained(k1) /\ Gained(k2) /\ k1[2] = k2[2] => k1 = k2
  BY <1>1, KeysAre
<1>6. \A i \in DOMAIN nums : \E k \in Keys : Gained(k) /\ k[2] = i
  <2>1. TAKE i \in DOMAIN nums
  <2>2. <<"fresh", i>> \in Keys \ Slots /\ <<"fresh", i>>[2] = i
    BY <1>1, KeysAre
  <2>3. QED
    BY <2>2
<1>7. \A k \in Keys : Gained(k) => k[2] \in DOMAIN nums
  OBVIOUS
<1> HIDE DEF Gained
<1>8. HeldIsOpen'
  BY <1>1, <1>2, <1>3, <1>7 DEF HeldIsOpen
<1>9. OneHolder'
  <2>1. SUFFICES ASSUME NEW o1 \in Objects, NEW o2 \in Objects, NEW k1 \in Keys, NEW k2 \in Keys,
                        Held(o1, k1)' # NoFd, Held(o1, k1)' = Held(o2, k2)'
                 PROVE  o1 = o2 /\ k1 = k2
    BY DEF OneHolder
  <2>2. CASE o1 = o /\ Gained(k1)
    <3>1. o2 = o /\ Gained(k2)
      BY <1>1, <1>2, <1>4, <1>7, <2>1, <2>2
    <3>2. QED
      BY <1>1, <1>2, <1>5, <1>7, <2>1, <2>2, <3>1
  <2>3. CASE ~(o1 = o /\ Gained(k1))
    <3>1. Held(o1, k1)' = Held(o1, k1)
      BY <1>2, <2>3
    <3>2. ASSUME o2 = o, Gained(k2)
          PROVE  FALSE
      <4>1. Held(o2, k2)' = nums[k2[2]] /\ k2[2] \in DOMAIN nums
        BY <1>2, <1>7, <3>2
      <4>2. Held(o1, k1) # nums[k2[2]]
        BY <1>4, <4>1
      <4>3. QED
        BY <2>1, <3>1, <4>1, <4>2
    <3>3. Held(o2, k2)' = Held(o2, k2)
      BY <1>2, <3>2
    <3>4. Held(o1, k1) # NoFd /\ Held(o1, k1) = Held(o2, k2)
      BY <2>1, <3>1, <3>3
    <3>5. QED
      BY <3>4 DEF OneHolder
  <2>4. QED
    BY <2>2, <2>3
<1>10. OpenIsHeld'
  <2>1. SUFFICES ASSUME NEW f \in High, fds'[Parent][f] # Nothing
                 PROVE  \E x \in Objects, k \in Keys : Held(x, k)' = f
    BY DEF OpenIsHeld
  <2>2. CASE fds[Parent][f] # Nothing
    <3>1. PICK x \in Objects, k \in Keys : Held(x, k) = f
      BY <2>2 DEF OpenIsHeld
    <3>2. Held(x, k)' = f
      BY <1>2, <1>3, <3>1
    <3>3. QED
      BY <3>2
  <2>3. CASE \E i \in DOMAIN nums : nums[i] = f
    BY <1>1, <1>2, <1>6, <2>3
  <2>4. QED
    BY <1>1, <1>3, <2>1, <2>2, <2>3
<1>11. QED
  BY <1>8, <1>9, <1>10

\* As long as the entries of what bridges hold stay, so does what is known of them.
LEMMA RefsStay ==
  ASSUME SecondRefs, FirstRefs, bridge' = bridge, asked' = asked,
         \A o \in Objects : pc'[o] = "started" <=> pc[o] = "started",
         \A o \in Objects, slot \in Slots :
           bridge[o][slot] # NoFd =>
             fds'[Parent][bridge[o][slot]] = fds[Parent][bridge[o][slot]]
  PROVE  SecondRefs' /\ FirstRefs'
<1>1. \A o \in Objects, s \in Streams :
        /\ ChildEnd(bridge[o], s)' = ChildEnd(bridge[o], s)
        /\ ParentEnd(bridge[o], s)' = ParentEnd(bridge[o], s)
        /\ Meant(o, s)' = Meant(o, s)
        /\ ChildEnd(bridge[o], s) # NoFd =>
             fds'[Parent][ChildEnd(bridge[o], s)] = fds[Parent][ChildEnd(bridge[o], s)]
        /\ ParentEnd(bridge[o], s) # NoFd =>
             fds'[Parent][ParentEnd(bridge[o], s)] = fds[Parent][ParentEnd(bridge[o], s)]
  <2>1. TAKE o \in Objects, s \in Streams
  <2>2. <<"second", s>> \in Slots /\ <<"first", Peer[s]>> \in Slots
    BY KeysAre
  <2>3. /\ ChildEnd(bridge[o], s)' = ChildEnd(bridge[o], s)
        /\ ParentEnd(bridge[o], s)' = ParentEnd(bridge[o], s)
        /\ Meant(o, s)' = Meant(o, s)
    BY DEF ChildEnd, ParentEnd, Meant
  <2>4. /\ ChildEnd(bridge[o], s) # NoFd =>
             fds'[Parent][ChildEnd(bridge[o], s)] = fds[Parent][ChildEnd(bridge[o], s)]
        /\ ParentEnd(bridge[o], s) # NoFd =>
             fds'[Parent][ParentEnd(bridge[o], s)] = fds[Parent][ParentEnd(bridge[o], s)]
    BY <2>2 DEF ChildEnd, ParentEnd
  <2>5. QED
    BY <2>3, <2>4
<1>2. \A o \in Objects, s \in Streams : Joined(o, s) => Joined(o, s)'
  BY <1>1 DEF Joined
<1>3. SecondRefs'
  <2>1. SUFFICES ASSUME NEW o \in Objects, NEW s \in Streams
                 PROVE  SecondOf(o, s)'
    BY DEF SecondRefs
  <2>2. CASE ChildEnd(bridge[o], s) = NoFd
    BY <1>1, <2>2 DEF SecondRefs, SecondOf
  <2>3. CASE ChildEnd(bridge[o], s) # NoFd
    BY <1>1, <1>2, <2>3 DEF SecondRefs, SecondOf
  <2>4. QED
    BY <2>2, <2>3
<1>4. FirstRefs'
  BY <1>1 DEF FirstRefs
<1>5. QED
  BY <1>3, <1>4

\* The descriptors of a bridge are open.
LEMMA SlotsAreOpen ==
  ASSUME HeldIsOpen, NEW o \in Objects, NEW slot \in Slots, bridge[o][slot] # NoFd
  PROVE  bridge[o][slot] \in High /\ fds[Parent][bridge[o][slot]] # Nothing
BY KeysAre DEF HeldIsOpen, Held

\* The others' options are as they were as long as their entries are.
LEMMA FreshStays ==
  ASSUME TypeOK, ParentInv, NEW x \in Objects, pc[x] = "marking",
         fresh'[x] = fresh[x], options'[x] = options[x],
         \A k \in Keys \ Slots : Held(x, k) # NoFd =>
           fds'[Parent][Held(x, k)] = fds[Parent][Held(x, k)]
  PROVE  FreshOf(x)'
<1>1. options[x] # 0 /\ fresh[x].stream \in Streams
  BY DEF ParentInv, FreshOpen, FreshOf
<1>2. High \subseteq Fds /\ NoFd \notin Fds
  BY DEF High, NoFd, Fds
<1>3. CASE \E f \in High :
             /\ fresh[x].open = <<f>> /\ Held(x, <<"fresh", 1>>) = f
             /\ fds[Parent][f].ref = Ref(x, options[x], "file")
  BY <1>1, <1>2, <1>3, KeysAre DEF FreshOf
<1>4. CASE \E f, g \in High :
             /\ fresh[x].open = <<f, g>>
             /\ Held(x, <<"fresh", 1>>) = f /\ Held(x, <<"fresh", 2>>) = g
             /\ fds[Parent][f].ref = Ref(x, options[x], "r")
             /\ fds[Parent][g].ref = Ref(x, options[x], "w")
  BY <1>1, <1>2, <1>4, KeysAre DEF FreshOf
<1>5. QED
  BY <1>3, <1>4, FreshIsHeld DEF ParentInv

\* pipe and open keep the parent's half of the invariant.
LEMMA OpensKeeps ==
  ASSUME TypeOK, ParentInv, NEW o \in Objects, NEW s \in Streams,
         pipe_cloexec(o, s) \/ OpenFile(o, s)
  PROVE  /\ ParentInv' /\ fds' \in [Processes -> [Fds -> Entries \cup {Nothing}]]
         /\ \A x \in Objects : fds'[x] = fds[x]
         /\ \A f \in Fds : fds[Parent][f] # Nothing => fds'[Parent][f] = fds[Parent][f]
         /\ fresh' \in [Objects -> [stream : Streams \cup {Nothing}, open : Seq(Fds)]]
         /\ fresh'[o].open # <<>> /\ \A x \in Objects \ {o} : fresh'[x] = fresh[x]
<1> USE DEF ParentInv
<1> DEFINE n == options[o] + 1
<1>1. /\ pc[o] = "options" /\ pc' = [pc EXCEPT ![o] = "marking"]
      /\ options' = [options EXCEPT ![o] = @ + 1]
      /\ UNCHANGED <<bridge, asked>>
  BY DEF pipe_cloexec, OpenFile, MaySet, Opens
<1>2. n \in Nat /\ n # 0 /\ options'[o] = n
      /\ Ref(o, n, "r") \in Refs /\ Ref(o, n, "w") \in Refs /\ Ref(o, n, "file") \in Refs
  <2>1. options[o] \in Nat /\ options'[o] = n
    BY <1>1 DEF TypeOK
  <2>2. n \in Nat /\ n # 0
    BY <2>1
  <2> HIDE DEF n
  <2>3. QED
    BY <2>1, <2>2 DEF Ref, Refs, Processes
<1>3. PICK nums : Gives(o, s, n, nums)
  <2> DEFINE entry(r) == [ref |-> r, cloexec |-> FALSE]
  <2>1. \A r \in Refs : entry(r) \in Entries /\ entry(r) # Nothing /\ entry(r).ref = r
    <3>1. \A r \in Refs : entry(r) \in Entries /\ entry(r).ref = r
      BY DEF Entries
    <3>2. QED
      BY <3>1, NothingAssumption
  <2>2. Parent \in DOMAIN fds /\ High \subseteq Fds
    BY DEF TypeOK, Processes, High
  <2>3. CASE OpenFile(o, s)
    <3>1. Opens(o, s, <<Ref(o, n, "file")>>)
      BY <2>3 DEF OpenFile
    <3> HIDE DEF n
    <3>2. PICK f \in High :
            /\ fds[Parent][f] = Nothing
            /\ fds' = [fds EXCEPT ![Parent] = [x \in Fds |->
                         IF x = f THEN entry(Ref(o, n, "file")) ELSE fds[Parent][x]]]
            /\ fresh' = [fresh EXCEPT ![o] = [stream |-> s, open |-> <<f>>]]
      BY <1>2, <3>1, OpensOne
    <3>3. \A x \in Fds : fds'[Parent][x] =
            IF x = f THEN entry(Ref(o, n, "file")) ELSE fds[Parent][x]
      BY <2>2, <3>2
    <3>4. /\ fds' \in [Processes -> [Fds -> Entries \cup {Nothing}]]
          /\ \A x \in Objects : fds'[x] = fds[x]
      BY <1>2, <2>1, <3>2, EntriesAre DEF TypeOK
    <3> HIDE DEF entry
    <3>5. Gives(o, s, n, <<f>>)
      BY <1>2, <2>1, <2>2, <3>2, <3>3, <3>4 DEF Gives
    <3>6. QED
      BY <3>5
  <2>4. CASE pipe_cloexec(o, s)
    <3>1. Opens(o, s, <<Ref(o, n, "r"), Ref(o, n, "w")>>)
      BY <2>4 DEF pipe_cloexec
    <3> HIDE DEF n
    <3>2. PICK f \in High, g \in High :
            /\ f # g /\ fds[Parent][f] = Nothing /\ fds[Parent][g] = Nothing
            /\ fds' = [fds EXCEPT ![Parent] = [x \in Fds |->
                         IF x = f THEN entry(Ref(o, n, "r"))
                         ELSE IF x = g THEN entry(Ref(o, n, "w"))
                         ELSE fds[Parent][x]]]
            /\ fresh' = [fresh EXCEPT ![o] = [stream |-> s, open |-> <<f, g>>]]
      BY <1>2, <3>1, OpensTwo
    <3>3. \A x \in Fds : fds'[Parent][x] =
            IF x = f THEN entry(Ref(o, n, "r"))
            ELSE IF x = g THEN entry(Ref(o, n, "w")) ELSE fds[Parent][x]
      BY <2>2, <3>2
    <3>4. /\ fds' \in [Processes -> [Fds -> Entries \cup {Nothing}]]
           /\ \A x \in Objects : fds'[x] = fds[x]
      BY <1>2, <2>1, <3>2, EntriesAre DEF TypeOK
    <3> HIDE DEF entry
    <3> DEFINE nums == <<f, g>>
    <3>5. nums \in Seq(Fds) /\ nums # <<>>
      BY <2>2
    <3>6. /\ DOMAIN nums = {1, 2} /\ nums[1] = f /\ nums[2] = g
          /\ \A i, j \in DOMAIN nums : nums[i] = nums[j] => i = j
      BY <3>2
    <3>7. \E a, b \in Fds : nums = <<a, b>> /\ a = f /\ b = g
      BY <2>2
    <3> HIDE DEF nums
    <3>8. /\ fds'[Parent][f].ref = Ref(o, n, "r") /\ fds'[Parent][f] # Nothing
          /\ fds'[Parent][g].ref = Ref(o, n, "w") /\ fds'[Parent][g] # Nothing
          /\ \A x \in Fds \ {f, g} : fds'[Parent][x] = fds[Parent][x]
      BY <1>2, <2>1, <2>2, <3>2, <3>3
    <3>9. \A x \in Fds : fds[Parent][x] # Nothing => fds'[Parent][x] = fds[Parent][x]
      BY <3>2, <3>8
    <3>10. \A x \in Fds : fds'[Parent][x] # Nothing <=>
             fds[Parent][x] # Nothing \/ \E i \in DOMAIN nums : nums[i] = x
      BY <3>6, <3>8, <3>9
    <3>11. fresh' = [fresh EXCEPT ![o] = [stream |-> s, open |-> nums]]
      BY <3>2 DEF nums
    <3>12. /\ DOMAIN nums \subseteq {1, 2}
           /\ \A i \in DOMAIN nums : nums[i] \in High /\ fds[Parent][nums[i]] = Nothing
      BY <3>2, <3>6
    <3>13. \E a, b \in Fds :
                /\ nums = <<a, b>>
                /\ fds'[Parent][a].ref = Ref(o, n, "r")
                /\ fds'[Parent][b].ref = Ref(o, n, "w")
      BY <3>7, <3>8
    <3>14. Gives(o, s, n, nums)
      BY <3>6, <3>9, <3>10, <3>11, <3>12, <3>13, <3>4, <3>5 DEF Gives
    <3>15. QED
      BY <3>14
  <2>5. QED
    BY <2>3, <2>4
<1> HIDE DEF n
<1>4. HeldIsOpen' /\ OneHolder' /\ OpenIsHeld'
  BY <1>1, <1>3, OpensHeld
<1>5. Resting'
  BY <1>1, <1>3 DEF Resting, TypeOK, Gives
<1>6. FreshOpen'
  <2>1. SUFFICES ASSUME NEW x \in Objects, pc'[x] = "marking"
                 PROVE  FreshOf(x)'
    BY DEF FreshOpen
  <2>2. CASE x = o
    BY <1>1, <1>2, <1>3, <2>2 DEF TypeOK, Gives, FreshOf
  <2>3. CASE x # o
    <3>1. pc[x] = "marking" /\ fresh'[x] = fresh[x] /\ options'[x] = options[x]
      BY <1>1, <1>3, <2>1, <2>3 DEF TypeOK, Gives
    <3>2. \A k \in Keys \ Slots : Held(x, k) # NoFd =>
            fds'[Parent][Held(x, k)] = fds[Parent][Held(x, k)]
      BY <1>3 DEF Gives, HeldIsOpen, High
    <3>3. QED
      BY <3>1, <3>2, FreshStays
  <2>4. QED
    BY <2>2, <2>3
<1>7. StdOpen'
  <2>1. \A f \in 0 .. 2 : f \in Fds /\ Inherit(f) # Nothing
    <3>1. \A f \in 0 .. 2 : Inherit(f) \in Entries
      BY DEF Inherit, Entries, Refs, Ref, Processes
    <3>2. QED
      BY <3>1, NothingAssumption, FdPlumbingAssumption DEF Fds
  <2>2. \A f \in 0 .. 2 : fds[Parent][f] # Nothing
    BY <2>1 DEF StdOpen
  <2>3. \A f \in 0 .. 2 : fds'[Parent][f] = fds[Parent][f]
    BY <1>3, <2>1, <2>2 DEF Gives
  <2>4. QED
    BY <2>3 DEF StdOpen, Inherit, Ref
<1>8. SecondRefs' /\ FirstRefs'
  <2>1. \A x \in Objects : pc'[x] = "started" <=> pc[x] = "started"
    BY <1>1 DEF TypeOK
  <2>2. \A x \in Objects, slot \in Slots :
          bridge[x][slot] # NoFd =>
            fds'[Parent][bridge[x][slot]] = fds[Parent][bridge[x][slot]]
    BY <1>3, SlotsAreOpen DEF High, Gives
  <2>3. QED
    BY <1>1, <2>1, <2>2, RefsStay
<1>9. fresh' \in [Objects -> [stream : Streams \cup {Nothing}, open : Seq(Fds)]]
  BY <1>3 DEF Gives, TypeOK
<1>10. fresh'[o].open # <<>> /\ \A x \in Objects \ {o} : fresh'[x] = fresh[x]
  BY <1>3 DEF Gives, TypeOK
<1>11. QED
  BY <1>3, <1>4, <1>5, <1>6, <1>7, <1>8, <1>9, <1>10 DEF Gives

\* So does fcntl,
LEMMA MarkKeeps ==
  ASSUME TypeOK, ParentInv, NEW o \in Objects, set_clo_on_exec(o)
  PROVE  /\ ParentInv' /\ fds' \in [Processes -> [Fds -> Entries \cup {Nothing}]]
         /\ \A x \in Objects : fds'[x] = fds[x]
         /\ \A x \in Objects, slot \in Slots :
              bridge[x][slot] # NoFd =>
                fds'[Parent][bridge[x][slot]] = fds[Parent][bridge[x][slot]]
<1> DEFINE m == Min(Unmarked(o))
           v == fresh[o].open[m]
<1>1. /\ pc[o] = "marking" /\ Unmarked(o) # {}
      /\ UNCHANGED <<bridge, fresh, asked, options, pc>>
  BY DEF set_clo_on_exec
<1>2. PICK k \in Keys \ Slots : Held(o, k) = v /\ v \in High /\ fds[Parent][v] # Nothing
  <2>1. DOMAIN fresh[o].open \subseteq {1, 2}
    <3>1. CASE \E f \in High : fresh[o].open = <<f>>
      BY <3>1
    <3>2. CASE \E f, g \in High : fresh[o].open = <<f, g>>
      BY <3>2
    <3>3. QED
      BY <1>1, <3>1, <3>2, FreshIsHeld DEF ParentInv
  <2>2. Unmarked(o) \subseteq DOMAIN fresh[o].open
    BY DEF Unmarked
  <2>3. m \in Unmarked(o)
    <3>1. Unmarked(o) \in SUBSET Nat
      BY <2>1, <2>2
    <3>2. QED
      BY <1>1, <3>1, MinIsIn
  <2> HIDE DEF m
  <2>4. /\ <<"fresh", m>> \in Keys \ Slots
        /\ Held(o, <<"fresh", m>>) = v
    BY <2>1, <2>2, <2>3, KeysAre DEF Held
  <2>5. v # NoFd
    BY <1>1, <2>3, <2>2, FreshIsHeld DEF ParentInv, NoFd, High, Fds
  <2>6. QED
    BY <2>4, <2>5 DEF ParentInv, HeldIsOpen
<1>3. /\ fds' \in [Processes -> [Fds -> Entries \cup {Nothing}]]
      /\ \A x \in Objects : fds'[x] = fds[x]
      /\ \A f \in Fds \ {v} : fds'[Parent][f] = fds[Parent][f]
      /\ fds'[Parent][v] # Nothing
      /\ fds'[Parent][v].ref = fds[Parent][v].ref
  <2> DEFINE e == [fds[Parent][v] EXCEPT !.cloexec = TRUE]
  <2>1. fds' = [fds EXCEPT ![Parent] = [fds[Parent] EXCEPT ![v] = e]]
    BY <1>2 DEF set_clo_on_exec
  <2>2. fds[Parent][v] \in Entries
    BY <1>2, EntriesAre DEF High
  <2>3. e \in Entries /\ e.ref = fds[Parent][v].ref
    <3> DEFINE d == fds[Parent][v]
    <3> HIDE DEF d
    <3>1. [d EXCEPT !.cloexec = TRUE] \in Entries /\ [d EXCEPT !.cloexec = TRUE].ref = d.ref
      BY <2>2 DEF d, Entries
    <3>2. QED
      BY <3>1 DEF d
  <2> HIDE DEF e, v
  <2>4. v \in Fds
    BY <1>2 DEF High
  <2>5. QED
    BY <2>1, <2>3, <2>4, NothingAssumption, EntriesAre DEF TypeOK
<1> HIDE DEF v, m
<1>4. \A x \in Objects, slot \in Slots :
        bridge[x][slot] # NoFd =>
          fds'[Parent][bridge[x][slot]] = fds[Parent][bridge[x][slot]]
  <2>1. SUFFICES ASSUME NEW x \in Objects, NEW slot \in Slots, bridge[x][slot] # NoFd
                 PROVE  bridge[x][slot] \in Fds \ {v}
    BY <1>3
  <2>2. bridge[x][slot] \in Fds
    BY <2>1, SlotsAreOpen DEF ParentInv, High
  <2>3. Held(x, slot) = bridge[x][slot] /\ slot \in Keys /\ slot # k
    BY <1>2, KeysAre DEF Held
  <2>4. QED
    BY <1>2, <2>1, <2>2, <2>3 DEF ParentInv, OneHolder
<1>5. SecondRefs' /\ FirstRefs'
  BY <1>1, <1>4, RefsStay DEF ParentInv
<1>6. \A x \in Objects, k1 \in Keys : Held(x, k1)' = Held(x, k1)
  BY <1>1 DEF Held
<1>7. \A f \in Fds : fds'[Parent][f] # Nothing <=> fds[Parent][f] # Nothing
  BY <1>2, <1>3
<1>8. HeldIsOpen' /\ OneHolder' /\ OpenIsHeld'
  <2>1. HeldIsOpen'
    BY <1>6, <1>7 DEF ParentInv, HeldIsOpen, High
  <2>2. OneHolder'
    BY <1>6 DEF ParentInv, OneHolder
  <2>3. OpenIsHeld'
    BY <1>6, <1>7 DEF ParentInv, OpenIsHeld, High
  <2>4. QED
    BY <2>1, <2>2, <2>3
<1>9. Resting'
  BY <1>1 DEF ParentInv, Resting
<1>10. FreshOpen'
  <2>1. \A f \in Fds : fds'[Parent][f].ref = fds[Parent][f].ref
    BY <1>3
  <2>2. QED
    BY <1>1, <2>1 DEF ParentInv, FreshOpen, FreshOf
<1>11. StdOpen'
  <2>1. \A f \in 0 .. 2 : f \in Fds \ {v}
    BY <1>2, FdPlumbingAssumption DEF High, Fds
  <2>2. QED
    BY <1>3, <2>1 DEF ParentInv, StdOpen
<1>12. QED
  BY <1>3, <1>4, <1>5, <1>8, <1>9, <1>10, <1>11 DEF ParentInv

\* A step that touches neither what the parent holds nor what it knows of it.
LEMMA QuietKeeps ==
  ASSUME ParentInv, fds'[Parent] = fds[Parent],
         UNCHANGED <<bridge, fresh, asked, options>>,
         \A o \in Objects : /\ pc'[o] = "started" <=> pc[o] = "started"
                            /\ pc'[o] = "marking" <=> pc[o] = "marking"
  PROVE  ParentInv'
<1>1. \A x \in Objects, k \in Keys : Held(x, k)' = Held(x, k)
  BY DEF Held
<1>2. SecondRefs' /\ FirstRefs'
  BY RefsStay DEF ParentInv
<1>3. Resting'
  BY DEF ParentInv, Resting
<1>4. FreshOpen'
  BY DEF ParentInv, FreshOpen, FreshOf
<1>5. StdOpen'
  BY DEF ParentInv, StdOpen
<1>6. HeldIsOpen'
  BY <1>1 DEF ParentInv, HeldIsOpen
<1>7. OneHolder'
  BY <1>1 DEF ParentInv, OneHolder
<1>8. OpenIsHeld'
  BY <1>1 DEF ParentInv, OpenIsHeld
<1>9. QED
  BY <1>2, <1>3, <1>4, <1>5, <1>6, <1>7, <1>8 DEF ParentInv

\* The parent's descriptors after some have been closed.
LEMMA ParentAfterClose ==
  ASSUME TypeOK, NEW set, fds' = [fds EXCEPT ![Parent] = Close(@, set)]
  PROVE  /\ fds' \in [Processes -> [Fds -> Entries \cup {Nothing}]]
         /\ \A x \in Objects : fds'[x] = fds[x]
         /\ \A f \in Fds : fds'[Parent][f] = IF f \in set THEN Nothing ELSE fds[Parent][f]
<1>1. fds'[Parent] = Close(fds[Parent], set) /\ \A x \in Objects : fds'[x] = fds[x]
  BY EntriesAre DEF TypeOK
<1>2. fds[Parent] \in Table
  BY EntriesAre
<1>3. Close(fds[Parent], set) \in [Fds -> Entries \cup {Nothing}]
  BY <1>2, CloseIs DEF Table
<1>4. fds' \in [Processes -> [Fds -> Entries \cup {Nothing}]]
  BY <1>3 DEF TypeOK
<1>5. QED
  BY <1>1, <1>2, <1>4, CloseIs

\* the closing of the child's ends after the fork,
LEMMA ParentClosesKeeps ==
  ASSUME TypeOK, ParentInv, NEW o \in Objects, ParentCloses(o)
  PROVE  /\ ParentInv' /\ fds' \in [Processes -> [Fds -> Entries \cup {Nothing}]]
         /\ \A x \in Objects : fds'[x] = fds[x]
         /\ \A x \in Objects, slot \in Slots :
              bridge'[x][slot] # NoFd =>
                /\ bridge'[x][slot] = bridge[x][slot]
                /\ fds'[Parent][bridge[x][slot]] = fds[Parent][bridge[x][slot]]
<1> DEFINE closed == Behind(bridge[o], SecondSlots)
<1>1. /\ fds' \in [Processes -> [Fds -> Entries \cup {Nothing}]]
      /\ \A x \in Objects : fds'[x] = fds[x]
      /\ \A f \in Fds : fds'[Parent][f] = IF f \in closed THEN Nothing ELSE fds[Parent][f]
  BY ParentAfterClose DEF ParentCloses
<1>2. /\ \A x \in Objects \ {o} : bridge'[x] = bridge[x]
      /\ \A slot \in SecondSlots : bridge'[o][slot] = NoFd
      /\ \A slot \in Slots \ SecondSlots : bridge'[o][slot] = bridge[o][slot]
  <2>1. bridge' = [bridge EXCEPT ![o] = Cleared(bridge[o], SecondSlots)]
    BY DEF ParentCloses
  <2>2. SecondSlots \subseteq Slots
    BY DEF SecondSlots, Slots
  <2>3. \A slot \in Slots : Cleared(bridge[o], SecondSlots)[slot] =
          IF slot \in SecondSlots THEN NoFd ELSE bridge[o][slot]
    BY DEF Cleared
  <2>4. QED
    BY <2>1, <2>2, <2>3 DEF TypeOK
<1>3. /\ pc[o] = "forked" /\ pc'[o] = "started"
      /\ \A x \in Objects \ {o} : pc'[x] = pc[x]
      /\ UNCHANGED <<fresh, asked, options>>
  BY DEF ParentCloses, TypeOK
<1>4. /\ \A x \in Objects, k \in Keys :
           Held(x, k)' # NoFd => Held(x, k)' = Held(x, k) /\ ~(x = o /\ k \in SecondSlots)
      /\ \A x \in Objects, k \in Keys :
           ~(x = o /\ k \in SecondSlots) => Held(x, k)' = Held(x, k)
  <2>1. SecondSlots \subseteq Slots
    BY DEF SecondSlots, Slots
  <2>2. QED
    BY <1>2, <1>3, <2>1 DEF Held
<1>5. High \subseteq Fds /\ NoFd \notin Fds /\ SecondSlots \subseteq Keys
      /\ \A slot \in SecondSlots : Held(o, slot) = bridge[o][slot]
  BY DEF High, NoFd, Fds, SecondSlots, Keys, Slots, Held
<1>6. \A x \in Objects, k \in Keys : Held(x, k)' # NoFd => Held(x, k) \notin closed
  <2>1. SUFFICES ASSUME NEW x \in Objects, NEW k \in Keys, Held(x, k)' # NoFd,
                        NEW slot \in SecondSlots, Held(x, k) = bridge[o][slot]
                 PROVE  FALSE
    BY DEF Behind
  <2>2. Held(x, k) # NoFd /\ Held(x, k) = Held(o, slot)
    BY <1>4, <1>5, <2>1
  <2>3. x = o /\ k = slot
    BY <1>5, <2>2 DEF ParentInv, OneHolder
  <2>4. QED
    BY <1>4, <2>1, <2>3
<1> HIDE DEF closed
<1>7. HeldIsOpen'
  <2>1. \A x \in Objects, k \in Keys : Held(x, k)' # NoFd =>
          /\ Held(x, k)' = Held(x, k)
          /\ Held(x, k) \in High /\ fds[Parent][Held(x, k)] # Nothing
          /\ Held(x, k) \notin closed
    BY <1>4, <1>6 DEF ParentInv, HeldIsOpen
  <2>2. QED
    BY <1>1, <1>5, <2>1 DEF HeldIsOpen
<1>8. OneHolder'
  <2>1. SUFFICES ASSUME NEW o1 \in Objects, NEW o2 \in Objects, NEW k1 \in Keys, NEW k2 \in Keys,
                        Held(o1, k1)' # NoFd, Held(o1, k1)' = Held(o2, k2)'
                 PROVE  o1 = o2 /\ k1 = k2
    BY DEF OneHolder
  <2>2. Held(o1, k1) # NoFd /\ Held(o1, k1) = Held(o2, k2)
    BY <1>4, <2>1
  <2>3. QED
    BY <2>2 DEF ParentInv, OneHolder
<1>9. OpenIsHeld'
  <2>1. SUFFICES ASSUME NEW f \in High, fds'[Parent][f] # Nothing
                 PROVE  \E x \in Objects, k \in Keys : Held(x, k)' = f
    BY DEF OpenIsHeld
  <2>2. fds[Parent][f] # Nothing /\ f \notin closed
    BY <1>1, <1>5, <2>1
  <2>3. PICK x \in Objects, k \in Keys : Held(x, k) = f
    BY <2>2 DEF ParentInv, OpenIsHeld
  <2>4. ~(x = o /\ k \in SecondSlots)
    BY <1>5, <2>2, <2>3 DEF closed, Behind
  <2>5. QED
    BY <1>4, <2>3, <2>4
<1>10. \A x \in Objects, slot \in Slots :
         bridge'[x][slot] # NoFd =>
           /\ bridge'[x][slot] = bridge[x][slot]
           /\ fds'[Parent][bridge[x][slot]] = fds[Parent][bridge[x][slot]]
  <2>1. SUFFICES ASSUME NEW x \in Objects, NEW slot \in Slots, bridge'[x][slot] # NoFd
                 PROVE  /\ bridge'[x][slot] = bridge[x][slot]
                        /\ fds'[Parent][bridge[x][slot]] = fds[Parent][bridge[x][slot]]
    OBVIOUS
  <2>2. bridge'[x][slot] = bridge[x][slot]
    BY <1>2, <2>1
  <2>3. Held(x, slot) = bridge[x][slot] /\ Held(x, slot)' = bridge'[x][slot] /\ slot \in Keys
    BY KeysAre DEF Held
  <2>4. bridge[x][slot] \in Fds /\ bridge[x][slot] \notin closed
    BY <1>5, <1>6, <2>1, <2>2, <2>3, SlotsAreOpen DEF ParentInv
  <2>5. QED
    BY <1>1, <2>2, <2>4
<1>11. \A x \in Objects, s \in Streams :
         /\ ParentEnd(bridge[x], s)' = ParentEnd(bridge[x], s)
         /\ ParentEnd(bridge[x], s) # NoFd =>
              fds'[Parent][ParentEnd(bridge[x], s)] = fds[Parent][ParentEnd(bridge[x], s)]
  <2>1. TAKE x \in Objects, s \in Streams
  <2>2. <<"first", Peer[s]>> \in Slots \ SecondSlots
    BY KeysAre
  <2>3. bridge'[x][<<"first", Peer[s]>>] = bridge[x][<<"first", Peer[s]>>]
    BY <1>2, <2>2
  <2>4. QED
    BY <1>10, <2>2, <2>3 DEF ParentEnd
<1>12. FirstRefs'
  BY <1>11 DEF ParentInv, FirstRefs
<1>13. SecondRefs'
  <2>1. SUFFICES ASSUME NEW x \in Objects, NEW s \in Streams
                 PROVE  SecondOf(x, s)'
    BY DEF SecondRefs
  <2>2. CASE x = o
    <3>1. ChildEnd(bridge[x], s)' = NoFd
      BY <1>2, <2>2, KeysAre DEF ChildEnd
    <3>2. QED
      BY <1>3, <2>2, <3>1 DEF SecondOf
  <2>3. CASE x # o
    <3>1. /\ ChildEnd(bridge[x], s)' = ChildEnd(bridge[x], s)
          /\ pc'[x] = pc[x] /\ asked' = asked /\ Meant(x, s)' = Meant(x, s)
          /\ Joined(x, s) => Joined(x, s)'
      BY <1>2, <1>3, <1>11, <2>3 DEF ChildEnd, Meant, Joined
    <3>2. ChildEnd(bridge[x], s) # NoFd =>
            fds'[Parent][ChildEnd(bridge[x], s)] = fds[Parent][ChildEnd(bridge[x], s)]
      <4>1. <<"second", s>> \in Slots
        BY KeysAre
      <4>2. bridge'[x][<<"second", s>>] = bridge[x][<<"second", s>>]
        BY <1>2, <2>3
      <4>3. QED
        BY <1>10, <4>1, <4>2 DEF ChildEnd
    <3>3. CASE ChildEnd(bridge[x], s) = NoFd
      BY <3>1, <3>3 DEF ParentInv, SecondRefs, SecondOf
    <3>4. CASE ChildEnd(bridge[x], s) # NoFd
      BY <3>1, <3>2, <3>4 DEF ParentInv, SecondRefs, SecondOf
    <3>5. QED
      BY <3>3, <3>4
  <2>4. QED
    BY <2>2, <2>3
<1>14. Resting'
  BY <1>3 DEF ParentInv, Resting
<1>15. FreshOpen'
  <2>1. SUFFICES ASSUME NEW x \in Objects, pc'[x] = "marking"
                 PROVE  FreshOf(x)'
    BY DEF FreshOpen
  <2>2. pc[x] = "marking" /\ x # o
    BY <1>3, <2>1
  <2>3. \A k \in Keys \ Slots : Held(x, k) # NoFd =>
          Held(x, k) \in Fds /\ fds'[Parent][Held(x, k)] = fds[Parent][Held(x, k)]
    BY <1>1, <1>4, <1>5, <1>6, <2>2 DEF ParentInv, HeldIsOpen
  <2>4. fresh'[x] = fresh[x] /\ options'[x] = options[x]
    BY <1>3
  <2>5. QED
    BY <2>2, <2>3, <2>4, FreshStays
<1>16. StdOpen'
  <2>1. \A f \in 0 .. 2 : f \in Fds /\ f \notin closed
    <3>1. \A slot \in SecondSlots : bridge[o][slot] \notin 0 .. 2
      BY <1>5, SlotsAreOpen DEF ParentInv, High, NoFd, SecondSlots, Slots
    <3>2. QED
      BY <3>1, FdPlumbingAssumption DEF closed, Behind, Fds
  <2>2. QED
    BY <1>1, <2>1 DEF ParentInv, StdOpen
<1>17. QED
  BY <1>1, <1>7, <1>8, <1>9, <1>10, <1>11, <1>12, <1>13, <1>14, <1>15, <1>16 DEF ParentInv

\* Which of the descriptors just opened a member of the bridge is to hold.
Source(o, slot) ==
  IF Len(fresh[o].open) = 1 \/ slot[1] = "first" THEN <<"fresh", 1>> ELSE <<"fresh", 2>>

\* What was opened goes to the members that are its targets, each to one.
LEMMA TargetsAre ==
  ASSUME TypeOK, ParentInv, NEW o \in Objects, pc[o] = "marking"
  PROVE  /\ DOMAIN Targets(o) \subseteq Slots
         /\ <<"second", fresh[o].stream>> \in DOMAIN Targets(o)
         /\ \A slot \in DOMAIN Targets(o) :
              /\ Source(o, slot) \in Keys \ Slots
              /\ Held(o, Source(o, slot)) = Targets(o)[slot]
              /\ Targets(o)[slot] # NoFd
         /\ \A one, two \in DOMAIN Targets(o) :
              Source(o, one) = Source(o, two) => one = two
         /\ \A k \in Keys \ Slots : Held(o, k) # NoFd =>
              \E slot \in DOMAIN Targets(o) : Source(o, slot) = k
         /\ \A slot \in DOMAIN Targets(o) :
              slot \in {<<"first", Peer[fresh[o].stream]>>, <<"second", fresh[o].stream>>}
         /\ LET f == Targets(o)[<<"second", fresh[o].stream>>]
            IN  \/ fds[Parent][f].ref = Ref(o, options[o], "file")
                \/ /\ fds[Parent][f].ref = Ref(o, options[o], "w")
                   /\ <<"first", Peer[fresh[o].stream]>> \in DOMAIN Targets(o)
         /\ <<"first", Peer[fresh[o].stream]>> \in DOMAIN Targets(o) =>
              fds[Parent][Targets(o)[<<"first", Peer[fresh[o].stream]>>]].ref
                = Ref(o, options[o], "r")
<1> DEFINE s == fresh[o].stream
           first == <<"first", Peer[s]>>
           second == <<"second", s>>
<1>1. s \in Streams /\ NoFd \notin High
  BY FreshIsHeld DEF ParentInv, NoFd, High, Fds
<1>2. /\ first \in Slots /\ second \in Slots /\ first # second
      /\ first[1] = "first" /\ second[1] = "second"
  BY <1>1, KeysAre
<1>3. CASE \E f \in High :
             /\ fresh[o].open = <<f>>
             /\ Held(o, <<"fresh", 1>>) = f /\ Held(o, <<"fresh", 2>>) = NoFd
             /\ fds[Parent][f].ref = Ref(o, options[o], "file")
  <2>1. PICK f \in High :
          /\ fresh[o].open = <<f>>
          /\ Held(o, <<"fresh", 1>>) = f /\ Held(o, <<"fresh", 2>>) = NoFd
          /\ fds[Parent][f].ref = Ref(o, options[o], "file")
    BY <1>3
  <2>2. Len(fresh[o].open) = 1 /\ fresh[o].open[1] = f
    BY <2>1
  <2>3. Targets(o) = [slot \in {second} |-> f]
    BY <2>2 DEF Targets
  <2> HIDE DEF first, second
  <2>4. DOMAIN Targets(o) = {second} /\ Targets(o)[second] = f
    BY <2>3
  <2>5. \A slot \in {second} : Source(o, slot) = <<"fresh", 1>>
    BY <2>2 DEF Source
  <2>6. QED
    BY <1>1, <1>2, <2>1, <2>4, <2>5, KeysAre DEF first, second
<1>4. CASE \E f, g \in High :
             /\ fresh[o].open = <<f, g>>
             /\ Held(o, <<"fresh", 1>>) = f /\ Held(o, <<"fresh", 2>>) = g
             /\ fds[Parent][f].ref = Ref(o, options[o], "r")
             /\ fds[Parent][g].ref = Ref(o, options[o], "w")
  <2>1. PICK f \in High, g \in High :
          /\ fresh[o].open = <<f, g>>
          /\ Held(o, <<"fresh", 1>>) = f /\ Held(o, <<"fresh", 2>>) = g
          /\ fds[Parent][f].ref = Ref(o, options[o], "r")
          /\ fds[Parent][g].ref = Ref(o, options[o], "w")
    BY <1>4
  <2>2. Len(fresh[o].open) = 2 /\ fresh[o].open[1] = f /\ fresh[o].open[2] = g
    BY <2>1
  <2>3. Targets(o) = [slot \in {first, second} |-> IF slot[1] = "first" THEN f ELSE g]
    BY <2>2 DEF Targets
  <2> HIDE DEF first, second
  <2>4. /\ DOMAIN Targets(o) = {first, second}
        /\ Targets(o)[first] = f /\ Targets(o)[second] = g
    BY <1>2, <2>3
  <2>5. Source(o, first) = <<"fresh", 1>> /\ Source(o, second) = <<"fresh", 2>>
    BY <1>2, <2>2 DEF Source
  <2>6. <<"fresh", 1>> # <<"fresh", 2>>
    OBVIOUS
  <2>7. QED
    BY <1>1, <1>2, <2>1, <2>4, <2>5, <2>6, KeysAre DEF first, second
<1>5. QED
  BY <1>3, <1>4, FreshIsHeld DEF ParentInv

\* and the assignment to the bridge, which closes what it replaces.
LEMMA AttachKeeps ==
  ASSUME TypeOK, ParentInv, NEW o \in Objects, Attach(o)
  PROVE  /\ ParentInv' /\ fds' \in [Processes -> [Fds -> Entries \cup {Nothing}]]
         /\ bridge' \in [Objects -> [Slots -> Fds \cup {NoFd}]]
         /\ \A x \in Objects : fds'[x] = fds[x]
         /\ \A x \in Objects, slot \in Slots :
              bridge'[x][slot] # NoFd =>
                fds'[Parent][bridge'[x][slot]] = fds[Parent][bridge'[x][slot]]
<1>1. PICK s \in Streams : s = fresh[o].stream
  BY FreshIsHeld DEF ParentInv, Attach
<1> DEFINE T == DOMAIN Targets(o)
           closed == Replaced(o)
           From(x, k) == IF x = o /\ k \in T THEN Source(o, k) ELSE k
<1>2. /\ pc[o] = "marking" /\ Unmarked(o) = {} /\ pc'[o] = "options"
      /\ \A x \in Objects \ {o} : pc'[x] = pc[x]
      /\ fresh'[o] = NoOption /\ \A x \in Objects \ {o} : fresh'[x] = fresh[x]
      /\ options' = options
  BY DEF Attach, TypeOK
<1>3. /\ T \subseteq Slots /\ <<"second", s>> \in T
      /\ \A slot \in T : /\ Source(o, slot) \in Keys \ Slots
                         /\ Held(o, Source(o, slot)) = Targets(o)[slot]
                         /\ Targets(o)[slot] # NoFd
      /\ \A one, two \in T : Source(o, one) = Source(o, two) => one = two
      /\ \A k \in Keys \ Slots : Held(o, k) # NoFd => \E slot \in T : Source(o, slot) = k
  BY <1>1, <1>2, TargetsAre
<1>4. /\ \A slot \in T : bridge'[o][slot] = Targets(o)[slot]
      /\ \A slot \in Slots \ T : bridge'[o][slot] = bridge[o][slot]
      /\ \A x \in Objects \ {o} : bridge'[x] = bridge[x]
  <2> DEFINE new == [slot \in Slots |-> IF slot \in T THEN Targets(o)[slot] ELSE bridge[o][slot]]
  <2>1. bridge' = [bridge EXCEPT ![o] = new]
    BY DEF Attach
  <2>2. \A slot \in Slots : new[slot] = IF slot \in T THEN Targets(o)[slot] ELSE bridge[o][slot]
    OBVIOUS
  <2> HIDE DEF new
  <2>3. bridge'[o] = new /\ \A x \in Objects \ {o} : bridge'[x] = bridge[x]
    BY <2>1 DEF TypeOK
  <2>4. QED
    BY <1>3, <2>2, <2>3
<1>5. /\ fds' \in [Processes -> [Fds -> Entries \cup {Nothing}]]
      /\ \A x \in Objects : fds'[x] = fds[x]
      /\ \A f \in Fds : fds'[Parent][f] = IF f \in closed THEN Nothing ELSE fds[Parent][f]
  BY ParentAfterClose DEF Attach
<1>6. /\ \A x \in Objects, k \in Keys : From(x, k) \in Keys
      /\ \A x \in Objects, k \in Keys :
           Held(x, k)' # NoFd => Held(x, k)' = Held(x, From(x, k)) /\ (x = o => k \in Slots)
      /\ \A x \in Objects, one, two \in Keys :
           Held(x, one)' # NoFd /\ Held(x, two)' # NoFd /\ From(x, one) = From(x, two) => one = two
  <2>1. \A k \in Keys \ Slots : Held(o, k)' = NoFd
    BY <1>2 DEF Held, NoOption
  <2>2. \A slot \in Slots : Held(o, slot) = bridge[o][slot] /\ Held(o, slot)' = bridge'[o][slot]
    BY DEF Held
  <2>3. \A x \in Objects \ {o}, k \in Keys : Held(x, k)' = Held(x, k)
    BY <1>2, <1>4 DEF Held
  <2>4. \A x \in Objects, k \in Keys : From(x, k) \in Keys
    BY <1>3
  <2>5. \A x \in Objects, k \in Keys :
           Held(x, k)' # NoFd => Held(x, k)' = Held(x, From(x, k)) /\ (x = o => k \in Slots)
    BY <1>3, <1>4, <2>1, <2>2, <2>3
  <2>6. ASSUME NEW x \in Objects, NEW one \in Keys, NEW two \in Keys,
               Held(x, one)' # NoFd, Held(x, two)' # NoFd, From(x, one) = From(x, two)
        PROVE  one = two
    <3>1. x = o => one \in Slots /\ two \in Slots
      BY <2>5, <2>6
    <3>2. QED
      BY <1>3, <2>6, <3>1
  <2>7. QED
    BY <2>4, <2>5, <2>6
<1>7. High \subseteq Fds /\ NoFd \notin Fds
  BY DEF High, NoFd, Fds
<1>8. \A x \in Objects, k \in Keys : Held(x, k)' # NoFd => Held(x, From(x, k)) \notin closed
  <2>1. SUFFICES ASSUME NEW x \in Objects, NEW k \in Keys, Held(x, k)' # NoFd,
                        NEW slot \in T, Held(x, From(x, k)) = bridge[o][slot]
                 PROVE  FALSE
    BY DEF Replaced, Behind
  <2>2. bridge[o][slot] = Held(o, slot) /\ slot \in Keys
    BY <1>3, KeysAre DEF Held
  <2>3. From(x, k) \in Keys /\ Held(x, From(x, k)) # NoFd
    BY <1>6, <2>1
  <2> HIDE DEF From, T
  <2>4. x = o /\ From(x, k) = slot
    BY <2>1, <2>2, <2>3 DEF ParentInv, OneHolder
  <2>5. slot \in Slots
    BY <1>3
  <2>6. QED
    BY <1>3, <2>1, <2>4, <2>5 DEF From
<1> HIDE DEF closed, From, T
<1>9. HeldIsOpen'
  <2>1. \A x \in Objects, k \in Keys : Held(x, k)' # NoFd =>
          /\ Held(x, k)' = Held(x, From(x, k))
          /\ Held(x, From(x, k)) \in High /\ fds[Parent][Held(x, From(x, k))] # Nothing
          /\ Held(x, From(x, k)) \notin closed
    BY <1>6, <1>8 DEF ParentInv, HeldIsOpen
  <2>2. QED
    BY <1>5, <1>7, <2>1 DEF HeldIsOpen
<1>10. OneHolder'
  <2>1. SUFFICES ASSUME NEW o1 \in Objects, NEW o2 \in Objects, NEW k1 \in Keys, NEW k2 \in Keys,
                        Held(o1, k1)' # NoFd, Held(o1, k1)' = Held(o2, k2)'
                 PROVE  o1 = o2 /\ k1 = k2
    BY DEF OneHolder
  <2>2. /\ Held(o1, From(o1, k1)) # NoFd
        /\ Held(o1, From(o1, k1)) = Held(o2, From(o2, k2))
        /\ From(o1, k1) \in Keys /\ From(o2, k2) \in Keys
    BY <1>6, <2>1
  <2>3. o1 = o2 /\ From(o1, k1) = From(o2, k2)
    BY <2>2 DEF ParentInv, OneHolder
  <2>4. QED
    BY <1>6, <2>1, <2>3
<1>11. OpenIsHeld'
  <2>1. SUFFICES ASSUME NEW f \in High, fds'[Parent][f] # Nothing
                 PROVE  \E x \in Objects, k \in Keys : Held(x, k)' = f
    BY DEF OpenIsHeld
  <2>2. fds[Parent][f] # Nothing /\ f \notin closed
    BY <1>5, <1>7, <2>1
  <2>3. PICK x \in Objects, k \in Keys : Held(x, k) = f
    BY <2>2 DEF ParentInv, OpenIsHeld
  <2>4. CASE x # o
    <3>1. Held(x, k)' = f
      BY <1>2, <1>4, <2>3, <2>4 DEF Held
    <3>2. QED
      BY <3>1
  <2>5. CASE x = o /\ k \in Slots
    <3>1. k \notin T
      BY <2>2, <2>3, <2>5 DEF closed, Replaced, Behind, T, Held
    <3>2. Held(o, k)' = f
      BY <1>4, <2>3, <2>5, <3>1 DEF Held
    <3>3. QED
      BY <2>5, <3>2
  <2>6. CASE x = o /\ k \notin Slots
    <3>1. PICK slot \in T : Source(o, slot) = k
      BY <1>3, <1>7, <2>3, <2>6
    <3>2. Held(o, slot)' = f
      BY <1>3, <1>4, <2>3, <2>6, <3>1 DEF Held
    <3>3. QED
      BY <1>3, <3>1, <3>2, KeysAre
  <2>7. QED
    BY <2>4, <2>5, <2>6
<1>12. \A x \in Objects, slot \in Slots :
         bridge'[x][slot] # NoFd =>
           /\ bridge'[x][slot] \in Fds
           /\ fds'[Parent][bridge'[x][slot]] = fds[Parent][bridge'[x][slot]]
  <2>1. SUFFICES ASSUME NEW x \in Objects, NEW slot \in Slots, bridge'[x][slot] # NoFd
                 PROVE  /\ bridge'[x][slot] \in Fds
                        /\ fds'[Parent][bridge'[x][slot]] = fds[Parent][bridge'[x][slot]]
    OBVIOUS
  <2>2. Held(x, slot)' = bridge'[x][slot] /\ slot \in Keys
    BY KeysAre DEF Held
  <2>3. bridge'[x][slot] \in Fds /\ bridge'[x][slot] \notin closed
    BY <1>6, <1>7, <1>8, <1>9, <2>1, <2>2 DEF HeldIsOpen
  <2>4. QED
    BY <1>5, <2>3
<1>13. bridge' \in [Objects -> [Slots -> Fds \cup {NoFd}]]
  <2>1. bridge' = [bridge EXCEPT ![o] = [slot \in Slots |-> bridge'[o][slot]]]
    BY <1>4 DEF Attach
  <2>2. \A slot \in Slots : bridge'[o][slot] \in Fds \cup {NoFd}
    BY <1>12
  <2>3. QED
    BY <2>1, <2>2 DEF TypeOK
<1>14. /\ asked'[o][s] = options[o]
       /\ \A x \in Objects, q \in Streams : ~(x = o /\ q = s) => asked'[x][q] = asked[x][q]
  BY <1>1 DEF Attach, TypeOK
<1>15. \A slot \in T : /\ Targets(o)[slot] \in Fds
                       /\ fds[Parent][Targets(o)[slot]].cloexec
                       /\ fds'[Parent][Targets(o)[slot]] = fds[Parent][Targets(o)[slot]]
  <2>1. TAKE slot \in T
  <2>2. bridge'[o][slot] = Targets(o)[slot] /\ Targets(o)[slot] # NoFd /\ slot \in Slots
    BY <1>3, <1>4
  <2>3. Source(o, slot)[2] \in DOMAIN fresh[o].open
        /\ fresh[o].open[Source(o, slot)[2]] = Targets(o)[slot]
    BY <1>3, <2>2 DEF Held
  <2>4. fds[Parent][Targets(o)[slot]].cloexec
    BY <1>2, <2>3 DEF Unmarked
  <2>5. QED
    BY <1>12, <2>2, <2>4
<1>16. \A x \in Objects, q \in Streams :
         /\ <<"first", Peer[q]>> \in Slots /\ <<"second", q>> \in Slots
         /\ ParentEnd(bridge[x], q)' = bridge'[x][<<"first", Peer[q]>>]
         /\ ChildEnd(bridge[x], q)' = bridge'[x][<<"second", q>>]
         /\ Meant(x, q)' = {Ref(x, asked'[x][q], "w"), Ref(x, asked'[x][q], "file")}
  BY KeysAre DEF ParentEnd, ChildEnd, Meant
<1>17. \A x \in Objects, q \in Streams : ~(x = o /\ q = s) =>
         /\ <<"first", Peer[q]>> \in T => x # o
         /\ <<"second", q>> \in T => x # o
  <2>1. SUFFICES ASSUME NEW q \in Streams, q # s
                 PROVE  <<"first", Peer[q]>> \notin T /\ <<"second", q>> \notin T
    OBVIOUS
  <2>2. Peer[q] # Peer[s]
    BY <1>1, <2>1, KeysAre
  <2>3. \A slot \in T : slot \in {<<"first", Peer[s]>>, <<"second", s>>}
    BY <1>1, <1>2, TargetsAre DEF T
  <2>4. /\ <<"first", Peer[q]>> \notin {<<"first", Peer[s]>>, <<"second", s>>}
        /\ <<"second", q>> \notin {<<"first", Peer[s]>>, <<"second", s>>}
    BY <2>1, <2>2
  <2>5. QED
    BY <2>3, <2>4
<1>18. \A x \in Objects, q \in Streams : ~(x = o /\ q = s) =>
         /\ ParentEnd(bridge[x], q)' = ParentEnd(bridge[x], q)
         /\ ChildEnd(bridge[x], q)' = ChildEnd(bridge[x], q)
  BY <1>4, <1>16, <1>17 DEF ParentEnd, ChildEnd
<1>19. \A x \in Objects, q \in Streams :
         /\ ParentEnd(bridge[x], q)' # NoFd =>
              fds'[Parent][ParentEnd(bridge[x], q)'] = fds[Parent][ParentEnd(bridge[x], q)']
         /\ ChildEnd(bridge[x], q)' # NoFd =>
              fds'[Parent][ChildEnd(bridge[x], q)'] = fds[Parent][ChildEnd(bridge[x], q)']
  BY <1>12, <1>16 DEF ParentEnd, ChildEnd
<1>20. Ref(o, options[o], "r").by = o /\ Ref(o, options[o], "r").end = "r"
       /\ Ref(o, options[o], "file").end # "w"
  BY DEF Ref
<1>21. <<"first", Peer[s]>> \in T => fds'[Parent][bridge'[o][<<"first", Peer[s]>>]].ref = Ref(o, options[o], "r")
  <2>1. SUFFICES ASSUME <<"first", Peer[s]>> \in T
                 PROVE  fds[Parent][Targets(o)[<<"first", Peer[s]>>]].ref = Ref(o, options[o], "r")
    BY <1>4, <1>15
  <2>2. QED
    BY <1>1, <1>2, <2>1, TargetsAre DEF T
<1>22. FirstRefs'
  <2>1. SUFFICES ASSUME NEW x \in Objects, NEW q \in Streams, ParentEnd(bridge[x], q)' # NoFd
                 PROVE  LET g == ParentEnd(bridge[x], q)'
                        IN  /\ fds'[Parent][g].cloexec
                            /\ fds'[Parent][g].ref.by = x /\ fds'[Parent][g].ref.end = "r"
    BY DEF FirstRefs
  <2>2. CASE x = o /\ q = s /\ <<"first", Peer[s]>> \in T
    BY <1>4, <1>15, <1>16, <1>20, <1>21, <2>2 DEF ParentEnd
  <2>3. CASE ~(x = o /\ q = s /\ <<"first", Peer[s]>> \in T)
    <3>1. ParentEnd(bridge[x], q)' = ParentEnd(bridge[x], q)
      <4>1. CASE x = o /\ q = s
        BY <1>4, <1>16, <2>3, <4>1 DEF ParentEnd
      <4>2. QED
        BY <1>18, <4>1
    <3>2. QED
      BY <1>19, <2>1, <3>1 DEF ParentInv, FirstRefs
  <2>4. QED
    BY <2>2, <2>3
<1>23. SecondRefs'
  <2>1. SUFFICES ASSUME NEW x \in Objects, NEW q \in Streams
                 PROVE  SecondOf(x, q)'
    BY DEF SecondRefs
  <2>2. CASE x = o /\ q = s
    <3> DEFINE f == Targets(o)[<<"second", s>>]
    <3>1. /\ ChildEnd(bridge[o], s)' = f /\ f # NoFd
          /\ fds'[Parent][f] = fds[Parent][f] /\ fds[Parent][f].cloexec
      BY <1>3, <1>4, <1>15, <1>16 DEF ChildEnd
    <3>2. options[o] # 0
      BY <1>2 DEF ParentInv, FreshOpen, FreshOf
    <3>3. \/ fds[Parent][f].ref = Ref(o, options[o], "file")
          \/ /\ fds[Parent][f].ref = Ref(o, options[o], "w")
             /\ <<"first", Peer[s]>> \in T
      BY <1>1, <1>2, TargetsAre DEF T
    <3> HIDE DEF f
    <3>4. fds'[Parent][f].ref \in Meant(o, s)'
      BY <1>3, <1>14, <1>16, <3>1, <3>3 DEF Meant
    <3>5. <<"first", Peer[s]>> \in T => Joined(o, s)'
      <4>1. SUFFICES ASSUME <<"first", Peer[s]>> \in T
                     PROVE  Joined(o, s)'
        OBVIOUS
      <4>2. ParentEnd(bridge[o], s)' = Targets(o)[<<"first", Peer[s]>>]
        BY <1>3, <1>4, <1>16, <4>1 DEF ParentEnd
      <4>3. ParentEnd(bridge[o], s)' # NoFd
        BY <1>3, <4>1, <4>2
      <4>4. fds'[Parent][ParentEnd(bridge[o], s)'].ref = Ref(o, asked'[o][s], "r")
        BY <1>3, <1>14, <1>16, <1>21, <4>1 DEF ParentEnd
      <4>5. QED
        BY <4>3, <4>4 DEF Joined
    <3>6. fds'[Parent][f].ref.end = "w" => Joined(o, s)'
      BY <1>20, <3>1, <3>3, <3>5
    <3>7. pc'[o] # "started" /\ asked'[o][s] # 0
      BY <1>2, <1>14, <3>2
    <3>8. QED
      BY <2>2, <3>1, <3>4, <3>6, <3>7 DEF SecondOf
  <2>3. CASE ~(x = o /\ q = s)
    <3>1. /\ ChildEnd(bridge[x], q)' = ChildEnd(bridge[x], q)
          /\ ParentEnd(bridge[x], q)' = ParentEnd(bridge[x], q)
          /\ asked'[x][q] = asked[x][q]
          /\ pc'[x] = "started" <=> pc[x] = "started"
      BY <1>2, <1>14, <1>18, <2>3
    <3>2. Meant(x, q)' = Meant(x, q) /\ (Joined(x, q) => Joined(x, q)')
      BY <1>19, <3>1 DEF Meant, Joined
    <3>3. SecondOf(x, q)
      BY DEF ParentInv, SecondRefs
    <3>4. CASE ChildEnd(bridge[x], q) = NoFd
      BY <3>1, <3>3, <3>4 DEF SecondOf
    <3>5. CASE ChildEnd(bridge[x], q) # NoFd
      BY <1>19, <3>1, <3>2, <3>3, <3>5 DEF SecondOf
    <3>6. QED
      BY <3>4, <3>5
  <2>4. QED
    BY <2>2, <2>3
<1>24. Resting'
  BY <1>2 DEF ParentInv, Resting
<1>25. FreshOpen'
  <2>1. SUFFICES ASSUME NEW x \in Objects, pc'[x] = "marking"
                 PROVE  FreshOf(x)'
    BY DEF FreshOpen
  <2>2. pc[x] = "marking" /\ x # o /\ fresh'[x] = fresh[x] /\ options'[x] = options[x]
    BY <1>2, <2>1
  <2>3. \A k \in Keys \ Slots : Held(x, k) # NoFd =>
          fds'[Parent][Held(x, k)] = fds[Parent][Held(x, k)]
    <3>1. \A k \in Keys \ Slots : Held(x, k)' = Held(x, k) /\ From(x, k) = k
      BY <1>2, <2>2 DEF Held, From
    <3>2. QED
      BY <1>5, <1>7, <1>8, <3>1 DEF ParentInv, HeldIsOpen
  <2>4. QED
    BY <2>2, <2>3, FreshStays
<1>26. StdOpen'
  <2>1. \A f \in 0 .. 2 : f \in Fds /\ f \notin closed
    <3>1. \A slot \in T : bridge[o][slot] \notin 0 .. 2
      BY <1>3, <1>7, SlotsAreOpen DEF ParentInv, High, NoFd
    <3>2. QED
      BY <3>1, FdPlumbingAssumption DEF closed, Replaced, Behind, T, Fds
  <2>2. QED
    BY <1>5, <2>1 DEF ParentInv, StdOpen
<1>27. QED
  BY <1>5, <1>9, <1>10, <1>11, <1>12, <1>13, <1>22, <1>23, <1>24, <1>25, <1>26 DEF ParentInv

-----------------------------------------------------------------------------
(* The steps of the children *)

\* What a step has to leave alone for a child to be as it was.
Spared(x) ==
  /\ inherited'[x] = inherited[x] /\ child'[x] = child[x] /\ window'[x] = window[x]
  /\ fds'[x] = fds[x]
  /\ pc[x] \in {"forked", "started"} =>
       /\ pc'[x] \in {"forked", "started"} /\ asked'[x] = asked[x]
       /\ \A s \in Streams :
            LET g == bridge[x][<<"first", Peer[s]>>]
            IN  /\ bridge'[x][<<"first", Peer[s]>>] = g
                /\ g # NoFd => fds'[Parent][g] = fds[Parent][g]

\* What a step must leave alone for a child to be untouched by it.
LEMMA SparedIf ==
  ASSUME NEW x \in Objects,
         inherited'[x] = inherited[x], child'[x] = child[x], window'[x] = window[x],
         fds'[x] = fds[x],
         pc[x] \in {"forked", "started"} =>
           /\ pc'[x] \in {"forked", "started"} /\ asked'[x] = asked[x]
           /\ \A slot \in Slots \ SecondSlots :
                /\ bridge'[x][slot] = bridge[x][slot]
                /\ bridge[x][slot] # NoFd =>
                     fds'[Parent][bridge[x][slot]] = fds[Parent][bridge[x][slot]]
  PROVE  Spared(x)
<1>1. \A s \in Streams : <<"first", Peer[s]>> \in Slots \ SecondSlots
  BY KeysAre
<1>2. QED
  BY <1>1 DEF Spared

\* A child that a step spares keeps its part of the invariant.
LEMMA SparedStays ==
  ASSUME NEW x \in Objects, ChildOf(x), Spared(x)
  PROVE  ChildOf(x)'
<1>1. /\ (child[x] = "born" => Copied(x)) => (child[x] = "born" => Copied(x))'
      /\ (Living(x) <=> Living(x)')
      /\ PlainStreams(x) => PlainStreams(x)'
      /\ MarkedOrInWindow(x) => MarkedOrInWindow(x)'
      /\ OnlyWindow(x) => OnlyWindow(x)'
  BY DEF Spared, Copied, Living, PlainStreams, MarkedOrInWindow, OnlyWindow
<1>2. Living(x) /\ StreamsGiven(x) => StreamsGiven(x)'
  <2>1. SUFFICES ASSUME Living(x), StreamsGiven(x)
                 PROVE  StreamsGiven(x)'
    OBVIOUS
  <2>2. pc[x] \in {"forked", "started"}
    BY <2>1 DEF ChildOf, Living
  <2>3. \A s \in Streams : Joined(x, s) => Joined(x, s)'
    BY <2>2 DEF Spared, Joined, ParentEnd
  <2>4. \A s \in Streams : Given(x, s)' = Given(x, s) /\ Meant(x, s)' = Meant(x, s)
    BY <2>2 DEF Spared, Given, ChildEnd, Meant
  <2>5. asked'[x] = asked[x] /\ fds'[x] = fds[x]
    BY <2>2 DEF Spared
  <2>6. SUFFICES ASSUME NEW s \in Streams
                 PROVE  LET mine == fds'[x][Given(x, s)']
                        IN  /\ mine # Nothing
                            /\ IF asked'[x][s] = 0 THEN mine.ref = Inherit(Std[s]).ref
                               ELSE mine.ref \in Meant(x, s)'
                            /\ mine.ref.end = "w" => Joined(x, s)'
    BY DEF StreamsGiven
  <2>7. QED
    BY <2>1, <2>3, <2>4, <2>5 DEF StreamsGiven
<1>3. \/ pc'[x] \in {"forked", "started"}
      \/ child'[x] = "none"
  BY DEF ChildOf, Spared
<1>4. child'[x] = child[x] /\ fds'[x] = fds[x]
  BY DEF Spared
<1>5. QED
  BY <1>1, <1>2, <1>3, <1>4 DEF ChildOf, Living

\* A child's table after a step of its own.
LEMMA OwnTable ==
  ASSUME TypeOK, NEW o \in Objects, NEW table \in Table, fds' = [fds EXCEPT ![o] = table]
  PROVE  /\ fds' \in [Processes -> [Fds -> Entries \cup {Nothing}]]
         /\ fds'[o] = table /\ fds'[Parent] = fds[Parent]
         /\ \A x \in Objects \ {o} : fds'[x] = fds[x]
BY EntriesAre DEF TypeOK, Table

\* fork gives the child its part of the invariant.
LEMMA ForkKeepsChild ==
  ASSUME IInv, NEW o \in Objects, fork(o)
  PROVE  ChildOf(o)'
<1> USE DEF IInv
<1>1. /\ pc[o] = "options" /\ pc'[o] = "forked" /\ child'[o] = "born"
      /\ inherited'[o] = bridge[o] /\ UNCHANGED <<bridge, fresh, asked>>
  BY DEF fork, TypeOK
<1>2. fds'[o] = fds[Parent] /\ fds'[Parent] = fds[Parent]
  BY EntriesAre, OwnTable DEF fork
<1>3. High \subseteq Fds /\ NoFd \notin High /\ 0 .. 2 \subseteq Fds
  BY FdPlumbingAssumption DEF High, Fds, NoFd
<1>4. Copied(o)'
  <2>1. \A slot \in Slots : bridge[o][slot] \in High \cup {NoFd}
    BY SlotsAreOpen DEF ParentInv
  <2>2. \A slot \in Slots : Held(o, slot) = bridge[o][slot] /\ slot \in Keys
    BY KeysAre DEF Held
  <2>3. \A one, two \in Slots :
          bridge[o][one] # NoFd /\ bridge[o][one] = bridge[o][two] => one = two
    BY <2>2 DEF ParentInv, OneHolder
  <2>4. QED
    BY <1>1, <2>1, <2>3 DEF Copied
<1>5. PlainStreams(o)'
  <2>1. \A f \in 0 .. 2 : Inherit(f) \in Entries /\ ~Inherit(f).cloexec
    BY DEF Inherit, Entries, Refs, Ref, Processes
  <2>2. QED
    BY <1>2, <2>1, NothingAssumption DEF PlainStreams, ParentInv, StdOpen
<1>6. StreamsGiven(o)'
  <2>1. SUFFICES ASSUME NEW s \in Streams
                 PROVE  LET mine == fds[Parent][Given(o, s)']
                        IN  /\ mine # Nothing
                            /\ IF asked[o][s] = 0 THEN mine.ref = Inherit(Std[s]).ref
                               ELSE mine.ref \in Meant(o, s)
                            /\ mine.ref.end = "w" => Joined(o, s)
    BY <1>1, <1>2 DEF StreamsGiven, Meant, Joined, ParentEnd
  <2>2. SecondOf(o, s) /\ Std[s] \in 0 .. 2
    BY DEF ParentInv, SecondRefs, Std, Streams
  <2>3. CASE ChildEnd(bridge[o], s) = NoFd
    <3>1. Given(o, s)' = Std[s] /\ asked[o][s] = 0
      BY <1>1, <2>2, <2>3 DEF Given, SecondOf, ChildEnd
    <3>2. fds[Parent][Std[s]] = Inherit(Std[s])
      BY <2>2 DEF ParentInv, StdOpen
    <3>3. Inherit(Std[s]) # Nothing /\ Inherit(Std[s]).ref.end # "w"
      <4>1. Inherit(Std[s]) \in Entries
        BY <1>3, <2>2 DEF Inherit, Entries, Refs, Ref, Processes
      <4>2. QED
        BY <4>1, NothingAssumption DEF Inherit, Ref
    <3>4. QED
      BY <3>1, <3>2, <3>3
  <2>4. CASE ChildEnd(bridge[o], s) # NoFd
    <3>1. Given(o, s)' = ChildEnd(bridge[o], s)
      BY <1>1, <2>4 DEF Given, ChildEnd
    <3>2. fds[Parent][ChildEnd(bridge[o], s)] # Nothing
      BY <2>4, SlotsAreOpen, KeysAre DEF ParentInv, ChildEnd
    <3>3. QED
      BY <2>2, <2>4, <3>1, <3>2 DEF SecondOf
  <2>5. QED
    BY <2>3, <2>4
<1>7. MarkedOrInWindow(o)'
  <2>1. SUFFICES ASSUME NEW f \in High, fds[Parent][f] # Nothing, ~fds[Parent][f].cloexec
                 PROVE  fds[Parent][f].ref \in window'[o]
    BY <1>2 DEF MarkedOrInWindow
  <2>2. PICK x \in Objects, k \in Keys : Held(x, k) = f
    BY <2>1 DEF ParentInv, OpenIsHeld
  <2>3. k \notin Slots
    <3>1. SUFFICES ASSUME k \in Slots
                   PROVE  FALSE
      OBVIOUS
    <3>2. bridge[x][k] = f
      BY <2>2, <3>1 DEF Held
    <3>3. PICK s \in Streams : k = <<"second", s>> \/ k = <<"first", Peer[s]>>
      <4>1. PICK q \in Streams : k = <<"second", q>> \/ k = <<"first", q>>
        BY <3>1 DEF Slots
      <4>2. Peer[q] \in Streams /\ Peer[Peer[q]] = q
        BY KeysAre
      <4>3. QED
        BY <4>1, <4>2
    <3>4. CASE k = <<"second", s>>
      BY <1>3, <2>1, <3>2, <3>4 DEF ParentInv, SecondRefs, SecondOf, ChildEnd
    <3>5. CASE k = <<"first", Peer[s]>>
      BY <1>3, <2>1, <3>2, <3>5 DEF ParentInv, FirstRefs, ParentEnd
    <3>6. QED
      BY <3>3, <3>4, <3>5
  <2>4. PICK i : i \in DOMAIN fresh[x].open /\ fresh[x].open[i] = f
    BY <1>3, <2>2, <2>3 DEF Held
  <2>5. i \in Unmarked(x)
    BY <2>1, <2>4 DEF Unmarked
  <2>6. window'[o] = {fds[Parent][g].ref :
          g \in UNION {{fresh[y].open[j] : j \in Unmarked(y)} : y \in Objects}}
    BY DEF fork, TypeOK
  <2>7. f \in UNION {{fresh[y].open[j] : j \in Unmarked(y)} : y \in Objects}
    BY <2>4, <2>5
  <2>8. QED
    BY <2>6, <2>7
<1>8. QED
  BY <1>1, <1>4, <1>5, <1>6, <1>7 DEF ChildOf

\* The dup2 and close calls of execute_child keep it,
LEMMA ArrangeKeepsChild ==
  ASSUME IInv, NEW o \in Objects, Arrange(o) \/ SysconfFails(o)
  PROVE  ChildOf(o)' /\ \E table \in Table : fds' = [fds EXCEPT ![o] = table]
<1>1. PICK loop \in BOOLEAN :
        /\ child[o] = "born" /\ child'[o] \in {"ready", "strayed"}
        /\ UNCHANGED <<bridge, fresh, asked, options, pc, window>>
        /\ fds' = [fds EXCEPT ![o] = Arranged(o, loop)]
        /\ ChildOf(o) /\ TypeOK
  <2>1. ChildOf(o) /\ TypeOK
    BY DEF IInv, ChildInv
  <2>2. /\ child[o] = "born" /\ child'[o] \in {"ready", "strayed"}
        /\ UNCHANGED <<bridge, fresh, asked, options, pc, window>>
    BY <2>1 DEF Arrange, SysconfFails, TypeOK
  <2>3. \/ fds' = [fds EXCEPT ![o] = Arranged(o, o \in Closers)]
        \/ fds' = [fds EXCEPT ![o] = Arranged(o, FALSE)]
    BY DEF Arrange, SysconfFails
  <2>4. FALSE \in BOOLEAN /\ (o \in Closers) \in BOOLEAN
    OBVIOUS
  <2>5. \E loop \in BOOLEAN : fds' = [fds EXCEPT ![o] = Arranged(o, loop)]
    BY <2>3, <2>4, Zenon
  <2>6. QED
    BY <2>1, <2>2, <2>5
<1>2. /\ Arranged(o, loop) \in Table
      /\ \A s \in Streams :
           /\ Arranged(o, loop)[Std[s]] # Nothing
           /\ Arranged(o, loop)[Std[s]].ref = fds[o][Given(o, s)].ref
           /\ Arranged(o, loop)[Std[s]].cloexec = FALSE
      /\ \A f \in High : Arranged(o, loop)[f] \in {fds[o][f], Nothing}
  BY <1>1, ArrangedIs
<1>3. fds'[o] = Arranged(o, loop) /\ fds'[Parent] = fds[Parent]
  BY <1>1, <1>2, OwnTable
<1>4. PlainStreams(o)'
  <2>1. \A f \in 0 .. 2 : \E s \in Streams : f = Std[s]
    BY DEF Streams, Std
  <2>2. QED
    BY <1>2, <1>3, <2>1 DEF PlainStreams
<1>5. StreamsGiven(o)'
  <2>1. Living(o) /\ StreamsGiven(o)
    BY <1>1 DEF ChildOf, Living
  <2>2. SUFFICES ASSUME NEW s \in Streams
                 PROVE  LET mine == Arranged(o, loop)[Std[s]]
                        IN  /\ mine # Nothing
                            /\ IF asked[o][s] = 0 THEN mine.ref = Inherit(Std[s]).ref
                               ELSE mine.ref \in Meant(o, s)
                            /\ mine.ref.end = "w" => Joined(o, s)
    BY <1>1, <1>3 DEF StreamsGiven, Given, Meant, Joined, ParentEnd
  <2>3. QED
    BY <1>2, <2>1 DEF StreamsGiven
<1>6. MarkedOrInWindow(o)'
  BY <1>1, <1>2, <1>3 DEF ChildOf, MarkedOrInWindow
<1>7. pc'[o] \in {"forked", "started"}
  BY <1>1 DEF ChildOf
<1>8. QED
  BY <1>1, <1>2, <1>4, <1>5, <1>6, <1>7 DEF ChildOf

\* The streams of a child that has arranged them stay as long as their entries do.
LEMMA StreamsStay ==
  ASSUME NEW o \in Objects, ChildOf(o), Living(o), child[o] # "born",
         child'[o] # "born", child'[o] # "none",
         UNCHANGED <<bridge, asked, pc>>, fds'[Parent] = fds[Parent],
         \A f \in 0 .. 2 : fds'[o][f] = fds[o][f]
  PROVE  PlainStreams(o)' /\ StreamsGiven(o)' /\ pc'[o] \in {"forked", "started"}
<1>1. PlainStreams(o) /\ StreamsGiven(o) /\ pc[o] \in {"forked", "started"}
  BY DEF ChildOf, Living
<1>2. PlainStreams(o)'
  BY <1>1 DEF PlainStreams
<1>3. StreamsGiven(o)'
  <2>1. \A s \in Streams : Std[s] \in 0 .. 2
    BY DEF Streams, Std
  <2>2. QED
    BY <1>1, <2>1 DEF StreamsGiven, Given, Meant, Joined, ParentEnd
<1>4. QED
  BY <1>1, <1>2, <1>3

\* and exec,
LEMMA ExecKeepsChild ==
  ASSUME IInv, NEW o \in Objects, execvp(o)
  PROVE  ChildOf(o)' /\ Close(fds[o], {f \in OpenIn(fds[o]) : fds[o][f].cloexec}) \in Table
<1> DEFINE marked == {f \in OpenIn(fds[o]) : fds[o][f].cloexec}
<1>1. /\ child[o] = "ready" /\ child'[o] = "program"
      /\ UNCHANGED <<bridge, asked, pc, window>> /\ window'[o] = window[o]
      /\ fds' = [fds EXCEPT ![o] = Close(fds[o], marked)]
      /\ ChildOf(o) /\ TypeOK
  BY DEF execvp, TypeOK, IInv, ChildInv
<1>2. /\ Close(fds[o], marked) \in Table
      /\ \A f \in Fds : Close(fds[o], marked)[f] = IF f \in marked THEN Nothing ELSE fds[o][f]
  <2>1. fds[o] \in Table
    BY <1>1, EntriesAre
  <2> HIDE DEF marked
  <2>2. QED
    BY <2>1, CloseIs
<1>3. /\ fds'[Parent] = fds[Parent]
      /\ \A f \in Fds : fds'[o][f] = IF f \in marked THEN Nothing ELSE fds[o][f]
  BY <1>1, <1>2, OwnTable
<1>4. PlainStreams(o)' /\ StreamsGiven(o)' /\ pc'[o] \in {"forked", "started"}
  <2>1. Living(o)
    BY <1>1 DEF Living
  <2>2. \A f \in 0 .. 2 : f \in Fds /\ f \notin marked
    BY <1>1, <2>1, FdPlumbingAssumption DEF ChildOf, PlainStreams, Fds
  <2>3. \A f \in 0 .. 2 : fds'[o][f] = fds[o][f]
    BY <1>3, <2>2
  <2>4. QED
    BY <1>1, <1>3, <2>1, <2>3, StreamsStay
<1>5. OnlyWindow(o)'
  <2>1. SUFFICES ASSUME NEW f \in High, fds'[o][f] # Nothing
                 PROVE  fds'[o][f].ref \in window[o]
    BY <1>1 DEF OnlyWindow
  <2>2. f \notin marked /\ fds'[o][f] = fds[o][f] /\ fds[o][f] # Nothing /\ f \in Fds
    BY <1>3, <2>1 DEF High
  <2>3. ~fds[o][f].cloexec
    BY <2>2 DEF OpenIn
  <2>4. QED
    BY <1>1, <2>2, <2>3 DEF ChildOf, MarkedOrInWindow
<1>6. QED
  BY <1>1, <1>2, <1>4, <1>5 DEF ChildOf

\* and the exception that has the child go on instead of exec,
LEMMA GoesOnKeepsChild ==
  ASSUME IInv, NEW o \in Objects, exe_func(o) \/ Strays(o)
  PROVE  ChildOf(o)'
<1>1. /\ child[o] \in {"ready", "function"} /\ child'[o] \in {"function", "strayed"}
      /\ UNCHANGED <<fds, bridge, asked, pc>>
      /\ ChildOf(o)
  BY DEF exe_func, Strays, TypeOK, IInv, ChildInv
<1>2. Living(o)
  BY <1>1 DEF Living
<1>3. PlainStreams(o)' /\ StreamsGiven(o)' /\ pc'[o] \in {"forked", "started"}
  BY <1>1, <1>2, StreamsStay
<1>4. QED
  BY <1>1, <1>3 DEF ChildOf

\* and its end.
LEMMA ExitKeepsChild ==
  ASSUME IInv, NEW o \in Objects, Exit(o)
  PROVE  ChildOf(o)' /\ Close(fds[o], Fds) \in Table
         /\ \A f \in Fds : fds'[o][f] = Nothing
<1>1. /\ child[o] # "none" /\ child'[o] = "ended" /\ pc' = pc
      /\ fds' = [fds EXCEPT ![o] = Close(fds[o], Fds)]
      /\ ChildOf(o) /\ TypeOK
  BY DEF Exit, TypeOK, IInv, ChildInv
<1>2. /\ Close(fds[o], Fds) \in Table
      /\ \A f \in Fds : Close(fds[o], Fds)[f] = Nothing
  BY <1>1, EntriesAre, CloseIs
<1>3. \A f \in Fds : fds'[o][f] = Nothing
  BY <1>1, <1>2, OwnTable
<1>4. QED
  BY <1>1, <1>2, <1>3 DEF ChildOf, Living, High

-----------------------------------------------------------------------------
(* Every step *)

\* The action that NumbersStayTrue forbids anything else of.
KeepsNumbers ==
  \A o \in Objects, slot \in Slots :
    LET f == bridge[o][slot]
    IN  f # NoFd /\ bridge'[o][slot] = f => fds'[Parent][f] = fds[Parent][f]

\* The inductive invariant holds when the agent starts.
LEMMA InitIInv == Init => IInv
<1> SUFFICES ASSUME Init
             PROVE  IInv
  OBVIOUS
<1>1. 0 .. 2 \subseteq Fds /\ High \subseteq Fds /\ NoFd \notin Fds
      /\ \A f \in High : ~(f < 3) /\ \A g \in 0 .. 2 : g < 3
  BY FdPlumbingAssumption DEF Fds, High, NoFd
<1>2. \A f \in Fds : f < 3 => Inherit(f) \in Entries
  BY DEF Inherit, Entries, Refs, Ref, Processes, Fds
<1>3. Parent \in Processes /\ Objects \subseteq Processes /\ Parent \notin Objects
  BY FdPlumbingAssumption DEF Processes
<1>4. TypeOK
  <2>1. fds \in [Processes -> [Fds -> Entries \cup {Nothing}]]
    BY <1>2 DEF Init
  <2>2. /\ bridge \in [Objects -> [Slots -> Fds \cup {NoFd}]]
        /\ inherited \in [Objects -> [Slots -> Fds \cup {NoFd}]]
    BY DEF Init, EmptyBridge
  <2>3. fresh \in [Objects -> [stream : Streams \cup {Nothing}, open : Seq(Fds)]]
    BY DEF Init, NoOption
  <2>4. /\ asked \in [Objects -> [Streams -> Nat]] /\ options \in [Objects -> Nat]
        /\ \A o \in Objects :
             options[o] <= MaxOptions[o] /\ \A s \in Streams : asked[o][s] <= options[o]
    BY FdPlumbingAssumption DEF Init
  <2>5. /\ pc \in [Objects -> {"options", "marking", "forked", "started", "thrown", "unsupported"}]
        /\ child \in [Objects -> {"none", "born", "ready", "program", "function", "strayed", "ended"}]
        /\ window \in [Objects -> SUBSET Refs]
        /\ \A o \in Objects : fresh[o].open = <<>> <=> pc[o] # "marking"
    BY DEF Init, NoOption
  <2>6. \A o \in Objects : OpenIn(fds[o]) = {}
    BY <1>3 DEF Init, OpenIn
  <2>7. QED
    BY <2>1, <2>2, <2>3, <2>4, <2>5, <2>6 DEF TypeOK
<1>5. \A o \in Objects, k \in Keys : Held(o, k) = NoFd
  BY DEF Init, Held, EmptyBridge, NoOption
<1>6. HeldIsOpen /\ OneHolder
  BY <1>5 DEF HeldIsOpen, OneHolder
<1>7. /\ \A f \in 0 .. 2 : fds[Parent][f] = Inherit(f)
      /\ \A p \in Processes, f \in High : fds[p][f] = Nothing
  BY <1>1, <1>3 DEF Init
<1>8. StdOpen /\ OpenIsHeld
  BY <1>3, <1>7 DEF StdOpen, OpenIsHeld
<1>9. Resting /\ FreshOpen
  BY DEF Init, Resting, FreshOpen
<1>10. SecondRefs /\ FirstRefs
  <2>1. \A o \in Objects, s \in Streams :
          ChildEnd(bridge[o], s) = NoFd /\ ParentEnd(bridge[o], s) = NoFd /\ asked[o][s] = 0
    BY KeysAre DEF Init, ChildEnd, ParentEnd, EmptyBridge
  <2>2. QED
    BY <2>1 DEF SecondRefs, SecondOf, FirstRefs
<1>11. ChildInv
  BY <1>3, <1>7 DEF Init, ChildInv, ChildOf, Living
<1>12. QED
  BY <1>4, <1>6, <1>8, <1>9, <1>10, <1>11 DEF IInv, ParentInv

\* Steps of the parent's threads before they fork.
LEMMA OptionStep ==
  ASSUME IInv, NEW o \in Objects, NEW s \in Streams, pipe_cloexec(o, s) \/ OpenFile(o, s)
  PROVE  IInv' /\ KeepsNumbers
<1>1. /\ ParentInv' /\ fds' \in [Processes -> [Fds -> Entries \cup {Nothing}]]
      /\ \A x \in Objects : fds'[x] = fds[x]
      /\ \A f \in Fds : fds[Parent][f] # Nothing => fds'[Parent][f] = fds[Parent][f]
      /\ fresh' \in [Objects -> [stream : Streams \cup {Nothing}, open : Seq(Fds)]]
      /\ fresh'[o].open # <<>> /\ \A x \in Objects \ {o} : fresh'[x] = fresh[x]
  BY OpensKeeps DEF IInv
<1>2. /\ pc[o] = "options" /\ pc' = [pc EXCEPT ![o] = "marking"]
      /\ options[o] < MaxOptions[o] /\ options' = [options EXCEPT ![o] = @ + 1]
      /\ UNCHANGED <<bridge, inherited, asked, child, window>>
  BY DEF pipe_cloexec, OpenFile, MaySet, Opens
<1>3. \A x \in Objects, slot \in Slots :
        bridge[x][slot] # NoFd => fds'[Parent][bridge[x][slot]] = fds[Parent][bridge[x][slot]]
  BY <1>1, SlotsAreOpen DEF IInv, ParentInv, High
<1>4. ChildInv'
  <2>1. \A x \in Objects : Spared(x)
    <3>1. TAKE x \in Objects
    <3>2. pc[x] \in {"forked", "started"} => pc'[x] = pc[x]
      BY <1>2 DEF IInv, TypeOK
    <3>3. QED
      BY <1>1, <1>2, <1>3, <3>2, SparedIf
  <2>2. QED
    BY <2>1, SparedStays DEF IInv, ChildInv
<1>5. TypeOK'
  <2>1. TypeOK
    BY DEF IInv
  <2>2. /\ options' \in [Objects -> Nat]
        /\ \A x \in Objects : options[x] <= options'[x] /\ options'[x] <= MaxOptions[x]
    BY <1>2, <2>1, FdPlumbingAssumption DEF TypeOK
  <2>3. \A x \in Objects : \A q \in Streams : asked'[x][q] <= options'[x]
    BY <1>2, <2>1, <2>2 DEF TypeOK
  <2>4. pc' \in [Objects -> {"options", "marking", "forked", "started", "thrown", "unsupported"}]
    BY <1>2, <2>1 DEF TypeOK
  <2>5. \A x \in Objects : fresh'[x].open = <<>> <=> pc'[x] # "marking"
    BY <1>1, <1>2, <2>1 DEF TypeOK
  <2>6. \A x \in Objects : child'[x] \in {"none", "ended"} => OpenIn(fds'[x]) = {}
    BY <1>1, <1>2, <2>1 DEF TypeOK
  <2>7. QED
    BY <1>1, <1>2, <2>1, <2>2, <2>3, <2>4, <2>5, <2>6 DEF TypeOK
<1>6. KeepsNumbers
  BY <1>3 DEF KeepsNumbers
<1>7. QED
  BY <1>1, <1>4, <1>5, <1>6 DEF IInv

\* An fcntl keeps the invariant, and the numbers.
LEMMA MarkStep ==
  ASSUME IInv, NEW o \in Objects, set_clo_on_exec(o)
  PROVE  IInv' /\ KeepsNumbers
<1>1. /\ ParentInv' /\ fds' \in [Processes -> [Fds -> Entries \cup {Nothing}]]
      /\ \A x \in Objects : fds'[x] = fds[x]
      /\ \A x \in Objects, slot \in Slots :
           bridge[x][slot] # NoFd => fds'[Parent][bridge[x][slot]] = fds[Parent][bridge[x][slot]]
  BY MarkKeeps DEF IInv
<1>2. UNCHANGED <<bridge, inherited, fresh, asked, options, pc, child, window>>
  BY DEF set_clo_on_exec
<1>3. ChildInv'
  <2>1. \A x \in Objects : Spared(x)
    <3>1. TAKE x \in Objects
    <3>2. pc[x] \in {"forked", "started"} =>
            pc'[x] = pc[x] /\ bridge'[x] = bridge[x] /\ asked'[x] = asked[x]
      BY <1>2
    <3>3. \A slot \in Slots : bridge'[x] = bridge[x] /\ bridge[x][slot] # NoFd =>
            fds'[Parent][bridge[x][slot]] = fds[Parent][bridge[x][slot]]
      BY <1>1
    <3>4. inherited'[x] = inherited[x] /\ child'[x] = child[x] /\ window'[x] = window[x]
      BY <1>2
    <3>5. QED
      BY <1>1, <3>2, <3>3, <3>4, SparedIf
  <2>2. QED
    BY <2>1, SparedStays DEF IInv, ChildInv
<1>4. TypeOK'
  BY <1>1, <1>2 DEF IInv, TypeOK
<1>5. QED
  BY <1>1, <1>3, <1>4 DEF IInv, KeepsNumbers

\* So does the assignment to the bridge,
LEMMA AttachStep ==
  ASSUME IInv, NEW o \in Objects, Attach(o)
  PROVE  IInv' /\ KeepsNumbers
<1>1. /\ ParentInv' /\ fds' \in [Processes -> [Fds -> Entries \cup {Nothing}]]
      /\ bridge' \in [Objects -> [Slots -> Fds \cup {NoFd}]]
      /\ \A x \in Objects : fds'[x] = fds[x]
      /\ \A x \in Objects, slot \in Slots :
           bridge'[x][slot] # NoFd => fds'[Parent][bridge'[x][slot]] = fds[Parent][bridge'[x][slot]]
  BY AttachKeeps DEF IInv
<1>2. /\ pc[o] = "marking" /\ pc' = [pc EXCEPT ![o] = "options"]
      /\ fresh' = [fresh EXCEPT ![o] = NoOption]
      /\ asked' = [asked EXCEPT ![o][fresh[o].stream] = options[o]]
      /\ UNCHANGED <<inherited, options, child, window>>
      /\ \A x \in Objects \ {o} : bridge'[x] = bridge[x] /\ asked'[x] = asked[x] /\ pc'[x] = pc[x]
  BY DEF Attach, IInv, TypeOK
<1>3. ChildInv'
  <2>1. \A x \in Objects : Spared(x)
    <3>1. TAKE x \in Objects
    <3>2. pc[x] \in {"forked", "started"} =>
            pc'[x] = pc[x] /\ bridge'[x] = bridge[x] /\ asked'[x] = asked[x]
      BY <1>2
    <3>3. \A slot \in Slots : bridge'[x] = bridge[x] /\ bridge[x][slot] # NoFd =>
            fds'[Parent][bridge[x][slot]] = fds[Parent][bridge[x][slot]]
      BY <1>1
    <3>4. inherited'[x] = inherited[x] /\ child'[x] = child[x] /\ window'[x] = window[x]
      BY <1>2
    <3>5. QED
      BY <1>1, <3>2, <3>3, <3>4, SparedIf
  <2>2. QED
    BY <2>1, SparedStays DEF IInv, ChildInv
<1>4. TypeOK'
  <2>1. TypeOK
    BY DEF IInv
  <2>2. fresh' \in [Objects -> [stream : Streams \cup {Nothing}, open : Seq(Fds)]]
    BY <1>2, <2>1 DEF TypeOK, NoOption
  <2>3. asked' \in [Objects -> [Streams -> Nat]]
    BY <1>2, <2>1 DEF TypeOK
  <2>4. \A x \in Objects : \A q \in Streams : asked'[x][q] <= options[x]
    BY <1>2, <2>1 DEF TypeOK
  <2>5. pc' \in [Objects -> {"options", "marking", "forked", "started", "thrown", "unsupported"}]
    BY <1>2, <2>1 DEF TypeOK
  <2>6. \A x \in Objects : fresh'[x].open = <<>> <=> pc'[x] # "marking"
    BY <1>2, <2>1 DEF TypeOK, NoOption
  <2>7. \A x \in Objects : child'[x] \in {"none", "ended"} => OpenIn(fds'[x]) = {}
    BY <1>1, <1>2, <2>1 DEF TypeOK
  <2>8. QED
    BY <1>1, <1>2, <2>1, <2>2, <2>3, <2>4, <2>5, <2>6, <2>7 DEF TypeOK
<1>5. KeepsNumbers
  BY <1>1 DEF KeepsNumbers
<1>6. QED
  BY <1>1, <1>3, <1>4, <1>5 DEF IInv

\* The constructor or the fork fails.
LEMMA FailStep ==
  ASSUME IInv, NEW o \in Objects, OpenFails(o) \/ Unsupported(o) \/ ForkFails(o)
  PROVE  IInv' /\ KeepsNumbers
<1>1. /\ pc[o] = "options"
      /\ pc' = [pc EXCEPT ![o] = "thrown"] \/ pc' = [pc EXCEPT ![o] = "unsupported"]
      /\ UNCHANGED <<fds, bridge, inherited, fresh, asked, options, child, window>>
  BY DEF OpenFails, Unsupported, ForkFails, MaySet
<1>2. pc'[o] \in {"thrown", "unsupported"} /\ \A x \in Objects \ {o} : pc'[x] = pc[x]
  BY <1>1 DEF IInv, TypeOK
<1>3. ParentInv'
  BY <1>1, <1>2, QuietKeeps DEF IInv
<1>4. ChildInv'
  <2>1. \A x \in Objects : Spared(x)
    BY <1>1, <1>2 DEF Spared
  <2>2. QED
    BY <2>1, SparedStays DEF IInv, ChildInv
<1>5. TypeOK'
  <2>1. pc' \in [Objects -> {"options", "marking", "forked", "started", "thrown", "unsupported"}]
    BY <1>1 DEF IInv, TypeOK
  <2>2. \A x \in Objects : fresh'[x].open = <<>> <=> pc'[x] # "marking"
    BY <1>1, <1>2 DEF IInv, TypeOK
  <2>3. QED
    BY <1>1, <2>1, <2>2 DEF IInv, TypeOK
<1>6. KeepsNumbers
  BY <1>1 DEF KeepsNumbers
<1>7. QED
  BY <1>3, <1>4, <1>5, <1>6 DEF IInv

\* fork,
LEMMA ForkStep ==
  ASSUME IInv, NEW o \in Objects, fork(o)
  PROVE  IInv' /\ KeepsNumbers
<1>1. /\ pc[o] = "options" /\ pc' = [pc EXCEPT ![o] = "forked"]
      /\ child' = [child EXCEPT ![o] = "born"]
      /\ inherited' = [inherited EXCEPT ![o] = bridge[o]]
      /\ fds' = [fds EXCEPT ![o] = fds[Parent]]
      /\ UNCHANGED <<bridge, fresh, asked, options>>
      /\ \A x \in Objects \ {o} : /\ pc'[x] = pc[x] /\ child'[x] = child[x]
                                  /\ inherited'[x] = inherited[x] /\ window'[x] = window[x]
      /\ pc'[o] = "forked"
  BY DEF fork, IInv, TypeOK
<1>2. /\ fds' \in [Processes -> [Fds -> Entries \cup {Nothing}]]
      /\ fds'[Parent] = fds[Parent] /\ \A x \in Objects \ {o} : fds'[x] = fds[x]
  BY <1>1, EntriesAre, OwnTable DEF IInv
<1>3. ParentInv'
  <2>1. \A x \in Objects : /\ pc'[x] = "started" <=> pc[x] = "started"
                           /\ pc'[x] = "marking" <=> pc[x] = "marking"
    BY <1>1
  <2>2. QED
    BY <1>1, <1>2, <2>1, QuietKeeps DEF IInv
<1>4. ChildInv'
  <2>1. \A x \in Objects \ {o} : Spared(x)
    BY <1>1, <1>2 DEF Spared
  <2>2. QED
    BY <2>1, SparedStays, ForkKeepsChild DEF IInv, ChildInv
<1>5. TypeOK'
  <2>1. TypeOK
    BY DEF IInv
  <2>2. window' \in [Objects -> SUBSET Refs]
    <3> DEFINE unmarked == UNION {{fresh[x].open[i] : i \in Unmarked(x)} : x \in Objects}
    <3>1. window' = [window EXCEPT ![o] = {fds[Parent][f].ref : f \in unmarked}]
      BY DEF fork
    <3>2. SUFFICES ASSUME NEW f \in unmarked
                   PROVE  fds[Parent][f].ref \in Refs
      BY <2>1, <3>1 DEF TypeOK
    <3>3. PICK x \in Objects : \E i \in Unmarked(x) : f = fresh[x].open[i]
      OBVIOUS
    <3>4. PICK i \in DOMAIN fresh[x].open : f = fresh[x].open[i]
      BY <3>3 DEF Unmarked
    <3>5. pc[x] = "marking"
      BY <2>1, <3>4 DEF TypeOK
    <3>6. fds[Parent][f] # Nothing /\ f \in Fds
      <4>1. CASE \E g \in High : fresh[x].open = <<g>> /\ fds[Parent][g] # Nothing
        BY <3>4, <4>1 DEF High
      <4>2. CASE \E g, h \in High : /\ fresh[x].open = <<g, h>>
                                    /\ fds[Parent][g] # Nothing /\ fds[Parent][h] # Nothing
        BY <3>4, <4>2 DEF High
      <4>3. QED
        BY <2>1, <3>5, <4>1, <4>2, FreshIsHeld DEF IInv, ParentInv
    <3>7. QED
      BY <2>1, <3>6, EntriesAre
  <2>3. inherited' \in [Objects -> [Slots -> Fds \cup {NoFd}]]
    BY <1>1, <2>1 DEF TypeOK
  <2>4. /\ pc' \in [Objects -> {"options", "marking", "forked", "started", "thrown", "unsupported"}]
        /\ child' \in [Objects -> {"none", "born", "ready", "program", "function", "strayed", "ended"}]
    BY <1>1, <2>1 DEF TypeOK
  <2>5. \A x \in Objects : fresh'[x].open = <<>> <=> pc'[x] # "marking"
    BY <1>1, <2>1 DEF TypeOK
  <2>6. \A x \in Objects : child'[x] \in {"none", "ended"} => OpenIn(fds'[x]) = {}
    <3>1. child'[o] = "born"
      BY <1>1, <2>1 DEF TypeOK
    <3>2. QED
      BY <1>1, <1>2, <2>1, <3>1 DEF TypeOK
  <2>7. QED
    BY <1>1, <1>2, <2>1, <2>2, <2>3, <2>4, <2>5, <2>6 DEF TypeOK
<1>6. KeepsNumbers
  BY <1>1, <1>2 DEF KeepsNumbers
<1>7. QED
  BY <1>3, <1>4, <1>5, <1>6 DEF IInv

\* and the closing after it.
LEMMA ParentClosesStep ==
  ASSUME IInv, NEW o \in Objects, ParentCloses(o)
  PROVE  IInv' /\ KeepsNumbers
<1>1. /\ ParentInv' /\ fds' \in [Processes -> [Fds -> Entries \cup {Nothing}]]
      /\ \A x \in Objects : fds'[x] = fds[x]
      /\ \A x \in Objects, slot \in Slots :
           bridge'[x][slot] # NoFd =>
             /\ bridge'[x][slot] = bridge[x][slot]
             /\ fds'[Parent][bridge[x][slot]] = fds[Parent][bridge[x][slot]]
  BY ParentClosesKeeps DEF IInv
<1>2. /\ pc[o] = "forked" /\ pc' = [pc EXCEPT ![o] = "started"]
      /\ bridge' = [bridge EXCEPT ![o] = Cleared(bridge[o], SecondSlots)]
      /\ UNCHANGED <<inherited, fresh, asked, options, child, window>>
      /\ pc'[o] = "started" /\ \A x \in Objects \ {o} : pc'[x] = pc[x]
  BY DEF ParentCloses, IInv, TypeOK
<1>3. ChildInv'
  <2>1. \A x \in Objects, slot \in Slots \ SecondSlots : bridge'[x][slot] = bridge[x][slot]
    BY <1>2 DEF IInv, TypeOK, Cleared
  <2>2. \A x \in Objects : Spared(x)
    <3>1. TAKE x \in Objects
    <3>2. \A slot \in Slots \ SecondSlots : bridge[x][slot] # NoFd =>
            fds'[Parent][bridge[x][slot]] = fds[Parent][bridge[x][slot]]
      BY <1>1, <2>1
    <3>3. inherited'[x] = inherited[x] /\ child'[x] = child[x] /\ window'[x] = window[x]
          /\ asked'[x] = asked[x] /\ (pc[x] \in {"forked", "started"} => pc'[x] \in {"forked", "started"})
      BY <1>2
    <3>4. QED
      BY <1>1, <2>1, <3>2, <3>3, SparedIf
  <2>3. QED
    BY <2>2, SparedStays DEF IInv, ChildInv
<1>4. TypeOK'
  <2>1. TypeOK
    BY DEF IInv
  <2>2. Cleared(bridge[o], SecondSlots) \in [Slots -> Fds \cup {NoFd}]
    BY <2>1 DEF Cleared, TypeOK
  <2>3. bridge' \in [Objects -> [Slots -> Fds \cup {NoFd}]]
    BY <1>2, <2>1, <2>2 DEF TypeOK
  <2>4. /\ pc' \in [Objects -> {"options", "marking", "forked", "started", "thrown", "unsupported"}]
        /\ \A x \in Objects : fresh'[x].open = <<>> <=> pc'[x] # "marking"
    BY <1>2, <2>1 DEF TypeOK
  <2>5. \A x \in Objects : child'[x] \in {"none", "ended"} => OpenIn(fds'[x]) = {}
    BY <1>1, <1>2, <2>1 DEF TypeOK
  <2>6. QED
    BY <1>1, <1>2, <2>1, <2>3, <2>4, <2>5 DEF TypeOK
<1>5. KeepsNumbers
  BY <1>1 DEF KeepsNumbers
<1>6. QED
  BY <1>1, <1>3, <1>4, <1>5 DEF IInv

\* A child changes its own table and nothing else of its parent or its siblings.
LEMMA ChildStep ==
  ASSUME IInv, NEW o \in Objects,
         Arrange(o) \/ SysconfFails(o) \/ execvp(o) \/ exe_func(o) \/ Strays(o) \/ Exit(o)
  PROVE  IInv' /\ KeepsNumbers
<1>1. /\ ChildOf(o)'
      /\ fds' = fds \/ \E table \in Table : fds' = [fds EXCEPT ![o] = table]
  <2>1. CASE Arrange(o) \/ SysconfFails(o)
    BY <2>1, ArrangeKeepsChild
  <2>2. CASE execvp(o)
    BY <2>2, ExecKeepsChild DEF execvp
  <2>3. CASE exe_func(o) \/ Strays(o)
    BY <2>3, GoesOnKeepsChild DEF exe_func, Strays
  <2>4. CASE Exit(o)
    BY <2>4, ExitKeepsChild DEF Exit
  <2>5. QED
    BY <2>1, <2>2, <2>3, <2>4
<1>2. /\ UNCHANGED <<bridge, fresh, asked, options, pc, window>>
      /\ inherited' = inherited \/ inherited' = [inherited EXCEPT ![o] = EmptyBridge]
      /\ child[o] # "none"
      /\ \E here \in {"ready", "program", "function", "strayed", "ended"} :
           child' = [child EXCEPT ![o] = here]
  BY DEF Arrange, SysconfFails, execvp, exe_func, Strays, Exit
<1>3. /\ fds' \in [Processes -> [Fds -> Entries \cup {Nothing}]]
      /\ fds'[Parent] = fds[Parent] /\ \A x \in Objects \ {o} : fds'[x] = fds[x]
  <2>1. CASE fds' = fds
    BY <2>1 DEF IInv, TypeOK
  <2>2. CASE \E table \in Table : fds' = [fds EXCEPT ![o] = table]
    BY <2>2, OwnTable DEF IInv
  <2>3. QED
    BY <1>1, <2>1, <2>2
<1>4. /\ inherited' \in [Objects -> [Slots -> Fds \cup {NoFd}]]
      /\ child' \in [Objects -> {"none", "born", "ready", "program", "function", "strayed", "ended"}]
      /\ \A x \in Objects \ {o} : inherited'[x] = inherited[x] /\ child'[x] = child[x]
      /\ child'[o] # "none"
  <2>1. EmptyBridge \in [Slots -> Fds \cup {NoFd}]
    BY DEF EmptyBridge
  <2>2. /\ inherited' \in [Objects -> [Slots -> Fds \cup {NoFd}]]
        /\ \A x \in Objects \ {o} : inherited'[x] = inherited[x]
    <3>1. inherited \in [Objects -> [Slots -> Fds \cup {NoFd}]]
      BY DEF IInv, TypeOK
    <3>2. CASE inherited' = inherited
      BY <3>1, <3>2
    <3>3. CASE inherited' = [inherited EXCEPT ![o] = EmptyBridge]
      BY <2>1, <3>1, <3>3
    <3>4. QED
      BY <1>2, <3>2, <3>3
  <2>3. /\ child' \in [Objects -> {"none", "born", "ready", "program", "function", "strayed", "ended"}]
        /\ \A x \in Objects \ {o} : child'[x] = child[x]
        /\ child'[o] # "none"
    BY <1>2 DEF IInv, TypeOK
  <2>4. QED
    BY <2>2, <2>3
<1>5. ParentInv'
  BY <1>2, <1>3, QuietKeeps DEF IInv
<1>6. ChildInv'
  <2>1. \A x \in Objects \ {o} : Spared(x)
    BY <1>2, <1>3, <1>4 DEF Spared
  <2>2. QED
    BY <1>1, <2>1, SparedStays DEF IInv, ChildInv
<1>7. TypeOK'
  <2>1. TypeOK
    BY DEF IInv
  <2>2. child'[o] = "ended" => OpenIn(fds'[o]) = {}
    <3>1. child'[o] = "ended" => Exit(o)
      BY <2>1 DEF Arrange, SysconfFails, execvp, exe_func, Strays, TypeOK
    <3>2. QED
      BY <3>1, ExitKeepsChild DEF OpenIn
  <2>3. \A x \in Objects : child'[x] \in {"none", "ended"} => OpenIn(fds'[x]) = {}
    BY <1>3, <1>4, <2>1, <2>2 DEF TypeOK
  <2>4. QED
    BY <1>2, <1>3, <1>4, <2>1, <2>3 DEF TypeOK
<1>8. KeepsNumbers
  BY <1>2, <1>3 DEF KeepsNumbers
<1>9. QED
  BY <1>5, <1>6, <1>7, <1>8 DEF IInv

\* Every step keeps the invariant, and the numbers.
LEMMA NextIInv == IInv /\ [Next]_vars => IInv' /\ KeepsNumbers
<1> SUFFICES ASSUME IInv, [Next]_vars
             PROVE  IInv' /\ KeepsNumbers
  OBVIOUS
<1>1. CASE UNCHANGED vars
  <2>1. UNCHANGED <<fds, bridge, inherited, fresh, asked, options, pc, child, window>>
    BY <1>1 DEF vars
  <2>2. TypeOK'
    BY <2>1 DEF IInv, TypeOK
  <2>3. ParentInv'
    BY <2>1, QuietKeeps DEF IInv
  <2>4. ChildInv'
    <3>1. \A x \in Objects : Spared(x)
      BY <2>1 DEF Spared
    <3>2. QED
      BY <3>1, SparedStays DEF IInv, ChildInv
  <2>5. QED
    BY <2>1, <2>2, <2>3, <2>4 DEF IInv, KeepsNumbers
<1>2. ASSUME NEW o \in Objects, NEW s \in Streams, pipe_cloexec(o, s) \/ OpenFile(o, s)
      PROVE  IInv' /\ KeepsNumbers
  BY <1>2, OptionStep
<1>3. ASSUME NEW o \in Objects, OpenFails(o) \/ Unsupported(o) \/ ForkFails(o)
      PROVE  IInv' /\ KeepsNumbers
  BY <1>3, FailStep
<1>4. ASSUME NEW o \in Objects, set_clo_on_exec(o)
      PROVE  IInv' /\ KeepsNumbers
  BY <1>4, MarkStep
<1>5. ASSUME NEW o \in Objects, Attach(o)
      PROVE  IInv' /\ KeepsNumbers
  BY <1>5, AttachStep
<1>6. ASSUME NEW o \in Objects, fork(o)
      PROVE  IInv' /\ KeepsNumbers
  BY <1>6, ForkStep
<1>7. ASSUME NEW o \in Objects, ParentCloses(o)
      PROVE  IInv' /\ KeepsNumbers
  BY <1>7, ParentClosesStep
<1>8. ASSUME NEW o \in Objects,
             Arrange(o) \/ SysconfFails(o) \/ execvp(o) \/ exe_func(o) \/ Strays(o) \/ Exit(o)
      PROVE  IInv' /\ KeepsNumbers
  BY <1>8, ChildStep
<1>9. QED
  BY <1>1, <1>2, <1>3, <1>4, <1>5, <1>6, <1>7, <1>8 DEF Next

-----------------------------------------------------------------------------
(* What the invariant means *)

\* The invariant holds always.
LEMMA IInvIsInvariant == Spec => []IInv
<1>1. Init => IInv
  BY InitIInv
<1>2. IInv /\ [Next]_vars => IInv'
  BY NextIInv
<1>3. QED
  BY <1>1, <1>2, PTL DEF Spec

\* Owners is the set of those who hold a descriptor.
LEMMA OwnersHold ==
  ASSUME NEW f \in High, NEW own
  PROVE  own \in Owners(f) <=>
           \E o \in Objects, k \in Keys : own = <<o, k>> /\ Held(o, k) = f
<1>1. NoFd # f
  BY DEF High, Fds, NoFd
<1>2. \A k \in Keys \ Slots : k \in {"fresh"} \X {1, 2}
  BY DEF Keys
<1>3. \A k \in {"fresh"} \X {1, 2} : k \in Keys /\ k \notin Slots
  BY DEF Keys, Slots
<1>4. \A k \in Slots : k \in Keys
  BY DEF Keys
<1>5. ASSUME own \in Owners(f)
      PROVE  \E o \in Objects, k \in Keys : own = <<o, k>> /\ Held(o, k) = f
  <2>1. CASE own \in {x \in Objects \X Slots : bridge[x[1]][x[2]] = f}
    <3>1. /\ own[1] \in Objects /\ own[2] \in Slots /\ own = <<own[1], own[2]>>
          /\ bridge[own[1]][own[2]] = f
      BY <2>1
    <3>2. QED
      BY <1>4, <3>1 DEF Held
  <2>2. CASE own \in {x \in Objects \X ({"fresh"} \X {1, 2}) :
                        LET i == x[2][2]
                        IN  i \in DOMAIN fresh[x[1]].open /\ fresh[x[1]].open[i] = f}
    <3>1. /\ own[1] \in Objects /\ own[2] \in {"fresh"} \X {1, 2} /\ own = <<own[1], own[2]>>
          /\ own[2][2] \in DOMAIN fresh[own[1]].open /\ fresh[own[1]].open[own[2][2]] = f
      BY <2>2
    <3>2. QED
      BY <1>3, <3>1 DEF Held
  <2>3. QED
    BY <1>5, <2>1, <2>2 DEF Owners
<1>6. ASSUME NEW o \in Objects, NEW k \in Keys, Held(o, k) = f
      PROVE  <<o, k>> \in Owners(f)
  <2>1. CASE k \in Slots
    <3>1. <<o, k>> \in {x \in Objects \X Slots : bridge[x[1]][x[2]] = f}
      BY <1>6, <2>1 DEF Held
    <3>2. QED
      BY <3>1 DEF Owners
  <2>2. CASE k \notin Slots
    <3>1. k[2] \in DOMAIN fresh[o].open /\ fresh[o].open[k[2]] = f
      BY <1>1, <1>6, <2>2 DEF Held
    <3>2. <<o, k>> \in {x \in Objects \X ({"fresh"} \X {1, 2}) :
                          LET i == x[2][2]
                          IN  i \in DOMAIN fresh[x[1]].open /\ fresh[x[1]].open[i] = f}
      BY <1>2, <2>2, <3>1
    <3>3. QED
      BY <3>2 DEF Owners
  <2>3. QED
    BY <2>1, <2>2
<1>7. QED
  BY <1>5, <1>6

\* The five properties follow from the invariant.
LEMMA InvOneOwner == IInv => OneOwner
<1> SUFFICES ASSUME IInv, NEW f \in High
             PROVE  Cardinality(Owners(f)) = IF fds[Parent][f] = Nothing THEN 0 ELSE 1
  BY DEF OneOwner, High
<1>1. NoFd # f
  BY DEF High, Fds, NoFd
<1>2. CASE fds[Parent][f] = Nothing
  <2>1. \A own : own \notin Owners(f)
    BY <1>1, <1>2, OwnersHold DEF IInv, ParentInv, HeldIsOpen
  <2>2. Owners(f) = {}
    BY <2>1
  <2>3. QED
    BY <1>2, <2>2, FS_EmptySet
<1>3. CASE fds[Parent][f] # Nothing
  <2>1. PICK o \in Objects, k \in Keys : Held(o, k) = f
    BY <1>3 DEF IInv, ParentInv, OpenIsHeld
  <2>2. <<o, k>> \in Owners(f)
    BY <2>1, OwnersHold
  <2>3. \A own \in Owners(f) : own = <<o, k>>
    <3>1. TAKE own \in Owners(f)
    <3>2. PICK x \in Objects, q \in Keys : own = <<x, q>> /\ Held(x, q) = f
      BY OwnersHold
    <3>3. QED
      BY <1>1, <2>1, <3>2 DEF IInv, ParentInv, OneHolder
  <2>4. Owners(f) = {<<o, k>>}
    BY <2>2, <2>3
  <2>5. QED
    BY <1>3, <2>4, FS_Singleton
<1>4. QED
  BY <1>2, <1>3

LEMMA InvStreams == IInv => StreamsAsAsked
<1> SUFFICES ASSUME IInv, NEW o \in Objects, NEW s \in Streams,
                    child[o] \in {"ready", "program", "function", "strayed"}
             PROVE  /\ fds[o][Std[s]] # Nothing
                    /\ LET ref == fds[o][Std[s]].ref
                       IN  IF asked[o][s] = 0 THEN ref = Inherit(Std[s]).ref
                           ELSE /\ ref.by = o /\ ref.n = asked[o][s]
                                /\ s # "input" => ref.end \in {"w", "file"}
  BY DEF StreamsAsAsked
<1>1. StreamsGiven(o) /\ Given(o, s) = Std[s]
  BY DEF IInv, ChildInv, ChildOf, Living, Given
<1>2. \A r \in Meant(o, s) : r.by = o /\ r.n = asked[o][s] /\ r.end \in {"w", "file"}
  BY DEF Meant, Ref
<1>3. QED
  BY <1>1, <1>2 DEF StreamsGiven

LEMMA InvJoined == IInv => PipesAreJoined
<1> SUFFICES ASSUME IInv
             PROVE  PipesAreJoined
  OBVIOUS
<1>1. ASSUME NEW o \in Objects, NEW s \in {"output", "error"},
             fds[o][Std[s]] # Nothing, child[o] # "born", fds[o][Std[s]].ref.end = "w"
      PROVE  LET end == <<"first", Peer[s]>>
                 f == bridge[o][end]
             IN  /\ f # NoFd /\ fds[Parent][f].ref = Ref(o, asked[o][s], "r")
                 /\ HasFile(o, end) <=> s = "output"
  <2>1. s \in Streams /\ Std[s] \in Fds
    BY FdPlumbingAssumption DEF Streams, Std, Fds
  <2>2. Living(o)
    BY <1>1, <2>1 DEF IInv, TypeOK, OpenIn, Living
  <2>3. StreamsGiven(o) /\ Given(o, s) = Std[s]
    BY <1>1, <2>2 DEF IInv, ChildInv, ChildOf, Given
  <2>4. Joined(o, s)
    BY <1>1, <2>1, <2>3 DEF StreamsGiven
  <2>5. "r" \in Modes[Peer[s]] <=> s = "output"
    BY DEF Modes, Peer, Streams
  <2>6. QED
    BY <2>4, <2>5 DEF Joined, ParentEnd, HasFile, Ref
<1>2. ASSUME NEW o \in Objects, NEW f \in Fds,
             pc[o] = "started", fds[Parent][f] # Nothing, fds[Parent][f].ref.by = o
      PROVE  fds[Parent][f].ref.end = "r"
  <2>1. f \in High
    <3>1. \A g \in 0 .. 2 : fds[Parent][g].ref.by = Parent
      BY DEF IInv, ParentInv, StdOpen, Inherit, Ref
    <3>2. QED
      BY <1>2, <3>1, FdPlumbingAssumption DEF High
  <2>2. PICK x \in Objects, k \in Keys : Held(x, k) = f
    BY <1>2, <2>1 DEF IInv, ParentInv, OpenIsHeld
  <2>3. f # NoFd
    BY <2>1 DEF High, Fds, NoFd
  <2>4. CASE k \notin Slots
    <3>1. fresh[x].open # <<>>
      BY <2>2, <2>3, <2>4 DEF Held
    <3>2. pc[x] = "marking"
      BY <3>1 DEF IInv, TypeOK
    <3>3. fds[Parent][f].ref.by = x
      <4>1. k \in {<<"fresh", 1>>, <<"fresh", 2>>}
        BY <2>4, KeysAre
      <4>2. QED
        <5>1. CASE \E g \in High :
                     /\ Held(x, <<"fresh", 1>>) = g /\ Held(x, <<"fresh", 2>>) = NoFd
                     /\ fds[Parent][g].ref = Ref(x, options[x], "file")
          BY <2>2, <2>3, <4>1, <5>1 DEF Ref
        <5>2. CASE \E g, h \in High :
                     /\ Held(x, <<"fresh", 1>>) = g /\ Held(x, <<"fresh", 2>>) = h
                     /\ fds[Parent][g].ref = Ref(x, options[x], "r")
                     /\ fds[Parent][h].ref = Ref(x, options[x], "w")
          BY <2>2, <4>1, <5>2 DEF Ref
        <5>3. QED
          BY <3>2, <5>1, <5>2, FreshIsHeld DEF IInv, ParentInv
    <3>4. QED
      BY <1>2, <3>2, <3>3
  <2>5. CASE k \in Slots
    <3>1. bridge[x][k] = f
      BY <2>2, <2>5 DEF Held
    <3>2. PICK s \in Streams : k = <<"second", s>> \/ k = <<"first", Peer[s]>>
      <4>1. PICK q \in Streams : k = <<"second", q>> \/ k = <<"first", q>>
        BY <2>5 DEF Slots
      <4>2. Peer[q] \in Streams /\ Peer[Peer[q]] = q
        BY KeysAre
      <4>3. QED
        BY <4>1, <4>2
    <3>3. CASE k = <<"second", s>>
      <4>1. /\ ChildEnd(bridge[x], s) = f /\ pc[x] # "started"
            /\ fds[Parent][f].ref \in Meant(x, s)
        BY <2>3, <3>1, <3>3 DEF IInv, ParentInv, SecondRefs, SecondOf, ChildEnd
      <4>2. fds[Parent][f].ref.by = x
        BY <4>1 DEF Meant, Ref
      <4>3. QED
        BY <1>2, <4>1, <4>2
    <3>4. CASE k = <<"first", Peer[s]>>
      BY <2>3, <3>1, <3>4 DEF IInv, ParentInv, FirstRefs, ParentEnd
    <3>5. QED
      BY <3>2, <3>3, <3>4
  <2>6. QED
    BY <2>4, <2>5
<1>3. QED
  BY <1>1, <1>2 DEF PipesAreJoined

LEMMA InvLeaks == IInv => ProgramsLeakInWindow
BY DEF IInv, ChildInv, ChildOf, OnlyWindow, ProgramsLeakInWindow, High

-----------------------------------------------------------------------------
(* The theorems *)

\* The types, and that a child that has ended holds no descriptor, for any
\* objects, any options and a table of any size.
THEOREM TypeCorrect == Spec => []TypeOK
<1>1. IInv => TypeOK
  BY DEF IInv
<1>2. QED
  BY <1>1, IInvIsInvariant, PTL

\* Each descriptor of the parent beyond its streams has one owner: what an
\* option replaces is closed once (BaseEed::input, output, error), and what
\* close_fds closes belongs to nobody else.
THEOREM DescriptorsHaveOneOwner == Spec => []OneOwner
BY InvOneOwner, IInvIsInvariant, PTL

\* The numbers that a bridge remembers never come to mean another file, in
\* whatever order the threads open and close.
THEOREM NumbersAreNotReused == Spec => NumbersStayTrue
<1>1. IInv /\ [Next]_vars => [KeepsNumbers]_vars
  BY NextIInv
<1>2. [][KeepsNumbers]_vars => NumbersStayTrue
  BY PTL DEF KeepsNumbers, NumbersStayTrue
<1>3. QED
  BY <1>1, <1>2, IInvIsInvariant, PTL DEF Spec

\* Each stream of a child is what the last option for it opened, or else the
\* parent's: the dup2 and close calls of execute_child never mix them up, and
\* output and error are the ends of their pipes to write to.
THEOREM ChildrenGetTheirStreams == Spec => []StreamsAsAsked
BY InvStreams, IInvIsInvariant, PTL

\* A child that writes to a pipe has a parent that holds the end to read from,
\* with a FILE for the output and none for the error; and a started object holds
\* nothing of its pipes but those ends, so that the end of file arrives.
THEOREM ParentsHoldTheOtherEnd == Spec => []PipesAreJoined
BY InvJoined, IInvIsInvariant, PTL

\* pipe_cloexec leaks into the programs of other objects only what was not yet
\* marked when they were forked.
THEOREM LeaksAreOfTheWindow == Spec => []ProgramsLeakInWindow
BY InvLeaks, IInvIsInvariant, PTL
=============================================================================
