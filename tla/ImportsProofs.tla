--------------------------- MODULE ImportsProofs ---------------------------
(***************************************************************************)
(* Proofs about Imports, for any files, any number of cells, machines and  *)
(* values: which imports are being evaluated is known exactly, and what    *)
(* was once found out about an import stays.  For programs that do not     *)
(* collect garbage in the two situations that the code gets wrong, no      *)
(* machine loses what it holds while it waits, and no file is evaluated    *)
(* inside its own evaluation.                                              *)
(***************************************************************************)
EXTENDS Imports, SequenceTheorems, TLAPS

----------------------------------------------------------------------------
(* The invariants *)

\* One machine for each waiting one and one that runs, one set of roots for each
\* that waits
Stacks ==
    /\ Len(machines) > 0 /\ Len(external) = Len(machines) - 1
    /\ Running.waiting = <<>>

\* No import is waited for twice
WaitedOnce ==
    \A i, j \in 1 .. Len(machines) :
        \A a \in 1 .. Len(machines[i].waiting), b \in 1 .. Len(machines[j].waiting) :
            machines[i].waiting[a] = machines[j].waiting[b] => i = j /\ a = b

\* nor is one whose value is known
Unknown == \A h \in evaluating : cached[h] = None

MarksInv == TypeOK /\ Stacks /\ WaitedOnce /\ EvaluatingExact /\ Unknown

\* A program for which the roots that are pushed are enough.  When the value of a
\* file is an import, the outer one waits unprotected; when a machine waits, the
\* fields it cached are unprotected.  Both matter only if garbage is collected.
Tame(p) == p.collects => ~p.chains /\ ~(p.imports /\ p.caches)

\* What the program does not do has no effects
AsProgram ==
    /\ program \in Program /\ Tame(program)
    /\ ~program.imports => Len(machines) = 1 /\ \A h \in Handle : file[h] = None
    /\ ~program.caches => \A i \in 1 .. Len(machines) : machines[i].cache = {}

\* Cells that are there lead to cells that are there
ClosedHeap == \A h \in live : Edges(h) \subseteq live

\* A handle that was not handed out has no value
UnusedBlank == \A h \in Handle \ used : cached[h] = None

\* A file has one import
OneImport == \A g, h \in live : file[g] # None /\ file[g] = file[h] => g = h

WaitingImports == \A h \in Waiting : file[h] # None

\* What a waiting machine needs is among the external roots
Rooted ==
    program.collects =>
        \A i \in 1 .. Len(external) :
            machines[i].held \cup Elements(machines[i].waiting) \subseteq external[i]

IInv == /\ AsProgram /\ ClosedHeap /\ UnusedBlank /\ OneImport /\ WaitingImports /\ Rooted
        /\ ImportersProtected /\ CachedFieldsLive

----------------------------------------------------------------------------
(* Sequences of machines and of roots *)

LEMMA FrontFacts ==
    ASSUME NEW S, NEW s \in Seq(S), Len(s) > 0
    PROVE  /\ Front(s) \in Seq(S) /\ Len(Front(s)) = Len(s) - 1 /\ Last(s) \in S
           /\ \A i \in 1 .. Len(s) - 1 : Front(s)[i] = s[i]
<1> DEFINE last == Len(s) - 1
<1>1. 1 \in Int /\ last \in Int /\ last >= 0 /\ \A i \in 1 .. last : s[i] \in S
  OBVIOUS
<1>2. last = Len(s) - 1 /\ Front(s) = SubSeq(s, 1, last) /\ Last(s) \in S
  BY DEF Front, Last
<1> HIDE DEF last
<1>3. /\ SubSeq(s, 1, last) \in Seq(S)
      /\ Len(SubSeq(s, 1, last)) = IF 1 <= last THEN last - 1 + 1 ELSE 0
      /\ \A i \in 1 .. last - 1 + 1 : SubSeq(s, 1, last)[i] = s[1 + i - 1]
  BY <1>1, SubSeqProperties
<1> QED
  BY <1>1, <1>2, <1>3

LEMMA TwoAppended ==
    ASSUME NEW S, NEW s \in Seq(S), NEW a \in S, NEW b \in S
    PROVE  /\ s \o <<a, b>> \in Seq(S) /\ Len(s \o <<a, b>>) = Len(s) + 2
           /\ \A i \in 1 .. Len(s) : (s \o <<a, b>>)[i] = s[i]
           /\ (s \o <<a, b>>)[Len(s) + 1] = a /\ (s \o <<a, b>>)[Len(s) + 2] = b
<1>1. <<a, b>> \in Seq(S) /\ Len(<<a, b>>) = 2 /\ <<a, b>>[1] = a /\ <<a, b>>[2] = b /\ Len(s) \in Nat
  OBVIOUS
<1> DEFINE t == <<a, b>>
<1> HIDE DEF t
<1>2. /\ s \o t \in Seq(S) /\ Len(s \o t) = Len(s) + Len(t)
      /\ \A i \in 1 .. Len(s) + Len(t) : (s \o t)[i] = IF i <= Len(s) THEN s[i] ELSE t[i - Len(s)]
  BY <1>1, ConcatProperties DEF t
<1>3. Len(t) = 2 /\ t[1] = a /\ t[2] = b
  BY <1>1 DEF t
<1>4. (s \o t)[Len(s) + 1] = a /\ (s \o t)[Len(s) + 2] = b
  BY <1>1, <1>2, <1>3
<1>5. \A i \in 1 .. Len(s) : (s \o t)[i] = s[i]
  BY <1>1, <1>2, <1>3
<1>6. s \o t \in Seq(S) /\ Len(s \o t) = Len(s) + 2
  BY <1>2, <1>3
<1> QED
  BY <1>4, <1>5, <1>6 DEF t

\* A machine with other values, or one more import to wait for
LEMMA MachineFacts ==
    ASSUME NEW m \in Machine
    PROVE  /\ m.held \subseteq Handle /\ m.cache \subseteq Handle /\ m.waiting \in Seq(Handle)
           /\ \A S \in SUBSET Handle :
                 /\ [m EXCEPT !.held = S] \in Machine /\ [m EXCEPT !.held = S].held = S
                 /\ [m EXCEPT !.held = S].cache = m.cache
                 /\ [m EXCEPT !.held = S].waiting = m.waiting
           /\ \A S \in SUBSET Handle :
                 /\ [m EXCEPT !.cache = S] \in Machine /\ [m EXCEPT !.cache = S].cache = S
                 /\ [m EXCEPT !.cache = S].held = m.held
                 /\ [m EXCEPT !.cache = S].waiting = m.waiting
           /\ \A w \in Seq(Handle) :
                 /\ [m EXCEPT !.waiting = w] \in Machine /\ [m EXCEPT !.waiting = w].waiting = w
                 /\ [m EXCEPT !.waiting = w].held = m.held /\ [m EXCEPT !.waiting = w].cache = m.cache
           /\ Fresh \in Machine /\ Fresh.held = {} /\ Fresh.cache = {} /\ Fresh.waiting = <<>>
BY EmptySeq DEF Machine, Fresh

\* The running machine changes
LEMMA BecomeFacts ==
    ASSUME machines \in Seq(Machine), Len(machines) > 0, NEW m \in Machine, Become(m)
    PROVE  /\ machines' \in Seq(Machine) /\ Len(machines') = Len(machines)
           /\ machines'[Len(machines)] = m
           /\ \A i \in 1 .. Len(machines) - 1 : machines'[i] = machines[i]
BY ExceptSeq DEF Become

\* An import is begun: the machine m waits, and another one starts
LEMMA BeginFacts ==
    ASSUME NEW ms \in Seq(Machine), NEW m \in Machine, NEW h \in Handle,
           NEW roots \in Seq(SUBSET Handle), Begin(ms, m, h, roots)
    PROVE  /\ machines' \in Seq(Machine) /\ Len(machines') = Len(ms) + 2
           /\ \A i \in 1 .. Len(ms) : machines'[i] = ms[i]
           /\ machines'[Len(ms) + 1].held = m.held /\ machines'[Len(ms) + 1].cache = m.cache
           /\ machines'[Len(ms) + 1].waiting = Append(m.waiting, h)
           /\ machines'[Len(ms) + 2] = Fresh
           /\ external' \in Seq(SUBSET Handle) /\ Len(external') = Len(roots) + 1
           /\ \A i \in 1 .. Len(roots) : external'[i] = roots[i]
           /\ external'[Len(roots) + 1] = m.held \cup {h}
           /\ evaluating' = evaluating \cup {h}
<1> DEFINE waits == [m EXCEPT !.waiting = Append(m.waiting, h)]
<1>1. /\ machines' = ms \o <<waits, Fresh>> /\ external' = Append(roots, m.held \cup {h})
      /\ evaluating' = evaluating \cup {h}
  BY DEF Begin
<1>2. /\ waits \in Machine /\ waits.held = m.held /\ waits.cache = m.cache
      /\ waits.waiting = Append(m.waiting, h) /\ Fresh \in Machine /\ m.held \cup {h} \in SUBSET Handle
  <2>1. m.waiting \in Seq(Handle) /\ m.held \subseteq Handle
    BY MachineFacts
  <2>2. Append(m.waiting, h) \in Seq(Handle)
    BY <2>1, AppendProperties
  <2> QED
    BY <2>1, <2>2, MachineFacts
<1> HIDE DEF waits
<1>3. /\ machines' \in Seq(Machine) /\ Len(machines') = Len(ms) + 2
      /\ \A i \in 1 .. Len(ms) : machines'[i] = ms[i]
      /\ machines'[Len(ms) + 1] = waits /\ machines'[Len(ms) + 2] = Fresh
  BY <1>1, <1>2, TwoAppended
<1>4. /\ external' \in Seq(SUBSET Handle) /\ Len(external') = Len(roots) + 1
      /\ \A i \in 1 .. Len(roots) : external'[i] = roots[i]
      /\ external'[Len(roots) + 1] = m.held \cup {h}
  BY <1>1, <1>2, AppendProperties
<1> QED
  BY <1>1, <1>2, <1>3, <1>4

LEMMA WaitingFacts ==
    /\ \A h \in Waiting : \E i \in 1 .. Len(machines) : \E a \in 1 .. Len(machines[i].waiting) :
          h = machines[i].waiting[a]
    /\ \A i \in 1 .. Len(machines) : \A a \in 1 .. Len(machines[i].waiting) :
          machines[i].waiting[a] \in Waiting
BY DEF Waiting, Elements

LEMMA WaitingFactsNext ==
    /\ \A h \in Waiting' : \E i \in 1 .. Len(machines') : \E a \in 1 .. Len(machines'[i].waiting) :
          h = machines'[i].waiting[a]
    /\ \A i \in 1 .. Len(machines') : \A a \in 1 .. Len(machines'[i].waiting) :
          machines'[i].waiting[a] \in Waiting'
BY DEF Waiting, Elements

\* What is reached from S are cells that are there, those of S among them, and what
\* they lead to
LEMMA ReachableFacts ==
    ASSUME NEW S
    PROVE  /\ Reachable(S) \subseteq live /\ S \cap live \subseteq Reachable(S)
           /\ \A h \in Reachable(S) : Edges(h) \cap live \subseteq Reachable(S)
BY Zenon DEF Reachable

----------------------------------------------------------------------------
(* What is being evaluated.                                                 *)

\* No import is begun or completed
LEMMA OthersKeepMarks ==
    ASSUME MarksInv, TypeOK', Len(machines') = Len(machines),
           \A i \in 1 .. Len(machines) : machines'[i].waiting = machines[i].waiting,
           UNCHANGED <<external, evaluating, cached>>
    PROVE  MarksInv'
<1>1. Len(machines) \in Nat /\ Len(machines) > 0
  BY DEF MarksInv, Stacks, TypeOK
<1>2. Stacks'
  BY <1>1 DEF MarksInv, Stacks, Running, Last
<1>3. WaitedOnce'
  <2> SUFFICES ASSUME NEW i \in 1 .. Len(machines), NEW j \in 1 .. Len(machines),
                      NEW a \in 1 .. Len(machines[i].waiting),
                      NEW b \in 1 .. Len(machines[j].waiting),
                      machines[i].waiting[a] = machines[j].waiting[b]
               PROVE  i = j /\ a = b
    BY DEF WaitedOnce
  <2> QED
    BY DEF MarksInv, WaitedOnce
<1>4. Waiting' = Waiting
  BY DEF Waiting, Elements
<1> QED
  BY <1>2, <1>3, <1>4 DEF MarksInv, EvaluatingExact, Unknown

\* The k-th machine begins with import h
LEMMA BeginKeepsMarks ==
    ASSUME MarksInv, TypeOK', NEW k \in 1 .. Len(machines), NEW h \in Handle \ evaluating,
           cached[h] = None, cached' = cached,
           Len(machines') = k + 1, Len(external') = k,
           \A i \in 1 .. k - 1 : machines'[i] = machines[i],
           machines'[k].waiting = Append(machines[k].waiting, h),
           machines'[k + 1].waiting = <<>>,
           \A i \in k + 1 .. Len(machines) : machines[i].waiting = <<>>,
           evaluating' = evaluating \cup {h}
    PROVE  MarksInv'
<1>1. /\ Len(machines) \in Nat /\ k \in Nat /\ k >= 1
      /\ \A i \in 1 .. Len(machines) : machines[i].waiting \in Seq(Handle)
      /\ EvaluatingExact /\ WaitedOnce /\ Unknown
  <2>1. machines \in Seq(Machine) /\ EvaluatingExact /\ WaitedOnce /\ Unknown
    BY DEF MarksInv, TypeOK
  <2>2. \A i \in 1 .. Len(machines) : machines[i] \in Machine
    BY <2>1
  <2>3. Len(machines) \in Nat
    BY <2>1
  <2>4. \A i \in 1 .. Len(machines) : machines[i].waiting \in Seq(Handle)
    BY <2>2 DEF Machine
  <2> QED
    BY <2>1, <2>3, <2>4
<1>2. /\ Len(machines'[k].waiting) = Len(machines[k].waiting) + 1
      /\ machines'[k].waiting[Len(machines[k].waiting) + 1] = h
      /\ \A a \in 1 .. Len(machines[k].waiting) : machines'[k].waiting[a] = machines[k].waiting[a]
      /\ Len(machines[k].waiting) \in Nat
  BY <1>1, AppendProperties
<1>3. ASSUME NEW i \in 1 .. k + 1, NEW a \in 1 .. Len(machines'[i].waiting)
      PROVE  \/ /\ i \in 1 .. Len(machines) /\ a \in 1 .. Len(machines[i].waiting)
                /\ machines'[i].waiting[a] = machines[i].waiting[a]
             \/ i = k /\ a = Len(machines[k].waiting) + 1 /\ machines'[i].waiting[a] = h
  <2>1. CASE i \in 1 .. k - 1
    BY <1>1, <2>1
  <2>2. CASE i = k
    BY <1>1, <1>2, <2>2
  <2>3. CASE i = k + 1
    BY <2>3, EmptySeq
  <2> QED
    BY <1>1, <2>1, <2>2, <2>3
<1>4. \A i \in 1 .. Len(machines) : \A a \in 1 .. Len(machines[i].waiting) :
         /\ machines[i].waiting[a] \in evaluating /\ machines[i].waiting[a] # h
         /\ i \in 1 .. k + 1 /\ a \in 1 .. Len(machines'[i].waiting)
         /\ machines'[i].waiting[a] = machines[i].waiting[a]
  <2> SUFFICES ASSUME NEW i \in 1 .. Len(machines), NEW a \in 1 .. Len(machines[i].waiting)
               PROVE  /\ machines[i].waiting[a] \in evaluating /\ machines[i].waiting[a] # h
                      /\ i \in 1 .. k + 1 /\ a \in 1 .. Len(machines'[i].waiting)
                      /\ machines'[i].waiting[a] = machines[i].waiting[a]
    OBVIOUS
  <2>1. machines[i].waiting[a] \in evaluating
    BY <1>1, WaitingFacts DEF EvaluatingExact
  <2>2. CASE i \in k + 1 .. Len(machines)
    BY <2>2, EmptySeq
  <2>3. CASE i = k
    <3>1. /\ a \in 1 .. Len(machines[k].waiting) /\ a \in 1 .. Len(machines'[k].waiting)
          /\ k \in 1 .. k + 1
      BY <1>1, <1>2, <2>3
    <3>2. machines'[k].waiting[a] = machines[k].waiting[a]
      BY <1>2, <3>1
    <3>3. machines[i].waiting[a] # h
      BY <2>1
    <3> QED
      BY <2>1, <2>3, <3>1, <3>2, <3>3
  <2>4. CASE i \in 1 .. k - 1
    BY <1>1, <2>1, <2>4
  <2> QED
    BY <1>1, <2>2, <2>3, <2>4
<1>5. Stacks'
  BY <1>1 DEF Stacks, Running, Last
<1>6. WaitedOnce'
  <2> SUFFICES ASSUME NEW i \in 1 .. k + 1, NEW j \in 1 .. k + 1,
                      NEW a \in 1 .. Len(machines'[i].waiting),
                      NEW b \in 1 .. Len(machines'[j].waiting),
                      machines'[i].waiting[a] = machines'[j].waiting[b]
               PROVE  i = j /\ a = b
    BY DEF WaitedOnce
  <2>1. CASE i = k /\ a = Len(machines[k].waiting) + 1 /\ machines'[i].waiting[a] = h
    <3>1. \/ j = k /\ b = Len(machines[k].waiting) + 1
          \/ /\ j \in 1 .. Len(machines) /\ b \in 1 .. Len(machines[j].waiting)
             /\ machines'[j].waiting[b] = machines[j].waiting[b]
      BY <1>3
    <3>2. ~(/\ j \in 1 .. Len(machines) /\ b \in 1 .. Len(machines[j].waiting)
            /\ machines'[j].waiting[b] = machines[j].waiting[b])
      BY <1>4, <2>1
    <3> QED
      BY <2>1, <3>1, <3>2, Zenon
  <2>2. CASE j = k /\ b = Len(machines[k].waiting) + 1 /\ machines'[j].waiting[b] = h
    <3>1. \/ i = k /\ a = Len(machines[k].waiting) + 1
          \/ /\ i \in 1 .. Len(machines) /\ a \in 1 .. Len(machines[i].waiting)
             /\ machines'[i].waiting[a] = machines[i].waiting[a]
      BY <1>3
    <3>2. ~(/\ i \in 1 .. Len(machines) /\ a \in 1 .. Len(machines[i].waiting)
            /\ machines'[i].waiting[a] = machines[i].waiting[a])
      BY <1>4, <2>2
    <3> QED
      BY <2>2, <3>1, <3>2, Zenon
  <2>3. CASE /\ i \in 1 .. Len(machines) /\ a \in 1 .. Len(machines[i].waiting)
             /\ machines'[i].waiting[a] = machines[i].waiting[a]
             /\ j \in 1 .. Len(machines) /\ b \in 1 .. Len(machines[j].waiting)
             /\ machines'[j].waiting[b] = machines[j].waiting[b]
    <3>1. WaitedOnce /\ machines[i].waiting[a] = machines[j].waiting[b]
      BY <1>1, <2>3
    <3>2. \A c \in 1 .. Len(machines[i].waiting) : \A d \in 1 .. Len(machines[j].waiting) :
             machines[i].waiting[c] = machines[j].waiting[d] => i = j /\ c = d
      BY <2>3, <3>1 DEF WaitedOnce
    <3> QED
      BY <2>3, <3>1, <3>2
  <2> QED
    BY <1>3, <2>1, <2>2, <2>3
<1>7. EvaluatingExact'
  <2>1. \A x \in Waiting' : x \in evaluating'
    <3> SUFFICES ASSUME NEW x \in Waiting' PROVE x \in evaluating'
      OBVIOUS
    <3>1. PICK i \in 1 .. k + 1 : \E a \in 1 .. Len(machines'[i].waiting) : x = machines'[i].waiting[a]
      BY WaitingFactsNext
    <3>2. PICK a \in 1 .. Len(machines'[i].waiting) : x = machines'[i].waiting[a]
      BY <3>1
    <3> QED
      BY <1>3, <1>4, <3>2
  <2>2. \A x \in evaluating : x \in Waiting'
    <3> SUFFICES ASSUME NEW x \in evaluating PROVE x \in Waiting'
      OBVIOUS
    <3>1. PICK i \in 1 .. Len(machines) : \E a \in 1 .. Len(machines[i].waiting) : x = machines[i].waiting[a]
      BY <1>1, WaitingFacts DEF EvaluatingExact
    <3>2. PICK a \in 1 .. Len(machines[i].waiting) : x = machines[i].waiting[a]
      BY <3>1
    <3>3. /\ i \in 1 .. Len(machines') /\ a \in 1 .. Len(machines'[i].waiting)
          /\ x = machines'[i].waiting[a]
      BY <1>4, <3>2
    <3> QED
      BY <3>3, WaitingFactsNext
  <2>3. h \in Waiting'
    <3>1. k \in 1 .. k + 1 /\ Len(machines[k].waiting) + 1 \in 1 .. Len(machines'[k].waiting)
      BY <1>1, <1>2
    <3>2. \A i \in 1 .. Len(machines') : \A a \in 1 .. Len(machines'[i].waiting) :
             machines'[i].waiting[a] \in Waiting'
      BY WaitingFactsNext
    <3> QED
      BY <1>2, <3>1, <3>2
  <2> QED
    BY <2>1, <2>2, <2>3 DEF EvaluatingExact
<1>8. Unknown'
  BY <1>1 DEF Unknown
<1> QED
  BY <1>5, <1>6, <1>7, <1>8 DEF MarksInv

\* All that the last importer waited for has its value
LEMMA CompleteKeepsMarks ==
    ASSUME MarksInv, TypeOK', NEW k \in 1 .. Len(machines), Len(machines) = k + 1,
           Len(machines') = k, Len(external') = Len(external) - 1,
           \A i \in 1 .. k - 1 : machines'[i] = machines[i],
           machines'[k].waiting = <<>>,
           evaluating' = evaluating \ Elements(machines[k].waiting),
           \A h \in Handle \ Elements(machines[k].waiting) : cached'[h] = cached[h]
    PROVE  MarksInv'
<1> DEFINE ws == Elements(machines[k].waiting)
<1>1. /\ Len(machines) \in Nat /\ k \in Nat /\ k >= 1 /\ Len(external) = k
      /\ EvaluatingExact /\ WaitedOnce /\ Unknown /\ evaluating \subseteq Handle
      /\ machines[k + 1].waiting = <<>>
  BY DEF MarksInv, Stacks, TypeOK, Running, Last
<1>2. \A i \in 1 .. k : \A a \in 1 .. Len(machines'[i].waiting) :
         /\ i \in 1 .. k - 1 /\ i \in 1 .. Len(machines) /\ i # k
         /\ machines'[i] = machines[i]
  <2> SUFFICES ASSUME NEW i \in 1 .. k, NEW a \in 1 .. Len(machines'[i].waiting)
               PROVE  i \in 1 .. k - 1 /\ i \in 1 .. Len(machines) /\ i # k
    BY <1>1
  <2>1. CASE i = k
    BY <2>1, EmptySeq
  <2>2. CASE i # k
    BY <1>1, <2>2
  <2> QED
    BY <2>1, <2>2
<1>3. \A i \in 1 .. k - 1 : \A a \in 1 .. Len(machines[i].waiting) :
         machines[i].waiting[a] \notin ws
  <2> SUFFICES ASSUME NEW i \in 1 .. k - 1, NEW a \in 1 .. Len(machines[i].waiting),
                      NEW b \in 1 .. Len(machines[k].waiting),
                      machines[i].waiting[a] = machines[k].waiting[b]
               PROVE  FALSE
    BY DEF Elements
  <2>1. i \in 1 .. Len(machines) /\ k \in 1 .. Len(machines) /\ i # k
    BY <1>1
  <2>2. \A c \in 1 .. Len(machines[i].waiting) : \A d \in 1 .. Len(machines[k].waiting) :
           machines[i].waiting[c] = machines[k].waiting[d] => i = k /\ c = d
    BY <1>1, <2>1 DEF WaitedOnce
  <2> QED
    BY <2>1, <2>2
<1>4. Stacks'
  BY <1>1 DEF Stacks, Running, Last
<1>5. WaitedOnce'
  <2> SUFFICES ASSUME NEW i \in 1 .. k, NEW j \in 1 .. k,
                      NEW a \in 1 .. Len(machines'[i].waiting),
                      NEW b \in 1 .. Len(machines'[j].waiting),
                      machines'[i].waiting[a] = machines'[j].waiting[b]
               PROVE  i = j /\ a = b
    BY DEF WaitedOnce
  <2>1. /\ i \in 1 .. Len(machines) /\ machines'[i] = machines[i]
        /\ j \in 1 .. Len(machines) /\ machines'[j] = machines[j]
    BY <1>2
  <2>2. \A c \in 1 .. Len(machines[i].waiting) : \A d \in 1 .. Len(machines[j].waiting) :
           machines[i].waiting[c] = machines[j].waiting[d] => i = j /\ c = d
    BY <1>1, <2>1 DEF WaitedOnce
  <2> QED
    BY <2>1, <2>2
<1>6. EvaluatingExact'
  <2>1. \A x \in Waiting' : x \in evaluating'
    <3> SUFFICES ASSUME NEW x \in Waiting' PROVE x \in evaluating'
      OBVIOUS
    <3>1. PICK i \in 1 .. k : \E a \in 1 .. Len(machines'[i].waiting) : x = machines'[i].waiting[a]
      BY WaitingFactsNext
    <3>2. PICK a \in 1 .. Len(machines'[i].waiting) : x = machines'[i].waiting[a]
      BY <3>1
    <3>3. /\ i \in 1 .. k - 1 /\ i \in 1 .. Len(machines)
          /\ a \in 1 .. Len(machines[i].waiting) /\ x = machines[i].waiting[a]
      BY <1>2, <3>2
    <3>4. x \notin ws
      BY <1>3, <3>3
    <3>5. x \in evaluating
      BY <1>1, <3>3, WaitingFacts DEF EvaluatingExact
    <3> QED
      BY <3>4, <3>5
  <2>2. \A x \in evaluating' : x \in Waiting'
    <3> SUFFICES ASSUME NEW x \in evaluating' PROVE x \in Waiting'
      OBVIOUS
    <3>1. x \in evaluating /\ x \notin ws
      OBVIOUS
    <3>2. PICK i \in 1 .. Len(machines) : \E a \in 1 .. Len(machines[i].waiting) : x = machines[i].waiting[a]
      BY <1>1, <3>1, WaitingFacts DEF EvaluatingExact
    <3>3. PICK a \in 1 .. Len(machines[i].waiting) : x = machines[i].waiting[a]
      BY <3>2
    <3>4. i # k
      BY <3>1, <3>3 DEF Elements
    <3>5. i # k + 1
      BY <1>1, <3>3, EmptySeq
    <3>6. i \in 1 .. k - 1 /\ i \in 1 .. Len(machines')
      BY <1>1, <3>4, <3>5
    <3>7. a \in 1 .. Len(machines'[i].waiting) /\ x = machines'[i].waiting[a]
      BY <3>3, <3>6
    <3> QED
      BY <3>6, <3>7, WaitingFactsNext
  <2> QED
    BY <2>1, <2>2 DEF EvaluatingExact
<1>7. Unknown'
  BY <1>1 DEF Unknown
<1> QED
  BY <1>4, <1>5, <1>6, <1>7 DEF MarksInv

\* An error leaves nothing marked
LEMMA UnwindKeepsMarks ==
    ASSUME MarksInv, Unwind, UNCHANGED program
    PROVE  /\ MarksInv' /\ Waiting' = {} /\ Len(machines') = 1
           /\ machines'[1].held = machines[1].held /\ machines'[1].cache = machines[1].cache
<1>1. TypeOK /\ EvaluatingExact /\ machines[1] \in Machine
  BY DEF MarksInv, Stacks, TypeOK
<1>2. /\ [machines[1] EXCEPT !.waiting = <<>>] \in Machine
      /\ [machines[1] EXCEPT !.waiting = <<>>].waiting = <<>>
      /\ [machines[1] EXCEPT !.waiting = <<>>].held = machines[1].held
      /\ [machines[1] EXCEPT !.waiting = <<>>].cache = machines[1].cache
  BY <1>1, MachineFacts, EmptySeq
<1>3. /\ machines' = <<[machines[1] EXCEPT !.waiting = <<>>]>> /\ external' = <<>>
      /\ evaluating' = evaluating \ Waiting
      /\ UNCHANGED <<live, used, file, refs, cached>>
  BY DEF Unwind, Waiting, cellVars
<1>4. /\ machines' \in Seq(Machine) /\ Len(machines') = 1
      /\ machines'[1] = [machines[1] EXCEPT !.waiting = <<>>]
  BY <1>2, <1>3
<1>5. TypeOK'
  BY <1>1, <1>3, <1>4, EmptySeq DEF TypeOK
<1>6. Stacks'
  <2>1. Len(external') = 0
    BY <1>3, EmptySeq
  <2>2. Running'.waiting = <<>>
    BY <1>2, <1>4 DEF Running, Last
  <2> QED
    BY <1>4, <2>1, <2>2 DEF Stacks
<1>7. Waiting' = {}
  <2> SUFFICES ASSUME NEW x \in Waiting' PROVE FALSE
    OBVIOUS
  <2>1. \E i \in 1 .. 1 : \E a \in 1 .. Len(machines'[i].waiting) : x = machines'[i].waiting[a]
    BY <1>4, WaitingFactsNext
  <2>2. \E a \in 1 .. Len(machines'[1].waiting) : x = machines'[1].waiting[a]
    BY <2>1
  <2> QED
    BY <1>2, <1>4, <2>2, EmptySeq
<1>8. EvaluatingExact'
  BY <1>1, <1>3, <1>7 DEF EvaluatingExact
<1>9. WaitedOnce'
  <2>1. \A i \in 1 .. Len(machines') : \A a \in 1 .. Len(machines'[i].waiting) : FALSE
    BY <1>7, WaitingFactsNext
  <2> QED
    BY <2>1 DEF WaitedOnce
<1>10. Unknown'
  BY <1>7, <1>8 DEF Unknown, EvaluatingExact
<1> QED
  BY <1>2, <1>4, <1>5, <1>6, <1>7, <1>8, <1>9, <1>10 DEF MarksInv

LEMMA InitMarks ==
    Init => MarksInv
<1> SUFFICES ASSUME Init PROVE MarksInv
  OBVIOUS
<1>1. Fresh \in Machine /\ Fresh.waiting = <<>>
  BY EmptySeq DEF Fresh, Machine
<1>2. machines \in Seq(Machine) /\ Len(machines) = 1 /\ machines[1] = Fresh
  BY <1>1 DEF Init
<1>3. external \in Seq(SUBSET Handle) /\ Len(external) = 0
  BY EmptySeq DEF Init
<1>4. TypeOK
  BY <1>2, <1>3, ProgramsAssumption DEF Init, TypeOK
<1>5. Stacks
  BY <1>1, <1>2, <1>3 DEF Stacks, Running, Last
<1>6. \A i \in 1 .. Len(machines) : \A a \in 1 .. Len(machines[i].waiting) : FALSE
  BY <1>1, <1>2, EmptySeq
<1>7. Waiting = {}
  BY <1>6, WaitingFacts
<1> QED
  BY <1>4, <1>5, <1>6, <1>7 DEF MarksInv, WaitedOnce, EvaluatingExact, Unknown, Init

\* What the proofs need of the running machine
LEMMA RunningFacts ==
    ASSUME MarksInv
    PROVE  /\ machines \in Seq(Machine) /\ Len(machines) \in Nat /\ Len(machines) > 0
           /\ Running = machines[Len(machines)] /\ Running \in Machine
           /\ Running.held \subseteq Handle /\ Running.cache \subseteq Handle
           /\ Running.waiting = <<>>
           /\ external \in Seq(SUBSET Handle) /\ Len(external) = Len(machines) - 1
           /\ evaluating \subseteq Handle /\ evaluating = Waiting
           /\ cached \in [Handle -> Handle \cup {None}]
           /\ file \in [Handle -> File \cup {None}]
           /\ refs \in [Handle -> SUBSET Handle]
           /\ live \subseteq used /\ used \subseteq Handle
<1>1. machines \in Seq(Machine) /\ Len(machines) \in Nat /\ Len(machines) > 0
  BY DEF MarksInv, TypeOK, Stacks
<1>2. Running = machines[Len(machines)] /\ Running \in Machine
  BY <1>1 DEF Running, Last
<1> QED
  BY <1>1, <1>2, MachineFacts DEF MarksInv, TypeOK, Stacks, EvaluatingExact

\* The running machine gets other values and nothing else happens to machines
LEMMA HoldKeepsMarks ==
    ASSUME MarksInv, NEW m \in Machine, m.waiting = Running.waiting, Become(m),
           UNCHANGED <<program, external, evaluating, cached>>,
           live' \subseteq used', used' \subseteq Handle,
           file' \in [Handle -> File \cup {None}], refs' \in [Handle -> SUBSET Handle]
    PROVE  /\ MarksInv' /\ Waiting' = Waiting
           /\ Len(machines') = Len(machines) /\ machines'[Len(machines)] = m
           /\ \A i \in 1 .. Len(machines) - 1 : machines'[i] = machines[i]
<1>1. /\ machines' \in Seq(Machine) /\ Len(machines') = Len(machines)
      /\ machines'[Len(machines)] = m
      /\ \A i \in 1 .. Len(machines) - 1 : machines'[i] = machines[i]
  BY RunningFacts, BecomeFacts
<1>2. \A i \in 1 .. Len(machines) : machines'[i].waiting = machines[i].waiting
  <2> SUFFICES ASSUME NEW i \in 1 .. Len(machines)
               PROVE  machines'[i].waiting = machines[i].waiting
    OBVIOUS
  <2>1. CASE i = Len(machines)
    BY <1>1, <2>1, RunningFacts
  <2>2. CASE i # Len(machines)
    <3>1. Len(machines) \in Nat
      BY RunningFacts
    <3>2. i \in 1 .. Len(machines) - 1
      BY <2>2, <3>1
    <3> QED
      BY <1>1, <3>2
  <2> QED
    BY <2>1, <2>2
<1>3. TypeOK'
  BY <1>1 DEF MarksInv, TypeOK
<1>4. MarksInv'
  BY <1>1, <1>2, <1>3, OthersKeepMarks
<1>5. Waiting' = Waiting
  BY <1>4 DEF MarksInv, EvaluatingExact
<1> QED
  BY <1>1, <1>4, <1>5

\* A new cell
LEMMA CellsAddFacts ==
    ASSUME TypeOK, NEW h, NEW f \in File \cup {None}, NEW rs \in SUBSET Handle, CellsAdd(h, f, rs)
    PROVE  /\ h \in Handle \ used /\ live' = live \cup {h} /\ used' = used \cup {h}
           /\ live' \subseteq used' /\ used' \subseteq Handle
           /\ file' \in [Handle -> File \cup {None}] /\ refs' \in [Handle -> SUBSET Handle]
           /\ file'[h] = f /\ refs'[h] = rs
           /\ \A g \in Handle \ {h} : file'[g] = file[g] /\ refs'[g] = refs[g]
BY DEF TypeOK, CellsAdd

\* Opcode::Import and force_value only begin with an import that is not marked
LEMMA ForceImportFacts ==
    ASSUME MarksInv, NEW h \in Handle, NEW popped \in BOOLEAN, ForceImport(h, popped),
           UNCHANGED program
    PROVE  /\ MarksInv' /\ h \in Running.held /\ file[h] # None
           /\ UNCHANGED <<live, used, file, refs, cached>>
           /\ \/ /\ cached[h] # None /\ UNCHANGED <<external, evaluating>>
                 /\ \E m \in Machine : /\ m.held \subseteq Running.held \cup {cached[h]}
                                       /\ m.cache = Running.cache
                                       /\ m.waiting = Running.waiting /\ Become(m)
              \/ /\ Len(machines') = Len(machines) + 1
                 /\ \A i \in 1 .. Len(machines) - 1 :
                       machines'[i] = machines[i] /\ external'[i] = external[i]
                 /\ machines'[Len(machines)].held \subseteq Running.held
                 /\ machines'[Len(machines)].cache = Running.cache
                 /\ Elements(machines'[Len(machines)].waiting) = {h}
                 /\ machines'[Len(machines) + 1] = Fresh
                 /\ Len(external') = Len(machines)
                 /\ external'[Len(machines)] = machines'[Len(machines)].held \cup {h}
                 /\ evaluating' = evaluating \cup {h}
<1> DEFINE m == [Running EXCEPT !.held = IF popped THEN @ \ {h} ELSE @]
<1>1. /\ m \in Machine /\ m.waiting = Running.waiting /\ m.cache = Running.cache
      /\ m.held \subseteq Running.held /\ m.held \subseteq Handle
  <2> DEFINE S == IF popped THEN Running.held \ {h} ELSE Running.held
  <2>1. m = [Running EXCEPT !.held = S]
    OBVIOUS
  <2>2. S \in SUBSET Handle /\ S \subseteq Running.held /\ Running \in Machine
    BY RunningFacts
  <2> HIDE DEF S, m
  <2>3. m \in Machine /\ m.held = S /\ m.waiting = Running.waiting /\ m.cache = Running.cache
    BY <2>1, <2>2, MachineFacts
  <2> QED
    BY <2>2, <2>3
<1>2. /\ h \notin evaluating /\ UNCHANGED <<live, used, file, refs, cached>>
      /\ h \in Running.held /\ file[h] # None
      /\ IF cached[h] # None
         THEN /\ Become([m EXCEPT !.held = m.held \cup {cached[h]}])
              /\ UNCHANGED <<evaluating, external>>
         ELSE Begin(Front(machines), m, h, external)
  BY DEF ForceImport, IsImport, cellVars
<1> HIDE DEF m
<1>3. CASE cached[h] # None
  <2>1. m.held \cup {cached[h]} \in SUBSET Handle
    BY <1>1, <1>3, RunningFacts
  <2> DEFINE got == [m EXCEPT !.held = m.held \cup {cached[h]}]
  <2>2. /\ got \in Machine /\ got.waiting = Running.waiting /\ got.cache = Running.cache
        /\ got.held \subseteq Running.held \cup {cached[h]}
    <3>1. got.held = m.held \cup {cached[h]}
      BY <1>1, <2>1, MachineFacts
    <3>2. got \in Machine /\ got.waiting = Running.waiting /\ got.cache = Running.cache
      BY <1>1, <2>1, MachineFacts
    <3> QED
      BY <1>1, <3>1, <3>2
  <2>3. Become(got) /\ UNCHANGED <<evaluating, external>>
    BY <1>2, <1>3
  <2> HIDE DEF got
  <2>4. MarksInv'
    BY <1>2, <2>2, <2>3, RunningFacts, HoldKeepsMarks
  <2> QED
    BY <1>2, <1>3, <2>2, <2>3, <2>4
<1>4. CASE cached[h] = None
  <2> DEFINE k == Len(machines)
  <2>1. /\ Front(machines) \in Seq(Machine) /\ Len(Front(machines)) = k - 1
        /\ \A i \in 1 .. k - 1 : Front(machines)[i] = machines[i]
        /\ k \in 1 .. k /\ k \in Nat
    <3>1. machines \in Seq(Machine) /\ k \in Nat /\ k > 0
      BY RunningFacts
    <3>2. /\ Front(machines) \in Seq(Machine) /\ Len(Front(machines)) = k - 1
          /\ \A i \in 1 .. k - 1 : Front(machines)[i] = machines[i]
      BY <3>1, FrontFacts
    <3> QED
      BY <3>1, <3>2
  <2>2. /\ machines' \in Seq(Machine) /\ Len(machines') = k + 1
        /\ \A i \in 1 .. k - 1 : machines'[i] = machines[i]
        /\ machines'[k].held = m.held /\ machines'[k].cache = m.cache
        /\ machines'[k].waiting = Append(machines[k].waiting, h)
        /\ machines'[k + 1] = Fresh
        /\ external' \in Seq(SUBSET Handle) /\ Len(external') = k
        /\ \A i \in 1 .. k - 1 : external'[i] = external[i]
        /\ external'[k] = m.held \cup {h}
        /\ evaluating' = evaluating \cup {h}
    <3>1. /\ machines' \in Seq(Machine) /\ Len(machines') = Len(Front(machines)) + 2
          /\ \A i \in 1 .. Len(Front(machines)) : machines'[i] = Front(machines)[i]
          /\ machines'[Len(Front(machines)) + 1].held = m.held
          /\ machines'[Len(Front(machines)) + 1].cache = m.cache
          /\ machines'[Len(Front(machines)) + 1].waiting = Append(m.waiting, h)
          /\ machines'[Len(Front(machines)) + 2] = Fresh
          /\ external' \in Seq(SUBSET Handle) /\ Len(external') = Len(external) + 1
          /\ \A i \in 1 .. Len(external) : external'[i] = external[i]
          /\ external'[Len(external) + 1] = m.held \cup {h}
          /\ evaluating' = evaluating \cup {h}
      BY <1>1, <1>2, <1>4, <2>1, RunningFacts, BeginFacts
    <3>2. k - 1 + 1 = k /\ k - 1 + 2 = k + 1 /\ Len(external) = k - 1
      BY <2>1, RunningFacts
    <3> QED
      BY <1>1, <2>1, <3>1, <3>2, RunningFacts
  <2>3. TypeOK'
    BY <1>2, <2>2 DEF MarksInv, TypeOK
  <2>4. Fresh.waiting = <<>> /\ \A i \in k + 1 .. Len(machines) : machines[i].waiting = <<>>
    BY <2>1 DEF Fresh
  <2>5. MarksInv'
    BY <1>2, <1>4, <2>1, <2>2, <2>3, <2>4, BeginKeepsMarks
  <2>6. Elements(machines'[k].waiting) = {h}
    <3>1. machines'[k].waiting = Append(<<>>, h)
      BY <2>2, RunningFacts
    <3>2. machines'[k].waiting = <<h>>
      BY <3>1
    <3>3. Len(<<h>>) = 1 /\ <<h>>[1] = h
      OBVIOUS
    <3> QED
      BY <3>2, <3>3 DEF Elements
  <2> QED
    BY <1>1, <1>2, <2>2, <2>5, <2>6
<1> QED
  BY <1>3, <1>4

\* The importer that waits for the running machine
LEMMA ImporterFacts ==
    ASSUME MarksInv, NEW k \in Nat, Len(machines) = k + 1, k > 0
    PROVE  /\ Front(machines) \in Seq(Machine) /\ Len(Front(machines)) = k
           /\ \A i \in 1 .. k : Front(machines)[i] = machines[i]
           /\ Last(Front(machines)) = machines[k] /\ machines[k] \in Machine
           /\ Front(external) \in Seq(SUBSET Handle) /\ Len(Front(external)) = k - 1
           /\ \A i \in 1 .. k - 1 : Front(external)[i] = external[i]
           /\ k \in 1 .. Len(machines) /\ machines[k + 1].waiting = <<>>
<1>1. machines \in Seq(Machine) /\ external \in Seq(SUBSET Handle) /\ Len(external) = k
  BY RunningFacts
<1>2. machines[k + 1].waiting = <<>>
  BY RunningFacts
<1>3. /\ Front(machines) \in Seq(Machine) /\ Len(Front(machines)) = k
      /\ \A i \in 1 .. k : Front(machines)[i] = machines[i]
  <2>1. /\ Front(machines) \in Seq(Machine) /\ Len(Front(machines)) = Len(machines) - 1
        /\ \A i \in 1 .. Len(machines) - 1 : Front(machines)[i] = machines[i]
    BY <1>1, FrontFacts
  <2>2. Len(machines) - 1 = k
    OBVIOUS
  <2> QED
    BY <2>1, <2>2
<1>4. /\ Front(external) \in Seq(SUBSET Handle) /\ Len(Front(external)) = k - 1
      /\ \A i \in 1 .. k - 1 : Front(external)[i] = external[i]
  <2>1. /\ Front(external) \in Seq(SUBSET Handle) /\ Len(Front(external)) = Len(external) - 1
        /\ \A i \in 1 .. Len(external) - 1 : Front(external)[i] = external[i]
    BY <1>1, FrontFacts
  <2> QED
    BY <1>1, <2>1
<1>5. Last(Front(machines)) = machines[k] /\ machines[k] \in Machine /\ k \in 1 .. Len(machines)
  BY <1>1, <1>3 DEF Last
<1> QED
  BY <1>2, <1>3, <1>4, <1>5

\* A file returns a value that is known: the importer has it
LEMMA ReturnValueFacts ==
    ASSUME MarksInv, NEW v \in Handle, FileReturns(v), UNCHANGED program,
           NEW k \in Nat, Len(machines) = k + 1, k > 0,
           NEW value, value = (IF file[v] # None THEN cached[v] ELSE v), value # None
    PROVE  /\ MarksInv' /\ v \in Running.held /\ value \in Handle
           /\ Len(machines') = k /\ Len(external') = k - 1
           /\ \A i \in 1 .. k - 1 : machines'[i] = machines[i] /\ external'[i] = external[i]
           /\ machines'[k].held = machines[k].held \cup {value}
           /\ machines'[k].cache = machines[k].cache
           /\ machines'[k].waiting = <<>>
           /\ Elements(machines[k].waiting) \subseteq Waiting
           /\ \A h \in Handle : cached'[h] = IF h \in Elements(machines[k].waiting)
                                              THEN value ELSE cached[h]
           /\ UNCHANGED <<live, used, file, refs>>
<1> DEFINE ws == Elements(machines[k].waiting)
           got == [machines[k] EXCEPT !.held = @ \cup {value}, !.waiting = <<>>]
<1>1. /\ Last(Front(machines)) = machines[k] /\ machines[k] \in Machine
      /\ Len(Front(machines)) = k /\ Front(machines) \in Seq(Machine)
      /\ \A i \in 1 .. k : Front(machines)[i] = machines[i]
      /\ Front(external) \in Seq(SUBSET Handle) /\ Len(Front(external)) = k - 1
      /\ \A i \in 1 .. k - 1 : Front(external)[i] = external[i]
      /\ k \in 1 .. Len(machines)
  BY ImporterFacts
<1>2. /\ v \in Running.held /\ Complete(ws, value)
      /\ machines' = [Front(machines) EXCEPT ![k] = got]
      /\ external' = Front(external)
      /\ UNCHANGED <<live, used, file, refs>>
  BY <1>1 DEF FileReturns, IsImport, cellVars
<1>3. value \in Handle
  BY RunningFacts
<1>4. /\ got \in Machine /\ got.held = machines[k].held \cup {value}
      /\ got.cache = machines[k].cache /\ got.waiting = <<>>
  BY <1>1, <1>3, EmptySeq DEF Machine
<1> HIDE DEF got
<1>5. /\ machines' \in Seq(Machine) /\ Len(machines') = k /\ machines'[k] = got
      /\ \A i \in 1 .. k - 1 : machines'[i] = machines[i]
  BY <1>1, <1>2, <1>4, ExceptSeq
<1>6. /\ \A h \in Handle : cached'[h] = IF h \in ws THEN value ELSE cached[h]
      /\ cached' \in [Handle -> Handle \cup {None}]
      /\ evaluating' = evaluating \ ws
  BY <1>2, <1>3, RunningFacts DEF Complete
<1>7. TypeOK'
  BY <1>1, <1>2, <1>5, <1>6 DEF MarksInv, TypeOK
<1>8. MarksInv'
  <2>1. Len(external') = Len(external) - 1
    BY <1>1, <1>2, RunningFacts
  <2> QED
    BY <1>1, <1>4, <1>5, <1>6, <1>7, <2>1, CompleteKeepsMarks
<1>9. ws \subseteq Waiting
  BY <1>1 DEF Waiting
<1> QED
  BY <1>1, <1>2, <1>3, <1>4, <1>5, <1>6, <1>8, <1>9

\* The value of a file is an import whose value is not known: the importer begins
\* with that one
LEMMA ReturnImportFacts ==
    ASSUME MarksInv, NEW v \in Handle, FileReturns(v), UNCHANGED program,
           NEW k \in Nat, Len(machines) = k + 1, k > 0,
           (IF file[v] # None THEN cached[v] ELSE v) = None
    PROVE  /\ MarksInv' /\ v \in Running.held /\ file[v] # None /\ program.chains
           /\ Len(machines') = k + 1
           /\ \A i \in 1 .. k - 1 : machines'[i] = machines[i]
           /\ machines'[k].held = machines[k].held /\ machines'[k].cache = machines[k].cache
           /\ machines'[k + 1] = Fresh
           /\ evaluating' = evaluating \cup {v}
           /\ UNCHANGED <<live, used, file, refs, cached>>
<1>1. /\ Last(Front(machines)) = machines[k] /\ machines[k] \in Machine
      /\ Len(Front(machines)) = k /\ Front(machines) \in Seq(Machine)
      /\ \A i \in 1 .. k : Front(machines)[i] = machines[i]
      /\ Front(external) \in Seq(SUBSET Handle) /\ Len(Front(external)) = k - 1
      /\ k \in 1 .. Len(machines) /\ machines[k + 1].waiting = <<>>
  BY ImporterFacts
<1>2. v # None
  BY NoneAssumption
<1>3. /\ v \in Running.held /\ file[v] # None /\ cached[v] = None
      /\ program.chains /\ v \notin evaluating
      /\ Begin(Front(Front(machines)), machines[k], v, Front(external))
      /\ UNCHANGED <<live, used, file, refs, cached>>
  BY <1>1, <1>2 DEF FileReturns, IsImport, cellVars
<1>4. /\ Front(Front(machines)) \in Seq(Machine) /\ Len(Front(Front(machines))) = k - 1
      /\ \A i \in 1 .. k - 1 : Front(Front(machines))[i] = machines[i]
  <2>1. /\ Front(Front(machines)) \in Seq(Machine) /\ Len(Front(Front(machines))) = k - 1
        /\ \A i \in 1 .. k - 1 : Front(Front(machines))[i] = Front(machines)[i]
    BY <1>1, FrontFacts
  <2> QED
    BY <1>1, <2>1
<1>5. /\ machines' \in Seq(Machine) /\ Len(machines') = k + 1
      /\ \A i \in 1 .. k - 1 : machines'[i] = machines[i]
      /\ machines'[k].held = machines[k].held /\ machines'[k].cache = machines[k].cache
      /\ machines'[k].waiting = Append(machines[k].waiting, v)
      /\ machines'[k + 1] = Fresh
      /\ external' \in Seq(SUBSET Handle) /\ Len(external') = k
      /\ evaluating' = evaluating \cup {v}
  <2> DEFINE ms == Front(Front(machines))
             roots == Front(external)
  <2> HIDE DEF ms, roots
  <2>1. ms \in Seq(Machine) /\ Len(ms) = k - 1 /\ roots \in Seq(SUBSET Handle) /\ Len(roots) = k - 1
        /\ \A i \in 1 .. k - 1 : ms[i] = machines[i]
    BY <1>1, <1>4 DEF ms, roots
  <2>2. Begin(ms, machines[k], v, roots)
    BY <1>3 DEF ms, roots
  <2>3. /\ machines' \in Seq(Machine) /\ Len(machines') = Len(ms) + 2
        /\ \A i \in 1 .. Len(ms) : machines'[i] = ms[i]
        /\ machines'[Len(ms) + 1].held = machines[k].held
        /\ machines'[Len(ms) + 1].cache = machines[k].cache
        /\ machines'[Len(ms) + 1].waiting = Append(machines[k].waiting, v)
        /\ machines'[Len(ms) + 2] = Fresh
        /\ external' \in Seq(SUBSET Handle) /\ Len(external') = Len(roots) + 1
        /\ evaluating' = evaluating \cup {v}
    BY <1>1, <2>1, <2>2, BeginFacts
  <2>4. Len(ms) + 1 = k /\ Len(ms) + 2 = k + 1 /\ Len(roots) + 1 = k
    BY <2>1
  <2> QED
    BY <2>1, <2>3, <2>4
<1>6. TypeOK'
  BY <1>3, <1>5 DEF MarksInv, TypeOK
<1>7. Fresh.waiting = <<>> /\ \A i \in k + 1 .. Len(machines) : machines[i].waiting = <<>>
  BY <1>1 DEF Fresh
<1>8. MarksInv'
  BY <1>1, <1>3, <1>5, <1>6, <1>7, BeginKeepsMarks
<1> QED
  BY <1>3, <1>5, <1>8

\* The running machine gets one more value
LEMMA HoldFacts ==
    ASSUME MarksInv, NEW h \in Handle, Hold(h)
    PROVE  \E m \in Machine : /\ m.held = Running.held \cup {h} /\ m.cache = Running.cache
                              /\ m.waiting = Running.waiting /\ Become(m)
<1> DEFINE S == Running.held \cup {h}
           m == [Running EXCEPT !.held = S]
<1>1. Become(m)
  BY DEF Hold
<1>2. Running \in Machine /\ S \in SUBSET Handle
  BY RunningFacts
<1> HIDE DEF S
<1>3. m \in Machine /\ m.held = S /\ m.cache = Running.cache /\ m.waiting = Running.waiting
  BY <1>2, MachineFacts
<1> QED
  BY <1>1, <1>3 DEF S

\* What the operations on values do: the running machine holds what it held, what
\* that leads to, what it has cached or a cell that is there
Within(m) ==
    /\ m.waiting = Running.waiting
    /\ m.held \subseteq Running.held \cup Running.cache
                       \cup (UNION {refs[g] : g \in Running.held}) \cup live'
    /\ m.cache \subseteq Running.cache \cup (IF program.caches THEN Running.held ELSE {})

NewCell ==
    \E g : \E f \in File \cup {None} : \E rs \in SUBSET Running.held :
        /\ CellsAdd(g, f, rs)
        /\ f # None => program.imports /\ \A e \in live : file[e] # f

ValueStep ==
    \/ \E h \in Handle :
          Allocate(h) \/ Load(h) \/ Drop(h) \/ CacheField(h) \/ HitFieldCache(h)
    \/ \E f \in File : PushImport(f)

LEMMA ValueStepFacts ==
    ASSUME MarksInv, ValueStep
    PROVE  /\ UNCHANGED <<external, evaluating, cached>>
           /\ \E m \in Machine : Within(m) /\ Become(m)
           /\ UNCHANGED <<live, used, file, refs>> \/ NewCell
<1>0. /\ Running \in Machine /\ Running.held \subseteq Handle /\ Running.cache \subseteq Handle
      /\ live \subseteq Handle
  BY RunningFacts
<1> DEFINE Goal == /\ UNCHANGED <<external, evaluating, cached>>
                   /\ \E m \in Machine : Within(m) /\ Become(m)
                   /\ UNCHANGED <<live, used, file, refs>> \/ NewCell
<1>1. ASSUME NEW h \in Handle, Allocate(h) PROVE Goal
  <2>1. Hold(h) /\ UNCHANGED <<cached, evaluating, external>>
    BY <1>1 DEF Allocate
  <2>2. PICK rs \in {{}} \cup {{r} : r \in Running.held} : CellsAdd(h, None, rs)
    BY <1>1 DEF Allocate
  <2>3. rs \in SUBSET Running.held /\ h \in live'
    BY <2>2 DEF CellsAdd
  <2>4. NewCell
    BY <2>2, <2>3 DEF NewCell
  <2>5. PICK m \in Machine : /\ m.held = Running.held \cup {h} /\ m.cache = Running.cache
                            /\ m.waiting = Running.waiting /\ Become(m)
    BY <2>1, HoldFacts
  <2>6. Within(m)
    BY <2>3, <2>5 DEF Within
  <2> QED
    BY <2>1, <2>4, <2>5, <2>6
<1>2. ASSUME NEW h \in Handle, Load(h) PROVE Goal
  <2>1. PICK r \in refs[h] : Hold(r)
    BY <1>2 DEF Load
  <2>2. r \in Handle
    BY RunningFacts
  <2>3. h \in Running.held /\ UNCHANGED <<external, evaluating, cached, live, used, file, refs>>
    BY <1>2 DEF Load, cellVars
  <2>4. PICK m \in Machine : /\ m.held = Running.held \cup {r} /\ m.cache = Running.cache
                            /\ m.waiting = Running.waiting /\ Become(m)
    BY <2>1, <2>2, HoldFacts
  <2>5. Within(m)
    BY <2>3, <2>4 DEF Within
  <2> QED
    BY <2>3, <2>4, <2>5
<1>3. ASSUME NEW h \in Handle, Drop(h) PROVE Goal
  <2> DEFINE S == Running.held \ {h}
             m == [Running EXCEPT !.held = S]
  <2>1. Become(m) /\ UNCHANGED <<external, evaluating, cached, live, used, file, refs>>
    BY <1>3 DEF Drop, cellVars
  <2>2. S \in SUBSET Handle /\ S \subseteq Running.held
    BY <1>0
  <2> HIDE DEF S
  <2>3. m \in Machine /\ m.waiting = Running.waiting /\ m.cache = Running.cache /\ m.held = S
    BY <1>0, <2>2, MachineFacts
  <2>4. Within(m)
    BY <2>2, <2>3 DEF Within
  <2> QED
    BY <2>1, <2>3, <2>4
<1>4. ASSUME NEW h \in Handle, CacheField(h) PROVE Goal
  <2> DEFINE S == Running.cache \cup {h}
             m == [Running EXCEPT !.cache = S]
  <2>1. /\ Become(m) /\ UNCHANGED <<external, evaluating, cached, live, used, file, refs>>
        /\ program.caches /\ h \in Running.held
    BY <1>4 DEF CacheField, cellVars
  <2>2. S \in SUBSET Handle /\ S = Running.cache \cup {h}
    BY <1>0
  <2> HIDE DEF S
  <2>3. m \in Machine /\ m.waiting = Running.waiting /\ m.cache = S /\ m.held = Running.held
    BY <1>0, <2>2, MachineFacts
  <2>4. Within(m)
    BY <2>1, <2>2, <2>3 DEF Within
  <2> QED
    BY <2>1, <2>3, <2>4
<1>5. ASSUME NEW h \in Handle, HitFieldCache(h) PROVE Goal
  <2>1. /\ UNCHANGED <<external, evaluating, cached, live, used, file, refs>>
        /\ h \in Running.cache /\ Hold(h)
    BY <1>5 DEF HitFieldCache, cellVars
  <2>2. PICK m \in Machine : /\ m.held = Running.held \cup {h} /\ m.cache = Running.cache
                            /\ m.waiting = Running.waiting /\ Become(m)
    BY <2>1, HoldFacts
  <2>3. Within(m)
    BY <2>1, <2>2 DEF Within
  <2> QED
    BY <2>1, <2>2, <2>3
<1>6. ASSUME NEW f \in File, PushImport(f) PROVE Goal
  <2>1. UNCHANGED <<external, evaluating, cached>> /\ program.imports
    BY <1>6 DEF PushImport
  <2>2. PICK g \in Handle :
           /\ Hold(g) /\ g \in live'
           /\ UNCHANGED <<live, used, file, refs>> \/ NewCell
    <3>1. \/ \E g \in live : Hold(g) /\ UNCHANGED <<live, used, file, refs>>
          \/ \E g \in Handle : Hold(g) /\ CellsAdd(g, f, {}) /\ \A e \in live : file[e] # f
      BY <1>6 DEF PushImport, cellVars
    <3>2. CASE \E g \in live : Hold(g) /\ UNCHANGED <<live, used, file, refs>>
      BY <1>0, <3>2
    <3>3. ASSUME NEW g \in Handle, Hold(g), CellsAdd(g, f, {}), \A e \in live : file[e] # f
          PROVE  g \in live' /\ NewCell
      <4>1. g \in live' /\ f \in File \cup {None} /\ {} \in SUBSET Running.held
        BY <3>3 DEF CellsAdd
      <4> QED
        BY <2>1, <3>3, <4>1 DEF NewCell
    <3> QED
      BY <3>1, <3>2, <3>3
  <2>3. PICK m \in Machine : /\ m.held = Running.held \cup {g} /\ m.cache = Running.cache
                            /\ m.waiting = Running.waiting /\ Become(m)
    BY <2>2, HoldFacts
  <2>4. Within(m)
    BY <2>2, <2>3 DEF Within
  <2> QED
    BY <2>1, <2>2, <2>3, <2>4
<1> HIDE DEF Goal
<1>7. Goal
  BY <1>1, <1>2, <1>3, <1>4, <1>5, <1>6 DEF ValueStep
<1> QED
  BY <1>7 DEF Goal

LEMMA NewCellFacts ==
    ASSUME MarksInv, UNCHANGED <<live, used, file, refs>> \/ NewCell
    PROVE  /\ live' \subseteq used' /\ used' \subseteq Handle /\ live \subseteq live'
           /\ file' \in [Handle -> File \cup {None}] /\ refs' \in [Handle -> SUBSET Handle]
<1>1. CASE UNCHANGED <<live, used, file, refs>>
  BY <1>1, RunningFacts
<1>2. CASE NewCell
  <2>1. PICK g : \E f \in File \cup {None} : \E rs \in SUBSET Running.held : CellsAdd(g, f, rs)
    BY <1>2 DEF NewCell
  <2>2. PICK f \in File \cup {None} : \E rs \in SUBSET Running.held : CellsAdd(g, f, rs)
    BY <2>1
  <2>3. PICK rs \in SUBSET Running.held : CellsAdd(g, f, rs)
    BY <2>2
  <2>4. TypeOK /\ rs \in SUBSET Handle
    BY RunningFacts DEF MarksInv
  <2> QED
    BY <2>3, <2>4, CellsAddFacts
<1> QED
  BY <1>1, <1>2

\* The steps, sorted by what they do to the imports that are waited for
LEMMA StepCases ==
    Step => \/ ValueStep
            \/ \E h \in Handle : \E popped \in BOOLEAN : ForceImport(h, popped)
            \/ \E h \in Handle : FileReturns(h)
            \/ Unwind \/ CollectGarbage
BY DEF Step, ValueStep, Fail, CyclicImport

LEMMA NextMarks ==
    MarksInv /\ [Next]_vars => MarksInv'
<1> SUFFICES ASSUME MarksInv, [Next]_vars PROVE MarksInv'
  OBVIOUS
<1>1. CASE UNCHANGED vars
  BY <1>1, OthersKeepMarks DEF vars, cellVars, MarksInv, TypeOK
<1> SUFFICES ASSUME Step, UNCHANGED program PROVE MarksInv'
  BY <1>1 DEF Next
<1>2. CASE ValueStep
  <2>1. /\ UNCHANGED <<external, evaluating, cached>>
        /\ UNCHANGED <<live, used, file, refs>> \/ NewCell
    BY <1>2, ValueStepFacts
  <2>2. PICK m \in Machine : Within(m) /\ Become(m)
    BY <1>2, ValueStepFacts
  <2>3. m.waiting = Running.waiting
    BY <2>2 DEF Within
  <2>4. /\ live' \subseteq used' /\ used' \subseteq Handle
        /\ file' \in [Handle -> File \cup {None}] /\ refs' \in [Handle -> SUBSET Handle]
    BY <2>1, NewCellFacts
  <2> QED
    BY <2>1, <2>2, <2>3, <2>4, HoldKeepsMarks
<1>3. ASSUME NEW h \in Handle, NEW popped \in BOOLEAN, ForceImport(h, popped) PROVE MarksInv'
  BY <1>3, ForceImportFacts
<1>4. ASSUME NEW v \in Handle, FileReturns(v) PROVE MarksInv'
  <2> DEFINE k == Len(machines) - 1
  <2>1. k \in Nat /\ Len(machines) = k + 1 /\ k > 0
    BY <1>4, RunningFacts DEF FileReturns
  <2> HIDE DEF k
  <2>2. CASE (IF file[v] # None THEN cached[v] ELSE v) = None
    BY <1>4, <2>1, <2>2, ReturnImportFacts
  <2>3. CASE (IF file[v] # None THEN cached[v] ELSE v) # None
    BY <1>4, <2>1, <2>3, ReturnValueFacts
  <2> QED
    BY <2>2, <2>3
<1>5. CASE Unwind
  BY <1>5, UnwindKeepsMarks
<1>6. CASE CollectGarbage
  <2>1. /\ UNCHANGED <<used, file, refs, cached, evaluating, machines, external>>
        /\ live' \subseteq live
    BY <1>6, ReachableFacts DEF CollectGarbage, cellVars
  <2>2. TypeOK'
    BY <2>1 DEF MarksInv, TypeOK
  <2> QED
    BY <2>1, <2>2, OthersKeepMarks
<1> QED
  BY <1>2, <1>3, <1>4, <1>5, <1>6, StepCases

\* What is being evaluated, in every program: each waiting machine's imports, none of
\* them twice and none whose value is known
THEOREM MarksInvariant ==
    Spec => []MarksInv
BY InitMarks, NextMarks, PTL DEF Spec

\* The variables stay in their types
THEOREM ImportsTypeCorrect ==
    Spec => []TypeOK
<1>1. MarksInv => TypeOK
  BY DEF MarksInv
<1> QED
  BY <1>1, MarksInvariant, PTL

\* The evaluating flags are those of the imports that are waited for, after any errors
THEOREM EvaluatingIsExact ==
    Spec => []EvaluatingExact
<1>1. MarksInv => EvaluatingExact
  BY DEF MarksInv
<1> QED
  BY <1>1, MarksInvariant, PTL

\* The value of an import never changes: only what is waited for gets one, and what is
\* waited for has none
THEOREM ValuesOfImportsAreStable ==
    Spec => ValueOfImportStable
<1> DEFINE Stable == \A h \in live \cap live' : cached[h] # None => cached'[h] = cached[h]
<1>1. MarksInv /\ [Next]_vars => [Stable]_vars
  <2> SUFFICES ASSUME MarksInv, [Next]_vars, vars' # vars PROVE Stable
    OBVIOUS
  <2> SUFFICES ASSUME Step, UNCHANGED program PROVE Stable
    BY DEF Next
  <2>1. CASE ValueStep
    BY <2>1, ValueStepFacts
  <2>2. ASSUME NEW h \in Handle, NEW popped \in BOOLEAN, ForceImport(h, popped) PROVE Stable
    BY <2>2, ForceImportFacts
  <2>3. ASSUME NEW v \in Handle, FileReturns(v) PROVE Stable
    <3> DEFINE k == Len(machines) - 1
               value == IF file[v] # None THEN cached[v] ELSE v
    <3>1. k \in Nat /\ Len(machines) = k + 1 /\ k > 0
      BY <2>3, RunningFacts DEF FileReturns
    <3>2. value = (IF file[v] # None THEN cached[v] ELSE v)
      OBVIOUS
    <3> HIDE DEF k, value
    <3>3. CASE value = None
      BY <2>3, <3>1, <3>2, <3>3, ReturnImportFacts
    <3>4. CASE value # None
      <4>1. /\ Elements(machines[k].waiting) \subseteq Waiting
            /\ \A h \in Handle : cached'[h] = IF h \in Elements(machines[k].waiting)
                                               THEN value ELSE cached[h]
        BY <2>3, <3>1, <3>2, <3>4, ReturnValueFacts
      <4>2. /\ \A h \in Waiting : cached[h] = None
            /\ live \subseteq Handle
        BY RunningFacts DEF MarksInv, Unknown
      <4> QED
        BY <4>1, <4>2
    <3> QED
      BY <3>3, <3>4
  <2>4. CASE Unwind
    BY <2>4 DEF Unwind
  <2>5. CASE CollectGarbage
    BY <2>5 DEF CollectGarbage
  <2> QED
    BY <2>1, <2>2, <2>3, <2>4, <2>5, StepCases
<1> QED
  BY <1>1, MarksInvariant, PTL DEF Spec, ValueOfImportStable

----------------------------------------------------------------------------
(* What the machines need is protected.                                     *)

LEMMA InitTame ==
    ASSUME \A p \in Programs : Tame(p), Init
    PROVE  IInv
<1>1. MarksInv
  BY InitMarks
<1>2. /\ Len(machines) = 1 /\ machines[1] = Fresh /\ live = {} /\ external = <<>>
      /\ Fresh.held = {} /\ Fresh.cache = {} /\ Fresh.waiting = <<>>
  BY DEF Init, Fresh
<1>3. Elements(<<>>) = {}
  BY EmptySeq DEF Elements
<1>4. AsProgram
  BY <1>2, ProgramsAssumption DEF AsProgram, Init
<1>5. ClosedHeap /\ UnusedBlank /\ OneImport
  BY DEF ClosedHeap, UnusedBlank, OneImport, Init
<1>6. WaitingImports
  BY <1>1, RunningFacts DEF WaitingImports, Init
<1>7. Rooted
  BY <1>2, EmptySeq DEF Rooted
<1>8. ImportersProtected /\ CachedFieldsLive
  BY <1>2, <1>3 DEF ImportersProtected, CachedFieldsLive
<1> QED
  BY <1>4, <1>5, <1>6, <1>7, <1>8 DEF IInv

\* What the invariant says of the running machine and of what waits
LEMMA LiveFacts ==
    ASSUME MarksInv, IInv
    PROVE  /\ Running.held \subseteq live /\ Running.cache \subseteq live
           /\ Waiting \subseteq live
           /\ \A h \in live : refs[h] \subseteq live
           /\ \A h \in live : cached[h] # None => cached[h] \in live
           /\ ~program.caches => Running.cache = {}
<1>1. Len(machines) \in 1 .. Len(machines) /\ Running = machines[Len(machines)]
  BY RunningFacts
<1>2. \A i \in 1 .. Len(machines) :
         machines[i].held \cup Elements(machines[i].waiting) \subseteq live /\ machines[i].cache \subseteq live
  BY DEF IInv, ImportersProtected, CachedFieldsLive
<1>3. \A h \in live : Edges(h) \subseteq live
  BY DEF IInv, ClosedHeap
<1>4. Waiting \subseteq live
  BY <1>2 DEF Waiting
<1>5. ~program.caches => Running.cache = {}
  BY <1>1 DEF IInv, AsProgram
<1> QED
  BY <1>1, <1>2, <1>3, <1>4, <1>5 DEF Edges

\* A new cell leads to cells that are there and is the only import of its file
LEMMA HeapKept ==
    ASSUME MarksInv, IInv, UNCHANGED <<live, used, file, refs>> \/ NewCell, UNCHANGED <<cached, program>>
    PROVE  /\ ClosedHeap' /\ UnusedBlank' /\ OneImport' /\ live \subseteq live'
           /\ ~program.imports => \A h \in Handle : file'[h] = None
           /\ \A h \in live : file'[h] = file[h]
<1>1. ClosedHeap /\ UnusedBlank /\ OneImport /\ AsProgram
  BY DEF IInv
<1>2. CASE UNCHANGED <<live, used, file, refs>>
  BY <1>1, <1>2 DEF ClosedHeap, UnusedBlank, OneImport, AsProgram, Edges
<1>3. CASE NewCell
  <2>1. PICK g : \E f \in File \cup {None} : \E rs \in SUBSET Running.held :
                    /\ CellsAdd(g, f, rs)
                    /\ f # None => program.imports /\ \A e \in live : file[e] # f
    BY <1>3 DEF NewCell
  <2>2. PICK f \in File \cup {None} : \E rs \in SUBSET Running.held :
                    /\ CellsAdd(g, f, rs)
                    /\ f # None => program.imports /\ \A e \in live : file[e] # f
    BY <2>1
  <2>3. PICK rs \in SUBSET Running.held :
                    /\ CellsAdd(g, f, rs)
                    /\ f # None => program.imports /\ \A e \in live : file[e] # f
    BY <2>2
  <2>4. TypeOK /\ rs \in SUBSET Handle /\ rs \subseteq live
    BY RunningFacts, LiveFacts DEF MarksInv
  <2>5. /\ g \in Handle \ used /\ live' = live \cup {g} /\ used' = used \cup {g}
        /\ file'[g] = f /\ refs'[g] = rs
        /\ \A h \in Handle \ {g} : file'[h] = file[h] /\ refs'[h] = refs[h]
    BY <2>3, <2>4, CellsAddFacts
  <2>6. g \notin live /\ cached[g] = None /\ live \subseteq Handle
    BY <1>1, <2>5, RunningFacts DEF UnusedBlank
  <2>7. ClosedHeap'
    <3> SUFFICES ASSUME NEW h \in live' PROVE Edges(h)' \subseteq live'
      BY DEF ClosedHeap
    <3>1. CASE h = g
      BY <2>4, <2>5, <2>6, <3>1 DEF Edges
    <3>2. CASE h # g
      <4>1. h \in live /\ refs'[h] = refs[h]
        BY <2>5, <2>6, <3>2
      <4> QED
        BY <1>1, <2>5, <4>1 DEF Edges, ClosedHeap
    <3> QED
      BY <3>1, <3>2
  <2>8. UnusedBlank'
    BY <1>1, <2>5 DEF UnusedBlank
  <2>9. OneImport'
    BY <1>1, <2>3, <2>5, <2>6 DEF OneImport
  <2>10. ~program.imports => \A h \in Handle : file'[h] = None
    BY <1>1, <2>3, <2>5 DEF AsProgram
  <2> QED
    BY <2>5, <2>6, <2>7, <2>8, <2>9, <2>10
<1> QED
  BY <1>2, <1>3

\* The running machine changes, and the others keep what they need
LEMMA ValueStepKeepsTame ==
    ASSUME MarksInv, IInv, MarksInv', UNCHANGED <<program, external, evaluating, cached>>,
           UNCHANGED <<live, used, file, refs>> \/ NewCell,
           NEW m \in Machine, Become(m), m.waiting = Running.waiting,
           m.held \subseteq live', m.cache \subseteq live', ~program.caches => m.cache = {}
    PROVE  IInv'
<1>1. /\ ClosedHeap' /\ UnusedBlank' /\ OneImport' /\ live \subseteq live'
      /\ ~program.imports => \A h \in Handle : file'[h] = None
      /\ \A h \in live : file'[h] = file[h]
  BY HeapKept
<1>2. /\ Len(machines) \in Nat /\ Len(machines) > 0 /\ Len(external) = Len(machines) - 1
      /\ Len(machines') = Len(machines) /\ machines'[Len(machines)] = m
      /\ \A i \in 1 .. Len(machines) - 1 : machines'[i] = machines[i]
  <2>1. machines \in Seq(Machine) /\ Len(machines) \in Nat /\ Len(machines) > 0
    BY RunningFacts
  <2> QED
    BY <2>1, BecomeFacts, RunningFacts
<1>3. Elements(m.waiting) = {}
  BY RunningFacts, EmptySeq DEF Elements
<1>4. ASSUME NEW i \in 1 .. Len(machines')
      PROVE  /\ machines'[i].held \cup Elements(machines'[i].waiting) \subseteq live'
             /\ machines'[i].cache \subseteq live' /\ (~program.caches => machines'[i].cache = {})
  <2>1. CASE i = Len(machines)
    BY <1>2, <1>3, <2>1
  <2>2. CASE i # Len(machines)
    <3>1. i \in 1 .. Len(machines) /\ machines'[i] = machines[i]
      BY <1>2, <2>2
    <3> QED
      BY <1>1, <3>1 DEF IInv, ImportersProtected, CachedFieldsLive, AsProgram
  <2> QED
    BY <2>1, <2>2
<1>5. ImportersProtected' /\ CachedFieldsLive'
  <2>1. ImportersProtected'
    BY <1>4 DEF ImportersProtected
  <2>2. CachedFieldsLive'
    BY <1>4 DEF CachedFieldsLive
  <2> QED
    BY <2>1, <2>2
<1>6. AsProgram'
  BY <1>1, <1>2, <1>4 DEF IInv, AsProgram
<1>7. WaitingImports'
  <2>1. Waiting' = Waiting
    BY DEF MarksInv, EvaluatingExact
  <2> QED
    BY <1>1, <2>1, LiveFacts DEF IInv, WaitingImports
<1>8. Rooted'
  BY <1>2 DEF IInv, Rooted
<1> QED
  BY <1>1, <1>5, <1>6, <1>7, <1>8 DEF IInv

\* The importer pushes what it holds and the import; the machine of the file has nothing
LEMMA ForceImportKeepsTame ==
    ASSUME MarksInv, IInv, NEW h \in Handle, NEW popped \in BOOLEAN, ForceImport(h, popped),
           UNCHANGED program
    PROVE  IInv'
<1>1. /\ MarksInv' /\ h \in Running.held /\ file[h] # None /\ h \in live
      /\ UNCHANGED <<live, used, file, refs, cached>>
  BY ForceImportFacts, LiveFacts
<1>2. ClosedHeap' /\ UnusedBlank' /\ OneImport' /\ program.imports
  BY <1>1 DEF IInv, ClosedHeap, UnusedBlank, OneImport, Edges, AsProgram
<1>3. ASSUME cached[h] # None, UNCHANGED <<external, evaluating>>,
             NEW m \in Machine, m.held \subseteq Running.held \cup {cached[h]},
             m.cache = Running.cache, m.waiting = Running.waiting, Become(m)
      PROVE  IInv'
  <2>1. m.held \subseteq live' /\ m.cache \subseteq live' /\ (~program.caches => m.cache = {})
    BY <1>1, <1>3, LiveFacts
  <2> QED
    BY <1>1, <1>3, <2>1, ValueStepKeepsTame
<1>4. ASSUME NEW k \in Nat, k = Len(machines), k > 0,
             Len(machines') = k + 1,
             \A i \in 1 .. k - 1 : machines'[i] = machines[i] /\ external'[i] = external[i],
             machines'[k].held \subseteq Running.held,
             machines'[k].cache = Running.cache,
             Elements(machines'[k].waiting) = {h},
             machines'[k + 1] = Fresh,
             Len(external') = k,
             external'[k] = machines'[k].held \cup {h},
             evaluating' = evaluating \cup {h}
      PROVE  IInv'
  <2>1. Fresh.held = {} /\ Fresh.cache = {} /\ Elements(Fresh.waiting) = {}
    BY EmptySeq DEF Fresh, Elements
  <2>2. ASSUME NEW i \in 1 .. k + 1
        PROVE  /\ machines'[i].held \cup Elements(machines'[i].waiting) \subseteq live
               /\ machines'[i].cache \subseteq live /\ (~program.caches => machines'[i].cache = {})
    <3>1. CASE i \in 1 .. k - 1
      <4>1. i \in 1 .. Len(machines) /\ machines'[i] = machines[i]
        BY <1>4, <3>1
      <4> QED
        BY <4>1 DEF IInv, ImportersProtected, CachedFieldsLive, AsProgram
    <3>2. CASE i = k
      BY <1>1, <1>4, <3>2, LiveFacts
    <3>3. CASE i = k + 1
      BY <1>4, <2>1, <3>3
    <3> QED
      BY <3>1, <3>2, <3>3
  <2>3. ImportersProtected'
    BY <1>1, <1>4, <2>2 DEF ImportersProtected
  <2>4. CachedFieldsLive'
    BY <1>1, <1>4, <2>2 DEF CachedFieldsLive
  <2>5. AsProgram'
    BY <1>2, <1>4, <2>2 DEF IInv, AsProgram
  <2>6. WaitingImports'
    <3>1. Waiting' = Waiting \cup {h}
      BY <1>1, <1>4 DEF MarksInv, EvaluatingExact
    <3> QED
      BY <1>1, <3>1 DEF IInv, WaitingImports
  <2>7. Rooted'
    <3> SUFFICES ASSUME program.collects, NEW i \in 1 .. k
                 PROVE  machines'[i].held \cup Elements(machines'[i].waiting) \subseteq external'[i]
      BY <1>4 DEF Rooted
    <3>1. CASE i = k
      BY <1>4, <3>1
    <3>2. CASE i # k
      <4>1. i \in 1 .. k - 1 /\ i \in 1 .. Len(external)
        BY <1>4, <3>2, RunningFacts
      <4>2. machines[i].held \cup Elements(machines[i].waiting) \subseteq external[i]
        BY <4>1 DEF IInv, Rooted
      <4> QED
        BY <1>4, <4>1, <4>2
    <3> QED
      BY <3>1, <3>2
  <2> QED
    BY <1>2, <2>3, <2>4, <2>5, <2>6, <2>7 DEF IInv
<1> QED
  BY <1>3, <1>4, ForceImportFacts, RunningFacts

\* The importer has the value and waits no more; or it begins with another import,
\* which happens only in programs that do not collect garbage
LEMMA FileReturnsKeepsTame ==
    ASSUME MarksInv, IInv, NEW v \in Handle, FileReturns(v), UNCHANGED program
    PROVE  IInv'
<1> DEFINE k == Len(machines) - 1
           value == IF file[v] # None THEN cached[v] ELSE v
<1>1. k \in Nat /\ Len(machines) = k + 1 /\ k > 0 /\ value = (IF file[v] # None THEN cached[v] ELSE v)
  BY RunningFacts DEF FileReturns
<1> HIDE DEF k, value
<1>2. Fresh.held = {} /\ Fresh.cache = {} /\ Elements(Fresh.waiting) = {} /\ Elements(<<>>) = {}
  BY EmptySeq DEF Fresh, Elements
<1>3. program.imports
  BY <1>1 DEF IInv, AsProgram
<1>4. \A i \in 1 .. k + 1 :
         /\ machines[i].held \cup Elements(machines[i].waiting) \subseteq live
         /\ machines[i].cache \subseteq live /\ (~program.caches => machines[i].cache = {})
  BY <1>1 DEF IInv, ImportersProtected, CachedFieldsLive, AsProgram
<1>5. CASE value # None
  <2>1. /\ MarksInv' /\ v \in Running.held /\ value \in Handle
        /\ Len(machines') = k /\ Len(external') = k - 1
        /\ \A i \in 1 .. k - 1 : machines'[i] = machines[i] /\ external'[i] = external[i]
        /\ machines'[k].held = machines[k].held \cup {value}
        /\ machines'[k].cache = machines[k].cache
        /\ machines'[k].waiting = <<>>
        /\ Elements(machines[k].waiting) \subseteq Waiting
        /\ \A h \in Handle : cached'[h] = IF h \in Elements(machines[k].waiting)
                                           THEN value ELSE cached[h]
        /\ UNCHANGED <<live, used, file, refs>>
    BY <1>1, <1>5, ReturnValueFacts
  <2>2. value \in live /\ v \in live
    BY <1>1, <1>5, <2>1, LiveFacts
  <2>3. ClosedHeap'
    <3> SUFFICES ASSUME NEW h \in live PROVE Edges(h)' \subseteq live
      BY <2>1 DEF ClosedHeap
    <3>1. h \in Handle /\ refs[h] \subseteq live /\ (cached[h] # None => cached[h] \in live)
      BY RunningFacts, LiveFacts
    <3>2. cached'[h] # None => cached'[h] \in live
      BY <2>1, <2>2, <3>1
    <3> QED
      BY <2>1, <3>1, <3>2 DEF Edges
  <2>4. UnusedBlank'
    <3>1. Elements(machines[k].waiting) \subseteq used
      BY <2>1, RunningFacts, LiveFacts
    <3> QED
      BY <2>1, <3>1 DEF IInv, UnusedBlank
  <2>5. OneImport'
    BY <2>1 DEF IInv, OneImport
  <2>6. ASSUME NEW i \in 1 .. k
        PROVE  /\ machines'[i].held \cup Elements(machines'[i].waiting) \subseteq live
               /\ machines'[i].cache \subseteq live /\ (~program.caches => machines'[i].cache = {})
    <3>1. CASE i \in 1 .. k - 1
      <4>1. i \in 1 .. k + 1 /\ machines'[i] = machines[i]
        BY <1>1, <2>1, <3>1
      <4> QED
        BY <1>4, <4>1
    <3>2. CASE i = k
      <4>1. i \in 1 .. k + 1
        BY <1>1
      <4> QED
        BY <1>2, <1>4, <2>1, <2>2, <3>2, <4>1
    <3> QED
      BY <1>1, <3>1, <3>2
  <2>7. ImportersProtected'
    BY <2>1, <2>6 DEF ImportersProtected
  <2>8. CachedFieldsLive'
    BY <2>1, <2>6 DEF CachedFieldsLive
  <2>9. AsProgram'
    BY <1>3, <2>1, <2>6 DEF IInv, AsProgram
  <2>10. WaitingImports'
    <3>1. Waiting' \subseteq Waiting
      <4>1. Waiting' = evaluating' /\ Waiting = evaluating
        BY <2>1 DEF MarksInv, EvaluatingExact
      <4>2. Complete(Elements(Last(Front(machines)).waiting), value)
        BY <1>1, <1>5 DEF FileReturns, IsImport
      <4> QED
        BY <4>1, <4>2 DEF Complete
    <3> QED
      BY <2>1, <3>1 DEF IInv, WaitingImports
  <2>11. Rooted'
    <3> SUFFICES ASSUME program.collects, NEW i \in 1 .. k - 1
                 PROVE  machines'[i].held \cup Elements(machines'[i].waiting) \subseteq external'[i]
      BY <2>1 DEF Rooted
    <3>1. i \in 1 .. Len(external)
      BY <1>1, RunningFacts
    <3>2. machines[i].held \cup Elements(machines[i].waiting) \subseteq external[i]
      BY <3>1 DEF IInv, Rooted
    <3> QED
      BY <2>1, <3>2
  <2> QED
    BY <2>3, <2>4, <2>5, <2>7, <2>8, <2>9, <2>10, <2>11 DEF IInv
<1>6. CASE value = None
  <2>1. /\ MarksInv' /\ v \in Running.held /\ file[v] # None /\ program.chains
        /\ Len(machines') = k + 1
        /\ \A i \in 1 .. k - 1 : machines'[i] = machines[i]
        /\ machines'[k].held = machines[k].held /\ machines'[k].cache = machines[k].cache
        /\ machines'[k + 1] = Fresh
        /\ evaluating' = evaluating \cup {v}
        /\ UNCHANGED <<live, used, file, refs, cached>>
    BY <1>1, <1>6, ReturnImportFacts
  <2>2. v \in live /\ ~program.collects
    BY <2>1, LiveFacts DEF IInv, AsProgram, Tame
  <2>3. Waiting' = Waiting \cup {v}
    BY <2>1 DEF MarksInv, EvaluatingExact
  <2>4. \A i \in 1 .. k + 1 : Elements(machines'[i].waiting) \subseteq live
    <3>1. \A i \in 1 .. k + 1 : Elements(machines'[i].waiting) \subseteq Waiting'
      BY <2>1 DEF Waiting
    <3> QED
      BY <2>2, <2>3, <3>1, LiveFacts
  <2>5. ASSUME NEW i \in 1 .. k + 1
        PROVE  /\ machines'[i].held \subseteq live /\ machines'[i].cache \subseteq live
               /\ (~program.caches => machines'[i].cache = {})
    <3>1. CASE i \in 1 .. k - 1
      <4>1. i \in 1 .. k + 1 /\ machines'[i] = machines[i]
        BY <1>1, <2>1, <3>1
      <4> QED
        BY <1>4, <4>1
    <3>2. CASE i = k
      BY <1>4, <2>1, <3>2
    <3>3. CASE i = k + 1
      BY <1>2, <2>1, <3>3
    <3> QED
      BY <1>1, <3>1, <3>2, <3>3
  <2>6. ImportersProtected'
    BY <2>1, <2>4, <2>5 DEF ImportersProtected
  <2>7. CachedFieldsLive'
    BY <2>1, <2>5 DEF CachedFieldsLive
  <2>8. AsProgram'
    BY <1>3, <2>1, <2>5 DEF IInv, AsProgram
  <2>9. ClosedHeap' /\ UnusedBlank' /\ OneImport'
    BY <2>1 DEF IInv, ClosedHeap, UnusedBlank, OneImport, Edges
  <2>10. WaitingImports'
    BY <2>1, <2>3 DEF IInv, WaitingImports
  <2>11. Rooted'
    BY <2>2 DEF Rooted
  <2> QED
    BY <2>6, <2>7, <2>8, <2>9, <2>10, <2>11 DEF IInv
<1> QED
  BY <1>5, <1>6

LEMMA UnwindKeepsTame ==
    ASSUME MarksInv, IInv, Unwind, UNCHANGED program
    PROVE  IInv'
<1>1. /\ MarksInv' /\ Waiting' = {} /\ Len(machines') = 1
      /\ machines'[1].held = machines[1].held /\ machines'[1].cache = machines[1].cache
      /\ 1 \in 1 .. Len(machines)
  BY UnwindKeepsMarks, RunningFacts
<1>2. UNCHANGED <<live, used, file, refs, cached>> /\ external' = <<>>
  BY DEF Unwind, cellVars
<1>3. ClosedHeap' /\ UnusedBlank' /\ OneImport'
  BY <1>2 DEF IInv, ClosedHeap, UnusedBlank, OneImport, Edges
<1>4. /\ machines[1].held \subseteq live /\ machines[1].cache \subseteq live
      /\ (~program.caches => machines[1].cache = {})
  BY <1>1 DEF IInv, ImportersProtected, CachedFieldsLive, AsProgram
<1>5. Elements(machines'[1].waiting) \subseteq Waiting'
  BY <1>1 DEF Waiting
<1>6. AsProgram'
  BY <1>1, <1>2, <1>4 DEF IInv, AsProgram
<1>7. ImportersProtected' /\ CachedFieldsLive'
  BY <1>1, <1>2, <1>4, <1>5 DEF ImportersProtected, CachedFieldsLive
<1>8. WaitingImports' /\ Rooted'
  BY <1>1, <1>2, EmptySeq DEF WaitingImports, Rooted
<1> QED
  BY <1>3, <1>6, <1>7, <1>8 DEF IInv

\* The collector runs in one machine and keeps what the others need: it is among the
\* external roots, as far as the program has it at all
LEMMA CollectKeepsTame ==
    ASSUME MarksInv, IInv, CollectGarbage, UNCHANGED program
    PROVE  IInv'
<1> DEFINE roots == Running.held \cup Running.cache \cup UNION Elements(external)
<1>1. /\ program.collects /\ live' = Reachable(roots)
      /\ UNCHANGED <<used, file, refs, cached, evaluating, machines, external>>
  BY DEF CollectGarbage, cellVars
<1>2. /\ live' \subseteq live /\ roots \cap live \subseteq live'
      /\ \A h \in live' : Edges(h) \cap live \subseteq live'
  BY <1>1, ReachableFacts
<1>3. ClosedHeap'
  <2> SUFFICES ASSUME NEW h \in live' PROVE Edges(h) \subseteq live'
    BY <1>1 DEF ClosedHeap, Edges
  <2>1. Edges(h) \subseteq live
    BY <1>2 DEF IInv, ClosedHeap
  <2> QED
    BY <1>2, <2>1
<1>4. ASSUME NEW i \in 1 .. Len(machines)
      PROVE  machines[i].held \cup Elements(machines[i].waiting) \subseteq live'
  <2>1. machines[i].held \cup Elements(machines[i].waiting) \subseteq live
    BY DEF IInv, ImportersProtected
  <2>2. CASE i = Len(machines)
    <3>1. machines[i].held \subseteq roots /\ Elements(machines[i].waiting) = {}
      BY <2>2, RunningFacts, EmptySeq DEF Elements
    <3> QED
      BY <1>2, <2>1, <3>1
  <2>3. CASE i # Len(machines)
    <3>1. i \in 1 .. Len(external)
      BY <2>3, RunningFacts
    <3>2. machines[i].held \cup Elements(machines[i].waiting) \subseteq external[i]
      BY <1>1, <3>1 DEF IInv, Rooted
    <3>3. external[i] \subseteq roots
      BY <3>1 DEF Elements
    <3> QED
      BY <1>2, <2>1, <3>2, <3>3
  <2> QED
    BY <2>2, <2>3
<1>5. ASSUME NEW i \in 1 .. Len(machines)
      PROVE  machines[i].cache \subseteq live'
  <2>1. machines[i].cache \subseteq live
    BY DEF IInv, CachedFieldsLive
  <2>2. CASE ~program.caches
    BY <2>2 DEF IInv, AsProgram
  <2>3. CASE program.caches
    <3>1. ~program.imports
      BY <1>1, <2>3 DEF IInv, AsProgram, Tame
    <3>2. Len(machines) = 1
      BY <3>1 DEF IInv, AsProgram
    <3>3. machines[i] = Running
      BY <3>2, RunningFacts
    <3> QED
      BY <1>2, <2>1, <3>3
  <2> QED
    BY <2>2, <2>3
<1>6. ImportersProtected' /\ CachedFieldsLive'
  <2>1. ImportersProtected'
    BY <1>1, <1>4 DEF ImportersProtected
  <2>2. CachedFieldsLive'
    BY <1>1, <1>5 DEF CachedFieldsLive
  <2> QED
    BY <2>1, <2>2
<1>7. AsProgram' /\ Rooted' /\ UnusedBlank'
  BY <1>1 DEF IInv, AsProgram, Rooted, UnusedBlank
<1>8. OneImport'
  BY <1>1, <1>2 DEF IInv, OneImport
<1>9. WaitingImports'
  BY <1>1 DEF IInv, WaitingImports, Waiting
<1> QED
  BY <1>3, <1>6, <1>7, <1>8, <1>9 DEF IInv

LEMMA NextTame ==
    MarksInv /\ IInv /\ [Next]_vars => IInv'
<1> SUFFICES ASSUME MarksInv, IInv, [Next]_vars PROVE IInv'
  OBVIOUS
<1>1. CASE UNCHANGED vars
  BY <1>1 DEF vars, cellVars, IInv, AsProgram, ClosedHeap, Edges, UnusedBlank, OneImport,
              WaitingImports, Waiting, Rooted, ImportersProtected, CachedFieldsLive, Elements
<1> SUFFICES ASSUME Step, UNCHANGED program PROVE IInv'
  BY <1>1 DEF Next
<1>2. CASE ValueStep
  <2>1. /\ UNCHANGED <<external, evaluating, cached>>
        /\ UNCHANGED <<live, used, file, refs>> \/ NewCell
    BY <1>2, ValueStepFacts
  <2>2. PICK m \in Machine : Within(m) /\ Become(m)
    BY <1>2, ValueStepFacts
  <2>3. live \subseteq live' /\ MarksInv'
    BY <2>1, NewCellFacts, NextMarks
  <2>4. /\ m.waiting = Running.waiting /\ m.held \subseteq live'
        /\ m.cache \subseteq live' /\ (~program.caches => m.cache = {})
    BY <2>2, <2>3, LiveFacts DEF Within
  <2> QED
    BY <2>1, <2>2, <2>3, <2>4, ValueStepKeepsTame
<1>3. ASSUME NEW h \in Handle, NEW popped \in BOOLEAN, ForceImport(h, popped) PROVE IInv'
  BY <1>3, ForceImportKeepsTame
<1>4. ASSUME NEW v \in Handle, FileReturns(v) PROVE IInv'
  BY <1>4, FileReturnsKeepsTame
<1>5. CASE Unwind
  BY <1>5, UnwindKeepsTame
<1>6. CASE CollectGarbage
  BY <1>6, CollectKeepsTame
<1> QED
  BY <1>2, <1>3, <1>4, <1>5, <1>6, StepCases

\* In tame programs the roots that are pushed protect all that the machines need
THEOREM TameInvariant ==
    ASSUME \A p \in Programs : Tame(p)
    PROVE  Spec => []IInv
<1>1. Init => IInv
  BY InitTame
<1> QED
  BY <1>1, NextTame, MarksInvariant, PTL DEF Spec

\* No collection, in whichever machine, takes what a waiting machine holds or forces
THEOREM ImportersAreProtected ==
    ASSUME \A p \in Programs : Tame(p)
    PROVE  Spec => []ImportersProtected
<1>1. IInv => ImportersProtected
  BY DEF IInv
<1> QED
  BY <1>1, TameInvariant, PTL

\* No file is evaluated in the course of its own evaluation: its import is still there,
\* so that another import of it is the same one, and is marked
THEOREM CyclesAreDetected ==
    ASSUME \A p \in Programs : Tame(p)
    PROVE  Spec => []CyclesDetected
<1>1. MarksInv /\ IInv => CyclesDetected
  <2> SUFFICES ASSUME MarksInv, IInv,
                      NEW i \in 1 .. Len(machines), NEW j \in 1 .. Len(machines),
                      NEW a \in 1 .. Len(machines[i].waiting),
                      NEW b \in 1 .. Len(machines[j].waiting),
                      file[machines[i].waiting[a]] = file[machines[j].waiting[b]]
               PROVE  i = j /\ a = b
    BY DEF CyclesDetected
  <2>1. machines[i].waiting[a] \in Waiting /\ machines[j].waiting[b] \in Waiting
    BY WaitingFacts
  <2>2. machines[i].waiting[a] = machines[j].waiting[b]
    BY <2>1, LiveFacts DEF IInv, WaitingImports, OneImport
  <2>3. \A c \in 1 .. Len(machines[i].waiting) : \A d \in 1 .. Len(machines[j].waiting) :
           machines[i].waiting[c] = machines[j].waiting[d] => i = j /\ c = d
    BY DEF MarksInv, WaitedOnce
  <2> QED
    BY <2>2, <2>3
<1> QED
  BY <1>1, MarksInvariant, TameInvariant, PTL

=============================================================================
