--------------------------- MODULE UpvaluesProofs ---------------------------
(***************************************************************************)
(* Proofs about Upvalues, for any number of variables, closures, frames    *)
(* and machines: the open list is sorted, a variable has one upvalue, and  *)
(* an open upvalue points to the slot of its variable on the machine that  *)
(* will close it.  From there, Upvalues implements Scopes.  All of it      *)
(* where imported files make no tailstrict call at their top level.        *)
(***************************************************************************)
EXTENDS Upvalues, SequenceTheorems, NaturalsInduction, WellFoundedInduction, TLAPS

----------------------------------------------------------------------------
(* The inductive invariant *)

\* The machines: those that wait, in the order of their imports, and the one that runs
Running == [stack |-> stack, frames |-> frames, open |-> open]
Level == Len(suspended) + 1
Levels == 1 .. Level
Mach(a) == IF a = Level THEN Running ELSE suspended[a]

\* Frames lie above one another, each with its fixed slots on the stack; the first is
\* the script.
FramesNested(s, f) ==
    /\ Len(f) > 0 /\ f[1].base = 1 /\ f[1].back = ToStack
    /\ \A i \in 1 .. Len(f) : f[i].base > 0
    /\ \A i, j \in 1 .. Len(f) : i < j => f[i].base + f[i].fixed <= f[j].base
    /\ f[Len(f)].base + f[Len(f)].fixed <= Len(s) + 1

\* A result is written back below the frame that computes it, to the slot of a variable;
\* or to an upvalue that is closed.
BacksSound(s, f, cells) ==
    \A i \in 1 .. Len(f) :
        LET back == f[i].back
        IN  /\ back.to = "slot" => back.slot \in 1 .. f[i].base - 1 /\ s[back.slot].who # Nobody
            /\ back.to = "upvalue" => back.up \in DOMAIN cells /\ cells[back.up].loc = 0

\* The open list of a machine points to the slots of the variables, sorted
OpenSound(s, op, cells) ==
    /\ \A i \in 1 .. Len(op) :
          /\ op[i] \in DOMAIN cells /\ cells[op[i]].loc \in 1 .. Len(s)
          /\ s[cells[op[i]].loc].who = cells[op[i]].of
    /\ \A i, j \in 1 .. Len(op) : i < j => cells[op[i]].loc > cells[op[j]].loc

MachineSound(m, cells) ==
    /\ FramesNested(m.stack, m.frames)
    /\ BacksSound(m.stack, m.frames, cells)
    /\ OpenSound(m.stack, m.open, cells)

MachinesSound == \A a \in Levels : MachineSound(Mach(a), upvalue)

\* A variable has one slot on one machine
OneSlotPerVariable ==
    \A a, b \in Levels : \A i \in 1 .. Len(Mach(a).stack), j \in 1 .. Len(Mach(b).stack) :
        /\ Mach(a).stack[i].who # Nobody
        /\ Mach(a).stack[i].who = Mach(b).stack[j].who
        => a = b /\ i = j

\* The slot of a variable whose upvalue is closed is gone, or about to be
ClosedLeft ==
    \A u \in DOMAIN upvalue : upvalue[u].loc = 0 =>
        \A a \in Levels : \A i \in 1 .. Len(Mach(a).stack) :
            Mach(a).stack[i].who = upvalue[u].of =>
                /\ phase = "closed" /\ a = Level /\ i = Len(stack)
                /\ upvalue[u].val = stack[i].val

\* The local that is about to leave is on top
PhaseSound ==
    /\ phase # "run" => Len(stack) > Above /\ Top.who # Nobody
    /\ phase = "closed" => \A i \in 1 .. Len(open) : upvalue[open[i]].loc # Len(stack)

\* Files that are imported do not reuse the frame of their script
ScriptsPlain == \A a \in Levels : a > 1 => Mach(a).frames[1].fixed = 0

\* Closures and upvalues belong to machines (kl and ul say which): what a machine holds
\* belongs to it, and so does what that leads to.
Owned(kl, ul) ==
    /\ kl \in [DOMAIN env -> Levels] /\ ul \in [DOMAIN upvalue -> Levels]
    /\ \A a \in Levels :
          /\ \A i \in 1 .. Len(Mach(a).stack) :
                LET x == Mach(a).stack[i].val
                IN  x \in Closure => x \in DOMAIN env /\ kl[x] = a
          /\ \A i \in 1 .. Len(Mach(a).frames) :
                LET f == Mach(a).frames[i]
                IN  /\ f.clo # Nobody => f.clo \in DOMAIN env /\ kl[f.clo] = a
                    /\ f.back.to = "upvalue" => ul[f.back.up] = a
    /\ \A c \in DOMAIN env : \A u \in env[c] : ul[u] = kl[c]
    /\ \A u \in DOMAIN upvalue :
          IF upvalue[u].loc # 0
          THEN \E i \in 1 .. Len(Mach(ul[u]).open) : Mach(ul[u]).open[i] = u
          ELSE upvalue[u].val \in Closure =>
                  upvalue[u].val \in DOMAIN env /\ kl[upvalue[u].val] = ul[u]

Ownership ==
    \E kl \in [DOMAIN env -> Levels], ul \in [DOMAIN upvalue -> Levels] : Owned(kl, ul)

\* Temporaries have values.
TemporariesSet ==
    \A a \in Levels : \A i \in 1 .. Len(Mach(a).stack) :
        Mach(a).stack[i].who = Nobody => Mach(a).stack[i].val \in Value

\* The frames of the thunks being evaluated, from the first machine to the last, are
\* those of the variables in forcing (at says which is whose).
Awaits(m, i) ==
    LET back == m.frames[i].back
    IN  IF back.to = "slot" THEN m.stack[back.slot].who ELSE upvalue[back.up].of

Earlier(x, y) == x[1] < y[1] \/ (x[1] = y[1] /\ x[2] < y[2])

ForcedAt(at) ==
    /\ at \in [1 .. Len(forcing) -> Levels \X (Nat \ {0})]
    /\ \A k \in 1 .. Len(forcing) :
          LET m == Mach(at[k][1])
          IN  /\ at[k][2] <= Len(m.frames) /\ m.frames[at[k][2]].back.to # "stack"
              /\ forcing[k] = Awaits(m, at[k][2])
    /\ \A a \in Levels : \A i \in 1 .. Len(Mach(a).frames) :
          Mach(a).frames[i].back.to # "stack" => \E k \in 1 .. Len(forcing) : at[k] = <<a, i>>
    /\ \A j, k \in 1 .. Len(forcing) : j < k => Earlier(at[j], at[k])

ForcingExact == \E at : ForcedAt(at)

IInv ==
    /\ TypeOK /\ MachinesSound /\ OneSlotPerVariable /\ OneUpvaluePerVariable
    /\ ClosedLeft /\ PhaseSound /\ ScriptsPlain /\ TemporariesSet
    /\ Ownership /\ ForcingExact

----------------------------------------------------------------------------
(* Facts *)

LEMMA LeastIn ==
    ASSUME NEW T \in SUBSET Nat, T # {}
    PROVE  \E first \in T : \A j \in T : first <= j
<1> DEFINE R == OpToRel(<, Nat)
<1>1. \A i, j \in Nat : i < j => <<i, j>> \in R
  BY DEF OpToRel
<1>2. IsWellFoundedOn(R, Nat)
  BY NatLessThanWellFounded
<1> HIDE DEF R
<1>3. PICK first \in T : \A j \in T : ~(<<j, first>> \in R)
  BY <1>2, WFMin
<1>4. ASSUME NEW j \in T PROVE first <= j
  <2>1. first \in Nat /\ j \in Nat /\ ~(j < first)
    BY <1>1, <1>3
  <2> QED
    BY <2>1
<1> QED
  BY <1>4

LEMMA MachFacts ==
    ASSUME TypeOK
    PROVE  /\ Len(suspended) \in Nat /\ Level = Len(suspended) + 1 /\ Level \in Levels
           /\ Mach(Level) = Running /\ Running \in Machine
           /\ Running.stack = stack /\ Running.frames = frames /\ Running.open = open
           /\ \A a \in Levels : Mach(a) \in Machine
           /\ \A a \in Levels : a # Level => a \in 1 .. Len(suspended) /\ Mach(a) = suspended[a]
<1>1. Len(suspended) \in Nat /\ suspended \in Seq(Machine)
  BY DEF TypeOK
<1>2. Level = Len(suspended) + 1 /\ Level \in Levels /\ Mach(Level) = Running
  BY <1>1 DEF Level, Levels, Mach
<1>3. /\ Running \in Machine
      /\ Running.stack = stack /\ Running.frames = frames /\ Running.open = open
  BY DEF Running, Machine, TypeOK
<1>4. ASSUME NEW a \in Levels, a # Level
      PROVE  a \in 1 .. Len(suspended) /\ Mach(a) = suspended[a] /\ Mach(a) \in Machine
  <2>1. a \in 1 .. Len(suspended)
    BY <1>1, <1>4 DEF Levels, Level
  <2> QED
    BY <1>1, <1>4, <2>1 DEF Mach
<1> QED
  BY <1>1, <1>2, <1>3, <1>4

LEMMA MachineFacts ==
    ASSUME NEW m \in Machine
    PROVE  /\ m.stack \in Seq(Slot) /\ Len(m.stack) \in Nat
           /\ m.frames \in Seq(Frame) /\ Len(m.frames) \in Nat
           /\ m.open \in Seq(Up) /\ Len(m.open) \in Nat
           /\ \A i \in 1 .. Len(m.stack) :
                 /\ m.stack[i].val \in Value \cup {Unset} /\ m.stack[i].who \in Var \cup {Nobody}
                 /\ m.stack[i] \in Slot
           /\ \A i \in 1 .. Len(m.frames) :
                 LET f == m.frames[i]
                 IN  /\ f.clo \in Closure \cup {Nobody} /\ f.base \in Nat /\ f.fixed \in Nat
                     /\ f.back.to \in {"stack", "slot", "upvalue"} /\ f.back.slot \in Nat
                     /\ f.back.up \in Up \cup {Nobody} /\ f.back \in Target /\ f \in Frame
<1>1. m.stack \in Seq(Slot) /\ m.frames \in Seq(Frame) /\ m.open \in Seq(Up)
  BY DEF Machine
<1>2. \A i \in 1 .. Len(m.stack) : m.stack[i] \in Slot
  BY <1>1
<1>3. \A i \in 1 .. Len(m.frames) : m.frames[i] \in Frame /\ m.frames[i].back \in Target
  <2> SUFFICES ASSUME NEW i \in 1 .. Len(m.frames)
               PROVE  m.frames[i] \in Frame /\ m.frames[i].back \in Target
    OBVIOUS
  <2>1. m.frames[i] \in Frame
    BY <1>1
  <2> QED
    BY <2>1 DEF Frame
<1>4. \A i \in 1 .. Len(m.stack) :
         m.stack[i].val \in Value \cup {Unset} /\ m.stack[i].who \in Var \cup {Nobody}
  BY <1>2 DEF Slot
<1>5. \A i \in 1 .. Len(m.frames) :
         LET f == m.frames[i]
         IN  /\ f.clo \in Closure \cup {Nobody} /\ f.base \in Nat /\ f.fixed \in Nat
             /\ f.back.to \in {"stack", "slot", "upvalue"} /\ f.back.slot \in Nat
             /\ f.back.up \in Up \cup {Nobody}
  BY <1>3 DEF Frame, Target
<1>6. Len(m.stack) \in Nat /\ Len(m.frames) \in Nat /\ Len(m.open) \in Nat
  BY <1>1
<1> QED
  BY <1>1, <1>2, <1>3, <1>4, <1>5, <1>6

\* The running machine
LEMMA RunningFacts ==
    ASSUME IInv
    PROVE  /\ stack \in Seq(Slot) /\ Len(stack) \in Nat /\ frames \in Seq(Frame)
           /\ Len(frames) \in Nat /\ Len(frames) > 0 /\ Len(frames) \in 1 .. Len(frames)
           /\ open \in Seq(Up) /\ Len(open) \in Nat
           /\ Current \in Frame /\ Current.base \in Nat /\ Current.base > 0 /\ Current.fixed \in Nat
           /\ Current.clo \in Closure \cup {Nobody} /\ Current.back \in Target
           /\ Above \in Nat /\ Above = Current.base + Current.fixed /\ Above <= Len(stack) + 1
           /\ FramesNested(stack, frames) /\ BacksSound(stack, frames, upvalue)
           /\ OpenSound(stack, open, upvalue)
           /\ \A i \in 1 .. Len(stack) :
                 /\ stack[i].val \in Value \cup {Unset} /\ stack[i].who \in Var \cup {Nobody}
                 /\ stack[i] \in Slot
                 /\ stack[i].who = Nobody => stack[i].val \in Value
           /\ \A i, j \in 1 .. Len(stack) :
                 stack[i].who # Nobody /\ stack[i].who = stack[j].who => i = j
<1> TypeOK
  BY DEF IInv
<1>1. /\ Level \in Levels /\ Mach(Level) = Running /\ Running \in Machine
      /\ Running.stack = stack /\ Running.frames = frames /\ Running.open = open
  BY MachFacts
<1>2. MachineSound(Running, upvalue)
  BY <1>1 DEF IInv, MachinesSound
<1>3. /\ FramesNested(stack, frames) /\ BacksSound(stack, frames, upvalue)
      /\ OpenSound(stack, open, upvalue)
  BY <1>1, <1>2 DEF MachineSound
<1>4. /\ stack \in Seq(Slot) /\ Len(stack) \in Nat /\ frames \in Seq(Frame)
      /\ Len(frames) \in Nat /\ open \in Seq(Up) /\ Len(open) \in Nat
      /\ \A i \in 1 .. Len(stack) :
            /\ stack[i].val \in Value \cup {Unset} /\ stack[i].who \in Var \cup {Nobody}
            /\ stack[i] \in Slot
  BY <1>1, MachineFacts
<1>5. Len(frames) > 0 /\ Len(frames) \in 1 .. Len(frames)
  BY <1>3, <1>4 DEF FramesNested
<1>6. /\ Current \in Frame /\ Current.base \in Nat /\ Current.fixed \in Nat
      /\ Current.clo \in Closure \cup {Nobody} /\ Current.back \in Target
  BY <1>1, <1>5, MachineFacts DEF Current
<1>7. Current.base > 0 /\ Above \in Nat /\ Above <= Len(stack) + 1 /\ Above = Current.base + Current.fixed
  BY <1>3, <1>5, <1>6 DEF FramesNested, Current, Above
<1>8. \A i \in 1 .. Len(stack) : stack[i].who = Nobody => stack[i].val \in Value
  BY <1>1 DEF IInv, TemporariesSet
<1>9. \A i, j \in 1 .. Len(stack) :
         stack[i].who # Nobody /\ stack[i].who = stack[j].who => i = j
  BY <1>1 DEF IInv, OneSlotPerVariable
<1> QED
  BY <1>3, <1>4, <1>5, <1>6, <1>7, <1>8, <1>9

LEMMA CellFacts ==
    ASSUME TypeOK
    PROVE  \A u \in DOMAIN upvalue :
              /\ u \in Up /\ upvalue[u] \in Cell /\ upvalue[u].loc \in Nat
              /\ upvalue[u].val \in Value \cup {Unset} /\ upvalue[u].of \in Var
              /\ upvalue[u].of # Nobody
<1> SUFFICES ASSUME NEW u \in DOMAIN upvalue
             PROVE  /\ u \in Up /\ upvalue[u] \in Cell /\ upvalue[u].loc \in Nat
                    /\ upvalue[u].val \in Value \cup {Unset} /\ upvalue[u].of \in Var
                    /\ upvalue[u].of # Nobody
  OBVIOUS
<1>1. u \in Up /\ upvalue[u] \in Cell
  BY DEF TypeOK
<1>2. /\ upvalue[u].loc \in Nat /\ upvalue[u].val \in Value \cup {Unset}
      /\ upvalue[u].of \in Var
  BY <1>1 DEF Cell
<1> QED
  BY <1>1, <1>2, MarkersAssumption

\* The walk stops at the first upvalue that is not above l: all that follow are not either
LEMMA WalkFacts ==
    ASSUME IInv, NEW l \in Nat
    PROVE  /\ Walk(l) \in 1 .. Len(open) + 1
           /\ \A j \in 1 .. Walk(l) - 1 : upvalue[open[j]].loc > l
           /\ \A j \in Walk(l) .. Len(open) : upvalue[open[j]].loc <= l
<1> DEFINE loc(i) == upvalue[open[i]].loc
           W(i) == /\ \A j \in 1 .. i - 1 : upvalue[open[j]].loc > l
                   /\ i <= Len(open) => upvalue[open[i]].loc <= l
<1>1. Len(open) \in Nat /\ OpenSound(stack, open, upvalue)
  BY RunningFacts
<1>2. /\ \A i \in 1 .. Len(open) : loc(i) \in Nat
      /\ \A i, j \in 1 .. Len(open) : i < j => loc(i) > loc(j)
  BY <1>1, CellFacts DEF OpenSound, IInv
<1>3. \E i \in 1 .. Len(open) + 1 : W(i)
  <2> DEFINE T == {i \in 1 .. Len(open) : loc(i) <= l}
  <2>1. CASE T = {}
    <3>1. \A j \in 1 .. Len(open) : loc(j) > l
      BY <1>2, <2>1
    <3>2. Len(open) + 1 \in 1 .. Len(open) + 1 /\ ~(Len(open) + 1 <= Len(open))
          /\ (Len(open) + 1) - 1 = Len(open)
      BY <1>1
    <3>3. W(Len(open) + 1)
      BY <3>1, <3>2
    <3> QED
      BY <3>2, <3>3
  <2>2. CASE T # {}
    <3>1. T \in SUBSET Nat
      OBVIOUS
    <3> HIDE DEF T
    <3>2. PICK first \in T : \A j \in T : first <= j
      BY <2>2, <3>1, LeastIn
    <3>3. first \in 1 .. Len(open) /\ loc(first) <= l
      BY DEF T
    <3>4. ASSUME NEW j \in 1 .. first - 1 PROVE loc(j) > l
      <4>1. j \in 1 .. Len(open) /\ ~(first <= j)
        BY <1>1, <3>3
      <4>2. j \notin T
        BY <3>2, <4>1
      <4> QED
        BY <1>2, <4>1, <4>2 DEF T
    <3>5. W(first) /\ first \in 1 .. Len(open) + 1
      BY <1>1, <3>3, <3>4
    <3> QED
      BY <3>5
  <2> QED
    BY <2>1, <2>2
<1>4. Walk(l) \in 1 .. Len(open) + 1 /\ W(Walk(l))
  <2>1. Walk(l) = CHOOSE i \in 1 .. Len(open) + 1 : W(i)
    BY DEF Walk
  <2> HIDE DEF W
  <2> QED
    BY <1>3, <2>1
<1>5. ASSUME NEW j \in Walk(l) .. Len(open) PROVE loc(j) <= l
  <2>1. Walk(l) \in 1 .. Len(open) /\ loc(Walk(l)) <= l /\ j \in 1 .. Len(open)
    BY <1>1, <1>4
  <2>2. CASE j = Walk(l)
    BY <2>1, <2>2
  <2>3. CASE Walk(l) < j
    <3>1. loc(Walk(l)) > loc(j) /\ loc(j) \in Nat /\ loc(Walk(l)) \in Nat
      BY <1>2, <2>1, <2>3
    <3> QED
      BY <2>1, <3>1
  <2> QED
    BY <1>1, <2>1, <2>2, <2>3
<1> QED
  BY <1>4, <1>5

\* What close_upvalues closes, and what stays on the list
LEMMA CloseFacts ==
    ASSUME IInv, NEW n \in Nat, n > 0
    PROVE  /\ \A u : u \in Closing(n) <=> u \in Slots(open) /\ upvalue[u].loc >= n
           /\ \A u \in Slots(open) : u \in DOMAIN upvalue /\ upvalue[u].loc \in 1 .. Len(stack)
           /\ LET rest == SubSeq(open, Walk(n - 1), Len(open))
                  w == Walk(n - 1) - 1
              IN  /\ rest \in Seq(Up) /\ Len(rest) = Len(open) - w /\ w \in 0 .. Len(open)
                  /\ \A i \in 1 .. Len(rest) : rest[i] = open[i + w] /\ i + w \in 1 .. Len(open)
                  /\ \A u : u \in Slots(rest) <=> u \in Slots(open) /\ upvalue[u].loc < n
<1> DEFINE w == Walk(n - 1) - 1
           rest == SubSeq(open, Walk(n - 1), Len(open))
           loc(i) == upvalue[open[i]].loc
<1>1. n - 1 \in Nat
  OBVIOUS
<1>2. /\ Walk(n - 1) \in 1 .. Len(open) + 1
      /\ \A j \in 1 .. Walk(n - 1) - 1 : loc(j) > n - 1
      /\ \A j \in Walk(n - 1) .. Len(open) : loc(j) <= n - 1
  BY <1>1, WalkFacts
<1>3. Len(open) \in Nat /\ open \in Seq(Up) /\ OpenSound(stack, open, upvalue)
  BY RunningFacts
<1>4. \A i \in 1 .. Len(open) :
         open[i] \in DOMAIN upvalue /\ loc(i) \in 1 .. Len(stack) /\ loc(i) \in Nat /\ open[i] \in Up
  BY <1>3, CellFacts DEF OpenSound, IInv
<1>5. w \in 0 .. Len(open) /\ Walk(n - 1) = w + 1
  BY <1>2, <1>3
<1> HIDE DEF w
<1>6. \A j \in 1 .. Len(open) : j <= w <=> loc(j) >= n
  <2> SUFFICES ASSUME NEW j \in 1 .. Len(open) PROVE j <= w <=> loc(j) >= n
    OBVIOUS
  <2>1. CASE j <= w
    <3>1. loc(j) > n - 1
      BY <1>2, <1>5, <2>1
    <3> QED
      BY <1>4, <2>1, <3>1
  <2>2. CASE ~(j <= w)
    <3>1. loc(j) <= n - 1
      BY <1>2, <1>3, <1>5, <2>2
    <3> QED
      BY <1>4, <2>2, <3>1
  <2> QED
    BY <2>1, <2>2
<1>7. Closing(n) = {open[i] : i \in 1 .. w}
  BY <1>5 DEF Closing
<1>8. \A u : u \in Closing(n) <=> u \in Slots(open) /\ upvalue[u].loc >= n
  <2>1. ASSUME NEW u, u \in Closing(n) PROVE u \in Slots(open) /\ upvalue[u].loc >= n
    <3>1. PICK i \in 1 .. w : u = open[i]
      BY <1>7, <2>1
    <3> QED
      BY <1>5, <1>6, <3>1 DEF Slots
  <2>2. ASSUME NEW u, u \in Slots(open), upvalue[u].loc >= n PROVE u \in Closing(n)
    <3>1. PICK i \in 1 .. Len(open) : u = open[i]
      BY <2>2 DEF Slots
    <3>2. i \in 1 .. w
      BY <1>5, <1>6, <2>2, <3>1
    <3> QED
      BY <1>7, <3>1, <3>2
  <2> QED
    BY <2>1, <2>2
<1>9. /\ rest \in Seq(Up) /\ Len(rest) = Len(open) - w
      /\ \A i \in 1 .. Len(rest) : rest[i] = open[i + w] /\ i + w \in 1 .. Len(open)
  <2> DEFINE a == w + 1
             b == Len(open)
  <2>1. a \in Int /\ b \in Int /\ a >= 1 /\ a <= b + 1
    BY <1>3, <1>5
  <2>2. \A i \in a .. b : open[i] \in Up
    BY <1>4, <2>1
  <2>3. rest = SubSeq(open, a, b)
    BY <1>5
  <2> HIDE DEF a, b, rest
  <2>4. /\ SubSeq(open, a, b) \in Seq(Up) /\ Len(SubSeq(open, a, b)) = (IF a <= b THEN b - a + 1 ELSE 0)
        /\ \A i \in 1 .. b - a + 1 : SubSeq(open, a, b)[i] = open[a + i - 1]
    BY <2>1, <2>2, SubSeqProperties
  <2>5. Len(rest) = b - a + 1
    BY <2>1, <2>3, <2>4
  <2>6. rest \in Seq(Up) /\ \A i \in 1 .. Len(rest) : rest[i] = open[a + i - 1]
    BY <2>3, <2>4, <2>5
  <2>7. b - a + 1 = Len(open) - w
    BY <1>3, <1>5 DEF a, b
  <2>8. ASSUME NEW i \in 1 .. Len(rest) PROVE a + i - 1 = i + w /\ i + w \in 1 .. Len(open)
    BY <1>3, <1>5, <2>5, <2>7 DEF a
  <2> QED
    BY <2>5, <2>6, <2>7, <2>8
<1> HIDE DEF rest
<1>10. \A u : u \in Slots(rest) <=> u \in Slots(open) /\ upvalue[u].loc < n
  <2>1. ASSUME NEW u, u \in Slots(rest) PROVE u \in Slots(open) /\ upvalue[u].loc < n
    <3>1. PICK i \in 1 .. Len(rest) : u = rest[i]
      BY <2>1 DEF Slots
    <3>2. u = open[i + w] /\ i + w \in 1 .. Len(open)
      BY <1>9, <3>1
    <3>3. ~(i + w <= w)
      BY <1>5
    <3>4. loc(i + w) < n
      BY <1>4, <1>6, <3>2, <3>3
    <3> QED
      BY <3>2, <3>4 DEF Slots
  <2>2. ASSUME NEW u, u \in Slots(open), upvalue[u].loc < n PROVE u \in Slots(rest)
    <3>1. PICK i \in 1 .. Len(open) : u = open[i]
      BY <2>2 DEF Slots
    <3>2. loc(i) \in Nat /\ ~(loc(i) >= n)
      BY <1>4, <2>2, <3>1
    <3>3. ~(i <= w)
      BY <1>6, <3>2
    <3>4. i - w \in 1 .. Len(rest) /\ (i - w) + w = i
      BY <1>3, <1>5, <1>9, <3>3
    <3>5. rest[i - w] = u
      BY <1>9, <3>1, <3>4
    <3> QED
      BY <3>4, <3>5 DEF Slots
  <2> QED
    BY <2>1, <2>2
<1>11. \A u \in Slots(open) : u \in DOMAIN upvalue /\ upvalue[u].loc \in 1 .. Len(stack)
  BY <1>4 DEF Slots
<1> QED
  BY <1>5, <1>8, <1>9, <1>10, <1>11 DEF w, rest

\* An upvalue that is open belongs to the machine on whose list it is
LEMMA OwnerFacts ==
    ASSUME IInv, NEW kl, NEW ul, Owned(kl, ul)
    PROVE  \A a \in Levels : \A i \in 1 .. Len(Mach(a).open) : ul[Mach(a).open[i]] = a
<1> SUFFICES ASSUME NEW a \in Levels, NEW i \in 1 .. Len(Mach(a).open)
             PROVE  ul[Mach(a).open[i]] = a
  OBVIOUS
<1> DEFINE u == Mach(a).open[i]
<1>1. \A b \in Levels : OpenSound(Mach(b).stack, Mach(b).open, upvalue)
  BY DEF IInv, MachinesSound, MachineSound
<1>2. /\ u \in DOMAIN upvalue /\ upvalue[u].loc \in 1 .. Len(Mach(a).stack)
      /\ Mach(a).stack[upvalue[u].loc].who = upvalue[u].of
  BY <1>1 DEF OpenSound
<1>3. upvalue[u].of # Nobody
  BY <1>2, CellFacts DEF IInv
<1>4. ul[u] \in Levels
  BY <1>2 DEF Owned
<1> DEFINE b == ul[u]
<1> HIDE DEF u
<1>5. PICK j \in 1 .. Len(Mach(b).open) : Mach(b).open[j] = u
  BY <1>2 DEF Owned
<1>6. /\ upvalue[u].loc \in 1 .. Len(Mach(b).stack)
      /\ Mach(b).stack[upvalue[u].loc].who = upvalue[u].of
  BY <1>1, <1>4, <1>5 DEF OpenSound
<1>7. a = b
  BY <1>2, <1>3, <1>4, <1>6 DEF IInv, OneSlotPerVariable
<1> QED
  BY <1>7 DEF u

LEMMA UnusedFacts ==
    ASSUME IInv, NEW v \in Unused
    PROVE  /\ v \in Var /\ v # Nobody
           /\ \A a \in Levels : \A i \in 1 .. Len(Mach(a).stack) : Mach(a).stack[i].who # v
           /\ \A i \in 1 .. Len(stack) : stack[i].who # v
           /\ \A u \in DOMAIN upvalue : upvalue[u].of # v
<1>1. v \in Var /\ v # Nobody
  BY MarkersAssumption DEF Unused
<1>2. \A i \in 1 .. Len(stack) : stack[i].who # v
  <2>1. \A i \in 1 .. Len(stack) : stack[i] \in AllSlots
    BY DEF AllSlots, Slots
  <2> QED
    BY <2>1 DEF Unused
<1>3. ASSUME NEW a \in Levels, NEW i \in 1 .. Len(Mach(a).stack) PROVE Mach(a).stack[i].who # v
  <2>1. CASE a = Level
    BY <1>2, <1>3, <2>1, MachFacts DEF IInv
  <2>2. CASE a # Level
    <3>1. a \in 1 .. Len(suspended) /\ Mach(a) = suspended[a]
      BY <2>2, MachFacts DEF IInv
    <3>2. Mach(a).stack[i] \in AllSlots
      BY <3>1 DEF AllSlots, Slots
    <3> QED
      BY <3>2 DEF Unused
  <2> QED
    BY <2>1, <2>2
<1>4. \A u \in DOMAIN upvalue : upvalue[u].of # v
  <2>1. \A u \in DOMAIN upvalue : upvalue[u] \in Cells
    BY DEF Cells
  <2> QED
    BY <2>1 DEF Unused
<1> QED
  BY <1>1, <1>2, <1>3, <1>4

----------------------------------------------------------------------------
(* Steps of the running machine: the machines that wait are as they were *)

\* No upvalue is lost or given to another variable; one that is closed stays closed, and
\* one that is open on another machine does not move.
CellsKept ==
    \A u \in DOMAIN upvalue :
        /\ u \in DOMAIN upvalue' /\ upvalue'[u].of = upvalue[u].of
        /\ upvalue[u].loc = 0 => upvalue'[u].loc = 0
        /\ u \notin Slots(open) => upvalue'[u].loc = upvalue[u].loc

LEMMA MachNext ==
    ASSUME TypeOK, suspended' = suspended
    PROVE  /\ Level' = Level /\ Levels' = Levels
           /\ \A a \in Levels : a = Level =>
                 /\ Mach(a)' = [stack |-> stack', frames |-> frames', open |-> open']
                 /\ Mach(a)'.stack = stack' /\ Mach(a)'.frames = frames' /\ Mach(a)'.open = open'
           /\ \A a \in Levels : a # Level => Mach(a)' = Mach(a)
<1>1. Level' = Level /\ Levels' = Levels
  BY DEF Level, Levels
<1>2. \A a \in Levels : a = Level => Mach(a)' = Running'
  BY <1>1 DEF Mach
<1>3. \A a \in Levels : a # Level => Mach(a)' = Mach(a)
  BY <1>1 DEF Mach
<1> QED
  BY <1>1, <1>2, <1>3 DEF Running

LEMMA SuspendedSound ==
    ASSUME IInv, suspended' = suspended, CellsKept,
           NEW a \in Levels, a # Level
    PROVE  /\ MachineSound(Mach(a), upvalue')
           /\ \A i \in 1 .. Len(Mach(a).open) :
                 LET u == Mach(a).open[i] IN u \in DOMAIN upvalue /\ upvalue'[u].loc = upvalue[u].loc
           /\ \A i \in 1 .. Len(Mach(a).frames) :
                 LET back == Mach(a).frames[i].back
                 IN  back.to = "upvalue" => upvalue'[back.up].of = upvalue[back.up].of
<1> TypeOK
  BY DEF IInv
<1> DEFINE m == Mach(a)
<1>1. MachineSound(m, upvalue)
  BY DEF IInv, MachinesSound
<1>2. PICK kl \in [DOMAIN env -> Levels], ul \in [DOMAIN upvalue -> Levels] : Owned(kl, ul)
  BY DEF IInv, Ownership
<1>3. /\ Level \in Levels /\ Mach(Level).open = open
  BY MachFacts
<1>4. ASSUME NEW i \in 1 .. Len(m.open)
      PROVE  /\ m.open[i] \in DOMAIN upvalue /\ m.open[i] \in DOMAIN upvalue'
             /\ upvalue'[m.open[i]].loc = upvalue[m.open[i]].loc
             /\ upvalue'[m.open[i]].of = upvalue[m.open[i]].of
  <2>1. m.open[i] \in DOMAIN upvalue
    BY <1>1 DEF MachineSound, OpenSound
  <2>2. m.open[i] \notin Slots(open)
    <3> SUFFICES ASSUME m.open[i] \in Slots(open) PROVE FALSE
      OBVIOUS
    <3>1. PICK j \in 1 .. Len(open) : open[j] = m.open[i]
      BY DEF Slots
    <3>2. ul[m.open[i]] = a
      BY <1>2, OwnerFacts
    <3>3. ul[open[j]] = Level
      BY <1>2, <1>3, OwnerFacts
    <3> QED
      BY <3>1, <3>2, <3>3
  <2> QED
    BY <2>1, <2>2 DEF CellsKept
<1>5. OpenSound(m.stack, m.open, upvalue')
  BY <1>1, <1>4 DEF MachineSound, OpenSound
<1>6. ASSUME NEW i \in 1 .. Len(m.frames), m.frames[i].back.to = "upvalue"
      PROVE  /\ m.frames[i].back.up \in DOMAIN upvalue' /\ upvalue'[m.frames[i].back.up].loc = 0
             /\ upvalue'[m.frames[i].back.up].of = upvalue[m.frames[i].back.up].of
  <2>1. m.frames[i].back.up \in DOMAIN upvalue /\ upvalue[m.frames[i].back.up].loc = 0
    BY <1>1, <1>6 DEF MachineSound, BacksSound
  <2> QED
    BY <2>1 DEF CellsKept
<1>7. BacksSound(m.stack, m.frames, upvalue')
  BY <1>1, <1>6 DEF MachineSound, BacksSound
<1> QED
  BY <1>1, <1>4, <1>5, <1>6, <1>7 DEF MachineSound

\* The parts of the invariant, from what they say of the running machine
LEMMA StepMachines ==
    ASSUME IInv, suspended' = suspended, CellsKept,
           FramesNested(stack', frames'), BacksSound(stack', frames', upvalue'),
           OpenSound(stack', open', upvalue')
    PROVE  MachinesSound'
<1> TypeOK
  BY DEF IInv
<1> SUFFICES ASSUME NEW a \in Levels PROVE MachineSound(Mach(a)', upvalue')
  BY MachNext DEF MachinesSound
<1>1. CASE a = Level
  <2> DEFINE m == [stack |-> stack', frames |-> frames', open |-> open']
  <2>1. Mach(a)' = m
    BY <1>1, MachNext
  <2>2. MachineSound(m, upvalue')
    BY DEF MachineSound
  <2> HIDE DEF m
  <2> QED
    BY <2>1, <2>2
<1>2. CASE a # Level
  <2>1. Mach(a)' = Mach(a)
    BY <1>2, MachNext
  <2>2. MachineSound(Mach(a), upvalue')
    BY <1>2, SuspendedSound
  <2> QED
    BY <2>1, <2>2
<1> QED
  BY <1>1, <1>2

LEMMA StepSlots ==
    ASSUME IInv, suspended' = suspended,
           \A i \in 1 .. Len(stack') :
               \/ stack'[i].who = Nobody \/ stack'[i].who \in Unused
               \/ \E j \in 1 .. Len(stack) : stack[j].who = stack'[i].who,
           \A i, j \in 1 .. Len(stack') :
               stack'[i].who # Nobody /\ stack'[i].who = stack'[j].who => i = j
    PROVE  OneSlotPerVariable'
<1> TypeOK
  BY DEF IInv
<1>1. /\ \A a \in Levels : a = Level => Mach(a)'.stack = stack'
      /\ Mach(Level).stack = stack /\ Level \in Levels
  BY MachNext, MachFacts
<1>2. ASSUME NEW a \in Levels, a # Level, NEW i \in 1 .. Len(Mach(a).stack),
             NEW j \in 1 .. Len(stack'), Mach(a).stack[i].who # Nobody,
             Mach(a).stack[i].who = stack'[j].who
      PROVE  FALSE
  <2>1. stack'[j].who \notin Unused
    BY <1>2, UnusedFacts
  <2>2. PICK k \in 1 .. Len(stack) : stack[k].who = stack'[j].who
    BY <1>2, <2>1
  <2> QED
    BY <1>1, <1>2, <2>2 DEF IInv, OneSlotPerVariable
<1>3. ASSUME NEW a \in Levels, NEW b \in Levels,
             NEW i \in 1 .. Len(Mach(a)'.stack), NEW j \in 1 .. Len(Mach(b)'.stack),
             Mach(a)'.stack[i].who # Nobody, Mach(a)'.stack[i].who = Mach(b)'.stack[j].who
      PROVE  a = b /\ i = j
  <2>1. CASE a = Level /\ b = Level
    BY <1>1, <1>3, <2>1
  <2>2. CASE a = Level /\ b # Level
    <3>1. Mach(b)' = Mach(b)
      BY <2>2, MachNext
    <3> QED
      BY <1>1, <1>2, <1>3, <2>2, <3>1
  <2>3. CASE a # Level /\ b = Level
    <3>1. Mach(a)' = Mach(a)
      BY <2>3, MachNext
    <3> QED
      BY <1>1, <1>2, <1>3, <2>3, <3>1
  <2>4. CASE a # Level /\ b # Level
    <3>1. Mach(a)' = Mach(a) /\ Mach(b)' = Mach(b)
      BY <2>4, MachNext
    <3> QED
      BY <1>3, <3>1 DEF IInv, OneSlotPerVariable
  <2> QED
    BY <2>1, <2>2, <2>3, <2>4
<1>4. Levels' = Levels
  BY MachNext
<1> QED
  BY <1>3, <1>4 DEF OneSlotPerVariable

LEMMA StepClosed ==
    ASSUME IInv, suspended' = suspended, CellsKept,
           \A u \in DOMAIN upvalue' : u \in DOMAIN upvalue \/ upvalue'[u].loc # 0,
           \A u \in DOMAIN upvalue : upvalue'[u].loc = 0 =>
               \A i \in 1 .. Len(stack') : stack'[i].who = upvalue[u].of =>
                   /\ phase' = "closed" /\ i = Len(stack') /\ upvalue'[u].val = stack'[i].val
    PROVE  ClosedLeft'
<1> TypeOK
  BY DEF IInv
<1>1. /\ \A a \in Levels : a = Level => Mach(a)'.stack = stack'
      /\ Mach(Level).stack = stack
      /\ Level \in Levels /\ Level' = Level /\ Levels' = Levels
  BY MachNext, MachFacts
<1> SUFFICES ASSUME NEW u \in DOMAIN upvalue', upvalue'[u].loc = 0,
                    NEW a \in Levels, NEW i \in 1 .. Len(Mach(a)'.stack),
                    Mach(a)'.stack[i].who = upvalue'[u].of
             PROVE  /\ phase' = "closed" /\ a = Level /\ i = Len(stack')
                    /\ upvalue'[u].val = stack'[i].val
  BY <1>1 DEF ClosedLeft
<1>2. u \in DOMAIN upvalue /\ upvalue'[u].of = upvalue[u].of
  BY DEF CellsKept
<1>3. CASE a = Level
  BY <1>1, <1>2, <1>3
<1>4. CASE a # Level
  <2>1. Mach(a)' = Mach(a)
    BY <1>4, MachNext
  <2>2. CASE upvalue[u].loc = 0
    BY <1>2, <1>4, <2>1, <2>2 DEF IInv, ClosedLeft
  <2>3. CASE upvalue[u].loc # 0
    <3>1. u \in Slots(open)
      BY <1>2, <2>3 DEF CellsKept
    <3>2. PICK j \in 1 .. Len(open) : open[j] = u
      BY <3>1 DEF Slots
    <3>3. upvalue[u].loc \in 1 .. Len(stack) /\ stack[upvalue[u].loc].who = upvalue[u].of
      BY <3>2, RunningFacts DEF OpenSound
    <3>4. upvalue[u].of # Nobody
      BY <1>2, CellFacts
    <3> QED
      BY <1>1, <1>2, <1>4, <2>1, <3>3, <3>4 DEF IInv, OneSlotPerVariable
  <2> QED
    BY <2>2, <2>3
<1> QED
  BY <1>3, <1>4

LEMMA StepTemporaries ==
    ASSUME IInv, suspended' = suspended,
           \A i \in 1 .. Len(stack') : stack'[i].who = Nobody => stack'[i].val \in Value
    PROVE  TemporariesSet'
<1> TypeOK
  BY DEF IInv
<1> SUFFICES ASSUME NEW a \in Levels, NEW i \in 1 .. Len(Mach(a)'.stack),
                    Mach(a)'.stack[i].who = Nobody
             PROVE  Mach(a)'.stack[i].val \in Value
  BY MachNext DEF TemporariesSet
<1>1. CASE a = Level
  BY <1>1, MachNext
<1>2. CASE a # Level
  BY <1>2, MachNext DEF IInv, TemporariesSet
<1> QED
  BY <1>1, <1>2

LEMMA StepScripts ==
    ASSUME IInv, suspended' = suspended, suspended # <<>> => frames'[1].fixed = frames[1].fixed
    PROVE  ScriptsPlain'
<1> TypeOK
  BY DEF IInv
<1> SUFFICES ASSUME NEW a \in Levels, a > 1 PROVE Mach(a)'.frames[1].fixed = 0
  BY MachNext DEF ScriptsPlain
<1>1. CASE a = Level
  <2>1. suspended # <<>>
    <3>1. Level > 1 /\ Level = Len(suspended) + 1 /\ Len(suspended) \in Nat
      BY <1>1, MachFacts
    <3> QED
      BY <3>1
  <2>2. Mach(a)'.frames = frames' /\ Mach(Level).frames = frames
    BY <1>1, MachNext, MachFacts
  <2> QED
    BY <1>1, <2>1, <2>2 DEF IInv, ScriptsPlain
<1>2. CASE a # Level
  BY <1>2, MachNext DEF IInv, ScriptsPlain
<1> QED
  BY <1>1, <1>2

\* The frames that stay await the variables they awaited
LEMMA AwaitsKept ==
    ASSUME IInv, suspended' = suspended, CellsKept,
           NEW a \in Levels, NEW i \in 1 .. Len(Mach(a).frames), Mach(a).frames[i].back.to # "stack",
           a = Level => i \in 1 .. Len(frames') /\ frames'[i].back = frames[i].back,
           \A j \in 1 .. Len(frames) : frames[j].back.to = "slot" =>
               stack'[frames[j].back.slot].who = stack[frames[j].back.slot].who
    PROVE  /\ i <= Len(Mach(a)'.frames) /\ Mach(a)'.frames[i].back.to # "stack"
           /\ Awaits(Mach(a), i)' = Awaits(Mach(a), i)
<1> TypeOK
  BY DEF IInv
<1>0. /\ Levels' = Levels /\ Len(frames) \in Nat
      /\ a = Level => Mach(a)'.stack = stack' /\ Mach(a)'.frames = frames'
      /\ a = Level => Mach(a).stack = stack /\ Mach(a).frames = frames
  BY MachNext, MachFacts, RunningFacts
<1>1. CASE a = Level
  <2>1. i \in 1 .. Len(frames) /\ frames[i].back.to # "stack"
    BY <1>0, <1>1
  <2>2. i \in 1 .. Len(frames') /\ frames'[i].back = frames[i].back /\ i <= Len(frames')
    <3>1. i \in 1 .. Len(frames') /\ frames'[i].back = frames[i].back
      BY <1>1
    <3> QED
      BY <2>1, <3>1
  <2>3. frames[i].back.to \in {"slot", "upvalue"}
    BY <1>0, <1>1, <2>1, MachFacts, MachineFacts
  <2>4. frames[i].back.to = "upvalue" =>
           upvalue'[frames[i].back.up].of = upvalue[frames[i].back.up].of
    BY <2>1, RunningFacts DEF BacksSound, CellsKept
  <2>5. Awaits(Mach(a), i) = IF frames[i].back.to = "slot" THEN stack[frames[i].back.slot].who
                             ELSE upvalue[frames[i].back.up].of
    BY <1>0, <1>1 DEF Awaits
  <2>6. Awaits(Mach(a), i)' = IF frames[i].back.to = "slot" THEN stack'[frames[i].back.slot].who
                              ELSE upvalue'[frames[i].back.up].of
    BY <1>0, <1>1, <2>2 DEF Awaits
  <2>7. Awaits(Mach(a), i)' = Awaits(Mach(a), i)
    BY <2>1, <2>3, <2>4, <2>5, <2>6
  <2> QED
    BY <1>0, <1>1, <2>1, <2>2, <2>7
<1>2. CASE a # Level
  <2>1. Mach(a)' = Mach(a)
    BY <1>2, MachNext
  <2>2. Mach(a).frames[i].back.to = "upvalue" =>
           upvalue'[Mach(a).frames[i].back.up].of = upvalue[Mach(a).frames[i].back.up].of
    BY <1>2, SuspendedSound
  <2>3. Mach(a).frames[i].back.to \in {"slot", "upvalue"} /\ i <= Len(Mach(a).frames)
    BY MachFacts, MachineFacts
  <2>4. Awaits(Mach(a), i)' = Awaits(Mach(a), i)
    BY <2>1, <2>2, <2>3 DEF Awaits
  <2> QED
    BY <2>1, <2>3, <2>4
<1> QED
  BY <1>1, <1>2

\* A step that forces nothing and writes nothing back
LEMMA StepForcing ==
    ASSUME IInv, suspended' = suspended, CellsKept, forcing' = forcing,
           \A i \in 1 .. Len(frames) : frames[i].back.to # "stack" =>
               i \in 1 .. Len(frames') /\ frames'[i].back = frames[i].back,
           \A i \in 1 .. Len(frames') : frames'[i].back.to # "stack" => i \in 1 .. Len(frames),
           \A i \in 1 .. Len(frames') : i \in 1 .. Len(frames) => frames'[i].back = frames[i].back,
           \A i \in 1 .. Len(frames) : frames[i].back.to = "slot" =>
               stack'[frames[i].back.slot].who = stack[frames[i].back.slot].who
    PROVE  ForcingExact'
<1> TypeOK
  BY DEF IInv
<1>1. PICK at : ForcedAt(at)
  BY DEF IInv, ForcingExact
<1>2. /\ Levels' = Levels /\ Len(frames) \in Nat
      /\ \A a \in Levels : a = Level => Mach(a)'.stack = stack' /\ Mach(a)'.frames = frames'
      /\ \A a \in Levels : a = Level => Mach(a).stack = stack /\ Mach(a).frames = frames
  BY MachNext, MachFacts, RunningFacts
<1>3. ASSUME NEW a \in Levels, NEW i \in 1 .. Len(Mach(a).frames),
             Mach(a).frames[i].back.to # "stack"
      PROVE  /\ i <= Len(Mach(a)'.frames) /\ Mach(a)'.frames[i].back.to # "stack"
             /\ Awaits(Mach(a), i)' = Awaits(Mach(a), i)
  <2>1. ASSUME a = Level PROVE i \in 1 .. Len(frames') /\ frames'[i].back = frames[i].back
    BY <1>2, <1>3, <2>1
  <2> QED
    BY <1>3, <2>1, AwaitsKept
<1>4. ASSUME NEW a \in Levels, NEW i \in 1 .. Len(Mach(a)'.frames),
             Mach(a)'.frames[i].back.to # "stack"
      PROVE  i \in 1 .. Len(Mach(a).frames) /\ Mach(a).frames[i].back.to # "stack"
  <2>1. CASE a = Level
    BY <1>2, <1>4, <2>1
  <2>2. CASE a # Level
    BY <1>4, <2>2, MachNext
  <2> QED
    BY <2>1, <2>2
<1>5. ASSUME NEW k \in 1 .. Len(forcing)
      PROVE  LET m == Mach(at[k][1])'
             IN  /\ at[k][2] <= Len(m.frames) /\ m.frames[at[k][2]].back.to # "stack"
                 /\ forcing[k] = Awaits(Mach(at[k][1]), at[k][2])'
  <2> DEFINE a == at[k][1]
             i == at[k][2]
  <2>1. a \in Levels /\ i \in Nat \ {0}
    BY <1>1 DEF ForcedAt
  <2>2. /\ i <= Len(Mach(a).frames) /\ Mach(a).frames[i].back.to # "stack"
        /\ forcing[k] = Awaits(Mach(a), i)
    BY <1>1 DEF ForcedAt
  <2> HIDE DEF a, i
  <2>3. i \in 1 .. Len(Mach(a).frames)
    <3>1. Len(Mach(a).frames) \in Nat
      BY <2>1, MachFacts, MachineFacts
    <3> QED
      BY <2>1, <2>2, <3>1
  <2>4. /\ i <= Len(Mach(a)'.frames) /\ Mach(a)'.frames[i].back.to # "stack"
        /\ Awaits(Mach(a), i)' = Awaits(Mach(a), i)
    BY <1>3, <2>1, <2>2, <2>3
  <2> QED
    BY <2>2, <2>4 DEF a, i
<1>6. \A a \in Levels : \A i \in 1 .. Len(Mach(a)'.frames) :
         Mach(a)'.frames[i].back.to # "stack" => \E k \in 1 .. Len(forcing) : at[k] = <<a, i>>
  BY <1>1, <1>4 DEF ForcedAt
<1>7. /\ at \in [1 .. Len(forcing) -> Levels \X (Nat \ {0})]
      /\ \A j, k \in 1 .. Len(forcing) : j < k => Earlier(at[j], at[k])
  BY <1>1 DEF ForcedAt
<1>8. ForcedAt(at)'
  BY <1>2, <1>5, <1>6, <1>7 DEF ForcedAt, Earlier
<1> QED
  BY <1>8 DEF ForcingExact

LEMMA StepOwned ==
    ASSUME IInv, suspended' = suspended, CellsKept, env' = env, DOMAIN upvalue' = DOMAIN upvalue,
           NEW kl, NEW ul, Owned(kl, ul),
           \A i \in 1 .. Len(stack') :
               stack'[i].val \in Closure => stack'[i].val \in DOMAIN env /\ kl[stack'[i].val] = Level,
           \A i \in 1 .. Len(frames') :
               LET f == frames'[i]
               IN  /\ f.clo # Nobody => f.clo \in DOMAIN env /\ kl[f.clo] = Level
                   /\ f.back.to = "upvalue" => ul[f.back.up] = Level,
           \A u \in DOMAIN upvalue :
               /\ u \in Slots(open) /\ upvalue'[u].loc # 0 => u \in Slots(open')
               /\ upvalue'[u].loc = 0 /\ upvalue'[u].val \in Closure =>
                     upvalue'[u].val \in DOMAIN env /\ kl[upvalue'[u].val] = ul[u]
    PROVE  Ownership'
<1> TypeOK
  BY DEF IInv
<1>1. /\ Levels' = Levels /\ Level \in Levels
      /\ \A a \in Levels : a = Level =>
            Mach(a)'.stack = stack' /\ Mach(a)'.frames = frames' /\ Mach(a)'.open = open'
      /\ \A a \in Levels : a = Level => Mach(a).open = open
      /\ \A a \in Levels : a # Level => Mach(a)' = Mach(a)
  BY MachNext, MachFacts
<1>2. ASSUME NEW a \in Levels, NEW i \in 1 .. Len(Mach(a)'.stack), Mach(a)'.stack[i].val \in Closure
      PROVE  Mach(a)'.stack[i].val \in DOMAIN env /\ kl[Mach(a)'.stack[i].val] = a
  <2>1. CASE a = Level
    BY <1>1, <1>2, <2>1
  <2>2. CASE a # Level
    BY <1>1, <1>2, <2>2 DEF Owned
  <2> QED
    BY <2>1, <2>2
<1>3. ASSUME NEW a \in Levels, NEW i \in 1 .. Len(Mach(a)'.frames)
      PROVE  LET f == Mach(a)'.frames[i]
             IN  /\ f.clo # Nobody => f.clo \in DOMAIN env /\ kl[f.clo] = a
                 /\ f.back.to = "upvalue" => ul[f.back.up] = a
  <2>1. CASE a = Level
    BY <1>1, <1>3, <2>1
  <2>2. CASE a # Level
    BY <1>1, <1>3, <2>2 DEF Owned
  <2> QED
    BY <2>1, <2>2
<1>4. ASSUME NEW u \in DOMAIN upvalue, upvalue'[u].loc # 0
      PROVE  \E i \in 1 .. Len(Mach(ul[u])'.open) : Mach(ul[u])'.open[i] = u
  <2>1. upvalue[u].loc # 0
    BY <1>4 DEF CellsKept
  <2>2. PICK i \in 1 .. Len(Mach(ul[u]).open) : Mach(ul[u]).open[i] = u
    BY <2>1 DEF Owned
  <2>3. ul[u] \in Levels
    BY DEF Owned
  <2>4. CASE ul[u] = Level
    <3>1. u \in Slots(open)
      BY <1>1, <2>2, <2>3, <2>4 DEF Slots
    <3>2. u \in Slots(open')
      BY <1>4, <3>1
    <3>3. PICK j \in 1 .. Len(open') : open'[j] = u
      BY <3>2 DEF Slots
    <3> QED
      BY <1>1, <2>3, <2>4, <3>3
  <2>5. CASE ul[u] # Level
    BY <1>1, <2>2, <2>3, <2>5
  <2> QED
    BY <2>4, <2>5
<1>5. Owned(kl, ul)'
  <2>1. kl \in [DOMAIN env -> Levels] /\ ul \in [DOMAIN upvalue -> Levels]
    BY DEF Owned
  <2>2. \A c \in DOMAIN env : \A u \in env[c] : ul[u] = kl[c]
    BY DEF Owned
  <2>3. \A u \in DOMAIN upvalue :
           IF upvalue'[u].loc # 0
           THEN \E i \in 1 .. Len(Mach(ul[u])'.open) : Mach(ul[u])'.open[i] = u
           ELSE upvalue'[u].val \in Closure =>
                   upvalue'[u].val \in DOMAIN env /\ kl[upvalue'[u].val] = ul[u]
    BY <1>4
  <2> QED
    BY <1>1, <1>2, <1>3, <2>1, <2>2, <2>3 DEF Owned
<1>6. kl \in [DOMAIN env' -> Levels'] /\ ul \in [DOMAIN upvalue' -> Levels']
  BY <1>1 DEF Owned
<1> QED
  BY <1>5, <1>6 DEF Ownership

----------------------------------------------------------------------------
(* Steps that leave the lower part of the stack as it is *)

\* Up to p the slots keep their variables; what is above are temporaries and variables
\* that are new.
Prefix(p) ==
    /\ p \in 0 .. Len(stack) /\ stack' \in Seq(Slot) /\ p <= Len(stack')
    /\ Current.base - 1 <= p
    /\ phase = "closed" => p < Len(stack)
    /\ \A i \in 1 .. p :
          /\ stack'[i].who = stack[i].who
          /\ stack[i].who = Nobody => stack'[i].val = stack[i].val
    /\ \A i \in p + 1 .. Len(stack') :
          \/ stack'[i].who = Nobody /\ stack'[i].val \in Value
          \/ stack'[i].who \in Unused
    /\ \A i, j \in p + 1 .. Len(stack') :
          stack'[i].who # Nobody /\ stack'[i].who = stack'[j].who => i = j

\* The upvalues of the slots above p are closed.
Closes(p) ==
    /\ DOMAIN upvalue' = DOMAIN upvalue
    /\ \A u \in DOMAIN upvalue :
          /\ upvalue'[u].of = upvalue[u].of
          /\ IF u \in Closing(p + 1)
             THEN upvalue'[u].loc = 0 /\ upvalue'[u].val = stack[upvalue[u].loc].val
             ELSE upvalue'[u].loc = upvalue[u].loc
    /\ open' = SubSeq(open, Walk(p), Len(open))

LEMMA ClosesFacts ==
    ASSUME IInv, NEW p \in Nat, Closes(p)
    PROVE  /\ CellsKept
           /\ \A u \in DOMAIN upvalue :
                 upvalue'[u].loc = (IF u \in Slots(open) /\ upvalue[u].loc > p THEN 0 ELSE upvalue[u].loc)
           /\ \A u : u \in Slots(open') <=> u \in Slots(open) /\ upvalue[u].loc <= p
           /\ open' \in Seq(Up)
<1>1. p + 1 \in Nat /\ p + 1 > 0 /\ (p + 1) - 1 = p
  OBVIOUS
<1>2. /\ \A u : u \in Closing(p + 1) <=> u \in Slots(open) /\ upvalue[u].loc >= p + 1
      /\ \A u \in Slots(open) : u \in DOMAIN upvalue /\ upvalue[u].loc \in 1 .. Len(stack)
      /\ LET rest == SubSeq(open, Walk(p), Len(open))
         IN  /\ rest \in Seq(Up)
             /\ \A u : u \in Slots(rest) <=> u \in Slots(open) /\ upvalue[u].loc < p + 1
  BY <1>1, CloseFacts
<1>3. \A u \in DOMAIN upvalue : upvalue[u].loc \in Nat
  BY CellFacts DEF IInv
<1>4. \A u \in DOMAIN upvalue :
         /\ (upvalue[u].loc >= p + 1) <=> (upvalue[u].loc > p)
         /\ (upvalue[u].loc < p + 1) <=> (upvalue[u].loc <= p)
  BY <1>3
<1>5. \A u \in DOMAIN upvalue :
         upvalue'[u].loc = (IF u \in Slots(open) /\ upvalue[u].loc > p THEN 0 ELSE upvalue[u].loc)
  BY <1>2, <1>4 DEF Closes
<1>6. CellsKept
  BY <1>5 DEF CellsKept, Closes
<1>7. open' \in Seq(Up) /\ \A u : u \in Slots(open') <=> u \in Slots(open) /\ upvalue[u].loc < p + 1
  BY <1>2 DEF Closes
<1>8. \A u : u \in Slots(open') <=> u \in Slots(open) /\ upvalue[u].loc <= p
  BY <1>2, <1>4, <1>7
<1> QED
  BY <1>5, <1>6, <1>7, <1>8

\* What stays on the open list is sound
LEMMA ClosesOpen ==
    ASSUME IInv, NEW p \in Nat, p <= Len(stack'), Len(stack') \in Nat,
           \A i \in 1 .. p : stack'[i].who = stack[i].who, Closes(p)
    PROVE  OpenSound(stack', open', upvalue')
<1>1. p \in Nat /\ p <= Len(stack') /\ Len(stack') \in Nat
  OBVIOUS
<1> DEFINE w == Walk(p) - 1
<1>2. /\ Len(open') = Len(open) - w /\ w \in 0 .. Len(open)
      /\ \A i \in 1 .. Len(open') : open'[i] = open[i + w] /\ i + w \in 1 .. Len(open)
  <2>1. p + 1 \in Nat /\ p + 1 > 0 /\ (p + 1) - 1 = p
    BY <1>1
  <2>2. LET rest == SubSeq(open, Walk(p), Len(open))
        IN  /\ Len(rest) = Len(open) - w /\ w \in 0 .. Len(open)
            /\ \A i \in 1 .. Len(rest) : rest[i] = open[i + w] /\ i + w \in 1 .. Len(open)
    BY <2>1, CloseFacts
  <2> QED
    BY <2>2 DEF Closes
<1> HIDE DEF w
<1>3. /\ \A i \in 1 .. Len(open) :
            /\ open[i] \in DOMAIN upvalue /\ upvalue[open[i]].loc \in 1 .. Len(stack)
            /\ stack[upvalue[open[i]].loc].who = upvalue[open[i]].of
      /\ \A i, j \in 1 .. Len(open) : i < j => upvalue[open[i]].loc > upvalue[open[j]].loc
      /\ Len(open) \in Nat /\ Len(stack) \in Nat
  BY RunningFacts DEF OpenSound
<1>4. ASSUME NEW i \in 1 .. Len(open')
      PROVE  /\ open'[i] = open[i + w] /\ i + w \in 1 .. Len(open)
             /\ open'[i] \in DOMAIN upvalue'
             /\ upvalue'[open'[i]].loc = upvalue[open[i + w]].loc
             /\ upvalue[open[i + w]].loc \in 1 .. p
             /\ upvalue'[open'[i]].of = upvalue[open[i + w]].of
  <2>1. open'[i] = open[i + w] /\ i + w \in 1 .. Len(open)
    BY <1>2
  <2>2. open'[i] \in Slots(open')
    BY DEF Slots
  <2>3. upvalue[open[i + w]].loc <= p
    BY <1>1, <2>1, <2>2, ClosesFacts
  <2>4. upvalue[open[i + w]].loc \in 1 .. Len(stack) /\ open[i + w] \in DOMAIN upvalue
    BY <1>3, <2>1
  <2>5. upvalue[open[i + w]].loc \in 1 .. p
    BY <1>1, <1>3, <2>3, <2>4
  <2>6. upvalue'[open[i + w]].loc = upvalue[open[i + w]].loc
    <3>1. ~(upvalue[open[i + w]].loc > p)
      BY <1>1, <2>5
    <3> QED
      BY <1>1, <2>4, <3>1, ClosesFacts
  <2> QED
    BY <2>1, <2>4, <2>5, <2>6 DEF Closes
<1>5. ASSUME NEW i \in 1 .. Len(open')
      PROVE  /\ open'[i] \in DOMAIN upvalue' /\ upvalue'[open'[i]].loc \in 1 .. Len(stack')
             /\ stack'[upvalue'[open'[i]].loc].who = upvalue'[open'[i]].of
  <2> DEFINE l == upvalue[open[i + w]].loc
  <2>1. l \in 1 .. p /\ upvalue'[open'[i]].loc = l /\ i + w \in 1 .. Len(open)
    BY <1>4
  <2>2. stack'[l].who = stack[l].who
    BY <2>1
  <2>3. stack[l].who = upvalue[open[i + w]].of
    BY <1>3, <2>1
  <2>4. l \in 1 .. Len(stack')
    BY <1>1, <2>1
  <2> HIDE DEF l
  <2> QED
    BY <1>4, <2>1, <2>2, <2>3, <2>4
<1>6. ASSUME NEW i \in 1 .. Len(open'), NEW j \in 1 .. Len(open'), i < j
      PROVE  upvalue'[open'[i]].loc > upvalue'[open'[j]].loc
  <2>1. i + w < j + w
    BY <1>2, <1>6
  <2>2. i + w \in 1 .. Len(open) /\ j + w \in 1 .. Len(open)
    BY <1>4
  <2>3. upvalue[open[i + w]].loc > upvalue[open[j + w]].loc
    BY <1>3, <2>1, <2>2
  <2> QED
    BY <1>4, <2>3
<1> QED
  BY <1>5, <1>6 DEF OpenSound

\* Where no open upvalue points above p, closing is leaving everything as it is
LEMMA NothingCloses ==
    ASSUME IInv, UNCHANGED <<open, upvalue>>, NEW p \in 0 .. Len(stack),
           \A i \in p + 1 .. Len(stack) :
               \/ stack[i].who = Nobody
               \/ \A j \in 1 .. Len(open) : upvalue[open[j]].loc # i
    PROVE  Closes(p)
<1>1. /\ \A i \in 1 .. Len(open) :
            /\ open[i] \in DOMAIN upvalue /\ upvalue[open[i]].loc \in 1 .. Len(stack)
            /\ stack[upvalue[open[i]].loc].who = upvalue[open[i]].of
      /\ Len(open) \in Nat /\ Len(stack) \in Nat /\ open \in Seq(Up)
  BY RunningFacts DEF OpenSound
<1>2. ASSUME NEW i \in 1 .. Len(open) PROVE ~(upvalue[open[i]].loc > p)
  <2>1. upvalue[open[i]].of # Nobody
    BY <1>1, CellFacts DEF IInv
  <2> SUFFICES ASSUME upvalue[open[i]].loc > p PROVE FALSE
    OBVIOUS
  <2>2. upvalue[open[i]].loc \in p + 1 .. Len(stack)
    BY <1>1
  <2> QED
    BY <1>1, <2>1, <2>2
<1>3. p \in Nat /\ p + 1 \in Nat /\ p + 1 > 0
  BY <1>1
<1>4. /\ Walk(p) \in 1 .. Len(open) + 1
      /\ \A j \in 1 .. Walk(p) - 1 : upvalue[open[j]].loc > p
  BY <1>3, WalkFacts
<1>5. Walk(p) = 1
  <2>1. CASE Walk(p) > 1
    <3>1. 1 \in 1 .. Walk(p) - 1 /\ 1 \in 1 .. Len(open)
      BY <1>1, <1>4, <2>1
    <3> QED
      BY <1>2, <1>4, <3>1
  <2>2. CASE ~(Walk(p) > 1)
    BY <1>4, <2>2
  <2> QED
    BY <2>1, <2>2
<1>6. open' = SubSeq(open, Walk(p), Len(open))
  BY <1>1, <1>5, SubSeqFull
<1>7. \A u : u \notin Closing(p + 1)
  <2> SUFFICES ASSUME NEW u, u \in Closing(p + 1) PROVE FALSE
    OBVIOUS
  <2>1. u \in Slots(open) /\ upvalue[u].loc >= p + 1
    BY <1>3, CloseFacts
  <2>2. PICK i \in 1 .. Len(open) : u = open[i]
    BY <2>1 DEF Slots
  <2>3. upvalue[open[i]].loc >= p + 1 /\ upvalue[open[i]].loc \in Nat
    BY <1>1, <2>1, <2>2
  <2>4. upvalue[open[i]].loc > p
    BY <1>3, <2>3
  <2> QED
    BY <1>2, <2>4
<1> QED
  BY <1>6, <1>7 DEF Closes

LEMMA BackFacts ==
    ASSUME IInv
    PROVE  \A i \in 1 .. Len(frames) :
              /\ frames[i].base \in Nat /\ frames[i].fixed \in Nat /\ frames[i].base <= Current.base
              /\ frames[i].back.to \in {"stack", "slot", "upvalue"}
              /\ frames[i].back.slot \in Nat
              /\ frames[i].back.to = "slot" => /\ frames[i].back.slot \in 1 .. Current.base - 1
                                               /\ stack[frames[i].back.slot].who # Nobody
              /\ frames[i].back.to = "upvalue" =>
                    frames[i].back.up \in DOMAIN upvalue /\ upvalue[frames[i].back.up].loc = 0
<1> SUFFICES ASSUME NEW i \in 1 .. Len(frames)
             PROVE  /\ frames[i].base \in Nat /\ frames[i].fixed \in Nat
                    /\ frames[i].base <= Current.base
                    /\ frames[i].back.to \in {"stack", "slot", "upvalue"}
                    /\ frames[i].back.slot \in Nat
                    /\ frames[i].back.to = "slot" => /\ frames[i].back.slot \in 1 .. Current.base - 1
                                                     /\ stack[frames[i].back.slot].who # Nobody
                    /\ frames[i].back.to = "upvalue" =>
                          frames[i].back.up \in DOMAIN upvalue /\ upvalue[frames[i].back.up].loc = 0
  OBVIOUS
<1>1. /\ FramesNested(stack, frames) /\ BacksSound(stack, frames, upvalue)
      /\ Len(frames) \in Nat /\ Len(frames) \in 1 .. Len(frames)
      /\ Current.base \in Nat
  BY RunningFacts
<1>2. /\ frames[i].base \in Nat /\ frames[i].fixed \in Nat
      /\ frames[i].back.to \in {"stack", "slot", "upvalue"} /\ frames[i].back.slot \in Nat
  BY MachFacts, MachineFacts DEF IInv
<1>3. frames[i].base <= Current.base
  <2>1. CASE i = Len(frames)
    BY <1>2, <2>1 DEF Current
  <2>2. CASE i < Len(frames)
    <3>1. frames[i].base + frames[i].fixed <= Current.base
      BY <1>1, <2>2 DEF FramesNested, Current
    <3> QED
      BY <1>1, <1>2, <3>1
  <2> QED
    BY <1>1, <2>1, <2>2
<1>4. /\ frames[i].back.to = "slot" => /\ frames[i].back.slot \in 1 .. frames[i].base - 1
                                       /\ stack[frames[i].back.slot].who # Nobody
      /\ frames[i].back.to = "upvalue" =>
            frames[i].back.up \in DOMAIN upvalue /\ upvalue[frames[i].back.up].loc = 0
  BY <1>1 DEF BacksSound
<1>5. frames[i].back.slot \in 1 .. frames[i].base - 1 => frames[i].back.slot \in 1 .. Current.base - 1
  BY <1>1, <1>2, <1>3
<1> QED
  BY <1>2, <1>3, <1>4, <1>5

\* Slots that results are written back to are below p
LEMMA BacksStep ==
    ASSUME IInv, NEW p, Prefix(p), CellsKept,
           \A i \in 1 .. Len(frames') :
               \/ frames'[i].back.to = "stack"
               \/ /\ i \in 1 .. Len(frames) /\ frames'[i].back = frames[i].back
                  /\ frames'[i].base = frames[i].base
    PROVE  /\ BacksSound(stack', frames', upvalue')
           /\ \A i \in 1 .. Len(frames) : frames[i].back.to = "slot" =>
                 stack'[frames[i].back.slot].who = stack[frames[i].back.slot].who
<1>1. p \in Nat /\ Current.base - 1 <= p /\ Current.base \in Nat
  BY RunningFacts DEF Prefix
<1>2. ASSUME NEW i \in 1 .. Len(frames), frames[i].back.to = "slot"
      PROVE  stack'[frames[i].back.slot].who = stack[frames[i].back.slot].who
  <2>1. frames[i].back.slot \in 1 .. p
    <3>1. frames[i].back.slot \in 1 .. Current.base - 1
      BY <1>2, BackFacts
    <3> QED
      BY <1>1, <3>1
  <2> QED
    BY <2>1 DEF Prefix
<1>3. ASSUME NEW i \in 1 .. Len(frames')
      PROVE  LET back == frames'[i].back
             IN  /\ back.to = "slot" => back.slot \in 1 .. frames'[i].base - 1
                                        /\ stack'[back.slot].who # Nobody
                 /\ back.to = "upvalue" => back.up \in DOMAIN upvalue' /\ upvalue'[back.up].loc = 0
  <2>1. CASE frames'[i].back.to = "stack"
    BY <2>1
  <2>2. CASE /\ i \in 1 .. Len(frames) /\ frames'[i].back = frames[i].back
             /\ frames'[i].base = frames[i].base
    <3>1. /\ frames[i].back.to = "slot" =>
                frames[i].back.slot \in 1 .. frames[i].base - 1 /\ stack[frames[i].back.slot].who # Nobody
          /\ frames[i].back.to = "upvalue" =>
                frames[i].back.up \in DOMAIN upvalue /\ upvalue[frames[i].back.up].loc = 0
      BY <2>2, RunningFacts DEF BacksSound
    <3>2. frames[i].back.to = "slot" => stack'[frames[i].back.slot].who # Nobody
      BY <1>2, <2>2, <3>1
    <3>3. frames[i].back.to = "upvalue" =>
                frames[i].back.up \in DOMAIN upvalue' /\ upvalue'[frames[i].back.up].loc = 0
      BY <3>1 DEF CellsKept
    <3> QED
      BY <2>2, <3>1, <3>2, <3>3
  <2> QED
    BY <2>1, <2>2
<1> QED
  BY <1>2, <1>3 DEF BacksSound

LEMMA PrefixStep ==
    ASSUME IInv, suspended' = suspended, phase' = "run", NEW p, Prefix(p), Closes(p),
           FramesNested(stack', frames'), BacksSound(stack', frames', upvalue')
    PROVE  /\ MachinesSound' /\ OneSlotPerVariable' /\ OneUpvaluePerVariable'
           /\ ClosedLeft' /\ PhaseSound' /\ TemporariesSet' /\ CellsKept
<1>1. p \in Nat /\ p <= Len(stack') /\ Len(stack') \in Nat /\ Len(stack) \in Nat /\ p <= Len(stack)
  BY RunningFacts DEF Prefix
<1>2. CellsKept
  BY <1>1, ClosesFacts
<1>3. MachinesSound'
  <2>1. \A i \in 1 .. p : stack'[i].who = stack[i].who
    BY DEF Prefix
  <2>2. OpenSound(stack', open', upvalue')
    BY <1>1, <2>1, ClosesOpen
  <2> QED
    BY <1>2, <2>2, StepMachines
<1>4. \A i \in 1 .. Len(stack') : i \in 1 .. p \/ i \in p + 1 .. Len(stack')
  BY <1>1
<1>5. \A i \in 1 .. p : i \in 1 .. Len(stack)
  BY <1>1
<1>6. OneSlotPerVariable'
  <2>1. ASSUME NEW i \in 1 .. Len(stack')
        PROVE  \/ stack'[i].who = Nobody \/ stack'[i].who \in Unused
               \/ \E j \in 1 .. Len(stack) : stack[j].who = stack'[i].who
    BY <1>4, <1>5 DEF Prefix
  <2>2. ASSUME NEW i \in 1 .. Len(stack'), NEW j \in 1 .. Len(stack'),
               stack'[i].who # Nobody, stack'[i].who = stack'[j].who
        PROVE  i = j
    <3>1. CASE i \in 1 .. p /\ j \in 1 .. p
      <4>1. stack[i].who = stack[j].who /\ stack[i].who # Nobody
        BY <2>2, <3>1 DEF Prefix
      <4> QED
        BY <1>5, <3>1, <4>1, RunningFacts
    <3>2. CASE i \in 1 .. p /\ j \in p + 1 .. Len(stack')
      <4>1. stack[i].who = stack'[j].who /\ stack'[j].who \in Unused
        BY <2>2, <3>2 DEF Prefix
      <4> QED
        BY <1>5, <3>2, <4>1, UnusedFacts
    <3>3. CASE i \in p + 1 .. Len(stack') /\ j \in 1 .. p
      <4>1. stack[j].who = stack'[i].who /\ stack'[i].who \in Unused
        BY <2>2, <3>3 DEF Prefix
      <4> QED
        BY <1>5, <3>3, <4>1, UnusedFacts
    <3>4. CASE i \in p + 1 .. Len(stack') /\ j \in p + 1 .. Len(stack')
      BY <2>2, <3>4 DEF Prefix
    <3> QED
      BY <1>4, <3>1, <3>2, <3>3, <3>4
  <2> QED
    BY <2>1, <2>2, StepSlots
<1>7. ClosedLeft'
  <2>1. ASSUME NEW u \in DOMAIN upvalue, upvalue'[u].loc = 0,
               NEW i \in 1 .. Len(stack'), stack'[i].who = upvalue[u].of
        PROVE  FALSE
    <3>1. upvalue[u].of # Nobody /\ upvalue[u].of \notin Unused
      BY CellFacts, UnusedFacts DEF IInv
    <3>2. i \in 1 .. p /\ stack[i].who = upvalue[u].of /\ i \in 1 .. Len(stack)
      BY <1>4, <1>5, <2>1, <3>1 DEF Prefix
    <3>3. CASE upvalue[u].loc = 0
      <4>1. Level \in Levels /\ Mach(Level).stack = stack
        BY MachFacts DEF IInv
      <4>2. phase = "closed" /\ i = Len(stack)
        BY <3>2, <3>3, <4>1 DEF IInv, ClosedLeft
      <4>3. p < Len(stack)
        BY <4>2 DEF Prefix
      <4> QED
        BY <1>1, <3>2, <4>2, <4>3
    <3>4. CASE upvalue[u].loc # 0
      <4>1. u \in Slots(open) /\ upvalue[u].loc > p
        BY <1>1, <2>1, <3>4, ClosesFacts
      <4>2. PICK j \in 1 .. Len(open) : open[j] = u
        BY <4>1 DEF Slots
      <4>3. upvalue[u].loc \in 1 .. Len(stack) /\ stack[upvalue[u].loc].who = upvalue[u].of
        BY <4>2, RunningFacts DEF OpenSound
      <4>4. upvalue[u].loc = i
        BY <3>1, <3>2, <4>3, RunningFacts
      <4> QED
        BY <1>1, <3>2, <4>1, <4>4
    <3> QED
      BY <3>3, <3>4
  <2>2. \A u \in DOMAIN upvalue' : u \in DOMAIN upvalue
    BY DEF Closes
  <2> QED
    BY <1>2, <2>1, <2>2, StepClosed
<1>8. OneUpvaluePerVariable'
  <2>1. \A u \in DOMAIN upvalue' : u \in DOMAIN upvalue /\ upvalue'[u].of = upvalue[u].of
    BY DEF Closes
  <2> QED
    BY <2>1 DEF IInv, OneUpvaluePerVariable
<1>9. PhaseSound'
  BY DEF PhaseSound
<1>10. TemporariesSet'
  <2>1. ASSUME NEW i \in 1 .. Len(stack'), stack'[i].who = Nobody
        PROVE  stack'[i].val \in Value
    <3>1. CASE i \in 1 .. p
      <4>1. stack[i].who = Nobody /\ stack'[i].val = stack[i].val
        BY <2>1, <3>1 DEF Prefix
      <4> QED
        BY <1>5, <3>1, <4>1, RunningFacts
    <3>2. CASE i \in p + 1 .. Len(stack')
      <4>1. stack'[i].who \notin Unused
        BY <2>1, UnusedFacts
      <4> QED
        BY <3>2, <4>1 DEF Prefix
    <3> QED
      BY <1>4, <3>1, <3>2
  <2> QED
    BY <2>1, StepTemporaries
<1> QED
  BY <1>2, <1>3, <1>6, <1>7, <1>8, <1>9, <1>10

\* A value that the running frame can get at: no closure, or one that is on the stack or
\* in an upvalue of its closure
Held(x) ==
    x \in Closure => \/ \E j \in 1 .. Len(stack) : stack[j].val = x
                     \/ \E u \in Inherited : upvalue[u].loc = 0 /\ upvalue[u].val = x

\* It belongs to the running machine, as the upvalues of the running closure do
LEMMA HeldOwned ==
    ASSUME IInv, NEW kl, NEW ul, Owned(kl, ul)
    PROVE  /\ \A x : Held(x) /\ x \in Closure => x \in DOMAIN env /\ kl[x] = Level
           /\ \A j \in 1 .. Len(stack) :
                 stack[j].val \in Closure => stack[j].val \in DOMAIN env /\ kl[stack[j].val] = Level
           /\ \A i \in 1 .. Len(frames) :
                 /\ frames[i].clo # Nobody => frames[i].clo \in DOMAIN env /\ kl[frames[i].clo] = Level
                 /\ frames[i].back.to = "upvalue" => ul[frames[i].back.up] = Level
           /\ \A u \in Inherited : u \in DOMAIN upvalue /\ ul[u] = Level
           /\ \A u \in Slots(open) : u \in DOMAIN upvalue /\ ul[u] = Level
<1>1. /\ Level \in Levels /\ Mach(Level).stack = stack /\ Mach(Level).frames = frames
      /\ Mach(Level).open = open
  BY MachFacts DEF IInv
<1>2. \A j \in 1 .. Len(stack) :
         stack[j].val \in Closure => stack[j].val \in DOMAIN env /\ kl[stack[j].val] = Level
  BY <1>1 DEF Owned
<1>3. \A i \in 1 .. Len(frames) :
         /\ frames[i].clo # Nobody => frames[i].clo \in DOMAIN env /\ kl[frames[i].clo] = Level
         /\ frames[i].back.to = "upvalue" => ul[frames[i].back.up] = Level
  BY <1>1 DEF Owned
<1>4. \A u \in Inherited : u \in DOMAIN upvalue /\ ul[u] = Level
  <2> SUFFICES ASSUME NEW u \in Inherited PROVE u \in DOMAIN upvalue /\ ul[u] = Level
    OBVIOUS
  <2>1. Current.clo # Nobody /\ u \in env[Current.clo]
    BY DEF Inherited
  <2>2. Current.clo \in DOMAIN env /\ kl[Current.clo] = Level
    BY <1>3, <2>1, RunningFacts DEF Current
  <2>3. u \in DOMAIN upvalue
    BY <2>1, <2>2 DEF IInv, TypeOK
  <2> QED
    BY <2>1, <2>2, <2>3 DEF Owned
<1>5. \A u \in Slots(open) : u \in DOMAIN upvalue /\ ul[u] = Level
  <2> SUFFICES ASSUME NEW u \in Slots(open) PROVE u \in DOMAIN upvalue /\ ul[u] = Level
    OBVIOUS
  <2>1. PICK i \in 1 .. Len(open) : open[i] = u
    BY DEF Slots
  <2>2. u \in DOMAIN upvalue
    BY <2>1, RunningFacts DEF OpenSound
  <2> QED
    BY <1>1, <2>1, <2>2, OwnerFacts
<1>6. ASSUME NEW x, Held(x), x \in Closure PROVE x \in DOMAIN env /\ kl[x] = Level
  <2>1. CASE \E j \in 1 .. Len(stack) : stack[j].val = x
    BY <1>2, <1>6, <2>1
  <2>2. CASE \E u \in Inherited : upvalue[u].loc = 0 /\ upvalue[u].val = x
    <3>1. PICK u \in Inherited : upvalue[u].loc = 0 /\ upvalue[u].val = x
      BY <2>2
    <3>2. u \in DOMAIN upvalue /\ ul[u] = Level
      BY <1>4
    <3> QED
      BY <1>6, <3>1, <3>2 DEF Owned
  <2> QED
    BY <1>6, <2>1, <2>2 DEF Held
<1> QED
  BY <1>2, <1>3, <1>4, <1>5, <1>6

\* What a step above p has to show, apart from what it forces
LEMMA PrefixInv ==
    ASSUME IInv, suspended' = suspended, phase' = "run", NEW p, Prefix(p), Closes(p),
           env' = env, thunks' = thunks, upvalue' \in [DOMAIN upvalue -> Cell],
           frames' \in Seq(Frame), forcing' \in Seq(Var),
           seen' \in {<<>>} \cup (Var \X (Value \cup {Invalid})),
           FramesNested(stack', frames'), BacksSound(stack', frames', upvalue'), ForcingExact',
           suspended # <<>> => frames'[1].fixed = frames[1].fixed,
           \A i \in 1 .. Len(stack') : Held(stack'[i].val),
           \A i \in 1 .. Len(frames') :
               /\ Held(frames'[i].clo) \/ (i \in 1 .. Len(frames) /\ frames'[i].clo = frames[i].clo)
               /\ frames'[i].back.to = "upvalue" =>
                     \/ frames'[i].back.up \in Inherited
                     \/ i \in 1 .. Len(frames) /\ frames'[i].back = frames[i].back,
           \A u \in DOMAIN upvalue : u \notin Closing(p + 1) =>
               \/ upvalue'[u].val = upvalue[u].val
               \/ /\ Held(upvalue'[u].val)
                  /\ \E i \in 1 .. Len(frames) :
                        frames[i].back.to = "upvalue" /\ frames[i].back.up = u
    PROVE  IInv'
<1>1. /\ MachinesSound' /\ OneSlotPerVariable' /\ OneUpvaluePerVariable'
      /\ ClosedLeft' /\ PhaseSound' /\ TemporariesSet' /\ CellsKept
  BY PrefixStep
<1>2. p \in Nat /\ p + 1 \in Nat /\ p + 1 > 0
  BY RunningFacts DEF Prefix
<1>3. open' \in Seq(Up) /\ stack' \in Seq(Slot) /\ DOMAIN upvalue' = DOMAIN upvalue
  BY <1>2, ClosesFacts DEF Prefix, Closes
<1>4. TypeOK'
  BY <1>3 DEF IInv, TypeOK
<1>5. ScriptsPlain'
  BY StepScripts
<1>6. PICK kl \in [DOMAIN env -> Levels], ul \in [DOMAIN upvalue -> Levels] : Owned(kl, ul)
  BY DEF IInv, Ownership
<1>7. ASSUME NEW i \in 1 .. Len(stack'), stack'[i].val \in Closure
      PROVE  stack'[i].val \in DOMAIN env /\ kl[stack'[i].val] = Level
  BY <1>6, <1>7, HeldOwned
<1>8. ASSUME NEW i \in 1 .. Len(frames')
      PROVE  LET f == frames'[i]
             IN  /\ f.clo # Nobody => f.clo \in DOMAIN env /\ kl[f.clo] = Level
                 /\ f.back.to = "upvalue" => ul[f.back.up] = Level
  <2>1. frames'[i].clo \in Closure \cup {Nobody}
    <3>1. frames'[i] \in Frame
      BY <1>8
    <3> QED
      BY <3>1 DEF Frame
  <2>2. frames'[i].clo # Nobody => frames'[i].clo \in DOMAIN env /\ kl[frames'[i].clo] = Level
    BY <1>6, <2>1, HeldOwned
  <2>3. frames'[i].back.to = "upvalue" => ul[frames'[i].back.up] = Level
    BY <1>6, HeldOwned
  <2> QED
    BY <2>2, <2>3
<1>9. ASSUME NEW u \in DOMAIN upvalue
      PROVE  /\ u \in Slots(open) /\ upvalue'[u].loc # 0 => u \in Slots(open')
             /\ upvalue'[u].loc = 0 /\ upvalue'[u].val \in Closure =>
                   upvalue'[u].val \in DOMAIN env /\ kl[upvalue'[u].val] = ul[u]
  <2>1. u \in Slots(open) /\ upvalue'[u].loc # 0 => u \in Slots(open')
    <3>1. upvalue[u].loc \in Nat
      BY CellFacts DEF IInv
    <3>2. u \in Slots(open) /\ upvalue'[u].loc # 0 => ~(upvalue[u].loc > p)
      BY <1>2, ClosesFacts
    <3>3. ~(upvalue[u].loc > p) => upvalue[u].loc <= p
      BY <1>2, <3>1
    <3> QED
      BY <1>2, <3>2, <3>3, ClosesFacts
  <2>2. ASSUME upvalue'[u].loc = 0, upvalue'[u].val \in Closure
        PROVE  upvalue'[u].val \in DOMAIN env /\ kl[upvalue'[u].val] = ul[u]
    <3>1. CASE u \in Closing(p + 1)
      <4>1. u \in Slots(open)
        BY <1>2, <3>1, CloseFacts
      <4>2. ul[u] = Level /\ upvalue[u].loc \in 1 .. Len(stack)
        BY <1>2, <1>6, <4>1, HeldOwned, CloseFacts
      <4>3. upvalue'[u].val = stack[upvalue[u].loc].val
        BY <3>1 DEF Closes
      <4> QED
        BY <1>6, <2>2, <4>2, <4>3, HeldOwned
    <3>2. CASE u \notin Closing(p + 1)
      <4>1. upvalue[u].loc = 0
        BY <2>2, <3>2 DEF Closes
      <4>2. CASE upvalue'[u].val = upvalue[u].val
        BY <1>6, <2>2, <4>1, <4>2 DEF Owned
      <4>3. CASE /\ Held(upvalue'[u].val)
                 /\ \E i \in 1 .. Len(frames) :
                       frames[i].back.to = "upvalue" /\ frames[i].back.up = u
        <5>1. ul[u] = Level
          BY <1>6, <4>3, HeldOwned
        <5> QED
          BY <1>6, <2>2, <4>3, <5>1, HeldOwned
      <4> QED
        BY <3>2, <4>2, <4>3
    <3> QED
      BY <3>1, <3>2
  <2> QED
    BY <2>1, <2>2
<1>10. Ownership'
  BY <1>1, <1>3, <1>6, <1>7, <1>8, <1>9, StepOwned
<1> QED
  BY <1>1, <1>4, <1>5, <1>10 DEF IInv

----------------------------------------------------------------------------
(* The operations *)

\* Straight-line code: the frames and the upvalues stay as they are
LEMMA QuietStep ==
    ASSUME IInv, UNCHANGED <<suspended, frames, forcing, open, upvalue, env, thunks>>, phase' = "run",
           NEW p, Prefix(p), Above <= Len(stack') + 1,
           seen' \in {<<>>} \cup (Var \X (Value \cup {Invalid})),
           \A i \in p + 1 .. Len(stack) :
               \/ stack[i].who = Nobody
               \/ \A j \in 1 .. Len(open) : upvalue[open[j]].loc # i,
           \A i \in 1 .. Len(stack') : Held(stack'[i].val)
    PROVE  IInv'
<1>1. p \in 0 .. Len(stack)
  BY DEF Prefix
<1>2. Closes(p)
  BY <1>1, NothingCloses
<1>3. CellsKept
  BY DEF CellsKept
<1>4. FramesNested(stack', frames')
  BY RunningFacts DEF FramesNested, Above, Current
<1>5. /\ BacksSound(stack', frames', upvalue')
      /\ \A i \in 1 .. Len(frames) : frames[i].back.to = "slot" =>
            stack'[frames[i].back.slot].who = stack[frames[i].back.slot].who
  BY <1>3, BacksStep
<1>6. ForcingExact'
  BY <1>3, <1>5, StepForcing
<1>7. /\ upvalue' \in [DOMAIN upvalue -> Cell] /\ frames' \in Seq(Frame) /\ forcing' \in Seq(Var)
  BY DEF IInv, TypeOK
<1> QED
  BY <1>2, <1>4, <1>5, <1>6, <1>7, PrefixInv

LEMMA HeldFacts ==
    ASSUME IInv
    PROVE  /\ \A j \in 1 .. Len(stack) : Held(stack[j].val)
           /\ \A x \in Plain : Held(x)
           /\ Held(Unset) /\ Held(Nobody)
BY MarkersAssumption DEF Held

\* A value is pushed
LEMMA PushFacts ==
    ASSUME IInv, phase = "run", NEW s \in Slot, stack' = Append(stack, s),
           s.who = Nobody => s.val \in Value, s.who = Nobody \/ s.who \in Unused
    PROVE  /\ Prefix(Len(stack)) /\ Len(stack') = Len(stack) + 1
           /\ \A i \in 1 .. Len(stack) : stack'[i] = stack[i]
           /\ stack'[Len(stack) + 1] = s
           /\ \A i \in 1 .. Len(stack') : i \in 1 .. Len(stack) \/ i = Len(stack) + 1
           /\ Len(stack) \in Nat /\ Above <= Len(stack') + 1
           /\ \A i \in Len(stack) + 1 .. Len(stack) : FALSE
<1> DEFINE n == Len(stack)
<1>1. /\ stack \in Seq(Slot) /\ n \in Nat /\ Above <= n + 1 /\ Above \in Nat
      /\ Current.base \in Nat /\ Current.fixed \in Nat /\ Above = Current.base + Current.fixed
  BY RunningFacts
<1>2. /\ stack' \in Seq(Slot) /\ Len(stack') = n + 1
      /\ \A i \in 1 .. n : stack'[i] = stack[i]
      /\ stack'[n + 1] = s
  BY <1>1, AppendProperties
<1> HIDE DEF n
<1>3. /\ n \in 0 .. n /\ n <= n + 1 /\ Current.base - 1 <= n /\ Above <= (n + 1) + 1
      /\ \A i \in 1 .. n + 1 : i \in 1 .. n \/ i = n + 1
      /\ \A i \in n + 1 .. n + 1 : i = n + 1
      /\ \A i \in n + 1 .. n : FALSE
  BY <1>1
<1>4. Prefix(n)
  BY <1>2, <1>3 DEF Prefix, n
<1> QED
  BY <1>1, <1>2, <1>3, <1>4 DEF n

\* A value is taken off
LEMMA FrontFacts ==
    ASSUME NEW S, NEW t \in Seq(S), Len(t) > 0
    PROVE  /\ Front(t) \in Seq(S) /\ Len(Front(t)) = Len(t) - 1
           /\ \A i \in 1 .. Len(t) - 1 : Front(t)[i] = t[i]
<1> DEFINE n == Len(t) - 1
<1>1. Len(t) \in Nat /\ n \in Nat /\ Len(t) = n + 1
  BY LenProperties
<1>2. \A i \in 1 .. n : t[i] \in S
  BY <1>1
<1> HIDE DEF n
<1>3. /\ SubSeq(t, 1, n) \in Seq(S)
      /\ Len(SubSeq(t, 1, n)) = (IF 1 <= n THEN n - 1 + 1 ELSE 0)
      /\ \A i \in 1 .. n - 1 + 1 : SubSeq(t, 1, n)[i] = t[1 + i - 1]
  BY <1>1, <1>2, SubSeqProperties
<1>4. Len(SubSeq(t, 1, n)) = n
  BY <1>1, <1>3
<1>5. \A i \in 1 .. n : SubSeq(t, 1, n)[i] = t[i]
  <2> SUFFICES ASSUME NEW i \in 1 .. n PROVE SubSeq(t, 1, n)[i] = t[i]
    OBVIOUS
  <2>1. i \in 1 .. n - 1 + 1 /\ 1 + i - 1 = i
    BY <1>1
  <2> QED
    BY <1>3, <2>1
<1>6. Front(t) = SubSeq(t, 1, n)
  BY DEF Front, n
<1> QED
  BY <1>1, <1>3, <1>4, <1>5, <1>6 DEF n

LEMMA TempFacts ==
    ASSUME NEW x \in Value
    PROVE  Temp(x) \in Slot /\ Temp(x).val = x /\ Temp(x).who = Nobody
BY DEF Temp, Slot

LEMMA PushConstInv == ASSUME IInv, NEW x \in Plain, PushConst(x) PROVE IInv'
<1>1. Temp(x) \in Slot /\ Temp(x).val = x /\ Temp(x).who = Nobody /\ x \in Value
  BY TempFacts DEF Value
<1>2. /\ Prefix(Len(stack))
      /\ \A i \in 1 .. Len(stack) : stack'[i] = stack[i]
      /\ stack'[Len(stack) + 1] = Temp(x)
      /\ \A i \in 1 .. Len(stack') : i \in 1 .. Len(stack) \/ i = Len(stack) + 1
      /\ Above <= Len(stack') + 1
      /\ \A i \in Len(stack) + 1 .. Len(stack) : FALSE
  BY <1>1, PushFacts DEF PushConst, Push
<1>3. \A i \in 1 .. Len(stack') : Held(stack'[i].val)
  BY <1>1, <1>2, HeldFacts
<1>4. seen' \in {<<>>} \cup (Var \X (Value \cup {Invalid}))
  BY DEF PushConst, IInv, TypeOK
<1> QED
  BY <1>2, <1>3, <1>4, QuietStep DEF PushConst, heapVars

LEMMA DeclareLocalInv == ASSUME IInv, NEW v \in Var, DeclareLocal(v) PROVE IInv'
<1> DEFINE s == [val |-> Unset, who |-> v]
<1>1. s \in Slot /\ s.val = Unset /\ s.who = v /\ v # Nobody /\ v \in Unused
  BY UnusedFacts DEF DeclareLocal, Slot
<1> HIDE DEF s
<1>2. /\ Prefix(Len(stack))
      /\ \A i \in 1 .. Len(stack) : stack'[i] = stack[i]
      /\ stack'[Len(stack) + 1] = s
      /\ \A i \in 1 .. Len(stack') : i \in 1 .. Len(stack) \/ i = Len(stack) + 1
      /\ Above <= Len(stack') + 1
      /\ \A i \in Len(stack) + 1 .. Len(stack) : FALSE
  BY <1>1, PushFacts DEF DeclareLocal, s
<1>3. \A i \in 1 .. Len(stack') : Held(stack'[i].val)
  BY <1>1, <1>2, HeldFacts
<1>4. seen' \in {<<>>} \cup (Var \X (Value \cup {Invalid}))
  BY DEF DeclareLocal, IInv, TypeOK
<1> QED
  BY <1>2, <1>3, <1>4, QuietStep DEF DeclareLocal, heapVars

\* The top leaves, and a variable below may change its value
LEMMA DropFacts ==
    ASSUME IInv, Len(stack) > 0, Len(stack) >= Above, stack' \in Seq(Slot),
           Len(stack') = Len(stack) - 1,
           \A i \in 1 .. Len(stack) - 1 :
               stack'[i].who = stack[i].who /\ (stack[i].who = Nobody => stack'[i].val = stack[i].val)
    PROVE  /\ Prefix(Len(stack) - 1) /\ Above <= Len(stack') + 1
           /\ \A i \in (Len(stack) - 1) + 1 .. Len(stack) : i = Len(stack)
           /\ \A i \in 1 .. Len(stack') : i \in 1 .. Len(stack) /\ i # Len(stack)
<1> DEFINE n == Len(stack)
           p == n - 1
<1>1. /\ n \in Nat /\ n > 0 /\ Above <= n /\ Above \in Nat
      /\ Current.base \in Nat /\ Current.fixed \in Nat /\ Above = Current.base + Current.fixed
  BY RunningFacts
<1>2. Len(stack') = p /\ p \in Nat /\ n = p + 1
  BY <1>1
<1> HIDE DEF n, p
<1>3. /\ p \in 0 .. n /\ p <= p /\ Current.base - 1 <= p /\ p < n /\ Above <= p + 1
      /\ \A i \in p + 1 .. p : FALSE
      /\ \A i \in p + 1 .. n : i = n
      /\ \A i \in 1 .. p : i \in 1 .. n /\ i # n
  BY <1>1, <1>2
<1>4. \A i \in 1 .. p :
         stack'[i].who = stack[i].who /\ (stack[i].who = Nobody => stack'[i].val = stack[i].val)
  BY DEF n, p
<1>5. Prefix(p)
  BY <1>2, <1>3, <1>4 DEF Prefix, n
<1> QED
  BY <1>2, <1>3, <1>5 DEF n, p

LEMMA PopTempInv == ASSUME IInv, PopTemp PROVE IInv'
<1>1. stack \in Seq(Slot) /\ Len(stack) \in Nat /\ Len(stack) > 0
  BY RunningFacts, EmptySeq DEF PopTemp
<1>2. Len(stack) >= Above /\ stack[Len(stack)].who = Nobody
  BY DEF PopTemp, Temporary
<1>3. /\ stack' \in Seq(Slot) /\ Len(stack') = Len(stack) - 1
      /\ \A i \in 1 .. Len(stack) - 1 : stack'[i] = stack[i]
  BY <1>1, FrontFacts DEF PopTemp
<1>4. /\ Prefix(Len(stack) - 1) /\ Above <= Len(stack') + 1
      /\ \A i \in (Len(stack) - 1) + 1 .. Len(stack) : i = Len(stack)
      /\ \A i \in 1 .. Len(stack') : i \in 1 .. Len(stack)
  BY <1>1, <1>2, <1>3, DropFacts
<1>5. \A i \in 1 .. Len(stack') : Held(stack'[i].val)
  <2>1. \A i \in 1 .. Len(stack') : stack'[i] = stack[i]
    BY <1>3
  <2> QED
    BY <1>4, <2>1, HeldFacts
<1>6. seen' \in {<<>>} \cup (Var \X (Value \cup {Invalid}))
  BY DEF PopTemp, IInv, TypeOK
<1>7. \A i \in (Len(stack) - 1) + 1 .. Len(stack) : stack[i].who = Nobody
  BY <1>2, <1>4
<1> QED
  BY <1>4, <1>5, <1>6, <1>7, QuietStep DEF PopTemp, heapVars

LEMMA StoreVarInv == ASSUME IInv, NEW i \in 1 .. MaxStack, StoreVar(i) PROVE IInv'
<1> DEFINE n == Len(stack)
           x == Top.val
           s == [stack[i] EXCEPT !.val = x]
           F == Front(stack)
<1>1. /\ stack \in Seq(Slot) /\ n \in Nat /\ Current.base \in Nat /\ Current.base > 0
      /\ n >= Above /\ stack[n].who = Nobody /\ i \in Current.base .. n /\ stack[i].who # Nobody
      /\ Above \in Nat /\ Above = Current.base + Current.fixed /\ Current.fixed \in Nat
  BY RunningFacts DEF StoreVar, Temporary, Locals
<1>2. n > 0 /\ i \in 1 .. n - 1 /\ n \in 1 .. n
  <2>1. i # n
    BY <1>1
  <2> QED
    BY <1>1, <2>1
<1>3. F \in Seq(Slot) /\ Len(F) = n - 1 /\ \A j \in 1 .. n - 1 : F[j] = stack[j]
  BY <1>1, <1>2, FrontFacts
<1>4. x \in Value
  BY <1>1, <1>2, RunningFacts DEF Top
<1>5. s \in Slot /\ s.val = x /\ s.who = stack[i].who
  <2>1. i \in 1 .. n
    BY <1>1, <1>2
  <2>2. stack[i] \in Slot
    BY <1>1, <2>1
  <2> HIDE DEF x
  <2> QED
    BY <1>4, <2>2 DEF Slot
<1> HIDE DEF F, s, x
<1>6. stack' = [F EXCEPT ![i] = s]
  BY <1>2, <1>3 DEF StoreVar, F, s, x
<1>7. /\ stack' \in Seq(Slot) /\ Len(stack') = n - 1
      /\ \A j \in 1 .. n - 1 : stack'[j] = IF j = i THEN s ELSE stack[j]
  BY <1>2, <1>3, <1>5, <1>6, ExceptSeq
<1>8. /\ Prefix(n - 1) /\ Above <= Len(stack') + 1
      /\ \A j \in (n - 1) + 1 .. n : j = n
      /\ \A j \in 1 .. Len(stack') : j \in 1 .. n
  <2>1. \A j \in 1 .. n - 1 :
           stack'[j].who = stack[j].who /\ (stack[j].who = Nobody => stack'[j].val = stack[j].val)
    BY <1>1, <1>5, <1>7
  <2> QED
    BY <1>1, <1>2, <1>7, <2>1, DropFacts
<1>9. \A j \in 1 .. Len(stack') : Held(stack'[j].val)
  <2> SUFFICES ASSUME NEW j \in 1 .. Len(stack') PROVE Held(stack'[j].val)
    OBVIOUS
  <2>1. stack'[j].val = stack[j].val \/ stack'[j].val = stack[n].val
    BY <1>5, <1>7 DEF x, Top
  <2> QED
    BY <1>2, <1>8, <2>1, HeldFacts
<1>10. seen' \in {<<>>} \cup (Var \X (Value \cup {Invalid}))
  BY DEF StoreVar, IInv, TypeOK
<1>11. \A j \in (n - 1) + 1 .. n : stack[j].who = Nobody
  BY <1>1, <1>8
<1> QED
  BY <1>8, <1>9, <1>10, <1>11, QuietStep DEF StoreVar, heapVars

LEMMA PopLocalInv == ASSUME IInv, PopLocal PROVE IInv'
<1>1. /\ stack \in Seq(Slot) /\ Len(stack) \in Nat /\ Len(stack) > Above
      /\ Above \in Nat /\ Top.who # Nobody
      /\ phase = "closed" => \A i \in 1 .. Len(open) : upvalue[open[i]].loc # Len(stack)
  BY RunningFacts DEF PopLocal, IInv, PhaseSound
<1>2. Len(stack) > 0 /\ Len(stack) >= Above
  BY <1>1
<1>3. /\ stack' \in Seq(Slot) /\ Len(stack') = Len(stack) - 1
      /\ \A i \in 1 .. Len(stack) - 1 : stack'[i] = stack[i]
  BY <1>1, <1>2, FrontFacts DEF PopLocal
<1>4. /\ Prefix(Len(stack) - 1) /\ Above <= Len(stack') + 1
      /\ \A i \in (Len(stack) - 1) + 1 .. Len(stack) : i = Len(stack)
      /\ \A i \in 1 .. Len(stack') : i \in 1 .. Len(stack)
  BY <1>1, <1>2, <1>3, DropFacts
<1>5. \A i \in 1 .. Len(stack') : Held(stack'[i].val)
  <2>1. \A i \in 1 .. Len(stack') : stack'[i] = stack[i]
    BY <1>3
  <2> QED
    BY <1>4, <2>1, HeldFacts
<1>6. seen' \in {<<>>} \cup (Var \X (Value \cup {Invalid}))
  BY DEF PopLocal, IInv, TypeOK
<1>7. \A j \in 1 .. Len(open) : upvalue[open[j]].loc # Len(stack)
  <2>1. CASE phase = "closed"
    BY <1>1, <2>1
  <2>2. CASE \A u \in DOMAIN upvalue : upvalue[u].of # Top.who
    BY <2>2, RunningFacts DEF OpenSound, Top
  <2> QED
    BY <2>1, <2>2 DEF PopLocal
<1> QED
  BY <1>4, <1>5, <1>6, <1>7, QuietStep DEF PopLocal, heapVars

----------------------------------------------------------------------------
(* Reading variables *)

\* Where the value x of v is to be written back: to a slot of v, or to an upvalue of v
\* that is closed and that the running closure has
BackOf(v, back) ==
    /\ back \in Target /\ back.to # "stack"
    /\ back.to = "slot" => back.slot \in 1 .. Len(stack) /\ stack[back.slot].who = v
    /\ back.to = "upvalue" =>
          /\ back.up \in Inherited /\ back.up \in DOMAIN upvalue
          /\ upvalue[back.up].loc = 0 /\ upvalue[back.up].of = v

\* A frame is put on top to evaluate the thunk that was read
LEMMA ForceForcing ==
    ASSUME IInv, suspended' = suspended, CellsKept, upvalue' = upvalue, NEW v \in Var, NEW f, f.back.to # "stack",
           BackOf(v, f.back), frames' = Append(frames, f), f \in Frame, forcing' = Append(forcing, v),
           Len(stack') = Len(stack) + 1, \A i \in 1 .. Len(stack) : stack'[i] = stack[i]
    PROVE  ForcingExact'
<1> TypeOK
  BY DEF IInv
<1> DEFINE n == Len(forcing)
\* (names for what does not change in the step)
<1>0. PICK top : top = Len(frames) + 1
  OBVIOUS
<1>1. PICK at : ForcedAt(at)
  BY DEF IInv, ForcingExact
<1>2. /\ Levels' = Levels /\ Len(frames) \in Nat /\ frames \in Seq(Frame) /\ Level \in Levels
      /\ \A a \in Levels : a = Level => Mach(a)'.stack = stack' /\ Mach(a)'.frames = frames'
      /\ \A a \in Levels : a = Level => Mach(a).stack = stack /\ Mach(a).frames = frames
      /\ \A a \in Levels : a # Level => Mach(a)' = Mach(a)
      /\ Len(stack) \in Nat /\ Level \in Nat /\ Level = Len(suspended) + 1 /\ Len(suspended) \in Nat
  BY MachNext, MachFacts, RunningFacts
<1>3. /\ Len(frames') = top /\ frames'[top] = f
      /\ \A i \in 1 .. Len(frames) : frames'[i] = frames[i]
      /\ \A i \in 1 .. top : i \in 1 .. Len(frames) \/ i = top
      /\ top \in Nat \ {0} /\ \A i \in 1 .. Len(frames) : i \in 1 .. top
  BY <1>0, <1>2, AppendProperties
<1>4. /\ forcing \in Seq(Var) /\ n \in Nat /\ Len(forcing') = n + 1
      /\ \A k \in 1 .. n : forcing'[k] = forcing[k]
      /\ forcing'[n + 1] = v
  BY AppendProperties DEF TypeOK
<1>5. \A k \in 1 .. n + 1 : k \in 1 .. n \/ k = n + 1
  BY <1>4
<1> HIDE DEF n
<1>20. PICK x : x = <<Level, top>>
  OBVIOUS
<1>21. PICK at2 : at2 = [k \in 1 .. n + 1 |-> IF k <= n THEN at[k] ELSE x]
  OBVIOUS
<1>6. /\ \A k \in 1 .. n : at2[k] = at[k]
      /\ at2[n + 1] = x
  BY <1>4, <1>21
<1>7. at \in [1 .. n -> Levels \X (Nat \ {0})] /\ x \in Levels \X (Nat \ {0}) /\ x[1] = Level /\ x[2] = top
  BY <1>1, <1>2, <1>3, <1>20 DEF ForcedAt, n
<1>8. at2 \in [1 .. n + 1 -> Levels \X (Nat \ {0})]
  BY <1>4, <1>7, <1>21
<1>9. \A j \in 1 .. Len(frames) : frames[j].back.to = "slot" =>
           stack'[frames[j].back.slot].who = stack[frames[j].back.slot].who
  <2> SUFFICES ASSUME NEW j \in 1 .. Len(frames), frames[j].back.to = "slot"
               PROVE  frames[j].back.slot \in 1 .. Len(stack)
    OBVIOUS
  <2>1. frames[j].back.slot \in 1 .. Current.base - 1
    BY BackFacts
  <2>2. Current.base - 1 <= Len(stack) /\ Current.base \in Nat
    <3>1. Current.base \in Nat /\ Current.fixed \in Nat /\ Above = Current.base + Current.fixed /\ Above <= Len(stack) + 1
      BY RunningFacts
    <3> QED
      BY <1>2, <3>1
  <2> QED
    BY <1>2, <2>1, <2>2
<1>10. ASSUME NEW a \in Levels, NEW i \in 1 .. Len(Mach(a).frames), Mach(a).frames[i].back.to # "stack"
       PROVE  /\ i <= Len(Mach(a)'.frames) /\ Mach(a)'.frames[i].back.to # "stack"
              /\ Awaits(Mach(a), i)' = Awaits(Mach(a), i)
  <2>1. ASSUME a = Level PROVE i \in 1 .. Len(frames') /\ frames'[i].back = frames[i].back
    BY <1>2, <1>3, <1>10, <2>1
  <2> QED
    BY <1>9, <1>10, <2>1, AwaitsKept
<1>11. \A a \in Levels : a = Level =>
          /\ top <= Len(Mach(a)'.frames) /\ Mach(a)'.frames[top].back.to # "stack"
          /\ Awaits(Mach(a), top)' = v
  <2> SUFFICES ASSUME NEW a \in Levels, a = Level
               PROVE  /\ top <= Len(Mach(a)'.frames) /\ Mach(a)'.frames[top].back.to # "stack"
                      /\ Awaits(Mach(a), top)' = v
    OBVIOUS
  <2>1. Mach(a)'.frames = frames' /\ Mach(a)'.stack = stack' /\ top <= top
    BY <1>2, <1>3
  <2>2. f.back.to = "slot" => stack'[f.back.slot].who = v
    BY DEF BackOf
  <2>3. f.back.to = "upvalue" => upvalue'[f.back.up].of = v
    BY DEF BackOf
  <2>4. f.back.to \in {"slot", "upvalue"}
    BY DEF BackOf, Target
  <2>5. Awaits(Mach(a), top)' = IF f.back.to = "slot" THEN stack'[f.back.slot].who
                                ELSE upvalue'[f.back.up].of
    BY <1>3, <2>1 DEF Awaits
  <2> QED
    BY <1>3, <2>1, <2>2, <2>3, <2>4, <2>5
<1>12. ASSUME NEW k \in 1 .. n
       PROVE  LET m == Mach(at[k][1])'
              IN  /\ at[k][2] <= Len(m.frames) /\ m.frames[at[k][2]].back.to # "stack"
                  /\ forcing[k] = Awaits(Mach(at[k][1]), at[k][2])'
                  /\ at[k][1] \in Levels /\ at[k][2] \in 1 .. Len(Mach(at[k][1]).frames)
  <2> DEFINE a == at[k][1]
             i == at[k][2]
  <2>1. a \in Levels /\ i \in Nat \ {0}
    BY <1>7
  <2>2. /\ i <= Len(Mach(a).frames) /\ Mach(a).frames[i].back.to # "stack"
        /\ forcing[k] = Awaits(Mach(a), i)
    BY <1>1 DEF ForcedAt, n
  <2> HIDE DEF a, i
  <2>3. i \in 1 .. Len(Mach(a).frames)
    <3>1. Len(Mach(a).frames) \in Nat
      BY <2>1, MachFacts, MachineFacts
    <3> QED
      BY <2>1, <2>2, <3>1
  <2>4. /\ i <= Len(Mach(a)'.frames) /\ Mach(a)'.frames[i].back.to # "stack"
        /\ Awaits(Mach(a), i)' = Awaits(Mach(a), i)
    BY <1>10, <2>1, <2>2, <2>3
  <2> QED
    BY <2>1, <2>2, <2>3, <2>4 DEF a, i
<1>13. ASSUME NEW k \in 1 .. n + 1
       PROVE  LET m == Mach(at2[k][1])'
              IN  /\ at2[k][2] <= Len(m.frames) /\ m.frames[at2[k][2]].back.to # "stack"
                  /\ forcing'[k] = Awaits(Mach(at2[k][1]), at2[k][2])'
  <2>1. CASE k \in 1 .. n
    <3>1. at2[k] = at[k] /\ forcing'[k] = forcing[k]
      BY <1>4, <1>6, <2>1
    <3> QED
      BY <1>12, <2>1, <3>1
  <2>2. CASE k = n + 1
    <3> DEFINE a == at2[k][1]
               i == at2[k][2]
    <3>1. a = Level /\ i = top /\ a \in Levels /\ forcing'[k] = v
      BY <1>2, <1>4, <1>6, <1>7, <2>2
    <3>2. /\ top <= Len(Mach(a)'.frames) /\ Mach(a)'.frames[top].back.to # "stack"
          /\ Awaits(Mach(a), top)' = v
      BY <1>11, <3>1
    <3> QED
      BY <3>1, <3>2
  <2> QED
    BY <1>5, <2>1, <2>2
<1>14. ASSUME NEW a \in Levels, NEW i \in 1 .. Len(Mach(a)'.frames), Mach(a)'.frames[i].back.to # "stack"
       PROVE  \E k \in 1 .. n + 1 : at2[k] = <<a, i>>
  <2>1. CASE a = Level /\ i = top
    <3>1. at2[n + 1] = <<a, i>> /\ n + 1 \in 1 .. n + 1
      BY <1>4, <1>6, <1>20, <2>1
    <3> QED
      BY <3>1
  <2>2. CASE ~(a = Level /\ i = top)
    <3>1. i \in 1 .. Len(Mach(a).frames) /\ Mach(a).frames[i].back.to # "stack"
      BY <1>2, <1>3, <1>14, <2>2
    <3>2. PICK k \in 1 .. n : at[k] = <<a, i>>
      BY <1>1, <3>1 DEF ForcedAt, n
    <3>3. k \in 1 .. n + 1
      BY <1>4
    <3> QED
      BY <1>6, <3>2, <3>3
  <2> QED
    BY <2>1, <2>2
<1>15. ASSUME NEW j \in 1 .. n + 1, NEW k \in 1 .. n + 1, j < k
       PROVE  Earlier(at2[j], at2[k])
  <2>1. CASE k \in 1 .. n
    <3>1. j \in 1 .. n
      BY <1>4, <1>15, <2>1
    <3>2. Earlier(at[j], at[k])
      BY <1>1, <1>15, <2>1, <3>1 DEF ForcedAt, n
    <3> QED
      BY <1>6, <2>1, <3>1, <3>2
  <2>2. CASE k = n + 1
    <3>1. j \in 1 .. n
      BY <1>4, <1>15, <2>2
    <3>2. at[j][1] \in Levels /\ at[j][2] \in 1 .. Len(Mach(at[j][1]).frames)
      BY <1>12, <3>1
    <3>3. Earlier(at[j], x)
      <4>1. CASE at[j][1] = Level
        <5>1. Mach(at[j][1]).frames = frames
          BY <1>2, <4>1
        <5>2. at[j][2] \in 1 .. Len(frames)
          BY <3>2, <5>1
        <5>3. at[j][2] < top
          BY <1>0, <1>2, <5>2
        <5> QED
          BY <1>7, <4>1, <5>3 DEF Earlier
      <4>2. CASE at[j][1] # Level
        <5>1. at[j][1] \in 1 .. Level
          BY <3>2 DEF Levels
        <5>2. at[j][1] < Level
          BY <1>2, <4>2, <5>1
        <5> QED
          BY <1>7, <5>2 DEF Earlier
      <4> QED
        BY <4>1, <4>2
    <3> QED
      BY <1>6, <2>2, <3>1, <3>3
  <2> QED
    BY <1>5, <2>1, <2>2
<1>16. ForcedAt(at2)'
  <2>1. \A k \in 1 .. n + 1 :
           LET m == Mach(at2[k][1])'
           IN  /\ at2[k][2] <= Len(m.frames) /\ m.frames[at2[k][2]].back.to # "stack"
               /\ forcing'[k] = Awaits(Mach(at2[k][1]), at2[k][2])'
    BY <1>13
  <2>2. \A a \in Levels : \A i \in 1 .. Len(Mach(a)'.frames) :
           Mach(a)'.frames[i].back.to # "stack" => \E k \in 1 .. n + 1 : at2[k] = <<a, i>>
    BY <1>14
  <2>3. \A j, k \in 1 .. n + 1 : j < k => Earlier(at2[j], at2[k])
    BY <1>15
  <2>4. Len(forcing') = n + 1 /\ Levels' = Levels
    BY <1>2, <1>4
  <2>5. at2 \in [1 .. Len(forcing') -> Levels' \X (Nat \ {0})]
    BY <1>8, <2>4
  <2>6. \A k \in 1 .. Len(forcing') :
           LET m == Mach(at2[k][1])'
           IN  /\ at2[k][2] <= Len(m.frames) /\ m.frames[at2[k][2]].back.to # "stack"
               /\ forcing'[k] = Awaits(Mach(at2[k][1]), at2[k][2])'
    BY <2>1, <2>4
  <2>7. \A a \in Levels' : \A i \in 1 .. Len(Mach(a)'.frames) :
           Mach(a)'.frames[i].back.to # "stack" => \E k \in 1 .. Len(forcing') : at2[k] = <<a, i>>
    BY <2>2, <2>4
  <2>8. \A j, k \in 1 .. Len(forcing') : j < k => Earlier(at2[j], at2[k])
    BY <2>3, <2>4
  <2> QED
    BY <2>5, <2>6, <2>7, <2>8 DEF ForcedAt, Earlier
<1> QED
  BY <1>16 DEF ForcingExact

\* A frame on top of all that is on the stack
LEMMA AppendNested ==
    ASSUME IInv, NEW f \in Frame, frames' = Append(frames, f), f.base > 0, f.base >= Above,
           Len(stack') \in Nat, f.base + f.fixed <= Len(stack') + 1
    PROVE  /\ FramesNested(stack', frames') /\ frames' \in Seq(Frame)
           /\ Len(frames') = Len(frames) + 1 /\ frames'[Len(frames) + 1] = f
           /\ \A i \in 1 .. Len(frames) : frames'[i] = frames[i] /\ i \in 1 .. Len(frames')
           /\ \A i \in 1 .. Len(frames') : i \in 1 .. Len(frames) \/ i = Len(frames) + 1
           /\ suspended # <<>> => frames'[1].fixed = frames[1].fixed
<1> DEFINE n == Len(frames)
<1>1. /\ frames \in Seq(Frame) /\ n \in Nat /\ n > 0 /\ FramesNested(stack, frames)
      /\ Current.base \in Nat /\ Current.fixed \in Nat /\ Above = Current.base + Current.fixed
  BY RunningFacts
<1>2. /\ frames' \in Seq(Frame) /\ Len(frames') = n + 1 /\ frames'[n + 1] = f
      /\ \A i \in 1 .. n : frames'[i] = frames[i]
  BY <1>1, AppendProperties
<1>3. f.base \in Nat /\ f.fixed \in Nat
  BY DEF Frame
<1>4. /\ 1 \in 1 .. n /\ \A i \in 1 .. n + 1 : i \in 1 .. n \/ i = n + 1
      /\ \A i \in 1 .. n : i \in 1 .. n + 1
  BY <1>1
<1>5. \A i \in 1 .. n : frames[i].base \in Nat /\ frames[i].fixed \in Nat /\ frames[i].base > 0
  BY BackFacts, <1>1 DEF FramesNested
<1>6. ASSUME NEW i \in 1 .. n PROVE frames[i].base + frames[i].fixed <= f.base
  <2>1. CASE i = n
    BY <1>1, <1>3, <2>1 DEF Current
  <2>2. CASE i < n
    <3>1. frames[i].base + frames[i].fixed <= Current.base
      BY <1>1, <1>4, <2>2 DEF FramesNested, Current
    <3>2. /\ frames[i].base \in Nat /\ frames[i].fixed \in Nat /\ f.base \in Nat
          /\ Current.base \in Nat /\ Current.base <= f.base
      BY <1>1, <1>3, <1>5
    <3> QED
      BY <3>1, <3>2
  <2> QED
    BY <1>1, <2>1, <2>2
<1>7. ASSUME NEW i \in 1 .. n + 1, NEW j \in 1 .. n + 1, i < j
      PROVE  frames'[i].base + frames'[i].fixed <= frames'[j].base
  <2>1. i \in 1 .. n
    BY <1>1, <1>7
  <2>2. CASE j = n + 1
    BY <1>2, <1>6, <2>1, <2>2
  <2>3. CASE j \in 1 .. n
    BY <1>1, <1>2, <1>7, <2>1, <2>3 DEF FramesNested
  <2> QED
    BY <1>4, <2>2, <2>3
<1>8. \A i \in 1 .. n + 1 : frames'[i].base > 0
  BY <1>2, <1>4, <1>5
<1>9. frames'[1] = frames[1]
  BY <1>2, <1>4
<1>10. n + 1 > 0
  BY <1>1
<1> HIDE DEF n
<1>11. FramesNested(stack', frames')
  <2>1. frames[1].base = 1 /\ frames[1].back = ToStack
    BY <1>1 DEF FramesNested
  <2> QED
    BY <1>2, <1>7, <1>8, <1>9, <1>10, <2>1 DEF FramesNested
<1> QED
  BY <1>2, <1>4, <1>9, <1>11 DEF n

LEMMA ReadInv ==
    ASSUME IInv, NEW v \in Var, NEW x \in Value, NEW back, Held(x), BackOf(v, back),
           ReadVariable(v, x, back)
    PROVE  IInv'
<1>1. Temp(x) \in Slot /\ Temp(x).val = x /\ Temp(x).who = Nobody
  BY TempFacts
<1>2. phase = "run" /\ phase' = "run" /\ stack' = Append(stack, Temp(x))
  BY DEF ReadVariable, ForceThunk, Push
<1>3. /\ Prefix(Len(stack)) /\ Len(stack') = Len(stack) + 1
      /\ \A i \in 1 .. Len(stack) : stack'[i] = stack[i]
      /\ stack'[Len(stack) + 1] = Temp(x)
      /\ \A i \in 1 .. Len(stack') : i \in 1 .. Len(stack) \/ i = Len(stack) + 1
      /\ Above <= Len(stack') + 1 /\ Len(stack) \in Nat
      /\ \A i \in Len(stack) + 1 .. Len(stack) : FALSE
  BY <1>1, <1>2, PushFacts
<1>4. \A i \in 1 .. Len(stack') : Held(stack'[i].val)
  BY <1>1, <1>3, HeldFacts
<1>5. UNCHANGED <<open, suspended, upvalue, env, thunks>>
  BY DEF ReadVariable, heapVars
<1>6. CASE x \notin thunks
  <2>1. seen' \in {<<>>} \cup (Var \X (Value \cup {Invalid})) /\ UNCHANGED <<frames, forcing>>
    BY <1>6 DEF ReadVariable
  <2> QED
    BY <1>2, <1>3, <1>4, <1>5, <2>1, QuietStep
<1>7. CASE x \in thunks
  <2> DEFINE n == Len(stack)
             f == [clo |-> x, base |-> n + 1, fixed |-> 1, back |-> back]
  <2>1. frames' = Append(frames, f) /\ forcing' = Append(forcing, v) /\ seen' = seen
    BY <1>7 DEF ReadVariable, ForceThunk
  <2>2. back \in Target /\ back.to # "stack" /\ x \in Closure
    BY <1>7 DEF BackOf, IInv, TypeOK
  <2>3. f \in Frame /\ f.clo = x /\ f.base = n + 1 /\ f.fixed = 1 /\ f.back = back
    BY <1>3, <2>2 DEF Frame
  <2> HIDE DEF f
  <2>4. Above <= n + 1 /\ Above \in Nat
    BY RunningFacts
  <2>5. /\ FramesNested(stack', frames') /\ frames' \in Seq(Frame)
        /\ Len(frames') = Len(frames) + 1 /\ frames'[Len(frames) + 1] = f
        /\ \A i \in 1 .. Len(frames) : frames'[i] = frames[i] /\ i \in 1 .. Len(frames')
        /\ \A i \in 1 .. Len(frames') : i \in 1 .. Len(frames) \/ i = Len(frames) + 1
        /\ suspended # <<>> => frames'[1].fixed = frames[1].fixed
    <3>1. f.base > 0 /\ f.base >= Above /\ Len(stack') \in Nat /\ f.base + f.fixed <= Len(stack') + 1
      BY <1>3, <2>3, <2>4
    <3> QED
      BY <2>1, <2>3, <3>1, AppendNested
  <2>6. Closes(n) /\ CellsKept
    <3>1. n \in 0 .. n
      BY <1>3
    <3> QED
      BY <1>3, <1>5, <3>1, NothingCloses, ClosesFacts
  <2>7. BacksSound(stack', frames', upvalue')
    <3>1. ASSUME NEW i \in 1 .. Len(frames)
          PROVE  /\ frames'[i].back.to = "slot" => /\ frames'[i].back.slot \in 1 .. frames'[i].base - 1
                                                   /\ stack'[frames'[i].back.slot].who # Nobody
                 /\ frames'[i].back.to = "upvalue" =>
                       frames'[i].back.up \in DOMAIN upvalue' /\ upvalue'[frames'[i].back.up].loc = 0
      <4>1. frames'[i] = frames[i]
        BY <2>5
      <4>2. /\ frames[i].back.to = "slot" => /\ frames[i].back.slot \in 1 .. frames[i].base - 1
                                             /\ stack[frames[i].back.slot].who # Nobody
            /\ frames[i].back.to = "upvalue" =>
                       frames[i].back.up \in DOMAIN upvalue /\ upvalue[frames[i].back.up].loc = 0
        BY RunningFacts DEF BacksSound
      <4>3. frames[i].back.to = "slot" => frames[i].back.slot \in 1 .. n
        <5>1. frames[i].back.to = "slot" => frames[i].back.slot \in 1 .. Current.base - 1
          BY BackFacts
        <5>2. Current.base - 1 <= n /\ Current.base \in Nat
          BY <1>3, RunningFacts DEF Prefix
        <5> QED
          BY <1>3, <5>1, <5>2
      <4> QED
        BY <1>3, <1>5, <4>1, <4>2, <4>3
    <3>2. /\ back.to = "slot" => back.slot \in 1 .. f.base - 1 /\ stack'[back.slot].who # Nobody
          /\ back.to = "upvalue" => back.up \in DOMAIN upvalue' /\ upvalue'[back.up].loc = 0
      <4>1. v # Nobody
        BY MarkersAssumption
      <4>2. f.base - 1 = n
        BY <1>3, <2>3
      <4> QED
        BY <1>3, <1>5, <4>1, <4>2 DEF BackOf
    <3> QED
      BY <2>3, <2>5, <3>1, <3>2 DEF BacksSound
  <2>8. ForcingExact'
    BY <1>3, <1>5, <2>1, <2>2, <2>3, <2>6, ForceForcing
  <2>9. /\ upvalue' \in [DOMAIN upvalue -> Cell] /\ forcing' \in Seq(Var)
        /\ seen' \in {<<>>} \cup (Var \X (Value \cup {Invalid}))
    <3>1. forcing \in Seq(Var)
      BY DEF IInv, TypeOK
    <3> QED
      BY <1>5, <2>1, <3>1, AppendProperties DEF IInv, TypeOK
  <2>10. ASSUME NEW i \in 1 .. Len(frames')
         PROVE  /\ Held(frames'[i].clo) \/ (i \in 1 .. Len(frames) /\ frames'[i].clo = frames[i].clo)
                /\ frames'[i].back.to = "upvalue" =>
                      \/ frames'[i].back.up \in Inherited
                      \/ i \in 1 .. Len(frames) /\ frames'[i].back = frames[i].back
    <3>1. CASE i \in 1 .. Len(frames)
      BY <2>5, <3>1
    <3>2. CASE i = Len(frames) + 1
      <4>1. frames'[i].clo = x /\ frames'[i].back = back
        BY <2>3, <2>5, <3>2
      <4> QED
        BY <4>1 DEF BackOf
    <3> QED
      BY <2>5, <3>1, <3>2
  <2> QED
    BY <1>2, <1>3, <1>4, <1>5, <2>5, <2>6, <2>7, <2>8, <2>9, <2>10, PrefixInv
<1> QED
  BY <1>6, <1>7

LEMMA LoadVarInv == ASSUME IInv, NEW i \in 1 .. MaxStack, LoadVar(i) PROVE IInv'
<1> DEFINE back == [to |-> "slot", slot |-> i, up |-> Nobody]
<1>1. i \in 1 .. Len(stack) /\ stack[i].who # Nobody
  <2>1. Current.base \in Nat /\ Current.base > 0 /\ Len(stack) \in Nat /\ i \in Current.base .. Len(stack)
    BY RunningFacts DEF LoadVar, Locals
  <2> QED
    BY <2>1 DEF LoadVar, Locals
<1>2. stack[i].who \in Var /\ stack[i].val \in Value /\ Held(stack[i].val)
  BY <1>1, RunningFacts, HeldFacts DEF LoadVar
<1>3. back \in Target /\ back.to = "slot" /\ back.slot = i
  BY <1>1 DEF Target
<1>4. ReadVariable(stack[i].who, stack[i].val, back)
  BY DEF LoadVar
<1> HIDE DEF back
<1>5. BackOf(stack[i].who, back)
  BY <1>1, <1>3 DEF BackOf
<1> QED
  BY <1>2, <1>4, <1>5, ReadInv

LEMMA InheritedFacts ==
    ASSUME IInv, NEW u \in Inherited
    PROVE  /\ u \in DOMAIN upvalue /\ u \in Up
           /\ upvalue[u].loc # 0 => /\ upvalue[u].loc \in 1 .. Len(stack)
                                    /\ stack[upvalue[u].loc].who = upvalue[u].of
<1>1. PICK kl \in [DOMAIN env -> Levels], ul \in [DOMAIN upvalue -> Levels] : Owned(kl, ul)
  BY DEF IInv, Ownership
<1>2. u \in DOMAIN upvalue /\ ul[u] = Level
  BY <1>1, HeldOwned
<1>3. Mach(Level).open = open
  BY MachFacts DEF IInv
<1>4. ASSUME upvalue[u].loc # 0
      PROVE  /\ upvalue[u].loc \in 1 .. Len(stack)
             /\ stack[upvalue[u].loc].who = upvalue[u].of
  <2>1. PICK i \in 1 .. Len(open) : open[i] = u
    BY <1>1, <1>2, <1>3, <1>4 DEF Owned
  <2> QED
    BY <2>1, RunningFacts DEF OpenSound
<1> QED
  BY <1>2, <1>4, CellFacts DEF IInv

LEMMA GetUpvalueInv == ASSUME IInv, NEW u \in Inherited, GetUpvalue(u) PROVE IInv'
<1> DEFINE c == upvalue[u]
           x == UpvalueValue(c)
           back == IF c.loc = 0 THEN [to |-> "upvalue", slot |-> 0, up |-> u]
                   ELSE [to |-> "slot", slot |-> c.loc, up |-> Nobody]
<1>1. /\ u \in DOMAIN upvalue /\ u \in Up /\ c.loc \in Nat /\ c.of \in Var
      /\ c.val \in Value \cup {Unset}
      /\ c.loc # 0 => c.loc \in 1 .. Len(stack) /\ stack[c.loc].who = c.of
  BY InheritedFacts, CellFacts DEF IInv
<1>2. x # Unset /\ ReadVariable(c.of, x, back)
  BY DEF GetUpvalue
<1>3. c.loc = 0 => x = c.val
  BY DEF UpvalueValue
<1>4. c.loc # 0 => x = stack[c.loc].val
  <2>1. c.loc # 0 => c.loc <= Len(stack)
    BY <1>1, RunningFacts
  <2> QED
    BY <2>1 DEF UpvalueValue
<1>5. x \in Value /\ Held(x)
  <2>1. CASE c.loc = 0
    BY <1>1, <1>2, <1>3, <2>1 DEF Held
  <2>2. CASE c.loc # 0
    BY <1>1, <1>2, <1>4, <2>2, RunningFacts, HeldFacts
  <2> QED
    BY <2>1, <2>2
<1>6. BackOf(c.of, back)
  <2>1. CASE c.loc = 0
    <3>1. back = [to |-> "upvalue", slot |-> 0, up |-> u]
      BY <2>1
    <3>2. back \in Target /\ back.to = "upvalue" /\ back.up = u
      BY <1>1, <3>1 DEF Target
    <3> HIDE DEF back
    <3> QED
      BY <1>1, <2>1, <3>2 DEF BackOf
  <2>2. CASE c.loc # 0
    <3>1. back = [to |-> "slot", slot |-> c.loc, up |-> Nobody]
      BY <2>2
    <3>2. back \in Target /\ back.to = "slot" /\ back.slot = c.loc
      BY <1>1, <3>1 DEF Target
    <3> HIDE DEF back
    <3> QED
      BY <1>1, <2>2, <3>2 DEF BackOf
  <2> QED
    BY <2>1, <2>2
<1> HIDE DEF x, back
<1> QED
  BY <1>1, <1>2, <1>5, <1>6, ReadInv

----------------------------------------------------------------------------
(* Calls *)

\* A closed cell takes its value from the stack
LEMMA ClosedCell ==
    ASSUME IInv, NEW n \in Nat, n > 0, NEW u \in Closing(n)
    PROVE  /\ u \in DOMAIN upvalue /\ Closed(upvalue[u]) \in Cell
           /\ Closed(upvalue[u]).loc = 0 /\ Closed(upvalue[u]).of = upvalue[u].of
           /\ Closed(upvalue[u]).val = stack[upvalue[u].loc].val
<1> DEFINE c == upvalue[u]
<1>1. u \in Slots(open) /\ u \in DOMAIN upvalue /\ c.loc \in 1 .. Len(stack)
  BY CloseFacts
<1>2. c \in Cell /\ stack[c.loc].val \in Value \cup {Unset}
  BY <1>1, CellFacts, RunningFacts DEF IInv
<1> HIDE DEF c
<1>3. /\ Closed(c) \in Cell /\ Closed(c).loc = 0 /\ Closed(c).of = c.of
      /\ Closed(c).val = stack[c.loc].val
  BY <1>2 DEF Closed, Cell
<1> QED
  BY <1>1, <1>3 DEF c

LEMMA CloseUpvaluesFacts ==
    ASSUME IInv, NEW n \in Nat, n > 0, CloseUpvalues(n)
    PROVE  Closes(n - 1) /\ upvalue' \in [DOMAIN upvalue -> Cell]
<1>1. (n - 1) + 1 = n /\ n - 1 \in Nat
  OBVIOUS
<1>2. \A u \in Closing(n) :
           /\ u \in DOMAIN upvalue /\ Closed(upvalue[u]) \in Cell
           /\ Closed(upvalue[u]).loc = 0 /\ Closed(upvalue[u]).of = upvalue[u].of
           /\ Closed(upvalue[u]).val = stack[upvalue[u].loc].val
  BY ClosedCell
<1>3. \A u \in DOMAIN upvalue : upvalue[u] \in Cell
  BY CellFacts DEF IInv
<1>4. upvalue' = [u \in DOMAIN upvalue |->
                    IF u \in Closing(n) THEN Closed(upvalue[u]) ELSE upvalue[u]]
  BY DEF CloseUpvalues
<1>5. upvalue' \in [DOMAIN upvalue -> Cell]
  BY <1>2, <1>3, <1>4
<1>6. open' = SubSeq(open, Walk(n - 1), Len(open))
  BY DEF CloseUpvalues
<1>7. \A u \in DOMAIN upvalue :
          /\ upvalue'[u].of = upvalue[u].of
          /\ IF u \in Closing(n)
             THEN upvalue'[u].loc = 0 /\ upvalue'[u].val = stack[upvalue[u].loc].val
             ELSE upvalue'[u].loc = upvalue[u].loc
  BY <1>2, <1>4
<1> QED
  BY <1>1, <1>4, <1>5, <1>6, <1>7 DEF Closes

\* The callee and its arguments, with the slots of its parameters, on top of what is
\* in the slots up to p
LEMMA ActivationFacts ==
    ASSUME IInv, NEW k \in Nat, NEW n \in Nat, NEW params \in Injections(Unused, n),
           Callable(k), k <= Len(params), NEW p \in Nat, Current.base <= p + 1, p < Len(stack),
           stack' = SubSeq(stack, 1, p) \o Activation(k, params)
    PROVE  /\ Prefix(p) /\ Len(stack') = p + 1 + n /\ Len(params) = n
           /\ \A i \in 1 .. Len(stack') : Held(stack'[i].val)
           /\ \A i \in 1 .. p : stack'[i] = stack[i]
           /\ LET base == Len(stack) - k
              IN  /\ base \in Nat /\ base > 0 /\ base >= Above /\ base <= Len(stack)
                  /\ stack[base].val \in DOMAIN env
                  /\ Held(stack[base].val) /\ stack[base].val \in Closure
                  /\ \A i \in base .. Len(stack) : stack[i].who = Nobody
<1> DEFINE base == Len(stack) - k
           A == Activation(k, params)
           B == SubSeq(stack, 1, p)
           L == Len(stack)
<1>1. /\ stack \in Seq(Slot) /\ L \in Nat /\ Current.base \in Nat /\ Above \in Nat
      /\ \A i \in 1 .. L :
            /\ stack[i].val \in Value \cup {Unset} /\ stack[i].who \in Var \cup {Nobody}
            /\ stack[i] \in Slot
            /\ stack[i].who = Nobody => stack[i].val \in Value
  BY RunningFacts
<1>2. phase = "run" /\ L > k /\ stack[base].val \in DOMAIN env
  BY DEF Callable
<1>3. base \in Nat /\ base > 0 /\ base <= L /\ base \in 1 .. L /\ base \in base .. L
  BY <1>1, <1>2
<1>4. \A i \in base .. L : i >= Above /\ stack[i].who = Nobody
  BY DEF Callable, Temporary
<1>5. stack[base].val \in Closure
  BY <1>2 DEF IInv, TypeOK
<1>6. /\ params \in [1 .. n -> Unused] /\ \A i, j \in 1 .. n : params[i] = params[j] => i = j
      /\ Len(params) = n
  BY DEF Injections
<1>7. A = [j \in 1 .. n + 1 |->
             IF j = 1 THEN stack[base]
             ELSE [val |-> IF j <= k + 1 THEN stack[base + j - 1].val ELSE Unset,
                   who |-> params[j - 1]]]
  BY <1>6 DEF Activation
<1>8. /\ A[1] = stack[base] /\ A[1] \in Slot /\ A[1].who = Nobody /\ A[1].val \in Value
      /\ Held(A[1].val) /\ 1 \in 1 .. n + 1
  BY <1>1, <1>3, <1>4, <1>7, HeldFacts
<1>9. ASSUME NEW j \in 2 .. n + 1
      PROVE  /\ A[j] \in Slot /\ A[j].who = params[j - 1] /\ A[j].who \in Unused /\ Held(A[j].val)
             /\ j - 1 \in 1 .. n
  <2> DEFINE x == IF j <= k + 1 THEN stack[base + j - 1].val ELSE Unset
  <2>1. j \in 1 .. n + 1 /\ j # 1 /\ j - 1 \in 1 .. n
    OBVIOUS
  <2>2. A[j] = [val |-> x, who |-> params[j - 1]]
    BY <1>7, <2>1
  <2>3. x \in Value \cup {Unset} /\ Held(x)
    <3>1. CASE j <= k + 1
      <4>1. base + j - 1 \in 1 .. L
        BY <1>1, <1>3, <3>1
      <4>2. x = stack[base + j - 1].val
        BY <3>1
      <4> QED
        BY <1>1, <4>1, <4>2, HeldFacts
    <3>2. CASE ~(j <= k + 1)
      BY <3>2, HeldFacts
    <3> QED
      BY <3>1, <3>2
  <2>4. params[j - 1] \in Unused /\ params[j - 1] \in Var
    BY <1>6, <2>1, UnusedFacts
  <2> HIDE DEF x, A
  <2> QED
    BY <2>1, <2>2, <2>3, <2>4 DEF Slot
<1> HIDE DEF A
<1>10. A \in Seq(Slot) /\ Len(A) = n + 1
  <2>1. \A j \in 1 .. n + 1 : A[j] \in Slot
    <3> SUFFICES ASSUME NEW j \in 1 .. n + 1 PROVE A[j] \in Slot
      OBVIOUS
    <3>1. j = 1 \/ j \in 2 .. n + 1
      OBVIOUS
    <3> QED
      BY <1>8, <1>9, <3>1
  <2>2. A \in [1 .. n + 1 -> Slot]
    BY <1>7, <2>1
  <2> QED
    BY <2>2
<1>11. p \in Nat /\ p <= L /\ p \in 0 .. L
  BY <1>1
<1>12. B \in Seq(Slot) /\ Len(B) = p /\ \A i \in 1 .. p : B[i] = stack[i]
  <2>1. \A i \in 1 .. p : stack[i] \in Slot
    BY <1>1, <1>11
  <2>2. /\ B \in Seq(Slot) /\ Len(B) = (IF 1 <= p THEN p - 1 + 1 ELSE 0)
        /\ \A i \in 1 .. p - 1 + 1 : B[i] = stack[1 + i - 1]
    BY <1>11, <2>1, SubSeqProperties
  <2>3. \A i \in 1 .. p : i \in 1 .. p - 1 + 1 /\ 1 + i - 1 = i
    BY <1>11
  <2>4. Len(B) = p
    BY <1>11, <2>2
  <2>5. ASSUME NEW i \in 1 .. p PROVE B[i] = stack[i]
    <3>1. i \in 1 .. p - 1 + 1 /\ 1 + i - 1 = i
      BY <2>3
    <3> QED
      BY <2>2, <3>1
  <2> QED
    BY <2>2, <2>4, <2>5
<1> HIDE DEF B
<1>13. stack' = B \o A
  BY DEF A, B
<1>14. /\ stack' \in Seq(Slot) /\ Len(stack') = p + (n + 1)
       /\ \A i \in 1 .. p + (n + 1) : stack'[i] = IF i <= p THEN B[i] ELSE A[i - p]
  <2>1. /\ B \o A \in Seq(Slot) /\ Len(B \o A) = Len(B) + Len(A)
        /\ \A i \in 1 .. Len(B) + Len(A) :
              (B \o A)[i] = IF i <= Len(B) THEN B[i] ELSE A[i - Len(B)]
    BY <1>10, <1>12, ConcatProperties
  <2>2. Len(B) = p /\ Len(A) = n + 1
    BY <1>10, <1>12
  <2> QED
    BY <1>13, <2>1, <2>2
<1>15. \A i \in 1 .. p : stack'[i] = stack[i] /\ i \in 1 .. L
  <2> SUFFICES ASSUME NEW i \in 1 .. p PROVE stack'[i] = stack[i] /\ i \in 1 .. L
    OBVIOUS
  <2>1. i \in 1 .. p + (n + 1) /\ i <= p /\ i \in 1 .. L
    BY <1>1, <1>11
  <2> QED
    BY <1>12, <1>14, <2>1
<1>16. \A i \in p + 1 .. p + (n + 1) :
          /\ stack'[i] = A[i - p] /\ i - p \in 1 .. n + 1
          /\ i - p = 1 \/ i - p \in 2 .. n + 1
  <2> SUFFICES ASSUME NEW i \in p + 1 .. p + (n + 1)
               PROVE  /\ stack'[i] = A[i - p] /\ i - p \in 1 .. n + 1
                      /\ i - p = 1 \/ i - p \in 2 .. n + 1
    OBVIOUS
  <2>1. i \in 1 .. p + (n + 1) /\ ~(i <= p) /\ i - p \in 1 .. n + 1
    BY <1>11
  <2>2. i - p = 1 \/ i - p \in 2 .. n + 1
    BY <2>1
  <2> QED
    BY <1>14, <2>1, <2>2
<1>17. ASSUME NEW i \in p + 1 .. Len(stack')
       PROVE  \/ stack'[i].who = Nobody /\ stack'[i].val \in Value
              \/ stack'[i].who \in Unused
  <2>1. CASE i - p = 1
    BY <1>8, <1>14, <1>16, <2>1
  <2>2. CASE i - p \in 2 .. n + 1
    BY <1>9, <1>14, <1>16, <2>2
  <2> QED
    BY <1>14, <1>16, <2>1, <2>2
<1>18. ASSUME NEW i \in p + 1 .. Len(stack'), NEW j \in p + 1 .. Len(stack'),
              stack'[i].who # Nobody, stack'[i].who = stack'[j].who
       PROVE  i = j
  <2>1. /\ stack'[i] = A[i - p] /\ (i - p = 1 \/ i - p \in 2 .. n + 1)
        /\ stack'[j] = A[j - p] /\ (j - p = 1 \/ j - p \in 2 .. n + 1)
    BY <1>14, <1>16
  <2>2. i - p \in 2 .. n + 1 /\ j - p \in 2 .. n + 1
    BY <1>8, <1>18, <2>1
  <2>3. params[(i - p) - 1] = params[(j - p) - 1] /\ (i - p) - 1 \in 1 .. n /\ (j - p) - 1 \in 1 .. n
    BY <1>9, <1>18, <2>1, <2>2
  <2>4. (i - p) - 1 = (j - p) - 1
    BY <1>6, <2>3
  <2> QED
    BY <1>11, <1>14, <2>4
<1>19. ASSUME NEW i \in 1 .. Len(stack') PROVE Held(stack'[i].val)
  <2>1. i \in 1 .. p \/ i \in p + 1 .. p + (n + 1)
    BY <1>11, <1>14
  <2>2. CASE i \in 1 .. p
    BY <1>15, <2>2, HeldFacts
  <2>3. CASE i \in p + 1 .. p + (n + 1)
    BY <1>8, <1>9, <1>16, <2>3
  <2> QED
    BY <2>1, <2>2, <2>3
<1>20. Prefix(p)
  <2>1. p <= Len(stack') /\ Current.base - 1 <= p
    BY <1>1, <1>11, <1>14
  <2> QED
    BY <1>2, <1>11, <1>14, <1>15, <1>17, <1>18, <2>1 DEF Prefix, L
<1>21. Len(stack') = p + 1 + n
  <2>1. p + (n + 1) = p + 1 + n
    BY <1>11
  <2> QED
    BY <1>14, <2>1
<1>22. base >= Above /\ Held(stack[base].val)
  BY <1>3, <1>4, HeldFacts
<1> QED
  BY <1>2, <1>3, <1>4, <1>5, <1>6, <1>15, <1>19, <1>20, <1>21, <1>22

LEMMA CallInv ==
    ASSUME IInv, NEW k \in Nat, NEW n \in Nat, NEW params \in Injections(Unused, n), Call(k, params)
    PROVE  IInv'
<1> DEFINE b == Len(stack) - k
           f == [clo |-> stack[b].val, base |-> b, fixed |-> n + 1, back |-> ToStack]
           p == b - 1
<1>1. /\ Callable(k) /\ k <= Len(params)
      /\ stack' = SubSeq(stack, 1, b - 1) \o Activation(k, params)
      /\ frames' = Append(frames, [clo |-> stack[b].val, base |-> b, fixed |-> Len(params) + 1,
                                   back |-> ToStack])
      /\ UNCHANGED <<open, suspended, upvalue, env, thunks, phase, forcing, seen>>
  BY DEF Call, heapVars
<1>2. /\ Len(stack) \in Nat /\ Current.base \in Nat /\ Current.base > 0 /\ Current.fixed \in Nat
      /\ Above = Current.base + Current.fixed
      /\ phase = "run" /\ Len(stack) > k
      /\ \A i \in b .. Len(stack) : i >= Above
  BY <1>1, RunningFacts DEF Callable, Temporary
<1>3. b \in Nat /\ b > 0 /\ Current.base <= b /\ b <= Len(stack)
  <2>1. b \in Nat /\ b > 0 /\ b <= Len(stack) /\ b \in b .. Len(stack)
    BY <1>2
  <2>2. b >= Current.base + Current.fixed
    BY <1>2, <2>1
  <2> QED
    BY <1>2, <2>1, <2>2
<1>4. /\ Prefix(p) /\ Len(stack') = b + n /\ Len(params) = n
      /\ \A i \in 1 .. Len(stack') : Held(stack'[i].val)
      /\ b >= Above
      /\ Held(stack[b].val) /\ stack[b].val \in Closure
      /\ \A i \in b .. Len(stack) : stack[i].who = Nobody
  <2>1. p \in Nat /\ Current.base <= p + 1 /\ p < Len(stack) /\ p + 1 + n = b + n
    BY <1>2, <1>3
  <2>2. /\ stack' = SubSeq(stack, 1, p) \o Activation(k, params)
        /\ Callable(k) /\ k <= Len(params)
    BY <1>1
  <2> HIDE DEF p
  <2>3. /\ Prefix(p) /\ Len(stack') = p + 1 + n /\ Len(params) = n
        /\ \A i \in 1 .. Len(stack') : Held(stack'[i].val)
    BY <2>1, <2>2, ActivationFacts
  <2>4. LET base == Len(stack) - k
        IN  /\ base >= Above /\ Held(stack[base].val) /\ stack[base].val \in Closure
            /\ \A i \in base .. Len(stack) : stack[i].who = Nobody
    BY <2>1, <2>2, ActivationFacts
  <2> QED
    BY <2>1, <2>3, <2>4
<1>5. f \in Frame /\ f.clo = stack[b].val /\ f.base = b /\ f.fixed = n + 1 /\ f.back.to = "stack"
  BY <1>3, <1>4 DEF Frame, Target, ToStack
<1>6. frames' = Append(frames, f)
  BY <1>1, <1>4
<1>7. p \in 0 .. Len(stack) /\ p \in Nat /\ p + 1 = b
  BY <1>2, <1>3
<1> HIDE DEF f, p, b
<1>8. /\ FramesNested(stack', frames') /\ frames' \in Seq(Frame)
      /\ Len(frames') = Len(frames) + 1 /\ frames'[Len(frames) + 1] = f
      /\ \A i \in 1 .. Len(frames) : frames'[i] = frames[i] /\ i \in 1 .. Len(frames')
      /\ \A i \in 1 .. Len(frames') : i \in 1 .. Len(frames) \/ i = Len(frames) + 1
      /\ suspended # <<>> => frames'[1].fixed = frames[1].fixed
  <2>1. f.base > 0 /\ f.base >= Above /\ Len(stack') \in Nat /\ f.base + f.fixed <= Len(stack') + 1
    BY <1>3, <1>4, <1>5
  <2> QED
    BY <1>5, <1>6, <2>1, AppendNested
<1>9. Closes(p) /\ CellsKept
  <2>1. \A i \in p + 1 .. Len(stack) : stack[i].who = Nobody
    BY <1>4, <1>7
  <2>2. Closes(p)
    BY <1>1, <1>7, <2>1, NothingCloses
  <2> QED
    BY <1>7, <2>2, ClosesFacts
<1>10. \A i \in 1 .. Len(frames') :
          \/ frames'[i].back.to = "stack"
          \/ /\ i \in 1 .. Len(frames) /\ frames'[i].back = frames[i].back
             /\ frames'[i].base = frames[i].base
  BY <1>5, <1>8
<1>11. /\ BacksSound(stack', frames', upvalue')
       /\ \A i \in 1 .. Len(frames) : frames[i].back.to = "slot" =>
             stack'[frames[i].back.slot].who = stack[frames[i].back.slot].who
  BY <1>4, <1>9, <1>10, BacksStep
<1>12. ForcingExact'
  <2>1. \A i \in 1 .. Len(frames) : frames[i].back.to # "stack" =>
            i \in 1 .. Len(frames') /\ frames'[i].back = frames[i].back
    BY <1>8
  <2>2. \A i \in 1 .. Len(frames') : frames'[i].back.to # "stack" => i \in 1 .. Len(frames)
    BY <1>10
  <2>3. \A i \in 1 .. Len(frames') : i \in 1 .. Len(frames) => frames'[i].back = frames[i].back
    BY <1>8
  <2> QED
    BY <1>1, <1>9, <1>11, <2>1, <2>2, <2>3, StepForcing
<1>13. ASSUME NEW i \in 1 .. Len(frames')
       PROVE  /\ Held(frames'[i].clo) \/ (i \in 1 .. Len(frames) /\ frames'[i].clo = frames[i].clo)
              /\ frames'[i].back.to = "upvalue" =>
                    \/ frames'[i].back.up \in Inherited
                    \/ i \in 1 .. Len(frames) /\ frames'[i].back = frames[i].back
  <2>1. CASE i \in 1 .. Len(frames)
    BY <1>8, <2>1
  <2>2. CASE i = Len(frames) + 1
    BY <1>4, <1>5, <1>8, <2>2
  <2> QED
    BY <1>8, <2>1, <2>2
<1>14. /\ upvalue' \in [DOMAIN upvalue -> Cell] /\ forcing' \in Seq(Var)
       /\ seen' \in {<<>>} \cup (Var \X (Value \cup {Invalid}))
  BY <1>1 DEF IInv, TypeOK
<1>15. phase' = "run"
  BY <1>1, <1>2
<1>16. \A u \in DOMAIN upvalue : upvalue'[u].val = upvalue[u].val
  BY <1>1
<1>17. suspended' = suspended /\ env' = env /\ thunks' = thunks
  BY <1>1
<1> QED
  BY <1>4, <1>8, <1>9, <1>11, <1>12, <1>13, <1>14, <1>15, <1>16, <1>17, PrefixInv

\* A tail call runs in the frame of its caller, whose variables are closed and leave.
LEMMA TailCallInv ==
    ASSUME ScriptTailCall = FALSE, IInv,
           NEW k \in Nat, NEW n \in Nat, NEW params \in Injections(Unused, n), TailCall(k, params)
    PROVE  IInv'
<1> DEFINE b == Current.base
           p == b - 1
           m == Len(frames)
           callee == stack[Len(stack) - k].val
<1>1. /\ Callable(k) /\ k <= Len(params)
      /\ Len(frames) > 1 \/ suspended = <<>>
      /\ CloseUpvalues(b)
      /\ stack' = SubSeq(stack, 1, b - 1) \o Activation(k, params)
      /\ frames' = [frames EXCEPT ![m].clo = callee, ![m].fixed = Len(params) + 1]
      /\ UNCHANGED <<suspended, env, thunks, phase, forcing, seen>>
  BY DEF TailCall
<1>2. /\ Len(stack) \in Nat /\ b \in Nat /\ b > 0 /\ Current.fixed \in Nat
      /\ Above = b + Current.fixed /\ frames \in Seq(Frame) /\ m \in Nat /\ m > 0 /\ m \in 1 .. m
      /\ phase = "run" /\ Len(stack) > k /\ FramesNested(stack, frames)
      /\ \A i \in Len(stack) - k .. Len(stack) : i >= Above
  BY <1>1, RunningFacts DEF Callable, Temporary
<1>3. b <= Len(stack)
  <2>1. Len(stack) - k \in Len(stack) - k .. Len(stack) /\ Len(stack) - k \in Nat /\ Len(stack) - k <= Len(stack)
    BY <1>2
  <2>2. Len(stack) - k >= b + Current.fixed
    BY <1>2, <2>1
  <2> QED
    BY <1>2, <2>1, <2>2
<1>4. /\ Prefix(p) /\ Len(stack') = b + n /\ Len(params) = n
      /\ \A i \in 1 .. Len(stack') : Held(stack'[i].val)
      /\ Held(callee) /\ callee \in Closure
  <2>1. p \in Nat /\ Current.base <= p + 1 /\ p < Len(stack) /\ p + 1 + n = b + n
    BY <1>2, <1>3
  <2>2. /\ stack' = SubSeq(stack, 1, p) \o Activation(k, params)
        /\ Callable(k) /\ k <= Len(params)
    BY <1>1
  <2> HIDE DEF p
  <2>3. /\ Prefix(p) /\ Len(stack') = p + 1 + n /\ Len(params) = n
        /\ \A i \in 1 .. Len(stack') : Held(stack'[i].val)
    BY <2>1, <2>2, ActivationFacts
  <2>4. LET base == Len(stack) - k
        IN  /\ base >= Above /\ Held(stack[base].val) /\ stack[base].val \in Closure
            /\ \A i \in base .. Len(stack) : stack[i].who = Nobody
    BY <2>1, <2>2, ActivationFacts
  <2> QED
    BY <2>1, <2>3, <2>4
<1>5. p \in 0 .. Len(stack) /\ p \in Nat /\ p + 1 = b
  BY <1>2, <1>3
<1>6. Closes(p) /\ CellsKept /\ upvalue' \in [DOMAIN upvalue -> Cell]
  <2>1. Closes(p) /\ upvalue' \in [DOMAIN upvalue -> Cell]
    BY <1>1, <1>2, CloseUpvaluesFacts
  <2> QED
    BY <1>5, <2>1, ClosesFacts
<1>7. /\ frames' \in Seq(Frame) /\ Len(frames') = m
      /\ \A i \in 1 .. m : /\ frames'[i].base = frames[i].base /\ frames'[i].back = frames[i].back
                           /\ i # m => frames'[i] = frames[i]
      /\ frames'[m].clo = callee /\ frames'[m].fixed = n + 1
  <2> DEFINE g == [Current EXCEPT !.clo = callee, !.fixed = n + 1]
  <2>1. frames[m] = Current /\ Current \in Frame
    BY RunningFacts DEF Current
  <2>2. g \in Frame /\ g.base = Current.base /\ g.back = Current.back /\ g.clo = callee /\ g.fixed = n + 1
    <3>1. n + 1 \in Nat /\ callee \in Closure
      BY <1>4
    <3> HIDE DEF callee
    <3> QED
      BY <2>1, <3>1 DEF Frame
  <2>3. frames' = [frames EXCEPT ![m] = g]
    BY <1>1, <1>4, <2>1
  <2> HIDE DEF g
  <2>4. /\ frames' \in Seq(Frame) /\ Len(frames') = m /\ frames'[m] = g
        /\ \A i \in 1 .. m : i # m => frames'[i] = frames[i]
    BY <1>2, <2>2, <2>3, ExceptSeq
  <2> QED
    BY <2>1, <2>2, <2>4
<1>8. suspended # <<>> => frames'[1].fixed = frames[1].fixed
  <2>1. suspended # <<>> => m > 1 /\ 1 \in 1 .. m /\ 1 # m
    BY <1>1, <1>2
  <2> QED
    BY <1>7, <2>1
<1> HIDE DEF callee, p
<1>9. FramesNested(stack', frames')
  <2>1. ASSUME NEW i \in 1 .. m, NEW j \in 1 .. m, i < j
        PROVE  frames'[i].base + frames'[i].fixed <= frames'[j].base
    <3>1. i # m
      BY <1>2, <2>1
    <3> QED
      BY <1>2, <1>7, <2>1, <3>1 DEF FramesNested
  <2>2. frames'[m].base + frames'[m].fixed <= Len(stack') + 1
    <3>1. frames'[m].base = b /\ frames'[m].fixed = n + 1
      BY <1>2, <1>7 DEF Current
    <3> QED
      BY <1>2, <1>4, <3>1
  <2>3. 1 \in 1 .. m
    BY <1>2
  <2> QED
    BY <1>2, <1>7, <2>1, <2>2, <2>3 DEF FramesNested
<1>10. /\ BacksSound(stack', frames', upvalue')
       /\ \A i \in 1 .. Len(frames) : frames[i].back.to = "slot" =>
             stack'[frames[i].back.slot].who = stack[frames[i].back.slot].who
  <2>1. \A i \in 1 .. Len(frames') :
           /\ i \in 1 .. Len(frames) /\ frames'[i].back = frames[i].back
           /\ frames'[i].base = frames[i].base
    BY <1>7
  <2> QED
    BY <1>4, <1>6, <2>1, BacksStep
<1>11. ForcingExact'
  BY <1>1, <1>6, <1>7, <1>10, StepForcing
<1>12. ASSUME NEW i \in 1 .. Len(frames')
       PROVE  /\ Held(frames'[i].clo) \/ (i \in 1 .. Len(frames) /\ frames'[i].clo = frames[i].clo)
              /\ frames'[i].back.to = "upvalue" =>
                    \/ frames'[i].back.up \in Inherited
                    \/ i \in 1 .. Len(frames) /\ frames'[i].back = frames[i].back
  <2>1. i \in 1 .. m
    BY <1>7
  <2> QED
    BY <1>4, <1>7, <2>1
<1>13. forcing' \in Seq(Var) /\ seen' \in {<<>>} \cup (Var \X (Value \cup {Invalid}))
  BY <1>1 DEF IInv, TypeOK
<1>14. phase' = "run" /\ suspended' = suspended /\ env' = env /\ thunks' = thunks
  BY <1>1, <1>2
<1>15. \A u \in DOMAIN upvalue : u \notin Closing(p + 1) => upvalue'[u].val = upvalue[u].val
  BY <1>1, <1>5 DEF CloseUpvalues
<1> QED
  BY <1>4, <1>6, <1>7, <1>8, <1>9, <1>10, <1>11, <1>12, <1>13, <1>14, <1>15, PrefixInv

----------------------------------------------------------------------------
(* Returns *)

\* The frame on top, when it evaluates a thunk, does so for the last variable forced.
LEMMA LastForced ==
    ASSUME IInv, Current.back.to # "stack", NEW at, ForcedAt(at)
    PROVE  /\ Len(forcing) \in Nat /\ Len(forcing) > 0
           /\ at[Len(forcing)] = <<Level, Len(frames)>>
           /\ forcing[Len(forcing)] = Awaits(Running, Len(frames))
<1> TypeOK
  BY DEF IInv
<1> DEFINE n == Len(forcing)
           m == Len(frames)
<1>1. /\ forcing \in Seq(Var) /\ n \in Nat /\ m \in Nat /\ m \in 1 .. m /\ frames[m] = Current
      /\ Level \in Levels /\ Mach(Level) = Running /\ Running.frames = frames
      /\ Level = Len(suspended) + 1 /\ Len(suspended) \in Nat
  BY RunningFacts, MachFacts DEF TypeOK, Current
<1>2. PICK k \in 1 .. n : at[k] = <<Level, m>>
  BY <1>1 DEF ForcedAt
<1>3. n > 0 /\ n \in 1 .. n
  BY <1>1, <1>2
<1>4. at[n][1] \in Levels /\ at[n][2] \in Nat /\ at[n][2] <= Len(Mach(at[n][1]).frames)
  BY <1>3 DEF ForcedAt
<1>5. at[n] = <<Level, m>>
  <2> SUFFICES ASSUME k # n PROVE FALSE
    BY <1>2
  <2>1. k < n
    BY <1>1
  <2>2. Earlier(at[k], at[n])
    BY <1>3, <2>1 DEF ForcedAt
  <2>3. Level < at[n][1] \/ (Level = at[n][1] /\ m < at[n][2])
    BY <1>2, <2>2 DEF Earlier
  <2>4. at[n][1] \in 1 .. Level
    BY <1>4 DEF Levels
  <2>5. Level = at[n][1] /\ m < at[n][2]
    BY <1>1, <2>3, <2>4
  <2>6. at[n][2] <= m
    BY <1>1, <1>4, <2>5
  <2> QED
    BY <1>1, <1>4, <2>5, <2>6
<1>6. forcing[n] = Awaits(Running, m)
  BY <1>1, <1>3, <1>5 DEF ForcedAt
<1> QED
  BY <1>1, <1>3, <1>5, <1>6

\* A frame that evaluated a thunk returns.
LEMMA EndForcing ==
    ASSUME IInv, suspended' = suspended, CellsKept, Current.back.to # "stack",
           forcing' = Front(forcing), Len(frames') = Len(frames) - 1,
           \A i \in 1 .. Len(frames) - 1 : frames'[i] = frames[i],
           \A i \in 1 .. Len(frames) - 1 : frames[i].back.to = "slot" =>
               stack'[frames[i].back.slot].who = stack[frames[i].back.slot].who,
           Current.back.to = "slot" =>
               stack'[Current.back.slot].who = stack[Current.back.slot].who
    PROVE  ForcingExact' /\ forcing' \in Seq(Var)
<1> TypeOK
  BY DEF IInv
<1>1. PICK at : ForcedAt(at)
  BY DEF IInv, ForcingExact
\* (names for what does not change in the step)
<1>2. PICK n : n = Len(forcing)
  OBVIOUS
<1>3. PICK m : m = Len(frames)
  OBVIOUS
<1>4. /\ Levels' = Levels /\ m \in Nat /\ m > 0 /\ frames \in Seq(Frame) /\ Level \in Levels
      /\ \A a \in Levels : a = Level => Mach(a)'.stack = stack' /\ Mach(a)'.frames = frames'
      /\ \A a \in Levels : a = Level => Mach(a).stack = stack /\ Mach(a).frames = frames
      /\ \A a \in Levels : a # Level => Mach(a)' = Mach(a)
      /\ frames[m] = Current
  BY <1>3, MachNext, MachFacts, RunningFacts DEF Current
<1>5. PICK x : x = <<Level, m>>
  OBVIOUS
<1>6. n \in Nat /\ n > 0 /\ at[n] = x
  BY <1>1, <1>2, <1>3, <1>5, LastForced
<1>7. /\ forcing' \in Seq(Var) /\ Len(forcing') = n - 1
      /\ \A k \in 1 .. n - 1 : forcing'[k] = forcing[k]
  BY <1>2, <1>6, FrontFacts DEF TypeOK
<1>8. PICK at2 : at2 = [k \in 1 .. n - 1 |-> at[k]]
  OBVIOUS
<1>9. /\ \A k \in 1 .. n - 1 : at2[k] = at[k] /\ k \in 1 .. n /\ k < n
      /\ \A k \in 1 .. n : k \in 1 .. n - 1 \/ k = n
      /\ n \in 1 .. n
  BY <1>6, <1>8
<1>10. at \in [1 .. n -> Levels \X (Nat \ {0})]
  BY <1>1, <1>2 DEF ForcedAt
<1>11. at2 \in [1 .. n - 1 -> Levels \X (Nat \ {0})]
  BY <1>8, <1>9, <1>10
<1>12. \A j \in 1 .. Len(frames) : frames[j].back.to = "slot" =>
           stack'[frames[j].back.slot].who = stack[frames[j].back.slot].who
  <2> SUFFICES ASSUME NEW j \in 1 .. Len(frames), frames[j].back.to = "slot"
               PROVE  stack'[frames[j].back.slot].who = stack[frames[j].back.slot].who
    OBVIOUS
  <2>1. CASE j = m
    BY <1>4, <2>1
  <2>2. CASE j # m
    <3>1. j \in 1 .. Len(frames) - 1
      BY <1>3, <1>4, <2>2
    <3> QED
      BY <3>1
  <2> QED
    BY <2>1, <2>2
<1>13. ASSUME NEW k \in 1 .. n - 1
       PROVE  LET mm == Mach(at[k][1])'
              IN  /\ at[k][2] <= Len(mm.frames) /\ mm.frames[at[k][2]].back.to # "stack"
                  /\ forcing[k] = Awaits(Mach(at[k][1]), at[k][2])'
  <2> DEFINE a == at[k][1]
             i == at[k][2]
  <2>1. a \in Levels /\ i \in Nat \ {0}
    BY <1>9, <1>10
  <2>2. /\ i <= Len(Mach(a).frames) /\ Mach(a).frames[i].back.to # "stack"
        /\ forcing[k] = Awaits(Mach(a), i)
    BY <1>1, <1>2, <1>9 DEF ForcedAt
  <2>3. Earlier(at[k], at[n])
    BY <1>1, <1>2, <1>9 DEF ForcedAt
  <2>4. a < Level \/ (a = Level /\ i < m)
    BY <1>5, <1>6, <2>3 DEF Earlier
  <2> HIDE DEF a, i
  <2>5. i \in 1 .. Len(Mach(a).frames)
    <3>1. Len(Mach(a).frames) \in Nat
      BY <2>1, MachFacts, MachineFacts
    <3> QED
      BY <2>1, <2>2, <3>1
  <2>6. ASSUME a = Level PROVE i \in 1 .. Len(frames') /\ frames'[i].back = frames[i].back
    <3>1. i < m
      <4>1. Level \in Nat
        BY MachFacts
      <4> QED
        BY <2>4, <2>6, <4>1
    <3>2. i \in 1 .. Len(frames) - 1
      BY <1>3, <1>4, <2>1, <3>1
    <3> QED
      BY <3>2
  <2>7. /\ i <= Len(Mach(a)'.frames) /\ Mach(a)'.frames[i].back.to # "stack"
        /\ Awaits(Mach(a), i)' = Awaits(Mach(a), i)
    BY <1>12, <2>1, <2>2, <2>5, <2>6, AwaitsKept
  <2> QED
    BY <2>2, <2>7 DEF a, i
<1>14. ASSUME NEW k \in 1 .. n - 1
       PROVE  LET mm == Mach(at2[k][1])'
              IN  /\ at2[k][2] <= Len(mm.frames) /\ mm.frames[at2[k][2]].back.to # "stack"
                  /\ forcing'[k] = Awaits(Mach(at2[k][1]), at2[k][2])'
  <2>1. at2[k] = at[k] /\ forcing'[k] = forcing[k]
    BY <1>7, <1>9
  <2> QED
    BY <1>13, <2>1
<1>15. ASSUME NEW a \in Levels, NEW i \in 1 .. Len(Mach(a)'.frames), Mach(a)'.frames[i].back.to # "stack"
       PROVE  \E k \in 1 .. n - 1 : at2[k] = <<a, i>>
  <2>1. i \in 1 .. Len(Mach(a).frames) /\ Mach(a).frames[i].back.to # "stack" /\ <<a, i>> # x
    <3>1. CASE a = Level
      <4>1. i \in 1 .. Len(frames) - 1 /\ i \in 1 .. Len(frames) /\ i # m
        BY <1>3, <1>4, <1>15, <3>1
      <4> QED
        BY <1>4, <1>5, <1>15, <3>1, <4>1
    <3>2. CASE a # Level
      BY <1>4, <1>5, <1>15, <3>2
    <3> QED
      BY <3>1, <3>2
  <2>2. PICK k \in 1 .. n : at[k] = <<a, i>>
    BY <1>1, <1>2, <2>1 DEF ForcedAt
  <2> QED
    BY <1>6, <1>9, <2>1, <2>2
<1>16. ForcedAt(at2)'
  <2>1. Len(forcing') = n - 1 /\ Levels' = Levels
    BY <1>4, <1>7
  <2>2. at2 \in [1 .. Len(forcing') -> Levels' \X (Nat \ {0})]
    BY <1>11, <2>1
  <2>3. \A k \in 1 .. Len(forcing') :
           LET mm == Mach(at2[k][1])'
           IN  /\ at2[k][2] <= Len(mm.frames) /\ mm.frames[at2[k][2]].back.to # "stack"
               /\ forcing'[k] = Awaits(Mach(at2[k][1]), at2[k][2])'
    BY <1>14, <2>1
  <2>4. \A a \in Levels' : \A i \in 1 .. Len(Mach(a)'.frames) :
           Mach(a)'.frames[i].back.to # "stack" => \E k \in 1 .. Len(forcing') : at2[k] = <<a, i>>
    BY <1>15, <2>1
  <2>5. \A j, k \in 1 .. Len(forcing') : j < k => Earlier(at2[j], at2[k])
    BY <1>1, <1>2, <1>9, <2>1 DEF ForcedAt
  <2> QED
    BY <2>2, <2>3, <2>4, <2>5 DEF ForcedAt, Earlier
<1> QED
  BY <1>7, <1>16 DEF ForcingExact

\* What a return leaves on the stack
LEMMA ReturnStack ==
    ASSUME IInv, Return, NEW p, p = Current.base - 1
    PROVE  /\ p \in Nat /\ p < Len(stack) /\ stack' \in Seq(Slot) /\ Len(stack') = p + 1
           /\ \A i \in 1 .. p :
                 /\ stack'[i].who = stack[i].who
                 /\ stack[i].who = Nobody => stack'[i].val = stack[i].val
                 /\ stack'[i].val = stack[i].val \/ stack'[i].val = Top.val
           /\ stack'[p + 1] = Temp(Top.val)
           /\ Top.val \in Value /\ Held(Top.val) /\ Temp(Top.val) \in Slot
<1> DEFINE base == Current.base
           back == Current.back
           rest == SubSeq(stack, 1, base - 1)
           x == Top.val
           changed == [rest EXCEPT ![back.slot].val = x]
           R == IF back.to = "slot" THEN changed ELSE rest
<1>1. /\ stack \in Seq(Slot) /\ Len(stack) \in Nat /\ base \in Nat /\ base > 0 /\ Current.fixed \in Nat
      /\ Above = base + Current.fixed
      /\ \A i \in 1 .. Len(stack) :
            stack[i] \in Slot /\ (stack[i].who = Nobody => stack[i].val \in Value)
  BY RunningFacts
<1>2. Len(stack) = Above /\ Temporary(Len(stack))
  BY DEF Return, BodyDone
<1>3. Len(stack) \in 1 .. Len(stack) /\ base - 1 < Len(stack) /\ base - 1 \in Nat /\ base - 1 <= Len(stack)
  BY <1>1, <1>2
<1>4. x \in Value /\ Held(x)
  BY <1>1, <1>2, <1>3, HeldFacts DEF Temporary, Top
<1>5. Temp(x) \in Slot
  BY <1>4, TempFacts
<1>6. p \in Nat /\ p < Len(stack) /\ p + 1 = base /\ rest = SubSeq(stack, 1, p)
  BY <1>1, <1>3
<1>7. rest \in Seq(Slot) /\ Len(rest) = p /\ \A i \in 1 .. p : rest[i] = stack[i] /\ rest[i] \in Slot
  <2>1. \A i \in 1 .. p : stack[i] \in Slot /\ i \in 1 .. Len(stack)
    BY <1>1, <1>6
  <2>2. 1 \in Int /\ p \in Int /\ 1 <= p + 1
    BY <1>6
  <2> HIDE DEF rest
  <2>3. /\ SubSeq(stack, 1, p) \in Seq(Slot)
        /\ Len(SubSeq(stack, 1, p)) = (IF 1 <= p THEN p - 1 + 1 ELSE 0)
        /\ \A i \in 1 .. p - 1 + 1 : SubSeq(stack, 1, p)[i] = stack[1 + i - 1]
    BY <2>1, <2>2, SubSeqProperties
  <2>4. Len(rest) = p
    BY <1>6, <2>3
  <2>5. ASSUME NEW i \in 1 .. p PROVE rest[i] = stack[i]
    <3>1. i \in 1 .. p - 1 + 1 /\ 1 + i - 1 = i
      BY <1>6
    <3> QED
      BY <1>6, <2>3, <3>1
  <2> QED
    BY <1>6, <2>1, <2>3, <2>4, <2>5
<1>8. \/ stack' = Append(rest, Temp(x))
      \/ back.to = "slot" /\ stack' = Append(changed, Temp(x))
  BY DEF Return, WriteBack
<1> HIDE DEF rest, x
<1>9. back.to = "slot" =>
         /\ changed \in Seq(Slot) /\ Len(changed) = p
         /\ \A i \in 1 .. p :
               /\ changed[i].who = stack[i].who
               /\ stack[i].who = Nobody => changed[i].val = stack[i].val
               /\ changed[i].val = stack[i].val \/ changed[i].val = x
  <2> SUFFICES ASSUME back.to = "slot"
               PROVE  /\ changed \in Seq(Slot) /\ Len(changed) = p
                      /\ \A i \in 1 .. p :
                            /\ changed[i].who = stack[i].who
                            /\ stack[i].who = Nobody => changed[i].val = stack[i].val
                            /\ changed[i].val = stack[i].val \/ changed[i].val = x
    OBVIOUS
  <2>1. back.slot \in 1 .. p /\ stack[back.slot].who # Nobody
    <3>1. Len(frames) \in 1 .. Len(frames) /\ Current = frames[Len(frames)]
      BY RunningFacts DEF Current
    <3>2. back.slot \in 1 .. base - 1 /\ stack[back.slot].who # Nobody
      BY <3>1, BackFacts
    <3> QED
      BY <1>6, <3>2
  <2> DEFINE g == [rest[back.slot] EXCEPT !.val = x]
  <2>2. g \in Slot /\ g.val = x /\ g.who = stack[back.slot].who
    <3>1. rest[back.slot] \in Slot /\ rest[back.slot] = stack[back.slot]
      BY <1>7, <2>1
    <3> QED
      BY <1>4, <3>1 DEF Slot
  <2>3. changed = [rest EXCEPT ![back.slot] = g]
    OBVIOUS
  <2> HIDE DEF g, changed
  <2>4. /\ changed \in Seq(Slot) /\ Len(changed) = p /\ changed[back.slot] = g
        /\ \A i \in 1 .. p : i # back.slot => changed[i] = rest[i]
    BY <1>7, <2>1, <2>2, <2>3, ExceptSeq
  <2>5. ASSUME NEW i \in 1 .. p
        PROVE  /\ changed[i].who = stack[i].who
               /\ stack[i].who = Nobody => changed[i].val = stack[i].val
               /\ changed[i].val = stack[i].val \/ changed[i].val = x
    <3>1. CASE i = back.slot
      BY <2>1, <2>2, <2>4, <3>1
    <3>2. CASE i # back.slot
      BY <1>7, <2>4, <3>2
    <3> QED
      BY <3>1, <3>2
  <2> QED
    BY <2>4, <2>5
<1> HIDE DEF changed
<1>10. ASSUME NEW r \in Seq(Slot), Len(r) = p, stack' = Append(r, Temp(x)),
              \A i \in 1 .. p :
                 /\ r[i].who = stack[i].who
                 /\ stack[i].who = Nobody => r[i].val = stack[i].val
                 /\ r[i].val = stack[i].val \/ r[i].val = x
       PROVE  /\ stack' \in Seq(Slot) /\ Len(stack') = p + 1 /\ stack'[p + 1] = Temp(x)
              /\ \A i \in 1 .. p :
                    /\ stack'[i].who = stack[i].who
                    /\ stack[i].who = Nobody => stack'[i].val = stack[i].val
                    /\ stack'[i].val = stack[i].val \/ stack'[i].val = x
  <2>1. /\ stack' \in Seq(Slot) /\ Len(stack') = p + 1 /\ stack'[p + 1] = Temp(x)
        /\ \A i \in 1 .. p : stack'[i] = r[i]
    BY <1>5, <1>10, AppendProperties
  <2> QED
    BY <1>10, <2>1
<1>11. CASE stack' = Append(rest, Temp(x))
  BY <1>4, <1>5, <1>6, <1>7, <1>10, <1>11 DEF x
<1>12. CASE back.to = "slot" /\ stack' = Append(changed, Temp(x))
  BY <1>4, <1>5, <1>6, <1>9, <1>10, <1>12 DEF x
<1> QED
  BY <1>8, <1>11, <1>12

\* What it does to the upvalues
LEMMA ReturnCloses ==
    ASSUME IInv, Return, NEW p, p = Current.base - 1
    PROVE  /\ Closes(p) /\ CellsKept /\ upvalue' \in [DOMAIN upvalue -> Cell]
           /\ \A u \in DOMAIN upvalue : u \notin Closing(p + 1) =>
                 \/ upvalue'[u].val = upvalue[u].val
                 \/ Current.back.to = "upvalue" /\ Current.back.up = u /\ upvalue'[u].val = Top.val
<1> DEFINE base == Current.base
           back == Current.back
           x == Top.val
<1>1. p \in Nat /\ x \in Value
  BY ReturnStack
<1>2. base \in Nat /\ base > 0 /\ p + 1 = base
  BY RunningFacts
<1>3. /\ open' = SubSeq(open, Walk(p), Len(open))
      /\ upvalue' = [u \in DOMAIN upvalue |->
                        IF u \in Closing(base) THEN Closed(upvalue[u])
                        ELSE IF back.to = "upvalue" /\ back.up = u
                             THEN [upvalue[u] EXCEPT !.val = x]
                             ELSE upvalue[u]]
  BY DEF Return
<1>4. \A u \in Closing(base) :
           /\ u \in DOMAIN upvalue /\ Closed(upvalue[u]) \in Cell
           /\ Closed(upvalue[u]).loc = 0 /\ Closed(upvalue[u]).of = upvalue[u].of
           /\ Closed(upvalue[u]).val = stack[upvalue[u].loc].val
  BY <1>2, ClosedCell
<1> HIDE DEF x
<1>5. ASSUME NEW c \in Cell
      PROVE  LET d == [c EXCEPT !.val = x]
             IN  d \in Cell /\ d.loc = c.loc /\ d.of = c.of /\ d.val = x
  BY <1>1 DEF Cell
<1>6. ASSUME NEW u \in DOMAIN upvalue
      PROVE  /\ upvalue'[u] \in Cell /\ upvalue'[u].of = upvalue[u].of
             /\ IF u \in Closing(base)
                THEN upvalue'[u].loc = 0 /\ upvalue'[u].val = stack[upvalue[u].loc].val
                ELSE /\ upvalue'[u].loc = upvalue[u].loc
                     /\ \/ upvalue'[u].val = upvalue[u].val
                        \/ back.to = "upvalue" /\ back.up = u /\ upvalue'[u].val = x
  <2>1. CASE u \in Closing(base)
    BY <1>3, <1>4, <2>1
  <2>2. CASE u \notin Closing(base) /\ back.to = "upvalue" /\ back.up = u
    <3>1. upvalue'[u] = [upvalue[u] EXCEPT !.val = x] /\ upvalue[u] \in Cell
      BY <1>3, <2>2, CellFacts DEF IInv
    <3> QED
      BY <1>5, <2>2, <3>1
  <2>3. CASE u \notin Closing(base) /\ ~(back.to = "upvalue" /\ back.up = u)
    BY <1>3, <2>3, CellFacts DEF IInv
  <2> QED
    BY <2>1, <2>2, <2>3
<1>7. DOMAIN upvalue' = DOMAIN upvalue /\ upvalue' \in [DOMAIN upvalue -> Cell]
  BY <1>3, <1>6
<1>8. Closes(p)
  BY <1>2, <1>3, <1>6, <1>7 DEF Closes
<1>9. CellsKept
  BY <1>1, <1>8, ClosesFacts
<1> QED
  BY <1>2, <1>6, <1>7, <1>8, <1>9 DEF x

LEMMA ReturnInv == ASSUME IInv, Return PROVE IInv'
<1> DEFINE m == Len(frames)
           back == Current.back
<1>0. PICK p : p = Current.base - 1
  OBVIOUS
<1>1. /\ p \in Nat /\ p < Len(stack) /\ stack' \in Seq(Slot) /\ Len(stack') = p + 1
      /\ \A i \in 1 .. p :
            /\ stack'[i].who = stack[i].who
            /\ stack[i].who = Nobody => stack'[i].val = stack[i].val
            /\ stack'[i].val = stack[i].val \/ stack'[i].val = Top.val
      /\ stack'[p + 1] = Temp(Top.val)
      /\ Top.val \in Value /\ Held(Top.val) /\ Temp(Top.val) \in Slot
  BY <1>0, ReturnStack
<1>2. /\ Closes(p) /\ CellsKept /\ upvalue' \in [DOMAIN upvalue -> Cell]
      /\ \A u \in DOMAIN upvalue : u \notin Closing(p + 1) =>
            \/ upvalue'[u].val = upvalue[u].val
            \/ back.to = "upvalue" /\ back.up = u /\ upvalue'[u].val = Top.val
  BY <1>0, ReturnCloses
<1>3. /\ phase' = "run" /\ phase = "run" /\ UNCHANGED <<suspended, env, thunks>>
      /\ m > 1 /\ frames' = Front(frames)
      /\ back.to = "stack" => UNCHANGED <<forcing, seen>>
      /\ back.to # "stack" => /\ forcing' = Front(forcing)
                              /\ seen' = <<forcing[Len(forcing)], Top.val>>
  BY DEF Return, BodyDone, WriteBack
<1>4. /\ frames \in Seq(Frame) /\ m \in Nat /\ Len(stack) \in Nat /\ FramesNested(stack, frames)
      /\ Current = frames[m] /\ Current.base \in Nat /\ Current.base > 0
  BY RunningFacts DEF Current
<1>5. /\ frames' \in Seq(Frame) /\ Len(frames') = m - 1
      /\ \A i \in 1 .. m - 1 : frames'[i] = frames[i] /\ i \in 1 .. m
      /\ \A i \in 1 .. m : i # m => i \in 1 .. m - 1
      /\ m - 1 \in 1 .. m - 1 /\ 1 \in 1 .. m - 1 /\ m - 1 < m /\ m \in 1 .. m
  BY <1>3, <1>4, FrontFacts
<1> HIDE DEF m
<1>6. Prefix(p)
  <2>1. p \in 0 .. Len(stack) /\ p <= Len(stack') /\ Current.base - 1 <= p
    BY <1>0, <1>1, <1>4
  <2>2. \A i \in p + 1 .. Len(stack') : stack'[i].who = Nobody /\ stack'[i].val \in Value /\ i = p + 1
    BY <1>1, TempFacts
  <2> QED
    BY <1>1, <1>3, <2>1, <2>2 DEF Prefix
<1>7. FramesNested(stack', frames')
  <2>1. frames'[m - 1].base + frames'[m - 1].fixed <= Len(stack') + 1
    <3>1. frames[m - 1].base + frames[m - 1].fixed <= Current.base
      BY <1>4, <1>5 DEF FramesNested, m
    <3>2. frames[m - 1].base \in Nat /\ frames[m - 1].fixed \in Nat
      BY <1>5, BackFacts DEF m
    <3>3. Len(stack') + 1 = Current.base + 1
      BY <1>0, <1>1, <1>4
    <3>4. frames'[m - 1] = frames[m - 1]
      BY <1>5
    <3>5. frames[m - 1].base + frames[m - 1].fixed \in Nat
      BY <3>2
    <3>6. frames[m - 1].base + frames[m - 1].fixed <= Len(stack') + 1
      BY <1>4, <3>1, <3>3, <3>5
    <3> QED
      BY <3>4, <3>6
  <2>2. Len(frames') > 0
    BY <1>5
  <2>3. \A i \in 1 .. m - 1 : frames'[i].base > 0
    BY <1>4, <1>5 DEF FramesNested, m
  <2>4. \A i, j \in 1 .. m - 1 : i < j => frames'[i].base + frames'[i].fixed <= frames'[j].base
    BY <1>4, <1>5 DEF FramesNested, m
  <2>5. frames'[1].base = 1 /\ frames'[1].back = ToStack
    BY <1>4, <1>5 DEF FramesNested
  <2> QED
    BY <1>5, <2>1, <2>2, <2>3, <2>4, <2>5 DEF FramesNested
<1>8. /\ BacksSound(stack', frames', upvalue')
      /\ \A i \in 1 .. Len(frames) : frames[i].back.to = "slot" =>
            stack'[frames[i].back.slot].who = stack[frames[i].back.slot].who
  <2>1. \A i \in 1 .. Len(frames') :
           i \in 1 .. Len(frames) /\ frames'[i].back = frames[i].back /\ frames'[i].base = frames[i].base
    BY <1>5 DEF m
  <2> QED
    BY <1>2, <1>6, <2>1, BacksStep
<1>9. /\ ForcingExact' /\ forcing' \in Seq(Var)
      /\ seen' \in {<<>>} \cup (Var \X (Value \cup {Invalid}))
  <2>1. CASE back.to = "stack"
    <3>1. ASSUME NEW i \in 1 .. Len(frames), frames[i].back.to # "stack"
          PROVE  i \in 1 .. Len(frames') /\ frames'[i].back = frames[i].back
      <4>1. i \in 1 .. m /\ i # m
        BY <1>4, <2>1, <3>1 DEF m
      <4> QED
        BY <1>5, <4>1
    <3>2. \A i \in 1 .. Len(frames') : i \in 1 .. Len(frames) /\ frames'[i].back = frames[i].back
      BY <1>5 DEF m
    <3>3. forcing' = forcing /\ seen' = seen /\ suspended' = suspended
      BY <1>3, <2>1
    <3>4. ForcingExact'
      BY <1>2, <1>8, <3>1, <3>2, <3>3, StepForcing
    <3> QED
      BY <3>3, <3>4 DEF IInv, TypeOK
  <2>2. CASE back.to # "stack"
    <3>1. ForcingExact' /\ forcing' \in Seq(Var)
      <4>1. \A i \in 1 .. Len(frames) - 1 : frames'[i] = frames[i] /\ i \in 1 .. Len(frames)
        BY <1>5 DEF m
      <4>2. Len(frames') = Len(frames) - 1 /\ forcing' = Front(forcing) /\ suspended' = suspended
        BY <1>3, <1>5, <2>2 DEF m
      <4>3. back.to = "slot" => stack'[back.slot].who = stack[back.slot].who
        BY <1>4, <1>5, <1>8 DEF m
      <4> QED
        BY <1>2, <1>8, <2>2, <4>1, <4>2, <4>3, EndForcing
    <3>2. forcing[Len(forcing)] \in Var
      <4>1. PICK at : ForcedAt(at)
        BY DEF IInv, ForcingExact
      <4>2. Len(forcing) \in Nat /\ Len(forcing) > 0
        BY <2>2, <4>1, LastForced
      <4>3. forcing \in Seq(Var)
        BY DEF IInv, TypeOK
      <4> QED
        BY <4>2, <4>3
    <3> QED
      BY <1>1, <1>3, <2>2, <3>1, <3>2
  <2> QED
    BY <2>1, <2>2
<1>10. \A i \in 1 .. Len(stack') : Held(stack'[i].val)
  <2> SUFFICES ASSUME NEW i \in 1 .. Len(stack') PROVE Held(stack'[i].val)
    OBVIOUS
  <2>1. i \in 1 .. p \/ i = p + 1
    BY <1>1
  <2>2. CASE i \in 1 .. p
    <3>1. i \in 1 .. Len(stack)
      BY <1>1, <1>4, <2>2
    <3> QED
      BY <1>1, <2>2, <3>1, HeldFacts
  <2>3. CASE i = p + 1
    BY <1>1, <2>3, TempFacts
  <2> QED
    BY <2>1, <2>2, <2>3
<1>11. ASSUME NEW i \in 1 .. Len(frames')
       PROVE  i \in 1 .. Len(frames) /\ frames'[i].clo = frames[i].clo /\ frames'[i].back = frames[i].back
  BY <1>5 DEF m
<1>12. ASSUME NEW u \in DOMAIN upvalue, u \notin Closing(p + 1)
       PROVE  \/ upvalue'[u].val = upvalue[u].val
              \/ /\ Held(upvalue'[u].val)
                 /\ \E i \in 1 .. Len(frames) : frames[i].back.to = "upvalue" /\ frames[i].back.up = u
  <2>1. m \in 1 .. Len(frames) /\ frames[m].back = back
    BY <1>4, <1>5 DEF m
  <2> QED
    BY <1>1, <1>2, <1>12, <2>1
<1>13. suspended # <<>> => frames'[1].fixed = frames[1].fixed
  BY <1>5
<1>14. suspended' = suspended /\ env' = env /\ thunks' = thunks
  BY <1>3
<1> QED
  BY <1>2, <1>3, <1>5, <1>6, <1>7, <1>8, <1>9, <1>10, <1>11, <1>12, <1>13, <1>14, PrefixInv

----------------------------------------------------------------------------
(* Closures *)

LEMMA InsertFacts ==
    ASSUME open \in Seq(Up), NEW i \in 1 .. Len(open) + 1, NEW e \in Up
    PROVE  /\ InsertAt(i, e) \in Seq(Up) /\ Len(InsertAt(i, e)) = Len(open) + 1
           /\ InsertAt(i, e)[i] = e
           /\ \A j \in 1 .. i - 1 : InsertAt(i, e)[j] = open[j]
           /\ \A j \in i + 1 .. Len(open) + 1 : InsertAt(i, e)[j] = open[j - 1]
<1> DEFINE S == Up
           s == open
           t == InsertAt(i, e)
           n == Len(s)
           A == SubSeq(s, 1, i - 1)
           B == <<e>>
           C == SubSeq(s, i, n)
<1>1. n \in Nat /\ i \in Nat /\ i >= 1 /\ i <= n + 1 /\ \A j \in 1 .. n : s[j] \in S
  OBVIOUS
<1>2. A \in Seq(S) /\ Len(A) = i - 1 /\ \A j \in 1 .. i - 1 : A[j] = s[j]
  <2>1. \A j \in 1 .. i - 1 : s[j] \in S
    BY <1>1
  <2>2. i - 1 \in Int /\ 1 <= (i - 1) + 1
    BY <1>1
  <2> HIDE DEF A
  <2>3. /\ SubSeq(s, 1, i - 1) \in Seq(S)
        /\ Len(SubSeq(s, 1, i - 1)) = (IF 1 <= i - 1 THEN (i - 1) - 1 + 1 ELSE 0)
        /\ \A j \in 1 .. (i - 1) - 1 + 1 : SubSeq(s, 1, i - 1)[j] = s[1 + j - 1]
    BY <2>1, <2>2, SubSeqProperties
  <2>4. \A j \in 1 .. i - 1 : j \in 1 .. (i - 1) - 1 + 1 /\ 1 + j - 1 = j
    BY <1>1
  <2>5. Len(SubSeq(s, 1, i - 1)) = i - 1
    BY <1>1, <2>3
  <2>6. ASSUME NEW j \in 1 .. i - 1 PROVE SubSeq(s, 1, i - 1)[j] = s[j]
    <3>1. j \in 1 .. (i - 1) - 1 + 1 /\ 1 + j - 1 = j
      BY <2>4
    <3> QED
      BY <2>3, <3>1
  <2> QED
    BY <2>3, <2>5, <2>6 DEF A
<1>3. C \in Seq(S) /\ Len(C) = n - i + 1 /\ \A j \in 1 .. n - i + 1 : C[j] = s[i + j - 1]
  <2>1. \A j \in i .. n : s[j] \in S
    BY <1>1
  <2>2. i \in Int /\ n \in Int /\ i <= n + 1
    BY <1>1
  <2> HIDE DEF C, n
  <2>3. /\ SubSeq(s, i, n) \in Seq(S)
        /\ Len(SubSeq(s, i, n)) = (IF i <= n THEN n - i + 1 ELSE 0)
        /\ \A j \in 1 .. n - i + 1 : SubSeq(s, i, n)[j] = s[i + j - 1]
    BY <1>1, <2>1, <2>2, SubSeqProperties
  <2>4. Len(SubSeq(s, i, n)) = n - i + 1
    BY <1>1, <2>3
  <2> QED
    BY <2>3, <2>4 DEF C
<1>4. B \in Seq(S) /\ Len(B) = 1 /\ B[1] = e
  OBVIOUS
<1>5. t = A \o B \o C
  BY DEF InsertAt
<1> HIDE DEF A, B, C, n, t
<1> DEFINE AB == A \o B
<1>6. AB \in Seq(S) /\ Len(AB) = i /\ AB[i] = e /\ \A j \in 1 .. i - 1 : AB[j] = s[j]
  <2>1. /\ AB \in Seq(S) /\ Len(AB) = Len(A) + Len(B)
        /\ \A j \in 1 .. Len(A) + Len(B) : AB[j] = IF j <= Len(A) THEN A[j] ELSE B[j - Len(A)]
    BY <1>2, <1>4, ConcatProperties
  <2>2. Len(A) + Len(B) = i /\ i \in 1 .. i /\ ~(i <= Len(A)) /\ i - Len(A) = 1
    BY <1>1, <1>2, <1>4
  <2>3. \A j \in 1 .. i - 1 : j \in 1 .. i /\ j <= Len(A)
    BY <1>1, <1>2
  <2> QED
    BY <1>2, <1>4, <2>1, <2>2, <2>3
<1>7. t = AB \o C
  BY <1>5
<1> HIDE DEF AB
<1>8. /\ t \in Seq(S) /\ Len(t) = Len(AB) + Len(C)
      /\ \A j \in 1 .. Len(AB) + Len(C) : t[j] = IF j <= Len(AB) THEN AB[j] ELSE C[j - Len(AB)]
  <2>1. /\ AB \o C \in Seq(S) /\ Len(AB \o C) = Len(AB) + Len(C)
        /\ \A j \in 1 .. Len(AB) + Len(C) : (AB \o C)[j] = IF j <= Len(AB) THEN AB[j] ELSE C[j - Len(AB)]
    BY <1>3, <1>6, ConcatProperties
  <2> QED
    BY <1>7, <2>1
<1>9. Len(AB) + Len(C) = n + 1 /\ i \in 1 .. n + 1 /\ i <= Len(AB)
  BY <1>1, <1>3, <1>6
<1>10. \A j \in 1 .. i - 1 : t[j] = s[j]
  <2> SUFFICES ASSUME NEW j \in 1 .. i - 1 PROVE t[j] = s[j]
    OBVIOUS
  <2>1. j \in 1 .. n + 1 /\ j <= Len(AB)
    BY <1>1, <1>6
  <2> QED
    BY <1>6, <1>8, <1>9, <2>1
<1>11. \A j \in i + 1 .. n + 1 : t[j] = s[j - 1]
  <2> SUFFICES ASSUME NEW j \in i + 1 .. n + 1 PROVE t[j] = s[j - 1]
    OBVIOUS
  <2>1. j \in 1 .. n + 1 /\ ~(j <= Len(AB)) /\ j - Len(AB) \in 1 .. n - i + 1 /\ i + (j - Len(AB)) - 1 = j - 1
    BY <1>1, <1>6
  <2>2. t[j] = C[j - Len(AB)]
    BY <1>8, <1>9, <2>1
  <2>3. C[j - Len(AB)] = s[i + (j - Len(AB)) - 1]
    BY <1>3, <2>1
  <2> QED
    BY <2>1, <2>2, <2>3
<1>12. t[i] = e
  BY <1>6, <1>8, <1>9
<1> QED
  BY <1>8, <1>9, <1>10, <1>11, <1>12 DEF n, t

\* A variable of the running machine that has an upvalue has one on the open list.
LEMMA UpvalueOfSlot ==
    ASSUME IInv, phase = "run", NEW l \in 1 .. Len(stack), NEW w \in DOMAIN upvalue,
           upvalue[w].of = stack[l].who
    PROVE  w \in Slots(open) /\ upvalue[w].loc = l
<1> TypeOK
  BY DEF IInv
<1>1. /\ Level \in Levels /\ Mach(Level).stack = stack /\ Mach(Level).open = open
  BY MachFacts
<1>2. upvalue[w].loc # 0
  BY <1>1 DEF IInv, ClosedLeft
<1>3. PICK kl \in [DOMAIN env -> Levels], ul \in [DOMAIN upvalue -> Levels] : Owned(kl, ul)
  BY DEF IInv, Ownership
<1>4. PICK i \in 1 .. Len(Mach(ul[w]).open) : Mach(ul[w]).open[i] = w
  BY <1>2, <1>3 DEF Owned
<1>5. ul[w] \in Levels
  BY <1>3
<1>6. /\ upvalue[w].loc \in 1 .. Len(Mach(ul[w]).stack)
      /\ Mach(ul[w]).stack[upvalue[w].loc].who = upvalue[w].of
  BY <1>4, <1>5 DEF IInv, MachinesSound, MachineSound, OpenSound
<1>7. upvalue[w].of # Nobody
  BY CellFacts
<1>8. ul[w] = Level /\ upvalue[w].loc = l
  BY <1>1, <1>5, <1>6, <1>7 DEF IInv, OneSlotPerVariable
<1> QED
  BY <1>1, <1>4, <1>8 DEF Slots

\* The open list and the upvalues when the local at l is captured by u
CapturedBy(us) ==
    /\ us \subseteq Up /\ open' \in Seq(Up)
    /\ DOMAIN upvalue' = DOMAIN upvalue \cup us /\ upvalue' \in [DOMAIN upvalue' -> Cell]
    /\ \A w \in DOMAIN upvalue : upvalue'[w] = upvalue[w]
    /\ \A w \in us : w \in Slots(open') /\ (w \in DOMAIN upvalue => w \in Slots(open))
    /\ \A w \in us : upvalue'[w].loc # 0
    /\ Slots(open) \subseteq Slots(open')
    /\ OpenSound(stack, open', upvalue')
    /\ OneUpvaluePerVariable'

LEMMA CaptureFacts ==
    ASSUME IInv, phase = "run", NEW l \in Locals, NEW u \in Up, CaptureUpvalue(l, u)
    PROVE  CapturedBy({u})
<1> TypeOK
  BY DEF IInv
<1> DEFINE i == Walk(l)
           n == Len(open)
<1>1. /\ open \in Seq(Up) /\ n \in Nat /\ OpenSound(stack, open, upvalue) /\ Len(stack) \in Nat
      /\ Current.base \in Nat /\ Current.base > 0
      /\ \A j \in 1 .. Len(stack) : stack[j].who \in Var \cup {Nobody}
  BY RunningFacts
<1>2. l \in 1 .. Len(stack) /\ l \in Nat /\ l # 0 /\ stack[l].who \in Var
  <2>1. l \in Current.base .. Len(stack) /\ stack[l].who # Nobody
    BY DEF Locals
  <2>2. l \in 1 .. Len(stack)
    BY <1>1, <2>1
  <2> QED
    BY <1>1, <2>1, <2>2
<1>3. /\ i \in 1 .. n + 1
      /\ \A j \in 1 .. i - 1 : upvalue[open[j]].loc > l
      /\ \A j \in i .. n : upvalue[open[j]].loc <= l
  BY <1>2, WalkFacts
<1>4. upvalue \in [DOMAIN upvalue -> Cell] /\ DOMAIN upvalue \subseteq Up
  BY DEF TypeOK
<1>5. CASE Existing(l)
  <2>1. u = open[i] /\ i \in 1 .. n /\ UNCHANGED <<open, upvalue>>
    BY <1>1, <1>3, <1>5 DEF CaptureUpvalue, Existing
  <2>2. u \in DOMAIN upvalue /\ u \in Slots(open) /\ upvalue[u].loc # 0
    BY <1>1, <2>1 DEF OpenSound, Slots
  <2>3. OneUpvaluePerVariable'
    BY <2>1 DEF IInv, OneUpvaluePerVariable
  <2> QED
    BY <1>1, <1>4, <2>1, <2>2, <2>3 DEF CapturedBy
<1>6. CASE ~Existing(l)
  <2> DEFINE e == [loc |-> l, val |-> Unset, of |-> stack[l].who]
  <2>1. /\ u \notin DOMAIN upvalue
        /\ open' = InsertAt(i, u)
        /\ upvalue' = [w \in DOMAIN upvalue \cup {u} |-> IF w = u THEN e ELSE upvalue[w]]
    BY <1>6 DEF CaptureUpvalue
  <2>2. e \in Cell /\ e.loc = l /\ e.of = stack[l].who
    BY <1>2 DEF Cell
  <2> HIDE DEF e
  <2>3. /\ DOMAIN upvalue' = DOMAIN upvalue \cup {u} /\ upvalue'[u] = e
        /\ \A w \in DOMAIN upvalue : upvalue'[w] = upvalue[w]
        /\ upvalue' \in [DOMAIN upvalue' -> Cell]
    BY <1>4, <2>1, <2>2
  <2> HIDE DEF i
  <2>4. /\ open' \in Seq(Up) /\ Len(open') = n + 1 /\ open'[i] = u
        /\ \A j \in 1 .. i - 1 : open'[j] = open[j]
        /\ \A j \in i + 1 .. n + 1 : open'[j] = open[j - 1]
    <3>1. open \in Seq(Up) /\ i \in 1 .. Len(open) + 1
      BY <1>1, <1>3 DEF i
    <3>2. /\ InsertAt(i, u) \in Seq(Up) /\ Len(InsertAt(i, u)) = Len(open) + 1
          /\ InsertAt(i, u)[i] = u
          /\ \A j \in 1 .. i - 1 : InsertAt(i, u)[j] = open[j]
          /\ \A j \in i + 1 .. Len(open) + 1 : InsertAt(i, u)[j] = open[j - 1]
      BY <3>1, InsertFacts
    <3> QED
      BY <2>1, <3>2
  <2>5. \A j \in 1 .. n + 1 : \/ j \in 1 .. i - 1 /\ j \in 1 .. n
                              \/ j = i
                              \/ j \in i + 1 .. n + 1 /\ j - 1 \in 1 .. n /\ j - 1 \in i .. n
    BY <1>1, <1>3
  <2>6. \A j \in 1 .. n : \/ j \in 1 .. i - 1 /\ j \in 1 .. n + 1
                          \/ j + 1 \in i + 1 .. n + 1 /\ j + 1 \in 1 .. n + 1 /\ (j + 1) - 1 = j
    BY <1>1, <1>3
  <2>7. i \in 1 .. n + 1
    BY <1>3
  <2>8. Slots(open) \subseteq Slots(open') /\ u \in Slots(open')
    <3>1. ASSUME NEW j \in 1 .. n PROVE open[j] \in Slots(open')
      BY <2>4, <2>6, <3>1 DEF Slots
    <3> QED
      BY <2>4, <2>7, <3>1 DEF Slots
  <2>9. \A j \in 1 .. n : upvalue'[open[j]] = upvalue[open[j]] /\ open[j] \in DOMAIN upvalue
                          /\ upvalue[open[j]].loc \in Nat
    BY <1>1, <2>3, CellFacts DEF OpenSound
  <2>10. ASSUME NEW j \in 1 .. n + 1
         PROVE  /\ open'[j] \in DOMAIN upvalue' /\ upvalue'[open'[j]].loc \in 1 .. Len(stack)
                /\ stack[upvalue'[open'[j]].loc].who = upvalue'[open'[j]].of
    <3>1. CASE j \in 1 .. i - 1 /\ j \in 1 .. n
      <4>1. open'[j] = open[j] /\ upvalue'[open[j]] = upvalue[open[j]]
        BY <2>4, <2>9, <3>1
      <4> QED
        BY <1>1, <2>3, <3>1, <4>1 DEF OpenSound
    <3>2. CASE j = i
      BY <1>2, <2>2, <2>3, <2>4, <3>2
    <3>3. CASE j \in i + 1 .. n + 1 /\ j - 1 \in 1 .. n
      <4>1. open'[j] = open[j - 1] /\ upvalue'[open[j - 1]] = upvalue[open[j - 1]]
        BY <2>4, <2>9, <3>3
      <4> QED
        BY <1>1, <2>3, <3>3, <4>1 DEF OpenSound
    <3> QED
      BY <2>5, <3>1, <3>2, <3>3
  <2>11. \A j \in i .. n : upvalue[open[j]].loc < l
    <3> SUFFICES ASSUME NEW j \in i .. n PROVE upvalue[open[j]].loc < l
      OBVIOUS
    <3>1. i \in 1 .. n /\ j \in 1 .. n /\ i <= n
      BY <1>1, <2>7
    <3>2. upvalue[open[i]].loc # l
      BY <1>6, <3>1 DEF Existing, i
    <3>3. upvalue[open[i]].loc < l
      <4>1. upvalue[open[i]].loc <= l /\ upvalue[open[i]].loc \in Nat
        BY <1>3, <2>9, <3>1
      <4> QED
        BY <1>2, <3>2, <4>1
    <3>4. CASE j = i
      BY <3>3, <3>4
    <3>5. CASE i < j
      <4>1. upvalue[open[i]].loc > upvalue[open[j]].loc
        BY <1>1, <3>1, <3>5 DEF OpenSound
      <4>2. upvalue[open[i]].loc \in Nat /\ upvalue[open[j]].loc \in Nat
        BY <2>9, <3>1
      <4> QED
        BY <1>2, <3>3, <4>1, <4>2
    <3> QED
      BY <2>7, <3>4, <3>5
  <2> DEFINE loc(j) == upvalue'[open'[j]].loc
  <2>12. /\ \A j \in 1 .. i - 1 : loc(j) > l /\ loc(j) = upvalue[open[j]].loc /\ loc(j) \in Nat
         /\ loc(i) = l
         /\ \A j \in i + 1 .. n + 1 : loc(j) < l /\ loc(j) = upvalue[open[j - 1]].loc /\ loc(j) \in Nat
    <3>1. ASSUME NEW j \in 1 .. i - 1
          PROVE  loc(j) > l /\ loc(j) = upvalue[open[j]].loc /\ loc(j) \in Nat
      <4>1. j \in 1 .. n
        BY <1>1, <2>7
      <4>2. loc(j) = upvalue[open[j]].loc
        BY <2>4, <2>9, <3>1, <4>1
      <4> QED
        BY <1>3, <2>9, <4>1, <4>2
    <3>2. ASSUME NEW j \in i + 1 .. n + 1
          PROVE  loc(j) < l /\ loc(j) = upvalue[open[j - 1]].loc /\ loc(j) \in Nat
      <4>1. j - 1 \in i .. n /\ j - 1 \in 1 .. n
        BY <1>1, <2>7
      <4>2. loc(j) = upvalue[open[j - 1]].loc
        BY <2>4, <2>9, <3>2, <4>1
      <4> QED
        BY <2>9, <2>11, <4>1, <4>2
    <3>3. loc(i) = l
      BY <2>2, <2>3, <2>4
    <3> QED
      BY <3>1, <3>2, <3>3
  <2> HIDE DEF loc
  <2>13. ASSUME NEW j \in 1 .. n + 1, NEW k \in 1 .. n + 1, j < k PROVE loc(j) > loc(k)
    <3>1. CASE j \in 1 .. i - 1 /\ k \in 1 .. i - 1
      <4>1. j \in 1 .. n /\ k \in 1 .. n
        BY <1>1, <2>7, <3>1
      <4>2. upvalue[open[j]].loc > upvalue[open[k]].loc
        BY <1>1, <2>13, <4>1 DEF OpenSound
      <4> QED
        BY <2>12, <3>1, <4>2
    <3>2. CASE j \in i + 1 .. n + 1 /\ k \in i + 1 .. n + 1
      <4>1. j - 1 \in 1 .. n /\ k - 1 \in 1 .. n /\ j - 1 < k - 1
        BY <1>1, <2>7, <2>13, <3>2
      <4>2. upvalue[open[j - 1]].loc > upvalue[open[k - 1]].loc
        BY <1>1, <4>1 DEF OpenSound
      <4> QED
        BY <2>12, <3>2, <4>2
    <3>3. CASE j \in 1 .. i - 1 /\ k = i
      BY <2>12, <3>3
    <3>4. CASE j \in 1 .. i - 1 /\ k \in i + 1 .. n + 1
      <4>1. loc(j) > l /\ loc(k) < l /\ loc(j) \in Nat /\ loc(k) \in Nat
        BY <2>12, <3>4
      <4> QED
        BY <1>2, <4>1
    <3>5. CASE j = i /\ k \in i + 1 .. n + 1
      <4>1. loc(j) = l /\ loc(k) < l /\ loc(k) \in Nat
        BY <2>12, <3>5
      <4> QED
        BY <1>2, <4>1
    <3>6. \/ j \in 1 .. i - 1 /\ k \in 1 .. i - 1
          \/ j \in i + 1 .. n + 1 /\ k \in i + 1 .. n + 1
          \/ j \in 1 .. i - 1 /\ k = i
          \/ j \in 1 .. i - 1 /\ k \in i + 1 .. n + 1
          \/ j = i /\ k \in i + 1 .. n + 1
      BY <1>1, <2>7, <2>13
    <3> QED
      BY <3>1, <3>2, <3>3, <3>4, <3>5, <3>6
  <2>14. OpenSound(stack, open', upvalue')
    BY <2>4, <2>10, <2>13 DEF OpenSound, loc
  <2>15. ASSUME NEW w \in DOMAIN upvalue PROVE upvalue[w].of # stack[l].who
    <3> SUFFICES ASSUME upvalue[w].of = stack[l].who PROVE FALSE
      OBVIOUS
    <3>1. w \in Slots(open) /\ upvalue[w].loc = l
      BY <1>2, UpvalueOfSlot
    <3>2. PICK j \in 1 .. n : open[j] = w
      BY <3>1 DEF Slots
    <3>3. j \in 1 .. i - 1 \/ j \in i .. n
      BY <1>1, <2>7
    <3>4. upvalue[open[j]].loc > l \/ upvalue[open[j]].loc < l
      BY <1>3, <2>11, <3>3 DEF i
    <3> QED
      BY <1>2, <3>1, <3>2, <3>4
  <2>16. OneUpvaluePerVariable'
    <3>1. ASSUME NEW w \in DOMAIN upvalue', NEW z \in DOMAIN upvalue', upvalue'[w].of = upvalue'[z].of
          PROVE  w = z
      <4>1. CASE w = u /\ z # u
        <5>1. z \in DOMAIN upvalue /\ upvalue[z].of = stack[l].who
          BY <2>2, <2>3, <3>1, <4>1
        <5> QED
          BY <2>15, <5>1
      <4>2. CASE w # u /\ z = u
        <5>1. w \in DOMAIN upvalue /\ upvalue[w].of = stack[l].who
          BY <2>2, <2>3, <3>1, <4>2
        <5> QED
          BY <2>15, <5>1
      <4>3. CASE w # u /\ z # u
        <5>1. w \in DOMAIN upvalue /\ z \in DOMAIN upvalue /\ upvalue[w].of = upvalue[z].of
          BY <2>3, <3>1, <4>3
        <5> QED
          BY <5>1 DEF IInv, OneUpvaluePerVariable
      <4>4. CASE w = u /\ z = u
        BY <4>4
      <4> QED
        BY <4>1, <4>2, <4>3, <4>4
    <3> QED
      BY <3>1 DEF OneUpvaluePerVariable
  <2> QED
    BY <1>2, <2>1, <2>2, <2>3, <2>4, <2>8, <2>14, <2>16 DEF CapturedBy
<1> QED
  BY <1>5, <1>6

Makes(c, us) ==
    \E captured \in SUBSET Up :
        /\ CapturedBy(captured)
        /\ env' = [d \in DOMAIN env \cup {c} |-> IF d = c THEN us \cup captured ELSE env[d]]

\* A closure over nothing, over what its maker closed over, or over one local
LEMMA MakeClosureFacts ==
    ASSUME IInv, NEW c \in Closure, NEW thunk \in BOOLEAN, NEW us \in SUBSET Inherited,
           MakeClosure(c, thunk, us)
    PROVE  /\ phase = "run" /\ phase' = "run" /\ c \notin DOMAIN env
           /\ UNCHANGED <<suspended, frames, forcing, seen>>
           /\ stack' = Append(stack, Temp(c))
           /\ thunks' = thunks \/ thunks' = thunks \cup {c}
           /\ Makes(c, us)
<1>1. PICK captured \in {{}} \cup {{u} : u \in Up} :
         /\ \/ captured = {} /\ UNCHANGED <<open, upvalue>>
            \/ \E i \in Locals, u \in Up : captured = {u} /\ CaptureUpvalue(i, u)
         /\ env' = [d \in DOMAIN env \cup {c} |-> IF d = c THEN us \cup captured ELSE env[d]]
  BY DEF MakeClosure
<1>2. /\ phase = "run" /\ phase' = "run" /\ c \notin DOMAIN env
      /\ UNCHANGED <<suspended, frames, forcing, seen>>
      /\ stack' = Append(stack, Temp(c))
      /\ thunks' = thunks \/ thunks' = thunks \cup {c}
  BY DEF MakeClosure, Push
<1>3. captured \in SUBSET Up
  BY <1>1
<1>4. CapturedBy(captured)
  <2>1. CASE captured = {} /\ UNCHANGED <<open, upvalue>>
    <3>1. OneUpvaluePerVariable'
      BY <2>1 DEF IInv, OneUpvaluePerVariable
    <3>2. OpenSound(stack, open', upvalue') /\ open' \in Seq(Up)
      BY <2>1, RunningFacts
    <3>3. DOMAIN upvalue' = DOMAIN upvalue \cup captured /\ upvalue' \in [DOMAIN upvalue' -> Cell]
      BY <2>1 DEF IInv, TypeOK
    <3> QED
      BY <2>1, <3>1, <3>2, <3>3 DEF CapturedBy
  <2>2. CASE \E i \in Locals, u \in Up : captured = {u} /\ CaptureUpvalue(i, u)
    <3>1. PICK i \in Locals, u \in Up : captured = {u} /\ CaptureUpvalue(i, u)
      BY <2>2
    <3> QED
      BY <1>2, <3>1, CaptureFacts
  <2> QED
    BY <1>1, <2>1, <2>2
<1>5. Makes(c, us)
  BY <1>1, <1>3, <1>4 DEF Makes
<1> QED
  BY <1>2, <1>5

LEMMA MakeClosureOwned ==
    ASSUME IInv, NEW c \in Closure, c \notin DOMAIN env, NEW us \in SUBSET Inherited,
           NEW captured \in SUBSET Up, CapturedBy(captured),
           env' = [d \in DOMAIN env \cup {c} |-> IF d = c THEN us \cup captured ELSE env[d]],
           UNCHANGED <<suspended, frames>>,
           \A i \in 1 .. Len(stack') : \/ i \in 1 .. Len(stack) /\ stack'[i] = stack[i]
                                       \/ stack'[i].val = c
    PROVE  Ownership'
<1> TypeOK
  BY DEF IInv
<1>1. PICK kl \in [DOMAIN env -> Levels], ul \in [DOMAIN upvalue -> Levels] : Owned(kl, ul)
  BY DEF IInv, Ownership
<1>2. PICK kl2 : kl2 = [d \in DOMAIN env \cup {c} |-> IF d = c THEN Level ELSE kl[d]]
  OBVIOUS
<1>3. PICK ul2 : ul2 = [w \in DOMAIN upvalue \cup captured |->
                          IF w \in DOMAIN upvalue THEN ul[w] ELSE Level]
  OBVIOUS
<1>4. /\ Levels' = Levels /\ Level \in Levels
      /\ \A a \in Levels : a = Level =>
            Mach(a)'.stack = stack' /\ Mach(a)'.frames = frames' /\ Mach(a)'.open = open'
      /\ \A a \in Levels : a = Level =>
            Mach(a).stack = stack /\ Mach(a).frames = frames /\ Mach(a).open = open
      /\ \A a \in Levels : a # Level => Mach(a)' = Mach(a)
  BY MachNext, MachFacts
<1>5. /\ DOMAIN env' = DOMAIN env \cup {c} /\ env'[c] = us \cup captured
      /\ \A d \in DOMAIN env : env'[d] = env[d] /\ d # c
  OBVIOUS
<1>6. /\ kl2 \in [DOMAIN env' -> Levels] /\ kl2[c] = Level
      /\ \A d \in DOMAIN env : kl2[d] = kl[d]
  BY <1>1, <1>2, <1>4, <1>5
<1>7. DOMAIN upvalue' = DOMAIN upvalue \cup captured
  BY DEF CapturedBy
<1>8. /\ ul2 \in [DOMAIN upvalue' -> Levels]
      /\ \A w \in DOMAIN upvalue : ul2[w] = ul[w]
      /\ \A w \in captured : w \notin DOMAIN upvalue => ul2[w] = Level
  BY <1>1, <1>3, <1>4, <1>7
<1>9. /\ \A j \in 1 .. Len(stack) :
            stack[j].val \in Closure => stack[j].val \in DOMAIN env /\ kl[stack[j].val] = Level
      /\ \A u \in Inherited : u \in DOMAIN upvalue /\ ul[u] = Level
      /\ \A u \in Slots(open) : u \in DOMAIN upvalue /\ ul[u] = Level
  BY <1>1, HeldOwned
<1>10. ASSUME NEW a \in Levels, NEW i \in 1 .. Len(Mach(a)'.stack), Mach(a)'.stack[i].val \in Closure
       PROVE  Mach(a)'.stack[i].val \in DOMAIN env' /\ kl2[Mach(a)'.stack[i].val] = a
  <2>1. CASE a = Level
    <3>1. i \in 1 .. Len(stack') /\ Mach(a)'.stack[i] = stack'[i]
      BY <1>4, <2>1
    <3>2. CASE i \in 1 .. Len(stack) /\ stack'[i] = stack[i]
      BY <1>5, <1>6, <1>9, <1>10, <2>1, <3>1, <3>2
    <3>3. CASE stack'[i].val = c
      BY <1>5, <1>6, <2>1, <3>1, <3>3
    <3> QED
      BY <3>1, <3>2, <3>3
  <2>2. CASE a # Level
    <3>1. Mach(a)' = Mach(a)
      BY <1>4, <2>2
    <3>2. Mach(a).stack[i].val \in DOMAIN env /\ kl[Mach(a).stack[i].val] = a
      BY <1>1, <1>10, <3>1 DEF Owned
    <3> QED
      BY <1>5, <1>6, <3>1, <3>2
  <2> QED
    BY <2>1, <2>2
<1>11. ASSUME NEW a \in Levels, NEW i \in 1 .. Len(Mach(a)'.frames)
       PROVE  LET f == Mach(a)'.frames[i]
              IN  /\ f.clo # Nobody => f.clo \in DOMAIN env' /\ kl2[f.clo] = a
                  /\ f.back.to = "upvalue" => ul2[f.back.up] = a
  <2>1. Mach(a)'.frames = Mach(a).frames
    BY <1>4
  <2>2. /\ Mach(a).frames[i].clo # Nobody =>
              Mach(a).frames[i].clo \in DOMAIN env /\ kl[Mach(a).frames[i].clo] = a
        /\ Mach(a).frames[i].back.to = "upvalue" => ul[Mach(a).frames[i].back.up] = a
    BY <1>1, <2>1 DEF Owned
  <2>3. Mach(a).frames[i].back.to = "upvalue" => Mach(a).frames[i].back.up \in DOMAIN upvalue
    BY <2>1 DEF IInv, MachinesSound, MachineSound, BacksSound
  <2> QED
    BY <1>5, <1>6, <1>8, <2>1, <2>2, <2>3
<1>12. ASSUME NEW d \in DOMAIN env', NEW w \in env'[d] PROVE ul2[w] = kl2[d]
  <2>1. CASE d = c
    <3>1. CASE w \in us
      BY <1>6, <1>8, <1>9, <2>1, <3>1
    <3>2. CASE w \in captured /\ w \in DOMAIN upvalue
      <4>1. w \in Slots(open)
        BY <3>2 DEF CapturedBy
      <4> QED
        BY <1>6, <1>8, <1>9, <2>1, <3>2, <4>1
    <3>3. CASE w \in captured /\ w \notin DOMAIN upvalue
      BY <1>6, <1>8, <2>1, <3>3
    <3> QED
      BY <1>5, <1>12, <2>1, <3>1, <3>2, <3>3
  <2>2. CASE d # c
    <3>1. d \in DOMAIN env /\ w \in env[d]
      BY <1>5, <1>12, <2>2
    <3>2. w \in DOMAIN upvalue
      BY <3>1 DEF TypeOK
    <3>3. ul[w] = kl[d]
      BY <1>1, <3>1 DEF Owned
    <3> QED
      BY <1>6, <1>8, <3>1, <3>2, <3>3
  <2> QED
    BY <2>1, <2>2
<1>13. ASSUME NEW w \in DOMAIN upvalue'
       PROVE  IF upvalue'[w].loc # 0
              THEN \E i \in 1 .. Len(Mach(ul2[w])'.open) : Mach(ul2[w])'.open[i] = w
              ELSE upvalue'[w].val \in Closure =>
                      upvalue'[w].val \in DOMAIN env' /\ kl2[upvalue'[w].val] = ul2[w]
  <2>1. CASE w \in DOMAIN upvalue /\ upvalue[w].loc # 0
    <3>1. PICK i \in 1 .. Len(Mach(ul[w]).open) : Mach(ul[w]).open[i] = w
      BY <1>1, <2>1 DEF Owned
    <3>2. upvalue'[w] = upvalue[w] /\ ul2[w] = ul[w] /\ ul[w] \in Levels
      BY <1>1, <1>8, <2>1 DEF CapturedBy
    <3>3. CASE ul[w] = Level
      <4>1. w \in Slots(open)
        BY <1>4, <3>1, <3>2, <3>3 DEF Slots
      <4>2. w \in Slots(open')
        BY <4>1 DEF CapturedBy
      <4>3. PICK j \in 1 .. Len(open') : open'[j] = w
        BY <4>2 DEF Slots
      <4> QED
        BY <1>4, <2>1, <3>2, <3>3, <4>3
    <3>4. CASE ul[w] # Level
      BY <1>4, <2>1, <3>1, <3>2, <3>4
    <3> QED
      BY <3>3, <3>4
  <2>2. CASE w \in DOMAIN upvalue /\ upvalue[w].loc = 0
    <3>1. upvalue'[w] = upvalue[w] /\ ul2[w] = ul[w]
      BY <1>8, <2>2 DEF CapturedBy
    <3>2. upvalue[w].val \in Closure =>
             upvalue[w].val \in DOMAIN env /\ kl[upvalue[w].val] = ul[w]
      BY <1>1, <2>2 DEF Owned
    <3> QED
      BY <1>5, <1>6, <2>2, <3>1, <3>2
  <2>3. CASE w \notin DOMAIN upvalue
    <3>1. w \in captured /\ ul2[w] = Level
      BY <1>7, <1>8, <2>3
    <3>2. w \in Slots(open') /\ upvalue'[w].loc # 0
      BY <3>1 DEF CapturedBy
    <3>3. PICK j \in 1 .. Len(open') : open'[j] = w
      BY <3>2 DEF Slots
    <3> QED
      BY <1>4, <3>1, <3>2, <3>3
  <2> QED
    BY <2>1, <2>2, <2>3
<1>14. kl2 \in [DOMAIN env' -> Levels'] /\ ul2 \in [DOMAIN upvalue' -> Levels']
  BY <1>4, <1>6, <1>8
<1>15. Owned(kl2, ul2)'
  <2>1. /\ \A a \in Levels' : \A i \in 1 .. Len(Mach(a)'.stack) :
              Mach(a)'.stack[i].val \in Closure =>
                 Mach(a)'.stack[i].val \in DOMAIN env' /\ kl2[Mach(a)'.stack[i].val] = a
        /\ \A a \in Levels' : \A i \in 1 .. Len(Mach(a)'.frames) :
              LET f == Mach(a)'.frames[i]
              IN  /\ f.clo # Nobody => f.clo \in DOMAIN env' /\ kl2[f.clo] = a
                  /\ f.back.to = "upvalue" => ul2[f.back.up] = a
    BY <1>4, <1>10, <1>11
  <2> QED
    BY <1>12, <1>13, <1>14, <2>1 DEF Owned
<1> QED
  BY <1>14, <1>15 DEF Ownership

LEMMA MakeClosureInv ==
    ASSUME IInv, NEW c \in Closure, NEW thunk \in BOOLEAN, NEW us \in SUBSET Inherited,
           MakeClosure(c, thunk, us)
    PROVE  IInv'
<1> TypeOK
  BY DEF IInv
<1> DEFINE n == Len(stack)
<1>1. /\ phase = "run" /\ phase' = "run" /\ c \notin DOMAIN env
      /\ UNCHANGED <<suspended, frames, forcing, seen>>
      /\ stack' = Append(stack, Temp(c))
      /\ thunks' = thunks \/ thunks' = thunks \cup {c}
      /\ Makes(c, us)
  BY MakeClosureFacts
<1>2. PICK captured \in SUBSET Up :
         /\ CapturedBy(captured)
         /\ env' = [d \in DOMAIN env \cup {c} |-> IF d = c THEN us \cup captured ELSE env[d]]
  BY <1>1 DEF Makes
<1>3. c \in Value /\ Temp(c) \in Slot /\ Temp(c).val = c /\ Temp(c).who = Nobody
  BY TempFacts DEF Value
<1>4. /\ Prefix(n) /\ Len(stack') = n + 1 /\ n \in Nat
      /\ \A i \in 1 .. n : stack'[i] = stack[i]
      /\ stack'[n + 1] = Temp(c)
      /\ \A i \in 1 .. Len(stack') : i \in 1 .. n \/ i = n + 1
      /\ Above <= Len(stack') + 1
  BY <1>1, <1>3, PushFacts
<1>5. CellsKept
  BY <1>2 DEF CapturedBy, CellsKept
<1>6. FramesNested(stack', frames')
  <2>1. /\ FramesNested(stack, frames) /\ Above = Current.base + Current.fixed
        /\ Current = frames[Len(frames)]
    BY RunningFacts DEF Current
  <2> QED
    BY <1>1, <1>4, <2>1 DEF FramesNested
<1>7. BacksSound(stack', frames', upvalue')
  <2>1. \A i \in 1 .. Len(frames') :
           i \in 1 .. Len(frames) /\ frames'[i].back = frames[i].back /\ frames'[i].base = frames[i].base
    BY <1>1
  <2> QED
    BY <1>4, <1>5, <2>1, BacksStep
<1>8. OpenSound(stack', open', upvalue')
  <2>1. OpenSound(stack, open', upvalue')
    BY <1>2 DEF CapturedBy
  <2>2. \A i \in 1 .. n : i \in 1 .. Len(stack')
    BY <1>4
  <2> QED
    BY <1>4, <2>1, <2>2 DEF OpenSound
<1>9. MachinesSound'
  BY <1>1, <1>5, <1>6, <1>7, <1>8, StepMachines
<1>10. OneSlotPerVariable'
  <2>1. \A i \in 1 .. Len(stack') :
           stack'[i].who = Nobody \/ \E j \in 1 .. n : stack[j].who = stack'[i].who
    BY <1>3, <1>4
  <2>2. \A i, j \in 1 .. Len(stack') :
           stack'[i].who # Nobody /\ stack'[i].who = stack'[j].who => i = j
    <3>1. \A i \in 1 .. Len(stack') : stack'[i].who # Nobody => i \in 1 .. n /\ stack'[i] = stack[i]
      BY <1>3, <1>4
    <3> QED
      BY <3>1, RunningFacts
  <2> QED
    BY <1>1, <2>1, <2>2, StepSlots
<1>11. OneUpvaluePerVariable' /\ open' \in Seq(Up)
  BY <1>2 DEF CapturedBy
<1>12. ClosedLeft'
  <2>1. \A u \in DOMAIN upvalue' : u \in DOMAIN upvalue \/ upvalue'[u].loc # 0
    BY <1>2 DEF CapturedBy
  <2>2. ASSUME NEW u \in DOMAIN upvalue, upvalue'[u].loc = 0,
               NEW i \in 1 .. Len(stack'), stack'[i].who = upvalue[u].of
        PROVE  FALSE
    <3>1. upvalue[u].loc = 0 /\ upvalue[u].of # Nobody
      BY <1>2, <2>2, CellFacts DEF CapturedBy
    <3>2. i \in 1 .. n /\ stack[i].who = upvalue[u].of
      BY <1>3, <1>4, <2>2, <3>1
    <3>3. Level \in Levels /\ Mach(Level).stack = stack
      BY MachFacts
    <3> QED
      BY <1>1, <3>1, <3>2, <3>3 DEF IInv, ClosedLeft
  <2> QED
    BY <1>1, <1>5, <2>1, <2>2, StepClosed
<1>13. PhaseSound'
  BY <1>1 DEF PhaseSound
<1>14. ScriptsPlain'
  BY <1>1, StepScripts
<1>15. TemporariesSet'
  <2>1. \A i \in 1 .. Len(stack') : stack'[i].who = Nobody => stack'[i].val \in Value
    BY <1>3, <1>4, RunningFacts
  <2> QED
    BY <1>1, <2>1, StepTemporaries
<1>16. ForcingExact'
  <2>1. \A i \in 1 .. Len(frames) : frames[i].back.to = "slot" =>
           stack'[frames[i].back.slot].who = stack[frames[i].back.slot].who
    <3>1. \A i \in 1 .. Len(frames') : frames'[i].back.to = "stack" \/
           (i \in 1 .. Len(frames) /\ frames'[i].back = frames[i].back /\ frames'[i].base = frames[i].base)
      BY <1>1
    <3> QED
      BY <1>4, <1>5, <3>1, BacksStep
  <2> QED
    BY <1>1, <1>5, <2>1, StepForcing
<1>17. Ownership'
  <2>1. \A i \in 1 .. Len(stack') : \/ i \in 1 .. Len(stack) /\ stack'[i] = stack[i]
                                    \/ stack'[i].val = c
    BY <1>3, <1>4
  <2> QED
    BY <1>1, <1>2, <2>1, MakeClosureOwned
<1>18. TypeOK'
  <2>1. stack' \in Seq(Slot)
    BY <1>4 DEF Prefix
  <2>2. DOMAIN upvalue' \subseteq Up /\ upvalue' \in [DOMAIN upvalue' -> Cell]
    BY <1>2 DEF CapturedBy, TypeOK
  <2>3. DOMAIN env' = DOMAIN env \cup {c} /\ DOMAIN env' \subseteq Closure
    BY <1>2 DEF TypeOK
  <2>4. env' \in [DOMAIN env' -> SUBSET DOMAIN upvalue']
    <3>1. us \subseteq DOMAIN upvalue
      BY InheritedFacts
    <3>2. DOMAIN upvalue' = DOMAIN upvalue \cup captured
      BY <1>2 DEF CapturedBy
    <3>3. \A d \in DOMAIN env : env[d] \subseteq DOMAIN upvalue
      BY DEF TypeOK
    <3> QED
      BY <1>2, <2>3, <3>1, <3>2, <3>3
  <2>5. thunks' \subseteq DOMAIN env'
    BY <1>1, <2>3 DEF TypeOK
  <2>6. /\ frames' \in Seq(Frame) /\ suspended' \in Seq(Machine) /\ forcing' \in Seq(Var)
        /\ phase' \in {"run", "swapped", "closed"}
        /\ seen' \in {<<>>} \cup (Var \X (Value \cup {Invalid}))
    BY <1>1 DEF TypeOK
  <2> QED
    BY <1>11, <2>1, <2>2, <2>3, <2>4, <2>5, <2>6 DEF TypeOK
<1> QED
  BY <1>9, <1>10, <1>11, <1>12, <1>13, <1>14, <1>15, <1>16, <1>17, <1>18 DEF IInv

----------------------------------------------------------------------------
(* The end of a scope *)

LEMMA SwapResultInv == ASSUME IInv, SwapResult PROVE IInv'
<1> TypeOK
  BY DEF IInv
<1> DEFINE n == Len(stack)
           pi(i) == IF i = n - 1 THEN n ELSE IF i = n THEN n - 1 ELSE i
<1>1. /\ phase = "run" /\ phase' = "swapped"
      /\ n > Above /\ Temporary(n) /\ n - 1 \in Locals
      /\ stack' = [stack EXCEPT ![n - 1] = stack[n], ![n] = stack[n - 1]]
      /\ SwapUpvalues(n - 1, n)
      /\ UNCHANGED <<frames, open, suspended, env, thunks, forcing, seen>>
  BY DEF SwapResult
<1>2. /\ stack \in Seq(Slot) /\ n \in Nat /\ Current.base \in Nat /\ Current.base > 0
      /\ Current.fixed \in Nat /\ Above = Current.base + Current.fixed
      /\ FramesNested(stack, frames) /\ BacksSound(stack, frames, upvalue)
      /\ OpenSound(stack, open, upvalue) /\ Len(open) \in Nat
      /\ \A i \in 1 .. n : /\ stack[i].val \in Value \cup {Unset}
                           /\ stack[i].who = Nobody => stack[i].val \in Value
      /\ \A i, j \in 1 .. n : stack[i].who # Nobody /\ stack[i].who = stack[j].who => i = j
  BY RunningFacts
<1>3. n \in 1 .. n /\ n - 1 \in 1 .. n /\ n - 1 # n /\ n > 1 /\ Current.base - 1 < n - 1
  <2>1. n - 1 \in Current.base .. n
    BY <1>1 DEF Locals
  <2> QED
    BY <1>2, <2>1
<1>4. stack[n].who = Nobody /\ stack[n - 1].who # Nobody
  BY <1>1 DEF Temporary, Locals
<1>5. /\ stack' \in Seq(Slot) /\ Len(stack') = n
      /\ stack'[n - 1] = stack[n] /\ stack'[n] = stack[n - 1]
      /\ \A i \in 1 .. n : i # n /\ i # n - 1 => stack'[i] = stack[i]
  <2> DEFINE t == [stack EXCEPT ![n - 1] = stack[n]]
  <2>1. stack[n] \in Slot /\ stack[n - 1] \in Slot
    BY <1>2, <1>3
  <2>2. /\ t \in Seq(Slot) /\ Len(t) = n /\ t[n - 1] = stack[n]
        /\ \A i \in 1 .. n : i # n - 1 => t[i] = stack[i]
    BY <1>2, <1>3, <2>1, ExceptSeq
  <2>3. stack' = [t EXCEPT ![n] = stack[n - 1]]
    BY <1>1
  <2> HIDE DEF t
  <2>4. /\ stack' \in Seq(Slot) /\ Len(stack') = n /\ stack'[n] = stack[n - 1]
        /\ \A i \in 1 .. n : i # n => stack'[i] = t[i]
    BY <1>3, <2>1, <2>2, <2>3, ExceptSeq
  <2> QED
    BY <1>3, <2>2, <2>4
<1>6. PICK m : m = n
  OBVIOUS
<1>7. /\ \A i \in 1 .. m : stack'[i] = stack[pi(i)] /\ pi(i) \in 1 .. m
      /\ \A i, j \in 1 .. m : pi(i) = pi(j) => i = j
      /\ m = n /\ Len(stack') = m
  BY <1>3, <1>5, <1>6
<1>8. /\ \A i \in 1 .. Len(open) :
            /\ open[i] \in DOMAIN upvalue /\ upvalue[open[i]].loc \in 1 .. n - 1
            /\ stack[upvalue[open[i]].loc].who = upvalue[open[i]].of
      /\ \A i, j \in 1 .. Len(open) : i < j => upvalue[open[i]].loc > upvalue[open[j]].loc
  <2>1. ASSUME NEW i \in 1 .. Len(open)
        PROVE  /\ open[i] \in DOMAIN upvalue /\ upvalue[open[i]].loc \in 1 .. n - 1
               /\ stack[upvalue[open[i]].loc].who = upvalue[open[i]].of
    <3>1. /\ open[i] \in DOMAIN upvalue /\ upvalue[open[i]].loc \in 1 .. n
          /\ stack[upvalue[open[i]].loc].who = upvalue[open[i]].of
      BY <1>2 DEF OpenSound
    <3>2. upvalue[open[i]].of # Nobody
      BY <3>1, CellFacts
    <3>3. upvalue[open[i]].loc # n
      BY <1>4, <3>1, <3>2
    <3>4. upvalue[open[i]].loc \in 1 .. n - 1
      BY <1>2, <3>1, <3>3
    <3> QED
      BY <3>1, <3>4
  <2> QED
    BY <1>2, <2>1 DEF OpenSound
<1>9. upvalue' = [u \in DOMAIN upvalue |->
                    IF \E i \in 1 .. Len(open) : open[i] = u
                    THEN [upvalue[u] EXCEPT !.loc = Swapped(@, n - 1, n)]
                    ELSE upvalue[u]]
  BY <1>1 DEF SwapUpvalues
<1> DEFINE moved(l) == IF l = n - 1 THEN n ELSE l
<1>10. ASSUME NEW u \in DOMAIN upvalue
       PROVE  /\ upvalue'[u] \in Cell /\ upvalue'[u].of = upvalue[u].of
              /\ upvalue'[u].val = upvalue[u].val
              /\ u \in Slots(open) => upvalue'[u].loc = moved(upvalue[u].loc) /\ upvalue[u].loc \in 1 .. n - 1
              /\ u \notin Slots(open) => upvalue'[u].loc = upvalue[u].loc
  <2>1. upvalue[u] \in Cell
    BY CellFacts
  <2>2. CASE u \in Slots(open)
    <3>1. PICK i \in 1 .. Len(open) : open[i] = u
      BY <2>2 DEF Slots
    <3>2. upvalue[u].loc \in 1 .. n - 1
      BY <1>8, <3>1
    <3>3. Swapped(upvalue[u].loc, n - 1, n) = moved(upvalue[u].loc)
      BY <1>2, <3>2 DEF Swapped
    <3>4. upvalue'[u] = [upvalue[u] EXCEPT !.loc = moved(upvalue[u].loc)]
      BY <1>9, <3>1, <3>3
    <3>5. moved(upvalue[u].loc) \in Nat
      BY <1>2, <3>2
    <3> HIDE DEF moved
    <3> QED
      BY <2>1, <2>2, <3>2, <3>4, <3>5 DEF Cell
  <2>3. CASE u \notin Slots(open)
    <3>1. ~ \E i \in 1 .. Len(open) : open[i] = u
      BY <2>3 DEF Slots
    <3>2. upvalue'[u] = upvalue[u]
      BY <1>9, <3>1
    <3> QED
      BY <2>1, <2>3, <3>2
  <2> QED
    BY <2>2, <2>3
<1>11. DOMAIN upvalue' = DOMAIN upvalue /\ upvalue' \in [DOMAIN upvalue -> Cell]
  BY <1>9, <1>10
<1>12. \A u \in DOMAIN upvalue : upvalue'[u].loc = 0 <=> upvalue[u].loc = 0
  <2> SUFFICES ASSUME NEW u \in DOMAIN upvalue PROVE upvalue'[u].loc = 0 <=> upvalue[u].loc = 0
    OBVIOUS
  <2>1. CASE u \in Slots(open)
    BY <1>2, <1>3, <1>10, <2>1
  <2>2. CASE u \notin Slots(open)
    BY <1>10, <2>2
  <2> QED
    BY <2>1, <2>2
<1>13. CellsKept
  BY <1>10, <1>11, <1>12 DEF CellsKept
<1>14. OpenSound(stack', open', upvalue')
  <2>1. ASSUME NEW i \in 1 .. Len(open)
        PROVE  /\ open[i] \in DOMAIN upvalue'
               /\ upvalue'[open[i]].loc = moved(upvalue[open[i]].loc)
               /\ upvalue'[open[i]].loc \in 1 .. n
               /\ stack'[upvalue'[open[i]].loc].who = upvalue'[open[i]].of
               /\ upvalue[open[i]].loc \in 1 .. n - 1
    <3> DEFINE l == upvalue[open[i]].loc
    <3>1. /\ open[i] \in DOMAIN upvalue /\ l \in 1 .. n - 1 /\ open[i] \in Slots(open)
          /\ stack[l].who = upvalue[open[i]].of
      BY <1>8 DEF Slots
    <3>2. upvalue'[open[i]].loc = moved(l) /\ upvalue'[open[i]].of = upvalue[open[i]].of
      BY <1>10, <3>1
    <3>3. moved(l) \in 1 .. n /\ stack'[moved(l)] = stack[l]
      <4>1. CASE l = n - 1
        BY <1>3, <1>5, <4>1
      <4>2. CASE l # n - 1
        <5>1. l \in 1 .. n /\ l # n /\ moved(l) = l
          BY <1>2, <3>1, <4>2
        <5> QED
          BY <1>5, <4>2, <5>1
      <4> QED
        BY <4>1, <4>2
    <3> HIDE DEF l, moved
    <3> QED
      BY <1>11, <3>1, <3>2, <3>3 DEF l
  <2>2. ASSUME NEW i \in 1 .. Len(open), NEW j \in 1 .. Len(open), i < j
        PROVE  upvalue'[open[i]].loc > upvalue'[open[j]].loc
    <3>1. /\ upvalue[open[i]].loc > upvalue[open[j]].loc
          /\ upvalue[open[i]].loc \in 1 .. n - 1 /\ upvalue[open[j]].loc \in 1 .. n - 1
      BY <1>8, <2>2
    <3>2. moved(upvalue[open[i]].loc) > moved(upvalue[open[j]].loc)
      BY <1>2, <3>1
    <3> HIDE DEF moved
    <3> QED
      BY <2>1, <3>2
  <2> QED
    BY <1>1, <1>5, <2>1, <2>2 DEF OpenSound
<1> HIDE DEF moved
<1>15. FramesNested(stack', frames')
  BY <1>1, <1>2, <1>5 DEF FramesNested
<1>16. \A i \in 1 .. Len(frames) : frames[i].back.to = "slot" =>
          stack'[frames[i].back.slot] = stack[frames[i].back.slot]
  <2> SUFFICES ASSUME NEW i \in 1 .. Len(frames), frames[i].back.to = "slot"
               PROVE  stack'[frames[i].back.slot] = stack[frames[i].back.slot]
    OBVIOUS
  <2>1. frames[i].back.slot \in 1 .. Current.base - 1
    BY BackFacts
  <2>2. frames[i].back.slot \in 1 .. n /\ frames[i].back.slot # n /\ frames[i].back.slot # n - 1
    <3>1. PICK k : k = frames[i].back.slot
      OBVIOUS
    <3>2. k \in 1 .. Current.base - 1 /\ Current.base - 1 < n - 1
      BY <1>3, <2>1, <3>1
    <3>3. k \in 1 .. n /\ k # n /\ k # n - 1
      BY <1>2, <3>2
    <3> QED
      BY <3>1, <3>3
  <2> QED
    BY <1>5, <2>2
<1>17. BacksSound(stack', frames', upvalue')
  BY <1>1, <1>2, <1>11, <1>12, <1>16 DEF BacksSound
<1>18. MachinesSound'
  BY <1>1, <1>13, <1>14, <1>15, <1>17, StepMachines
<1> HIDE DEF pi
<1>19. OneSlotPerVariable'
  <2>1. \A i \in 1 .. Len(stack') : \E j \in 1 .. Len(stack) : stack[j].who = stack'[i].who
    BY <1>7
  <2>2. \A i, j \in 1 .. Len(stack') :
           stack'[i].who # Nobody /\ stack'[i].who = stack'[j].who => i = j
    BY <1>2, <1>7
  <2> QED
    BY <1>1, <2>1, <2>2, StepSlots
<1>20. OneUpvaluePerVariable'
  BY <1>10, <1>11 DEF IInv, OneUpvaluePerVariable
<1>21. ClosedLeft'
  <2>1. ASSUME NEW u \in DOMAIN upvalue, upvalue'[u].loc = 0,
               NEW i \in 1 .. Len(stack'), stack'[i].who = upvalue[u].of
        PROVE  FALSE
    <3>1. pi(i) \in 1 .. Len(stack) /\ stack[pi(i)].who = upvalue[u].of
      BY <1>7, <2>1
    <3>2. Level \in Levels /\ Mach(Level).stack = stack
      BY MachFacts
    <3> QED
      BY <1>1, <1>12, <2>1, <3>1, <3>2 DEF IInv, ClosedLeft
  <2>2. \A u \in DOMAIN upvalue' : u \in DOMAIN upvalue
    BY <1>11
  <2> QED
    BY <1>1, <1>13, <2>1, <2>2, StepClosed
<1>22. PhaseSound'
  <2>1. Above' = Above /\ Top' = stack[n - 1]
    BY <1>1, <1>5 DEF Above, Current, Top
  <2>2. Len(stack') > Above
    BY <1>1, <1>5
  <2> QED
    BY <1>1, <1>4, <2>1, <2>2 DEF PhaseSound
<1>23. ScriptsPlain'
  BY <1>1, StepScripts
<1>24. TemporariesSet'
  <2>1. \A i \in 1 .. Len(stack') : stack'[i].who = Nobody => stack'[i].val \in Value
    BY <1>2, <1>7
  <2> QED
    BY <1>1, <2>1, StepTemporaries
<1>25. ForcingExact'
  BY <1>1, <1>13, <1>16, StepForcing
<1>26. Ownership'
  <2>1. PICK kl \in [DOMAIN env -> Levels], ul \in [DOMAIN upvalue -> Levels] : Owned(kl, ul)
    BY DEF IInv, Ownership
  <2>2. /\ \A j \in 1 .. Len(stack) :
             stack[j].val \in Closure => stack[j].val \in DOMAIN env /\ kl[stack[j].val] = Level
        /\ \A i \in 1 .. Len(frames) :
             /\ frames[i].clo # Nobody => frames[i].clo \in DOMAIN env /\ kl[frames[i].clo] = Level
             /\ frames[i].back.to = "upvalue" => ul[frames[i].back.up] = Level
    BY <2>1, HeldOwned
  <2>3. \A i \in 1 .. Len(stack') :
           stack'[i].val \in Closure => stack'[i].val \in DOMAIN env /\ kl[stack'[i].val] = Level
    BY <1>7, <2>2
  <2>4. \A u \in DOMAIN upvalue :
           upvalue'[u].loc = 0 /\ upvalue'[u].val \in Closure =>
              upvalue'[u].val \in DOMAIN env /\ kl[upvalue'[u].val] = ul[u]
    BY <1>10, <1>12, <2>1 DEF Owned
  <2> QED
    BY <1>1, <1>11, <1>13, <2>1, <2>2, <2>3, <2>4, StepOwned
<1>27. TypeOK'
  BY <1>1, <1>5, <1>11 DEF TypeOK
<1> QED
  BY <1>18, <1>19, <1>20, <1>21, <1>22, <1>23, <1>24, <1>25, <1>26, <1>27 DEF IInv

LEMMA CloseLocalInv == ASSUME IInv, CloseLocal PROVE IInv'
<1> TypeOK
  BY DEF IInv
<1> DEFINE n == Len(stack)
           p == n - 1
<1>1. /\ phase = "swapped" /\ phase' = "closed" /\ CloseUpvalues(n)
      /\ UNCHANGED <<stack, frames, suspended, env, thunks, forcing, seen>>
  BY DEF CloseLocal
<1>2. /\ stack \in Seq(Slot) /\ n \in Nat /\ Above \in Nat
      /\ FramesNested(stack, frames) /\ BacksSound(stack, frames, upvalue)
      /\ OpenSound(stack, open, upvalue)
      /\ \A i, j \in 1 .. n : stack[i].who # Nobody /\ stack[i].who = stack[j].who => i = j
      /\ \A i \in 1 .. n : stack[i].who = Nobody => stack[i].val \in Value
  BY RunningFacts
<1>3. n > Above /\ Top.who # Nobody
  BY <1>1 DEF IInv, PhaseSound
<1>4. n > 0 /\ p \in Nat /\ p + 1 = n /\ p <= n
  BY <1>2, <1>3
<1>5. Closes(p) /\ upvalue' \in [DOMAIN upvalue -> Cell] /\ DOMAIN upvalue' = DOMAIN upvalue
  BY <1>1, <1>2, <1>4, CloseUpvaluesFacts
<1>6. /\ CellsKept /\ open' \in Seq(Up)
      /\ \A u \in DOMAIN upvalue :
            upvalue'[u].loc = (IF u \in Slots(open) /\ upvalue[u].loc > p THEN 0 ELSE upvalue[u].loc)
      /\ \A u : u \in Slots(open') <=> u \in Slots(open) /\ upvalue[u].loc <= p
  BY <1>4, <1>5, ClosesFacts
<1> HIDE DEF p
<1>7. OpenSound(stack', open', upvalue')
  BY <1>1, <1>2, <1>4, <1>5, ClosesOpen
<1>8. \A u \in DOMAIN upvalue : upvalue[u].loc = 0 => upvalue'[u].loc = 0
  BY <1>6 DEF CellsKept
<1>9. BacksSound(stack', frames', upvalue')
  BY <1>1, <1>2, <1>5, <1>8 DEF BacksSound
<1>10. MachinesSound'
  BY <1>1, <1>2, <1>6, <1>7, <1>9, StepMachines
<1>11. OneSlotPerVariable'
  <2>1. \A i \in 1 .. Len(stack') : \E j \in 1 .. Len(stack) : stack[j].who = stack'[i].who
    BY <1>1
  <2> QED
    BY <1>1, <1>2, <2>1, StepSlots
<1>12. OneUpvaluePerVariable'
  BY <1>5 DEF IInv, OneUpvaluePerVariable, Closes
<1>13. ClosedLeft'
  <2>1. ASSUME NEW u \in DOMAIN upvalue, upvalue'[u].loc = 0,
               NEW i \in 1 .. Len(stack'), stack'[i].who = upvalue[u].of
        PROVE  i = Len(stack') /\ upvalue'[u].val = stack'[i].val
    <3>1. Level \in Levels /\ Mach(Level).stack = stack
      BY MachFacts
    <3>2. upvalue[u].loc # 0
      BY <1>1, <2>1, <3>1 DEF IInv, ClosedLeft
    <3>3. u \in Slots(open) /\ upvalue[u].loc > p
      BY <1>6, <2>1, <3>2
    <3>4. u \in Closing(n) /\ upvalue[u].loc \in 1 .. n
      <4>1. upvalue[u].loc \in Nat /\ upvalue[u].loc >= n
        BY <1>4, <2>1, <3>3, CellFacts
      <4> QED
        BY <1>2, <1>4, <3>3, <4>1, CloseFacts
    <3>5. upvalue'[u].val = stack[upvalue[u].loc].val
      BY <1>4, <1>5, <3>4 DEF Closes
    <3>6. upvalue[u].loc = n
      BY <1>2, <1>4, <3>3, <3>4
    <3>7. PICK j \in 1 .. Len(open) : open[j] = u
      BY <3>3 DEF Slots
    <3>8. stack[n].who = upvalue[u].of /\ upvalue[u].of # Nobody
      BY <1>2, <3>6, <3>7, CellFacts DEF OpenSound
    <3>9. n \in 1 .. n
      BY <1>2, <1>4
    <3>10. i = n
      BY <1>1, <1>2, <2>1, <3>8, <3>9
    <3> QED
      BY <1>1, <3>5, <3>6, <3>10
  <2>2. \A u \in DOMAIN upvalue' : u \in DOMAIN upvalue
    BY <1>5
  <2> QED
    BY <1>1, <1>6, <2>1, <2>2, StepClosed
<1>14. PhaseSound'
  <2>1. Above' = Above /\ Top' = Top
    BY <1>1 DEF Above, Current, Top
  <2>2. ASSUME NEW i \in 1 .. Len(open') PROVE upvalue'[open'[i]].loc # n
    <3>1. open'[i] \in Slots(open')
      BY DEF Slots
    <3>2. upvalue[open'[i]].loc <= p /\ open'[i] \in DOMAIN upvalue /\ open'[i] \in Slots(open)
      <4>1. upvalue[open'[i]].loc <= p /\ open'[i] \in Slots(open)
        BY <1>6, <3>1
      <4>2. open'[i] \in DOMAIN upvalue
        BY <1>2, <4>1 DEF OpenSound, Slots
      <4> QED
        BY <4>1, <4>2
    <3>3. upvalue'[open'[i]].loc <= p
      BY <1>4, <1>6, <3>2
    <3> QED
      BY <1>2, <1>4, <3>3
  <2> QED
    BY <1>1, <1>3, <2>1, <2>2 DEF PhaseSound
<1>15. ScriptsPlain'
  BY <1>1, StepScripts
<1>16. TemporariesSet'
  BY <1>1, <1>2, StepTemporaries
<1>17. ForcingExact'
  BY <1>1, <1>6, StepForcing
<1>18. Ownership'
  <2>1. PICK kl \in [DOMAIN env -> Levels], ul \in [DOMAIN upvalue -> Levels] : Owned(kl, ul)
    BY DEF IInv, Ownership
  <2>2. /\ \A j \in 1 .. Len(stack) :
             stack[j].val \in Closure => stack[j].val \in DOMAIN env /\ kl[stack[j].val] = Level
        /\ \A i \in 1 .. Len(frames) :
             /\ frames[i].clo # Nobody => frames[i].clo \in DOMAIN env /\ kl[frames[i].clo] = Level
             /\ frames[i].back.to = "upvalue" => ul[frames[i].back.up] = Level
        /\ \A u \in Slots(open) : u \in DOMAIN upvalue /\ ul[u] = Level
    BY <2>1, HeldOwned
  <2>3. ASSUME NEW u \in DOMAIN upvalue
        PROVE  /\ u \in Slots(open) /\ upvalue'[u].loc # 0 => u \in Slots(open')
               /\ upvalue'[u].loc = 0 /\ upvalue'[u].val \in Closure =>
                     upvalue'[u].val \in DOMAIN env /\ kl[upvalue'[u].val] = ul[u]
    <3>1. upvalue[u].loc \in Nat
      BY CellFacts
    <3>2. CASE u \in Closing(n)
      <4>1. u \in Slots(open) /\ upvalue[u].loc \in 1 .. n
        BY <1>2, <1>4, <3>2, CloseFacts
      <4>2. upvalue'[u].loc = 0 /\ upvalue'[u].val = stack[upvalue[u].loc].val
        BY <1>4, <1>5, <3>2 DEF Closes
      <4> QED
        BY <2>2, <4>1, <4>2
    <3>3. CASE u \notin Closing(n)
      <4>1. upvalue'[u] = upvalue[u]
        BY <1>1, <3>3 DEF CloseUpvalues
      <4>2. u \in Slots(open) => upvalue[u].loc <= p
        <5>1. u \in Slots(open) => ~(upvalue[u].loc >= n)
          BY <1>2, <1>4, <3>3, CloseFacts
        <5> QED
          BY <1>4, <3>1, <5>1
      <4> QED
        BY <1>6, <2>1, <4>1, <4>2 DEF Owned
    <3> QED
      BY <3>2, <3>3
  <2> QED
    BY <1>1, <1>5, <1>6, <2>1, <2>2, <2>3, StepOwned
<1>19. TypeOK'
  BY <1>1, <1>5, <1>6 DEF TypeOK
<1> QED
  BY <1>10, <1>11, <1>12, <1>13, <1>14, <1>15, <1>16, <1>17, <1>18, <1>19 DEF IInv

----------------------------------------------------------------------------
(* Imports *)

\* The machines before and after an import or the return of a script: one more waits, or
\* one less; the others are as they were.
LEMMA ImportMachines ==
    ASSUME IInv, Import
    PROVE  /\ Level' = Level + 1 /\ Level \in Levels /\ Level \in Nat
           /\ Levels' = Levels \cup {Level + 1} /\ Level + 1 \notin Levels
           /\ \A a \in Levels : Mach(a)' = Mach(a)
           /\ \A a \in Levels' : a = Level + 1 =>
                 Mach(a)'.stack = <<>> /\ Mach(a)'.frames = <<Script>> /\ Mach(a)'.open = <<>>
           /\ suspended' \in Seq(Machine)
<1> TypeOK
  BY DEF IInv
<1>1. /\ suspended' = Append(suspended, Running)
      /\ stack' = <<>> /\ frames' = <<Script>> /\ open' = <<>>
  BY DEF Import, Running
<1>2. /\ Level \in Levels /\ Level = Len(suspended) + 1 /\ Len(suspended) \in Nat
      /\ Mach(Level) = Running /\ Running \in Machine
      /\ \A a \in Levels : a # Level => a \in 1 .. Len(suspended) /\ Mach(a) = suspended[a]
  BY MachFacts
<1>3. /\ suspended' \in Seq(Machine) /\ Len(suspended') = Level
      /\ suspended'[Level] = Running
      /\ \A a \in 1 .. Len(suspended) : suspended'[a] = suspended[a]
  BY <1>1, <1>2, AppendProperties DEF TypeOK
<1>4. Level' = Level + 1
  BY <1>3 DEF Level
<1>5. Levels' = Levels \cup {Level + 1} /\ Level + 1 \notin Levels
  <2>1. Levels = 1 .. Level /\ Levels' = 1 .. (Level + 1)
    BY <1>4 DEF Levels
  <2>2. Level \in Nat
    BY <1>2
  <2> QED
    BY <2>1, <2>2
<1>6. ASSUME NEW a \in Levels PROVE Mach(a)' = Mach(a)
  <2>1. a # Level + 1
    BY <1>5
  <2>2. Mach(a)' = suspended'[a]
    BY <1>4, <2>1 DEF Mach
  <2>3. CASE a = Level
    BY <1>2, <1>3, <2>2, <2>3
  <2>4. CASE a # Level
    BY <1>2, <1>3, <2>2, <2>4
  <2> QED
    BY <2>3, <2>4
<1>7. \A a \in Levels' : a = Level + 1 => Mach(a)' = Running'
  BY <1>4 DEF Mach
<1>8. Running'.stack = <<>> /\ Running'.frames = <<Script>> /\ Running'.open = <<>>
  BY <1>1 DEF Running
<1> QED
  BY <1>2, <1>3, <1>4, <1>5, <1>6, <1>7, <1>8

LEMMA ScriptFacts ==
    /\ Script \in Frame /\ Script.clo = Nobody /\ Script.base = 1 /\ Script.fixed = 0
    /\ Script.back = ToStack /\ ToStack.to = "stack"
    /\ <<Script>> \in Seq(Frame) /\ Len(<<Script>>) = 1 /\ <<Script>>[1] = Script
BY DEF Script, Frame, ToStack, Target

LEMMA ImportInv == ASSUME IInv, Import PROVE IInv'
<1> TypeOK
  BY DEF IInv
<1> DEFINE new == Level + 1
<1>1. /\ phase = "run" /\ phase' = "run" /\ UNCHANGED <<upvalue, env, thunks, forcing, seen>>
      /\ stack' = <<>> /\ frames' = <<Script>> /\ open' = <<>>
  BY DEF Import, heapVars
<1>2. /\ Level' = Level + 1 /\ Level \in Levels /\ Level \in Nat
      /\ Levels' = Levels \cup {new} /\ new \notin Levels
      /\ \A a \in Levels : Mach(a)' = Mach(a)
      /\ \A a \in Levels' : a = new =>
            Mach(a)'.stack = <<>> /\ Mach(a)'.frames = <<Script>> /\ Mach(a)'.open = <<>>
      /\ suspended' \in Seq(Machine)
  BY ImportMachines
<1> HIDE DEF new
<1>3. \A a \in Levels' : a \in Levels \/ a = new
  BY <1>2
<1>4. \A a \in Levels' : a = new =>
         /\ \A i \in 1 .. Len(Mach(a)'.stack) : FALSE
         /\ \A i \in 1 .. Len(Mach(a)'.frames) : i = 1 /\ Mach(a)'.frames[i] = Script
         /\ \A i \in 1 .. Len(Mach(a)'.open) : FALSE
  <2>1. Len(<<>>) = 0 /\ Len(<<Script>>) = 1 /\ <<Script>>[1] = Script
    OBVIOUS
  <2> QED
    BY <1>2, <2>1
<1>5. MachinesSound'
  <2>1. ASSUME NEW a \in Levels', a = new PROVE MachineSound(Mach(a)', upvalue')
    <3>1. Mach(a)'.stack = <<>> /\ Mach(a)'.frames = <<Script>> /\ Mach(a)'.open = <<>>
      BY <1>2, <2>1
    <3>2. FramesNested(<<>>, <<Script>>)
      BY ScriptFacts DEF FramesNested
    <3>3. BacksSound(<<>>, <<Script>>, upvalue')
      BY ScriptFacts DEF BacksSound
    <3>4. OpenSound(<<>>, <<>>, upvalue')
      BY DEF OpenSound
    <3> QED
      BY <3>1, <3>2, <3>3, <3>4 DEF MachineSound
  <2>2. ASSUME NEW a \in Levels PROVE MachineSound(Mach(a)', upvalue')
    BY <1>1, <1>2 DEF IInv, MachinesSound
  <2> QED
    BY <1>3, <2>1, <2>2 DEF MachinesSound
<1>6. OneSlotPerVariable'
  <2>1. \A a, b \in Levels' : \A i \in 1 .. Len(Mach(a)'.stack), j \in 1 .. Len(Mach(b)'.stack) :
           /\ Mach(a)'.stack[i].who # Nobody
           /\ Mach(a)'.stack[i].who = Mach(b)'.stack[j].who
           => a = b /\ i = j
    <3> SUFFICES ASSUME NEW a \in Levels', NEW b \in Levels',
                        NEW i \in 1 .. Len(Mach(a)'.stack), NEW j \in 1 .. Len(Mach(b)'.stack),
                        Mach(a)'.stack[i].who # Nobody,
                        Mach(a)'.stack[i].who = Mach(b)'.stack[j].who
                 PROVE  a = b /\ i = j
      OBVIOUS
    <3>1. a \in Levels /\ b \in Levels
      BY <1>3, <1>4
    <3> QED
      BY <1>2, <3>1 DEF IInv, OneSlotPerVariable
  <2> QED
    BY <2>1 DEF OneSlotPerVariable
<1>7. OneUpvaluePerVariable'
  BY <1>1 DEF IInv, OneUpvaluePerVariable
<1>8. ClosedLeft'
  <2> SUFFICES ASSUME NEW u \in DOMAIN upvalue, upvalue[u].loc = 0,
                      NEW a \in Levels', NEW i \in 1 .. Len(Mach(a)'.stack),
                      Mach(a)'.stack[i].who = upvalue[u].of
               PROVE  FALSE
    BY <1>1 DEF ClosedLeft
  <2>1. a \in Levels
    BY <1>3, <1>4
  <2> QED
    BY <1>1, <1>2, <2>1 DEF IInv, ClosedLeft
<1>9. PhaseSound'
  BY <1>1 DEF PhaseSound
<1>10. ScriptsPlain'
  <2>1. ASSUME NEW a \in Levels', a > 1 PROVE Mach(a)'.frames[1].fixed = 0
    <3>1. CASE a \in Levels
      BY <1>2, <2>1, <3>1 DEF IInv, ScriptsPlain
    <3>2. CASE a = new
      BY <1>2, <3>2, ScriptFacts
    <3> QED
      BY <1>3, <3>1, <3>2
  <2> QED
    BY <2>1 DEF ScriptsPlain
<1>11. TemporariesSet'
  <2>1. ASSUME NEW a \in Levels', NEW i \in 1 .. Len(Mach(a)'.stack), Mach(a)'.stack[i].who = Nobody
        PROVE  Mach(a)'.stack[i].val \in Value
    <3>1. a \in Levels
      BY <1>3, <1>4
    <3> QED
      BY <1>2, <2>1, <3>1 DEF IInv, TemporariesSet
  <2> QED
    BY <2>1 DEF TemporariesSet
<1>12. ForcingExact'
  <2>1. PICK at : ForcedAt(at)
    BY DEF IInv, ForcingExact
  <2>2. at \in [1 .. Len(forcing') -> Levels' \X (Nat \ {0})]
    BY <1>1, <1>2, <2>1 DEF ForcedAt
  <2>3. \A k \in 1 .. Len(forcing') :
           LET m == Mach(at[k][1])'
           IN  /\ at[k][2] <= Len(m.frames) /\ m.frames[at[k][2]].back.to # "stack"
               /\ forcing'[k] = Awaits(Mach(at[k][1]), at[k][2])'
    <3> SUFFICES ASSUME NEW k \in 1 .. Len(forcing)
                 PROVE  LET m == Mach(at[k][1])'
                        IN  /\ at[k][2] <= Len(m.frames) /\ m.frames[at[k][2]].back.to # "stack"
                            /\ forcing[k] = Awaits(Mach(at[k][1]), at[k][2])'
      BY <1>1
    <3>1. at[k][1] \in Levels
      BY <2>1 DEF ForcedAt
    <3>2. Mach(at[k][1])' = Mach(at[k][1])
      BY <1>2, <3>1
    <3>3. Awaits(Mach(at[k][1]), at[k][2])' = Awaits(Mach(at[k][1]), at[k][2])
      BY <1>1, <3>2 DEF Awaits
    <3> QED
      BY <2>1, <3>2, <3>3 DEF ForcedAt
  <2>4. \A a \in Levels' : \A i \in 1 .. Len(Mach(a)'.frames) :
           Mach(a)'.frames[i].back.to # "stack" => \E k \in 1 .. Len(forcing') : at[k] = <<a, i>>
    <3> SUFFICES ASSUME NEW a \in Levels', NEW i \in 1 .. Len(Mach(a)'.frames),
                        Mach(a)'.frames[i].back.to # "stack"
                 PROVE  \E k \in 1 .. Len(forcing) : at[k] = <<a, i>>
      BY <1>1
    <3>1. a \in Levels
      BY <1>3, <1>4, ScriptFacts
    <3> QED
      BY <1>2, <2>1, <3>1 DEF ForcedAt
  <2>5. \A j, k \in 1 .. Len(forcing') : j < k => Earlier(at[j], at[k])
    BY <1>1, <2>1 DEF ForcedAt
  <2>6. ForcedAt(at)'
    BY <2>2, <2>3, <2>4, <2>5 DEF ForcedAt, Earlier
  <2> QED
    BY <2>6 DEF ForcingExact
<1>13. Ownership'
  <2>1. PICK kl \in [DOMAIN env -> Levels], ul \in [DOMAIN upvalue -> Levels] : Owned(kl, ul)
    BY DEF IInv, Ownership
  <2>2. kl \in [DOMAIN env' -> Levels'] /\ ul \in [DOMAIN upvalue' -> Levels']
    BY <1>1, <1>2
  <2>3. ASSUME NEW a \in Levels'
        PROVE  /\ \A i \in 1 .. Len(Mach(a)'.stack) :
                     LET x == Mach(a)'.stack[i].val
                     IN  x \in Closure => x \in DOMAIN env' /\ kl[x] = a
               /\ \A i \in 1 .. Len(Mach(a)'.frames) :
                     LET f == Mach(a)'.frames[i]
                     IN  /\ f.clo # Nobody => f.clo \in DOMAIN env' /\ kl[f.clo] = a
                         /\ f.back.to = "upvalue" => ul[f.back.up] = a
    <3>1. CASE a \in Levels
      BY <1>1, <1>2, <2>1, <3>1 DEF Owned
    <3>2. CASE a = new
      BY <1>4, <3>2, ScriptFacts
    <3> QED
      BY <1>3, <3>1, <3>2
  <2>4. \A c \in DOMAIN env' : \A u \in env'[c] : ul[u] = kl[c]
    BY <1>1, <2>1 DEF Owned
  <2>5. \A u \in DOMAIN upvalue' :
           IF upvalue'[u].loc # 0
           THEN \E i \in 1 .. Len(Mach(ul[u])'.open) : Mach(ul[u])'.open[i] = u
           ELSE upvalue'[u].val \in Closure =>
                   upvalue'[u].val \in DOMAIN env' /\ kl[upvalue'[u].val] = ul[u]
    <3> SUFFICES ASSUME NEW u \in DOMAIN upvalue
                 PROVE  IF upvalue[u].loc # 0
                        THEN \E i \in 1 .. Len(Mach(ul[u])'.open) : Mach(ul[u])'.open[i] = u
                        ELSE upvalue[u].val \in Closure =>
                                upvalue[u].val \in DOMAIN env /\ kl[upvalue[u].val] = ul[u]
      BY <1>1
    <3>1. ul[u] \in Levels
      BY <2>1
    <3>2. Mach(ul[u])' = Mach(ul[u])
      BY <1>2, <3>1
    <3>3. IF upvalue[u].loc # 0
          THEN \E i \in 1 .. Len(Mach(ul[u]).open) : Mach(ul[u]).open[i] = u
          ELSE upvalue[u].val \in Closure =>
                  upvalue[u].val \in DOMAIN env /\ kl[upvalue[u].val] = ul[u]
      BY <2>1 DEF Owned
    <3> QED
      BY <3>2, <3>3
  <2>6. Owned(kl, ul)'
    BY <2>2, <2>3, <2>4, <2>5 DEF Owned
  <2> QED
    BY <2>2, <2>6 DEF Ownership
<1>14. TypeOK'
  BY <1>1, <1>2, ScriptFacts DEF TypeOK
<1> QED
  BY <1>5, <1>6, <1>7, <1>8, <1>9, <1>10, <1>11, <1>12, <1>13, <1>14 DEF IInv

\* The script of an imported file leaves nothing but its result.
LEMMA ScriptDone ==
    ASSUME IInv, ScriptReturn
    PROVE  /\ Len(stack) = 1 /\ stack[1].who = Nobody /\ Top = stack[1] /\ Top.val \in Value
           /\ Len(open) = 0 /\ Len(frames) = 1 /\ frames[1].back = ToStack
<1> TypeOK
  BY DEF IInv
<1>1. Len(stack) = Above /\ Temporary(Len(stack)) /\ Len(frames) = 1 /\ suspended # <<>>
  BY DEF ScriptReturn, BodyDone
<1>2. /\ Current = frames[1] /\ FramesNested(stack, frames) /\ Above = Current.base + Current.fixed
      /\ \A i \in 1 .. Len(stack) : stack[i].who = Nobody => stack[i].val \in Value
      /\ OpenSound(stack, open, upvalue) /\ Len(open) \in Nat
  BY <1>1, RunningFacts DEF Current
<1>3. Level \in Levels /\ Level > 1 /\ Mach(Level).frames = frames
  <2>1. Len(suspended) \in Nat /\ Len(suspended) # 0 /\ Level = Len(suspended) + 1
    BY <1>1, MachFacts, EmptySeq DEF TypeOK
  <2>2. Level \in Levels /\ Mach(Level).frames = frames
    BY MachFacts
  <2> QED
    BY <2>1, <2>2
<1>4. frames[1].fixed = 0
  BY <1>3 DEF IInv, ScriptsPlain
<1>5. frames[1].base = 1 /\ frames[1].back = ToStack
  BY <1>2 DEF FramesNested
<1>6. Len(stack) = 1
  BY <1>1, <1>2, <1>4, <1>5
<1>7. stack[1].who = Nobody /\ Top = stack[1] /\ stack[1].val \in Value
  BY <1>1, <1>2, <1>6 DEF Temporary, Top
<1>8. Len(open) = 0
  <2> SUFFICES ASSUME Len(open) # 0 PROVE FALSE
    OBVIOUS
  <2>1. 1 \in 1 .. Len(open)
    BY <1>2
  <2>2. /\ open[1] \in DOMAIN upvalue /\ upvalue[open[1]].loc \in 1 .. 1
        /\ stack[upvalue[open[1]].loc].who = upvalue[open[1]].of
    BY <1>2, <1>6, <2>1 DEF OpenSound
  <2>3. upvalue[open[1]].of # Nobody /\ upvalue[open[1]].loc = 1
    BY <2>2, CellFacts
  <2> QED
    BY <1>7, <2>2, <2>3
<1> QED
  BY <1>1, <1>5, <1>6, <1>7, <1>8

LEMMA ReturnMachines ==
    ASSUME IInv, ScriptReturn
    PROVE  \E b \in Levels :
              /\ Level = b + 1 /\ b \in Nat /\ Level' = b
              /\ Levels' \subseteq Levels /\ \A a \in Levels : a \in Levels' \/ a = Level
              /\ b \in Levels' /\ Level \notin Levels'
              /\ \A a \in Levels' : /\ Mach(a)'.frames = Mach(a).frames /\ Mach(a)'.open = Mach(a).open
                                    /\ a # b => Mach(a)'.stack = Mach(a).stack
                                    /\ a = b => Mach(a)'.stack = Append(Mach(a).stack, Temp(Top.val))
              /\ stack' = Append(Mach(b).stack, Temp(Top.val))
              /\ frames' = Mach(b).frames /\ open' = Mach(b).open
              /\ suspended' \in Seq(Machine)
<1> TypeOK
  BY DEF IInv
<1> DEFINE b == Len(suspended)
<1>1. /\ suspended # <<>> /\ suspended' = Front(suspended)
      /\ stack' = Append(suspended[b].stack, Temp(Top.val))
      /\ frames' = suspended[b].frames /\ open' = suspended[b].open
  BY DEF ScriptReturn
<1>2. /\ Level \in Levels /\ Level = b + 1 /\ b \in Nat
      /\ \A a \in Levels : a # Level => a \in 1 .. b /\ Mach(a) = suspended[a]
  BY MachFacts
<1>3. b > 0
  BY <1>1, <1>2, EmptySeq DEF TypeOK
<1>4. /\ suspended' \in Seq(Machine) /\ Len(suspended') = b - 1
      /\ \A i \in 1 .. b - 1 : suspended'[i] = suspended[i]
  BY <1>1, <1>3, FrontFacts DEF TypeOK
<1>5. Level' = b
  BY <1>2, <1>4 DEF Level
<1>6. Levels = 1 .. b + 1 /\ Levels' = 1 .. b
  BY <1>2, <1>5 DEF Levels
<1>7. PICK c : c = b
  OBVIOUS
<1>8. /\ c \in Levels /\ Level = c + 1 /\ c \in Nat /\ Level' = c
      /\ Levels' \subseteq Levels /\ \A a \in Levels : a \in Levels' \/ a = Level
      /\ c \in Levels' /\ Level \notin Levels'
  BY <1>2, <1>3, <1>5, <1>6, <1>7
<1>9. Mach(c) = suspended[b]
  <2>1. c # Level
    BY <1>8
  <2> QED
    BY <1>2, <1>7, <1>8, <2>1
<1>10. ASSUME NEW a \in Levels'
       PROVE  /\ Mach(a)'.frames = Mach(a).frames /\ Mach(a)'.open = Mach(a).open
              /\ a # c => Mach(a)'.stack = Mach(a).stack
              /\ a = c => Mach(a)'.stack = Append(Mach(a).stack, Temp(Top.val))
  <2>1. CASE a = c
    <3>1. Mach(a)' = Running'
      BY <1>8, <2>1 DEF Mach
    <3>2. Running'.stack = stack' /\ Running'.frames = frames' /\ Running'.open = open'
      BY DEF Running
    <3> QED
      BY <1>1, <1>9, <2>1, <3>1, <3>2
  <2>2. CASE a # c
    <3>1. Mach(a)' = suspended'[a]
      BY <1>8, <2>2 DEF Mach
    <3>2. a \in 1 .. b - 1 /\ a \in Levels /\ a # Level
      BY <1>2, <1>6, <1>7, <1>8, <2>2
    <3>3. Mach(a) = suspended[a] /\ suspended'[a] = suspended[a]
      BY <1>2, <1>4, <3>2
    <3> QED
      BY <2>2, <3>1, <3>3
  <2> QED
    BY <2>1, <2>2
<1> QED
  BY <1>1, <1>4, <1>8, <1>9, <1>10

LEMMA ScriptReturnInv == ASSUME IInv, ScriptReturn PROVE IInv'
<1> TypeOK
  BY DEF IInv
<1>0. PICK x : x = Top.val
  OBVIOUS
<1>1. /\ Len(stack) = 1 /\ stack[1].who = Nobody /\ Top = stack[1] /\ x \in Value
      /\ Len(open) = 0 /\ Len(frames) = 1 /\ frames[1].back = ToStack /\ stack[1].val = x
  BY <1>0, ScriptDone
<1>2. PICK b \in Levels :
         /\ Level = b + 1 /\ b \in Nat /\ Level' = b
         /\ Levels' \subseteq Levels /\ \A a \in Levels : a \in Levels' \/ a = Level
         /\ b \in Levels' /\ Level \notin Levels'
         /\ \A a \in Levels' : /\ Mach(a)'.frames = Mach(a).frames /\ Mach(a)'.open = Mach(a).open
                               /\ a # b => Mach(a)'.stack = Mach(a).stack
                               /\ a = b => Mach(a)'.stack = Append(Mach(a).stack, Temp(Top.val))
         /\ stack' = Append(Mach(b).stack, Temp(Top.val))
         /\ frames' = Mach(b).frames /\ open' = Mach(b).open
         /\ suspended' \in Seq(Machine)
  BY ReturnMachines
<1>3. /\ phase = "run" /\ phase' = "run" /\ UNCHANGED <<upvalue, env, thunks, forcing, seen>>
  BY DEF ScriptReturn, BodyDone, heapVars
<1>4. Temp(x) \in Slot /\ Temp(x).val = x /\ Temp(x).who = Nobody
  BY <1>1, TempFacts
<1>5. PICK n : n = Len(Mach(b).stack)
  OBVIOUS
<1>6. /\ Mach(b).stack \in Seq(Slot) /\ n \in Nat /\ Mach(b).frames \in Seq(Frame) /\ Mach(b).open \in Seq(Up)
      /\ Len(Mach(b).frames) \in Nat
  <2>1. Mach(b) \in Machine
    BY MachFacts
  <2> QED
    BY <1>5, <2>1, MachineFacts
<1>7. /\ stack' \in Seq(Slot) /\ Len(stack') = n + 1 /\ stack'[n + 1] = Temp(x)
      /\ \A i \in 1 .. n : stack'[i] = Mach(b).stack[i]
  <2>1. stack' = Append(Mach(b).stack, Temp(x))
    BY <1>0, <1>2
  <2> QED
    BY <1>4, <1>5, <1>6, <2>1, AppendProperties
\* a slot of a machine is one it had before, or the result
<1>8. ASSUME NEW a \in Levels', NEW i \in 1 .. Len(Mach(a)'.stack)
      PROVE  \/ a \in Levels /\ i \in 1 .. Len(Mach(a).stack) /\ Mach(a)'.stack[i] = Mach(a).stack[i]
             \/ a = b /\ Mach(a)'.stack[i] = Temp(x)
  <2>1. CASE a # b
    BY <1>2, <2>1
  <2>2. CASE a = b
    <3>1. Mach(a)'.stack = stack'
      BY <1>2, <2>2
    <3>2. i \in 1 .. n \/ i = n + 1
      BY <1>6, <1>7, <3>1
    <3> QED
      BY <1>5, <1>7, <2>2, <3>1, <3>2
  <2> QED
    BY <2>1, <2>2
\* and the slots it had are where they were
<1>9. ASSUME NEW a \in Levels', NEW i \in 1 .. Len(Mach(a).stack)
      PROVE  i \in 1 .. Len(Mach(a)'.stack) /\ Mach(a)'.stack[i] = Mach(a).stack[i]
  <2>1. CASE a # b
    BY <1>2, <2>1
  <2>2. CASE a = b
    <3>1. Mach(a)'.stack = stack' /\ i \in 1 .. n /\ i \in 1 .. n + 1
      BY <1>2, <1>5, <1>6, <2>2
    <3> QED
      BY <1>7, <2>2, <3>1
  <2> QED
    BY <2>1, <2>2
<1>10. \A a \in Levels' : MachineSound(Mach(a), upvalue) /\ Mach(a) \in Machine /\ a \in Levels
  BY <1>2, MachFacts DEF IInv, MachinesSound
\* results are written back to slots that are still there
<1>11. ASSUME NEW a \in Levels', NEW i \in 1 .. Len(Mach(a).frames), Mach(a).frames[i].back.to = "slot"
       PROVE  /\ Mach(a).frames[i].back.slot \in 1 .. Len(Mach(a).stack)
              /\ Mach(a)'.stack[Mach(a).frames[i].back.slot] = Mach(a).stack[Mach(a).frames[i].back.slot]
  <2> DEFINE f == Mach(a).frames
             k == Len(f)
             l == Len(Mach(a).stack)
  <2>1. /\ FramesNested(Mach(a).stack, f) /\ f[i].back.slot \in 1 .. f[i].base - 1
    BY <1>10, <1>11 DEF MachineSound, BacksSound
  <2>2. /\ k \in Nat /\ l \in Nat /\ k \in 1 .. k
        /\ f[i].base \in Nat /\ f[i].fixed \in Nat /\ f[k].base \in Nat /\ f[k].fixed \in Nat
    <3>1. k \in Nat /\ l \in Nat /\ k \in 1 .. k
      BY <1>10, MachineFacts
    <3> QED
      BY <1>10, <3>1, MachineFacts
  <2>3. f[k].base + f[k].fixed <= l + 1
    BY <2>1 DEF FramesNested
  <2>4. i < k => f[i].base + f[i].fixed <= f[k].base
    BY <2>1, <2>2 DEF FramesNested
  <2> HIDE DEF f, k, l
  <2>5. f[i].base <= l + 1
    <3>1. CASE i < k
      <4>1. f[i].base <= f[k].base
        BY <2>2, <2>4, <3>1
      <4>2. f[k].base <= l + 1
        BY <2>2, <2>3
      <4> QED
        BY <2>2, <4>1, <4>2
    <3>2. CASE i = k
      BY <2>2, <2>3, <3>2
    <3>3. i \in 1 .. k
      BY DEF f, k
    <3> QED
      BY <2>2, <3>1, <3>2, <3>3
  <2>6. f[i].back.slot \in 1 .. l
    BY <2>1, <2>2, <2>5
  <2> QED
    BY <1>9, <2>6 DEF f, l
<1>12. MachinesSound'
  <2>1. ASSUME NEW a \in Levels' PROVE MachineSound(Mach(a)', upvalue')
    <3>1. FramesNested(Mach(a)'.stack, Mach(a)'.frames)
      <4>1. Len(Mach(a).stack) <= Len(Mach(a)'.stack) /\ Len(Mach(a)'.stack) \in Nat
        BY <1>2, <1>5, <1>6, <1>7, <1>10, MachineFacts
      <4>2. FramesNested(Mach(a).stack, Mach(a).frames)
        BY <1>10 DEF MachineSound
      <4>3. LET f == Mach(a).frames IN f[Len(f)].base \in Nat /\ f[Len(f)].fixed \in Nat
        <5>1. Len(Mach(a).frames) \in 1 .. Len(Mach(a).frames)
          BY <1>10, <4>2, MachineFacts DEF FramesNested
        <5> QED
          BY <1>10, <5>1, MachineFacts
      <4>4. Len(Mach(a).stack) \in Nat
        BY <1>10, MachineFacts
      <4>5. LET f == Mach(a).frames IN f[Len(f)].base + f[Len(f)].fixed <= Len(Mach(a)'.stack) + 1
        <5>1. PICK e : LET f == Mach(a).frames IN e = f[Len(f)].base + f[Len(f)].fixed
          OBVIOUS
        <5>2. e <= Len(Mach(a).stack) + 1
          BY <4>2, <5>1 DEF FramesNested
        <5>3. e \in Nat
          BY <4>3, <5>1
        <5>4. e <= Len(Mach(a)'.stack) + 1
          BY <4>1, <4>4, <5>2, <5>3
        <5> QED
          BY <5>1, <5>4
      <4> QED
        BY <1>2, <4>2, <4>5 DEF FramesNested
    <3>2. BacksSound(Mach(a)'.stack, Mach(a)'.frames, upvalue')
      <4>1. BacksSound(Mach(a).stack, Mach(a).frames, upvalue) /\ Mach(a)'.frames = Mach(a).frames
        BY <1>2, <1>10 DEF MachineSound
      <4> QED
        BY <1>3, <1>11, <4>1 DEF BacksSound
    <3>3. OpenSound(Mach(a)'.stack, Mach(a)'.open, upvalue')
      <4>1. OpenSound(Mach(a).stack, Mach(a).open, upvalue) /\ Mach(a)'.open = Mach(a).open
        BY <1>2, <1>10 DEF MachineSound
      <4> QED
        BY <1>3, <1>9, <4>1 DEF OpenSound
    <3> QED
      BY <3>1, <3>2, <3>3 DEF MachineSound
  <2> QED
    BY <2>1 DEF MachinesSound
<1>13. OneSlotPerVariable'
  <2>1. \A a, c \in Levels' : \A i \in 1 .. Len(Mach(a)'.stack), j \in 1 .. Len(Mach(c)'.stack) :
           /\ Mach(a)'.stack[i].who # Nobody
           /\ Mach(a)'.stack[i].who = Mach(c)'.stack[j].who
           => a = c /\ i = j
    <3> SUFFICES ASSUME NEW a \in Levels', NEW c \in Levels',
                        NEW i \in 1 .. Len(Mach(a)'.stack), NEW j \in 1 .. Len(Mach(c)'.stack),
                        Mach(a)'.stack[i].who # Nobody,
                        Mach(a)'.stack[i].who = Mach(c)'.stack[j].who
                 PROVE  a = c /\ i = j
      OBVIOUS
    <3>1. a \in Levels /\ i \in 1 .. Len(Mach(a).stack) /\ Mach(a)'.stack[i] = Mach(a).stack[i]
      BY <1>4, <1>8
    <3>2. c \in Levels /\ j \in 1 .. Len(Mach(c).stack) /\ Mach(c)'.stack[j] = Mach(c).stack[j]
      BY <1>4, <1>8
    <3> QED
      BY <3>1, <3>2 DEF IInv, OneSlotPerVariable
  <2> QED
    BY <2>1 DEF OneSlotPerVariable
<1>14. OneUpvaluePerVariable'
  BY <1>3 DEF IInv, OneUpvaluePerVariable
<1>15. ClosedLeft'
  <2> SUFFICES ASSUME NEW u \in DOMAIN upvalue, upvalue[u].loc = 0,
                      NEW a \in Levels', NEW i \in 1 .. Len(Mach(a)'.stack),
                      Mach(a)'.stack[i].who = upvalue[u].of
               PROVE  FALSE
    BY <1>3 DEF ClosedLeft
  <2>1. upvalue[u].of # Nobody
    BY CellFacts
  <2>2. a \in Levels /\ i \in 1 .. Len(Mach(a).stack) /\ Mach(a)'.stack[i] = Mach(a).stack[i]
    BY <1>4, <1>8, <2>1
  <2> QED
    BY <1>3, <2>2 DEF IInv, ClosedLeft
<1>16. PhaseSound'
  BY <1>3 DEF PhaseSound
<1>17. ScriptsPlain'
  BY <1>2 DEF IInv, ScriptsPlain
<1>18. TemporariesSet'
  <2>1. ASSUME NEW a \in Levels', NEW i \in 1 .. Len(Mach(a)'.stack), Mach(a)'.stack[i].who = Nobody
        PROVE  Mach(a)'.stack[i].val \in Value
    <3>1. CASE a \in Levels /\ i \in 1 .. Len(Mach(a).stack) /\ Mach(a)'.stack[i] = Mach(a).stack[i]
      BY <2>1, <3>1 DEF IInv, TemporariesSet
    <3>2. CASE Mach(a)'.stack[i] = Temp(x)
      BY <1>1, <1>4, <3>2
    <3> QED
      BY <1>8, <3>1, <3>2
  <2> QED
    BY <2>1 DEF TemporariesSet
<1>19. ForcingExact'
  <2>1. PICK at : ForcedAt(at)
    BY DEF IInv, ForcingExact
  <2>2. ASSUME NEW k \in 1 .. Len(forcing)
        PROVE  /\ at[k][1] \in Levels' /\ at[k][2] \in 1 .. Len(Mach(at[k][1]).frames)
               /\ Mach(at[k][1]).frames[at[k][2]].back.to # "stack"
    <3>1. /\ at[k][1] \in Levels /\ at[k][2] \in Nat \ {0}
          /\ at[k][2] <= Len(Mach(at[k][1]).frames)
          /\ Mach(at[k][1]).frames[at[k][2]].back.to # "stack"
      BY <2>1 DEF ForcedAt
    <3>2. Len(Mach(at[k][1]).frames) \in Nat
      BY <3>1, MachFacts, MachineFacts
    <3>3. at[k][2] \in 1 .. Len(Mach(at[k][1]).frames)
      BY <3>1, <3>2
    <3>4. at[k][1] # Level
      <4> SUFFICES ASSUME at[k][1] = Level PROVE FALSE
        OBVIOUS
      <4>1. Mach(at[k][1]).frames = frames
        BY MachFacts
      <4>2. at[k][2] = 1
        <5>1. Len(Mach(at[k][1]).frames) = 1
          BY <1>1, <4>1
        <5>2. at[k][2] \in 1 .. 1
          BY <3>3, <5>1
        <5> QED
          BY <5>2
      <4> QED
        BY <1>1, <3>1, <4>1, <4>2, ScriptFacts
    <3> QED
      BY <1>2, <3>1, <3>3, <3>4
  <2>3. at \in [1 .. Len(forcing') -> Levels' \X (Nat \ {0})]
    <3>1. at \in [1 .. Len(forcing) -> Levels \X (Nat \ {0})]
      BY <2>1 DEF ForcedAt
    <3>2. \A k \in 1 .. Len(forcing) : at[k] \in Levels' \X (Nat \ {0})
      BY <2>2, <3>1
    <3> QED
      BY <1>3, <3>1, <3>2
  <2>4. \A k \in 1 .. Len(forcing') :
           LET m == Mach(at[k][1])'
           IN  /\ at[k][2] <= Len(m.frames) /\ m.frames[at[k][2]].back.to # "stack"
               /\ forcing'[k] = Awaits(Mach(at[k][1]), at[k][2])'
    <3> SUFFICES ASSUME NEW k \in 1 .. Len(forcing)
                 PROVE  LET m == Mach(at[k][1])'
                        IN  /\ at[k][2] <= Len(m.frames) /\ m.frames[at[k][2]].back.to # "stack"
                            /\ forcing[k] = Awaits(Mach(at[k][1]), at[k][2])'
      BY <1>3
    <3> DEFINE a == at[k][1]
               i == at[k][2]
    <3>1. a \in Levels' /\ i \in 1 .. Len(Mach(a).frames) /\ Mach(a).frames[i].back.to # "stack"
      BY <2>2
    <3>2. Mach(a)'.frames = Mach(a).frames
      BY <1>2, <3>1
    <3>3. forcing[k] = Awaits(Mach(a), i) /\ i <= Len(Mach(a).frames)
      BY <2>1 DEF ForcedAt
    <3> HIDE DEF a, i
    <3>4. Awaits(Mach(a), i)' = Awaits(Mach(a), i)
      BY <1>3, <1>11, <3>1, <3>2 DEF Awaits
    <3> QED
      BY <3>1, <3>2, <3>3, <3>4 DEF a, i
  <2>5. \A a \in Levels' : \A i \in 1 .. Len(Mach(a)'.frames) :
           Mach(a)'.frames[i].back.to # "stack" => \E k \in 1 .. Len(forcing') : at[k] = <<a, i>>
    BY <1>2, <1>3, <2>1 DEF ForcedAt
  <2>6. \A j, k \in 1 .. Len(forcing') : j < k => Earlier(at[j], at[k])
    BY <1>3, <2>1 DEF ForcedAt
  <2>7. ForcedAt(at)'
    BY <2>3, <2>4, <2>5, <2>6 DEF ForcedAt, Earlier
  <2> QED
    BY <2>7 DEF ForcingExact
<1>20. Ownership'
  <2>1. PICK kl \in [DOMAIN env -> Levels], ul \in [DOMAIN upvalue -> Levels] : Owned(kl, ul)
    BY DEF IInv, Ownership
  <2>2. PICK top : top = Level
    OBVIOUS
  <2> DEFINE down(a) == IF a = top THEN b ELSE a
  <2>3. \A a \in Levels : down(a) \in Levels'
    BY <1>2, <2>2
  <2>4. \A a \in Levels' : down(a) = a
    BY <1>2, <2>2
  <2>5. PICK kl2 : kl2 = [c \in DOMAIN env |-> down(kl[c])]
    OBVIOUS
  <2>6. PICK ul2 : ul2 = [u \in DOMAIN upvalue |-> down(ul[u])]
    OBVIOUS
  <2>7. down(top) = b
    OBVIOUS
  <2> HIDE DEF down
  <2>8. kl2 \in [DOMAIN env' -> Levels'] /\ ul2 \in [DOMAIN upvalue' -> Levels']
    BY <1>3, <2>1, <2>3, <2>5, <2>6
  <2>9. /\ \A c \in DOMAIN env : kl2[c] = down(kl[c])
        /\ \A u \in DOMAIN upvalue : ul2[u] = down(ul[u])
    BY <2>5, <2>6
  <2>10. ASSUME NEW a \in Levels', NEW i \in 1 .. Len(Mach(a)'.stack), Mach(a)'.stack[i].val \in Closure
         PROVE  Mach(a)'.stack[i].val \in DOMAIN env' /\ kl2[Mach(a)'.stack[i].val] = a
    <3>1. CASE a \in Levels /\ i \in 1 .. Len(Mach(a).stack) /\ Mach(a)'.stack[i] = Mach(a).stack[i]
      <4>1. Mach(a).stack[i].val \in DOMAIN env /\ kl[Mach(a).stack[i].val] = a
        BY <2>1, <2>10, <3>1 DEF Owned
      <4> QED
        BY <1>3, <2>4, <2>9, <3>1, <4>1
    <3>2. CASE a = b /\ Mach(a)'.stack[i] = Temp(x)
      <4>1. 1 \in 1 .. Len(stack)
        BY <1>1
      <4>2. x \in DOMAIN env /\ kl[x] = top
        BY <1>1, <1>4, <2>1, <2>2, <2>10, <3>2, <4>1, HeldOwned
      <4> QED
        BY <1>3, <1>4, <2>7, <2>9, <3>2, <4>2
    <3> QED
      BY <1>8, <3>1, <3>2
  <2>11. ASSUME NEW a \in Levels', NEW i \in 1 .. Len(Mach(a)'.frames)
         PROVE  LET f == Mach(a)'.frames[i]
                IN  /\ f.clo # Nobody => f.clo \in DOMAIN env' /\ kl2[f.clo] = a
                    /\ f.back.to = "upvalue" => ul2[f.back.up] = a
    <3>1. Mach(a)'.frames = Mach(a).frames /\ a \in Levels
      BY <1>2
    <3>2. /\ Mach(a).frames[i].clo # Nobody =>
                Mach(a).frames[i].clo \in DOMAIN env /\ kl[Mach(a).frames[i].clo] = a
          /\ Mach(a).frames[i].back.to = "upvalue" => ul[Mach(a).frames[i].back.up] = a
      BY <2>1, <3>1 DEF Owned
    <3>3. Mach(a).frames[i].back.to = "upvalue" => Mach(a).frames[i].back.up \in DOMAIN upvalue
      BY <1>10, <3>1 DEF MachineSound, BacksSound
    <3> QED
      BY <1>3, <2>4, <2>9, <3>1, <3>2, <3>3
  <2>12. ASSUME NEW c \in DOMAIN env', NEW u \in env'[c] PROVE ul2[u] = kl2[c]
    <3>1. c \in DOMAIN env /\ u \in env[c] /\ u \in DOMAIN upvalue
      BY <1>3, <2>12 DEF TypeOK
    <3>2. ul[u] = kl[c]
      BY <2>1, <3>1 DEF Owned
    <3> QED
      BY <2>9, <3>1, <3>2
  <2>13. ASSUME NEW u \in DOMAIN upvalue'
         PROVE  IF upvalue'[u].loc # 0
                THEN \E i \in 1 .. Len(Mach(ul2[u])'.open) : Mach(ul2[u])'.open[i] = u
                ELSE upvalue'[u].val \in Closure =>
                        upvalue'[u].val \in DOMAIN env' /\ kl2[upvalue'[u].val] = ul2[u]
    <3>1. u \in DOMAIN upvalue /\ upvalue'[u] = upvalue[u]
      BY <1>3
    <3>2. CASE upvalue[u].loc # 0
      <4>1. PICK i \in 1 .. Len(Mach(ul[u]).open) : Mach(ul[u]).open[i] = u
        BY <2>1, <3>1, <3>2 DEF Owned
      <4>2. ul[u] # top
        <5> SUFFICES ASSUME ul[u] = top PROVE FALSE
          OBVIOUS
        <5>1. Mach(ul[u]).open = open
          BY <2>2, MachFacts
        <5>2. i \in 1 .. 0
          BY <1>1, <5>1
        <5> QED
          BY <5>2
      <4>3. ul[u] \in Levels'
        BY <1>2, <2>1, <2>2, <3>1, <4>2
      <4>4. ul2[u] = ul[u] /\ Mach(ul[u])'.open = Mach(ul[u]).open
        BY <1>2, <2>4, <2>9, <3>1, <4>3
      <4> QED
        BY <3>1, <3>2, <4>1, <4>4
    <3>3. CASE upvalue[u].loc = 0
      <4>1. upvalue[u].val \in Closure =>
               upvalue[u].val \in DOMAIN env /\ kl[upvalue[u].val] = ul[u]
        BY <2>1, <3>1, <3>3 DEF Owned
      <4> QED
        BY <1>3, <2>9, <3>1, <3>3, <4>1
    <3> QED
      BY <3>2, <3>3
  <2>14. Owned(kl2, ul2)'
    BY <2>8, <2>10, <2>11, <2>12, <2>13 DEF Owned
  <2> QED
    BY <2>8, <2>14 DEF Ownership
<1>21. TypeOK'
  <2>1. stack' \in Seq(Slot) /\ frames' \in Seq(Frame) /\ open' \in Seq(Up)
    BY <1>2, <1>6, <1>7
  <2> QED
    BY <1>2, <1>3, <2>1 DEF TypeOK
<1> QED
  BY <1>12, <1>13, <1>14, <1>15, <1>16, <1>17, <1>18, <1>19, <1>20, <1>21 DEF IInv

----------------------------------------------------------------------------
(* The invariant *)

LEMMA InitInv == ASSUME Init PROVE IInv
<1>1. /\ stack = <<>> /\ frames = <<Script>> /\ open = <<>> /\ suspended = <<>>
      /\ upvalue = <<>> /\ env = <<>> /\ thunks = {}
      /\ phase = "run" /\ forcing = <<>> /\ seen = <<>>
  BY DEF Init
<1>2. /\ stack \in Seq(Slot) /\ open \in Seq(Up) /\ suspended \in Seq(Machine) /\ forcing \in Seq(Var)
      /\ Len(stack) = 0 /\ Len(open) = 0 /\ Len(suspended) = 0 /\ Len(forcing) = 0
  BY <1>1
<1>3. DOMAIN upvalue = {} /\ DOMAIN env = {}
  BY <1>1
<1>4. /\ Script \in Frame /\ Script.clo = Nobody /\ Script.base = 1 /\ Script.fixed = 0
      /\ Script.back = ToStack /\ Script.back.to = "stack"
  BY ScriptFacts
<1>5. frames \in Seq(Frame) /\ Len(frames) = 1 /\ frames[1] = Script
  BY <1>1, <1>4
<1>6. TypeOK
  <2>1. upvalue \in [DOMAIN upvalue -> Cell] /\ env \in [DOMAIN env -> SUBSET DOMAIN upvalue]
    BY <1>1, <1>3
  <2> QED
    BY <1>1, <1>2, <1>3, <1>5, <2>1 DEF TypeOK
<1>7. Level = 1 /\ Levels = {1} /\ Levels = 1 .. 1
  BY <1>2 DEF Level, Levels
<1>8. /\ Mach(1) = Running
      /\ Mach(1).stack = stack /\ Mach(1).frames = frames /\ Mach(1).open = open
  BY <1>7 DEF Mach, Running
<1>9. MachinesSound
  <2>1. FramesNested(stack, frames)
    BY <1>2, <1>4, <1>5 DEF FramesNested
  <2>2. BacksSound(stack, frames, upvalue)
    BY <1>4, <1>5 DEF BacksSound
  <2>3. OpenSound(stack, open, upvalue)
    BY <1>2 DEF OpenSound
  <2> QED
    BY <1>7, <1>8, <2>1, <2>2, <2>3 DEF MachinesSound, MachineSound
<1>10. OneSlotPerVariable /\ TemporariesSet
  BY <1>2, <1>7, <1>8 DEF OneSlotPerVariable, TemporariesSet
<1>11. OneUpvaluePerVariable /\ ClosedLeft
  BY <1>3 DEF OneUpvaluePerVariable, ClosedLeft
<1>12. PhaseSound
  BY <1>1 DEF PhaseSound
<1>13. ScriptsPlain
  BY <1>7 DEF ScriptsPlain
<1>14. Ownership
  <2>1. PICK k : k = [c \in {} |-> 1]
    OBVIOUS
  <2>2. k \in [DOMAIN env -> Levels] /\ k \in [DOMAIN upvalue -> Levels]
    BY <1>3, <2>1
  <2>3. Owned(k, k)
    <3>1. \A a \in Levels : \A i \in 1 .. Len(Mach(a).stack) : FALSE
      BY <1>2, <1>7, <1>8
    <3>2. \A a \in Levels : \A i \in 1 .. Len(Mach(a).frames) :
             Mach(a).frames[i].clo = Nobody /\ Mach(a).frames[i].back.to = "stack"
      BY <1>4, <1>5, <1>7, <1>8
    <3> QED
      BY <1>3, <2>2, <3>1, <3>2 DEF Owned
  <2> QED
    BY <2>2, <2>3 DEF Ownership
<1>15. ForcingExact
  <2>1. PICK at : at = [k \in 1 .. Len(forcing) |-> <<1, 1>>]
    OBVIOUS
  <2>2. at \in [1 .. Len(forcing) -> Levels \X (Nat \ {0})]
    BY <1>7, <2>1
  <2>3. \A a \in Levels : \A i \in 1 .. Len(Mach(a).frames) : Mach(a).frames[i].back.to = "stack"
    BY <1>4, <1>5, <1>7, <1>8
  <2>4. 1 .. Len(forcing) = {}
    BY <1>2
  <2>5. ForcedAt(at)
    BY <2>2, <2>3, <2>4 DEF ForcedAt
  <2> QED
    BY <2>5 DEF ForcingExact
<1> QED
  BY <1>6, <1>9, <1>10, <1>11, <1>12, <1>13, <1>14, <1>15 DEF IInv

LEMMA StutterInv == ASSUME IInv, UNCHANGED vars PROVE IInv'
<1>1. /\ UNCHANGED <<stack, frames, open, suspended, upvalue, env, thunks, phase, forcing, seen>>
  BY DEF vars, heapVars
<1>2. Level' = Level /\ Levels' = Levels /\ Running' = Running /\ Above' = Above /\ Top' = Top
  BY <1>1 DEF Level, Levels, Running, Above, Current, Top
<1>3. \A a : Mach(a)' = Mach(a)
  BY <1>1, <1>2 DEF Mach, Running
<1>4. TypeOK'
  BY <1>1 DEF IInv, TypeOK
<1>5. MachinesSound' /\ OneUpvaluePerVariable'
  BY <1>1, <1>2, <1>3 DEF IInv, MachinesSound, OneUpvaluePerVariable
<1>6. OneSlotPerVariable' /\ TemporariesSet' /\ ScriptsPlain'
  BY <1>1, <1>2, <1>3 DEF IInv, OneSlotPerVariable, TemporariesSet, ScriptsPlain
<1>7. ClosedLeft' /\ PhaseSound'
  BY <1>1, <1>2, <1>3 DEF IInv, ClosedLeft, PhaseSound
<1>8. Ownership'
  <2>1. PICK kl \in [DOMAIN env -> Levels], ul \in [DOMAIN upvalue -> Levels] : Owned(kl, ul)
    BY DEF IInv, Ownership
  <2>2. Owned(kl, ul)'
    BY <1>1, <1>2, <1>3, <2>1 DEF Owned
  <2> QED
    BY <1>1, <1>2, <2>1, <2>2 DEF Ownership
<1>9. ForcingExact'
  <2>1. PICK at : ForcedAt(at)
    BY DEF IInv, ForcingExact
  <2>2. \A a, i : Awaits(Mach(a), i)' = Awaits(Mach(a), i)
    BY <1>1, <1>3 DEF Awaits
  <2>3. at \in [1 .. Len(forcing') -> Levels' \X (Nat \ {0})]
    BY <1>1, <1>2, <2>1 DEF ForcedAt
  <2>4. \A k \in 1 .. Len(forcing') :
           LET m == Mach(at[k][1])'
           IN  /\ at[k][2] <= Len(m.frames) /\ m.frames[at[k][2]].back.to # "stack"
               /\ forcing'[k] = Awaits(Mach(at[k][1]), at[k][2])'
    BY <1>1, <1>3, <2>1, <2>2 DEF ForcedAt
  <2>5. \A a \in Levels' : \A i \in 1 .. Len(Mach(a)'.frames) :
           Mach(a)'.frames[i].back.to # "stack" => \E k \in 1 .. Len(forcing') : at[k] = <<a, i>>
    BY <1>1, <1>2, <1>3, <2>1 DEF ForcedAt
  <2>6. \A j, k \in 1 .. Len(forcing') : j < k => Earlier(at[j], at[k])
    BY <1>1, <2>1 DEF ForcedAt
  <2>7. ForcedAt(at)'
    BY <2>3, <2>4, <2>5, <2>6 DEF ForcedAt, Earlier
  <2> QED
    BY <2>7 DEF ForcingExact
<1> QED
  BY <1>4, <1>5, <1>6, <1>7, <1>8, <1>9 DEF IInv

LEMMA NextInv ==
    ASSUME ScriptTailCall = FALSE, IInv, [Next]_vars
    PROVE  IInv'
<1>1. CASE UNCHANGED vars
  BY <1>1, StutterInv
<1>2. CASE Next
  <2>1. CASE \E x \in Plain : PushConst(x)
    BY <2>1, PushConstInv
  <2>2. CASE PopTemp
    BY <2>2, PopTempInv
  <2>3. CASE \E v \in Var : DeclareLocal(v)
    BY <2>3, DeclareLocalInv
  <2>4. CASE \E i \in 1 .. MaxStack : StoreVar(i) \/ LoadVar(i)
    BY <2>4, StoreVarInv, LoadVarInv
  <2>5. CASE \E c \in Closure, thunk \in BOOLEAN, us \in SUBSET Inherited : MakeClosure(c, thunk, us)
    BY <2>5, MakeClosureInv
  <2>6. CASE \E u \in Inherited : GetUpvalue(u)
    BY <2>6, GetUpvalueInv
  <2>7. CASE SwapResult
    BY <2>7, SwapResultInv
  <2>8. CASE CloseLocal
    BY <2>8, CloseLocalInv
  <2>9. CASE PopLocal
    BY <2>9, PopLocalInv
  <2>10. CASE \E k, n \in 0 .. MaxParams : \E params \in Injections(Unused, n) :
                 Call(k, params) \/ TailCall(k, params)
    <3>1. PICK k \in 0 .. MaxParams, n \in 0 .. MaxParams :
             \E params \in Injections(Unused, n) : Call(k, params) \/ TailCall(k, params)
      BY <2>10
    <3>2. PICK params \in Injections(Unused, n) : Call(k, params) \/ TailCall(k, params)
      BY <3>1
    <3>3. k \in Nat /\ n \in Nat
      BY BoundsAssumption
    <3> QED
      BY <3>2, <3>3, CallInv, TailCallInv
  <2>11. CASE Return
    BY <2>11, ReturnInv
  <2>12. CASE Import
    BY <2>12, ImportInv
  <2>13. CASE ScriptReturn
    BY <2>13, ScriptReturnInv
  <2> QED
    BY <1>2, <2>1, <2>2, <2>3, <2>4, <2>5, <2>6, <2>7, <2>8, <2>9, <2>10, <2>11, <2>12, <2>13
       DEF Next
<1> QED
  BY <1>1, <1>2

----------------------------------------------------------------------------
(* Theorems *)

\* The machines stay sound: frames are nested above one another, results are written back
\* below the frame that computes them, open lists are sorted and point to the slots of
\* their variables, and the values a machine holds belong to it.  Imported files make no
\* tailstrict call at their top level.
THEOREM UpvaluesInvariant == ASSUME ScriptTailCall = FALSE PROVE Spec => []IInv
<1>1. Init => IInv
  BY InitInv
<1>2. IInv /\ [Next]_vars => IInv'
  BY NextInv
<1> QED
  BY <1>1, <1>2, PTL DEF Spec

\* The state of the machines has its types: no frame, slot or upvalue is read that is not
\* there.
THEOREM UpvaluesTypeCorrect == ASSUME ScriptTailCall = FALSE PROVE Spec => []TypeOK
<1>1. IInv => TypeOK
  BY DEF IInv
<1> QED
  BY <1>1, UpvaluesInvariant, PTL

\* The list of open upvalues is sorted by slot whenever it is searched, so that the walks of
\* capture_upvalue and close_upvalues stop at the right place.
THEOREM OpenListIsSorted == ASSUME ScriptTailCall = FALSE PROVE Spec => []OpenListSorted
<1>1. IInv => OpenListSorted
  BY RunningFacts DEF OpenListSorted, OpenSound
<1> QED
  BY <1>1, UpvaluesInvariant, PTL

\* No variable ever has two upvalues: all closures that capture it share one.
THEOREM UpvaluesAreShared == ASSUME ScriptTailCall = FALSE PROVE Spec => []OneUpvaluePerVariable
<1>1. IInv => OneUpvaluePerVariable
  BY DEF IInv
<1> QED
  BY <1>1, UpvaluesInvariant, PTL

\* An open upvalue points to the slot of its variable on the stack of the machine that has it
\* in its list, also when that machine waits for an import.
THEOREM OpenUpvaluesStayOnTheirStack ==
    ASSUME ScriptTailCall = FALSE PROVE Spec => []OpenUpvaluesOnTheirStack
<1>1. ASSUME IInv PROVE OpenUpvaluesOnTheirStack
  <2> SUFFICES ASSUME NEW u \in DOMAIN upvalue, upvalue[u].loc # 0
               PROVE  \E m \in {[stack |-> stack, open |-> open]} \cup
                               {[stack |-> suspended[i].stack, open |-> suspended[i].open] :
                                   i \in 1 .. Len(suspended)} :
                         /\ \E i \in 1 .. Len(m.open) : m.open[i] = u
                         /\ upvalue[u].loc \in 1 .. Len(m.stack)
                         /\ m.stack[upvalue[u].loc].who = upvalue[u].of
    BY DEF OpenUpvaluesOnTheirStack
  <2> TypeOK
    BY <1>1 DEF IInv
  <2>1. PICK kl \in [DOMAIN env -> Levels], ul \in [DOMAIN upvalue -> Levels] : Owned(kl, ul)
    BY <1>1 DEF IInv, Ownership
  <2>2. PICK a \in Levels : a = ul[u]
    BY <2>1
  <2>3. PICK i \in 1 .. Len(Mach(a).open) : Mach(a).open[i] = u
    BY <2>1, <2>2 DEF Owned
  <2>4. OpenSound(Mach(a).stack, Mach(a).open, upvalue)
    BY <1>1 DEF IInv, MachinesSound, MachineSound
  <2>5. /\ upvalue[u].loc \in 1 .. Len(Mach(a).stack)
        /\ Mach(a).stack[upvalue[u].loc].who = upvalue[u].of
    BY <2>3, <2>4 DEF OpenSound
  <2>6. PICK m : m = [stack |-> Mach(a).stack, open |-> Mach(a).open]
    OBVIOUS
  <2>7. m.stack = Mach(a).stack /\ m.open = Mach(a).open
    BY <2>6
  <2>8. m \in {[stack |-> stack, open |-> open]} \cup
              {[stack |-> suspended[j].stack, open |-> suspended[j].open] : j \in 1 .. Len(suspended)}
    BY <2>6, MachFacts
  <2> QED
    BY <2>3, <2>5, <2>7, <2>8
<1> QED
  BY <1>1, UpvaluesInvariant, PTL

----------------------------------------------------------------------------
(***************************************************************************)
(* Upvalues implements Scopes: captured variables keep their values,       *)
(* whoever reads them and wherever they live by then.                      *)
(***************************************************************************)
(* The value of a variable: what its slot or its closed upvalue holds *)

HasSlot(v, x) ==
    \E a \in Levels : \E i \in 1 .. Len(Mach(a).stack) :
        Mach(a).stack[i].who = v /\ Mach(a).stack[i].val = x

HasCell(v, x) ==
    \E u \in DOMAIN upvalue : upvalue[u].of = v /\ upvalue[u].loc = 0 /\ upvalue[u].val = x

Has(v, x) == HasSlot(v, x) \/ HasCell(v, x)

\* A variable that has a value, or is declared, has it in one place, or in two that agree.
ValueExact ==
    \A v \in Var :
        /\ \A x : Has(v, x) => ValueOf(v) = x /\ x \in Value \cup {Unset}
        /\ (\A x : ~Has(v, x)) => ValueOf(v) = Gone

Captured == {c.of : c \in Cells}

LEMMA GoneFacts == \A x \in Value \cup {Unset} : x # Gone
BY MarkersAssumption DEF Value, Gone

LEMMA SlotsFacts ==
    ASSUME TypeOK
    PROVE  /\ \A s \in AllSlots : \E a \in Levels : \E i \in 1 .. Len(Mach(a).stack) : s = Mach(a).stack[i]
           /\ \A a \in Levels : \A i \in 1 .. Len(Mach(a).stack) : Mach(a).stack[i] \in AllSlots
<1>1. ASSUME NEW s \in AllSlots
      PROVE  \E a \in Levels : \E i \in 1 .. Len(Mach(a).stack) : s = Mach(a).stack[i]
  <2>1. CASE s \in Slots(stack)
    <3>1. PICK i \in 1 .. Len(stack) : s = stack[i]
      BY <2>1 DEF Slots
    <3> QED
      BY <3>1, MachFacts
  <2>2. CASE s \in UNION {Slots(suspended[m].stack) : m \in 1 .. Len(suspended)}
    <3>1. PICK m \in 1 .. Len(suspended) : s \in Slots(suspended[m].stack)
      BY <2>2
    <3>2. PICK i \in 1 .. Len(suspended[m].stack) : s = suspended[m].stack[i]
      BY <3>1 DEF Slots
    <3>3. m \in Levels /\ m # Level
      BY MachFacts DEF Levels
    <3>4. Mach(m) = suspended[m]
      BY <3>3, MachFacts
    <3> QED
      BY <3>2, <3>3, <3>4
  <2> QED
    BY <1>1, <2>1, <2>2 DEF AllSlots
<1>2. ASSUME NEW a \in Levels, NEW i \in 1 .. Len(Mach(a).stack)
      PROVE  Mach(a).stack[i] \in AllSlots
  <2>1. CASE a = Level
    <3>1. Mach(a).stack = stack
      BY <2>1, MachFacts
    <3>2. stack[i] \in Slots(stack)
      BY <3>1 DEF Slots
    <3> QED
      BY <3>1, <3>2 DEF AllSlots
  <2>2. CASE a # Level
    <3>1. a \in 1 .. Len(suspended) /\ Mach(a) = suspended[a]
      BY <2>2, MachFacts
    <3>2. suspended[a].stack[i] \in Slots(suspended[a].stack)
      BY <3>1 DEF Slots
    <3>3. Slots(suspended[a].stack) \in {Slots(suspended[m].stack) : m \in 1 .. Len(suspended)}
      BY <3>1
    <3> QED
      BY <3>1, <3>2, <3>3 DEF AllSlots
  <2> QED
    BY <2>1, <2>2
<1> QED
  BY <1>1, <1>2

LEMMA ValueFacts == IInv => ValueExact
<1> SUFFICES ASSUME IInv, NEW v \in Var
             PROVE  /\ \A x : Has(v, x) => ValueOf(v) = x /\ x \in Value \cup {Unset}
                    /\ (\A x : ~Has(v, x)) => ValueOf(v) = Gone
  BY DEF ValueExact
<1> TypeOK
  BY DEF IInv
<1>1. v # Nobody
  BY MarkersAssumption
\* one value
<1>2. ASSUME NEW a \in Levels, NEW i \in 1 .. Len(Mach(a).stack), Mach(a).stack[i].who = v,
             NEW x, Has(v, x)
      PROVE  Mach(a).stack[i].val = x
  <2>1. CASE HasSlot(v, x)
    BY <1>1, <1>2, <2>1 DEF HasSlot, IInv, OneSlotPerVariable
  <2>2. CASE HasCell(v, x)
    <3>1. PICK u \in DOMAIN upvalue : upvalue[u].of = v /\ upvalue[u].loc = 0 /\ upvalue[u].val = x
      BY <2>2 DEF HasCell
    <3>2. a = Level /\ x = stack[i].val
      BY <1>2, <3>1 DEF IInv, ClosedLeft
    <3> QED
      BY <3>2, MachFacts
  <2> QED
    BY <1>2, <2>1, <2>2 DEF Has
<1>3. ASSUME NEW u \in DOMAIN upvalue, upvalue[u].of = v, upvalue[u].loc = 0, Holding(v) = {},
             NEW x, Has(v, x)
      PROVE  upvalue[u].val = x
  <2>1. ~HasSlot(v, x)
    BY <1>3, SlotsFacts DEF HasSlot, Holding
  <2> QED
    BY <1>3, <2>1 DEF Has, HasCell, IInv, OneUpvaluePerVariable
<1>4. ASSUME NEW x, Has(v, x) PROVE x \in Value \cup {Unset}
  <2>1. CASE HasSlot(v, x)
    BY <2>1, MachFacts, MachineFacts DEF HasSlot
  <2>2. CASE HasCell(v, x)
    BY <2>2, CellFacts DEF HasCell
  <2> QED
    BY <1>4, <2>1, <2>2 DEF Has
\* where it is found
<1>5. ASSUME Holding(v) # {} PROVE (\E x : Has(v, x)) /\ \A x : Has(v, x) => ValueOf(v) = x
  <2>1. PICK s : s = CHOOSE t \in Holding(v) : TRUE
    OBVIOUS
  <2>2. s \in Holding(v) /\ ValueOf(v) = s.val
    BY <1>5, <2>1 DEF ValueOf
  <2>3. s \in AllSlots /\ s.who = v
    BY <2>2 DEF Holding
  <2>4. PICK a \in Levels : \E i \in 1 .. Len(Mach(a).stack) : s = Mach(a).stack[i]
    BY <2>3, SlotsFacts
  <2>5. PICK i \in 1 .. Len(Mach(a).stack) : s = Mach(a).stack[i]
    BY <2>4
  <2>6. Has(v, s.val)
    BY <2>3, <2>5 DEF Has, HasSlot
  <2> QED
    BY <1>2, <2>2, <2>3, <2>5, <2>6
<1>6. ASSUME Holding(v) = {}, ClosedOver(v) # {}
      PROVE  (\E x : Has(v, x)) /\ \A x : Has(v, x) => ValueOf(v) = x
  <2>1. PICK c : c = CHOOSE d \in ClosedOver(v) : TRUE
    OBVIOUS
  <2>2. c \in ClosedOver(v) /\ ValueOf(v) = c.val
    BY <1>6, <2>1 DEF ValueOf
  <2>3. PICK u \in DOMAIN upvalue : c = upvalue[u] /\ upvalue[u].of = v /\ upvalue[u].loc = 0
    BY <2>2 DEF ClosedOver, Cells
  <2>4. Has(v, c.val)
    BY <2>3 DEF Has, HasCell
  <2> QED
    BY <1>3, <1>6, <2>2, <2>3, <2>4
<1>7. ASSUME Holding(v) = {}, ClosedOver(v) = {}
      PROVE  ValueOf(v) = Gone /\ \A x : ~Has(v, x)
  <2>1. ValueOf(v) = Gone
    BY <1>7 DEF ValueOf
  <2>2. \A x : ~HasSlot(v, x)
    BY <1>7, SlotsFacts DEF HasSlot, Holding
  <2>3. \A x : ~HasCell(v, x)
    BY <1>7 DEF HasCell, ClosedOver, Cells
  <2> QED
    BY <2>1, <2>2, <2>3 DEF Has
<1> QED
  BY <1>4, <1>5, <1>6, <1>7

LEMMA ValueFactsNext == IInv' => ValueExact'
BY ValueFacts, PTL

\* What keeps its places keeps its value
LEMMA KeepsValue ==
    ASSUME IInv, IInv', NEW v \in Var, \A x : Has(v, x) => Has(v, x)',
           \A x : Has(v, x)' => \E y : Has(v, y)
    PROVE  ValueOf(v)' = ValueOf(v)
<1>1. ValueExact /\ ValueExact'
  BY ValueFacts, ValueFactsNext
<1>2. CASE \E x : Has(v, x)
  BY <1>1, <1>2 DEF ValueExact
<1>3. CASE \A x : ~Has(v, x)
  BY <1>1, <1>3 DEF ValueExact
<1> QED
  BY <1>2, <1>3

\* Slots of the machines that wait
LEMMA SlotsOfSteps ==
    ASSUME TypeOK, suspended' = suspended, NEW v, NEW x
    PROVE  /\ HasSlot(v, x) <=>
                 \/ \E i \in 1 .. Len(stack) : stack[i].who = v /\ stack[i].val = x
                 \/ \E a \in Levels : \E i \in 1 .. Len(Mach(a).stack) :
                       a # Level /\ Mach(a).stack[i].who = v /\ Mach(a).stack[i].val = x
           /\ HasSlot(v, x)' <=>
                 \/ \E i \in 1 .. Len(stack') : stack'[i].who = v /\ stack'[i].val = x
                 \/ \E a \in Levels : \E i \in 1 .. Len(Mach(a).stack) :
                       a # Level /\ Mach(a).stack[i].who = v /\ Mach(a).stack[i].val = x
<1>1. /\ Level \in Levels /\ Mach(Level).stack = stack
  BY MachFacts
<1>2. /\ Level' = Level /\ Levels' = Levels
      /\ \A a \in Levels : a = Level => Mach(a)'.stack = stack'
      /\ \A a \in Levels : a # Level => Mach(a)' = Mach(a)
  BY MachNext
<1>3. HasSlot(v, x) <=>
         \/ \E i \in 1 .. Len(stack) : stack[i].who = v /\ stack[i].val = x
         \/ \E a \in Levels : \E i \in 1 .. Len(Mach(a).stack) :
               a # Level /\ Mach(a).stack[i].who = v /\ Mach(a).stack[i].val = x
  BY <1>1 DEF HasSlot
<1>4. HasSlot(v, x)' <=>
         \/ \E i \in 1 .. Len(stack') : stack'[i].who = v /\ stack'[i].val = x
         \/ \E a \in Levels : \E i \in 1 .. Len(Mach(a).stack) :
               a # Level /\ Mach(a).stack[i].who = v /\ Mach(a).stack[i].val = x
  BY <1>1, <1>2 DEF HasSlot
<1> QED
  BY <1>3, <1>4

LEMMA CapturedFacts ==
    /\ \A v : v \in Captured <=> \E u \in DOMAIN upvalue : upvalue[u].of = v
    /\ \A v : v \in Captured' <=> \E u \in DOMAIN upvalue' : upvalue'[u].of = v
BY DEF Captured, Cells

\* An upvalue of a variable on the running stack points there, unless it has just been closed.
LEMMA CellOfSlot ==
    ASSUME IInv, NEW u \in DOMAIN upvalue, NEW i \in 1 .. Len(stack), upvalue[u].of = stack[i].who
    PROVE  \/ /\ upvalue[u].loc = 0 /\ upvalue[u].val = stack[i].val
              /\ phase = "closed" /\ i = Len(stack)
           \/ upvalue[u].loc = i /\ u \in Slots(open)
<1> TypeOK
  BY DEF IInv
<1>1. /\ Level \in Levels /\ Mach(Level).stack = stack /\ Mach(Level).open = open
  BY MachFacts
<1>2. CASE upvalue[u].loc = 0
  BY <1>1, <1>2 DEF IInv, ClosedLeft
<1>3. CASE upvalue[u].loc # 0
  <2>1. PICK kl \in [DOMAIN env -> Levels], ul \in [DOMAIN upvalue -> Levels] : Owned(kl, ul)
    BY DEF IInv, Ownership
  <2>2. PICK a \in Levels : a = ul[u]
    BY <2>1
  <2>3. PICK j \in 1 .. Len(Mach(a).open) : Mach(a).open[j] = u
    BY <1>3, <2>1, <2>2 DEF Owned
  <2>4. OpenSound(Mach(a).stack, Mach(a).open, upvalue)
    BY DEF IInv, MachinesSound, MachineSound
  <2>5. /\ upvalue[u].loc \in 1 .. Len(Mach(a).stack)
        /\ Mach(a).stack[upvalue[u].loc].who = upvalue[u].of
    BY <2>3, <2>4 DEF OpenSound
  <2>6. upvalue[u].of # Nobody
    BY CellFacts
  <2>7. a = Level /\ upvalue[u].loc = i
    BY <1>1, <2>5, <2>6 DEF IInv, OneSlotPerVariable
  <2> QED
    BY <1>1, <2>3, <2>7 DEF Slots
<1> QED
  BY <1>2, <1>3

----------------------------------------------------------------------------
(* Steps above p: what is in the slots above is replaced, and their upvalues are closed *)

Leaving(p) == {stack[i].who : i \in p + 1 .. Len(stack)} \ {Nobody}

Entering(p) == {stack'[i].who : i \in p + 1 .. Len(stack')} \ {Nobody}

\* nothing is written back to the variable
Untouched(p, v) ==
    /\ \A i \in 1 .. p : stack[i].who = v => stack'[i].val = stack[i].val
    /\ \A u \in DOMAIN upvalue :
          upvalue[u].of = v /\ u \notin Closing(p + 1) => upvalue'[u].val = upvalue[u].val

LEMMA PrefixFacts ==
    ASSUME IInv, NEW p, Prefix(p), Closes(p)
    PROVE  /\ p \in Nat /\ p <= Len(stack) /\ p <= Len(stack') /\ Len(stack) \in Nat /\ Len(stack') \in Nat
           /\ \A i \in 1 .. p : /\ i \in 1 .. Len(stack) /\ i \in 1 .. Len(stack')
                                /\ stack'[i].who = stack[i].who
           /\ \A i \in 1 .. Len(stack) : i \in 1 .. p \/ i \in p + 1 .. Len(stack)
           /\ \A i \in 1 .. Len(stack') : i \in 1 .. p \/ i \in p + 1 .. Len(stack')
           /\ \A i \in p + 1 .. Len(stack) : i \in 1 .. Len(stack) /\ i \notin 1 .. p
           /\ \A i \in p + 1 .. Len(stack') : i \in 1 .. Len(stack') /\ i \notin 1 .. p
           /\ \A i \in p + 1 .. Len(stack') : stack'[i].who = Nobody \/ stack'[i].who \in Unused
           /\ \A u : u \in Closing(p + 1) <=> u \in Slots(open) /\ upvalue[u].loc > p
           /\ \A u \in Slots(open) :
                 /\ u \in DOMAIN upvalue /\ upvalue[u].loc \in 1 .. Len(stack)
                 /\ stack[upvalue[u].loc].who = upvalue[u].of
<1>1. Len(stack) \in Nat
  BY RunningFacts
<1>2. /\ p \in Nat /\ p <= Len(stack) /\ p <= Len(stack') /\ stack' \in Seq(Slot) /\ Len(stack') \in Nat
  BY <1>1 DEF Prefix
<1>3. \A u : u \in Closing(p + 1) <=> u \in Slots(open) /\ upvalue[u].loc > p
  <2>1. p + 1 \in Nat /\ p + 1 > 0
    BY <1>2
  <2>2. /\ \A u : u \in Closing(p + 1) <=> u \in Slots(open) /\ upvalue[u].loc >= p + 1
        /\ \A u \in Slots(open) : u \in DOMAIN upvalue /\ upvalue[u].loc \in 1 .. Len(stack)
    BY <2>1, CloseFacts
  <2> QED
    BY <1>2, <2>2
<1>4. \A u \in Slots(open) :
         /\ u \in DOMAIN upvalue /\ upvalue[u].loc \in 1 .. Len(stack)
         /\ stack[upvalue[u].loc].who = upvalue[u].of
  BY RunningFacts DEF Slots, OpenSound
<1>5. /\ \A i \in 1 .. p : stack'[i].who = stack[i].who
      /\ \A i \in p + 1 .. Len(stack') : stack'[i].who = Nobody \/ stack'[i].who \in Unused
  BY DEF Prefix
<1>6. /\ \A i \in 1 .. p : i \in 1 .. Len(stack) /\ i \in 1 .. Len(stack')
      /\ \A i \in 1 .. Len(stack) : i \in 1 .. p \/ i \in p + 1 .. Len(stack)
      /\ \A i \in 1 .. Len(stack') : i \in 1 .. p \/ i \in p + 1 .. Len(stack')
      /\ \A i \in p + 1 .. Len(stack) : i \in 1 .. Len(stack) /\ i \notin 1 .. p
      /\ \A i \in p + 1 .. Len(stack') : i \in 1 .. Len(stack') /\ i \notin 1 .. p
  BY <1>1, <1>2
<1> QED
  BY <1>1, <1>2, <1>3, <1>4, <1>5, <1>6

\* Variables that come into scope have no value before, but one after.
LEMMA EnteringFacts ==
    ASSUME IInv, IInv', suspended' = suspended, NEW p, Prefix(p), Closes(p), NEW v \in Entering(p)
    PROVE  /\ v \in Var /\ ValueOf(v) = Gone /\ ValueOf(v)' \in Value \cup {Unset}
           /\ \A x : ~Has(v, x)
           /\ \A i \in p + 1 .. Len(stack') : stack'[i].who = v => ValueOf(v)' = stack'[i].val
<1>1. PICK i \in p + 1 .. Len(stack') : stack'[i].who = v /\ v # Nobody
  BY DEF Entering
<1>2. v \in Unused
  BY <1>1, PrefixFacts
<1>3. /\ v \in Var /\ \A u \in DOMAIN upvalue : upvalue[u].of # v
      /\ \A a \in Levels : \A j \in 1 .. Len(Mach(a).stack) : Mach(a).stack[j].who # v
  BY <1>2, UnusedFacts
<1>4. \A x : ~Has(v, x)
  BY <1>3 DEF Has, HasSlot, HasCell
<1>5. ASSUME NEW j \in p + 1 .. Len(stack'), stack'[j].who = v, NEW x, x = stack'[j].val
      PROVE  Has(v, x)'
  <2>1. j \in 1 .. Len(stack')
    BY PrefixFacts
  <2>2. HasSlot(v, x)'
    <3>1. Level \in Levels /\ Level' = Level /\ Levels' = Levels
      BY MachFacts, MachNext DEF IInv
    <3>2. \A a \in Levels : a = Level => Mach(a)'.stack = stack'
      BY MachNext DEF IInv
    <3> QED
      BY <1>5, <2>1, <3>1, <3>2 DEF HasSlot
  <2> QED
    BY <2>2 DEF Has
<1>6. ValueExact /\ ValueExact'
  BY ValueFacts, ValueFactsNext
<1>7. ValueOf(v) = Gone
  BY <1>3, <1>4, <1>6 DEF ValueExact
<1>8. \A j \in p + 1 .. Len(stack') : stack'[j].who = v =>
         ValueOf(v)' = stack'[j].val /\ stack'[j].val \in Value \cup {Unset}
  BY <1>3, <1>5, <1>6 DEF ValueExact
<1> QED
  BY <1>1, <1>3, <1>4, <1>7, <1>8

\* Variables that leave had a value; if nobody has captured them, they have none after.
LEMMA LeavingFacts ==
    ASSUME IInv, IInv', suspended' = suspended, NEW p, Prefix(p), Closes(p), NEW v \in Leaving(p)
    PROVE  /\ v \in Var /\ ValueOf(v) # Gone /\ v \notin Entering(p)
           /\ \A j \in 1 .. p : stack[j].who # v
           /\ v \notin Captured => ValueOf(v)' = Gone
<1> TypeOK
  BY DEF IInv
<1>1. PICK i \in p + 1 .. Len(stack) : stack[i].who = v /\ v # Nobody
  BY DEF Leaving
<1>2. i \in 1 .. Len(stack) /\ i \notin 1 .. p
  BY PrefixFacts
<1>3. v \in Var
  BY <1>1, <1>2, RunningFacts
<1>4. /\ Level \in Levels /\ Mach(Level).stack = stack
  BY MachFacts
<1>5. Has(v, stack[i].val)
  BY <1>1, <1>2, <1>4 DEF Has, HasSlot
<1>6. ValueExact /\ ValueExact'
  BY ValueFacts, ValueFactsNext
<1>7. ValueOf(v) # Gone
  <2>1. ValueOf(v) = stack[i].val /\ stack[i].val \in Value \cup {Unset}
    BY <1>3, <1>5, <1>6 DEF ValueExact
  <2> QED
    BY <2>1, GoneFacts
<1>8. v \notin Entering(p)
  BY <1>7, EnteringFacts
<1>9. ASSUME NEW a \in Levels, NEW j \in 1 .. Len(Mach(a).stack), Mach(a).stack[j].who = v
      PROVE  a = Level /\ j = i
  BY <1>1, <1>2, <1>4, <1>9 DEF IInv, OneSlotPerVariable
<1>10. ASSUME NEW j \in 1 .. p PROVE stack[j].who # v
  <2>1. j \in 1 .. Len(stack) /\ j # i
    BY <1>2, PrefixFacts
  <2> QED
    BY <1>4, <1>9, <2>1
<1>11. ASSUME v \notin Captured PROVE ValueOf(v)' = Gone
  <2>1. ASSUME NEW x PROVE ~HasSlot(v, x)'
    <3>1. ASSUME NEW j \in 1 .. Len(stack') PROVE stack'[j].who # v
      <4>1. CASE j \in 1 .. p
        BY <1>10, <4>1, PrefixFacts
      <4>2. CASE j \in p + 1 .. Len(stack')
        BY <1>1, <1>8, <4>2 DEF Entering
      <4> QED
        BY <4>1, <4>2, PrefixFacts
    <3> QED
      BY <1>9, <3>1, SlotsOfSteps
  <2>2. ASSUME NEW x PROVE ~HasCell(v, x)'
    <3>1. \A u \in DOMAIN upvalue' : upvalue'[u].of # v
      BY <1>11, CapturedFacts DEF Closes
    <3> QED
      BY <3>1 DEF HasCell
  <2>3. \A x : ~Has(v, x)'
    BY <2>1, <2>2 DEF Has
  <2> QED
    BY <1>3, <1>6, <2>3 DEF ValueExact
<1> QED
  BY <1>3, <1>7, <1>8, <1>10, <1>11

\* The others stay, in their slots or in the upvalues that are closed now.
LEMMA StayingFacts ==
    ASSUME IInv, IInv', suspended' = suspended, NEW p, Prefix(p), Closes(p),
           NEW v \in Var, v \notin Entering(p), v \notin Leaving(p) \/ v \in Captured, Untouched(p, v)
    PROVE  ValueOf(v)' = ValueOf(v)
<1> TypeOK
  BY DEF IInv
<1>1. v # Nobody
  BY MarkersAssumption
<1>2. /\ Level \in Levels /\ Mach(Level).stack = stack
  BY MachFacts
<1>3. ASSUME NEW u \in DOMAIN upvalue, upvalue[u].loc = 0
      PROVE  /\ u \in DOMAIN upvalue' /\ upvalue'[u].loc = 0 /\ upvalue'[u].of = upvalue[u].of
             /\ u \notin Closing(p + 1)
  <2>1. u \notin Closing(p + 1)
    BY <1>3, PrefixFacts
  <2> QED
    BY <1>3, <2>1 DEF Closes
<1>4. ASSUME NEW x, Has(v, x) PROVE Has(v, x)'
  <2>1. CASE HasCell(v, x)
    <3>1. PICK u \in DOMAIN upvalue : upvalue[u].of = v /\ upvalue[u].loc = 0 /\ upvalue[u].val = x
      BY <2>1 DEF HasCell
    <3>2. /\ u \in DOMAIN upvalue' /\ upvalue'[u].loc = 0 /\ upvalue'[u].of = v
          /\ upvalue'[u].val = x
      BY <1>3, <3>1 DEF Untouched
    <3>3. HasCell(v, x)'
      BY <3>2 DEF HasCell
    <3> QED
      BY <3>3 DEF Has
  <2>2. CASE \E a \in Levels : \E i \in 1 .. Len(Mach(a).stack) :
                a # Level /\ Mach(a).stack[i].who = v /\ Mach(a).stack[i].val = x
    BY <2>2, SlotsOfSteps DEF Has
  <2>3. CASE \E i \in 1 .. Len(stack) : stack[i].who = v /\ stack[i].val = x
    <3>1. PICK i \in 1 .. Len(stack) : stack[i].who = v /\ stack[i].val = x
      BY <2>3
    <3>2. CASE i \in 1 .. p
      <4>1. i \in 1 .. Len(stack') /\ stack'[i].who = v /\ stack'[i].val = x
        BY <3>1, <3>2, PrefixFacts DEF Untouched
      <4>2. HasSlot(v, x)'
        BY <4>1, SlotsOfSteps
      <4> QED
        BY <4>2 DEF Has
    <3>3. CASE i \in p + 1 .. Len(stack)
      <4>1. v \in Leaving(p)
        BY <1>1, <3>1, <3>3 DEF Leaving
      <4>2. PICK u \in DOMAIN upvalue : upvalue[u].of = v
        BY <4>1, CapturedFacts
      <4>3. CASE upvalue[u].loc = 0 /\ upvalue[u].val = stack[i].val
        <5>1. HasCell(v, x)
          BY <3>1, <4>2, <4>3 DEF HasCell
        <5> QED
          BY <2>1, <5>1
      <4>4. CASE upvalue[u].loc = i /\ u \in Slots(open)
        <5>1. i > p
          BY <3>3, PrefixFacts
        <5>2. u \in Closing(p + 1)
          BY <4>4, <5>1, PrefixFacts
        <5>3. /\ u \in DOMAIN upvalue' /\ upvalue'[u].of = v
              /\ upvalue'[u].loc = 0 /\ upvalue'[u].val = x
          BY <3>1, <4>2, <4>4, <5>2 DEF Closes
        <5>4. HasCell(v, x)'
          BY <5>3 DEF HasCell
        <5> QED
          BY <5>4 DEF Has
      <4> QED
        BY <3>1, <4>2, <4>3, <4>4, CellOfSlot
    <3> QED
      BY <3>2, <3>3, PrefixFacts
  <2> QED
    BY <1>4, <2>1, <2>2, <2>3, SlotsOfSteps DEF Has
<1>5. ASSUME NEW x, Has(v, x)' PROVE \E y : Has(v, y)
  <2>1. CASE HasCell(v, x)'
    <3>1. PICK u \in DOMAIN upvalue' : upvalue'[u].of = v /\ upvalue'[u].loc = 0
      BY <2>1 DEF HasCell
    <3>2. u \in DOMAIN upvalue /\ upvalue[u].of = v
      BY <3>1 DEF Closes
    <3>3. CASE upvalue[u].loc = 0
      <4>1. HasCell(v, upvalue[u].val)
        BY <3>2, <3>3 DEF HasCell
      <4> QED
        BY <4>1 DEF Has
    <3>4. CASE upvalue[u].loc # 0
      <4>1. u \in Closing(p + 1)
        BY <3>1, <3>2, <3>4 DEF Closes
      <4>2. upvalue[u].loc \in 1 .. Len(stack) /\ stack[upvalue[u].loc].who = v
        BY <3>2, <4>1, PrefixFacts
      <4>3. Has(v, stack[upvalue[u].loc].val)
        BY <1>2, <4>2 DEF Has, HasSlot
      <4> QED
        BY <4>3
    <3> QED
      BY <3>3, <3>4
  <2>2. CASE \E a \in Levels : \E i \in 1 .. Len(Mach(a).stack) :
                a # Level /\ Mach(a).stack[i].who = v /\ Mach(a).stack[i].val = x
    BY <2>2, SlotsOfSteps DEF Has
  <2>3. CASE \E i \in 1 .. Len(stack') : stack'[i].who = v /\ stack'[i].val = x
    <3>1. PICK i \in 1 .. Len(stack') : stack'[i].who = v
      BY <2>3
    <3>2. i \notin p + 1 .. Len(stack')
      BY <1>1, <3>1 DEF Entering
    <3>3. i \in 1 .. Len(stack) /\ stack[i].who = v
      BY <3>1, <3>2, PrefixFacts
    <3>4. Has(v, stack[i].val)
      BY <1>2, <3>3 DEF Has, HasSlot
    <3> QED
      BY <3>4
  <2> QED
    BY <1>5, <2>1, <2>2, <2>3, SlotsOfSteps DEF Has
<1> QED
  BY <1>4, <1>5, KeepsValue

----------------------------------------------------------------------------
(* Steps of the machine as steps of Scopes *)

LEMMA SameStep ==
    ASSUME UNCHANGED <<forcing, seen>>, Captured' = Captured, \A v \in Var : ValueOf(v)' = ValueOf(v)
    PROVE  UNCHANGED Program!vars
<1>1. {c.of : c \in Cells}' = {c.of : c \in Cells}
  BY DEF Captured
<1>2. [v \in Var |-> ValueOf(v)]' = [v \in Var |-> ValueOf(v)]
  OBVIOUS
<1> QED
  BY <1>1, <1>2 DEF Program!vars

LEMMA CapturedStays ==
    ASSUME NEW p, Closes(p)
    PROVE  Captured' = Captured
<1>1. \A v : v \in Captured' <=> v \in Captured
  BY CapturedFacts DEF Closes
<1> QED
  BY <1>1

\* Variables come into scope and leave it.
LEMMA EnterLeaveStep ==
    ASSUME IInv, IInv', suspended' = suspended, UNCHANGED <<forcing, seen>>,
           NEW p, Prefix(p), Closes(p),
           \A v \in Var : v \notin Leaving(p) \/ v \in Captured => Untouched(p, v)
    PROVE  Program!Next
<1>1. Captured' = Captured
  BY CapturedStays
<1>2. {c.of : c \in Cells}' = {c.of : c \in Cells}
  BY <1>1 DEF Captured
<1>3. PICK V, W : V = Entering(p) /\ W = Leaving(p)
  OBVIOUS
<1>4. \A v \in V : v \in Var /\ ValueOf(v) = Gone /\ ValueOf(v)' \in Value \cup {Unset}
  BY <1>3, EnteringFacts
<1>5. \A v \in W : v \in Var /\ ValueOf(v) # Gone /\ v \notin V /\ (v \notin Captured => ValueOf(v)' = Gone)
  BY <1>3, LeavingFacts
<1>6. \A v \in Var : v \notin V /\ ~(v \in W \ Captured) => ValueOf(v)' = ValueOf(v)
  BY <1>3, StayingFacts
<1>7. Program!EnterLeave(V, W)
  <2>1. \A v \in V : [u \in Var |-> ValueOf(u)][v] = Gone /\ [u \in Var |-> ValueOf(u)'][v] \in Value \cup {Unset}
    BY <1>4
  <2>2. \A v \in Var : Program!AfterLeaving(W)[v] = IF v \in W \ Captured THEN Gone ELSE ValueOf(v)
    BY DEF Program!AfterLeaving, Captured
  <2>3. ASSUME NEW v \in Var
        PROVE  ValueOf(v)' = IF v \in V THEN ValueOf(v)' ELSE Program!AfterLeaving(W)[v]
    BY <1>5, <1>6, <2>2
  <2>4. [u \in Var |-> ValueOf(u)'] =
            [v \in Var |-> IF v \in V THEN [u \in Var |-> ValueOf(u)'][v] ELSE Program!AfterLeaving(W)[v]]
    BY <2>3
  <2> QED
    BY <1>2, <2>1, <2>4 DEF Program!EnterLeave
<1>8. V \in SUBSET {v \in Var : [u \in Var |-> ValueOf(u)][v] = Gone}
  BY <1>4
<1>9. W \in SUBSET {v \in Var : [u \in Var |-> ValueOf(u)][v] # Gone}
  BY <1>5
<1> QED
  BY <1>7, <1>8, <1>9 DEF Program!Next

\* The same, when upvalues stay as they are
LEMMA QuietStepMaps ==
    ASSUME IInv, IInv', UNCHANGED <<suspended, open, upvalue, forcing, seen>>,
           NEW p, Prefix(p), \A i \in 1 .. p : stack'[i] = stack[i],
           \A i \in p + 1 .. Len(stack) :
               \/ stack[i].who = Nobody
               \/ \A j \in 1 .. Len(open) : upvalue[open[j]].loc # i
    PROVE  Program!Next
<1>1. Closes(p)
  <2>1. p \in 0 .. Len(stack)
    BY DEF Prefix
  <2> QED
    BY <2>1, NothingCloses
<1>2. \A v \in Var : Untouched(p, v)
  BY DEF Untouched
<1> QED
  BY <1>1, <1>2, EnterLeaveStep

LEMMA PushConstMaps == ASSUME IInv, IInv', NEW x \in Plain, PushConst(x) PROVE Program!Next
<1>1. Temp(x) \in Slot /\ Temp(x).val = x /\ Temp(x).who = Nobody /\ x \in Value
  BY TempFacts DEF Value
<1>2. /\ Prefix(Len(stack))
      /\ \A i \in 1 .. Len(stack) : stack'[i] = stack[i]
      /\ \A i \in Len(stack) + 1 .. Len(stack) : FALSE
  BY <1>1, PushFacts DEF PushConst, Push
<1> QED
  BY <1>2, QuietStepMaps DEF PushConst, heapVars

LEMMA DeclareLocalMaps == ASSUME IInv, IInv', NEW v \in Var, DeclareLocal(v) PROVE Program!Next
<1> DEFINE s == [val |-> Unset, who |-> v]
<1>1. s \in Slot /\ s.val = Unset /\ s.who = v /\ v # Nobody /\ v \in Unused
  BY UnusedFacts DEF DeclareLocal, Slot
<1> HIDE DEF s
<1>2. /\ Prefix(Len(stack))
      /\ \A i \in 1 .. Len(stack) : stack'[i] = stack[i]
      /\ \A i \in Len(stack) + 1 .. Len(stack) : FALSE
  BY <1>1, PushFacts DEF DeclareLocal, s
<1> QED
  BY <1>2, QuietStepMaps DEF DeclareLocal, heapVars

\* The top leaves.
LEMMA DropMaps ==
    ASSUME IInv, IInv', UNCHANGED <<suspended, open, upvalue, forcing, seen>>,
           Len(stack) > 0, Len(stack) >= Above, stack' = Front(stack),
           \/ stack[Len(stack)].who = Nobody
           \/ \A j \in 1 .. Len(open) : upvalue[open[j]].loc # Len(stack)
    PROVE  Program!Next
<1>1. stack \in Seq(Slot) /\ Len(stack) \in Nat
  BY RunningFacts
<1>2. /\ stack' \in Seq(Slot) /\ Len(stack') = Len(stack) - 1
      /\ \A i \in 1 .. Len(stack) - 1 : stack'[i] = stack[i]
  BY <1>1, FrontFacts
<1>3. /\ Prefix(Len(stack) - 1)
      /\ \A i \in (Len(stack) - 1) + 1 .. Len(stack) : i = Len(stack)
  BY <1>1, <1>2, DropFacts
<1> QED
  BY <1>2, <1>3, QuietStepMaps

LEMMA PopTempMaps == ASSUME IInv, IInv', PopTemp PROVE Program!Next
<1>1. Len(stack) \in Nat /\ Len(stack) > 0
  BY RunningFacts, EmptySeq DEF PopTemp
<1>2. Len(stack) >= Above /\ stack[Len(stack)].who = Nobody
  BY DEF PopTemp, Temporary
<1> QED
  BY <1>1, <1>2, DropMaps DEF PopTemp, heapVars

LEMMA PopLocalMaps == ASSUME IInv, IInv', PopLocal PROVE Program!Next
<1>1. /\ Len(stack) \in Nat /\ Len(stack) > Above /\ Above \in Nat
      /\ phase = "closed" => \A i \in 1 .. Len(open) : upvalue[open[i]].loc # Len(stack)
  BY RunningFacts DEF PopLocal, IInv, PhaseSound
<1>2. \A j \in 1 .. Len(open) : upvalue[open[j]].loc # Len(stack)
  <2>1. CASE phase = "closed"
    BY <1>1, <2>1
  <2>2. CASE \A u \in DOMAIN upvalue : upvalue[u].of # Top.who
    BY <2>2, RunningFacts DEF OpenSound, Top
  <2> QED
    BY <2>1, <2>2 DEF PopLocal
<1>3. Len(stack) > 0 /\ Len(stack) >= Above
  BY <1>1
<1> QED
  BY <1>2, <1>3, DropMaps DEF PopLocal, heapVars

\* Calls: parameters come into scope.
LEMMA CallMaps ==
    ASSUME IInv, IInv', NEW k \in Nat, NEW n \in Nat, NEW params \in Injections(Unused, n), Call(k, params)
    PROVE  Program!Next
<1> DEFINE b == Len(stack) - k
           p == b - 1
<1>1. /\ Callable(k) /\ k <= Len(params)
      /\ stack' = SubSeq(stack, 1, b - 1) \o Activation(k, params)
      /\ UNCHANGED <<open, suspended, upvalue, forcing, seen>>
  BY DEF Call, heapVars
<1>2. /\ Len(stack) \in Nat /\ Current.base \in Nat /\ Current.base > 0 /\ Current.fixed \in Nat
      /\ Above = Current.base + Current.fixed /\ Len(stack) > k
      /\ \A i \in b .. Len(stack) : i >= Above /\ stack[i].who = Nobody
  BY <1>1, RunningFacts DEF Callable, Temporary
<1>3. b \in Nat /\ b > 0 /\ Current.base <= b /\ b <= Len(stack) /\ p \in Nat /\ p + 1 = b
  <2>1. b \in Nat /\ b > 0 /\ b <= Len(stack) /\ b \in b .. Len(stack)
    BY <1>2
  <2>2. b >= Current.base + Current.fixed
    BY <1>2, <2>1
  <2> QED
    BY <1>2, <2>1, <2>2
<1>4. Prefix(p) /\ \A i \in 1 .. p : stack'[i] = stack[i]
  <2>1. p \in Nat /\ Current.base <= p + 1 /\ p < Len(stack)
    BY <1>2, <1>3
  <2>2. /\ stack' = SubSeq(stack, 1, p) \o Activation(k, params)
        /\ Callable(k) /\ k <= Len(params)
    BY <1>1
  <2> HIDE DEF p
  <2>3. Prefix(p)
    BY <2>1, <2>2, ActivationFacts
  <2>4. \A i \in 1 .. p : stack'[i] = stack[i]
    BY <2>1, <2>2, ActivationFacts
  <2> QED
    BY <2>3, <2>4
<1>5. \A i \in p + 1 .. Len(stack) : stack[i].who = Nobody
  BY <1>2, <1>3
<1> HIDE DEF p
<1> QED
  BY <1>1, <1>4, <1>5, QuietStepMaps

\* and in a tail call those of the caller leave.
LEMMA TailCallMaps ==
    ASSUME IInv, IInv', NEW k \in Nat, NEW n \in Nat, NEW params \in Injections(Unused, n),
           TailCall(k, params)
    PROVE  Program!Next
<1> DEFINE b == Current.base
           p == b - 1
<1>1. /\ Callable(k) /\ k <= Len(params) /\ CloseUpvalues(b)
      /\ stack' = SubSeq(stack, 1, b - 1) \o Activation(k, params)
      /\ UNCHANGED <<suspended, forcing, seen>>
  BY DEF TailCall
<1>2. /\ Len(stack) \in Nat /\ b \in Nat /\ b > 0 /\ Current.fixed \in Nat
      /\ Above = b + Current.fixed /\ Len(stack) > k
      /\ \A i \in Len(stack) - k .. Len(stack) : i >= Above
  BY <1>1, RunningFacts DEF Callable, Temporary
<1>3. b <= Len(stack)
  <2>1. Len(stack) - k \in Len(stack) - k .. Len(stack) /\ Len(stack) - k \in Nat /\ Len(stack) - k <= Len(stack)
    BY <1>2
  <2>2. Len(stack) - k >= b + Current.fixed
    BY <1>2, <2>1
  <2> QED
    BY <1>2, <2>1, <2>2
<1>4. Prefix(p) /\ (\A i \in 1 .. p : stack'[i] = stack[i]) /\ p \in Nat /\ p + 1 = b
  <2>1. p \in Nat /\ Current.base <= p + 1 /\ p < Len(stack) /\ p + 1 = b
    BY <1>2, <1>3
  <2>2. /\ stack' = SubSeq(stack, 1, p) \o Activation(k, params)
        /\ Callable(k) /\ k <= Len(params)
    BY <1>1
  <2> HIDE DEF p
  <2>3. Prefix(p)
    BY <2>1, <2>2, ActivationFacts
  <2>4. \A i \in 1 .. p : stack'[i] = stack[i]
    BY <2>1, <2>2, ActivationFacts
  <2> QED
    BY <2>1, <2>3, <2>4
<1>5. Closes(p)
  BY <1>1, <1>2, CloseUpvaluesFacts
<1>6. \A v \in Var : Untouched(p, v)
  <2>1. \A u \in DOMAIN upvalue : u \notin Closing(p + 1) => upvalue'[u] = upvalue[u]
    BY <1>1, <1>4 DEF CloseUpvalues
  <2> QED
    BY <1>4, <2>1 DEF Untouched
<1> HIDE DEF p
<1> QED
  BY <1>1, <1>4, <1>5, <1>6, EnterLeaveStep

\* The value of a variable on the running stack, and of one in a closed upvalue
LEMMA SlotValue ==
    ASSUME IInv, NEW i \in 1 .. Len(stack), NEW v \in Var, stack[i].who = v
    PROVE  ValueOf(v) = stack[i].val
<1>1. Level \in Levels /\ Mach(Level).stack = stack
  BY MachFacts DEF IInv
<1>2. Has(v, stack[i].val)
  BY <1>1 DEF Has, HasSlot
<1> QED
  BY <1>2, ValueFacts DEF ValueExact

LEMMA SlotValueNext ==
    ASSUME IInv, IInv', suspended' = suspended, NEW i \in 1 .. Len(stack'), NEW v \in Var,
           stack'[i].who = v
    PROVE  ValueOf(v)' = stack'[i].val
<1>1. PICK x : x = stack'[i].val
  OBVIOUS
<1>2. HasSlot(v, x)'
  BY <1>1, SlotsOfSteps DEF IInv
<1>3. Has(v, x)'
  BY <1>2 DEF Has
<1> QED
  BY <1>1, <1>3, ValueFactsNext DEF ValueExact

LEMMA CellValue ==
    ASSUME IInv, NEW u \in DOMAIN upvalue, upvalue[u].loc = 0
    PROVE  ValueOf(upvalue[u].of) = upvalue[u].val
<1>1. upvalue[u].of \in Var
  BY CellFacts DEF IInv
<1>2. Has(upvalue[u].of, upvalue[u].val)
  BY DEF Has, HasCell
<1> QED
  BY <1>1, <1>2, ValueFacts DEF ValueExact

LEMMA CellValueNext ==
    ASSUME IInv', NEW u \in DOMAIN upvalue', upvalue'[u].loc = 0, NEW v \in Var, upvalue'[u].of = v
    PROVE  ValueOf(v)' = upvalue'[u].val
<1>1. PICK x : x = upvalue'[u].val
  OBVIOUS
<1>2. HasCell(v, x)'
  BY <1>1 DEF HasCell
<1>3. Has(v, x)'
  BY <1>2 DEF Has
<1> QED
  BY <1>1, <1>3, ValueFactsNext DEF ValueExact

\* An initialiser
LEMMA StoreVarMaps == ASSUME IInv, IInv', NEW i \in 1 .. MaxStack, StoreVar(i) PROVE Program!Next
<1> DEFINE n == Len(stack)
           x == Top.val
           s == [stack[i] EXCEPT !.val = x]
           F == Front(stack)
<1>1. /\ stack \in Seq(Slot) /\ n \in Nat /\ Current.base \in Nat /\ Current.base > 0
      /\ n >= Above /\ stack[n].who = Nobody /\ i \in Current.base .. n /\ stack[i].who # Nobody
      /\ Above \in Nat /\ Above = Current.base + Current.fixed /\ Current.fixed \in Nat
      /\ stack[i].val = Unset /\ UNCHANGED <<suspended, open, upvalue, forcing, seen>>
  BY RunningFacts DEF StoreVar, Temporary, Locals, heapVars
<1>2. n > 0 /\ i \in 1 .. n - 1 /\ n \in 1 .. n /\ i \in 1 .. n
  <2>1. i # n
    BY <1>1
  <2> QED
    BY <1>1, <2>1
<1>3. F \in Seq(Slot) /\ Len(F) = n - 1 /\ \A j \in 1 .. n - 1 : F[j] = stack[j]
  BY <1>1, <1>2, FrontFacts
<1>4. x \in Value
  BY <1>1, <1>2, RunningFacts DEF Top
<1>5. s \in Slot /\ s.val = x /\ s.who = stack[i].who
  <2>1. stack[i] \in Slot
    BY <1>1, <1>2
  <2> HIDE DEF x
  <2> QED
    BY <1>4, <2>1 DEF Slot
<1> HIDE DEF F, s, x
<1>6. stack' = [F EXCEPT ![i] = s]
  BY <1>2, <1>3 DEF StoreVar, F, s, x
<1>7. /\ stack' \in Seq(Slot) /\ Len(stack') = n - 1
      /\ \A j \in 1 .. n - 1 : stack'[j] = IF j = i THEN s ELSE stack[j]
  BY <1>2, <1>3, <1>5, <1>6, ExceptSeq
<1>8. Prefix(n - 1) /\ \A j \in (n - 1) + 1 .. n : j = n
  <2>1. \A j \in 1 .. n - 1 :
           stack'[j].who = stack[j].who /\ (stack[j].who = Nobody => stack'[j].val = stack[j].val)
    BY <1>1, <1>5, <1>7
  <2> QED
    BY <1>1, <1>2, <1>7, <2>1, DropFacts
<1>9. PICK p : p = n - 1
  OBVIOUS
<1>10. /\ Prefix(p) /\ p \in Nat /\ p + 1 = n /\ Len(stack') = p /\ p \in 0 .. Len(stack)
       /\ \A j \in p + 1 .. n : stack[j].who = Nobody
  BY <1>1, <1>2, <1>7, <1>8, <1>9
<1>11. Closes(p)
  BY <1>1, <1>10, NothingCloses
<1>12. Leaving(p) = {} /\ Entering(p) = {}
  BY <1>10 DEF Leaving, Entering
<1>13. PICK v : v = stack[i].who
  OBVIOUS
<1>14. v \in Var
  BY <1>1, <1>2, <1>13, RunningFacts
<1>15. ValueOf(v) = Unset
  BY <1>1, <1>2, <1>13, <1>14, SlotValue
<1>16. ValueOf(v)' = x
  <2>1. i \in 1 .. Len(stack') /\ stack'[i].who = v /\ stack'[i].val = x
    BY <1>2, <1>5, <1>7, <1>13
  <2> QED
    BY <1>1, <1>14, <2>1, SlotValueNext
<1>17. ASSUME NEW w \in Var, w # v PROVE ValueOf(w)' = ValueOf(w)
  <2>1. Untouched(p, w)
    <3>1. \A j \in 1 .. p : stack[j].who = w => stack'[j].val = stack[j].val
      BY <1>7, <1>9, <1>13, <1>17
    <3> QED
      BY <1>1, <3>1 DEF Untouched
  <2> QED
    BY <1>1, <1>10, <1>11, <1>12, <2>1, StayingFacts
<1>18. Captured' = Captured
  BY <1>11, CapturedStays
<1>19. Program!Initialise(v)
  <2>1. {c.of : c \in Cells}' = {c.of : c \in Cells}
    BY <1>18 DEF Captured
  <2>2. [u \in Var |-> ValueOf(u)][v] = Unset /\ [u \in Var |-> ValueOf(u)'][v] \in Value
    BY <1>4, <1>14, <1>15, <1>16
  <2>3. [u \in Var |-> ValueOf(u)'] =
           [[u \in Var |-> ValueOf(u)] EXCEPT ![v] = [u \in Var |-> ValueOf(u)'][v]]
    BY <1>14, <1>17
  <2> QED
    BY <1>1, <2>1, <2>2, <2>3 DEF Program!Initialise
<1> QED
  BY <1>14, <1>19 DEF Program!Next

\* Reading a variable that has the value x
LEMMA ReadMaps ==
    ASSUME IInv, IInv', NEW v \in Var, NEW x \in Value, NEW back, ValueOf(v) = x,
           ReadVariable(v, x, back)
    PROVE  Program!Next
<1>1. Temp(x) \in Slot /\ Temp(x).val = x /\ Temp(x).who = Nobody
  BY TempFacts
<1>2. phase = "run" /\ stack' = Append(stack, Temp(x)) /\ UNCHANGED <<open, suspended, upvalue>>
  BY DEF ReadVariable, ForceThunk, Push, heapVars
<1>3. PICK p : p = Len(stack)
  OBVIOUS
<1>4. /\ Prefix(p) /\ Len(stack') = p + 1 /\ p \in Nat /\ p \in 0 .. Len(stack)
      /\ \A i \in 1 .. p : stack'[i] = stack[i]
      /\ stack'[p + 1] = Temp(x)
      /\ \A i \in p + 1 .. Len(stack) : FALSE
  BY <1>1, <1>2, <1>3, PushFacts
<1>5. Closes(p)
  BY <1>2, <1>4, NothingCloses
<1>6. Leaving(p) = {} /\ Entering(p) = {}
  <2>1. \A i \in p + 1 .. Len(stack') : stack'[i].who = Nobody
    BY <1>1, <1>4
  <2> QED
    BY <1>4, <2>1 DEF Leaving, Entering
<1>7. \A w \in Var : ValueOf(w)' = ValueOf(w)
  <2>1. \A w \in Var : Untouched(p, w)
    BY <1>2, <1>4 DEF Untouched
  <2> QED
    BY <1>2, <1>4, <1>5, <1>6, <2>1, StayingFacts
<1>8. {c.of : c \in Cells}' = {c.of : c \in Cells}
  BY <1>5, CapturedStays DEF Captured
<1>9. [u \in Var |-> ValueOf(u)'] = [u \in Var |-> ValueOf(u)] /\ [u \in Var |-> ValueOf(u)][v] = x
  BY <1>7
<1>10. CASE x \notin thunks
  <2>1. seen' = <<v, x>> /\ UNCHANGED <<frames, forcing>>
    BY <1>10 DEF ReadVariable
  <2>2. Program!Read(v)
    BY <1>8, <1>9, <2>1 DEF Program!Read
  <2> QED
    BY <2>2 DEF Program!Next
<1>11. CASE x \in thunks
  <2>1. forcing' = Append(forcing, v) /\ seen' = seen
    BY <1>11 DEF ReadVariable, ForceThunk
  <2>2. Program!BeginForce(v)
    BY <1>8, <1>9, <2>1 DEF Program!BeginForce
  <2> QED
    BY <2>2 DEF Program!Next
<1> QED
  BY <1>10, <1>11

LEMMA LoadVarMaps == ASSUME IInv, IInv', NEW i \in 1 .. MaxStack, LoadVar(i) PROVE Program!Next
<1> DEFINE back == [to |-> "slot", slot |-> i, up |-> Nobody]
<1>1. i \in 1 .. Len(stack) /\ stack[i].who # Nobody
  <2>1. Current.base \in Nat /\ Current.base > 0 /\ Len(stack) \in Nat /\ i \in Current.base .. Len(stack)
    BY RunningFacts DEF LoadVar, Locals
  <2> QED
    BY <2>1 DEF LoadVar, Locals
<1>2. stack[i].who \in Var /\ stack[i].val \in Value
  BY <1>1, RunningFacts DEF LoadVar
<1>3. ValueOf(stack[i].who) = stack[i].val
  BY <1>1, <1>2, SlotValue
<1>4. ReadVariable(stack[i].who, stack[i].val, back)
  BY DEF LoadVar
<1> HIDE DEF back
<1> QED
  BY <1>2, <1>3, <1>4, ReadMaps

\* by slot or through an upvalue
LEMMA GetUpvalueMaps == ASSUME IInv, IInv', NEW u \in Inherited, GetUpvalue(u) PROVE Program!Next
<1> DEFINE c == upvalue[u]
           x == UpvalueValue(c)
           back == IF c.loc = 0 THEN [to |-> "upvalue", slot |-> 0, up |-> u]
                   ELSE [to |-> "slot", slot |-> c.loc, up |-> Nobody]
<1>1. /\ u \in DOMAIN upvalue /\ u \in Up /\ c.loc \in Nat /\ c.of \in Var
      /\ c.val \in Value \cup {Unset}
      /\ c.loc # 0 => c.loc \in 1 .. Len(stack) /\ stack[c.loc].who = c.of
  BY InheritedFacts, CellFacts DEF IInv
<1>2. x # Unset /\ ReadVariable(c.of, x, back)
  BY DEF GetUpvalue
<1>3. ValueOf(c.of) = x /\ x \in Value
  <2>1. CASE c.loc = 0
    <3>1. x = c.val
      BY <2>1 DEF UpvalueValue
    <3>2. ValueOf(c.of) = c.val
      BY <1>1, <2>1, CellValue
    <3> QED
      BY <1>1, <1>2, <3>1, <3>2
  <2>2. CASE c.loc # 0
    <3>1. c.loc \in 1 .. Len(stack) /\ c.loc <= Len(stack)
      BY <1>1, <2>2, RunningFacts
    <3>2. x = stack[c.loc].val
      BY <2>2, <3>1 DEF UpvalueValue
    <3>3. ValueOf(c.of) = stack[c.loc].val
      BY <1>1, <2>2, <3>1, SlotValue
    <3>4. stack[c.loc].val \in Value \cup {Unset}
      BY <3>1, RunningFacts
    <3> QED
      BY <1>2, <3>2, <3>3, <3>4
  <2> QED
    BY <2>1, <2>2
<1> HIDE DEF x, back
<1> QED
  BY <1>1, <1>2, <1>3, ReadMaps

\* The result of a scope and the local below it change places, and the upvalue follows.
LEMMA SwapResultMaps == ASSUME IInv, IInv', SwapResult PROVE UNCHANGED Program!vars
<1> TypeOK
  BY DEF IInv
<1> DEFINE n == Len(stack)
           pi(i) == IF i = n - 1 THEN n ELSE IF i = n THEN n - 1 ELSE i
<1>1. /\ n > Above /\ n - 1 \in Locals
      /\ stack' = [stack EXCEPT ![n - 1] = stack[n], ![n] = stack[n - 1]]
      /\ SwapUpvalues(n - 1, n)
      /\ UNCHANGED <<suspended, forcing, seen>>
  BY DEF SwapResult
<1>2. /\ stack \in Seq(Slot) /\ n \in Nat /\ Current.base \in Nat /\ Current.base > 0
      /\ OpenSound(stack, open, upvalue) /\ Above \in Nat
  BY RunningFacts
<1>3. n \in 1 .. n /\ n - 1 \in 1 .. n /\ n - 1 # n /\ n > 1
  <2>1. n - 1 \in Current.base .. n
    BY <1>1 DEF Locals
  <2> QED
    BY <1>2, <2>1
<1>4. DOMAIN stack' = DOMAIN stack /\ Len(stack') = n
  BY <1>1, <1>2
<1>5. \A i \in 1 .. n : pi(i) \in 1 .. n /\ pi(pi(i)) = i /\ stack'[i] = stack[pi(i)]
  BY <1>1, <1>2, <1>3
<1>6. ASSUME NEW u \in DOMAIN upvalue
      PROVE  /\ u \in DOMAIN upvalue' /\ upvalue'[u].of = upvalue[u].of
             /\ upvalue'[u].val = upvalue[u].val
             /\ upvalue'[u].loc = 0 <=> upvalue[u].loc = 0
  <2>1. upvalue' = [w \in DOMAIN upvalue |->
                      IF \E i \in 1 .. Len(open) : open[i] = w
                      THEN [upvalue[w] EXCEPT !.loc = Swapped(@, n - 1, n)]
                      ELSE upvalue[w]]
    BY <1>1 DEF SwapUpvalues
  <2>2. upvalue[u] \in Cell
    BY CellFacts
  <2>3. CASE \E i \in 1 .. Len(open) : open[i] = u
    <3>1. upvalue[u].loc # 0
      BY <1>2, <2>3 DEF OpenSound
    <3>2. Swapped(upvalue[u].loc, n - 1, n) # 0
      <4>1. n # 0 /\ n - 1 # 0
        <5>1. \A k \in Nat : k > 1 => k # 0 /\ k - 1 # 0
          OBVIOUS
        <5> HIDE DEF n
        <5> QED
          BY <1>2, <1>3, <5>1
      <4> QED
        BY <3>1, <4>1 DEF Swapped
    <3>3. upvalue'[u] = [upvalue[u] EXCEPT !.loc = Swapped(upvalue[u].loc, n - 1, n)]
      BY <2>1, <2>3
    <3>4. PICK l : l = Swapped(upvalue[u].loc, n - 1, n)
      OBVIOUS
    <3>5. upvalue'[u] = [upvalue[u] EXCEPT !.loc = l] /\ l # 0
      BY <3>2, <3>3, <3>4
    <3> QED
      BY <2>1, <2>2, <3>1, <3>5 DEF Cell
  <2>4. CASE ~ \E i \in 1 .. Len(open) : open[i] = u
    BY <2>1, <2>4
  <2> QED
    BY <2>3, <2>4
<1>7. DOMAIN upvalue' = DOMAIN upvalue
  BY <1>1 DEF SwapUpvalues
<1> HIDE DEF pi
<1>8. ASSUME NEW v, NEW x PROVE HasSlot(v, x)' <=> HasSlot(v, x)
  <2>1. (\E i \in 1 .. Len(stack') : stack'[i].who = v /\ stack'[i].val = x)
            <=> \E i \in 1 .. Len(stack) : stack[i].who = v /\ stack[i].val = x
    <3>1. ASSUME NEW i \in 1 .. n
          PROVE  /\ stack'[pi(i)] = stack[i] /\ stack[pi(i)] = stack'[i] /\ pi(i) \in 1 .. n
      BY <1>5
    <3> QED
      BY <1>4, <3>1
  <2> QED
    BY <1>1, <2>1, SlotsOfSteps
<1>9. ASSUME NEW v, NEW x PROVE HasCell(v, x)' <=> HasCell(v, x)
  BY <1>6, <1>7 DEF HasCell
<1>10. \A v \in Var : ValueOf(v)' = ValueOf(v)
  <2> SUFFICES ASSUME NEW v \in Var PROVE ValueOf(v)' = ValueOf(v)
    OBVIOUS
  <2>1. \A x : Has(v, x)' <=> Has(v, x)
    BY <1>8, <1>9 DEF Has
  <2> QED
    BY <2>1, KeepsValue
<1>11. Captured' = Captured
  <2>1. \A v : v \in Captured' <=> v \in Captured
    BY <1>6, <1>7, CapturedFacts
  <2> QED
    BY <2>1
<1> QED
  BY <1>1, <1>10, <1>11, SameStep

\* Its upvalue takes the value that is still in the slot.
LEMMA CloseLocalMaps == ASSUME IInv, IInv', CloseLocal PROVE UNCHANGED Program!vars
<1> TypeOK
  BY DEF IInv
<1> DEFINE n == Len(stack)
<1>1. CloseUpvalues(n) /\ UNCHANGED <<stack, suspended, forcing, seen>>
  BY DEF CloseLocal
<1>2. n \in Nat /\ n > 0
  <2>1. n \in Nat /\ Above \in Nat /\ n > Above
    BY RunningFacts DEF CloseLocal, IInv, PhaseSound
  <2> QED
    BY <2>1
<1>3. PICK p : p = n - 1
  OBVIOUS
<1>4. Closes(p) /\ p + 1 = n
  BY <1>1, <1>2, <1>3, CloseUpvaluesFacts
<1>5. ASSUME NEW u \in DOMAIN upvalue, upvalue[u].loc = 0
      PROVE  u \in DOMAIN upvalue' /\ upvalue'[u] = upvalue[u]
  <2>1. u \notin Closing(n)
    <3>1. u \in Closing(n) => u \in Slots(open) /\ upvalue[u].loc >= n
      BY <1>2, CloseFacts
    <3> QED
      BY <1>2, <1>5, <3>1
  <2> QED
    BY <1>1, <2>1 DEF CloseUpvalues
<1>6. ASSUME NEW u \in DOMAIN upvalue, upvalue[u].loc # 0, upvalue'[u].loc = 0
      PROVE  \E i \in 1 .. n : stack[i].who = upvalue[u].of /\ stack[i].val = upvalue'[u].val
  <2>1. u \in Closing(n) /\ upvalue'[u].val = stack[upvalue[u].loc].val
    BY <1>4, <1>6 DEF Closes
  <2>2. u \in Slots(open) /\ upvalue[u].loc \in 1 .. n
    BY <1>2, <2>1, CloseFacts
  <2>3. stack[upvalue[u].loc].who = upvalue[u].of
    BY <2>2, RunningFacts DEF OpenSound, Slots
  <2> QED
    BY <2>1, <2>2, <2>3
<1>7. ASSUME NEW v, NEW x
      PROVE  /\ HasSlot(v, x)' <=> HasSlot(v, x)
             /\ HasCell(v, x) => HasCell(v, x)'
             /\ HasCell(v, x)' => HasCell(v, x) \/ HasSlot(v, x)
  <2>1. HasSlot(v, x)' <=> HasSlot(v, x)
    BY <1>1, SlotsOfSteps
  <2>2. HasCell(v, x) => HasCell(v, x)'
    BY <1>5 DEF HasCell
  <2>3. ASSUME HasCell(v, x)' PROVE HasCell(v, x) \/ HasSlot(v, x)
    <3>1. PICK u \in DOMAIN upvalue' : upvalue'[u].of = v /\ upvalue'[u].loc = 0 /\ upvalue'[u].val = x
      BY <2>3 DEF HasCell
    <3>2. u \in DOMAIN upvalue /\ upvalue[u].of = v
      BY <1>4, <3>1 DEF Closes
    <3>3. CASE upvalue[u].loc = 0
      BY <1>5, <3>1, <3>2, <3>3 DEF HasCell
    <3>4. CASE upvalue[u].loc # 0
      <4>1. \E i \in 1 .. n : stack[i].who = v /\ stack[i].val = x
        BY <1>6, <3>1, <3>2, <3>4
      <4> QED
        BY <1>1, <4>1, SlotsOfSteps
    <3> QED
      BY <3>3, <3>4
  <2> QED
    BY <2>1, <2>2, <2>3
<1>8. \A v \in Var : ValueOf(v)' = ValueOf(v)
  <2> SUFFICES ASSUME NEW v \in Var PROVE ValueOf(v)' = ValueOf(v)
    OBVIOUS
  <2>1. \A x : Has(v, x)' <=> Has(v, x)
    BY <1>7 DEF Has
  <2> QED
    BY <2>1, KeepsValue
<1> QED
  BY <1>1, <1>4, <1>8, CapturedStays, SameStep

\* A closure captures variables of its maker, which have a value.
LEMMA MakeClosureMaps ==
    ASSUME IInv, IInv', NEW c \in Closure, NEW thunk \in BOOLEAN, NEW us \in SUBSET Inherited,
           MakeClosure(c, thunk, us)
    PROVE  Program!Next
<1> TypeOK
  BY DEF IInv
<1>1. UNCHANGED <<suspended, forcing, seen>> /\ stack' = Append(stack, Temp(c)) /\ Makes(c, us)
  BY MakeClosureFacts
<1>2. PICK new \in SUBSET Up : CapturedBy(new)
  BY <1>1 DEF Makes
<1>3. PICK V : V = {upvalue'[w].of : w \in new}
  OBVIOUS
<1>4. /\ DOMAIN upvalue' = DOMAIN upvalue \cup new /\ upvalue' \in [DOMAIN upvalue' -> Cell]
      /\ \A w \in DOMAIN upvalue : upvalue'[w] = upvalue[w]
      /\ \A w \in new : w \in Slots(open') /\ upvalue'[w].loc # 0
      /\ OpenSound(stack, open', upvalue')
  BY <1>2 DEF CapturedBy
<1>5. ASSUME NEW w \in new
      PROVE  upvalue'[w].of \in Var /\ ValueOf(upvalue'[w].of) # Gone
  <2>1. PICK j \in 1 .. Len(open') : open'[j] = w
    BY <1>4 DEF Slots
  <2>2. /\ upvalue'[w].loc \in 1 .. Len(stack)
        /\ stack[upvalue'[w].loc].who = upvalue'[w].of
    BY <1>4, <2>1 DEF OpenSound
  <2>3. upvalue'[w] \in Cell
    BY <1>4
  <2>4. upvalue'[w].of \in Var
    BY <2>3 DEF Cell
  <2>5. ValueOf(upvalue'[w].of) = stack[upvalue'[w].loc].val
    BY <2>2, <2>4, SlotValue
  <2>6. stack[upvalue'[w].loc].val \in Value \cup {Unset}
    BY <2>2, RunningFacts
  <2> QED
    BY <2>4, <2>5, <2>6, GoneFacts
<1>6. Captured' = Captured \cup V
  <2>1. \A v : v \in Captured' <=> v \in Captured \cup V
    BY <1>3, <1>4, CapturedFacts
  <2> QED
    BY <2>1
<1>7. \A v \in Var : ValueOf(v)' = ValueOf(v)
  <2> SUFFICES ASSUME NEW v \in Var PROVE ValueOf(v)' = ValueOf(v)
    OBVIOUS
  <2>1. v # Nobody /\ Temp(c).who = Nobody
    BY MarkersAssumption DEF Temp
  <2>2. ASSUME NEW x
        PROVE  (\E i \in 1 .. Len(stack') : stack'[i].who = v /\ stack'[i].val = x)
                 <=> \E i \in 1 .. Len(stack) : stack[i].who = v /\ stack[i].val = x
    <3>1. /\ Len(stack) \in Nat /\ Len(stack') = Len(stack) + 1
          /\ \A i \in 1 .. Len(stack) : stack'[i] = stack[i]
          /\ stack'[Len(stack) + 1] = Temp(c)
      <4>1. stack \in Seq(Slot) /\ Len(stack) \in Nat
        BY RunningFacts
      <4>2. Temp(c) \in Slot
        BY TempFacts DEF Value
      <4> QED
        BY <1>1, <4>1, <4>2, AppendProperties
    <3>2. \A i : i \in 1 .. Len(stack') <=> i \in 1 .. Len(stack) \/ i = Len(stack) + 1
      BY <3>1
    <3> QED
      BY <2>1, <3>1, <3>2
  <2>3. ASSUME NEW x PROVE HasSlot(v, x)' <=> HasSlot(v, x)
    BY <1>1, <2>2, SlotsOfSteps
  <2>4. ASSUME NEW x PROVE HasCell(v, x)' <=> HasCell(v, x)
    BY <1>4 DEF HasCell
  <2>5. \A x : Has(v, x)' <=> Has(v, x)
    BY <2>3, <2>4 DEF Has
  <2> QED
    BY <2>5, KeepsValue
<1>8. Program!Capture(V)
  <2>1. {d.of : d \in Cells}' = {d.of : d \in Cells} \cup V
    BY <1>6 DEF Captured
  <2>2. \A v \in V : [u \in Var |-> ValueOf(u)][v] # Gone
    BY <1>3, <1>5
  <2>3. [u \in Var |-> ValueOf(u)'] = [u \in Var |-> ValueOf(u)]
    BY <1>7
  <2> QED
    BY <1>1, <2>1, <2>2, <2>3 DEF Program!Capture
<1>9. V \in SUBSET Var
  BY <1>3, <1>5
<1> QED
  BY <1>8, <1>9 DEF Program!Next

\* What an import starts from and what is left when it returns hold no variables.
LEMMA ImportMaps == ASSUME IInv, IInv', Import PROVE UNCHANGED Program!vars
<1>1. UNCHANGED <<forcing, seen, upvalue>>
  BY DEF Import, heapVars
<1>2. /\ Levels' = Levels \cup {Level + 1} /\ Level + 1 \notin Levels
      /\ \A a \in Levels : Mach(a)' = Mach(a)
      /\ \A a \in Levels' : a = Level + 1 => Mach(a)'.stack = <<>>
  BY ImportMachines
<1>3. ASSUME NEW v, NEW x PROVE HasSlot(v, x)' <=> HasSlot(v, x)
  BY <1>2 DEF HasSlot
<1>4. ASSUME NEW v, NEW x PROVE HasCell(v, x)' <=> HasCell(v, x)
  BY <1>1 DEF HasCell
<1>5. \A v \in Var : ValueOf(v)' = ValueOf(v)
  <2> SUFFICES ASSUME NEW v \in Var PROVE ValueOf(v)' = ValueOf(v)
    OBVIOUS
  <2>1. \A x : Has(v, x)' <=> Has(v, x)
    BY <1>3, <1>4 DEF Has
  <2> QED
    BY <2>1, KeepsValue
<1>6. Captured' = Captured
  BY <1>1 DEF Captured, Cells
<1> QED
  BY <1>1, <1>5, <1>6, SameStep

LEMMA ScriptReturnMaps == ASSUME IInv, IInv', ScriptReturn PROVE UNCHANGED Program!vars
<1> TypeOK
  BY DEF IInv
<1>1. UNCHANGED <<forcing, seen, upvalue>>
  BY DEF ScriptReturn, heapVars
<1>2. PICK b \in Levels :
         /\ Level = b + 1 /\ b \in Nat
         /\ Levels' \subseteq Levels /\ \A a \in Levels : a \in Levels' \/ a = Level
         /\ b \in Levels'
         /\ \A a \in Levels' : /\ a # b => Mach(a)'.stack = Mach(a).stack
                               /\ a = b => Mach(a)'.stack = Append(Mach(a).stack, Temp(Top.val))
  BY ReturnMachines
<1>3. Len(stack) = 1 /\ stack[1].who = Nobody /\ Top.val \in Value
  BY ScriptDone
<1>4. ASSUME NEW v, v # Nobody, NEW x PROVE HasSlot(v, x)' <=> HasSlot(v, x)
  <2>1. PICK s : s = Temp(Top.val)
    OBVIOUS
  <2>2. s \in Slot /\ s.who = Nobody
    BY <1>3, <2>1, TempFacts
  <2>3. PICK t : t = Mach(b).stack
    OBVIOUS
  <2>4. t \in Seq(Slot)
    BY <2>3, MachFacts, MachineFacts
  <2>5. /\ Len(t) \in Nat /\ Len(Append(t, s)) = Len(t) + 1
        /\ \A i \in 1 .. Len(t) : Append(t, s)[i] = t[i]
        /\ Append(t, s)[Len(t) + 1] = s
    BY <2>2, <2>4, AppendProperties
  <2>6. (\E i \in 1 .. Len(Append(t, s)) : Append(t, s)[i].who = v /\ Append(t, s)[i].val = x)
            <=> \E i \in 1 .. Len(t) : t[i].who = v /\ t[i].val = x
    <3>1. \A i : i \in 1 .. Len(Append(t, s)) <=> i \in 1 .. Len(t) \/ i = Len(t) + 1
      BY <2>5
    <3> QED
      BY <1>4, <2>2, <2>5, <3>1
  <2>7. \A a \in Levels' :
           (\E i \in 1 .. Len(Mach(a)'.stack) : Mach(a)'.stack[i].who = v /\ Mach(a)'.stack[i].val = x)
              <=> \E i \in 1 .. Len(Mach(a).stack) : Mach(a).stack[i].who = v /\ Mach(a).stack[i].val = x
    BY <1>2, <2>1, <2>3, <2>6
  <2>8. \A a \in Levels : a \notin Levels' =>
           ~ \E i \in 1 .. Len(Mach(a).stack) : Mach(a).stack[i].who = v /\ Mach(a).stack[i].val = x
    <3>1. Mach(Level).stack = stack
      BY MachFacts
    <3>2. ~ \E i \in 1 .. Len(stack) : stack[i].who = v /\ stack[i].val = x
      BY <1>3, <1>4
    <3> QED
      BY <1>2, <3>1, <3>2
  <2> QED
    BY <1>2, <2>7, <2>8 DEF HasSlot
<1>5. ASSUME NEW v, NEW x PROVE HasCell(v, x)' <=> HasCell(v, x)
  BY <1>1 DEF HasCell
<1>6. \A v \in Var : ValueOf(v)' = ValueOf(v)
  <2> SUFFICES ASSUME NEW v \in Var PROVE ValueOf(v)' = ValueOf(v)
    OBVIOUS
  <2>1. v # Nobody
    BY MarkersAssumption
  <2>2. \A x : Has(v, x)' <=> Has(v, x)
    BY <1>4, <1>5, <2>1 DEF Has
  <2> QED
    BY <2>2, KeepsValue
<1>7. Captured' = Captured
  BY <1>1 DEF Captured, Cells
<1> QED
  BY <1>1, <1>6, <1>7, SameStep

\* A result that goes back to a slot is there afterwards.
LEMMA ReturnWrites ==
    ASSUME IInv, Return, Current.back.to = "slot", NEW l, l = Current.back.slot,
           NEW p, p = Current.base - 1, l \in 1 .. p
    PROVE  stack'[l].val = Top.val
<1>1. p \in Nat /\ p < Len(stack) /\ Top.val \in Value
  BY ReturnStack
<1>2. PICK r : r = SubSeq(stack, 1, p)
  OBVIOUS
<1>3. r \in Seq(Slot) /\ Len(r) = p
  BY <1>1, <1>2, RunningFacts, SubSeqProperties
<1>4. PICK s : s = [r[l] EXCEPT !.val = Top.val]
  OBVIOUS
<1>5. s \in Slot /\ s.val = Top.val
  <2>1. r[l] \in Slot
    BY <1>3
  <2> QED
    BY <1>1, <1>4, <2>1 DEF Slot
<1>6. PICK q : q = [r EXCEPT ![l] = s]
  OBVIOUS
<1>7. q \in Seq(Slot) /\ Len(q) = p /\ q[l] = s
  BY <1>3, <1>5, <1>6, ExceptSeq
<1>8. stack' = Append(q, Temp(Top.val))
  BY <1>2, <1>4, <1>6 DEF Return, WriteBack
<1>9. Temp(Top.val) \in Slot
  BY <1>1, TempFacts
<1> QED
  BY <1>5, <1>7, <1>8, <1>9, AppendProperties

\* A function returns: the variables of its frame leave; where it evaluated a thunk, the
\* variable read gets the result.
LEMMA ReturnMaps == ASSUME IInv, IInv', Return PROVE Program!Next
<1> TypeOK
  BY DEF IInv
<1> DEFINE back == Current.back
<1>1. PICK p : p = Current.base - 1
  OBVIOUS
<1>2. /\ p \in Nat /\ p < Len(stack) /\ stack' \in Seq(Slot) /\ Len(stack') = p + 1
      /\ \A i \in 1 .. p :
            /\ stack'[i].who = stack[i].who
            /\ stack[i].who = Nobody => stack'[i].val = stack[i].val
      /\ stack'[p + 1] = Temp(Top.val)
      /\ Top.val \in Value
  BY <1>1, ReturnStack
<1>3. /\ Closes(p)
      /\ \A u \in DOMAIN upvalue : u \notin Closing(p + 1) =>
            \/ upvalue'[u].val = upvalue[u].val
            \/ back.to = "upvalue" /\ back.up = u /\ upvalue'[u].val = Top.val
  BY <1>1, ReturnCloses
<1>4. /\ phase = "run" /\ suspended' = suspended
      /\ back.to = "stack" => UNCHANGED <<forcing, seen>>
      /\ back.to # "stack" => /\ forcing' = Front(forcing)
                              /\ seen' = <<forcing[Len(forcing)], Top.val>>
  BY DEF Return, BodyDone, WriteBack
<1>5. Len(stack) \in Nat /\ Current.base \in Nat /\ Current.base > 0
  BY RunningFacts
<1>6. \A i \in p + 1 .. Len(stack') : i = p + 1 /\ stack'[i].who = Nobody /\ stack'[i].val \in Value
  <2>1. \A i \in p + 1 .. Len(stack') : i = p + 1
    BY <1>2
  <2> QED
    BY <1>2, <2>1, TempFacts
<1>7. Prefix(p)
  <2>1. p \in 0 .. Len(stack) /\ p <= Len(stack') /\ Current.base - 1 <= p
    BY <1>1, <1>2, <1>5
  <2> QED
    BY <1>2, <1>4, <1>6, <2>1 DEF Prefix
<1>8. Entering(p) = {}
  BY <1>6 DEF Entering
\* What is written where
<1>9. \A i \in 1 .. p : stack'[i].val # stack[i].val => back.to = "slot" /\ back.slot = i
  <2>1. PICK r : r = SubSeq(stack, 1, p)
    OBVIOUS
  <2>2. r \in Seq(Slot) /\ Len(r) = p /\ \A i \in 1 .. p : r[i] = stack[i]
    BY <1>2, <1>5, <2>1, RunningFacts, SubSeqProperties
  <2>3. PICK q : q = IF back.to = "slot" THEN [r EXCEPT ![back.slot].val = Top.val] ELSE r
    OBVIOUS
  <2>4. stack' = Append(q, Temp(Top.val))
    BY <1>1, <2>1, <2>3 DEF Return, WriteBack
  <2>5. \A i \in 1 .. p : ~(back.to = "slot" /\ back.slot = i) => q[i] = r[i]
    <3>1. DOMAIN r = 1 .. p
      BY <2>2
    <3> QED
      BY <2>3, <3>1
  <2>6. \A i \in 1 .. p : stack'[i] = q[i]
    <3>1. q \in Seq(Slot) /\ Len(q) = p
      <4>1. CASE back.to = "slot"
        <5>1. PICK l : l = back.slot
          OBVIOUS
        <5>2. l \in 1 .. p
          <6>1. frames[Len(frames)] = Current /\ Len(frames) \in 1 .. Len(frames)
            BY RunningFacts DEF Current
          <6>2. back.slot \in 1 .. Current.base - 1
            BY <4>1, <6>1, BackFacts
          <6> QED
            BY <1>1, <5>1, <6>2
        <5>3. PICK s : s = [r[l] EXCEPT !.val = Top.val]
          OBVIOUS
        <5>4. s \in Slot
          <6>1. PICK x : x = Top.val
            OBVIOUS
          <6>2. r[l] \in Slot /\ x \in Value /\ s = [r[l] EXCEPT !.val = x]
            BY <1>2, <2>2, <5>2, <5>3, <6>1
          <6> QED
            BY <6>2 DEF Slot
        <5>5. q = [r EXCEPT ![l] = s]
          BY <2>3, <4>1, <5>1, <5>3
        <5> QED
          BY <2>2, <5>2, <5>4, <5>5, ExceptSeq
      <4>2. CASE back.to # "slot"
        BY <2>2, <2>3, <4>2
      <4> QED
        BY <4>1, <4>2
    <3>2. Temp(Top.val) \in Slot
      BY <1>2, TempFacts
    <3> QED
      BY <2>4, <3>1, <3>2, AppendProperties
  <2> QED
    BY <2>2, <2>5, <2>6
<1>10. CASE back.to = "stack"
  <2>1. \A v \in Var : Untouched(p, v)
    BY <1>3, <1>9, <1>10 DEF Untouched
  <2> QED
    BY <1>3, <1>4, <1>7, <1>10, <2>1, EnterLeaveStep
<1>11. CASE back.to # "stack"
  <2>1. PICK at : ForcedAt(at)
    BY DEF IInv, ForcingExact
  <2>2. /\ Len(forcing) \in Nat /\ Len(forcing) > 0
        /\ forcing[Len(forcing)] = Awaits(Running, Len(frames))
    BY <1>11, <2>1, LastForced
  <2>3. PICK v : v = forcing[Len(forcing)]
    OBVIOUS
  <2>4. v \in Var /\ forcing # <<>>
    <3>1. forcing \in Seq(Var)
      BY DEF TypeOK
    <3> QED
      BY <2>2, <2>3, <3>1, EmptySeq
  <2>5. /\ back.to \in {"slot", "upvalue"}
        /\ back.to = "slot" => back.slot \in 1 .. p /\ v = stack[back.slot].who
        /\ back.to = "upvalue" =>
              /\ back.up \in DOMAIN upvalue /\ upvalue[back.up].loc = 0 /\ v = upvalue[back.up].of
    <3>1. frames[Len(frames)] = Current /\ Len(frames) \in 1 .. Len(frames)
      BY RunningFacts DEF Current
    <3>2. Running.frames = frames /\ Running.stack = stack
      BY MachFacts
    <3>3. /\ back.to \in {"stack", "slot", "upvalue"}
          /\ back.to = "slot" => back.slot \in 1 .. p
          /\ back.to = "upvalue" => back.up \in DOMAIN upvalue /\ upvalue[back.up].loc = 0
      BY <1>1, <3>1, BackFacts
    <3>4. v = IF back.to = "slot" THEN stack[back.slot].who ELSE upvalue[back.up].of
      BY <2>2, <2>3, <3>1, <3>2 DEF Awaits
    <3> QED
      BY <1>11, <3>3, <3>4
  <2>6. v \notin Leaving(p) \ Captured
    <3>1. CASE back.to = "slot"
      BY <1>3, <1>4, <1>7, <2>5, <3>1, LeavingFacts
    <3>2. CASE back.to = "upvalue"
      BY <2>5, <3>2, CapturedFacts
    <3> QED
      BY <2>5, <3>1, <3>2
  <2>7. ValueOf(v)' = Top.val
    <3>1. CASE back.to = "slot"
      <4>1. PICK l : l = back.slot
        OBVIOUS
      <4>2. l \in 1 .. p /\ l \in 1 .. Len(stack') /\ stack'[l].who = v
        <5>1. l \in 1 .. p /\ stack[l].who = v
          BY <2>5, <3>1, <4>1
        <5>2. l \in 1 .. Len(stack')
          BY <1>2, <5>1
        <5> QED
          BY <1>2, <5>1, <5>2
      <4>3. stack'[l].val = Top.val
        BY <1>1, <1>2, <3>1, <4>1, <4>2, ReturnWrites
      <4> QED
        BY <1>4, <2>4, <4>2, <4>3, SlotValueNext
    <3>2. CASE back.to = "upvalue"
      <4>1. PICK u : u = back.up
        OBVIOUS
      <4>2. u \in DOMAIN upvalue /\ upvalue[u].loc = 0 /\ v = upvalue[u].of
        BY <2>5, <3>2, <4>1
      <4>3. u \notin Closing(p + 1)
        BY <1>3, <1>7, <4>2, PrefixFacts
      <4>4. u \in DOMAIN upvalue' /\ upvalue'[u].loc = 0 /\ upvalue'[u].of = v
        BY <1>3, <4>2, <4>3 DEF Closes
      <4>5. upvalue'[u].val = Top.val
        <5>1. u \notin Closing(Current.base)
          BY <1>1, <1>5, <4>3
        <5>2. upvalue'[u] = [upvalue[u] EXCEPT !.val = Top.val]
          <6>1. upvalue' = [w \in DOMAIN upvalue |->
                              IF w \in Closing(Current.base) THEN Closed(upvalue[w])
                              ELSE IF back.to = "upvalue" /\ back.up = w
                                   THEN [upvalue[w] EXCEPT !.val = Top.val]
                                   ELSE upvalue[w]]
            BY DEF Return
          <6>2. back.to = "upvalue" /\ back.up = u
            BY <3>2, <4>1
          <6> HIDE DEF back
          <6> QED
            BY <4>2, <5>1, <6>1, <6>2
        <5>3. upvalue[u] \in Cell
          BY <4>2, CellFacts
        <5> QED
          BY <5>2, <5>3 DEF Cell
      <4> QED
        BY <2>4, <4>4, <4>5, CellValueNext
    <3> QED
      BY <2>5, <3>1, <3>2
  <2>8. ASSUME NEW w \in Var, w # v, w \notin Leaving(p) \/ w \in Captured
        PROVE  ValueOf(w)' = ValueOf(w)
    <3>1. \A i \in 1 .. p : stack[i].who = w => stack'[i].val = stack[i].val
      BY <1>9, <2>5, <2>8
    <3>2. \A u \in DOMAIN upvalue :
             upvalue[u].of = w /\ u \notin Closing(p + 1) => upvalue'[u].val = upvalue[u].val
      BY <1>3, <2>5, <2>8
    <3>3. Untouched(p, w)
      BY <3>1, <3>2 DEF Untouched
    <3> QED
      BY <1>3, <1>4, <1>7, <1>8, <2>8, <3>3, StayingFacts
  <2>9. \A w \in Leaving(p) : w \in Var /\ (w \notin Captured => ValueOf(w)' = Gone)
    BY <1>3, <1>4, <1>7, LeavingFacts
  <2>10. PICK W : W = Leaving(p)
    OBVIOUS
  <2>11. Program!EndForce(W)
    <3>1. {c.of : c \in Cells}' = {c.of : c \in Cells}
      BY <1>3, CapturedStays DEF Captured
    <3>2. Program!Last(forcing) = v /\ Program!Front(forcing) = Front(forcing)
      BY <2>3 DEF Program!Last, Program!Front, Front
    <3>3. v \notin W \ {c.of : c \in Cells}
      BY <2>6, <2>10 DEF Captured
    <3>4. [u \in Var |-> ValueOf(u)'][v] = Top.val
      BY <2>4, <2>7
    <3>5. \A w \in Var : Program!AfterLeaving(W)[w] = IF w \in W \ Captured THEN Gone ELSE ValueOf(w)
      BY DEF Program!AfterLeaving, Captured
    <3>6. \A w \in Var : w # v => ValueOf(w)' = Program!AfterLeaving(W)[w]
      BY <2>8, <2>9, <2>10, <3>5
    <3>7. [u \in Var |-> ValueOf(u)'] = [Program!AfterLeaving(W) EXCEPT ![v] = Top.val]
      <4>1. Program!AfterLeaving(W) \in [Var -> {Program!AfterLeaving(W)[w] : w \in Var}]
        BY DEF Program!AfterLeaving
      <4>2. PICK f : f = Program!AfterLeaving(W)
        OBVIOUS
      <4>3. DOMAIN f = Var /\ f = [w \in Var |-> f[w]]
        BY <4>2 DEF Program!AfterLeaving
      <4>4. \A w \in Var : w # v => ValueOf(w)' = f[w]
        BY <3>6, <4>2
      <4>5. [u \in Var |-> ValueOf(u)'] = [f EXCEPT ![v] = Top.val]
        BY <2>4, <2>7, <4>3, <4>4
      <4> QED
        BY <4>2, <4>5
    <3>8. seen' = <<v, Top.val>> /\ forcing' = Front(forcing)
      BY <1>4, <1>11, <2>3
    <3> QED
      BY <1>2, <2>4, <3>1, <3>2, <3>3, <3>4, <3>7, <3>8 DEF Program!EndForce
  <2>12. W \in SUBSET Var
    BY <2>9, <2>10
  <2> QED
    BY <2>11, <2>12 DEF Program!Next
<1> QED
  BY <1>10, <1>11

----------------------------------------------------------------------------
(* The refinement *)

LEMMA InitMaps == ASSUME Init PROVE Program!Init
<1>1. stack = <<>> /\ suspended = <<>> /\ upvalue = <<>> /\ forcing = <<>> /\ seen = <<>>
  BY DEF Init
<1>2. Len(stack) = 0 /\ Len(suspended) = 0 /\ DOMAIN upvalue = {}
  BY <1>1
<1>3. AllSlots = {} /\ Cells = {}
  <2>1. Slots(stack) = {} /\ 1 .. Len(suspended) = {}
    BY <1>2 DEF Slots
  <2>2. UNION {Slots(suspended[m].stack) : m \in 1 .. Len(suspended)} = {}
    BY <2>1
  <2> QED
    BY <1>2, <2>1, <2>2 DEF AllSlots, Cells
<1>4. \A v \in Var : ValueOf(v) = Gone
  BY <1>3 DEF ValueOf, Holding, ClosedOver
<1>5. {c.of : c \in Cells} = {} /\ [v \in Var |-> ValueOf(v)] = [v \in Var |-> Gone]
  BY <1>3, <1>4
<1> QED
  BY <1>1, <1>5 DEF Program!Init

LEMMA StutterMaps == ASSUME UNCHANGED vars PROVE UNCHANGED Program!vars
<1>1. UNCHANGED <<stack, suspended, upvalue, forcing, seen>>
  BY DEF vars, heapVars
<1>2. AllSlots' = AllSlots /\ Cells' = Cells
  BY <1>1 DEF AllSlots, Slots, Cells
<1>3. Captured' = Captured
  BY <1>2 DEF Captured
<1>4. ASSUME NEW v \in Var PROVE ValueOf(v)' = ValueOf(v)
  <2>1. Holding(v)' = Holding(v) /\ ClosedOver(v)' = ClosedOver(v)
    BY <1>2 DEF Holding, ClosedOver
  <2> QED
    BY <2>1 DEF ValueOf, Gone
<1> QED
  BY <1>1, <1>3, <1>4, SameStep

LEMMA NextMaps ==
    ASSUME IInv, IInv', [Next]_vars
    PROVE  [Program!Next]_Program!vars
<1>1. CASE UNCHANGED vars
  BY <1>1, StutterMaps
<1>2. CASE Next
  <2>1. CASE \E x \in Plain : PushConst(x)
    BY <2>1, PushConstMaps
  <2>2. CASE PopTemp
    BY <2>2, PopTempMaps
  <2>3. CASE \E v \in Var : DeclareLocal(v)
    BY <2>3, DeclareLocalMaps
  <2>4. CASE \E i \in 1 .. MaxStack : StoreVar(i) \/ LoadVar(i)
    BY <2>4, StoreVarMaps, LoadVarMaps
  <2>5. CASE \E c \in Closure, thunk \in BOOLEAN, us \in SUBSET Inherited : MakeClosure(c, thunk, us)
    BY <2>5, MakeClosureMaps
  <2>6. CASE \E u \in Inherited : GetUpvalue(u)
    BY <2>6, GetUpvalueMaps
  <2>7. CASE SwapResult
    BY <2>7, SwapResultMaps
  <2>8. CASE CloseLocal
    BY <2>8, CloseLocalMaps
  <2>9. CASE PopLocal
    BY <2>9, PopLocalMaps
  <2>10. CASE \E k, n \in 0 .. MaxParams : \E params \in Injections(Unused, n) :
                 Call(k, params) \/ TailCall(k, params)
    <3>1. PICK k \in 0 .. MaxParams, n \in 0 .. MaxParams :
             \E params \in Injections(Unused, n) : Call(k, params) \/ TailCall(k, params)
      BY <2>10
    <3>2. PICK params \in Injections(Unused, n) : Call(k, params) \/ TailCall(k, params)
      BY <3>1
    <3>3. k \in Nat /\ n \in Nat
      BY BoundsAssumption
    <3> QED
      BY <3>2, <3>3, CallMaps, TailCallMaps
  <2>11. CASE Return
    BY <2>11, ReturnMaps
  <2>12. CASE Import
    BY <2>12, ImportMaps
  <2>13. CASE ScriptReturn
    BY <2>13, ScriptReturnMaps
  <2> QED
    BY <1>2, <2>1, <2>2, <2>3, <2>4, <2>5, <2>6, <2>7, <2>8, <2>9, <2>10, <2>11, <2>12, <2>13
       DEF Next
<1> QED
  BY <1>1, <1>2

\* Every run of the machine is a run of Scopes: a variable that closures have captured keeps
\* its value when its scope ends, when its slot is reused or moved, when the frame is
\* replaced by a tail call and when its machine waits; and the result of a thunk is written
\* back to the variable it was read from.  Imported files make no tailstrict call at their
\* top level.
THEOREM MachineImplementsScopes == ASSUME ScriptTailCall = FALSE PROVE Spec => CapturesKeepValues
<1>1. Init => Program!Init
  BY InitMaps
<1>2. IInv /\ IInv' /\ [Next]_vars => [Program!Next]_Program!vars
  BY NextMaps
<1> QED
  BY <1>1, <1>2, UpvaluesInvariant, PTL DEF Spec, CapturesKeepValues, Program!Spec

=============================================================================
