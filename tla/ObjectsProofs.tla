--------------------------- MODULE ObjectsProofs ---------------------------
(***************************************************************************)
(* Proofs about Objects, for any keys, literals and programs: the types, no *)
(* assertion is lost; unless an object made by std.objectRemoveKey is added *)
(* to another, a field is found in the literal that defines it with the     *)
(* visibility that the literals give it; and, unless the % operator puts    *)
(* values in the place of thunks, too, the cache holds and manifestation    *)
(* writes out what the fields are worth.                                    *)
(***************************************************************************)
EXTENDS Objects, FiniteSetTheorems, SequenceTheorems, NaturalsInduction,
        WellFoundedInduction, TLAPS

----------------------------------------------------------------------------
(* The inductive invariant.  A node stands for its own literal, which lies   *)
(* on the layers of its base, and for the keys removed from it.              *)

Layers(n) == IF n = 0 THEN <<>> ELSE nodes[n].layers
Below(n) == Layers(nodes[n].base)
Own(n) == nodes[n].layers[Len(Below(n)) + 1]

NodeSound(n) ==
    LET ls == nodes[n].layers
        b == Len(Below(n))
    IN /\ nodes[n].base \in 0 .. n - 1
       /\ b < Len(ls)
       /\ \A i \in 1 .. b : ls[i] = Below(n)[i]
       /\ ls[b + 1].id # 0 /\ ls[b + 1].removes = {}
       /\ \A i \in b + 2 .. Len(ls) :
             /\ ls[i].id = 0 /\ ls[i].asserts = {} /\ ls[i].removes # {}
             /\ \A k \in Key : ls[i].fields[k] = None

Shape == \A n \in Object : NodeSound(n)

DeletedExact(n) ==
    \A k \in Key :
        k \in nodes[n].deleted <=>
            \E i \in Len(Below(n)) + 1 .. Len(nodes[n].layers) : k \in nodes[n].layers[i].removes

FieldsExact(n) ==
    \A k \in Key :
        LET mine == Own(n).fields[k]
            prop == nodes[n].props[k]
        IN /\ prop = None <=> (k \in nodes[n].deleted \/ mine = None)
           /\ prop # None =>
                 /\ program.formats \/ prop.body = mine.body
                 /\ prop.vis = IF mine.vis # "visible" THEN mine.vis ELSE VisibilityOf(Below(n), k)

NodesExact ==
    ~ program.mergesRemoved => \A n \in Object : DeletedExact(n) /\ FieldsExact(n)

\* A node has the assertions of its literal until they are run
AssertsExact ==
    \A n \in Object :
        nodes[n].asserts # Own(n).asserts => nodes[n].asserts = {} /\ Own(n).id \in ran

IInv == TypeOK /\ Shape /\ NodesExact /\ AssertsExact

----------------------------------------------------------------------------
(* Least and greatest *)

\* A nonempty set of naturals has a least element
LEMMA LeastIn ==
    ASSUME NEW T \in SUBSET Nat, T # {}
    PROVE  \E first \in T : \A j \in T : first <= j
<1> DEFINE R == OpToRel(<, Nat)
<1>1. \A i, j \in Nat : i < j => <<i, j>> \in R
  BY DEF OpToRel
<1>2. IsWellFoundedOn(R, Nat)
  BY NatLessThanWellFounded
<1> HIDE DEF R
<1>3. PICK first \in T : \A j \in T : ~(<<j, first>> \in R)
  BY <1>2, WFMin
<1>4. ASSUME NEW j \in T PROVE first <= j
  <2>1. first \in Nat /\ j \in Nat /\ ~(j < first)
    BY <1>1, <1>3
  <2> QED
    BY <2>1
<1> QED
  BY <1>4

\* What Highest returns
LEMMA HighestFacts ==
    ASSUME NEW m \in Nat, NEW S \in SUBSET (1 .. m)
    PROVE  /\ S = {} => Highest(S) = 0
           /\ S # {} => Highest(S) \in S /\ \A i \in S : i <= Highest(S)
<1>1. ASSUME S # {} PROVE Highest(S) \in S /\ \A i \in S : i <= Highest(S)
  <2> DEFINE T == {m - i : i \in S}
  <2>0. \A i \in S : i \in Nat /\ m - i \in Nat
    OBVIOUS
  <2>1. T \in SUBSET Nat /\ T # {}
    BY <1>1, <2>0
  <2>2. PICK first \in T : \A j \in T : first <= j
    BY <2>1, LeastIn
  <2>3. PICK h \in S : first = m - h
    BY <2>2
  <2>4. \A i \in S : i <= h
    BY <2>2, <2>3
  <2> HIDE DEF T
  <2>5. \E j \in S : \A i \in S : i <= j
    BY <2>4
  <2> QED
    BY <1>1, <2>5 DEF Highest
<1> QED
  BY <1>1 DEF Highest

\* Highest is the only one that no other exceeds
LEMMA HighestIs ==
    ASSUME NEW m \in Nat, NEW S \in SUBSET (1 .. m), NEW h \in S, \A i \in S : i <= h
    PROVE  Highest(S) = h
<1>1. Highest(S) \in S /\ h <= Highest(S) /\ Highest(S) <= h
  BY HighestFacts
<1>2. \A i \in S : i \in Int
  OBVIOUS
<1>3. \A i, j \in Int : i <= j /\ j <= i => i = j
  OBVIOUS
<1>4. h \in Int /\ Highest(S) \in Int
  BY <1>1, <1>2
<1> QED
  BY <1>1, <1>3, <1>4

----------------------------------------------------------------------------
(* The chain of an object *)

\* Nodes have their types
LEMMA NodeFacts ==
    ASSUME TypeOK
    PROVE  /\ Len(nodes) \in Nat
           /\ \A n \in Object : n \in Nat \ {0} /\ nodes[n] \in Node
           /\ \A n \in Object \cup {0} : Layers(n) \in Seq(Layer) /\ Len(Layers(n)) \in Nat
<1>1. nodes \in Seq(Node) /\ Len(nodes) \in Nat
  BY DEF TypeOK
<1>2. ASSUME NEW n \in Object PROVE n \in Nat \ {0} /\ nodes[n] \in Node
  <2>1. n \in 1 .. Len(nodes)
    BY DEF Object
  <2> QED
    BY <1>1, <2>1, ElementOfSeq
<1>3. ASSUME NEW n \in Object \cup {0} PROVE Layers(n) \in Seq(Layer)
  <2>1. CASE n = 0
    BY <2>1 DEF Layers
  <2>2. CASE n # 0
    <3>1. nodes[n] \in Node
      BY <1>2, <2>2
    <3> QED
      BY <2>2, <3>1 DEF Layers, Node
  <2> QED
    BY <2>1, <2>2
<1>4. \A s \in Seq(Layer) : Len(s) \in Nat
  BY LenProperties
<1> QED
  BY <1>1, <1>2, <1>3, <1>4

\* A node lies on its base and has more layers than that
LEMMA SoundFacts ==
    ASSUME TypeOK, Shape, NEW n \in Object
    PROVE  /\ nodes[n] \in Node /\ nodes[n].layers \in Seq(Layer) /\ Layers(n) = nodes[n].layers
           /\ nodes[n].base \in 0 .. n - 1 /\ nodes[n].base \in Object \cup {0}
           /\ Below(n) \in Seq(Layer) /\ Len(Below(n)) \in Nat
           /\ Len(nodes[n].layers) \in Nat /\ Len(Below(n)) < Len(nodes[n].layers)
           /\ Own(n) \in Layer
<1>1. nodes[n] \in Node /\ n \in Nat \ {0} /\ n <= Len(nodes) /\ Len(nodes) \in Nat
  BY NodeFacts DEF Object
<1>2. nodes[n].layers \in Seq(Layer) /\ Layers(n) = nodes[n].layers
  BY <1>1 DEF Node, Layers
<1>3. nodes[n].base \in 0 .. n - 1
  BY DEF Shape, NodeSound
<1>4. nodes[n].base \in Object \cup {0}
  BY <1>1, <1>3 DEF Object
<1>5. Below(n) \in Seq(Layer) /\ Len(Below(n)) \in Nat
  BY <1>4, NodeFacts DEF Below
<1>6. Len(Below(n)) < Len(nodes[n].layers) /\ Len(nodes[n].layers) \in Nat
  BY <1>2 DEF Shape, NodeSound
<1>7. Own(n) \in Layer
  BY <1>2, <1>5, <1>6 DEF Own
<1> QED
  BY <1>1, <1>2, <1>3, <1>4, <1>5, <1>6, <1>7

DownStep(f, n) == IF n = 0 THEN <<>> ELSE <<n>> \o f[nodes[n].base]

\* The recursive function of Chain is defined, as bases are smaller than what lies on them
LEMMA ChainExists ==
    ASSUME TypeOK, Shape
    PROVE  \E f : f = [n \in 0 .. Len(nodes) |-> DownStep(f, n)]
<1> DEFINE Good(f, m) == \A n \in 0 .. m : f[n] = DownStep(f, n)
           Bad == {m \in 0 .. Len(nodes) : ~ \E f : Good(f, m)}
<1>0. Len(nodes) \in Nat
  BY NodeFacts
<1>1. Bad = {}
  <2> SUFFICES ASSUME Bad # {} PROVE FALSE
    OBVIOUS
  <2>1. Bad \in SUBSET Nat
    BY <1>0
  <2>2. PICK m \in Bad : \A j \in Bad : m <= j
    BY <2>1, LeastIn
  <2>3. m \in 0 .. Len(nodes) /\ ~ \E f : Good(f, m)
    OBVIOUS
  <2>4. CASE m = 0
    <3> DEFINE f == [n \in {0} |-> <<>>]
    <3>1. Good(f, m)
      BY <2>4 DEF DownStep
    <3> QED
      BY <2>3, <3>1
  <2>5. CASE m # 0
    <3>1. m \in Object /\ m - 1 \in 0 .. Len(nodes) /\ m \in Nat
      BY <1>0, <2>3, <2>5 DEF Object
    <3>2. m - 1 \notin Bad
      <4>1. m - 1 < m /\ m - 1 \in Int /\ m \in Int
        BY <3>1
      <4> HIDE DEF Bad
      <4> QED
        BY <2>2, <4>1
    <3>3. PICK f : Good(f, m - 1)
      BY <3>1, <3>2
    <3> DEFINE g == [n \in 0 .. m |-> IF n = m THEN <<m>> \o f[nodes[m].base] ELSE f[n]]
    <3>4. ASSUME NEW n \in 0 .. m PROVE g[n] = DownStep(g, n)
      <4>1. CASE n = m
        <5>1. nodes[m].base \in 0 .. m - 1
          BY <3>1, SoundFacts
        <5>2. nodes[m].base \in 0 .. m /\ nodes[m].base # m
          BY <3>1, <5>1
        <5>3. g[nodes[m].base] = f[nodes[m].base] /\ g[n] = <<m>> \o f[nodes[m].base]
          BY <4>1, <5>2
        <5> QED
          BY <2>5, <4>1, <5>3 DEF DownStep
      <4>2. CASE n = 0
        <5>1. 0 \in 0 .. m - 1 /\ 0 \in 0 .. m /\ 0 # m
          BY <2>5, <3>1
        <5>2. g[0] = f[0] /\ f[0] = DownStep(f, 0)
          BY <3>3, <5>1
        <5> QED
          BY <4>2, <5>2 DEF DownStep
      <4>3. CASE n # m /\ n # 0
        <5>1. n \in Object /\ n \in 0 .. m - 1 /\ n \in Nat
          BY <1>0, <2>3, <4>3 DEF Object
        <5>2. nodes[n].base \in 0 .. n - 1
          BY <5>1, SoundFacts
        <5>3. nodes[n].base \in 0 .. m /\ nodes[n].base # m
          BY <3>1, <5>1, <5>2
        <5>4. g[nodes[n].base] = f[nodes[n].base] /\ g[n] = f[n]
          BY <4>3, <5>3
        <5>5. f[n] = DownStep(f, n)
          BY <3>3, <5>1
        <5> QED
          BY <5>4, <5>5 DEF DownStep
      <4> QED
        BY <4>1, <4>2, <4>3
    <3> HIDE DEF g
    <3>5. Good(g, m)
      BY <3>4
    <3> QED
      BY <2>3, <3>5
  <2> QED
    BY <2>4, <2>5
<1>2. PICK f : Good(f, Len(nodes))
  BY <1>0, <1>1
<1> DEFINE g == [n \in 0 .. Len(nodes) |-> f[n]]
<1>3. ASSUME NEW n \in 0 .. Len(nodes) PROVE g[n] = DownStep(g, n)
  <2>1. CASE n = 0
    BY <1>2, <2>1 DEF DownStep
  <2>2. CASE n # 0
    <3>1. nodes[n].base \in 0 .. n - 1 /\ n \in Nat
      BY <2>2, SoundFacts DEF Object
    <3>2. nodes[n].base \in 0 .. Len(nodes)
      BY <1>0, <3>1
    <3> QED
      BY <1>2, <3>2 DEF DownStep
  <2> QED
    BY <2>1, <2>2
<1>4. g = [n \in 0 .. Len(nodes) |-> DownStep(g, n)]
  BY <1>3
<1> QED
  BY <1>4

\* A chain is an object and the chain of its base
LEMMA ChainEquation ==
    ASSUME TypeOK, Shape
    PROVE  /\ Chain(0) = <<>>
           /\ \A o \in Object : Chain(o) = <<o>> \o Chain(nodes[o].base)
<1> DEFINE D == CHOOSE g : g = [n \in 0 .. Len(nodes) |->
                                  IF n = 0 THEN <<>> ELSE <<n>> \o g[nodes[n].base]]
<1>1. \E g : g = [n \in 0 .. Len(nodes) |-> IF n = 0 THEN <<>> ELSE <<n>> \o g[nodes[n].base]]
  BY ChainExists DEF DownStep
<1>2. D = [n \in 0 .. Len(nodes) |-> IF n = 0 THEN <<>> ELSE <<n>> \o D[nodes[n].base]]
  BY <1>1
<1>3. \A o : Chain(o) = D[o]
  BY DEF Chain
<1> HIDE DEF D
<1>4. Len(nodes) \in Nat
  BY NodeFacts
<1>5. D[0] = <<>>
  BY <1>2, <1>4
<1>6. ASSUME NEW o \in Object PROVE D[o] = <<o>> \o D[nodes[o].base]
  <2>1. o \in 0 .. Len(nodes) /\ o # 0
    BY <1>4 DEF Object
  <2> QED
    BY <1>2, <2>1
<1> QED
  BY <1>3, <1>5, <1>6

\* A chain starts with the object and goes on from each node to its base.
ChainSound(o) ==
    LET c == Chain(o)
    IN /\ c \in Seq(Object) /\ Len(c) \in Nat \ {0} /\ c[1] = o
       /\ \A i \in 1 .. Len(c) :
             nodes[c[i]].base = IF i = Len(c) THEN 0 ELSE c[i + 1]

\* A chain begins with its object, descends along the bases and ends at the lowest node
LEMMA ChainFacts ==
    ASSUME TypeOK, Shape
    PROVE  \A o \in Object : ChainSound(o)
<1> DEFINE Bad == {o \in Object : ~ ChainSound(o)}
<1> SUFFICES ASSUME Bad # {} PROVE FALSE
  OBVIOUS
<1>0. Len(nodes) \in Nat /\ \A o \in Object : o \in Nat /\ o > 0
  BY NodeFacts DEF Object
<1>1. Bad \in SUBSET Nat
  BY <1>0
<1>2. PICK o \in Bad : \A p \in Bad : o <= p
  BY <1>1, LeastIn
<1>3. o \in Object /\ ~ ChainSound(o)
  OBVIOUS
<1> DEFINE base == nodes[o].base
           down == Chain(base)
           c == Chain(o)
<1>4. base \in 0 .. o - 1 /\ base \in Object \cup {0}
  BY <1>3, SoundFacts
<1>5. c = <<o>> \o down
  BY <1>3, ChainEquation
<1>6. base # 0 => ChainSound(base)
  <2> HAVE base # 0
  <2>1. base \in Object /\ base < o /\ o \in Int /\ base \in Int
    BY <1>0, <1>3, <1>4
  <2>2. base \notin Bad
    <3> HIDE DEF Bad, base
    <3> QED
      BY <1>2, <2>1
  <2> QED
    BY <2>1, <2>2
<1> HIDE DEF Bad, base
<1>7. down \in Seq(Object) /\ Len(down) \in Nat /\ (base = 0 => down = <<>>)
      /\ (base # 0 => Len(down) # 0 /\ down[1] = base)
  <2>1. CASE base = 0
    BY <2>1, ChainEquation, EmptySeq
  <2>2. CASE base # 0
    BY <1>6, <2>2 DEF ChainSound
  <2> QED
    BY <2>1, <2>2
<1>8. <<o>> \in Seq(Object) /\ Len(<<o>>) = 1 /\ <<o>>[1] = o
  BY <1>3
<1> HIDE DEF down, c
<1>9. c \in Seq(Object) /\ Len(c) = 1 + Len(down)
      /\ \A i \in 1 .. 1 + Len(down) : c[i] = IF i <= 1 THEN o ELSE down[i - 1]
  <2> DEFINE e == <<o>>
  <2>1. e \in Seq(Object) /\ Len(e) = 1 /\ e[1] = o /\ c = e \o down
    BY <1>5, <1>8
  <2> HIDE DEF e
  <2>2. /\ e \o down \in Seq(Object)
        /\ Len(e \o down) = Len(e) + Len(down)
        /\ \A i \in 1 .. Len(e) + Len(down) : (e \o down)[i] =
                     IF i <= Len(e) THEN e[i] ELSE down[i - Len(e)]
    BY <1>7, <2>1, ConcatProperties
  <2>3. \A i \in 1 .. 1 + Len(down) : i <= 1 => i = 1
    BY <1>7
  <2> QED
    BY <2>1, <2>2, <2>3
<1>10. ASSUME NEW i \in 1 .. Len(c)
       PROVE  nodes[c[i]].base = IF i = Len(c) THEN 0 ELSE c[i + 1]
  <2>1. CASE i = 1
    <3>1. c[i] = o /\ nodes[c[i]].base = base
      BY <1>7, <1>9, <2>1 DEF base
    <3>2. CASE base = 0
      BY <1>7, <1>9, <2>1, <3>1, <3>2, EmptySeq
    <3>3. CASE base # 0
      <4>1. i # Len(c) /\ i + 1 \in 1 .. 1 + Len(down) /\ ~(i + 1 <= 1) /\ (i + 1) - 1 = 1
        BY <1>7, <1>9, <2>1, <3>3
      <4>2. c[i + 1] = base
        BY <1>7, <1>9, <3>3, <4>1
      <4> QED
        BY <3>1, <4>1, <4>2
    <3> QED
      BY <3>2, <3>3
  <2>2. CASE i # 1
    <3>1. i - 1 \in 1 .. Len(down) /\ base # 0
      BY <1>7, <1>9, <2>2, EmptySeq
    <3>2. c[i] = down[i - 1]
      BY <1>7, <1>9, <2>2
    <3>3. nodes[down[i - 1]].base = IF i - 1 = Len(down) THEN 0 ELSE down[(i - 1) + 1]
      BY <1>6, <3>1 DEF ChainSound, down
    <3>4. CASE i = Len(c)
      BY <1>7, <1>9, <3>2, <3>3, <3>4
    <3>5. CASE i # Len(c)
      <4>1. i + 1 \in 1 .. 1 + Len(down) /\ ~(i + 1 <= 1) /\ (i + 1) - 1 = (i - 1) + 1
            /\ i - 1 # Len(down)
        BY <1>7, <1>9, <2>2, <3>5
      <4>2. c[i + 1] = down[(i + 1) - 1]
        BY <1>9, <4>1
      <4> QED
        BY <3>2, <3>3, <3>5, <4>1, <4>2
    <3> QED
      BY <3>4, <3>5
  <2> QED
    BY <2>1, <2>2
<1>11. ChainSound(o)
  <2>1. Len(c) \in Nat \ {0} /\ c[1] = o
    BY <1>7, <1>9
  <2> QED
    BY <1>9, <1>10, <2>1 DEF ChainSound, c
<1> QED
  BY <1>3, <1>11

\* The nodes of an object: it, and those of its base
LEMMA NodesOfFacts ==
    ASSUME TypeOK, Shape, NEW o \in Object
    PROVE  /\ NodesOf(o) \subseteq Object /\ o \in NodesOf(o)
           /\ nodes[o].base # 0 => NodesOf(nodes[o].base) \subseteq NodesOf(o)
           /\ \A n \in NodesOf(o) : nodes[n].base # 0 => nodes[n].base \in NodesOf(o)
<1> DEFINE c == Chain(o)
<1>1. c \in Seq(Object) /\ Len(c) \in Nat \ {0} /\ c[1] = o
      /\ \A i \in 1 .. Len(c) : nodes[c[i]].base = IF i = Len(c) THEN 0 ELSE c[i + 1]
  BY ChainFacts DEF ChainSound
<1>2. NodesOf(o) = {c[i] : i \in 1 .. Len(c)}
  BY DEF NodesOf
<1>3. c = <<o>> \o Chain(nodes[o].base)
  BY ChainEquation
<1> HIDE DEF c
<1>4. \A i \in 1 .. Len(c) : c[i] \in Object
  BY <1>1, ElementOfSeq
<1>5. 1 \in 1 .. Len(c)
  BY <1>1
<1>6. ASSUME NEW n \in NodesOf(o), nodes[n].base # 0 PROVE nodes[n].base \in NodesOf(o)
  <2>1. PICK i \in 1 .. Len(c) : n = c[i]
    BY <1>2
  <2>2. i # Len(c) /\ nodes[n].base = c[i + 1]
    BY <1>1, <1>6, <2>1
  <2>3. i + 1 \in 1 .. Len(c)
    BY <1>1, <2>2
  <2> QED
    BY <1>2, <2>2, <2>3
<1>7. ASSUME nodes[o].base # 0 PROVE NodesOf(nodes[o].base) \subseteq NodesOf(o)
  <2> DEFINE base == nodes[o].base
             down == Chain(base)
  <2>1. base \in Object
    BY <1>7, SoundFacts
  <2>2. down \in Seq(Object) /\ Len(down) \in Nat
    BY <2>1, ChainFacts DEF ChainSound
  <2>3. NodesOf(base) = {down[i] : i \in 1 .. Len(down)}
    BY DEF NodesOf
  <2>4. <<o>> \in Seq(Object) /\ Len(<<o>>) = 1
    OBVIOUS
  <2>5. c = <<o>> \o down
    BY <1>3
  <2> HIDE DEF base, down
  <2>6. Len(c) = 1 + Len(down)
        /\ \A i \in 1 .. 1 + Len(down) : c[i] = IF i <= 1 THEN <<o>>[i] ELSE down[i - 1]
    <3> DEFINE e == <<o>>
    <3>1. e \in Seq(Object) /\ Len(e) = 1 /\ c = e \o down
      BY <2>4, <2>5
    <3> HIDE DEF e
    <3>2. /\ Len(c) = 1 + Len(down)
          /\ \A i \in 1 .. 1 + Len(down) : c[i] = IF i <= 1 THEN e[i] ELSE down[i - 1]
      BY <2>2, <3>1, ConcatProperties
    <3> QED
      BY <3>2 DEF e
  <2>7. ASSUME NEW i \in 1 .. Len(down) PROVE down[i] \in NodesOf(o)
    <3>1. i + 1 \in 1 .. Len(c) /\ ~(i + 1 <= 1) /\ (i + 1) - 1 = i
      BY <2>2, <2>6
    <3>2. c[i + 1] = down[i]
      BY <2>6, <3>1
    <3> QED
      BY <1>2, <3>1, <3>2
  <2>8. NodesOf(base) \subseteq NodesOf(o)
    BY <2>3, <2>7
  <2> QED
    BY <2>8 DEF base
<1> QED
  BY <1>1, <1>2, <1>4, <1>5, <1>6, <1>7

----------------------------------------------------------------------------
(* Where a field is found *)

Hits(o, k) ==
    {i \in 1 .. Len(Chain(o)) :
        /\ nodes[Chain(o)[i]].props[k] # None
        /\ \A j \in 1 .. i : k \notin nodes[Chain(o)[j]].deleted}

\* The least member of a set is the one that CHOOSE gives
LEMMA LeastHit ==
    ASSUME NEW S \in SUBSET Nat, NEW h \in S, \A i \in S : h <= i
    PROVE  (CHOOSE i \in S : \A j \in S : i <= j) = h
<1> DEFINE x == CHOOSE i \in S : \A j \in S : i <= j
<1>1. x \in S /\ \A j \in S : x <= j
  OBVIOUS
<1> HIDE DEF x
<1>2. \A i \in S : i \in Int
  OBVIOUS
<1>3. x \in Int /\ h \in Int /\ x <= h /\ h <= x
  BY <1>1, <1>2
<1>4. x = h
  BY <1>3
<1> QED
  BY <1>4 DEF x

\* The lookup goes down the chain.
LEMMA ResolutionFacts ==
    ASSUME TypeOK, Shape, NEW k \in Key
    PROVE  /\ Resolution(0, k) = 0
           /\ \A o \in Object :
                 Resolution(o, k) = IF k \in nodes[o].deleted THEN 0
                                    ELSE IF nodes[o].props[k] # None THEN o
                                    ELSE Resolution(nodes[o].base, k)
<1>0. Resolution(0, k) = 0
  <2>1. Len(Chain(0)) = 0
    BY ChainEquation, EmptySeq
  <2>2. 1 .. Len(Chain(0)) = {}
    BY <2>1
  <2> QED
    BY <2>2 DEF Resolution
<1>1. ASSUME NEW o \in Object
      PROVE  Resolution(o, k) = IF k \in nodes[o].deleted THEN 0
                                ELSE IF nodes[o].props[k] # None THEN o
                                ELSE Resolution(nodes[o].base, k)
  <2> DEFINE c == Chain(o)
             base == nodes[o].base
             down == Chain(base)
             S == Hits(o, k)
             T == Hits(base, k)
  <2>1. c \in Seq(Object) /\ Len(c) \in Nat \ {0} /\ c[1] = o
    BY ChainFacts DEF ChainSound
  <2>2. Resolution(o, k) =
           IF S = {} THEN 0 ELSE c[CHOOSE i \in S : \A j \in S : i <= j]
    BY DEF Resolution, Hits
  <2>3. Resolution(base, k) =
           IF T = {} THEN 0 ELSE down[CHOOSE i \in T : \A j \in T : i <= j]
    BY DEF Resolution, Hits
  <2>4. down \in Seq(Object) /\ Len(down) \in Nat
    <3>1. CASE base = 0
      <4>1. Chain(0) \in Seq(Object) /\ Len(Chain(0)) = 0
        BY ChainEquation, EmptySeq
      <4>2. down = Chain(0)
        BY <3>1
      <4> HIDE DEF down
      <4> QED
        BY <4>1, <4>2
    <3>2. CASE base # 0
      <4>1. base \in Object
        BY <3>2, SoundFacts
      <4> QED
        BY <4>1, ChainFacts DEF ChainSound
    <3> QED
      BY <3>1, <3>2
  <2>5. c = <<o>> \o down
    BY ChainEquation
  <2>6. S = {i \in 1 .. Len(c) : /\ nodes[c[i]].props[k] # None
                                 /\ \A j \in 1 .. i : k \notin nodes[c[j]].deleted}
    BY DEF Hits
  <2>7. T = {i \in 1 .. Len(down) : /\ nodes[down[i]].props[k] # None
                                    /\ \A j \in 1 .. i : k \notin nodes[down[j]].deleted}
    BY DEF Hits
  <2> HIDE DEF c, down, S, T
  <2>8. Len(c) = 1 + Len(down) /\ \A i \in 1 .. Len(down) : c[i + 1] = down[i]
    <3> DEFINE e == <<o>>
    <3>1. e \in Seq(Object) /\ Len(e) = 1 /\ c = e \o down
      BY <2>5
    <3> HIDE DEF e
    <3>2. /\ Len(c) = 1 + Len(down)
          /\ \A i \in 1 .. 1 + Len(down) : c[i] = IF i <= 1 THEN e[i] ELSE down[i - 1]
      BY <2>4, <3>1, ConcatProperties
    <3>3. ASSUME NEW i \in 1 .. Len(down) PROVE c[i + 1] = down[i]
      <4>1. i + 1 \in 1 .. 1 + Len(down) /\ ~(i + 1 <= 1) /\ (i + 1) - 1 = i
        BY <2>4
      <4> QED
        BY <3>2, <4>1
    <3> QED
      BY <3>2, <3>3
  <2>9. 1 \in 1 .. Len(c) /\ \A i \in 1 .. Len(c) : 1 \in 1 .. i
    BY <2>1
  <2>10. CASE k \in nodes[o].deleted
    <3>1. S = {}
      BY <2>1, <2>6, <2>9, <2>10
    <3> QED
      BY <2>2, <2>10, <3>1
  <2>11. CASE k \notin nodes[o].deleted /\ nodes[o].props[k] # None
    <3>1. \A j \in 1 .. 1 : j = 1
      OBVIOUS
    <3>2. 1 \in S
      BY <2>1, <2>6, <2>9, <2>11, <3>1
    <3>3. S \in SUBSET Nat /\ \A i \in S : 1 <= i
      BY <2>1, <2>6
    <3>4. (CHOOSE i \in S : \A j \in S : i <= j) = 1
      BY <3>2, <3>3, LeastHit
    <3> QED
      BY <2>1, <2>2, <2>11, <3>2, <3>4
  <2>12. CASE k \notin nodes[o].deleted /\ nodes[o].props[k] = None
    <3>1. ASSUME NEW i \in T PROVE i + 1 \in S
      <4>1. i \in 1 .. Len(down) /\ nodes[down[i]].props[k] # None
            /\ \A j \in 1 .. i : k \notin nodes[down[j]].deleted
        BY <2>7
      <4>2. i + 1 \in 1 .. Len(c) /\ c[i + 1] = down[i]
        BY <2>4, <2>8, <4>1
      <4>3. ASSUME NEW j \in 1 .. i + 1 PROVE k \notin nodes[c[j]].deleted
        <5>1. CASE j = 1
          BY <2>1, <2>12, <5>1
        <5>2. CASE j # 1
          <6>1. j - 1 \in 1 .. i /\ j - 1 \in 1 .. Len(down) /\ (j - 1) + 1 = j
            BY <2>4, <4>1, <5>2
          <6>2. c[j] = down[j - 1]
            BY <2>8, <6>1
          <6> QED
            BY <4>1, <6>1, <6>2
        <5> QED
          BY <5>1, <5>2
      <4> QED
        BY <2>6, <4>1, <4>2, <4>3
    <3>2. ASSUME NEW i \in S PROVE i \in Nat /\ i - 1 \in T /\ i \in 1 .. Len(c)
      <4>1. i \in 1 .. Len(c) /\ nodes[c[i]].props[k] # None
            /\ \A j \in 1 .. i : k \notin nodes[c[j]].deleted
        BY <2>6
      <4>2. i # 1
        BY <2>1, <2>12, <4>1
      <4>3. i - 1 \in 1 .. Len(down) /\ (i - 1) + 1 = i
        BY <2>4, <2>8, <4>1, <4>2
      <4>4. c[i] = down[i - 1]
        BY <2>8, <4>3
      <4>5. ASSUME NEW j \in 1 .. i - 1 PROVE k \notin nodes[down[j]].deleted
        <5>1. j \in 1 .. Len(down) /\ j + 1 \in 1 .. i
          BY <2>4, <4>3
        <5> QED
          BY <2>8, <4>1, <5>1
      <4> QED
        BY <2>7, <4>1, <4>3, <4>4, <4>5
    <3>3. CASE T = {}
      <4>1. S = {}
        BY <3>2, <3>3
      <4> QED
        BY <2>2, <2>3, <2>12, <3>3, <4>1
    <3>4. CASE T # {}
      <4>1. T \in SUBSET Nat
        BY <2>4, <2>7
      <4>2. PICK h \in T : \A j \in T : h <= j
        BY <3>4, <4>1, LeastIn
      <4>3. h + 1 \in S /\ S \in SUBSET Nat
        BY <3>1, <3>2
      <4>4. ASSUME NEW i \in S PROVE h + 1 <= i
        <5>1. i - 1 \in T /\ i \in Nat /\ h \in Nat
          BY <3>2, <4>1
        <5>2. h <= i - 1
          BY <4>2, <5>1
        <5> QED
          BY <5>1, <5>2
      <4>5. (CHOOSE i \in S : \A j \in S : i <= j) = h + 1
        BY <4>3, <4>4, LeastHit
      <4>6. (CHOOSE i \in T : \A j \in T : i <= j) = h
        BY <4>1, <4>2, LeastHit
      <4>7. Resolution(o, k) = c[h + 1] /\ Resolution(base, k) = down[h]
        BY <2>2, <2>3, <3>4, <4>3, <4>5, <4>6
      <4>8. h \in 1 .. Len(down)
        BY <2>7
      <4>9. c[h + 1] = down[h]
        BY <2>8, <4>8
      <4> QED
        BY <2>12, <4>7, <4>9
    <3> QED
      BY <3>3, <3>4
  <2> QED
    BY <2>10, <2>11, <2>12
<1> QED
  BY <1>0, <1>1

\* Resolution gives a node of the chain that has the field, or 0
LEMMA ResolutionType ==
    ASSUME TypeOK, Shape, NEW o \in Object \cup {0}, NEW k \in Key
    PROVE  /\ Resolution(o, k) \in Object \cup {0}
           /\ Resolution(o, k) # 0 => /\ nodes[Resolution(o, k)].props[k] \in Field
                                       /\ FieldOf(o, k) \in Field
<1> DEFINE Good(n) == Resolution(n, k) # 0 =>
                         /\ Resolution(n, k) \in Object
                         /\ nodes[Resolution(n, k)].props[k] # None
           Bad == {n \in Object : ~ Good(n)}
<1>1. Len(nodes) \in Nat /\ \A n \in Object : n \in Nat
  BY NodeFacts
<1>2. Good(0)
  BY ResolutionFacts
<1>3. Bad = {}
  <2> SUFFICES ASSUME Bad # {} PROVE FALSE
    OBVIOUS
  <2>1. Bad \in SUBSET Nat
    BY <1>1
  <2>2. PICK n \in Bad : \A j \in Bad : n <= j
    BY <2>1, LeastIn
  <2>3. n \in Object /\ n \in Nat /\ ~ Good(n)
    BY <1>1
  <2>4. nodes[n].base \in 0 .. n - 1 /\ nodes[n].base \in Object \cup {0}
    BY <2>3, SoundFacts
  <2>5. nodes[n].base < n /\ nodes[n].base \in Int
    BY <2>3, <2>4
  <2>6. nodes[n].base \notin Bad
    <3> HIDE DEF Bad
    <3> QED
      BY <2>2, <2>3, <2>5
  <2>7. Good(nodes[n].base)
    BY <1>2, <2>4, <2>6
  <2>8. Good(n)
    <3> HIDE DEF Bad
    <3> QED
      BY <2>3, <2>7, ResolutionFacts
  <2> QED
    BY <2>3, <2>8
<1>4. Good(o)
  BY <1>2, <1>3
<1>5. ASSUME Resolution(o, k) # 0 PROVE nodes[Resolution(o, k)].props[k] \in Field
  <2>1. nodes[Resolution(o, k)] \in Node
    BY <1>4, <1>5, NodeFacts
  <2>2. nodes[Resolution(o, k)].props[k] \in Field \cup {None}
    BY <2>1 DEF Node, Fields
  <2> QED
    BY <1>4, <1>5, <2>2
<1> QED
  BY <1>4, <1>5 DEF FieldOf

----------------------------------------------------------------------------
(* What the layers of a node define *)

\* The layers of a node are those of its base, its literal, and removals.
LEMMA LayersFacts ==
    ASSUME TypeOK, Shape, NEW n \in Object
    PROVE  LET ls == nodes[n].layers
               b == Len(Below(n))
           IN /\ \A i \in 1 .. Len(ls) : i <= b \/ i = b + 1 \/ i \in b + 2 .. Len(ls)
              /\ \A i \in 1 .. b : ls[i] = Below(n)[i]
              /\ b + 1 \in 1 .. Len(ls) /\ ls[b + 1] = Own(n)
              /\ Own(n).id # 0 /\ Own(n).removes = {}
              /\ \A i \in b + 2 .. Len(ls) :
                    /\ ls[i].id = 0 /\ ls[i].asserts = {} /\ ls[i].removes # {}
                    /\ \A k \in Key : ls[i].fields[k] = None
<1> DEFINE ls == nodes[n].layers
           b == Len(Below(n))
<1>1. Len(ls) \in Nat /\ b \in Nat /\ b < Len(ls)
  BY SoundFacts
<1>2. NodeSound(n)
  BY DEF Shape
<1>3. ls[b + 1] = Own(n)
  BY DEF Own
<1> QED
  BY <1>1, <1>2, <1>3 DEF NodeSound

\* The definitions of a field in a node: those in its base and its own literal, unless it is removed
LEMMA DefinitionsFacts ==
    ASSUME IInv, ~ program.mergesRemoved, NEW n \in Object, NEW k \in Key
    PROVE  LET defs == Definitions(nodes[n].layers, k)
               b == Len(Below(n))
           IN /\ k \in nodes[n].deleted => defs = {}
              /\ k \notin nodes[n].deleted =>
                    defs = IF nodes[n].props[k] # None
                           THEN Definitions(Below(n), k) \cup {b + 1}
                           ELSE Definitions(Below(n), k)
<1> DEFINE ls == nodes[n].layers
           b == Len(Below(n))
           B == Below(n)
<1>0. TypeOK /\ Shape /\ DeletedExact(n) /\ FieldsExact(n)
  BY DEF IInv, NodesExact
<1>1. Len(ls) \in Nat /\ b \in Nat /\ b < Len(ls)
  BY <1>0, SoundFacts
<1>2. /\ \A i \in 1 .. Len(ls) : i <= b \/ i = b + 1 \/ i \in b + 2 .. Len(ls)
      /\ \A i \in 1 .. b : ls[i] = B[i]
      /\ b + 1 \in 1 .. Len(ls) /\ ls[b + 1] = Own(n)
      /\ Own(n).removes = {}
      /\ \A i \in b + 2 .. Len(ls) : ls[i].fields[k] = None
  BY <1>0, LayersFacts
<1>3. k \in nodes[n].deleted <=> \E i \in b + 1 .. Len(ls) : k \in ls[i].removes
  BY <1>0 DEF DeletedExact
<1>4. nodes[n].props[k] = None <=> (k \in nodes[n].deleted \/ Own(n).fields[k] = None)
  BY <1>0 DEF FieldsExact
<1> DEFINE D == Definitions(ls, k)
           E == Definitions(B, k)
<1>5. D = {j \in 1 .. Len(ls) : /\ ls[j].fields[k] # None
                                /\ \A i \in j .. Len(ls) : k \notin ls[i].removes}
  BY DEF Definitions
<1>6. E = {j \in 1 .. b : /\ B[j].fields[k] # None
                          /\ \A i \in j .. b : k \notin B[i].removes}
  BY DEF Definitions
<1> HIDE DEF D, E, ls, b, B
<1>7. CASE k \in nodes[n].deleted
  <2>1. PICK r \in b + 1 .. Len(ls) : k \in ls[r].removes
    BY <1>3, <1>7
  <2>2. ASSUME NEW j \in D PROVE FALSE
    <3>1. j \in 1 .. Len(ls) /\ ls[j].fields[k] # None
          /\ \A i \in j .. Len(ls) : k \notin ls[i].removes
      BY <1>5
    <3>2. j <= b \/ j = b + 1
      BY <1>2, <3>1
    <3>3. r \in j .. Len(ls)
      BY <1>1, <2>1, <3>1, <3>2
    <3> QED
      BY <2>1, <3>1, <3>3
  <2>3. D = {}
    BY <2>2
  <2> QED
    BY <1>7, <2>3 DEF D, ls
<1>8. CASE k \notin nodes[n].deleted
  <2>0. \A i \in b + 1 .. Len(ls) : k \notin ls[i].removes
    BY <1>3, <1>8
  <2>1. ASSUME NEW j \in 1 .. b PROVE j \in D <=> j \in E
    <3>1. j \in 1 .. Len(ls) /\ ls[j] = B[j]
      BY <1>1, <1>2
    <3>2. (\A i \in j .. Len(ls) : k \notin ls[i].removes) <=> \A i \in j .. b : k \notin B[i].removes
      <4>1. \A i \in j .. b : i \in 1 .. b /\ i \in j .. Len(ls) /\ ls[i] = B[i]
        BY <1>1, <1>2
      <4>2. \A i \in j .. Len(ls) : i \in j .. b \/ i \in b + 1 .. Len(ls)
        BY <1>1
      <4> QED
        BY <2>0, <4>1, <4>2
    <3> QED
      BY <1>5, <1>6, <3>1, <3>2
  <2>2. ASSUME NEW j \in D PROVE j \in 1 .. b \/ (j = b + 1 /\ Own(n).fields[k] # None)
    <3>1. j \in 1 .. Len(ls) /\ ls[j].fields[k] # None
      BY <1>5
    <3> QED
      BY <1>1, <1>2, <3>1
  <2>3. \A j \in E : j \in 1 .. b
    BY <1>6
  <2>4. CASE nodes[n].props[k] # None
    <3>1. Own(n).fields[k] # None
      BY <1>4, <2>4
    <3>2. b + 1 \in D
      BY <1>2, <1>5, <2>0, <3>1
    <3>3. D = E \cup {b + 1}
      BY <2>1, <2>2, <2>3, <3>2
    <3> QED
      BY <1>8, <2>4, <3>3 DEF D, E, ls, b, B
  <2>5. CASE nodes[n].props[k] = None
    <3>1. Own(n).fields[k] = None
      BY <1>4, <1>8, <2>5
    <3>2. D = E
      BY <2>1, <2>2, <2>3, <3>1
    <3> QED
      BY <1>8, <2>5, <3>2 DEF D, E, ls, b, B
  <2> QED
    BY <2>4, <2>5
<1> QED
  BY <1>7, <1>8

\* Definition gives a layer that has the field, or 0
LEMMA DefinitionsType ==
    ASSUME NEW ls \in Seq(Layer), NEW k \in Key
    PROVE  /\ Len(ls) \in Nat /\ Definitions(ls, k) \in SUBSET (1 .. Len(ls))
           /\ \A j \in Definitions(ls, k) : ls[j] \in Layer /\ ls[j].fields[k] \in Field
<1>1. \A j \in Definitions(ls, k) : j \in 1 .. Len(ls) /\ ls[j].fields[k] # None
  BY DEF Definitions
<1>2. ASSUME NEW j \in Definitions(ls, k) PROVE ls[j] \in Layer /\ ls[j].fields[k] \in Field
  <2>1. ls[j] \in Layer /\ ls[j].fields[k] # None
    BY <1>1, ElementOfSeq
  <2> QED
    BY <2>1 DEF Layer, Fields
<1> QED
  BY <1>1, <1>2, LenProperties

\* The visibility that a literal on top of others gives
LEMMA VisibilityFacts ==
    ASSUME NEW B \in Seq(Layer), NEW ls \in Seq(Layer), NEW k \in Key,
           \A i \in 1 .. Len(B) : ls[i] = B[i], Len(B) < Len(ls)
    PROVE  /\ Definitions(ls, k) = Definitions(B, k) => VisibilityOf(ls, k) = VisibilityOf(B, k)
           /\ Definitions(ls, k) = Definitions(B, k) \cup {Len(B) + 1} =>
                 LET vis == ls[Len(B) + 1].fields[k].vis
                 IN VisibilityOf(ls, k) = IF vis # "visible" THEN vis ELSE VisibilityOf(B, k)
<1> DEFINE b == Len(B)
           E == Definitions(B, k)
           D == Definitions(ls, k)
           SetB == {j \in E : B[j].fields[k].vis # "visible"}
           SetL == {j \in D : ls[j].fields[k].vis # "visible"}
<1>1. b \in Nat /\ Len(ls) \in Nat /\ E \in SUBSET (1 .. b) /\ b < Len(ls)
  BY DefinitionsType
<1>2. VisibilityOf(B, k) = IF SetB = {} THEN "visible" ELSE B[Highest(SetB)].fields[k].vis
  BY DEF VisibilityOf
<1>3. VisibilityOf(ls, k) = IF SetL = {} THEN "visible" ELSE ls[Highest(SetL)].fields[k].vis
  BY DEF VisibilityOf
<1>4. \A j \in E : ls[j] = B[j]
  BY <1>1
<1>5. SetB # {} => Highest(SetB) \in SetB
  BY <1>1, HighestFacts
<1>6. ASSUME SetL = SetB PROVE VisibilityOf(ls, k) = VisibilityOf(B, k)
  <2>1. SetB # {} => ls[Highest(SetB)] = B[Highest(SetB)]
    BY <1>4, <1>5
  <2> HIDE DEF SetB, SetL
  <2> QED
    BY <1>2, <1>3, <1>6, <2>1
<1>7. ASSUME D = E PROVE VisibilityOf(ls, k) = VisibilityOf(B, k)
  <2>1. SetL = SetB
    BY <1>4, <1>7
  <2> QED
    BY <1>6, <2>1
<1>8. ASSUME D = E \cup {b + 1}
      PROVE  LET vis == ls[b + 1].fields[k].vis
             IN VisibilityOf(ls, k) = IF vis # "visible" THEN vis ELSE VisibilityOf(B, k)
  <2>1. CASE ls[b + 1].fields[k].vis = "visible"
    <3>1. SetL = SetB
      BY <1>4, <1>8, <2>1
    <3> QED
      BY <1>6, <2>1, <3>1
  <2>2. CASE ls[b + 1].fields[k].vis # "visible"
    <3>1. SetL = SetB \cup {b + 1}
      BY <1>4, <1>8, <2>2
    <3>2. SetL \in SUBSET (1 .. b + 1) /\ b + 1 \in SetL /\ \A j \in SetL : j <= b + 1
      BY <1>1, <3>1
    <3> HIDE DEF SetL
    <3>3. Highest(SetL) = b + 1
      <4>1. b + 1 \in Nat
        BY <1>1
      <4> QED
        BY <3>2, <4>1, HighestIs
    <3> QED
      BY <1>3, <2>2, <3>2, <3>3
  <2> QED
    BY <2>1, <2>2
<1> QED
  BY <1>7, <1>8

----------------------------------------------------------------------------
(* What the invariant says of fields, visibility and assertions *)

\* By induction along the chain: the field found is that of the defining layer
LEMMA FieldFacts ==
    ASSUME IInv, ~ program.mergesRemoved, NEW o \in Object, NEW k \in Key
    PROVE  LET ls == nodes[o].layers
               j == Definition(ls, k)
               found == Resolution(o, k)
           IN /\ j = 0 <=> found = 0
              /\ j # 0 => /\ program.formats \/ nodes[found].props[k].body = ls[j].fields[k].body
                          /\ SubSeq(ls, 1, j - 1) =
                                IF nodes[found].base = 0 THEN <<>> ELSE nodes[nodes[found].base].layers
                          /\ nodes[found].props[k].vis = VisibilityOf(ls, k)
              /\ j = 0 => VisibilityOf(ls, k) = "visible"
<1> DEFINE Good(n) ==
       LET ls == nodes[n].layers
           j == Definition(ls, k)
           found == Resolution(n, k)
       IN /\ j = 0 <=> found = 0
          /\ j # 0 => /\ program.formats \/ nodes[found].props[k].body = ls[j].fields[k].body
                      /\ SubSeq(ls, 1, j - 1) =
                            IF nodes[found].base = 0 THEN <<>> ELSE nodes[nodes[found].base].layers
                      /\ nodes[found].props[k].vis = VisibilityOf(ls, k)
          /\ j = 0 => VisibilityOf(ls, k) = "visible"
    Bad == {n \in Object : ~ Good(n)}
<1>0. TypeOK /\ Shape
  BY DEF IInv
<1>1. Len(nodes) \in Nat /\ \A n \in Object : n \in Nat
  BY <1>0, NodeFacts
<1>2. Bad = {}
  <2> SUFFICES ASSUME Bad # {} PROVE FALSE
    OBVIOUS
  <2>1. Bad \in SUBSET Nat
    BY <1>1
  <2>2. PICK n \in Bad : \A j \in Bad : n <= j
    BY <2>1, LeastIn
  <2>3. n \in Object /\ n \in Nat /\ ~ Good(n)
    BY <1>1
  <2> DEFINE ls == nodes[n].layers
             base == nodes[n].base
             B == Below(n)
             b == Len(B)
  <2>4. base \in 0 .. n - 1 /\ base \in Object \cup {0}
    BY <1>0, <2>3, SoundFacts
  <2>5. ASSUME base # 0 PROVE Good(base)
    <3>1. base < n /\ base \in Int /\ base \in Object
      <4> HIDE DEF base, Good, Bad
      <4>1. base \in Object
        BY <2>4, <2>5
      <4> QED
        BY <2>3, <2>4, <4>1
    <3>2. base \notin Bad
      <4> HIDE DEF Bad
      <4> QED
        BY <2>2, <2>3, <3>1
    <3> QED
      BY <3>1, <3>2
  <2> HIDE DEF Bad
  <2>6. /\ ls \in Seq(Layer) /\ B \in Seq(Layer) /\ b \in Nat /\ Len(ls) \in Nat /\ b < Len(ls)
        /\ \A i \in 1 .. b : ls[i] = B[i]
        /\ ls[b + 1] = Own(n)
    <3>1. /\ \A i \in 1 .. Len(Below(n)) : nodes[n].layers[i] = Below(n)[i]
          /\ nodes[n].layers[Len(Below(n)) + 1] = Own(n)
      BY <1>0, <2>3, LayersFacts
    <3> QED
      BY <1>0, <2>3, <3>1, SoundFacts
  <2>7. B = IF base = 0 THEN <<>> ELSE nodes[base].layers
    BY DEF Below, Layers
  <2>8. FieldsExact(n)
    BY <2>3 DEF IInv, NodesExact
  <2> DEFINE D == Definitions(ls, k)
             E == Definitions(B, k)
  <2>9. /\ k \in nodes[n].deleted => D = {}
        /\ k \notin nodes[n].deleted =>
              D = IF nodes[n].props[k] # None THEN E \cup {b + 1} ELSE E
    BY <2>3, DefinitionsFacts
  <2>10. Resolution(n, k) = IF k \in nodes[n].deleted THEN 0
                            ELSE IF nodes[n].props[k] # None THEN n ELSE Resolution(base, k)
    BY <1>0, <2>3, ResolutionFacts
  <2>11. E \in SUBSET (1 .. b) /\ D \in SUBSET (1 .. Len(ls))
    BY <2>6, DefinitionsType
  <2>12. Definition(ls, k) = Highest(D) /\ Definition(B, k) = Highest(E)
    BY DEF Definition
  <2> HIDE DEF Good, D, E, b, B, ls
  <2>13. CASE k \in nodes[n].deleted
    <3>1. Definition(ls, k) = 0 /\ Resolution(n, k) = 0
      BY <2>6, <2>9, <2>10, <2>11, <2>12, <2>13, HighestFacts
    <3>2. VisibilityOf(ls, k) = "visible"
      BY <2>9, <2>13 DEF VisibilityOf, D
    <3>3. Good(n)
      BY <3>1, <3>2 DEF Good, ls
    <3> QED
      BY <2>3, <3>3
  <2>14. CASE k \notin nodes[n].deleted /\ nodes[n].props[k] # None
    <3>1. D = E \cup {b + 1} /\ b + 1 \in D /\ \A j \in D : j <= b + 1
      BY <2>6, <2>9, <2>11, <2>14
    <3>2. Definition(ls, k) = b + 1 /\ Resolution(n, k) = n /\ b + 1 # 0
      <4>1. Highest(D) = b + 1
        BY <2>6, <2>11, <3>1, HighestIs
      <4>2. b + 1 # 0
        BY <2>6
      <4> QED
        BY <2>10, <2>12, <2>14, <4>1, <4>2
    <3>3. /\ program.formats \/ nodes[n].props[k].body = Own(n).fields[k].body
          /\ nodes[n].props[k].vis = IF Own(n).fields[k].vis # "visible" THEN Own(n).fields[k].vis
                                     ELSE VisibilityOf(B, k)
      BY <2>8, <2>14 DEF FieldsExact, B
    <3>4. VisibilityOf(ls, k) = IF Own(n).fields[k].vis # "visible" THEN Own(n).fields[k].vis
                                ELSE VisibilityOf(B, k)
      BY <2>6, <3>1, VisibilityFacts DEF b, D, E
    <3>5. SubSeq(ls, 1, (b + 1) - 1) = B
      <4>1. (b + 1) - 1 = b
        BY <2>6
      <4>2. \A i \in 1 .. b : ls[i] \in Layer
        BY <2>6, ElementOfSeq DEF b
      <4>3. /\ SubSeq(ls, 1, b) \in Seq(Layer)
            /\ Len(SubSeq(ls, 1, b)) = IF 1 <= b THEN b - 1 + 1 ELSE 0
            /\ \A i \in 1 .. b - 1 + 1 : SubSeq(ls, 1, b)[i] = ls[1 + i - 1]
        BY <2>6, <4>2, SubSeqProperties
      <4>4. Len(SubSeq(ls, 1, b)) = b /\ \A i \in 1 .. b : SubSeq(ls, 1, b)[i] = B[i]
        BY <2>6, <4>3
      <4>5. SubSeq(ls, 1, b) = B
        BY <2>6, <4>3, <4>4, SeqEqual DEF b
      <4> QED
        BY <4>1, <4>5
    <3>6. /\ Definition(ls, k) # 0 /\ Resolution(n, k) # 0 /\ nodes[n].base = base
          /\ program.formats \/ nodes[n].props[k].body = ls[b + 1].fields[k].body
          /\ SubSeq(ls, 1, (b + 1) - 1) = IF base = 0 THEN <<>> ELSE nodes[base].layers
          /\ nodes[n].props[k].vis = VisibilityOf(ls, k)
      <4>1. n # 0
        BY <2>3 DEF Object
      <4> QED
        BY <2>6, <2>7, <3>2, <3>3, <3>4, <3>5, <4>1
    <3>7. Good(n)
      <4> HIDE DEF base
      <4> QED
        BY <3>2, <3>6 DEF Good, ls
    <3> QED
      BY <2>3, <3>7
  <2>15. CASE k \notin nodes[n].deleted /\ nodes[n].props[k] = None
    <3>1. D = E /\ Resolution(n, k) = Resolution(base, k) /\ Definition(ls, k) = Definition(B, k)
      BY <2>9, <2>10, <2>12, <2>15
    <3>2. VisibilityOf(ls, k) = VisibilityOf(B, k)
      BY <2>6, <3>1, VisibilityFacts DEF b, D, E
    <3>3. CASE base = 0
      <4>1. B = <<>> /\ b = 0
        BY <2>7, <3>3, EmptySeq DEF b
      <4>2. E = {}
        BY <2>11, <4>1
      <4>3. Definition(ls, k) = 0 /\ Resolution(n, k) = 0
        BY <1>0, <2>6, <2>11, <2>12, <3>1, <3>3, <4>2, HighestFacts, ResolutionFacts
      <4>4. VisibilityOf(ls, k) = "visible"
        BY <3>1, <4>2 DEF VisibilityOf, D
      <4>5. Good(n)
        BY <4>3, <4>4 DEF Good, ls
      <4> QED
        BY <2>3, <4>5
    <3>4. CASE base # 0
      <4> DEFINE found == Resolution(base, k)
                 j == Definition(B, k)
      <4>1. /\ j = 0 <=> found = 0
            /\ j # 0 => /\ program.formats \/ nodes[found].props[k].body = B[j].fields[k].body
                        /\ SubSeq(B, 1, j - 1) =
                              IF nodes[found].base = 0 THEN <<>> ELSE nodes[nodes[found].base].layers
                        /\ nodes[found].props[k].vis = VisibilityOf(B, k)
            /\ j = 0 => VisibilityOf(B, k) = "visible"
        <5>1. B = nodes[base].layers
          BY <2>7, <3>4
        <5> QED
          BY <2>5, <3>4, <5>1 DEF Good
      <4>2. ASSUME j # 0 PROVE ls[j] = B[j] /\ SubSeq(ls, 1, j - 1) = SubSeq(B, 1, j - 1)
        <5>1. j \in 1 .. b
          BY <2>6, <2>11, <2>12, <4>2, HighestFacts
        <5> HIDE DEF j
        <5>2. \A i \in 1 .. j - 1 : ls[i] = B[i] /\ ls[i] \in Layer
          <6>1. \A i \in 1 .. j - 1 : i \in 1 .. b /\ i \in 1 .. Len(ls)
            BY <2>6, <5>1
          <6> QED
            BY <2>6, <6>1, ElementOfSeq
        <5>3. j - 1 \in Int /\ (j - 1) - 1 + 1 = j - 1
          BY <5>1
        <5>4. /\ SubSeq(ls, 1, j - 1) \in Seq(Layer)
              /\ Len(SubSeq(ls, 1, j - 1)) = IF 1 <= j - 1 THEN j - 1 ELSE 0
              /\ \A i \in 1 .. j - 1 : SubSeq(ls, 1, j - 1)[i] = ls[1 + i - 1]
          BY <5>2, <5>3, SubSeqProperties
        <5>5. /\ SubSeq(B, 1, j - 1) \in Seq(Layer)
              /\ Len(SubSeq(B, 1, j - 1)) = IF 1 <= j - 1 THEN j - 1 ELSE 0
              /\ \A i \in 1 .. j - 1 : SubSeq(B, 1, j - 1)[i] = B[1 + i - 1]
          BY <5>2, <5>3, SubSeqProperties
        <5>6. \A i \in 1 .. Len(SubSeq(ls, 1, j - 1)) : SubSeq(ls, 1, j - 1)[i] = SubSeq(B, 1, j - 1)[i]
          <6>1. \A i \in 1 .. Len(SubSeq(ls, 1, j - 1)) : i \in 1 .. j - 1 /\ 1 + i - 1 = i
            BY <5>3, <5>4
          <6> QED
            BY <5>2, <5>4, <5>5, <6>1
        <5>7. SubSeq(ls, 1, j - 1) = SubSeq(B, 1, j - 1)
          BY <5>4, <5>5, <5>6, SeqEqual
        <5> QED
          BY <2>6, <5>1, <5>7
      <4>3. Good(n)
        BY <3>1, <3>2, <4>1, <4>2 DEF Good, ls
      <4> QED
        BY <2>3, <4>3
    <3> QED
      BY <3>3, <3>4
  <2> QED
    BY <2>13, <2>14, <2>15
<1>3. Good(o)
  BY <1>2
<1> QED
  BY <1>3

\* The two properties of fields follow from the invariant
LEMMA FieldsFollow == IInv /\ ~ program.mergesRemoved => FieldsResolve /\ VisibilityExact
<1> SUFFICES ASSUME IInv, ~ program.mergesRemoved PROVE FieldsResolve /\ VisibilityExact
  OBVIOUS
<1>1. FieldsResolve
  BY FieldFacts DEF FieldsResolve
<1>2. ASSUME NEW o \in Object, NEW k \in Key, Resolution(o, k) # 0
      PROVE  FieldOf(o, k).vis = VisibilityOf(nodes[o].layers, k)
  BY <1>2, FieldFacts DEF FieldOf
<1> QED
  BY <1>1, <1>2 DEF VisibilityExact

\* The origin of a node is its own literal
LEMMA OriginFacts == ASSUME TypeOK, Shape, NEW n \in Object PROVE Origin(n) = Own(n).id
<1> DEFINE ls == nodes[n].layers
           b == Len(Below(n))
           Top(i) == ls[i].id # 0 /\ \A j \in i + 1 .. Len(ls) : ls[j].id = 0
           x == CHOOSE i \in 1 .. Len(ls) : Top(i)
<1>1. b \in Nat /\ Len(ls) \in Nat /\ b < Len(ls)
  BY SoundFacts
<1>2. /\ \A i \in 1 .. Len(ls) : i <= b \/ i = b + 1 \/ i \in b + 2 .. Len(ls)
      /\ b + 1 \in 1 .. Len(ls) /\ ls[b + 1] = Own(n) /\ Own(n).id # 0
      /\ \A i \in b + 2 .. Len(ls) : ls[i].id = 0
  BY LayersFacts
<1>3. Origin(n) = ls[x].id
  BY DEF Origin
<1> HIDE DEF b, ls
<1>4. Top(b + 1)
  <2>1. (b + 1) + 1 = b + 2
    BY <1>1
  <2> QED
    BY <1>2, <2>1
<1>5. x \in 1 .. Len(ls) /\ Top(x)
  BY <1>2, <1>4
<1> HIDE DEF x
<1>6. ~(x \in b + 2 .. Len(ls))
  BY <1>2, <1>5
<1>7. ~(x <= b)
  <2> SUFFICES ASSUME x <= b PROVE FALSE
    OBVIOUS
  <2>1. b + 1 \in x + 1 .. Len(ls)
    BY <1>1, <1>5
  <2> QED
    BY <1>2, <1>5, <2>1
<1>8. x = b + 1
  BY <1>2, <1>5, <1>6, <1>7
<1> QED
  BY <1>2, <1>3, <1>8

\* A layer that has assertions is the literal of a node of the chain.
LEMMA AssertsBelong ==
    ASSUME TypeOK, Shape, NEW o \in Object, NEW i \in 1 .. Len(nodes[o].layers),
           nodes[o].layers[i].asserts # {}
    PROVE  \E n \in NodesOf(o) : nodes[o].layers[i] = Own(n)
<1> DEFINE Good(n) == \A j \in 1 .. Len(nodes[n].layers) :
                         nodes[n].layers[j].asserts # {} =>
                            \E m \in NodesOf(n) : nodes[n].layers[j] = Own(m)
           Bad == {n \in Object : ~ Good(n)}
<1>1. \A n \in Object : n \in Nat
  BY NodeFacts
<1>2. Bad = {}
  <2> SUFFICES ASSUME Bad # {} PROVE FALSE
    OBVIOUS
  <2>1. Bad \in SUBSET Nat
    BY <1>1
  <2>2. PICK n \in Bad : \A j \in Bad : n <= j
    BY <2>1, LeastIn
  <2>3. n \in Object /\ n \in Nat /\ ~ Good(n)
    BY <1>1
  <2> DEFINE base == nodes[n].base
  <2>4. base \in 0 .. n - 1 /\ base \in Object \cup {0}
    BY <2>3, SoundFacts
  <2>5. ASSUME base # 0 PROVE base \in Object /\ Good(base)
    <3> HIDE DEF base
    <3>1. base < n /\ base \in Int /\ base \in Object
      <4> HIDE DEF Bad
      <4> QED
        BY <2>3, <2>4, <2>5
    <3>2. base \notin Bad
      <4> HIDE DEF Bad
      <4> QED
        BY <2>2, <2>3, <3>1
    <3> QED
      BY <3>1, <3>2
  <2> HIDE DEF Bad
  <2>6. ASSUME NEW j \in 1 .. Len(nodes[n].layers), nodes[n].layers[j].asserts # {}
        PROVE  \E m \in NodesOf(n) : nodes[n].layers[j] = Own(m)
    <3>1. j <= Len(Below(n)) \/ j = Len(Below(n)) + 1
      BY <2>3, <2>6, LayersFacts
    <3>2. CASE j = Len(Below(n)) + 1
      <4>1. nodes[n].layers[j] = Own(n)
        BY <2>3, <3>2, LayersFacts
      <4> QED
        BY <2>3, <4>1, NodesOfFacts
    <3>3. CASE j <= Len(Below(n))
      <4>1. Len(Below(n)) \in Nat /\ j \in 1 .. Len(Below(n))
        BY <2>3, <3>3, SoundFacts
      <4>2. nodes[n].layers[j] = Below(n)[j]
        BY <2>3, <4>1, LayersFacts
      <4>3. base # 0
        <5>1. base = 0 => Below(n) = <<>>
          BY DEF Below, Layers
        <5> QED
          BY <4>1, <5>1, EmptySeq
      <4>4. Below(n) = nodes[base].layers
        BY <4>3 DEF Below, Layers
      <4>5. PICK m \in NodesOf(base) : nodes[base].layers[j] = Own(m)
        BY <2>5, <2>6, <4>1, <4>2, <4>3, <4>4
      <4>6. m \in NodesOf(n)
        BY <2>3, <4>3, NodesOfFacts
      <4> QED
        BY <4>2, <4>4, <4>5, <4>6
    <3> QED
      BY <3>1, <3>2, <3>3
  <2>7. Good(n)
    BY <2>6
  <2> QED
    BY <2>3, <2>7
<1>3. Good(o)
  BY <1>2
<1> QED
  BY <1>3

\* The property of assertions follows from the invariant
LEMMA AssertionsFollow == IInv => AssertionsNotLost
<1> SUFFICES ASSUME IInv, NEW o \in objects, NEW i \in 1 .. Len(nodes[o].layers),
                    nodes[o].layers[i].asserts # {}
             PROVE  \/ \E n \in NodesOf(o) : /\ Origin(n) = nodes[o].layers[i].id
                                             /\ nodes[n].asserts = nodes[o].layers[i].asserts
                    \/ nodes[o].layers[i].id \in ran
  BY DEF AssertionsNotLost
<1>1. TypeOK /\ Shape /\ AssertsExact /\ o \in Object
  BY DEF IInv, TypeOK
<1>2. PICK n \in NodesOf(o) : nodes[o].layers[i] = Own(n)
  BY <1>1, AssertsBelong
<1>3. n \in Object /\ Origin(n) = Own(n).id
  BY <1>1, NodesOfFacts, OriginFacts
<1>4. nodes[n].asserts = Own(n).asserts \/ Own(n).id \in ran
  BY <1>1, <1>3 DEF AssertsExact
<1> QED
  BY <1>2, <1>3, <1>4

----------------------------------------------------------------------------
(* Evaluation ends, in a value or Failure: a field that is asked for again    *)
(* fails, and there are finitely many.                                        *)

Outcome == [val : Value \cup {Failure}, trail : SUBSET Entry]
Stage == Question \X SUBSET Entry

FollowStep(f, p) ==
    LET q == p[1]
        trail == p[2]
        found == Resolution(q[1], q[2])
        body == nodes[found].props[q[2]].body
        entry == CacheKey(q[1], q[2], q[3])
    IN IF q[1] = 0 THEN [val |-> Failure, trail |-> trail]
       ELSE IF entry \in DOMAIN cache THEN [val |-> cache[entry], trail |-> trail]
       ELSE IF found = 0 THEN [val |-> Null, trail |-> trail]
       ELSE IF body.op = "const" THEN [val |-> body.val, trail |-> trail]
       ELSE IF entry \in trail THEN [val |-> Failure, trail |-> trail]
       ELSE f[<<Query(body, found, q[3]), trail \cup {entry}>>]

\* The fields that were not asked for yet
Left(p) == Cardinality(Entry \ p[2])

\* There are finitely many cache keys: evaluation cannot ask for new ones forever
LEMMA EntriesFinite == ASSUME TypeOK PROVE IsFiniteSet(Entry)
<1>1. IsFiniteSet(Object)
  BY NodeFacts, FS_Interval DEF Object
<1>2. IsFiniteSet(Key)
  BY InstanceAssumption
<1> DEFINE P == (Object \X Key) \X Object
           f == [p \in P |-> <<p[1][1], p[1][2], p[2]>>]
<1>3. IsFiniteSet(P)
  <2>1. IsFiniteSet(Object \X Key)
    BY <1>1, <1>2, FS_Product
  <2> QED
    BY <1>1, <2>1, FS_Product
<1>4. f \in [P -> Entry]
  BY DEF Entry
<1>5. ASSUME NEW e \in Entry PROVE \E p \in P : f[p] = e
  <2>1. PICK o \in Object, k \in Key, self \in Object : e = <<o, k, self>>
    BY DEF Entry
  <2>2. <<<<o, k>>, self>> \in P /\ f[<<<<o, k>>, self>>] = e
    BY <2>1
  <2> QED
    BY <2>2
<1> HIDE DEF f, P
<1>6. f \in Surjection(P, Entry)
  BY <1>4, <1>5 DEF Surjection
<1> QED
  BY <1>3, <1>6, FS_Surjection

\* What a body found at a node may be
LEMMA BodyFacts ==
    ASSUME TypeOK, Shape, NEW body \in Body, NEW found \in Object, NEW self \in Object
    PROVE  /\ body.op = "const" => body.val \in Value
           /\ body.op # "const" => Query(body, found, self) \in Question
<1>1. body.op = "const" => body.val \in Value
  BY DEF Body
<1>2. ASSUME body.op # "const" PROVE Query(body, found, self) \in Question
  <2>1. body.key \in Key
    BY <1>2 DEF Body
  <2>2. Len(nodes) \in Nat /\ self \in 0 .. Len(nodes)
    BY NodeFacts DEF Object
  <2>3. nodes[found].base \in 0 .. Len(nodes)
    BY <2>2, SoundFacts DEF Object
  <2> QED
    BY <2>1, <2>2, <2>3 DEF Query, Question
<1> QED
  BY <1>1, <1>2

\* A step of an evaluation ends it or asks the next question, with fewer entries left
LEMMA StepFacts ==
    ASSUME TypeOK, Shape, NEW p \in Stage
    PROVE  \/ \E out \in Outcome : \A f : FollowStep(f, p) = out
           \/ \E next \in Stage : Left(next) < Left(p) /\ \A f : FollowStep(f, p) = f[next]
<1>1. PICK at \in 0 .. Len(nodes), k \in Key, self \in Object, trail \in SUBSET Entry :
         p = <<<<at, k, self>>, trail>>
  BY DEF Stage, Question
<1> DEFINE found == Resolution(at, k)
           body == nodes[found].props[k].body
           entry == <<at, k, self>>
           next == <<Query(body, found, self), trail \cup {entry}>>
<1>2. \A f : FollowStep(f, p) =
         IF at = 0 THEN [val |-> Failure, trail |-> trail]
         ELSE IF entry \in DOMAIN cache THEN [val |-> cache[entry], trail |-> trail]
         ELSE IF found = 0 THEN [val |-> Null, trail |-> trail]
         ELSE IF body.op = "const" THEN [val |-> body.val, trail |-> trail]
         ELSE IF entry \in trail THEN [val |-> Failure, trail |-> trail]
         ELSE f[next]
  BY <1>1 DEF FollowStep, CacheKey
<1>3. Len(nodes) \in Nat /\ at \in Object \cup {0}
  BY NodeFacts DEF Object
<1>4. found \in Object \cup {0} /\ (found # 0 => body \in Body)
  BY <1>3, ResolutionType DEF Field
<1>5. entry \in DOMAIN cache => cache[entry] \in Value
  BY DEF TypeOK
<1>6. at # 0 => entry \in Entry
  BY <1>3 DEF Entry
<1> HIDE DEF found, body, entry
<1>7. \A x \in Value \cup {Failure} : [val |-> x, trail |-> trail] \in Outcome
  BY DEF Outcome
<1>8. ASSUME at # 0, found # 0, body.op # "const", entry \notin trail
      PROVE  next \in Stage /\ Left(next) < Left(p)
  <2>1. Query(body, found, self) \in Question
    BY <1>4, <1>8, BodyFacts
  <2>2. trail \cup {entry} \in SUBSET Entry
    BY <1>6, <1>8
  <2>3. next \in Stage
    BY <2>1, <2>2 DEF Stage
  <2> DEFINE T == Entry \ trail
  <2>4. IsFiniteSet(T)
    BY EntriesFinite, FS_Difference
  <2>5. entry \in T /\ Entry \ (trail \cup {entry}) = T \ {entry}
    BY <1>6, <1>8
  <2> HIDE DEF T
  <2>6. Cardinality(T \ {entry}) = Cardinality(T) - 1 /\ Cardinality(T) \in Nat
    BY <2>4, <2>5, FS_RemoveElement, FS_CardinalityType
  <2>7. Left(next) = Cardinality(T \ {entry}) /\ Left(p) = Cardinality(T)
    BY <1>1, <2>5 DEF Left, T
  <2> QED
    BY <2>3, <2>6, <2>7
<1> HIDE DEF next
<1>9. CASE at = 0
  BY <1>2, <1>7, <1>9
<1>10. CASE at # 0 /\ entry \in DOMAIN cache
  BY <1>2, <1>5, <1>7, <1>10
<1>11. CASE at # 0 /\ entry \notin DOMAIN cache /\ found = 0
  <2>1. [val |-> Null, trail |-> trail] \in Outcome
    BY <1>7 DEF Value
  <2> QED
    BY <1>2, <1>11, <2>1
<1>12. CASE at # 0 /\ entry \notin DOMAIN cache /\ found # 0 /\ body.op = "const"
  <2>1. body.val \in Value
    BY <1>4, <1>12 DEF Body
  <2> QED
    BY <1>2, <1>7, <1>12, <2>1
<1>13. CASE at # 0 /\ entry \notin DOMAIN cache /\ found # 0 /\ body.op # "const" /\ entry \in trail
  BY <1>2, <1>7, <1>13
<1>14. CASE at # 0 /\ entry \notin DOMAIN cache /\ found # 0 /\ body.op # "const" /\ entry \notin trail
  BY <1>2, <1>8, <1>14
<1> QED
  BY <1>9, <1>10, <1>11, <1>12, <1>13, <1>14

\* What is left of the entries is a natural number, that every step makes smaller
LEMMA LeftType == ASSUME TypeOK, NEW p \in Stage PROVE Left(p) \in 0 .. Cardinality(Entry)
<1>1. p[2] \in SUBSET Entry
  BY DEF Stage
<1>2. IsFiniteSet(Entry \ p[2]) /\ Entry \ p[2] \in SUBSET Entry
  BY EntriesFinite, FS_Difference
<1> QED
  BY <1>2, EntriesFinite, FS_Subset, FS_CardinalityType DEF Left

\* The recursive function of an evaluation is defined
LEMMA FollowExists ==
    ASSUME TypeOK, Shape
    PROVE  \E f : f = [p \in Stage |-> FollowStep(f, p)]
<1> DEFINE size == Cardinality(Entry)
           Good(f, m) == \A p \in Stage : Left(p) < m => f[p] = FollowStep(f, p)
           Bad == {m \in 0 .. size + 1 : ~ \E f : Good(f, m)}
<1>0. size \in Nat
  BY EntriesFinite, FS_CardinalityType
<1>1. \A p \in Stage : Left(p) \in 0 .. size
  BY LeftType
<1> HIDE DEF size
<1>2. Bad = {}
  <2> SUFFICES ASSUME Bad # {} PROVE FALSE
    OBVIOUS
  <2>1. Bad \in SUBSET Nat
    BY <1>0
  <2>2. PICK m \in Bad : \A j \in Bad : m <= j
    BY <2>1, LeastIn
  <2>3. m \in 0 .. size + 1 /\ ~ \E f : Good(f, m)
    OBVIOUS
  <2>4. m # 0
    <3>1. Good([p \in Stage |-> p], 0)
      <4>1. \A p \in Stage : ~(Left(p) < 0)
        BY <1>0, <1>1
      <4> QED
        BY <4>1
    <3> QED
      BY <2>3, <3>1
  <2>5. m - 1 \in 0 .. size + 1 /\ m \in Nat /\ m - 1 < m
    BY <1>0, <2>3, <2>4
  <2>6. m - 1 \notin Bad
    <3> HIDE DEF Bad
    <3> QED
      BY <2>2, <2>5
  <2>7. PICK f : Good(f, m - 1)
    BY <2>5, <2>6
  <2> DEFINE g == [p \in Stage |-> IF Left(p) < m - 1 THEN f[p] ELSE FollowStep(f, p)]
  <2>8. \A p \in Stage : g[p] = FollowStep(f, p)
    BY <2>7
  <2>9. ASSUME NEW p \in Stage, Left(p) < m PROVE FollowStep(g, p) = FollowStep(f, p)
    <3>1. CASE \E out \in Outcome : \A h : FollowStep(h, p) = out
      BY <3>1
    <3>2. CASE \E next \in Stage : Left(next) < Left(p) /\ \A h : FollowStep(h, p) = h[next]
      <4>1. PICK next \in Stage : Left(next) < Left(p) /\ \A h : FollowStep(h, p) = h[next]
        BY <3>2
      <4>2. Left(next) < m - 1
        BY <1>0, <1>1, <2>5, <2>9, <4>1
      <4>3. g[next] = f[next]
        BY <4>2
      <4> QED
        BY <4>1, <4>3
    <3> QED
      BY <3>1, <3>2, StepFacts
  <2> HIDE DEF g
  <2>10. Good(g, m)
    BY <2>8, <2>9
  <2> QED
    BY <2>3, <2>10
<1>3. PICK f : Good(f, size + 1)
  <2>1. size + 1 \in 0 .. size + 1
    BY <1>0
  <2> QED
    BY <1>2, <2>1
<1>4. \A p \in Stage : f[p] = FollowStep(f, p)
  BY <1>0, <1>1, <1>3
<1> DEFINE g == [p \in Stage |-> f[p]]
<1>5. ASSUME NEW p \in Stage PROVE FollowStep(g, p) = FollowStep(f, p)
  <2>1. CASE \E out \in Outcome : \A h : FollowStep(h, p) = out
    BY <2>1
  <2>2. CASE \E next \in Stage : Left(next) < Left(p) /\ \A h : FollowStep(h, p) = h[next]
    BY <2>2
  <2> QED
    BY <2>1, <2>2, StepFacts
<1>6. g = [p \in Stage |-> FollowStep(g, p)]
  <2>1. \A p \in Stage : g[p] = FollowStep(g, p)
    BY <1>4, <1>5
  <2>2. g = [p \in Stage |-> g[p]]
    OBVIOUS
  <2> HIDE DEF g
  <2>3. [p \in Stage |-> g[p]] = [p \in Stage |-> FollowStep(g, p)]
    BY <2>1
  <2> QED
    BY <2>2, <2>3
<1> QED
  BY <1>6

\* An evaluation is its first step and the evaluation of what that asks
LEMMA FollowEquation ==
    ASSUME TypeOK, Shape
    PROVE  Follow = [p \in Stage |-> FollowStep(Follow, p)]
<1> DEFINE F == CHOOSE f : f = [p \in Question \X SUBSET Entry |->
             IF p[1][1] = 0 THEN [val |-> Failure, trail |-> p[2]]
             ELSE IF CacheKey(p[1][1], p[1][2], p[1][3]) \in DOMAIN cache
                  THEN [val |-> cache[CacheKey(p[1][1], p[1][2], p[1][3])], trail |-> p[2]]
             ELSE IF Resolution(p[1][1], p[1][2]) = 0 THEN [val |-> Null, trail |-> p[2]]
             ELSE IF nodes[Resolution(p[1][1], p[1][2])].props[p[1][2]].body.op = "const"
                  THEN [val |-> nodes[Resolution(p[1][1], p[1][2])].props[p[1][2]].body.val, trail |-> p[2]]
             ELSE IF CacheKey(p[1][1], p[1][2], p[1][3]) \in p[2] THEN [val |-> Failure, trail |-> p[2]]
             ELSE f[<<Query(nodes[Resolution(p[1][1], p[1][2])].props[p[1][2]].body,
                            Resolution(p[1][1], p[1][2]), p[1][3]),
                      p[2] \cup {CacheKey(p[1][1], p[1][2], p[1][3])}>>]]
<1>1. Follow = F
  BY DEF Follow
<1>2. F = [p \in Stage |-> FollowStep(F, p)]
  BY FollowExists DEF FollowStep, Stage
<1> HIDE DEF F
<1> QED
  BY <1>1, <1>2

\* An evaluation has a value or fails, and its trail is a set of entries
LEMMA FollowType ==
    ASSUME TypeOK, Shape
    PROVE  \A p \in Stage : Follow[p] \in Outcome
<1> DEFINE size == Cardinality(Entry)
           Good(m) == \A p \in Stage : Left(p) = m => Follow[p] \in Outcome
           Bad == {m \in Nat : ~ Good(m)}
<1>1. \A p \in Stage : Left(p) \in Nat
  BY LeftType, EntriesFinite, FS_CardinalityType
<1>2. \A p \in Stage : Follow[p] = FollowStep(Follow, p)
  BY FollowEquation
<1>3. Bad = {}
  <2> SUFFICES ASSUME Bad # {} PROVE FALSE
    OBVIOUS
  <2>1. Bad \in SUBSET Nat
    OBVIOUS
  <2>2. PICK m \in Bad : \A j \in Bad : m <= j
    BY <2>1, LeastIn
  <2>3. m \in Nat /\ ~ Good(m)
    OBVIOUS
  <2>4. ASSUME NEW p \in Stage, Left(p) = m PROVE Follow[p] \in Outcome
    <3>1. CASE \E out \in Outcome : \A h : FollowStep(h, p) = out
      BY <1>2, <3>1
    <3>2. CASE \E next \in Stage : Left(next) < Left(p) /\ \A h : FollowStep(h, p) = h[next]
      <4>1. PICK next \in Stage : Left(next) < Left(p) /\ \A h : FollowStep(h, p) = h[next]
        BY <3>2
      <4>2. Left(next) \in Nat /\ Left(next) < m
        BY <1>1, <2>4, <4>1
      <4>3. Left(next) \notin Bad
        <5> HIDE DEF Bad
        <5> QED
          BY <2>2, <2>3, <4>2
      <4>4. Follow[next] \in Outcome
        BY <4>2, <4>3
      <4> QED
        BY <1>2, <4>1, <4>4
    <3> QED
      BY <3>1, <3>2, StepFacts
  <2> QED
    BY <2>3, <2>4
<1> QED
  BY <1>1, <1>3

\* The outcome of a question
LEMMA EvaluatedType ==
    ASSUME TypeOK, Shape
    PROVE  /\ \A q \in Question : Evaluated(q) \in Outcome
           /\ \A o \in Object, k \in Key : Asked(o, k) \in Outcome
           /\ \A body \in Body, found \in Object, self \in Object : Run(body, found, self) \in Outcome
<1>1. ASSUME NEW q \in Question PROVE Evaluated(q) \in Outcome
  <2>1. <<q, {}>> \in Stage
    BY DEF Stage
  <2> QED
    BY <2>1, FollowType DEF Evaluated
<1>2. ASSUME NEW o \in Object, NEW k \in Key PROVE Asked(o, k) \in Outcome
  <2>1. o \in 0 .. Len(nodes)
    BY NodeFacts DEF Object
  <2>2. <<o, k, o>> \in Question
    BY <2>1 DEF Question
  <2> QED
    BY <1>1, <2>2 DEF Asked
<1>3. ASSUME NEW body \in Body, NEW found \in Object, NEW self \in Object
      PROVE  Run(body, found, self) \in Outcome
  <2>1. CASE body.op = "const"
    <3>1. body.val \in Value
      BY <2>1, BodyFacts
    <3> QED
      BY <2>1, <3>1 DEF Run, Outcome
  <2>2. CASE body.op # "const"
    BY <1>1, <2>2, BodyFacts DEF Run
  <2> QED
    BY <2>1, <2>2
<1> QED
  BY <1>1, <1>2, <1>3

\* What is put into the cache are values, for cache keys
LEMMA CachedType ==
    ASSUME TypeOK, Shape, NEW outcomes \in SUBSET Outcome
    PROVE  DOMAIN Cached(outcomes) \subseteq Entry /\ Cached(outcomes) \in [DOMAIN Cached(outcomes) -> Value]
<1> DEFINE results == {r \in outcomes : r.val # Failure}
           Dom == DOMAIN cache \cup UNION {r.trail : r \in results}
           Val(c) == IF c \in DOMAIN cache THEN cache[c]
                     ELSE (CHOOSE r \in results : c \in r.trail).val
<1>1. \A r \in results : r.val \in Value /\ r.trail \subseteq Entry
  BY DEF Outcome
<1>2. DOMAIN cache \subseteq Entry /\ \A c \in DOMAIN cache : cache[c] \in Value
  BY DEF TypeOK
<1>3. Cached(outcomes) = [c \in Dom |-> Val(c)]
  BY DEF Cached
<1> HIDE DEF results
<1>4. Dom \subseteq Entry
  BY <1>1, <1>2
<1>5. ASSUME NEW c \in Dom PROVE Val(c) \in Value
  <2>1. CASE c \in DOMAIN cache
    BY <1>2, <2>1
  <2>2. CASE c \notin DOMAIN cache
    <3>1. \E r \in results : c \in r.trail
      BY <2>2
    <3>2. (CHOOSE r \in results : c \in r.trail) \in results
      BY <3>1
    <3> QED
      BY <1>1, <2>2, <3>2
  <2> QED
    BY <2>1, <2>2
<1> HIDE DEF Dom, Val
<1> QED
  BY <1>3, <1>4, <1>5

----------------------------------------------------------------------------
(* The invariant is inductive *)

\* Nodes are never moved: what a step leaves of them stays sound.
LEMMA NodesKept ==
    ASSUME TypeOK, Shape, TypeOK', Len(nodes) <= Len(nodes'),
           \A n \in Object : /\ nodes'[n].base = nodes[n].base
                             /\ nodes'[n].layers = nodes[n].layers
                             /\ nodes'[n].deleted = nodes[n].deleted
    PROVE  /\ Object \subseteq Object'
           /\ \A n \in Object \cup {0} : Layers(n)' = Layers(n)
           /\ \A n \in Object : /\ Below(n)' = Below(n) /\ Own(n)' = Own(n) /\ NodeSound(n)'
                                /\ DeletedExact(n) => DeletedExact(n)'
<1>1. Len(nodes) \in Nat /\ Len(nodes') \in Nat /\ \A n \in Object : n # 0
  BY DEF TypeOK, Object
<1>2. Object \subseteq Object'
  BY <1>1 DEF Object
<1>3. \A n \in Object \cup {0} : Layers(n)' = Layers(n)
  BY DEF Layers
<1>4. ASSUME NEW n \in Object
      PROVE  /\ Below(n)' = Below(n) /\ Own(n)' = Own(n) /\ NodeSound(n)'
             /\ DeletedExact(n) => DeletedExact(n)'
  <2>1. nodes[n].base \in Object \cup {0} /\ nodes'[n].base = nodes[n].base
        /\ nodes'[n].layers = nodes[n].layers /\ nodes'[n].deleted = nodes[n].deleted
    BY SoundFacts
  <2>2. Below(n)' = Below(n)
    BY <1>3, <2>1 DEF Below
  <2>3. Own(n)' = Own(n)
    BY <2>1, <2>2 DEF Own
  <2>4. NodeSound(n)
    BY DEF Shape
  <2>5. NodeSound(n)'
    BY <2>1, <2>2, <2>4 DEF NodeSound
  <2>6. DeletedExact(n) => DeletedExact(n)'
    BY <2>1, <2>2 DEF DeletedExact
  <2> QED
    BY <2>2, <2>3, <2>5, <2>6
<1> QED
  BY <1>2, <1>3, <1>4

\* What a step has to show that keeps the layers of the nodes there are
LEMMA InvKept ==
    ASSUME IInv, TypeOK', Len(nodes) <= Len(nodes'), program' = program, ran \subseteq ran',
           \A n \in Object : /\ nodes'[n].base = nodes[n].base
                             /\ nodes'[n].layers = nodes[n].layers
                             /\ nodes'[n].deleted = nodes[n].deleted,
           \A n \in Object : nodes'[n].asserts = nodes[n].asserts
                             \/ (nodes'[n].asserts = {} /\ Own(n).id \in ran'),
           \A n \in Object, k \in Key :
              /\ nodes'[n].props[k] = None <=> nodes[n].props[k] = None
              /\ nodes[n].props[k] # None =>
                    /\ program.formats \/ nodes'[n].props[k].body = nodes[n].props[k].body
                    /\ nodes'[n].props[k].vis = nodes[n].props[k].vis,
           \A n \in Object' \ Object :
              /\ NodeSound(n)'
              /\ ~ program.mergesRemoved => DeletedExact(n)' /\ FieldsExact(n)'
              /\ nodes'[n].asserts # Own(n)'.asserts => nodes'[n].asserts = {} /\ Own(n)'.id \in ran'
    PROVE  IInv'
<1>1. TypeOK /\ Shape /\ NodesExact /\ AssertsExact
  BY DEF IInv
<1>2. /\ Object \subseteq Object'
      /\ \A n \in Object : /\ Below(n)' = Below(n) /\ Own(n)' = Own(n) /\ NodeSound(n)'
                           /\ DeletedExact(n) => DeletedExact(n)'
  BY <1>1, NodesKept
<1>3. Shape'
  BY <1>2 DEF Shape
<1>4. ASSUME NEW n \in Object, FieldsExact(n) PROVE FieldsExact(n)'
  <2>1. ASSUME NEW k \in Key
        PROVE  LET mine == Own(n)'.fields[k]
                   prop == nodes'[n].props[k]
               IN /\ prop = None <=> (k \in nodes'[n].deleted \/ mine = None)
                  /\ prop # None =>
                        /\ program'.formats \/ prop.body = mine.body
                        /\ prop.vis = IF mine.vis # "visible" THEN mine.vis ELSE VisibilityOf(Below(n)', k)
    <3> DEFINE mine == Own(n).fields[k]
               old == nodes[n].props[k]
               new == nodes'[n].props[k]
    <3>1. /\ old = None <=> (k \in nodes[n].deleted \/ mine = None)
          /\ old # None =>
                /\ program.formats \/ old.body = mine.body
                /\ old.vis = IF mine.vis # "visible" THEN mine.vis ELSE VisibilityOf(Below(n), k)
      BY <1>4 DEF FieldsExact
    <3>2. /\ new = None <=> old = None
          /\ old # None => /\ program.formats \/ new.body = old.body
                           /\ new.vis = old.vis
      OBVIOUS
    <3>3. nodes'[n].deleted = nodes[n].deleted /\ Own(n)' = Own(n) /\ Below(n)' = Below(n)
      BY <1>2
    <3>4. Own(n)'.fields[k] = mine
      BY <3>3
    <3> HIDE DEF mine, old, new
    <3>5. /\ new = None <=> (k \in nodes'[n].deleted \/ mine = None)
          /\ new # None =>
                /\ program'.formats \/ new.body = mine.body
                /\ new.vis = IF mine.vis # "visible" THEN mine.vis ELSE VisibilityOf(Below(n)', k)
      BY <3>1, <3>2, <3>3
    <3> QED
      BY <3>4, <3>5 DEF new
  <2> QED
    BY <2>1 DEF FieldsExact
<1>5. NodesExact'
  <2>1. ASSUME ~ program.mergesRemoved, NEW n \in Object'
        PROVE  DeletedExact(n)' /\ FieldsExact(n)'
    <3>1. CASE n \in Object
      <4>1. DeletedExact(n) /\ FieldsExact(n)
        BY <1>1, <2>1, <3>1 DEF NodesExact
      <4> QED
        BY <1>2, <1>4, <3>1, <4>1
    <3>2. CASE n \notin Object
      BY <2>1, <3>2
    <3> QED
      BY <3>1, <3>2
  <2> QED
    BY <2>1 DEF NodesExact
<1>6. AssertsExact'
  <2>1. ASSUME NEW n \in Object', nodes'[n].asserts # Own(n)'.asserts
        PROVE  nodes'[n].asserts = {} /\ Own(n)'.id \in ran'
    <3>1. CASE n \in Object
      <4>1. Own(n)' = Own(n)
        BY <1>2, <3>1
      <4>2. CASE nodes'[n].asserts = nodes[n].asserts
        <5>1. nodes[n].asserts = {} /\ Own(n).id \in ran
          BY <1>1, <2>1, <3>1, <4>1, <4>2 DEF AssertsExact
        <5> QED
          BY <4>1, <4>2, <5>1
      <4> QED
        BY <3>1, <4>1, <4>2
    <3>2. CASE n \notin Object
      BY <2>1, <3>2
    <3> QED
      BY <3>1, <3>2
  <2> QED
    BY <2>1 DEF AssertsExact
<1> QED
  BY <1>3, <1>5, <1>6 DEF IInv

\* The invariant holds at the start
LEMMA InitInv == Init => IInv
<1> SUFFICES ASSUME Init PROVE IInv
  OBVIOUS
<1>1. Len(nodes) = 0 /\ Object = {} /\ nodes \in Seq(Node)
  BY EmptySeq DEF Init, Object
<1>2. TypeOK
  <2>1. DOMAIN cache = {}
    BY DEF Init
  <2>2. cache \in [DOMAIN cache -> Value]
    BY <2>1 DEF Init
  <2> QED
    BY <1>1, <2>1, <2>2, InstanceAssumption DEF Init, TypeOK
<1> QED
  BY <1>1, <1>2 DEF IInv, Shape, NodesExact, AssertsExact

\* CreateObject keeps the invariant
LEMMA LiteralStep ==
    ASSUME IInv, NEW l \in Literals, MakeLiteral(l)
    PROVE  IInv'
<1>0. PICK m \in Int : m = Len(nodes) + 1
  BY NodeFacts DEF IInv
<1> DEFINE layer == [id |-> m, fields |-> l.fields, asserts |-> l.asserts, removes |-> {}]
           node == [props |-> l.fields, base |-> 0, deleted |-> {}, asserts |-> l.asserts,
                    layers |-> <<layer>>]
<1>1. TypeOK /\ Shape
  BY DEF IInv
<1>2. nodes \in Seq(Node) /\ Len(nodes) \in Nat /\ m \in Nat
  BY <1>0, <1>1 DEF TypeOK
<1>3. l \in Literal
  BY InstanceAssumption
<1>4. layer \in Layer
  BY <1>2, <1>3 DEF Layer, Literal
<1>5. <<layer>> \in Seq(Layer) /\ Len(<<layer>>) = 1 /\ <<layer>>[1] = layer
  BY <1>4
<1>6. node \in Node
  BY <1>3, <1>5 DEF Node, Literal
<1>7. nodes' = Append(nodes, node)
  BY <1>0 DEF MakeLiteral
<1> DEFINE lone == <<layer>>
<1>8. /\ node.props = l.fields /\ node.base = 0 /\ node.deleted = {} /\ node.asserts = l.asserts
      /\ node.layers = lone /\ lone \in Seq(Layer) /\ Len(lone) = 1 /\ lone[1] = layer
      /\ layer.id = m /\ layer.fields = l.fields /\ layer.asserts = l.asserts /\ layer.removes = {}
  BY <1>5
<1> HIDE DEF node, layer, lone
<1>9. /\ nodes' \in Seq(Node) /\ Len(nodes') = m
      /\ \A n \in 1 .. Len(nodes) : nodes'[n] = nodes[n]
      /\ nodes'[m] = node
  BY <1>0, <1>2, <1>6, <1>7, AppendProperties
<1>10. Object' = 1 .. m /\ Object' = Object \cup {m} /\ Object = 1 .. Len(nodes)
  BY <1>0, <1>2, <1>9 DEF Object
<1>11. TypeOK'
  <2>1. \A n \in Object' : nodes'[n].base \in 0 .. Len(nodes')
    BY <1>0, <1>1, <1>2, <1>8, <1>9, <1>10 DEF TypeOK
  <2>2. objects' \subseteq Object'
    BY <1>0, <1>1, <1>10 DEF TypeOK, MakeLiteral
  <2>3. DOMAIN cache' \subseteq Entry'
    BY <1>1, <1>10 DEF TypeOK, MakeLiteral, Entry
  <2> QED
    BY <1>1, <1>9, <2>1, <2>2, <2>3 DEF TypeOK, MakeLiteral
<1>12. Below(m)' = <<>> /\ Len(Below(m)') = 0 /\ Own(m)' = layer /\ nodes'[m].layers = lone
  <2>1. Below(m)' = <<>> /\ Len(Below(m)') = 0
    BY <1>8, <1>9, EmptySeq DEF Below, Layers
  <2> QED
    BY <1>8, <1>9, <2>1 DEF Own
<1>13. NodeSound(m)'
  <2>1. /\ 0 \in 0 .. m - 1 /\ 0 < 1 /\ layer.id # 0 /\ 0 + 1 = 1
        /\ 1 .. 0 = {} /\ 0 + 2 .. 1 = {}
    BY <1>0, <1>2, <1>8
  <2> QED
    BY <1>8, <1>9, <1>12, <2>1 DEF NodeSound
<1>14. DeletedExact(m)'
  <2>1. \A i \in 0 + 1 .. 1 : i = 1
    OBVIOUS
  <2> QED
    BY <1>8, <1>9, <1>12, <2>1 DEF DeletedExact
<1>15. FieldsExact(m)'
  <2>1. \A k \in Key : VisibilityOf(<<>>, k) = "visible"
    <3>1. \A k \in Key : Definitions(<<>>, k) = {}
      <4>1. 1 .. Len(<<>>) = {}
        BY EmptySeq
      <4> QED
        BY <4>1 DEF Definitions
    <3> QED
      BY <3>1 DEF VisibilityOf
  <2>2. ASSUME NEW k \in Key
        PROVE  LET mine == Own(m)'.fields[k]
                   prop == nodes'[m].props[k]
               IN /\ prop = None <=> (k \in nodes'[m].deleted \/ mine = None)
                  /\ prop # None =>
                        /\ program'.formats \/ prop.body = mine.body
                        /\ prop.vis = IF mine.vis # "visible" THEN mine.vis ELSE VisibilityOf(Below(m)', k)
    <3>1. Own(m)'.fields[k] = l.fields[k] /\ nodes'[m].props[k] = l.fields[k] /\ nodes'[m].deleted = {}
      BY <1>8, <1>9, <1>12
    <3>2. VisibilityOf(Below(m)', k) = "visible"
      BY <1>12, <2>1
    <3> QED
      BY <3>1, <3>2
  <2> QED
    BY <2>2 DEF FieldsExact
<1>16. \A n \in Object' \ Object : n = m
  BY <1>10
<1>17. \A n \in Object : nodes'[n] = nodes[n]
  BY <1>9, <1>10
<1>18. nodes'[m].asserts = Own(m)'.asserts
  BY <1>8, <1>9, <1>12
<1>19. Len(nodes) <= Len(nodes')
  BY <1>0, <1>2, <1>9
<1>20. program' = program /\ ran' = ran
  BY DEF MakeLiteral
<1> QED
  BY <1>11, <1>13, <1>14, <1>15, <1>16, <1>17, <1>18, <1>19, <1>20, InvKept

\* std.objectRemoveKey keeps the invariant
LEMMA RemoveStep ==
    ASSUME IInv, NEW o \in objects, NEW k \in Key, RemoveKey(o, k)
    PROVE  IInv'
<1>0. PICK m \in Int : m = Len(nodes) + 1
  BY NodeFacts DEF IInv
<1>1. TypeOK /\ Shape
  BY DEF IInv
<1>2. nodes \in Seq(Node) /\ Len(nodes) \in Nat /\ m \in Nat /\ o \in Object
  BY <1>0, <1>1 DEF TypeOK
<1>3. /\ nodes[o] \in Node /\ nodes[o].layers \in Seq(Layer)
      /\ nodes[o].base \in 0 .. o - 1 /\ nodes[o].base \in Object \cup {0}
      /\ Below(o) \in Seq(Layer) /\ Len(Below(o)) \in Nat
      /\ Len(nodes[o].layers) \in Nat /\ Len(Below(o)) < Len(nodes[o].layers)
  BY <1>1, <1>2, SoundFacts
<1> DEFINE removal == [id |-> 0, fields |-> [j \in Key |-> None], asserts |-> {}, removes |-> {k}]
           old == nodes[o]
           ls == Append(old.layers, removal)
           node == [Removed(old, k) EXCEPT !.layers = Append(@, removal)]
           b == Len(Below(o))
<1>4. removal \in Layer /\ removal.id = 0 /\ removal.asserts = {} /\ removal.removes = {k}
      /\ \A j \in Key : removal.fields[j] = None
  BY DEF Layer, Fields
<1>5. nodes' = Append(nodes, node)
  BY DEF RemoveKey
<1>6. node = [props |-> [old.props EXCEPT ![k] = None], base |-> old.base,
              deleted |-> old.deleted \cup {k}, asserts |-> old.asserts, layers |-> ls]
  <2>1. old = [props |-> old.props, base |-> old.base, deleted |-> old.deleted,
               asserts |-> old.asserts, layers |-> old.layers]
    BY <1>3 DEF Node
  <2> DEFINE removed == Removed(old, k)
  <2>2. removed = [old EXCEPT !.props = [old.props EXCEPT ![k] = None], !.deleted = @ \cup {k}]
    BY <2>1 DEF Removed
  <2> HIDE DEF old, removed
  <2>3. removed = [props |-> [old.props EXCEPT ![k] = None], base |-> old.base,
                   deleted |-> old.deleted \cup {k}, asserts |-> old.asserts, layers |-> old.layers]
    BY <2>1, <2>2
  <2>4. node = [removed EXCEPT !.layers = ls]
    BY <2>3 DEF removed
  <2> HIDE DEF node, ls
  <2> QED
    BY <2>3, <2>4
<1> HIDE DEF removal, node
<1>7. /\ ls \in Seq(Layer) /\ Len(ls) = Len(old.layers) + 1
      /\ \A i \in 1 .. Len(old.layers) : ls[i] = old.layers[i]
      /\ ls[Len(old.layers) + 1] = removal
  BY <1>3, <1>4, AppendProperties
<1> HIDE DEF ls
<1>8. node \in Node
  <2>1. [old.props EXCEPT ![k] = None] \in Fields
    BY <1>3 DEF Node, Fields
  <2>2. old.base \in Nat /\ old.deleted \cup {k} \in SUBSET Key /\ old.asserts \in SUBSET Assertion
    BY <1>3 DEF Node
  <2> QED
    BY <1>6, <1>7, <2>1, <2>2 DEF Node
<1>9. /\ node.base = old.base /\ node.deleted = old.deleted \cup {k} /\ node.asserts = old.asserts
      /\ node.layers = ls /\ \A j \in Key : node.props[j] = IF j = k THEN None ELSE old.props[j]
  <2>1. old.props \in [Key -> Field \cup {None}]
    BY <1>3 DEF Node, Fields
  <2> QED
    BY <1>6, <2>1
<1>10. /\ nodes' \in Seq(Node) /\ Len(nodes') = m
       /\ \A n \in 1 .. Len(nodes) : nodes'[n] = nodes[n]
       /\ nodes'[m] = node
  BY <1>0, <1>2, <1>5, <1>8, AppendProperties
<1>11. Object' = 1 .. m /\ Object' = Object \cup {m} /\ Object = 1 .. Len(nodes)
  BY <1>0, <1>2, <1>10 DEF Object
<1>12. TypeOK'
  <2>1. \A n \in Object : nodes[n].base \in 0 .. Len(nodes)
    BY <1>1 DEF TypeOK
  <2>2. \A n \in Object' : nodes'[n].base \in 0 .. Len(nodes')
    BY <1>0, <1>2, <1>9, <1>10, <1>11, <2>1
  <2>3. objects' \subseteq Object'
    BY <1>0, <1>1, <1>11 DEF TypeOK, RemoveKey
  <2>4. DOMAIN cache' \subseteq Entry'
    BY <1>1, <1>11 DEF TypeOK, RemoveKey, Entry
  <2> QED
    BY <1>1, <1>10, <2>2, <2>3, <2>4 DEF TypeOK, RemoveKey
<1>13. \A n \in Object : nodes'[n] = nodes[n]
  BY <1>10, <1>11
<1>14. Len(nodes) <= Len(nodes') /\ program' = program /\ ran' = ran
  BY <1>0, <1>2, <1>10 DEF RemoveKey
<1>15. Layers(old.base)' = Layers(old.base)
  <2>1. \A n \in Object \cup {0} : Layers(n)' = Layers(n)
    BY <1>13 DEF Layers
  <2>2. PICK x \in Object \cup {0} : x = old.base
    BY <1>3
  <2>3. Layers(x)' = Layers(x)
    BY <2>1
  <2>4. old.base' = old.base
    BY <1>2, <1>13
  <2> QED
    BY <2>2, <2>3, <2>4
<1>16. /\ Below(m)' = Below(o) /\ Own(m)' = Own(o) /\ nodes'[m].layers = ls
       /\ nodes'[m].base = old.base /\ nodes'[m].deleted = old.deleted \cup {k}
       /\ nodes'[m].asserts = old.asserts
       /\ \A j \in Key : nodes'[m].props[j] = IF j = k THEN None ELSE old.props[j]
  <2>1. old.base' = old.base
    BY <1>2, <1>13
  <2>2. Below(m)' = Below(o)
    BY <1>9, <1>10, <1>15, <2>1 DEF Below
  <2>3. Own(m)' = Own(o)
    <3>1. b + 1 \in 1 .. Len(old.layers)
      BY <1>3
    <3> QED
      BY <1>7, <1>9, <1>10, <2>2, <3>1 DEF Own
  <2> QED
    BY <1>9, <1>10, <2>2, <2>3
<1>17. /\ \A i \in 1 .. b : old.layers[i] = Below(o)[i]
       /\ old.layers[b + 1].id # 0 /\ old.layers[b + 1].removes = {}
       /\ \A i \in b + 2 .. Len(old.layers) :
             /\ old.layers[i].id = 0 /\ old.layers[i].asserts = {} /\ old.layers[i].removes # {}
             /\ \A j \in Key : old.layers[i].fields[j] = None
  <2>1. NodeSound(o)
    BY <1>1, <1>2 DEF Shape
  <2> QED
    BY <2>1 DEF NodeSound
<1> HIDE DEF old, b
<1>18. /\ b \in Nat /\ Len(old.layers) \in Nat /\ b < Len(old.layers) /\ Len(ls) = Len(old.layers) + 1
  BY <1>3, <1>7 DEF old, b
<1>19. NodeSound(m)'
  <2>1. nodes'[m].base \in 0 .. m - 1
    BY <1>0, <1>2, <1>3, <1>11, <1>16 DEF old
  <2>2. b < Len(ls) /\ \A i \in 1 .. b : ls[i] = Below(o)[i]
    BY <1>7, <1>17, <1>18
  <2>3. ls[b + 1].id # 0 /\ ls[b + 1].removes = {}
    <3>1. b + 1 \in 1 .. Len(old.layers)
      BY <1>18
    <3> QED
      BY <1>7, <1>17, <3>1
  <2>4. ASSUME NEW i \in b + 2 .. Len(ls)
        PROVE  /\ ls[i].id = 0 /\ ls[i].asserts = {} /\ ls[i].removes # {}
               /\ \A j \in Key : ls[i].fields[j] = None
    <3>1. CASE i = Len(old.layers) + 1
      BY <1>4, <1>7, <3>1
    <3>2. CASE i # Len(old.layers) + 1
      <4>1. i \in b + 2 .. Len(old.layers) /\ i \in 1 .. Len(old.layers)
        BY <1>18, <3>2
      <4> QED
        BY <1>7, <1>17, <4>1
    <3> QED
      BY <3>1, <3>2
  <2> QED
    BY <1>16, <2>1, <2>2, <2>3, <2>4 DEF NodeSound, b
<1>20. ASSUME DeletedExact(o) PROVE DeletedExact(m)'
  <2>1. ASSUME NEW j \in Key
        PROVE  j \in old.deleted \cup {k} <=> \E i \in b + 1 .. Len(ls) : j \in ls[i].removes
    <3>1. j \in old.deleted <=> \E i \in b + 1 .. Len(old.layers) : j \in old.layers[i].removes
      BY <1>20 DEF DeletedExact, b, old
    <3>2. \A i \in b + 1 .. Len(old.layers) : i \in b + 1 .. Len(ls) /\ ls[i] = old.layers[i]
      BY <1>7, <1>18
    <3>3. Len(old.layers) + 1 \in b + 1 .. Len(ls)
      BY <1>18
    <3>4. \A i \in b + 1 .. Len(ls) : i \in b + 1 .. Len(old.layers) \/ i = Len(old.layers) + 1
      BY <1>18
    <3> QED
      BY <1>4, <1>7, <3>1, <3>2, <3>3, <3>4
  <2> QED
    BY <1>16, <2>1 DEF DeletedExact, b
<1>21. ASSUME FieldsExact(o) PROVE FieldsExact(m)'
  <2>1. ASSUME NEW j \in Key
        PROVE  LET mine == Own(m)'.fields[j]
                   prop == nodes'[m].props[j]
               IN /\ prop = None <=> (j \in nodes'[m].deleted \/ mine = None)
                  /\ prop # None =>
                        /\ program'.formats \/ prop.body = mine.body
                        /\ prop.vis = IF mine.vis # "visible" THEN mine.vis ELSE VisibilityOf(Below(m)', j)
    <3>1. LET mine == Own(o).fields[j]
              prop == old.props[j]
          IN /\ prop = None <=> (j \in old.deleted \/ mine = None)
             /\ prop # None =>
                   /\ program.formats \/ prop.body = mine.body
                   /\ prop.vis = IF mine.vis # "visible" THEN mine.vis ELSE VisibilityOf(Below(o), j)
      BY <1>21 DEF FieldsExact, old
    <3>2. CASE j = k
      BY <1>16, <3>2
    <3>3. CASE j # k
      <4>1. nodes'[m].props[j] = old.props[j] /\ (j \in nodes'[m].deleted <=> j \in old.deleted)
        BY <1>16, <3>3
      <4> QED
        BY <1>14, <1>16, <3>1, <4>1
    <3> QED
      BY <3>2, <3>3
  <2> QED
    BY <2>1 DEF FieldsExact
<1>22. ~ program.mergesRemoved => DeletedExact(m)' /\ FieldsExact(m)'
  BY <1>2, <1>20, <1>21 DEF IInv, NodesExact
<1>23. nodes'[m].asserts # Own(m)'.asserts => nodes'[m].asserts = {} /\ Own(m)'.id \in ran'
  BY <1>2, <1>14, <1>16 DEF IInv, AssertsExact, old
<1>24. \A n \in Object' \ Object : n = m
  BY <1>11
<1> QED
  BY <1>12, <1>13, <1>14, <1>19, <1>22, <1>23, <1>24, InvKept

\* What the end of a run of the machine does to the cache
LEMMA EndedFacts ==
    ASSUME TypeOK, Shape, NEW outcomes \in SUBSET Outcome, NEW ok, Ended(outcomes, ok), Object' = Object
    PROVE  /\ DOMAIN cache' \subseteq Entry' /\ cache' \in [DOMAIN cache' -> Value]
           /\ failed' \in BOOLEAN
           /\ ~ failed' => \A r \in outcomes : r.val \in Value
<1>1. cache' = Cached(outcomes) /\ failed' = ~ (ok /\ \A r \in outcomes : r.val # Failure)
  BY DEF Ended
<1>2. Entry' = Entry
  BY DEF Entry
<1>3. DOMAIN cache' \subseteq Entry' /\ cache' \in [DOMAIN cache' -> Value]
  BY <1>1, <1>2, CachedType
<1>4. \A r \in outcomes : r.val \in Value \cup {Failure}
  BY DEF Outcome
<1> QED
  BY <1>1, <1>3, <1>4

\* The outcome of the field that is found
LEMMA FoundFacts ==
    ASSUME TypeOK, Shape, NEW o \in Object, NEW k \in Key, Resolution(o, k) # 0
    PROVE  Run(FieldOf(o, k).body, Resolution(o, k), o) \in Outcome
<1>1. Resolution(o, k) \in Object /\ FieldOf(o, k) \in Field
  BY ResolutionType
<1>2. FieldOf(o, k).body \in Body
  BY <1>1 DEF Field
<1> QED
  BY <1>1, <1>2, EvaluatedType

\* The outcomes of the assertions
LEMMA ChecksFacts ==
    ASSUME TypeOK, Shape, NEW o \in Object
    PROVE  Checks(o) \in SUBSET Outcome
<1>1. ASSUME NEW a \in AssertionsOf(o) PROVE Asked(o, a.key) \in Outcome
  <2>1. PICK n \in NodesOf(o) : a \in nodes[n].asserts
    BY DEF AssertionsOf
  <2>2. nodes[n] \in Node
    BY NodesOfFacts, NodeFacts
  <2>3. a.key \in Key
    BY <2>1, <2>2 DEF Node, Assertion
  <2> QED
    BY <2>3, EvaluatedType
<1> QED
  BY <1>1 DEF Checks

\* o.k keeps the invariant
LEMMA IndexObjectStep ==
    ASSUME IInv, NEW o \in objects, NEW k \in Key, IndexObject(o, k)
    PROVE  IInv'
<1>1. TypeOK /\ Shape /\ o \in Object
  BY DEF IInv, TypeOK
<1>2. {Asked(o, k)} \in SUBSET Outcome
  BY <1>1, EvaluatedType
<1>3. nodes' = nodes /\ program' = program /\ ran' = ran /\ objects' = objects /\ shown' = <<>>
      /\ Ended({Asked(o, k)}, TRUE)
  BY DEF IndexObject
<1>4. Object' = Object
  BY <1>3 DEF Object
<1>5. DOMAIN cache' \subseteq Entry' /\ cache' \in [DOMAIN cache' -> Value] /\ failed' \in BOOLEAN
  BY <1>1, <1>2, <1>3, <1>4, EndedFacts
<1>6. TypeOK'
  BY <1>1, <1>3, <1>4, <1>5 DEF TypeOK
<1>7. Len(nodes) <= Len(nodes')
  BY <1>1, <1>3, NodeFacts
<1>8. \A n \in Object' \ Object : FALSE
  BY <1>4
<1> QED
  BY <1>3, <1>6, <1>7, <1>8, InvKept

\* Taking the assertions off the nodes of an object leaves everything else
LEMMA ClearedFacts ==
    ASSUME IInv, NEW o \in Object, CheckAssertions(o)
    PROVE  /\ nodes' \in Seq(Node) /\ Len(nodes') = Len(nodes) /\ Object' = Object
           /\ ran \subseteq ran' /\ ran' \subseteq Nat
           /\ \A n \in Object : /\ nodes'[n].base = nodes[n].base
                                /\ nodes'[n].layers = nodes[n].layers
                                /\ nodes'[n].deleted = nodes[n].deleted
                                /\ nodes'[n].props = nodes[n].props
           /\ \A n \in Object : nodes'[n].asserts = nodes[n].asserts
                                 \/ (nodes'[n].asserts = {} /\ Own(n).id \in ran')
<1> DEFINE cleared == [n \in Object |-> IF n \in NodesOf(o) THEN [nodes[n] EXCEPT !.asserts = {}] ELSE nodes[n]]
<1>1. TypeOK /\ Shape
  BY DEF IInv
<1>2. nodes' = cleared
  BY DEF CheckAssertions, Cleared
<1>3. \A n \in Object : nodes[n] \in Node
  BY <1>1, NodeFacts
<1>4. ASSUME NEW n \in Object
      PROVE  /\ cleared[n] \in Node
             /\ cleared[n].base = nodes[n].base /\ cleared[n].layers = nodes[n].layers
             /\ cleared[n].deleted = nodes[n].deleted /\ cleared[n].props = nodes[n].props
             /\ cleared[n].asserts = IF n \in NodesOf(o) THEN {} ELSE nodes[n].asserts
  <2>1. nodes[n] \in Node
    BY <1>3
  <2>2. {} \in SUBSET Assertion
    OBVIOUS
  <2> QED
    BY <2>1, <2>2 DEF Node
<1>5. Len(nodes) \in Nat /\ Object = 1 .. Len(nodes)
  BY <1>1, NodeFacts DEF Object
<1>6. DOMAIN cleared = 1 .. Len(nodes)
  BY <1>5
<1> HIDE DEF cleared
<1>7. cleared \in [1 .. Len(nodes) -> Node]
  <2>1. cleared = [n \in 1 .. Len(nodes) |-> cleared[n]]
    BY <1>5 DEF cleared
  <2> QED
    BY <1>4, <1>5, <2>1
<1>8. cleared \in Seq(Node) /\ Len(cleared) = Len(nodes)
  BY <1>5, <1>7
<1>9. Object' = Object
  BY <1>2, <1>8 DEF Object
<1>10. ran' = ran \cup {Origin(n) : n \in {m \in NodesOf(o) : nodes[m].asserts # {}}}
  BY DEF CheckAssertions
<1>11. NodesOf(o) \subseteq Object
  BY <1>1, NodesOfFacts
<1>12. ASSUME NEW n \in Object PROVE Origin(n) = Own(n).id /\ Origin(n) \in Nat
  <2>1. Own(n) \in Layer
    BY <1>1, SoundFacts
  <2> QED
    BY <1>1, <2>1, OriginFacts DEF Layer
<1>13. ran \subseteq ran' /\ ran' \subseteq Nat
  BY <1>1, <1>10, <1>11, <1>12 DEF TypeOK
<1>14. ASSUME NEW n \in Object
       PROVE  nodes'[n].asserts = nodes[n].asserts \/ (nodes'[n].asserts = {} /\ Own(n).id \in ran')
  BY <1>2, <1>4, <1>10, <1>12
<1> QED
  BY <1>2, <1>4, <1>8, <1>9, <1>13, <1>14

\* o[k] keeps the invariant
LEMMA IndexArrayStep ==
    ASSUME IInv, NEW o \in objects, NEW k \in Key, IndexArray(o, k)
    PROVE  IInv'
<1> DEFINE outcomes ==
      Checks(o) \cup
        (IF Resolution(o, k) = 0 THEN {} ELSE {Run(FieldOf(o, k).body, Resolution(o, k), o)})
<1>1. TypeOK /\ Shape /\ o \in Object
  BY DEF IInv, TypeOK
<1>2. CheckAssertions(o) /\ Ended(outcomes, AssertionsPass(o)) /\ shown' = <<>>
      /\ program' = program /\ objects' = objects
  BY DEF IndexArray
<1>3. outcomes \in SUBSET Outcome
  BY <1>1, ChecksFacts, FoundFacts
<1> HIDE DEF outcomes
<1>4. /\ nodes' \in Seq(Node) /\ Len(nodes') = Len(nodes) /\ Object' = Object
      /\ ran \subseteq ran' /\ ran' \subseteq Nat
      /\ \A n \in Object : /\ nodes'[n].base = nodes[n].base
                           /\ nodes'[n].layers = nodes[n].layers
                           /\ nodes'[n].deleted = nodes[n].deleted
                           /\ nodes'[n].props = nodes[n].props
      /\ \A n \in Object : nodes'[n].asserts = nodes[n].asserts
                            \/ (nodes'[n].asserts = {} /\ Own(n).id \in ran')
  BY <1>1, <1>2, ClearedFacts
<1>5. DOMAIN cache' \subseteq Entry' /\ cache' \in [DOMAIN cache' -> Value] /\ failed' \in BOOLEAN
  BY <1>1, <1>2, <1>3, <1>4, EndedFacts
<1>6. TypeOK'
  BY <1>1, <1>2, <1>4, <1>5 DEF TypeOK
<1>7. Len(nodes) <= Len(nodes')
  BY <1>1, <1>4, NodeFacts
<1>8. \A n \in Object' \ Object : FALSE
  BY <1>4
<1> QED
  BY <1>2, <1>4, <1>6, <1>7, <1>8, InvKept

\* Writing an object out keeps the invariant
LEMMA ManifestStep ==
    ASSUME IInv, NEW o \in objects, Manifest(o)
    PROVE  IInv'
<1> DEFINE result(k) == Run(FieldOf(o, k).body, Resolution(o, k), o)
           outcomes == Checks(o) \cup {result(k) : k \in VisibleKeys(o)}
<1>1. TypeOK /\ Shape /\ o \in Object
  BY DEF IInv, TypeOK
<1>2. /\ CheckAssertions(o) /\ Ended(outcomes, AssertionsPass(o))
      /\ program' = program /\ objects' = objects
      /\ shown' = IF failed' THEN <<>>
                  ELSE <<o, [k \in Key |-> IF k \in VisibleKeys(o) THEN result(k).val ELSE None]>>
  BY DEF Manifest
<1>3. outcomes \in SUBSET Outcome /\ \A k \in VisibleKeys(o) : result(k) \in outcomes
  <2>1. \A k \in VisibleKeys(o) : k \in Key /\ Resolution(o, k) # 0
    BY DEF VisibleKeys
  <2> QED
    BY <1>1, <2>1, ChecksFacts, FoundFacts
<1> HIDE DEF outcomes, result
<1>4. /\ nodes' \in Seq(Node) /\ Len(nodes') = Len(nodes) /\ Object' = Object
      /\ ran \subseteq ran' /\ ran' \subseteq Nat
      /\ \A n \in Object : /\ nodes'[n].base = nodes[n].base
                           /\ nodes'[n].layers = nodes[n].layers
                           /\ nodes'[n].deleted = nodes[n].deleted
                           /\ nodes'[n].props = nodes[n].props
      /\ \A n \in Object : nodes'[n].asserts = nodes[n].asserts
                            \/ (nodes'[n].asserts = {} /\ Own(n).id \in ran')
  BY <1>1, <1>2, ClearedFacts
<1>5. /\ DOMAIN cache' \subseteq Entry' /\ cache' \in [DOMAIN cache' -> Value] /\ failed' \in BOOLEAN
      /\ ~ failed' => \A r \in outcomes : r.val \in Value
  BY <1>1, <1>2, <1>3, <1>4, EndedFacts
<1>6. shown' \in {<<>>} \cup (Object' \X [Key -> Value \cup {None}])
  <2>1. CASE failed'
    BY <1>2, <2>1
  <2>2. CASE ~ failed'
    <3> DEFINE values == [k \in Key |-> IF k \in VisibleKeys(o) THEN result(k).val ELSE None]
    <3>1. values \in [Key -> Value \cup {None}]
      BY <1>3, <1>5, <2>2
    <3>2. shown' = <<o, values>>
      BY <1>2, <2>2
    <3> HIDE DEF values
    <3> QED
      BY <1>1, <1>4, <3>1, <3>2
  <2> QED
    BY <2>1, <2>2
<1>7. TypeOK'
  BY <1>1, <1>2, <1>4, <1>5, <1>6 DEF TypeOK
<1>8. Len(nodes) <= Len(nodes')
  BY <1>1, <1>4, NodeFacts
<1>9. \A n \in Object' \ Object : FALSE
  BY <1>4
<1> QED
  BY <1>2, <1>4, <1>7, <1>8, <1>9, InvKept

\* Replacing thunks by their values keeps the invariant
LEMMA FormatStep ==
    ASSUME IInv, NEW o \in objects, Format(o)
    PROVE  IInv'
<1> DEFINE result(n, k) == Run(nodes[n].props[k].body, n, o)
           forced == {p \in NodesOf(o) \X Key : nodes[p[1]].props[p[2]] # None}
           outcomes == {result(p[1], p[2]) : p \in forced}
           Props(n) == [k \in Key |->
                          IF <<n, k>> \in forced
                          THEN [nodes[n].props[k] EXCEPT !.body = [op |-> "const", val |-> result(n, k).val]]
                          ELSE nodes[n].props[k]]
           formatted == [n \in Object |-> [nodes[n] EXCEPT !.props = Props(n)]]
<1>1. TypeOK /\ Shape /\ o \in Object
  BY DEF IInv, TypeOK
<1>2. /\ Ended(outcomes, TRUE) /\ program.formats /\ shown' = <<>>
      /\ program' = program /\ objects' = objects /\ ran' = ran
      /\ nodes' = IF failed' THEN nodes ELSE formatted
  BY DEF Format
<1>3. \A n \in Object : nodes[n] \in Node /\ nodes[n].props \in [Key -> Field \cup {None}]
  BY <1>1, NodeFacts DEF Node, Fields
<1>4. NodesOf(o) \subseteq Object
  BY <1>1, NodesOfFacts
<1>5. ASSUME NEW n \in Object, NEW k \in Key, nodes[n].props[k] # None
      PROVE  nodes[n].props[k] \in Field /\ result(n, k) \in Outcome
  <2>1. nodes[n].props[k] \in Field
    BY <1>3, <1>5
  <2>2. nodes[n].props[k].body \in Body
    BY <2>1 DEF Field
  <2> QED
    BY <1>1, <2>1, <2>2, EvaluatedType
<1>6. outcomes \in SUBSET Outcome
  BY <1>4, <1>5
<1>7. Len(nodes) \in Nat /\ Object = 1 .. Len(nodes) /\ nodes \in Seq(Node)
  BY <1>1 DEF Object, TypeOK
<1>8. Object' = Object /\ Len(nodes') = Len(nodes)
  <2>1. CASE failed'
    BY <1>2, <2>1 DEF Object
  <2>2. CASE ~ failed'
    <3>1. nodes' = [n \in 1 .. Len(nodes) |-> [nodes[n] EXCEPT !.props = Props(n)]]
      BY <1>2, <1>7, <2>2
    <3> HIDE DEF Props
    <3>2. Len(nodes') = Len(nodes)
      BY <1>7, <3>1
    <3> QED
      BY <3>2 DEF Object
  <2> QED
    BY <2>1, <2>2
<1>9. /\ DOMAIN cache' \subseteq Entry' /\ cache' \in [DOMAIN cache' -> Value] /\ failed' \in BOOLEAN
      /\ ~ failed' => \A r \in outcomes : r.val \in Value
  BY <1>1, <1>2, <1>6, <1>8, EndedFacts
<1>10. ASSUME NEW n \in Object, ~ failed'
       PROVE  /\ Props(n) \in Fields
              /\ \A k \in Key : /\ Props(n)[k] = None <=> nodes[n].props[k] = None
                                /\ nodes[n].props[k] # None => Props(n)[k].vis = nodes[n].props[k].vis
  <2>1. ASSUME NEW k \in Key
        PROVE  /\ Props(n)[k] \in Field \cup {None}
               /\ Props(n)[k] = None <=> nodes[n].props[k] = None
               /\ nodes[n].props[k] # None => Props(n)[k].vis = nodes[n].props[k].vis
    <3>1. CASE <<n, k>> \in forced
      <4> DEFINE field == nodes[n].props[k]
                 body == [op |-> "const", val |-> result(n, k).val]
      <4>1. field # None
        BY <3>1
      <4>2. field \in Field
        BY <1>5, <4>1
      <4>3. result(n, k) \in outcomes
        BY <3>1
      <4>4. body \in Body
        <5>1. result(n, k).val \in Value
          BY <1>9, <1>10, <4>3
        <5> HIDE DEF result
        <5> QED
          BY <5>1 DEF Body
      <4>5. Props(n)[k] = [field EXCEPT !.body = body]
        BY <3>1
      <4> HIDE DEF field, body, Props
      <4>6. [field EXCEPT !.body = body] \in Field /\ [field EXCEPT !.body = body].vis = field.vis
        BY <4>2, <4>4 DEF Field
      <4>7. Props(n)[k] # None
        BY <4>5, <4>6, MarkersAssumption
      <4> QED
        BY <4>1, <4>5, <4>6, <4>7 DEF field
    <3>2. CASE <<n, k>> \notin forced
      <4>1. Props(n)[k] = nodes[n].props[k]
        BY <3>2
      <4> HIDE DEF Props, forced
      <4> QED
        BY <1>3, <4>1
    <3> QED
      BY <3>1, <3>2
  <2>2. Props(n) = [k \in Key |-> Props(n)[k]]
    OBVIOUS
  <2> HIDE DEF Props
  <2> QED
    BY <2>1, <2>2 DEF Fields
<1> HIDE DEF Props, forced, outcomes, result
<1>11. ASSUME NEW n \in Object
       PROVE  /\ nodes'[n] \in Node
              /\ nodes'[n].base = nodes[n].base /\ nodes'[n].layers = nodes[n].layers
              /\ nodes'[n].deleted = nodes[n].deleted /\ nodes'[n].asserts = nodes[n].asserts
              /\ \A k \in Key : /\ nodes'[n].props[k] = None <=> nodes[n].props[k] = None
                                /\ nodes[n].props[k] # None => nodes'[n].props[k].vis = nodes[n].props[k].vis
  <2>1. CASE failed'
    BY <1>2, <1>3, <2>1
  <2>2. CASE ~ failed'
    <3>1. nodes'[n] = [nodes[n] EXCEPT !.props = Props(n)]
      BY <1>2, <2>2
    <3>2. nodes[n] \in Node /\ Props(n) \in Fields
      BY <1>3, <1>10, <2>2
    <3>3. /\ nodes'[n] \in Node /\ nodes'[n].props = Props(n)
          /\ nodes'[n].base = nodes[n].base /\ nodes'[n].layers = nodes[n].layers
          /\ nodes'[n].deleted = nodes[n].deleted /\ nodes'[n].asserts = nodes[n].asserts
      BY <3>1, <3>2 DEF Node
    <3> QED
      BY <1>10, <2>2, <3>3
  <2> QED
    BY <2>1, <2>2
<1>12. nodes' \in Seq(Node)
  <2>1. CASE failed'
    BY <1>2, <1>7, <2>1
  <2>2. CASE ~ failed'
    <3>1. nodes' = [n \in Object |-> nodes'[n]]
      BY <1>2, <2>2
    <3>2. nodes' \in [1 .. Len(nodes) -> Node]
      BY <1>7, <1>11, <3>1
    <3> QED
      BY <1>7, <3>2
  <2> QED
    BY <2>1, <2>2
<1>13. TypeOK'
  <2>1. \A n \in Object' : nodes'[n].base \in 0 .. Len(nodes')
    BY <1>1, <1>8, <1>11 DEF TypeOK
  <2> QED
    BY <1>1, <1>2, <1>8, <1>9, <1>12, <2>1 DEF TypeOK
<1>14. Len(nodes) <= Len(nodes')
  BY <1>7, <1>8
<1>15. \A n \in Object' \ Object : FALSE
  BY <1>8
<1>16. \A n \in Object, k \in Key :
          /\ nodes'[n].props[k] = None <=> nodes[n].props[k] = None
          /\ nodes[n].props[k] # None =>
                /\ program.formats \/ nodes'[n].props[k].body = nodes[n].props[k].body
                /\ nodes'[n].props[k].vis = nodes[n].props[k].vis
  BY <1>2, <1>11
<1>17. /\ \A n \in Object : /\ nodes'[n].base = nodes[n].base
                            /\ nodes'[n].layers = nodes[n].layers
                            /\ nodes'[n].deleted = nodes[n].deleted
       /\ \A n \in Object : nodes'[n].asserts = nodes[n].asserts
  BY <1>11
<1>18. program' = program /\ ran \subseteq ran'
  BY <1>2
<1> HIDE DEF formatted
<1> QED
  BY <1>13, <1>14, <1>15, <1>16, <1>17, <1>18, InvKept

----------------------------------------------------------------------------
(* Adding objects *)

\* Visibility of layers on top of others that remove nothing
LEMMA ConcatVisibility ==
    ASSUME NEW L \in Seq(Layer), NEW B \in Seq(Layer), NEW k \in Key,
           \A i \in 1 .. Len(B) : B[i].removes = {}
    PROVE  VisibilityOf(L \o B, k) =
              IF VisibilityOf(B, k) # "visible" THEN VisibilityOf(B, k) ELSE VisibilityOf(L, k)
<1> DEFINE ls == L \o B
           D == Definitions(ls, k)
           DL == Definitions(L, k)
           DB == Definitions(B, k)
           S == {j \in D : ls[j].fields[k].vis # "visible"}
           SL == {j \in DL : L[j].fields[k].vis # "visible"}
           SB == {j \in DB : B[j].fields[k].vis # "visible"}
           a == Len(L)
           b == Len(B)
<1>1. a \in Nat /\ b \in Nat /\ ls \in Seq(Layer) /\ Len(ls) = a + b
  BY ConcatProperties, LenProperties
<1>2. /\ \A i \in 1 .. a : i \in 1 .. Len(ls) /\ ls[i] = L[i]
      /\ \A i \in 1 .. b : a + i \in 1 .. Len(ls) /\ ls[a + i] = B[i]
  <2>1. \A i \in 1 .. a + b : ls[i] = IF i <= a THEN L[i] ELSE B[i - a]
    BY ConcatProperties
  <2>2. ASSUME NEW i \in 1 .. a PROVE i \in 1 .. Len(ls) /\ ls[i] = L[i]
    <3>1. i \in 1 .. a + b /\ i <= a
      BY <1>1
    <3> QED
      BY <1>1, <2>1, <3>1
  <2>3. ASSUME NEW i \in 1 .. b PROVE a + i \in 1 .. Len(ls) /\ ls[a + i] = B[i]
    <3>1. a + i \in 1 .. a + b /\ ~(a + i <= a) /\ (a + i) - a = i
      BY <1>1
    <3> QED
      BY <1>1, <2>1, <3>1
  <2> QED
    BY <2>2, <2>3
<1>3. \A i \in 1 .. Len(ls) : i \in 1 .. a \/ (i - a \in 1 .. b /\ i = a + (i - a) /\ i > a)
  BY <1>1
<1>4. /\ D = {j \in 1 .. Len(ls) : /\ ls[j].fields[k] # None
                                   /\ \A i \in j .. Len(ls) : k \notin ls[i].removes}
      /\ DL = {j \in 1 .. a : /\ L[j].fields[k] # None
                              /\ \A i \in j .. a : k \notin L[i].removes}
      /\ DB = {j \in 1 .. b : /\ B[j].fields[k] # None
                              /\ \A i \in j .. b : k \notin B[i].removes}
  BY DEF Definitions
<1>5. /\ VisibilityOf(ls, k) = IF S = {} THEN "visible" ELSE ls[Highest(S)].fields[k].vis
      /\ VisibilityOf(L, k) = IF SL = {} THEN "visible" ELSE L[Highest(SL)].fields[k].vis
      /\ VisibilityOf(B, k) = IF SB = {} THEN "visible" ELSE B[Highest(SB)].fields[k].vis
  BY DEF VisibilityOf
<1> HIDE DEF ls, D, DL, DB, a, b
<1>6. \A i \in 1 .. b : k \notin B[i].removes
  BY DEF b
<1>7. ASSUME NEW j \in 1 .. a PROVE j \in D <=> j \in DL
  <2>1. \A i \in j .. a : i \in j .. Len(ls) /\ i \in 1 .. a
    BY <1>1
  <2>2. ASSUME NEW i \in j .. Len(ls) PROVE i \in j .. a \/ k \notin ls[i].removes
    <3>1. CASE i <= a
      BY <1>1, <3>1
    <3>2. CASE ~(i <= a)
      <4>1. i \in 1 .. Len(ls)
        BY <1>1
      <4>2. i - a \in 1 .. b /\ i = a + (i - a)
        BY <1>1, <1>3, <3>2, <4>1
      <4>3. ls[a + (i - a)] = B[i - a]
        BY <1>2, <4>2
      <4> QED
        BY <1>6, <4>2, <4>3
    <3> QED
      BY <3>1, <3>2
  <2> QED
    BY <1>2, <1>4, <2>1, <2>2
<1>8. ASSUME NEW j \in 1 .. b PROVE a + j \in D <=> j \in DB
  <2>1. ASSUME NEW i \in a + j .. Len(ls) PROVE k \notin ls[i].removes
    <3>1. i - a \in 1 .. b /\ i = a + (i - a)
      BY <1>1
    <3>2. ls[a + (i - a)] = B[i - a]
      BY <1>2, <3>1
    <3> QED
      BY <1>6, <3>1, <3>2
  <2>2. \A i \in j .. b : i \in 1 .. b
    BY <1>1
  <2> QED
    BY <1>2, <1>4, <1>6, <2>1, <2>2
<1>9. D \in SUBSET (1 .. Len(ls)) /\ DL \in SUBSET (1 .. a) /\ DB \in SUBSET (1 .. b)
  BY <1>4
<1>10. CASE SB = {}
  <2>1. \A j \in S : j \in 1 .. a
    <3> SUFFICES ASSUME NEW j \in S, ~(j \in 1 .. a) PROVE FALSE
      OBVIOUS
    <3>1. j \in D /\ ls[j].fields[k].vis # "visible" /\ j \in 1 .. Len(ls)
      BY <1>9
    <3>2. j - a \in 1 .. b /\ j = a + (j - a)
      BY <1>3, <3>1
    <3>3. j - a \in DB /\ ls[j] = B[j - a]
      BY <1>2, <1>8, <3>1, <3>2
    <3>4. j - a \in SB
      BY <3>1, <3>3
    <3> QED
      BY <1>10, <3>4
  <2>2. S = SL
    <3>1. \A j \in 1 .. a : j \in S <=> j \in SL
      BY <1>2, <1>7
    <3>2. \A j \in SL : j \in 1 .. a
      BY <1>9
    <3> HIDE DEF S, SL
    <3> QED
      BY <2>1, <3>1, <3>2
  <2>3. SL \in SUBSET (1 .. a)
    BY <1>9
  <2>4. SL # {} => ls[Highest(SL)] = L[Highest(SL)]
    <3> HIDE DEF SL
    <3> QED
      BY <1>1, <1>2, <2>3, HighestFacts
  <2> HIDE DEF S, SL, SB
  <2> QED
    BY <1>5, <1>10, <2>2, <2>4 DEF ls
<1>11. CASE SB # {}
  <2> DEFINE h == Highest(SB)
  <2>1. SB \in SUBSET (1 .. b) /\ S \in SUBSET (1 .. a + b)
    BY <1>1, <1>9
  <2>2. h \in SB /\ h \in 1 .. b /\ \A j \in SB : j <= h
    <3> HIDE DEF SB
    <3> QED
      BY <1>1, <1>11, <2>1, HighestFacts
  <2> HIDE DEF h
  <2>3. a + h \in S
    BY <1>2, <1>8, <2>2
  <2>4. ASSUME NEW j \in S PROVE j <= a + h
    <3>1. j \in D /\ ls[j].fields[k].vis # "visible" /\ j \in 1 .. Len(ls)
      BY <1>9
    <3>2. CASE j \in 1 .. a
      BY <1>1, <2>2, <3>2
    <3>3. CASE ~(j \in 1 .. a)
      <4>1. j - a \in 1 .. b /\ j = a + (j - a)
        BY <1>3, <3>1, <3>3
      <4>2. j - a \in DB /\ ls[j] = B[j - a]
        BY <1>2, <1>8, <3>1, <4>1
      <4>3. j - a \in SB
        BY <3>1, <4>2
      <4>4. j - a <= h
        BY <2>2, <4>3
      <4> QED
        BY <1>1, <2>2, <4>1, <4>4
    <3> QED
      BY <3>2, <3>3
  <2>5. Highest(S) = a + h
    <3>1. a + b \in Nat
      BY <1>1
    <3> HIDE DEF S, SB
    <3> QED
      BY <2>1, <2>3, <2>4, <3>1, HighestIs
  <2>6. ls[a + h] = B[h] /\ B[h].fields[k].vis # "visible"
    BY <1>2, <2>2
  <2>7. S # {}
    BY <2>3
  <2> HIDE DEF S, SL, SB
  <2> QED
    BY <1>5, <1>11, <2>5, <2>6, <2>7 DEF ls, h
<1> QED
  BY <1>10, <1>11

\* A chain from which nothing was removed has one layer for each node.
LEMMA PlainLayers ==
    ASSUME IInv, ~ program.mergesRemoved, NEW right \in Object,
           \A n \in NodesOf(right) : nodes[n].deleted = {}
    PROVE  \A n \in NodesOf(right) :
              /\ Len(nodes[n].layers) = Len(Below(n)) + 1
              /\ \A i \in 1 .. Len(nodes[n].layers) : nodes[n].layers[i].removes = {}
<1> DEFINE Good(n) == /\ Len(nodes[n].layers) = Len(Below(n)) + 1
                      /\ \A i \in 1 .. Len(nodes[n].layers) : nodes[n].layers[i].removes = {}
           Bad == {n \in NodesOf(right) : ~ Good(n)}
<1>0. TypeOK /\ Shape /\ \A n \in Object : DeletedExact(n)
  BY DEF IInv, NodesExact
<1>1. NodesOf(right) \subseteq Object /\ \A n \in Object : n \in Nat
  BY <1>0, NodesOfFacts, NodeFacts
<1>2. Bad = {}
  <2> SUFFICES ASSUME Bad # {} PROVE FALSE
    OBVIOUS
  <2>1. Bad \in SUBSET Nat
    BY <1>1
  <2>2. PICK n \in Bad : \A j \in Bad : n <= j
    BY <2>1, LeastIn
  <2>3. n \in NodesOf(right) /\ n \in Object /\ n \in Nat /\ ~ Good(n)
    BY <1>1
  <2> DEFINE base == nodes[n].base
             ls == nodes[n].layers
             b == Len(Below(n))
  <2>4. base \in 0 .. n - 1 /\ base \in Object \cup {0} /\ ls \in Seq(Layer)
        /\ b \in Nat /\ Len(ls) \in Nat /\ b < Len(ls)
    BY <1>0, <2>3, SoundFacts
  <2>5. ASSUME base # 0 PROVE Good(base)
    <3>1. base \in NodesOf(right)
      BY <1>0, <2>3, <2>5, NodesOfFacts
    <3>2. base < n /\ base \in Int
      <4> HIDE DEF base, Good, Bad
      <4> QED
        BY <2>3, <2>4
    <3>3. base \notin Bad
      <4> HIDE DEF Bad
      <4> QED
        BY <2>2, <2>3, <3>2
    <3> QED
      BY <3>1, <3>3
  <2>6. /\ \A i \in 1 .. Len(ls) : i <= b \/ i = b + 1 \/ i \in b + 2 .. Len(ls)
        /\ \A i \in 1 .. b : ls[i] = Below(n)[i]
        /\ ls[b + 1] = Own(n) /\ Own(n).removes = {}
        /\ \A i \in b + 2 .. Len(ls) : ls[i].removes # {}
    <3> HIDE DEF Good, Bad
    <3>1. LET lsn == nodes[n].layers
              bn == Len(Below(n))
          IN /\ \A i \in 1 .. Len(lsn) : i <= bn \/ i = bn + 1 \/ i \in bn + 2 .. Len(lsn)
             /\ \A i \in 1 .. bn : lsn[i] = Below(n)[i]
             /\ lsn[bn + 1] = Own(n) /\ Own(n).removes = {}
             /\ \A i \in bn + 2 .. Len(lsn) : lsn[i].removes # {}
      BY <1>0, <2>3, LayersFacts
    <3> QED
      BY <3>1
  <2>7. \A k \in Key : ~ \E i \in b + 1 .. Len(ls) : k \in ls[i].removes
    BY <1>0, <2>3 DEF DeletedExact
  <2>8. ASSUME NEW i \in b + 2 .. Len(ls) PROVE FALSE
    <3>1. i \in 1 .. Len(ls) /\ i \in b + 1 .. Len(ls)
      BY <2>4
    <3>2. ls[i].removes \in SUBSET Key
      <4> HIDE DEF ls
      <4>1. ls[i] \in Layer
        BY <2>4, <3>1, ElementOfSeq
      <4> QED
        BY <4>1 DEF Layer
    <3> QED
      BY <2>6, <2>7, <3>1, <3>2
  <2>9. Len(ls) = b + 1
    <3> SUFFICES ASSUME Len(ls) # b + 1 PROVE FALSE
      OBVIOUS
    <3>1. b + 2 \in b + 2 .. Len(ls)
      BY <2>4
    <3> QED
      BY <2>8, <3>1
  <2>10. \A i \in 1 .. b : Below(n)[i].removes = {}
    <3>1. CASE base = 0
      <4>1. Below(n) = <<>>
        BY <3>1 DEF Below, Layers
      <4>2. 1 .. b = {}
        BY <4>1, EmptySeq
      <4> QED
        BY <4>2
    <3>2. CASE base # 0
      <4>1. Below(n) = nodes[base].layers
        BY <3>2 DEF Below, Layers
      <4> QED
        BY <2>5, <3>2, <4>1
    <3> QED
      BY <3>1, <3>2
  <2>11. ASSUME NEW i \in 1 .. Len(ls) PROVE ls[i].removes = {}
    <3>1. CASE i = b + 1
      BY <2>6, <3>1
    <3>2. CASE i # b + 1
      <4>1. i \in 1 .. b
        BY <2>4, <2>9, <3>2
      <4> QED
        BY <2>6, <2>10, <4>1
    <3> QED
      BY <3>1, <3>2
  <2>12. Good(n)
    BY <2>9, <2>11
  <2> QED
    BY <2>3, <2>12
<1> QED
  BY <1>2

\* What `:' on the right takes over is what the literals on the left give.
LEMMA InheritedFacts ==
    ASSUME IInv, ~ program.mergesRemoved, NEW left \in Object, NEW k \in Key, NEW vis
    PROVE  InheritedVis(left, k, vis) =
              IF vis = "visible" THEN VisibilityOf(nodes[left].layers, k) ELSE vis
<1>1. CASE vis # "visible"
  BY <1>1 DEF InheritedVis
<1>2. CASE vis = "visible" /\ Resolution(left, k) # 0
  <2>1. FieldOf(left, k).vis = VisibilityOf(nodes[left].layers, k)
    BY <1>2, FieldFacts DEF FieldOf
  <2> QED
    BY <1>2, <2>1 DEF InheritedVis
<1>3. CASE vis = "visible" /\ Resolution(left, k) = 0
  <2>1. VisibilityOf(nodes[left].layers, k) = "visible"
    BY <1>3, FieldFacts
  <2> QED
    BY <1>3, <2>1 DEF InheritedVis
<1> QED
  BY <1>1, <1>2, <1>3

\* The layers of a copy of `node' on the object `left'
Stacked(left, node) == nodes[left].layers \o node.layers

\* What merge_objects makes of a node of the object on the right
LEMMA MergedFacts ==
    ASSUME TypeOK, Shape, NEW left \in Object, NEW i \in Nat \ {0}, NEW node \in Node
    PROVE  LET new == MergedNode(left, i, node)
           IN /\ new \in Node
              /\ new.base = (IF i = 1 THEN left ELSE Len(nodes) + i - 1)
              /\ new.deleted = {} /\ new.asserts = node.asserts
              /\ new.layers = Stacked(left, node)
              /\ \A k \in Key :
                    /\ new.props[k] = None <=> node.props[k] = None
                    /\ node.props[k] # None =>
                          /\ new.props[k].body = node.props[k].body
                          /\ new.props[k].vis = InheritedVis(left, k, node.props[k].vis)
<1> DEFINE props == [k \in Key |-> IF node.props[k] = None THEN None
                                   ELSE [node.props[k] EXCEPT !.vis = InheritedVis(left, k, @)]]
           base == IF i = 1 THEN left ELSE Len(nodes) + i - 1
           ls == nodes[left].layers \o node.layers
           new == MergedNode(left, i, node)
<1>1. new = [props |-> props, base |-> base, deleted |-> {}, asserts |-> node.asserts, layers |-> ls]
  BY DEF MergedNode
<1>2. node.props \in [Key -> Field \cup {None}] /\ node.asserts \in SUBSET Assertion
      /\ node.layers \in Seq(Layer)
  BY DEF Node, Fields
<1>3. ASSUME NEW k \in Key
      PROVE  /\ props[k] \in Field \cup {None}
             /\ props[k] = None <=> node.props[k] = None
             /\ node.props[k] # None =>
                   /\ props[k].body = node.props[k].body
                   /\ props[k].vis = InheritedVis(left, k, node.props[k].vis)
  <2> DEFINE old == node.props[k]
             vis == InheritedVis(left, k, old.vis)
  <2>1. CASE old = None
    BY <2>1
  <2>2. CASE old # None
    <3>1. old \in Field
      BY <1>2, <2>2
    <3>2. vis \in Visibility
      <4>1. old.vis \in Visibility
        BY <3>1 DEF Field
      <4>2. Resolution(left, k) # 0 => FieldOf(left, k) \in Field
        BY ResolutionType
      <4>3. Resolution(left, k) # 0 => FieldOf(left, k).vis \in Visibility
        BY <4>2 DEF Field
      <4> QED
        BY <4>1, <4>3 DEF InheritedVis
    <3>3. props[k] = [old EXCEPT !.vis = vis]
      BY <2>2
    <3> HIDE DEF old, vis, props
    <3>4. props[k] \in Field /\ props[k].body = old.body /\ props[k].vis = vis
      BY <3>1, <3>2, <3>3 DEF Field
    <3>5. props[k] # None
      BY <3>4, MarkersAssumption
    <3> QED
      BY <2>2, <3>4, <3>5 DEF old, vis
  <2> QED
    BY <2>1, <2>2
<1>4. props \in Fields
  <2>1. props = [k \in Key |-> props[k]]
    OBVIOUS
  <2> HIDE DEF props
  <2> QED
    BY <1>3, <2>1 DEF Fields
<1>5. base \in Nat
  BY NodeFacts
<1>6. ls \in Seq(Layer)
  BY <1>2, SoundFacts, ConcatProperties
<1> HIDE DEF props, base, ls, new
<1>7. new \in Node
  BY <1>1, <1>2, <1>4, <1>5, <1>6 DEF Node
<1>8. new.props = props /\ new.base = base /\ new.deleted = {} /\ new.asserts = node.asserts /\ new.layers = ls
  BY <1>1
<1> QED
  BY <1>3, <1>7, <1>8 DEF new, base, ls, Stacked

\* Layers on top of others, one by one
LEMMA ConcatLayers ==
    ASSUME NEW L \in Seq(Layer), NEW ls \in Seq(Layer)
    PROVE  /\ L \o ls \in Seq(Layer) /\ Len(L) \in Nat /\ Len(ls) \in Nat
           /\ Len(L \o ls) = Len(L) + Len(ls)
           /\ \A i \in 1 .. Len(L) : (L \o ls)[i] = L[i]
           /\ \A i \in 1 .. Len(ls) : (L \o ls)[Len(L) + i] = ls[i]
<1>1. /\ L \o ls \in Seq(Layer) /\ Len(L \o ls) = Len(L) + Len(ls)
      /\ \A i \in 1 .. Len(L) + Len(ls) :
            (L \o ls)[i] = IF i <= Len(L) THEN L[i] ELSE ls[i - Len(L)]
  BY ConcatProperties
<1>2. Len(L) \in Nat /\ Len(ls) \in Nat
  BY LenProperties
<1> DEFINE c == L \o ls
           a == Len(L)
           b == Len(ls)
<1> HIDE DEF c, a, b
<1>3. ASSUME NEW i \in 1 .. a PROVE c[i] = L[i]
  <2>1. i \in 1 .. a + b /\ i <= a
    BY <1>2 DEF a, b
  <2> QED
    BY <1>1, <2>1 DEF a, b, c
<1>4. ASSUME NEW i \in 1 .. b PROVE c[a + i] = ls[i]
  <2>1. a + i \in 1 .. a + b /\ ~(a + i <= a) /\ (a + i) - a = i
    BY <1>2 DEF a, b
  <2>2. c[a + i] = IF a + i <= a THEN L[a + i] ELSE ls[(a + i) - a]
    BY <1>1, <2>1 DEF a, b, c
  <2> QED
    BY <2>1, <2>2
<1> QED
  BY <1>1, <1>2, <1>3, <1>4 DEF a, b, c

\* The layers below a copy of the node `source' on the object `left'
StackedBelow(left, source) == nodes[left].layers \o Below(source)

\* A node put on the left object: what it is made from, and what it lies on
LEMMA NewNodeStep ==
    ASSUME IInv, TypeOK', NEW left \in Object, NEW right \in Object, NEW source \in NodesOf(right),
           NEW i \in Nat \ {0}, NEW m \in Object', program' = program, ran' = ran,
           program.mergesRemoved \/ \A n \in NodesOf(right) : nodes[n].deleted = {},
           nodes'[m] = MergedNode(left, i, nodes[source]), nodes'[m].base \in 0 .. m - 1,
           Below(m)' = StackedBelow(left, source)
    PROVE  /\ NodeSound(m)'
           /\ ~ program.mergesRemoved => DeletedExact(m)' /\ FieldsExact(m)'
           /\ nodes'[m].asserts # Own(m)'.asserts => nodes'[m].asserts = {} /\ Own(m)'.id \in ran'
<1> DEFINE L == nodes[left].layers
           ls == nodes[source].layers
           B == Below(source)
           a == Len(L)
           b == Len(B)
           new == nodes'[m].layers
           below == Below(m)'
<1>1. TypeOK /\ Shape /\ source \in Object
  BY NodesOfFacts DEF IInv
<1>2. /\ nodes[source] \in Node /\ L \in Seq(Layer) /\ ls \in Seq(Layer) /\ B \in Seq(Layer)
      /\ b \in Nat /\ Len(ls) \in Nat /\ b < Len(ls)
  BY <1>1, SoundFacts
<1>3. /\ nodes'[m].deleted = {} /\ nodes'[m].asserts = nodes[source].asserts /\ new = L \o ls
      /\ \A k \in Key :
            /\ nodes'[m].props[k] = None <=> nodes[source].props[k] = None
            /\ nodes[source].props[k] # None =>
                  /\ nodes'[m].props[k].body = nodes[source].props[k].body
                  /\ nodes'[m].props[k].vis = InheritedVis(left, k, nodes[source].props[k].vis)
  <2>1. PICK node \in Node : node = nodes[source]
    BY <1>2
  <2>2. LET mn == MergedNode(left, i, node)
        IN /\ mn.deleted = {} /\ mn.asserts = node.asserts
           /\ mn.layers = Stacked(left, node)
           /\ \A k \in Key :
                 /\ mn.props[k] = None <=> node.props[k] = None
                 /\ node.props[k] # None =>
                       /\ mn.props[k].body = node.props[k].body
                       /\ mn.props[k].vis = InheritedVis(left, k, node.props[k].vis)
    BY <1>1, <2>1, MergedFacts
  <2>3. nodes'[m] = MergedNode(left, i, node)
    BY <2>1
  <2>4. nodes'[m].layers = Stacked(left, node)
    BY <2>2, <2>3
  <2>5. nodes'[m].layers = L \o ls
    BY <2>1, <2>4 DEF Stacked
  <2> HIDE DEF L, ls, new
  <2>6. new = L \o ls
    BY <2>5 DEF new
  <2> QED
    BY <2>1, <2>2, <2>3, <2>6
<1>4. below = L \o B
  BY DEF StackedBelow
<1>5. /\ \A j \in 1 .. b : ls[j] = B[j]
      /\ b + 1 \in 1 .. Len(ls) /\ ls[b + 1] = Own(source) /\ Own(source).id # 0 /\ Own(source).removes = {}
      /\ \A j \in b + 2 .. Len(ls) :
            /\ ls[j].id = 0 /\ ls[j].asserts = {} /\ ls[j].removes # {}
            /\ \A k \in Key : ls[j].fields[k] = None
  <2>1. LET lss == nodes[source].layers
            bs == Len(Below(source))
        IN /\ \A j \in 1 .. bs : lss[j] = Below(source)[j]
           /\ bs + 1 \in 1 .. Len(lss) /\ lss[bs + 1] = Own(source)
           /\ Own(source).id # 0 /\ Own(source).removes = {}
           /\ \A j \in bs + 2 .. Len(lss) :
                 /\ lss[j].id = 0 /\ lss[j].asserts = {} /\ lss[j].removes # {}
                 /\ \A k \in Key : lss[j].fields[k] = None
    BY <1>1, LayersFacts
  <2> QED
    BY <2>1
<1>6. Own(m)' = new[Len(below) + 1]
  BY DEF Own
<1> HIDE DEF L, ls, B, b, a, new, below
<1>7. /\ a \in Nat /\ Len(new) = a + Len(ls)
      /\ \A j \in 1 .. a : new[j] = L[j]
      /\ \A j \in 1 .. Len(ls) : new[a + j] = ls[j]
      /\ Len(below) = a + b
      /\ \A j \in 1 .. a : below[j] = L[j]
      /\ \A j \in 1 .. b : below[a + j] = B[j]
  BY <1>2, <1>3, <1>4, ConcatLayers DEF a, b
<1>8. Own(m)' = Own(source)
  <2>1. (a + b) + 1 = a + (b + 1)
    BY <1>2, <1>7
  <2> QED
    BY <1>5, <1>6, <1>7, <2>1
<1>9. \A j \in Int : j \in a + b + 1 .. Len(new) =>
         j - a \in b + 1 .. Len(ls) /\ j - a \in 1 .. Len(ls) /\ j = a + (j - a)
  BY <1>2, <1>7
<1>10. NodeSound(m)'
  <2>1. Len(below) < Len(new)
    BY <1>2, <1>7
  <2>2. ASSUME NEW j \in 1 .. Len(below) PROVE new[j] = below[j]
    <3>1. CASE j <= a
      <4>1. j \in 1 .. a
        BY <1>2, <1>7, <3>1
      <4> QED
        BY <1>7, <4>1
    <3>2. CASE ~(j <= a)
      <4>1. j - a \in 1 .. b /\ j - a \in 1 .. Len(ls) /\ j = a + (j - a)
        BY <1>2, <1>7, <3>2
      <4>2. new[a + (j - a)] = ls[j - a] /\ below[a + (j - a)] = B[j - a] /\ ls[j - a] = B[j - a]
        BY <1>5, <1>7, <4>1
      <4> QED
        BY <4>1, <4>2
    <3> QED
      BY <3>1, <3>2
  <2>3. new[Len(below) + 1].id # 0 /\ new[Len(below) + 1].removes = {}
    BY <1>5, <1>6, <1>8
  <2>4. ASSUME NEW j \in Len(below) + 2 .. Len(new)
        PROVE  /\ new[j].id = 0 /\ new[j].asserts = {} /\ new[j].removes # {}
               /\ \A k \in Key : new[j].fields[k] = None
    <3>1. j - a \in b + 2 .. Len(ls) /\ j - a \in 1 .. Len(ls) /\ j = a + (j - a)
      BY <1>2, <1>7
    <3>2. new[a + (j - a)] = ls[j - a]
      BY <1>7, <3>1
    <3>3. new[j] = ls[j - a]
      BY <3>1, <3>2
    <3>4. /\ ls[j - a].id = 0 /\ ls[j - a].asserts = {} /\ ls[j - a].removes # {}
          /\ \A k \in Key : ls[j - a].fields[k] = None
      BY <1>5, <3>1
    <3> QED
      BY <3>3, <3>4
  <2> QED
    BY <2>1, <2>2, <2>3, <2>4 DEF NodeSound, new, below
<1>11. ASSUME ~ program.mergesRemoved PROVE DeletedExact(m)' /\ FieldsExact(m)'
  <2>1. /\ Len(ls) = b + 1
        /\ \A j \in 1 .. Len(ls) : ls[j].removes = {}
        /\ nodes[source].deleted = {} /\ FieldsExact(source)
    BY <1>1, <1>11, PlainLayers DEF ls, b, B, IInv, NodesExact
  <2>2. ASSUME NEW j \in Len(below) + 1 .. Len(new) PROVE new[j].removes = {}
    <3>1. j - a \in 1 .. Len(ls) /\ j = a + (j - a)
      BY <1>2, <1>7, <1>9
    <3>2. new[a + (j - a)] = ls[j - a]
      BY <1>7, <3>1
    <3> QED
      BY <2>1, <3>1, <3>2
  <2>3. DeletedExact(m)'
    BY <1>3, <2>2 DEF DeletedExact, below, new
  <2>4. \A j \in 1 .. Len(B) : B[j].removes = {}
    <3>1. \A j \in 1 .. b : j \in 1 .. Len(ls)
      BY <1>2
    <3> QED
      BY <1>5, <2>1, <3>1 DEF b
  <2>5. ASSUME NEW k \in Key
        PROVE  LET mine == Own(m)'.fields[k]
                   prop == nodes'[m].props[k]
               IN /\ prop = None <=> (k \in nodes'[m].deleted \/ mine = None)
                  /\ prop # None =>
                        /\ program'.formats \/ prop.body = mine.body
                        /\ prop.vis = IF mine.vis # "visible" THEN mine.vis ELSE VisibilityOf(Below(m)', k)
    <3> DEFINE mine == Own(source).fields[k]
               old == nodes[source].props[k]
               prop == nodes'[m].props[k]
    <3>1. /\ old = None <=> mine = None
          /\ old # None =>
                /\ program.formats \/ old.body = mine.body
                /\ old.vis = IF mine.vis # "visible" THEN mine.vis ELSE VisibilityOf(B, k)
      BY <2>1 DEF FieldsExact, B
    <3>2. /\ prop = None <=> old = None
          /\ old # None => prop.body = old.body /\ prop.vis = InheritedVis(left, k, old.vis)
      BY <1>3
    <3>3. InheritedVis(left, k, old.vis) = IF old.vis = "visible" THEN VisibilityOf(L, k) ELSE old.vis
      BY <1>11, InheritedFacts DEF L
    <3>4. VisibilityOf(below, k) =
             IF VisibilityOf(B, k) # "visible" THEN VisibilityOf(B, k) ELSE VisibilityOf(L, k)
      BY <1>2, <1>4, <2>4, ConcatVisibility
    <3> HIDE DEF mine, old, prop
    <3>5. prop # None => prop.vis = IF mine.vis # "visible" THEN mine.vis ELSE VisibilityOf(below, k)
      BY <3>1, <3>2, <3>3, <3>4
    <3>6. /\ prop = None <=> mine = None
          /\ prop # None => program.formats \/ prop.body = mine.body
      BY <3>1, <3>2
    <3>7. Own(m)'.fields[k] = mine /\ nodes'[m].deleted = {} /\ program'.formats = program.formats
      BY <1>3, <1>8 DEF mine
    <3> QED
      BY <3>5, <3>6, <3>7 DEF prop, below
  <2>6. FieldsExact(m)'
    BY <2>5 DEF FieldsExact
  <2> QED
    BY <2>3, <2>6
<1>12. nodes'[m].asserts # Own(m)'.asserts => nodes'[m].asserts = {} /\ Own(m)'.id \in ran'
  BY <1>1, <1>3, <1>8 DEF IInv, AssertsExact
<1> QED
  BY <1>10, <1>11, <1>12

\* Adding two objects keeps the invariant: every copy lies on the copy before, the first on the left object
LEMMA MergeStep ==
    ASSUME IInv, NEW left \in objects, NEW right \in objects, Merge(left, right)
    PROVE  IInv'
<1> DEFINE c == Chain(right)
<1>1. TypeOK /\ Shape /\ left \in Object /\ right \in Object
  BY DEF IInv, TypeOK
<1>2. /\ c \in Seq(Object) /\ Len(c) \in Nat \ {0}
      /\ \A i \in 1 .. Len(c) : nodes[c[i]].base = IF i = Len(c) THEN 0 ELSE c[i + 1]
  BY <1>1, ChainFacts DEF ChainSound
<1>3. PICK N \in Nat : N = Len(nodes)
  BY <1>1, NodeFacts
<1>4. PICK n \in Nat \ {0} : n = Len(c)
  BY <1>2
<1> DEFINE Source(i) == c[n + 1 - i]
           New(i) == MergedNode(left, i, nodes[Source(i)])
           news == [i \in 1 .. n |-> New(i)]
<1>5. ASSUME NEW i \in 1 .. n
      PROVE  /\ Source(i) \in Object /\ Source(i) \in NodesOf(right) /\ nodes[Source(i)] \in Node
             /\ nodes[Source(i)].base = IF i = 1 THEN 0 ELSE Source(i - 1)
  <2>1. n + 1 - i \in 1 .. Len(c)
    BY <1>4
  <2>2. Source(i) \in Object
    BY <1>2, <2>1, ElementOfSeq
  <2>3. Source(i) \in NodesOf(right)
    BY <2>1 DEF NodesOf
  <2>4. nodes[Source(i)] \in Node
    BY <1>1, <2>2, NodeFacts
  <2>5. nodes[Source(i)].base = IF n + 1 - i = Len(c) THEN 0 ELSE c[(n + 1 - i) + 1]
    BY <1>2, <2>1
  <2>6. (n + 1 - i = Len(c) <=> i = 1) /\ (n + 1 - i) + 1 = n + 1 - (i - 1)
    BY <1>4
  <2> HIDE DEF c
  <2> QED
    BY <2>2, <2>3, <2>4, <2>5, <2>6
<1>6. /\ nodes' = nodes \o news /\ objects' = objects \cup {N + n} /\ shown' = <<>>
      /\ program' = program /\ cache' = cache /\ ran' = ran /\ failed' = failed
      /\ program.mergesRemoved \/ \A j \in NodesOf(right) : nodes[j].deleted = {}
  BY <1>3, <1>4 DEF Merge
<1> HIDE DEF c
<1>7. ASSUME NEW i \in 1 .. n
      PROVE  /\ New(i) \in Node
             /\ i = 1 => New(i).base = left
             /\ i # 1 => New(i).base = N + i - 1
             /\ New(i).layers = Stacked(left, nodes[Source(i)])
  <2>1. i \in Nat \ {0}
    OBVIOUS
  <2>2. PICK node \in Node : node = nodes[Source(i)]
    BY <1>5
  <2>3. New(i) = MergedNode(left, i, node)
    BY <2>2
  <2> HIDE DEF New, Source
  <2>4. LET mn == MergedNode(left, i, node)
        IN /\ mn \in Node
           /\ mn.base = (IF i = 1 THEN left ELSE Len(nodes) + i - 1)
           /\ mn.layers = Stacked(left, node)
    BY <1>1, <2>1, <2>2, MergedFacts
  <2>5. New(i) \in Node /\ New(i).layers = Stacked(left, nodes[Source(i)])
    BY <2>2, <2>3, <2>4
  <2>6. New(i).base = (IF i = 1 THEN left ELSE Len(nodes) + i - 1)
    BY <2>3, <2>4
  <2> QED
    BY <1>3, <2>5, <2>6
<1> HIDE DEF New, Source
<1>8. news \in Seq(Node) /\ Len(news) = n /\ \A i \in 1 .. n : news[i] = New(i)
  <2>1. n \in Nat /\ \A i \in 1 .. n : New(i) \in Node
    BY <1>4, <1>7
  <2> QED
    BY <2>1
<1> HIDE DEF news
<1>9. /\ nodes' \in Seq(Node) /\ Len(nodes') = N + n
      /\ \A j \in 1 .. N : nodes'[j] = nodes[j]
      /\ \A i \in 1 .. n : nodes'[N + i] = New(i)
  <2>1. nodes \in Seq(Node)
    BY <1>1 DEF TypeOK
  <2>2. /\ nodes \o news \in Seq(Node) /\ Len(nodes \o news) = Len(nodes) + Len(news)
        /\ \A j \in 1 .. Len(nodes) + Len(news) :
              (nodes \o news)[j] = IF j <= Len(nodes) THEN nodes[j] ELSE news[j - Len(nodes)]
    BY <1>8, <2>1, ConcatProperties
  <2>5. /\ nodes' \in Seq(Node) /\ Len(nodes') = N + n
        /\ \A j \in 1 .. N + n : nodes'[j] = IF j <= N THEN nodes[j] ELSE news[j - N]
    BY <1>3, <1>6, <1>8, <2>2
  <2>3. \A j \in 1 .. N : j \in 1 .. N + n /\ j <= N
    OBVIOUS
  <2>4. \A i \in 1 .. n : N + i \in 1 .. N + n /\ ~(N + i <= N) /\ (N + i) - N = i
    OBVIOUS
  <2>6. \A j \in 1 .. N : nodes'[j] = nodes[j]
    BY <2>3, <2>5
  <2>7. \A i \in 1 .. n : nodes'[N + i] = news[i]
    BY <2>4, <2>5
  <2> QED
    BY <1>8, <2>5, <2>6, <2>7
<1>10. Object = 1 .. N /\ Object' = 1 .. N + n /\ Object \subseteq Object'
  BY <1>3, <1>9 DEF Object
<1>11. \A j \in Object : nodes'[j] = nodes[j]
  BY <1>9, <1>10
<1>12. \A j \in Object' \ Object : j - N \in 1 .. n /\ j = N + (j - N)
  BY <1>10
<1>13. left \in 1 .. N
  BY <1>1, <1>10
<1>14. ASSUME NEW i \in 1 .. n PROVE New(i).base \in 0 .. (N + i) - 1
  <2>1. CASE i = 1
    <3>1. New(i).base = left
      BY <1>7, <2>1
    <3>2. left \in 0 .. (N + i) - 1
      BY <1>13
    <3> QED
      BY <3>1, <3>2
  <2>2. CASE i # 1
    <3>1. New(i).base = N + i - 1
      BY <1>7, <2>2
    <3>2. N + i - 1 \in 0 .. (N + i) - 1
      OBVIOUS
    <3> QED
      BY <3>1, <3>2
  <2> QED
    BY <2>1, <2>2
<1>15. TypeOK'
  <2>1. ASSUME NEW j \in Object' PROVE nodes'[j].base \in 0 .. Len(nodes')
    <3>1. CASE j \in Object
      <4>1. nodes[j].base \in 0 .. N
        BY <1>1, <1>3, <3>1 DEF TypeOK
      <4> QED
        BY <1>9, <1>11, <3>1, <4>1
    <3>2. CASE j \notin Object
      <4>1. PICK i \in 1 .. n : j = N + i
        BY <1>12, <3>2
      <4>2. nodes'[j] = New(i)
        BY <1>9, <4>1
      <4>3. New(i).base \in 0 .. (N + i) - 1
        BY <1>14
      <4> QED
        BY <1>9, <4>2, <4>3
    <3> QED
      BY <3>1, <3>2
  <2>2. N + n \in Object'
    BY <1>10
  <2>3. objects' \subseteq Object'
    BY <1>1, <1>6, <1>10, <2>2 DEF TypeOK
  <2>4. DOMAIN cache' \subseteq Entry'
    BY <1>1, <1>6, <1>10 DEF TypeOK, Entry
  <2> QED
    BY <1>1, <1>6, <1>9, <2>1, <2>3, <2>4 DEF TypeOK
<1>16. ASSUME NEW j \in Object' \ Object
       PROVE  /\ NodeSound(j)'
              /\ ~ program.mergesRemoved => DeletedExact(j)' /\ FieldsExact(j)'
              /\ nodes'[j].asserts # Own(j)'.asserts => nodes'[j].asserts = {} /\ Own(j)'.id \in ran'
  <2>1. PICK i \in 1 .. n : j = N + i
    BY <1>12
  <2>2. nodes'[j] = New(i)
    BY <1>9, <2>1
  <2>3. nodes'[j].base \in 0 .. j - 1
    BY <1>14, <2>1, <2>2
  <2>4. PICK source \in NodesOf(right) : source = Source(i)
    BY <1>5
  <2>5. /\ source \in Object /\ nodes[source] \in Node
        /\ nodes[source].base = (IF i = 1 THEN 0 ELSE Source(i - 1))
    BY <1>5, <2>4
  <2> DEFINE L == nodes[left].layers
  <2>6. L \in Seq(Layer)
    BY <1>1, SoundFacts
  <2>7. Below(j)' = L \o Below(source)
    <3>1. CASE i = 1
      <4>1. Below(source) = <<>>
        BY <2>5, <3>1 DEF Below, Layers
      <4>2. nodes'[j].base = left /\ left # 0 /\ nodes'[left] = nodes[left]
        <5>1. New(i).base = left
          BY <1>7, <3>1
        <5>2. left # 0
          BY <1>3, <1>13
        <5>3. nodes'[left] = nodes[left]
          BY <1>1, <1>11
        <5> QED
          BY <2>2, <5>1, <5>2, <5>3
      <4>3. Below(j)' = L
        BY <4>2 DEF Below, Layers
      <4> QED
        BY <2>6, <4>1, <4>3, ConcatEmptySeq
    <3>2. CASE i # 1
      <4>1. PICK p \in 1 .. n : p = i - 1
        BY <3>2
      <4>2. nodes[source].base = Source(p) /\ Source(p) # 0
        <5>1. nodes[source].base = Source(p)
          BY <2>5, <3>2, <4>1
        <5>2. Source(p) \in 1 .. N
          BY <1>5, <1>10
        <5> QED
          BY <5>1, <5>2
      <4>3. Below(source) = nodes[Source(p)].layers
        BY <4>2 DEF Below, Layers
      <4>4. nodes'[j].base = N + p /\ N + p # 0 /\ nodes'[N + p] = New(p)
        <5>1. New(i).base = N + i - 1
          BY <1>7, <3>2
        <5>2. N + i - 1 = N + p /\ N + p # 0
          BY <4>1
        <5>3. nodes'[N + p] = New(p)
          BY <1>9
        <5> QED
          BY <2>2, <5>1, <5>2, <5>3
      <4>5. Below(j)' = New(p).layers
        BY <4>4 DEF Below, Layers
      <4>6. New(p).layers = L \o nodes[Source(p)].layers
        BY <1>7 DEF Stacked
      <4> QED
        BY <4>3, <4>5, <4>6
    <3> QED
      BY <3>1, <3>2
  <2>8. nodes'[j] = MergedNode(left, i, nodes[source])
    BY <2>2, <2>4 DEF New
  <2>9. Below(j)' = StackedBelow(left, source)
    BY <2>7 DEF StackedBelow
  <2>10. i \in Nat \ {0} /\ j \in Object' /\ source \in NodesOf(right)
    BY <2>4
  <2>11. /\ program' = program /\ ran' = ran
         /\ program.mergesRemoved \/ \A k \in NodesOf(right) : nodes[k].deleted = {}
    BY <1>6
  <2> HIDE DEF L
  <2> QED
    BY <1>1, <1>15, <2>3, <2>8, <2>9, <2>10, <2>11, NewNodeStep
<1>17. Len(nodes) <= Len(nodes')
  BY <1>3, <1>9
<1> QED
  BY <1>6, <1>11, <1>15, <1>16, <1>17, InvKept

\* Nothing happens
LEMMA StutterStep == ASSUME IInv, UNCHANGED vars PROVE IInv'
<1>1. /\ program' = program /\ nodes' = nodes /\ objects' = objects /\ cache' = cache
      /\ ran' = ran /\ shown' = shown /\ failed' = failed
  BY DEF vars
<1>2. Object' = Object
  BY <1>1 DEF Object
<1>3. TypeOK'
  BY <1>1, <1>2 DEF IInv, TypeOK, Entry
<1>4. Len(nodes) <= Len(nodes')
  BY <1>1, NodeFacts DEF IInv
<1>5. \A n \in Object' \ Object : FALSE
  BY <1>2
<1> QED
  BY <1>1, <1>3, <1>4, <1>5, InvKept

\* Every step keeps the invariant
LEMMA NextInv == IInv /\ [Next]_vars => IInv'
<1> SUFFICES ASSUME IInv, [Next]_vars PROVE IInv'
  OBVIOUS
<1>1. CASE \E l \in Literals : MakeLiteral(l)
  BY <1>1, LiteralStep
<1>2. CASE \E left, right \in objects : Merge(left, right)
  BY <1>2, MergeStep
<1>3. CASE \E o \in objects : Manifest(o) \/ Format(o)
  BY <1>3, ManifestStep, FormatStep
<1>4. CASE \E o \in objects, k \in Key : RemoveKey(o, k) \/ IndexObject(o, k) \/ IndexArray(o, k)
  BY <1>4, RemoveStep, IndexObjectStep, IndexArrayStep
<1>5. CASE UNCHANGED vars
  BY <1>5, StutterStep
<1> QED
  BY <1>1, <1>2, <1>3, <1>4, <1>5 DEF Next

----------------------------------------------------------------------------
(* What a field is worth, from the literals.  The lookup that Denoted follows *)
(* goes from places to places: a place is a layer and a field it defines.     *)

Place(ls) == (1 .. Len(ls)) \X Key
Spot(ls) == (0 .. Len(ls)) \X Key \X SUBSET Place(ls)

\* The layer that defines k among the lowest n, the body there and, when that asks
\* for another field, the place and where it goes on
Found(ls, n, k) == Definition(SubSeq(ls, 1, n), k)
Text(ls, n, k) == ls[Found(ls, n, k)].fields[k].body
Asks(ls, n, k) ==
    /\ Found(ls, n, k) # 0
    /\ Text(ls, n, k).op # "const"
    /\ ~ (Text(ls, n, k).op = "super" /\ Found(ls, n, k) = 1)
PlaceOf(ls, n, k) == <<Found(ls, n, k), k>>
Start(ls, n, k) == IF Text(ls, n, k).op = "self" THEN Len(ls) ELSE Found(ls, n, k) - 1

MeaningStep(ls, f, p) ==
    LET j == Definition(SubSeq(ls, 1, p[1]), p[2])
        body == ls[j].fields[p[2]].body
    IN IF j = 0 THEN Null
       ELSE IF body.op = "const" THEN body.val
       ELSE IF <<j, p[2]>> \in p[3] \/ (body.op = "super" /\ j = 1) THEN Failure
       ELSE f[<<IF body.op = "self" THEN Len(ls) ELSE j - 1, body.key, p[3] \cup {<<j, p[2]>>}>>]

\* The places that were not asked for yet
Rest(ls, within) == Cardinality(Place(ls) \ within)

\* There are finitely many places.
LEMMA RestFacts ==
    ASSUME NEW ls \in Seq(Layer)
    PROVE  /\ Cardinality(Place(ls)) \in Nat
           /\ \A w \in SUBSET Place(ls) : Rest(ls, w) \in 0 .. Cardinality(Place(ls))
           /\ \A w \in SUBSET Place(ls), x \in Place(ls) :
                 x \notin w => Rest(ls, w \cup {x}) < Rest(ls, w)
<1>1. IsFiniteSet(1 .. Len(ls)) /\ IsFiniteSet(Key)
  BY LenProperties, FS_Interval, InstanceAssumption
<1>2. IsFiniteSet(Place(ls))
  BY <1>1, FS_Product DEF Place
<1> DEFINE P == Place(ls)
<1> HIDE DEF P
<1>3. Cardinality(P) \in Nat
  BY <1>2, FS_CardinalityType DEF P
<1>4. ASSUME NEW w \in SUBSET P
      PROVE  Cardinality(P \ w) \in 0 .. Cardinality(P) /\ IsFiniteSet(P \ w)
  <2>1. IsFiniteSet(P) /\ P \ w \in SUBSET P
    BY <1>2 DEF P
  <2> QED
    BY <1>3, <2>1, FS_Subset, FS_CardinalityType
<1>5. ASSUME NEW w \in SUBSET P, NEW x \in P, x \notin w
      PROVE  Cardinality(P \ (w \cup {x})) < Cardinality(P \ w)
  <2> DEFINE T == P \ w
  <2>1. IsFiniteSet(T) /\ x \in T
    BY <1>4, <1>5
  <2>2. P \ (w \cup {x}) = T \ {x}
    OBVIOUS
  <2> HIDE DEF T
  <2>3. Cardinality(T \ {x}) = Cardinality(T) - 1 /\ Cardinality(T) \in Nat
    BY <2>1, FS_RemoveElement, FS_CardinalityType
  <2>4. Cardinality(T \ {x}) < Cardinality(T)
    BY <2>3
  <2>5. Cardinality(P \ (w \cup {x})) = Cardinality(T \ {x})
    BY <2>2
  <2> QED
    BY <2>4, <2>5 DEF T
<1> QED
  BY <1>3, <1>4, <1>5 DEF P, Rest

\* The lowest n layers
LEMMA LowestFacts ==
    ASSUME NEW ls \in Seq(Layer), NEW n \in 0 .. Len(ls)
    PROVE  /\ SubSeq(ls, 1, n) \in Seq(Layer) /\ Len(SubSeq(ls, 1, n)) = n
           /\ \A i \in 1 .. n : SubSeq(ls, 1, n)[i] = ls[i]
<1>1. Len(ls) \in Nat /\ n \in Nat /\ n <= Len(ls)
  OBVIOUS
<1>2. SubSeq(ls, 1, n) = [i \in 1 .. n |-> ls[i]]
  BY <1>1
<1>3. \A i \in 1 .. n : ls[i] \in Layer
  BY <1>1, ElementOfSeq
<1> QED
  BY <1>1, <1>2, <1>3

\* Where a lookup goes on
LEMMA FoundPlace ==
    ASSUME NEW ls \in Seq(Layer), NEW n \in 0 .. Len(ls), NEW k \in Key
    PROVE  /\ Found(ls, n, k) \in 0 .. n /\ Found(ls, n, k) \in 0 .. Len(ls)
           /\ Found(ls, n, k) # 0 => Text(ls, n, k) \in Body /\ PlaceOf(ls, n, k) \in Place(ls)
           /\ Asks(ls, n, k) => /\ Text(ls, n, k).key \in Key
                                /\ Start(ls, n, k) \in 0 .. Len(ls)
                                /\ PlaceOf(ls, n, k) \in Place(ls)
<1> DEFINE low == SubSeq(ls, 1, n)
           j == Definition(low, k)
<1>1. Len(ls) \in Nat /\ n \in Nat /\ n <= Len(ls)
  OBVIOUS
<1>2. low \in Seq(Layer) /\ Len(low) = n /\ \A i \in 1 .. n : low[i] = ls[i]
  BY LowestFacts
<1> HIDE DEF low
<1>3. /\ Definitions(low, k) \in SUBSET (1 .. n)
      /\ \A i \in Definitions(low, k) : low[i].fields[k] \in Field
  BY <1>2, DefinitionsType
<1>4. j = 0 \/ (j \in Definitions(low, k))
  BY <1>1, <1>3, HighestFacts DEF Definition
<1>5. j # 0 => j \in 1 .. n /\ ls[j].fields[k] \in Field
  BY <1>2, <1>3, <1>4
<1>6. Found(ls, n, k) = j
  BY DEF Found, low
<1> HIDE DEF j
<1>7. j # 0 => ls[j].fields[k].body \in Body
  BY <1>5 DEF Field
<1>8. j # 0 => <<j, k>> \in Place(ls)
  BY <1>1, <1>5 DEF Place
<1>9. ASSUME Asks(ls, n, k)
      PROVE  /\ Text(ls, n, k).key \in Key
             /\ Start(ls, n, k) \in 0 .. Len(ls)
  <2>1. j # 0 /\ Text(ls, n, k) \in Body /\ Text(ls, n, k).op # "const"
    BY <1>6, <1>7, <1>9 DEF Asks, Text
  <2>2. Text(ls, n, k).key \in Key
    BY <2>1 DEF Body
  <2>3. j - 1 \in 0 .. Len(ls) /\ Len(ls) \in 0 .. Len(ls)
    BY <1>1, <1>5, <2>1
  <2> QED
    BY <1>6, <2>2, <2>3 DEF Start
<1>10. Asks(ls, n, k) => j # 0
  BY <1>6 DEF Asks
<1>11. j \in 0 .. n /\ j \in 0 .. Len(ls)
  BY <1>1, <1>5
<1> QED
  BY <1>6, <1>7, <1>8, <1>9, <1>10, <1>11 DEF Text, PlaceOf

Ends(ls, n, k) ==
    IF Found(ls, n, k) = 0 THEN Null
    ELSE IF Text(ls, n, k).op = "const" THEN Text(ls, n, k).val
    ELSE Failure

\* A step of the lookup ends it or goes on with fewer places left
LEMMA MeaningStepFacts ==
    ASSUME NEW ls \in Seq(Layer), NEW n \in 0 .. Len(ls), NEW k \in Key, NEW w \in SUBSET Place(ls)
    PROVE  /\ \A f : MeaningStep(ls, f, <<n, k, w>>) =
                 IF ~ Asks(ls, n, k) THEN Ends(ls, n, k)
                 ELSE IF PlaceOf(ls, n, k) \in w THEN Failure
                 ELSE f[<<Start(ls, n, k), Text(ls, n, k).key, w \cup {PlaceOf(ls, n, k)}>>]
           /\ Asks(ls, n, k) /\ PlaceOf(ls, n, k) \notin w =>
                 /\ <<Start(ls, n, k), Text(ls, n, k).key, w \cup {PlaceOf(ls, n, k)}>> \in Spot(ls)
                 /\ Rest(ls, w \cup {PlaceOf(ls, n, k)}) < Rest(ls, w)
<1> DEFINE p == <<n, k, w>>
<1>1. p[1] = n /\ p[2] = k /\ p[3] = w
  OBVIOUS
<1> HIDE DEF p
<1>2. \A f : MeaningStep(ls, f, p) =
         IF Found(ls, n, k) = 0 THEN Null
         ELSE IF Text(ls, n, k).op = "const" THEN Text(ls, n, k).val
         ELSE IF PlaceOf(ls, n, k) \in w \/ (Text(ls, n, k).op = "super" /\ Found(ls, n, k) = 1) THEN Failure
         ELSE f[<<Start(ls, n, k), Text(ls, n, k).key, w \cup {PlaceOf(ls, n, k)}>>]
  BY <1>1 DEF MeaningStep, Found, Text, PlaceOf, Start
<1>3. \A f : MeaningStep(ls, f, p) =
         IF ~ Asks(ls, n, k) THEN Ends(ls, n, k)
         ELSE IF PlaceOf(ls, n, k) \in w THEN Failure
         ELSE f[<<Start(ls, n, k), Text(ls, n, k).key, w \cup {PlaceOf(ls, n, k)}>>]
  BY <1>2 DEF Asks, Ends
<1>4. ASSUME Asks(ls, n, k), PlaceOf(ls, n, k) \notin w
      PROVE  /\ <<Start(ls, n, k), Text(ls, n, k).key, w \cup {PlaceOf(ls, n, k)}>> \in Spot(ls)
             /\ Rest(ls, w \cup {PlaceOf(ls, n, k)}) < Rest(ls, w)
  <2>1. /\ Text(ls, n, k).key \in Key /\ Start(ls, n, k) \in 0 .. Len(ls)
        /\ PlaceOf(ls, n, k) \in Place(ls)
    BY <1>4, FoundPlace
  <2>2. w \cup {PlaceOf(ls, n, k)} \in SUBSET Place(ls)
    BY <2>1
  <2> QED
    BY <1>4, <2>1, <2>2, RestFacts DEF Spot
<1> QED
  BY <1>3, <1>4 DEF p

\* The recursive function of a meaning is defined.
LEMMA MeaningExists ==
    ASSUME NEW ls \in Seq(Layer)
    PROVE  \E f : f = [p \in Spot(ls) |-> MeaningStep(ls, f, p)]
<1> DEFINE size == Cardinality(Place(ls))
           Size(p) == Rest(ls, p[3])
           Step(f, p) == MeaningStep(ls, f, p)
           Good(f, m) == \A p \in Spot(ls) : Size(p) < m => f[p] = Step(f, p)
           Bad == {m \in 0 .. size + 1 : ~ \E f : Good(f, m)}
<1>0. size \in Nat
  BY RestFacts
<1>1. ASSUME NEW p \in Spot(ls)
      PROVE  /\ Size(p) \in 0 .. size
             /\ \/ \E out : \A f : Step(f, p) = out
                \/ \E next \in Spot(ls) : Size(next) < Size(p) /\ \A f : Step(f, p) = f[next]
  <2>1. PICK n \in 0 .. Len(ls), k \in Key, w \in SUBSET Place(ls) : p = <<n, k, w>>
    BY DEF Spot
  <2>2. Size(p) \in 0 .. size
    BY <2>1, RestFacts
  <2> DEFINE next == <<Start(ls, n, k), Text(ls, n, k).key, w \cup {PlaceOf(ls, n, k)}>>
  <2>3. CASE Asks(ls, n, k) /\ PlaceOf(ls, n, k) \notin w
    <3>1. /\ \A f : Step(f, p) = f[next]
          /\ next \in Spot(ls) /\ Rest(ls, w \cup {PlaceOf(ls, n, k)}) < Rest(ls, w)
      BY <2>1, <2>3, MeaningStepFacts
    <3>2. next[3] = w \cup {PlaceOf(ls, n, k)} /\ p[3] = w
      BY <2>1
    <3> HIDE DEF next
    <3> QED
      BY <2>2, <3>1, <3>2
  <2>4. CASE ~ (Asks(ls, n, k) /\ PlaceOf(ls, n, k) \notin w)
    <3> DEFINE out == IF ~ Asks(ls, n, k) THEN Ends(ls, n, k) ELSE Failure
    <3>1. \A f : Step(f, p) = out
      BY <2>1, <2>4, MeaningStepFacts
    <3> QED
      BY <2>2, <3>1
  <2> QED
    BY <2>3, <2>4
<1> HIDE DEF size, Size, Step
<1>2. Bad = {}
  <2> SUFFICES ASSUME Bad # {} PROVE FALSE
    OBVIOUS
  <2>1. Bad \in SUBSET Nat
    BY <1>0
  <2>2. PICK m \in Bad : \A j \in Bad : m <= j
    BY <2>1, LeastIn
  <2>3. m \in 0 .. size + 1 /\ ~ \E f : Good(f, m)
    OBVIOUS
  <2>4. m # 0
    <3>1. Good([p \in Spot(ls) |-> p], 0)
      <4>1. \A p \in Spot(ls) : ~(Size(p) < 0)
        BY <1>0, <1>1
      <4> QED
        BY <4>1
    <3> QED
      BY <2>3, <3>1
  <2>5. m - 1 \in 0 .. size + 1 /\ m \in Nat /\ m - 1 < m
    BY <1>0, <2>3, <2>4
  <2>6. m - 1 \notin Bad
    <3> HIDE DEF Bad
    <3> QED
      BY <2>2, <2>5
  <2>7. PICK f : Good(f, m - 1)
    BY <2>5, <2>6
  <2> DEFINE g == [p \in Spot(ls) |-> IF Size(p) < m - 1 THEN f[p] ELSE Step(f, p)]
  <2>8. \A p \in Spot(ls) : g[p] = Step(f, p)
    BY <2>7
  <2>9. ASSUME NEW p \in Spot(ls), Size(p) < m PROVE Step(g, p) = Step(f, p)
    <3>1. CASE \E out : \A h : Step(h, p) = out
      BY <3>1
    <3>2. CASE \E next \in Spot(ls) : Size(next) < Size(p) /\ \A h : Step(h, p) = h[next]
      <4>1. PICK next \in Spot(ls) : Size(next) < Size(p) /\ \A h : Step(h, p) = h[next]
        BY <3>2
      <4>2. Size(next) < m - 1
        BY <1>0, <1>1, <2>5, <2>9, <4>1
      <4>3. g[next] = f[next]
        BY <4>2
      <4> QED
        BY <4>1, <4>3
    <3> QED
      BY <1>1, <3>1, <3>2
  <2> HIDE DEF g
  <2>10. Good(g, m)
    BY <2>8, <2>9
  <2> QED
    BY <2>3, <2>10
<1>3. PICK f : Good(f, size + 1)
  <2>1. size + 1 \in 0 .. size + 1
    BY <1>0
  <2> QED
    BY <1>2, <2>1
<1>4. \A p \in Spot(ls) : f[p] = Step(f, p)
  BY <1>0, <1>1, <1>3
<1> DEFINE g == [p \in Spot(ls) |-> f[p]]
<1>5. ASSUME NEW p \in Spot(ls) PROVE Step(g, p) = Step(f, p)
  <2>1. CASE \E out : \A h : Step(h, p) = out
    BY <2>1
  <2>2. CASE \E next \in Spot(ls) : Size(next) < Size(p) /\ \A h : Step(h, p) = h[next]
    BY <2>2
  <2> QED
    BY <1>1, <2>1, <2>2
<1>6. g = [p \in Spot(ls) |-> Step(g, p)]
  <2>1. \A p \in Spot(ls) : g[p] = Step(g, p)
    BY <1>4, <1>5
  <2>2. g = [p \in Spot(ls) |-> g[p]]
    OBVIOUS
  <2> HIDE DEF g
  <2>3. [p \in Spot(ls) |-> g[p]] = [p \in Spot(ls) |-> Step(g, p)]
    BY <2>1
  <2> QED
    BY <2>2, <2>3
<1> HIDE DEF g
<1>7. g = [p \in Spot(ls) |-> MeaningStep(ls, g, p)]
  BY <1>6 DEF Step
<1> QED
  BY <1>7

Meaning(ls, n, k, w) == Denoted(ls)[<<n, k, w>>]

\* What a field is worth: what its place says, or what that asks for
LEMMA MeaningEquation ==
    ASSUME NEW ls \in Seq(Layer), NEW n \in 0 .. Len(ls), NEW k \in Key, NEW w \in SUBSET Place(ls)
    PROVE  Meaning(ls, n, k, w) =
              IF ~ Asks(ls, n, k) THEN Ends(ls, n, k)
              ELSE IF PlaceOf(ls, n, k) \in w THEN Failure
              ELSE Meaning(ls, Start(ls, n, k), Text(ls, n, k).key, w \cup {PlaceOf(ls, n, k)})
<1> DEFINE F == CHOOSE f : f = [p \in (0 .. Len(ls)) \X Key \X SUBSET ((1 .. Len(ls)) \X Key) |->
             IF Definition(SubSeq(ls, 1, p[1]), p[2]) = 0 THEN Null
             ELSE IF ls[Definition(SubSeq(ls, 1, p[1]), p[2])].fields[p[2]].body.op = "const"
                  THEN ls[Definition(SubSeq(ls, 1, p[1]), p[2])].fields[p[2]].body.val
             ELSE IF \/ <<Definition(SubSeq(ls, 1, p[1]), p[2]), p[2]>> \in p[3]
                     \/ /\ ls[Definition(SubSeq(ls, 1, p[1]), p[2])].fields[p[2]].body.op = "super"
                        /\ Definition(SubSeq(ls, 1, p[1]), p[2]) = 1
                  THEN Failure
             ELSE f[<<IF ls[Definition(SubSeq(ls, 1, p[1]), p[2])].fields[p[2]].body.op = "self"
                      THEN Len(ls) ELSE Definition(SubSeq(ls, 1, p[1]), p[2]) - 1,
                      ls[Definition(SubSeq(ls, 1, p[1]), p[2])].fields[p[2]].body.key,
                      p[3] \cup {<<Definition(SubSeq(ls, 1, p[1]), p[2]), p[2]>>}>>]]
<1>1. Denoted(ls) = F
  BY DEF Denoted
<1>2. F = [p \in Spot(ls) |-> MeaningStep(ls, F, p)]
  BY MeaningExists DEF MeaningStep, Spot, Place
<1> HIDE DEF F
<1>3. <<n, k, w>> \in Spot(ls)
  BY DEF Spot
<1>4. Denoted(ls)[<<n, k, w>>] = MeaningStep(ls, Denoted(ls), <<n, k, w>>)
  BY <1>1, <1>2, <1>3
<1> DEFINE V == Denoted(ls)
<1>5. V[<<n, k, w>>] = MeaningStep(ls, V, <<n, k, w>>)
  BY <1>4
<1> HIDE DEF V
<1>6. ASSUME NEW f
      PROVE  MeaningStep(ls, f, <<n, k, w>>) =
                IF ~ Asks(ls, n, k) THEN Ends(ls, n, k)
                ELSE IF PlaceOf(ls, n, k) \in w THEN Failure
                ELSE f[<<Start(ls, n, k), Text(ls, n, k).key, w \cup {PlaceOf(ls, n, k)}>>]
  BY MeaningStepFacts
<1>7. V[<<n, k, w>>] = IF ~ Asks(ls, n, k) THEN Ends(ls, n, k)
                       ELSE IF PlaceOf(ls, n, k) \in w THEN Failure
                       ELSE V[<<Start(ls, n, k), Text(ls, n, k).key, w \cup {PlaceOf(ls, n, k)}>>]
  BY <1>5, <1>6
<1> QED
  BY <1>7 DEF Meaning, V


\* A value that is found although some places are closed is found with fewer closed, too.
LEMMA FewerClosed ==
    ASSUME NEW ls \in Seq(Layer)
    PROVE  \A n \in 0 .. Len(ls), k \in Key, w \in SUBSET Place(ls), less \in SUBSET Place(ls) :
              less \subseteq w /\ Meaning(ls, n, k, w) # Failure =>
                 Meaning(ls, n, k, less) = Meaning(ls, n, k, w)
<1> DEFINE Good(m) == \A n \in 0 .. Len(ls), k \in Key, w \in SUBSET Place(ls), less \in SUBSET Place(ls) :
                         Rest(ls, w) = m /\ less \subseteq w /\ Meaning(ls, n, k, w) # Failure =>
                            Meaning(ls, n, k, less) = Meaning(ls, n, k, w)
           Bad == {m \in Nat : ~ Good(m)}
<1>1. \A w \in SUBSET Place(ls) : Rest(ls, w) \in Nat
  BY RestFacts
<1>2. Bad = {}
  <2> SUFFICES ASSUME Bad # {} PROVE FALSE
    OBVIOUS
  <2>1. Bad \in SUBSET Nat
    OBVIOUS
  <2>2. PICK m \in Bad : \A j \in Bad : m <= j
    BY <2>1, LeastIn
  <2>3. m \in Nat /\ ~ Good(m)
    OBVIOUS
  <2>4. ASSUME NEW n \in 0 .. Len(ls), NEW k \in Key, NEW w \in SUBSET Place(ls),
               NEW less \in SUBSET Place(ls), Rest(ls, w) = m, less \subseteq w,
               Meaning(ls, n, k, w) # Failure
        PROVE  Meaning(ls, n, k, less) = Meaning(ls, n, k, w)
    <3> DEFINE place == PlaceOf(ls, n, k)
               next == Start(ls, n, k)
               key == Text(ls, n, k).key
    <3>1. ASSUME NEW x \in SUBSET Place(ls)
          PROVE  Meaning(ls, n, k, x) = IF ~ Asks(ls, n, k) THEN Ends(ls, n, k)
                                        ELSE IF place \in x THEN Failure
                                        ELSE Meaning(ls, next, key, x \cup {place})
      BY MeaningEquation
    <3>2. CASE ~ Asks(ls, n, k)
      BY <3>1, <3>2
    <3>3. CASE Asks(ls, n, k)
      <4>1. place \in Place(ls) /\ next \in 0 .. Len(ls) /\ key \in Key
        BY <3>3, FoundPlace
      <4> HIDE DEF place, next, key
      <4>2. place \notin w /\ Meaning(ls, n, k, w) = Meaning(ls, next, key, w \cup {place})
        BY <2>4, <3>1, <3>3
      <4>3. place \notin less /\ Meaning(ls, n, k, less) = Meaning(ls, next, key, less \cup {place})
        BY <2>4, <3>1, <3>3, <4>2
      <4> DEFINE w2 == w \cup {place}
                 less2 == less \cup {place}
      <4>4. w2 \in SUBSET Place(ls) /\ less2 \in SUBSET Place(ls) /\ less2 \subseteq w2
        BY <2>4, <4>1
      <4>5. Rest(ls, w2) \in Nat /\ Rest(ls, w2) < m
        BY <1>1, <2>4, <4>1, <4>2, <4>4, RestFacts
      <4>6. Rest(ls, w2) \notin Bad
        <5> HIDE DEF Bad
        <5> QED
          BY <2>2, <2>3, <4>5
      <4>7. Good(Rest(ls, w2))
        BY <4>5, <4>6
      <4>8. Meaning(ls, next, key, w2) # Failure
        BY <2>4, <4>2
      <4> HIDE DEF w2, less2
      <4>9. Meaning(ls, next, key, less2) = Meaning(ls, next, key, w2)
        BY <4>1, <4>4, <4>7, <4>8
      <4> QED
        BY <4>2, <4>3, <4>9 DEF w2, less2
    <3> QED
      BY <3>2, <3>3
  <2> QED
    BY <2>3, <2>4
<1>3. \A m \in Nat : Good(m)
  BY <1>2
<1> QED
  BY <1>1, <1>3

\* Closing one more place leaves a value as it is, or the lookup comes to that place.
LEMMA OneMoreClosed ==
    ASSUME NEW ls \in Seq(Layer), NEW n0 \in 0 .. Len(ls), NEW k0 \in Key, Asks(ls, n0, k0)
    PROVE  \A n \in 0 .. Len(ls), k \in Key, w \in SUBSET Place(ls) :
              Meaning(ls, n, k, w) # Failure =>
                 \/ Meaning(ls, n, k, w \cup {PlaceOf(ls, n0, k0)}) = Meaning(ls, n, k, w)
                 \/ \E more \in SUBSET Place(ls) :
                       /\ PlaceOf(ls, n0, k0) \in more
                       /\ Meaning(ls, Start(ls, n0, k0), Text(ls, n0, k0).key, more) = Meaning(ls, n, k, w)
<1> DEFINE p0 == PlaceOf(ls, n0, k0)
           next0 == Start(ls, n0, k0)
           key0 == Text(ls, n0, k0).key
           Comes(val) == \E more \in SUBSET Place(ls) :
                            p0 \in more /\ Meaning(ls, next0, key0, more) = val
           Good(m) == \A n \in 0 .. Len(ls), k \in Key, w \in SUBSET Place(ls) :
                         Rest(ls, w) = m /\ Meaning(ls, n, k, w) # Failure =>
                            \/ Meaning(ls, n, k, w \cup {p0}) = Meaning(ls, n, k, w)
                            \/ Comes(Meaning(ls, n, k, w))
           Bad == {m \in Nat : ~ Good(m)}
<1>1. \A w \in SUBSET Place(ls) : Rest(ls, w) \in Nat
  BY RestFacts
<1>2. p0 \in Place(ls) /\ next0 \in 0 .. Len(ls) /\ key0 \in Key
  BY FoundPlace
<1>3. ASSUME NEW n \in 0 .. Len(ls), NEW k \in Key, PlaceOf(ls, n, k) = p0
      PROVE  Start(ls, n, k) = next0 /\ Text(ls, n, k).key = key0
  <2>1. Found(ls, n, k) = Found(ls, n0, k0) /\ k = k0
    BY <1>3 DEF PlaceOf
  <2> QED
    BY <2>1 DEF Start, Text
<1> HIDE DEF p0, next0, key0
<1>4. Bad = {}
  <2> SUFFICES ASSUME Bad # {} PROVE FALSE
    OBVIOUS
  <2>1. Bad \in SUBSET Nat
    OBVIOUS
  <2>2. PICK m \in Bad : \A j \in Bad : m <= j
    BY <2>1, LeastIn
  <2>3. m \in Nat /\ ~ Good(m)
    OBVIOUS
  <2>4. ASSUME NEW n \in 0 .. Len(ls), NEW k \in Key, NEW w \in SUBSET Place(ls),
               Rest(ls, w) = m, Meaning(ls, n, k, w) # Failure
        PROVE  \/ Meaning(ls, n, k, w \cup {p0}) = Meaning(ls, n, k, w)
               \/ Comes(Meaning(ls, n, k, w))
    <3> DEFINE place == PlaceOf(ls, n, k)
               next == Start(ls, n, k)
               key == Text(ls, n, k).key
               v == w \cup {p0}
    <3>1. v \in SUBSET Place(ls)
      BY <1>2
    <3>2. ASSUME NEW x \in SUBSET Place(ls)
          PROVE  Meaning(ls, n, k, x) = IF ~ Asks(ls, n, k) THEN Ends(ls, n, k)
                                        ELSE IF place \in x THEN Failure
                                        ELSE Meaning(ls, next, key, x \cup {place})
      BY MeaningEquation
    <3>3. CASE ~ Asks(ls, n, k)
      BY <3>1, <3>2, <3>3
    <3>4. CASE Asks(ls, n, k)
      <4>1. place \in Place(ls) /\ next \in 0 .. Len(ls) /\ key \in Key
        BY <3>4, FoundPlace
      <4>2. place = p0 => next = next0 /\ key = key0
        BY <1>3
      <4> HIDE DEF place, next, key
      <4>3. place \notin w /\ Meaning(ls, n, k, w) = Meaning(ls, next, key, w \cup {place})
        BY <2>4, <3>2, <3>4
      <4> DEFINE w2 == w \cup {place}
      <4>4. w2 \in SUBSET Place(ls)
        BY <4>1
      <4>5. CASE place = p0
        <5>1. p0 \in w2
          BY <4>5
        <5>2. Meaning(ls, next0, key0, w2) = Meaning(ls, n, k, w)
          BY <4>2, <4>3, <4>5
        <5> QED
          BY <4>4, <5>1, <5>2
      <4>6. CASE place # p0
        <5>1. place \notin v
          BY <4>3, <4>6
        <5>2. Meaning(ls, n, k, v) = Meaning(ls, next, key, v \cup {place})
          BY <3>1, <3>2, <3>4, <5>1
        <5>3. v \cup {place} = w2 \cup {p0}
          OBVIOUS
        <5>4. Rest(ls, w2) \in Nat /\ Rest(ls, w2) < m
          BY <1>1, <2>4, <4>1, <4>3, <4>4, RestFacts
        <5>5. Rest(ls, w2) \notin Bad
          <6> HIDE DEF Bad
          <6> QED
            BY <2>2, <2>3, <5>4
        <5>6. Good(Rest(ls, w2))
          BY <5>4, <5>5
        <5>7. Meaning(ls, next, key, w2) = Meaning(ls, n, k, w)
          BY <4>3
        <5> HIDE DEF w2, Comes
        <5>8. \/ Meaning(ls, next, key, w2 \cup {p0}) = Meaning(ls, next, key, w2)
              \/ Comes(Meaning(ls, next, key, w2))
          BY <2>4, <4>1, <4>4, <5>6, <5>7
        <5>9. Meaning(ls, n, k, v) = Meaning(ls, next, key, w2 \cup {p0})
          BY <5>2, <5>3
        <5> QED
          BY <5>7, <5>8, <5>9
      <4> QED
        BY <4>5, <4>6
    <3> QED
      BY <3>3, <3>4
  <2> HIDE DEF Comes
  <2> QED
    BY <2>3, <2>4
<1>5. \A m \in Nat : Good(m)
  BY <1>4
<1>6. \A n \in 0 .. Len(ls), k \in Key, w \in SUBSET Place(ls) :
         Meaning(ls, n, k, w) # Failure =>
            Meaning(ls, n, k, w \cup {p0}) = Meaning(ls, n, k, w) \/ Comes(Meaning(ls, n, k, w))
  <2> HIDE DEF Comes
  <2> QED
    BY <1>1, <1>5
<1> QED
  BY <1>6 DEF p0, next0, key0

\* A field that asks for another one is worth what that is worth.
LEMMA WorthOfAsked ==
    ASSUME NEW ls \in Seq(Layer), NEW n \in 0 .. Len(ls), NEW k \in Key, Asks(ls, n, k),
           Meaning(ls, Start(ls, n, k), Text(ls, n, k).key, {}) # Failure
    PROVE  Meaning(ls, n, k, {}) = Meaning(ls, Start(ls, n, k), Text(ls, n, k).key, {})
<1> DEFINE place == PlaceOf(ls, n, k)
           next == Start(ls, n, k)
           key == Text(ls, n, k).key
           val == Meaning(ls, next, key, {})
<1>1. place \in Place(ls) /\ next \in 0 .. Len(ls) /\ key \in Key
  BY FoundPlace
<1>2. {} \in SUBSET Place(ls) /\ {place} \in SUBSET Place(ls)
  BY <1>1
<1>3. Meaning(ls, n, k, {}) = Meaning(ls, next, key, {} \cup {place})
  BY <1>2, MeaningEquation
<1>4. \/ Meaning(ls, next, key, {} \cup {place}) = val
      \/ \E more \in SUBSET Place(ls) : place \in more /\ Meaning(ls, next, key, more) = val
  BY <1>1, <1>2, OneMoreClosed
<1>5. {} \cup {place} = {place}
  OBVIOUS
<1>6. val # Failure
  OBVIOUS
<1> HIDE DEF place, next, key, val
<1>7. ASSUME NEW more \in SUBSET Place(ls), place \in more, Meaning(ls, next, key, more) = val
      PROVE  Meaning(ls, next, key, {place}) = val
  <2>1. {place} \subseteq more
    BY <1>7
  <2>2. Meaning(ls, next, key, {place}) = Meaning(ls, next, key, more)
    BY <1>1, <1>2, <1>6, <1>7, <2>1, FewerClosed
  <2> QED
    BY <1>7, <2>2
<1>8. Meaning(ls, next, key, {place}) = val
  BY <1>4, <1>5, <1>7
<1>9. Meaning(ls, n, k, {}) = val
  BY <1>3, <1>5, <1>8
<1> QED
  BY <1>9 DEF val, next, key

----------------------------------------------------------------------------
(* The code finds that value *)

Plain == ~ program.mergesRemoved /\ ~ program.formats

\* The nodes below an object stand for its lowest layers.
LEMMA ChainLayers ==
    ASSUME TypeOK, Shape, NEW o \in Object, NEW n \in NodesOf(o)
    PROVE  /\ n \in Object /\ NodesOf(n) \subseteq NodesOf(o)
           /\ Len(nodes[n].layers) \in 0 .. Len(nodes[o].layers)
           /\ \A i \in 1 .. Len(nodes[n].layers) : nodes[o].layers[i] = nodes[n].layers[i]
<1> DEFINE c == Chain(o)
           Good(m) == /\ m \in Object /\ NodesOf(m) \subseteq NodesOf(o)
                      /\ Len(nodes[m].layers) \in 0 .. Len(nodes[o].layers)
                      /\ \A i \in 1 .. Len(nodes[m].layers) : nodes[o].layers[i] = nodes[m].layers[i]
           Bad == {i \in 1 .. Len(c) : ~ Good(c[i])}
<1>1. c \in Seq(Object) /\ Len(c) \in Nat \ {0} /\ c[1] = o
      /\ \A i \in 1 .. Len(c) : nodes[c[i]].base = IF i = Len(c) THEN 0 ELSE c[i + 1]
  BY ChainFacts DEF ChainSound
<1>2. NodesOf(o) = {c[i] : i \in 1 .. Len(c)}
  BY DEF NodesOf
<1>3. Good(o)
  <2>1. Len(nodes[o].layers) \in Nat
    BY SoundFacts
  <2> QED
    BY <2>1
<1> HIDE DEF c
<1>4. \A i \in 1 .. Len(c) : c[i] \in Object
  BY <1>1, ElementOfSeq
<1>5. ASSUME NEW m \in Object, Good(m), nodes[m].base # 0 PROVE Good(nodes[m].base)
  <2> DEFINE b == nodes[m].base
  <2>1. /\ b \in Object /\ Below(m) = nodes[b].layers
        /\ Len(Below(m)) \in Nat /\ Len(nodes[m].layers) \in Nat /\ Len(Below(m)) < Len(nodes[m].layers)
    BY <1>5, SoundFacts DEF Below, Layers
  <2>2. \A i \in 1 .. Len(Below(m)) : nodes[m].layers[i] = Below(m)[i]
    BY DEF Shape, NodeSound
  <2>3. NodesOf(b) \subseteq NodesOf(m)
    BY <1>5, NodesOfFacts
  <2> HIDE DEF b
  <2>4. Len(nodes[b].layers) \in 0 .. Len(nodes[o].layers)
    BY <1>5, <2>1
  <2>5. \A i \in 1 .. Len(nodes[b].layers) : nodes[o].layers[i] = nodes[b].layers[i]
    BY <1>5, <2>1, <2>2
  <2>6. NodesOf(b) \subseteq NodesOf(o)
    BY <1>5, <2>3
  <2> QED
    BY <2>1, <2>4, <2>5, <2>6 DEF b
<1> HIDE DEF Good
<1>6. Bad = {}
  <2> SUFFICES ASSUME Bad # {} PROVE FALSE
    OBVIOUS
  <2>1. Bad \in SUBSET Nat
    BY <1>1
  <2>2. PICK i \in Bad : \A j \in Bad : i <= j
    BY <2>1, LeastIn
  <2>3. i \in 1 .. Len(c) /\ ~ Good(c[i])
    OBVIOUS
  <2>4. i - 1 \in 1 .. Len(c) /\ i - 1 < i /\ (i - 1) + 1 = i /\ i - 1 # Len(c)
    BY <1>1, <1>3, <2>3
  <2>5. i - 1 \notin Bad
    <3> HIDE DEF Bad
    <3> QED
      BY <1>1, <2>2, <2>3, <2>4
  <2>6. Good(c[i - 1]) /\ c[i - 1] \in Object
    BY <1>4, <2>4, <2>5
  <2>7. nodes[c[i - 1]].base = c[i] /\ c[i] \in Object
    BY <1>1, <1>4, <2>3, <2>4
  <2>8. c[i] # 0
    BY <2>7, NodeFacts
  <2> QED
    BY <1>5, <2>3, <2>6, <2>7, <2>8
<1>7. Good(n)
  BY <1>2, <1>6
<1> QED
  BY <1>7 DEF Good

\* A field is found in the chain it is looked for in.
LEMMA ResolutionInChain ==
    ASSUME TypeOK, Shape, NEW o \in Object, NEW k \in Key, Resolution(o, k) # 0
    PROVE  Resolution(o, k) \in NodesOf(o)
<1> DEFINE Good(n) == Resolution(n, k) # 0 => Resolution(n, k) \in NodesOf(n)
           Bad == {n \in Object : ~ Good(n)}
<1>1. \A n \in Object : n \in Nat
  BY NodeFacts
<1>2. Bad = {}
  <2> SUFFICES ASSUME Bad # {} PROVE FALSE
    OBVIOUS
  <2>1. Bad \in SUBSET Nat
    BY <1>1
  <2>2. PICK n \in Bad : \A j \in Bad : n <= j
    BY <2>1, LeastIn
  <2>3. n \in Object /\ n \in Nat /\ ~ Good(n)
    BY <1>1
  <2>4. nodes[n].base \in 0 .. n - 1 /\ nodes[n].base \in Object \cup {0}
    BY <2>3, SoundFacts
  <2>5. nodes[n].base < n /\ nodes[n].base \in Int
    BY <2>3, <2>4
  <2>6. nodes[n].base \notin Bad
    <3> HIDE DEF Bad
    <3> QED
      BY <2>2, <2>3, <2>5
  <2>7. nodes[n].base = 0 \/ Good(nodes[n].base)
    BY <2>4, <2>6
  <2>8. Resolution(n, k) = IF k \in nodes[n].deleted THEN 0
                           ELSE IF nodes[n].props[k] # None THEN n
                           ELSE Resolution(nodes[n].base, k)
    BY <2>3, ResolutionFacts
  <2>9. Resolution(0, k) = 0
    BY ResolutionFacts
  <2>10. n \in NodesOf(n) /\ (nodes[n].base # 0 => NodesOf(nodes[n].base) \subseteq NodesOf(n))
    BY <2>3, NodesOfFacts
  <2> HIDE DEF Bad
  <2> QED
    BY <2>3, <2>7, <2>8, <2>9, <2>10
<1> QED
  BY <1>2

\* The code and the literals agree on where a field is and on where it goes on
LEMMA PlaceFound ==
    ASSUME IInv, Plain, NEW self \in Object, NEW at \in NodesOf(self), NEW k \in Key
    PROVE  LET ls == nodes[self].layers
               n == Len(nodes[at].layers)
               found == Resolution(at, k)
               base == nodes[found].base
           IN /\ ls \in Seq(Layer) /\ n \in 0 .. Len(ls)
              /\ found = 0 <=> Found(ls, n, k) = 0
              /\ found # 0 =>
                    /\ found \in NodesOf(self) /\ found \in Object
                    /\ nodes[found].props[k].body = Text(ls, n, k)
                    /\ base = 0 <=> Found(ls, n, k) = 1
                    /\ base # 0 => base \in NodesOf(self) /\ Len(nodes[base].layers) = Found(ls, n, k) - 1
<1> DEFINE ls == nodes[self].layers
           low == nodes[at].layers
           n == Len(low)
           found == Resolution(at, k)
           base == nodes[found].base
           j == Definition(low, k)
<1>1. TypeOK /\ Shape /\ ~ program.mergesRemoved /\ ~ program.formats
  BY DEF IInv, Plain
<1>2. at \in Object /\ NodesOf(at) \subseteq NodesOf(self) /\ n \in 0 .. Len(ls)
      /\ \A i \in 1 .. n : ls[i] = low[i]
  BY <1>1, ChainLayers
<1>3. ls \in Seq(Layer) /\ low \in Seq(Layer)
  BY <1>1, <1>2, SoundFacts
<1>4. SubSeq(ls, 1, n) = low
  <2>1. SubSeq(ls, 1, n) \in Seq(Layer) /\ Len(SubSeq(ls, 1, n)) = n
        /\ \A i \in 1 .. n : SubSeq(ls, 1, n)[i] = ls[i]
    BY <1>2, <1>3, LowestFacts
  <2> DEFINE s == SubSeq(ls, 1, n)
  <2>2. Len(s) = Len(low) /\ \A i \in 1 .. Len(s) : s[i] = low[i]
    BY <1>2, <2>1
  <2> HIDE DEF s
  <2> QED
    BY <1>3, <2>1, <2>2, SeqEqual DEF s
<1>5. Found(ls, n, k) = j
  BY <1>4 DEF Found
<1>6. /\ j = 0 <=> found = 0
      /\ j # 0 => /\ nodes[found].props[k].body = low[j].fields[k].body
                  /\ SubSeq(low, 1, j - 1) = IF base = 0 THEN <<>> ELSE nodes[base].layers
  BY <1>1, <1>2, FieldFacts
<1>7. j \in 0 .. n
  BY <1>2, <1>3, <1>5, FoundPlace
<1>8. j # 0 => ls[j] = low[j] /\ j - 1 \in 0 .. n /\ j - 1 \in Nat
  BY <1>2, <1>7
<1>9. found # 0 => found \in NodesOf(self)
  BY <1>1, <1>2, ResolutionInChain
<1>10. found # 0 => found \in Object
  BY <1>1, <1>9, NodesOfFacts
<1>11. ASSUME found # 0
       PROVE  /\ base = 0 <=> j = 1
              /\ base # 0 => base \in NodesOf(self) /\ Len(nodes[base].layers) = j - 1
  <2>1. Len(SubSeq(low, 1, j - 1)) = j - 1
    BY <1>2, <1>3, <1>6, <1>8, <1>11, LowestFacts
  <2>2. base = 0 => j - 1 = 0
    <3>1. Len(<< >>) = 0
      BY EmptySeq
    <3> QED
      BY <1>6, <1>11, <2>1, <3>1
  <2>3. base # 0 => base \in NodesOf(self)
    BY <1>1, <1>9, <1>11, NodesOfFacts
  <2>4. base # 0 => Len(nodes[base].layers) = j - 1
    BY <1>6, <1>11, <2>1
  <2>5. base # 0 => Len(nodes[base].layers) # 0
    <3>1. ASSUME base # 0 PROVE base \in Object
      BY <1>1, <2>3, <3>1, NodesOfFacts
    <3>2. ASSUME base # 0 PROVE Len(Below(base)) \in Nat /\ Len(Below(base)) < Len(nodes[base].layers)
                                /\ Len(nodes[base].layers) \in Nat
      BY <1>1, <3>1, <3>2, SoundFacts
    <3> QED
      BY <3>2
  <2> QED
    BY <1>7, <1>8, <2>2, <2>3, <2>4, <2>5
<1>12. found # 0 => nodes[found].props[k].body = Text(ls, n, k)
  BY <1>5, <1>6, <1>8 DEF Text
<1> HIDE DEF found, j
<1> QED
  BY <1>2, <1>3, <1>5, <1>6, <1>9, <1>10, <1>11, <1>12 DEF found, j


\* What the field of a cache key is worth
Worth(c) == ValueOf(nodes[c[3]].layers, Len(nodes[c[1]].layers), c[2])

\* The cache keys that are new in a trail are worth its outcome
TrailWorth(r, trail) ==
    \A c \in r.trail : c \in trail \/ (c \in Entry /\ Worth(c) = r.val)

\* A field that asks for another one asks for what the literals say, and is worth
\* what that is worth.
LEMMA QueryWorth ==
    ASSUME IInv, Plain, NEW self \in Object, NEW at \in NodesOf(self), NEW k \in Key,
           Resolution(at, k) # 0, nodes[Resolution(at, k)].props[k].body.op # "const"
    PROVE  \E to \in NodesOf(self) \cup {0}, key \in Key :
              /\ Query(nodes[Resolution(at, k)].props[k].body, Resolution(at, k), self) = <<to, key, self>>
              /\ to # 0 /\ Worth(<<to, key, self>>) # Failure =>
                    Worth(<<at, k, self>>) = Worth(<<to, key, self>>)
<1> DEFINE q == <<at, k, self>>
           ls == nodes[self].layers
           n == Len(nodes[at].layers)
           found == Resolution(at, k)
           body == nodes[found].props[k].body
           key == body.key
           to == IF body.op = "self" THEN self ELSE nodes[found].base
           e == <<to, key, self>>
<1>0. TypeOK /\ Shape
  BY DEF IInv
<1>1. /\ ls \in Seq(Layer) /\ n \in 0 .. Len(ls)
      /\ Found(ls, n, k) # 0 /\ found \in NodesOf(self) /\ body = Text(ls, n, k)
      /\ nodes[found].base = 0 <=> Found(ls, n, k) = 1
      /\ nodes[found].base # 0 =>
            /\ nodes[found].base \in NodesOf(self)
            /\ Len(nodes[nodes[found].base].layers) = Found(ls, n, k) - 1
  BY PlaceFound
<1>2. Worth(q) = Meaning(ls, n, k, {})
  BY DEF Worth, ValueOf, Meaning
<1>3. Query(body, found, self) = e
  BY DEF Query
<1>4. self \in NodesOf(self)
  BY <1>0, NodesOfFacts
<1>5. body.op # "const"
  OBVIOUS
<1> HIDE DEF ls, n, found, body
<1>6. body \in Body
  BY <1>1, FoundPlace
<1>7. key \in Key /\ body.op \in {"self", "super"}
  BY <1>5, <1>6 DEF Body
<1>8. to \in NodesOf(self) \cup {0}
  BY <1>1, <1>4
<1>9. ASSUME to # 0, Worth(e) # Failure PROVE Worth(q) = Worth(e)
  <2>1. Asks(ls, n, k)
    <3>1. body.op = "super" => Found(ls, n, k) # 1
      BY <1>1, <1>9
    <3> QED
      BY <1>1, <1>5, <3>1 DEF Asks
  <2>2. Start(ls, n, k) = Len(nodes[to].layers)
    <3>1. CASE body.op = "self"
      <4>1. to = self /\ Start(ls, n, k) = Len(ls)
        BY <1>1, <3>1 DEF Start
      <4> QED
        BY <4>1 DEF ls
    <3>2. CASE body.op # "self"
      <4>1. to = nodes[found].base /\ Start(ls, n, k) = Found(ls, n, k) - 1
        BY <1>1, <3>2 DEF Start
      <4> QED
        BY <1>1, <1>9, <4>1
    <3> QED
      BY <3>1, <3>2
  <2> HIDE DEF to, key
  <2>3. Worth(e) = Meaning(ls, Start(ls, n, k), key, {})
    BY <2>2 DEF Worth, ValueOf, Meaning, ls
  <2>4. Text(ls, n, k).key = key
    BY <1>1 DEF key
  <2>5. Meaning(ls, Start(ls, n, k), Text(ls, n, k).key, {}) # Failure
    BY <1>9, <2>3, <2>4
  <2> HIDE DEF e
  <2> QED
    BY <1>1, <1>2, <2>1, <2>3, <2>4, <2>5, WorthOfAsked
<1> HIDE DEF key, to
<1> QED
  BY <1>3, <1>7, <1>8, <1>9 DEF found, body

\* An evaluation that has a value gives what the field is worth, and so did every
\* evaluation on its way.
LEMMA FollowWorth ==
    ASSUME IInv, Plain, CacheExact
    PROVE  \A self \in Object : \A at \in NodesOf(self), k \in Key, trail \in SUBSET Entry :
              LET r == Follow[<<<<at, k, self>>, trail>>]
              IN r.val # Failure => /\ r.val = Worth(<<at, k, self>>)
                                    /\ TrailWorth(r, trail)
<1> DEFINE Good(m) ==
              \A self \in Object : \A at \in NodesOf(self), k \in Key, trail \in SUBSET Entry :
                 Left(<<<<at, k, self>>, trail>>) = m /\ Follow[<<<<at, k, self>>, trail>>].val # Failure =>
                    /\ Follow[<<<<at, k, self>>, trail>>].val = Worth(<<at, k, self>>)
                    /\ TrailWorth(Follow[<<<<at, k, self>>, trail>>], trail)
           Bad == {m \in Nat : ~ Good(m)}
<1>0. TypeOK /\ Shape
  BY DEF IInv
<1>1. \A p \in Stage : Left(p) \in Nat
  BY <1>0, LeftType, EntriesFinite, FS_CardinalityType
<1>2. ASSUME NEW self \in Object, NEW at \in NodesOf(self), NEW k \in Key, NEW trail \in SUBSET Entry
      PROVE  /\ <<<<at, k, self>>, trail>> \in Stage /\ <<at, k, self>> \in Entry /\ at # 0
  <2>1. at \in Object /\ at \in 0 .. Len(nodes) /\ at # 0
    <3>1. at \in Object
      BY <1>0, NodesOfFacts
    <3> QED
      BY <1>0, <3>1, NodeFacts DEF Object
  <2>2. <<at, k, self>> \in Question /\ <<at, k, self>> \in Entry
    BY <2>1 DEF Question, Entry
  <2>3. <<<<at, k, self>>, trail>> \in Stage
    BY <2>2 DEF Stage
  <2> QED
    BY <2>1, <2>2, <2>3
<1>3. \A p \in Stage : Follow[p] = FollowStep(Follow, p)
  BY <1>0, FollowEquation
<1>4. ASSUME NEW k \in Key, NEW self \in Object, NEW trail \in SUBSET Entry
      PROVE  Follow[<<<<0, k, self>>, trail>>].val = Failure
  <2>1. 0 \in 0 .. Len(nodes)
    BY <1>0, NodeFacts
  <2>2. <<<<0, k, self>>, trail>> \in Stage
    BY <2>1 DEF Stage, Question
  <2>3. \A f : FollowStep(f, <<<<0, k, self>>, trail>>) = [val |-> Failure, trail |-> trail]
    BY DEF FollowStep
  <2>4. Follow[<<<<0, k, self>>, trail>>] = [val |-> Failure, trail |-> trail]
    BY <1>3, <2>2, <2>3
  <2> QED
    BY <2>4
<1>5. Bad = {}
  <2> SUFFICES ASSUME Bad # {} PROVE FALSE
    OBVIOUS
  <2>1. Bad \in SUBSET Nat
    OBVIOUS
  <2>2. PICK m \in Bad : \A j \in Bad : m <= j
    BY <2>1, LeastIn
  <2>3. m \in Nat /\ ~ Good(m)
    OBVIOUS
  <2>4. ASSUME NEW self \in Object, NEW at \in NodesOf(self), NEW k \in Key, NEW trail \in SUBSET Entry,
               Left(<<<<at, k, self>>, trail>>) = m, Follow[<<<<at, k, self>>, trail>>].val # Failure
        PROVE  /\ Follow[<<<<at, k, self>>, trail>>].val = Worth(<<at, k, self>>)
               /\ TrailWorth(Follow[<<<<at, k, self>>, trail>>], trail)
    <3> DEFINE q == <<at, k, self>>
               p == <<q, trail>>
               r == Follow[p]
               ls == nodes[self].layers
               n == Len(nodes[at].layers)
               found == Resolution(at, k)
               body == nodes[found].props[k].body
               next == <<Query(body, found, self), trail \cup {q}>>
    <3>1. p \in Stage /\ q \in Entry /\ at # 0
      BY <1>2
    <3>2. r = IF q \in DOMAIN cache THEN [val |-> cache[q], trail |-> trail]
              ELSE IF found = 0 THEN [val |-> Null, trail |-> trail]
              ELSE IF body.op = "const" THEN [val |-> body.val, trail |-> trail]
              ELSE IF q \in trail THEN [val |-> Failure, trail |-> trail]
              ELSE Follow[next]
      <4>1. r = FollowStep(Follow, p)
        BY <1>3, <3>1
      <4> DEFINE F == Follow
      <4>2. ASSUME NEW f
            PROVE FollowStep(f, p) =
              IF q \in DOMAIN cache THEN [val |-> cache[q], trail |-> trail]
              ELSE IF found = 0 THEN [val |-> Null, trail |-> trail]
              ELSE IF body.op = "const" THEN [val |-> body.val, trail |-> trail]
              ELSE IF q \in trail THEN [val |-> Failure, trail |-> trail]
              ELSE f[next]
        BY <3>1 DEF FollowStep, CacheKey
      <4>3. FollowStep(F, p) =
              IF q \in DOMAIN cache THEN [val |-> cache[q], trail |-> trail]
              ELSE IF found = 0 THEN [val |-> Null, trail |-> trail]
              ELSE IF body.op = "const" THEN [val |-> body.val, trail |-> trail]
              ELSE IF q \in trail THEN [val |-> Failure, trail |-> trail]
              ELSE F[next]
        BY <4>2
      <4> QED
        BY <4>1, <4>3
    <3>3. /\ ls \in Seq(Layer) /\ n \in 0 .. Len(ls)
          /\ found = 0 <=> Found(ls, n, k) = 0
          /\ found # 0 =>
                /\ found \in NodesOf(self) /\ found \in Object
                /\ body = Text(ls, n, k)
                /\ nodes[found].base = 0 <=> Found(ls, n, k) = 1
                /\ nodes[found].base # 0 =>
                      /\ nodes[found].base \in NodesOf(self)
                      /\ Len(nodes[nodes[found].base].layers) = Found(ls, n, k) - 1
      BY PlaceFound
    <3>4. Worth(q) = Meaning(ls, n, k, {})
      BY DEF Worth, ValueOf, Meaning
    <3> HIDE DEF ls, n, found, body, next
    <3>5. ~ Asks(ls, n, k) => Meaning(ls, n, k, {}) = Ends(ls, n, k)
      <4>1. {} \in SUBSET Place(ls)
        OBVIOUS
      <4> QED
        BY <3>3, <4>1, MeaningEquation
    <3>6. ASSUME NEW val, r = [val |-> val, trail |-> trail], val = Worth(q)
          PROVE  r.val = Worth(q) /\ TrailWorth(r, trail)
      <4>1. r.val = val /\ r.trail = trail
        BY <3>6
      <4> HIDE DEF r, q
      <4> QED
        BY <3>6, <4>1 DEF TrailWorth
    <3>7. CASE q \in DOMAIN cache
      <4>1. r = [val |-> cache[q], trail |-> trail]
        BY <3>2, <3>7
      <4>2. cache[q] = Worth(q)
        BY <3>7 DEF CacheExact, Worth
      <4> QED
        BY <3>6, <4>1, <4>2
    <3>8. CASE q \notin DOMAIN cache /\ found = 0
      <4>1. r = [val |-> Null, trail |-> trail]
        BY <3>2, <3>8
      <4>2. Found(ls, n, k) = 0
        BY <3>3, <3>8
      <4>3. Worth(q) = Null
        BY <3>4, <3>5, <4>2 DEF Asks, Ends
      <4> QED
        BY <3>6, <4>1, <4>3
    <3>9. CASE q \notin DOMAIN cache /\ found # 0 /\ body.op = "const"
      <4>1. r = [val |-> body.val, trail |-> trail]
        BY <3>2, <3>9
      <4>2. Found(ls, n, k) # 0 /\ Text(ls, n, k) = body
        BY <3>3, <3>9
      <4>3. Worth(q) = body.val
        BY <3>4, <3>5, <3>9, <4>2 DEF Asks, Ends
      <4> QED
        BY <3>6, <4>1, <4>3
    <3>10. CASE q \notin DOMAIN cache /\ found # 0 /\ body.op # "const"
      <4>1. q \notin trail /\ r = Follow[next]
        BY <2>4, <3>2, <3>10
      <4>2. Follow[next].val # Failure
        BY <2>4, <4>1
      <4>3. trail \cup {q} \in SUBSET Entry
        BY <3>1
      <4>4. PICK to \in NodesOf(self) \cup {0}, key \in Key :
               /\ Query(body, found, self) = <<to, key, self>>
               /\ to # 0 /\ Worth(<<to, key, self>>) # Failure => Worth(q) = Worth(<<to, key, self>>)
        BY <3>10, QueryWorth DEF body, found
      <4>5. next = <<<<to, key, self>>, trail \cup {q}>>
        BY <4>4 DEF next
      <4>6. to # 0
        BY <1>4, <4>2, <4>3, <4>5
      <4>7. to \in NodesOf(self)
        BY <4>6
      <4> DEFINE e == <<to, key, self>>
      <4>8. next \in Stage /\ Left(next) < m
        <5>1. next \in Stage
          BY <1>2, <4>3, <4>5, <4>7
        <5> DEFINE T == Entry \ trail
        <5>2. IsFiniteSet(T) /\ q \in T
          BY <1>0, <3>1, <4>1, EntriesFinite, FS_Difference
        <5>3. Entry \ (trail \cup {q}) = T \ {q}
          OBVIOUS
        <5> HIDE DEF T, q
        <5>4. Cardinality(T \ {q}) = Cardinality(T) - 1 /\ Cardinality(T) \in Nat
          BY <5>2, FS_RemoveElement, FS_CardinalityType
        <5>5. Cardinality(T \ {q}) < Cardinality(T)
          BY <5>4
        <5>6. Left(next) = Cardinality(T \ {q}) /\ Left(p) = Cardinality(T)
          BY <4>5, <5>3 DEF Left, T
        <5>7. Left(p) = m
          BY <2>4 DEF q
        <5> QED
          BY <5>1, <5>5, <5>6, <5>7
      <4>9. Left(next) \in Nat /\ Left(next) \notin Bad
        <5>1. Left(next) \in Nat
          BY <1>1, <4>8
        <5> HIDE DEF Bad
        <5> QED
          BY <2>2, <2>3, <4>8, <5>1
      <4>10. Good(Left(next))
        BY <4>9
      <4>11. r.val = Worth(e) /\ TrailWorth(r, trail \cup {q})
        <5> HIDE DEF q, r
        <5>1. /\ Follow[<<<<to, key, self>>, trail \cup {q}>>].val = Worth(<<to, key, self>>)
              /\ TrailWorth(Follow[<<<<to, key, self>>, trail \cup {q}>>], trail \cup {q})
          BY <4>2, <4>3, <4>5, <4>7, <4>10
        <5> QED
          BY <4>1, <4>5, <5>1
      <4>12. r.val = Worth(q)
        BY <2>4, <4>4, <4>6, <4>11
      <4> HIDE DEF r, q, e
      <4>13. TrailWorth(r, trail)
        BY <3>1, <4>11, <4>12 DEF TrailWorth
      <4> QED
        BY <4>12, <4>13 DEF r, q
    <3> QED
      BY <3>7, <3>8, <3>9, <3>10
  <2> QED
    BY <2>3, <2>4
<1>6. \A m \in Nat : Good(m)
  BY <1>5
<1>7. ASSUME NEW self \in Object, NEW at \in NodesOf(self), NEW k \in Key, NEW trail \in SUBSET Entry,
             Follow[<<<<at, k, self>>, trail>>].val # Failure
      PROVE  /\ Follow[<<<<at, k, self>>, trail>>].val = Worth(<<at, k, self>>)
             /\ TrailWorth(Follow[<<<<at, k, self>>, trail>>], trail)
  <2>1. Left(<<<<at, k, self>>, trail>>) \in Nat
    BY <1>1, <1>2
  <2> QED
    BY <1>6, <1>7, <2>1
<1> QED
  BY <1>7


\* What an outcome may put into the cache is worth its value
OutcomeWorth(r) ==
    r.val # Failure => \A c \in r.trail : c \in Entry /\ Worth(c) = r.val

\* The outcome of a question about an object
LEMMA EvaluatedWorth ==
    ASSUME IInv, Plain, CacheExact, NEW self \in Object, NEW at \in NodesOf(self) \cup {0}, NEW k \in Key
    PROVE  LET r == Evaluated(<<at, k, self>>)
           IN /\ OutcomeWorth(r)
              /\ r.val # Failure => at # 0 /\ r.val = Worth(<<at, k, self>>)
<1> DEFINE q == <<at, k, self>>
           r == Follow[<<q, {}>>]
<1>0. TypeOK /\ Shape
  BY DEF IInv
<1>1. CASE at = 0
  <2>1. 0 \in 0 .. Len(nodes)
    BY <1>0, NodeFacts
  <2>2. <<q, {}>> \in Stage
    BY <1>1, <2>1 DEF Stage, Question
  <2>3. \A f : FollowStep(f, <<q, {}>>) = [val |-> Failure, trail |-> {}]
    BY <1>1 DEF FollowStep
  <2>4. \A p \in Stage : Follow[p] = FollowStep(Follow, p)
    BY <1>0, FollowEquation
  <2>5. r = [val |-> Failure, trail |-> {}]
    BY <2>2, <2>3, <2>4
  <2>6. r.val = Failure
    BY <2>5
  <2> HIDE DEF r
  <2> QED
    BY <2>6 DEF OutcomeWorth, Evaluated, r
<1>2. CASE at # 0
  <2>1. {} \in SUBSET Entry /\ at \in NodesOf(self)
    BY <1>2
  <2>2. r.val # Failure => r.val = Worth(q) /\ TrailWorth(r, {})
    BY <2>1, FollowWorth
  <2> HIDE DEF r, q
  <2>3. OutcomeWorth(r)
    BY <2>2 DEF OutcomeWorth, TrailWorth
  <2> QED
    BY <1>2, <2>2, <2>3 DEF Evaluated, r, q
<1> QED
  BY <1>1, <1>2

\* The outcomes of a field of an object, by name and by the body found for it
LEMMA RunWorth ==
    ASSUME IInv, Plain, CacheExact, NEW o \in Object, NEW k \in Key
    PROVE  /\ OutcomeWorth(Asked(o, k))
           /\ Resolution(o, k) # 0 =>
                 LET r == Run(FieldOf(o, k).body, Resolution(o, k), o)
                 IN /\ OutcomeWorth(r)
                    /\ r.val # Failure => r.val = ValueOf(nodes[o].layers, Len(nodes[o].layers), k)
<1>0. TypeOK /\ Shape
  BY DEF IInv
<1>1. o \in NodesOf(o)
  BY <1>0, NodesOfFacts
<1>2. OutcomeWorth(Asked(o, k))
  BY <1>1, EvaluatedWorth DEF Asked
<1> DEFINE found == Resolution(o, k)
           body == nodes[found].props[k].body
           r == Run(body, found, o)
           ls == nodes[o].layers
           n == Len(ls)
<1>3. ASSUME found # 0, body.op = "const"
      PROVE  OutcomeWorth(r) /\ r.val = ValueOf(ls, n, k)
  <2>1. r.val = body.val /\ r.trail = {}
    BY <1>3 DEF Run
  <2>2. ls \in Seq(Layer) /\ n \in 0 .. Len(ls) /\ Found(ls, n, k) # 0 /\ body = Text(ls, n, k)
    BY <1>1, <1>3, PlaceFound
  <2>3. ValueOf(ls, n, k) = Meaning(ls, n, k, {})
    BY DEF ValueOf, Meaning
  <2>4. ~ Asks(ls, n, k) /\ Ends(ls, n, k) = body.val
    BY <1>3, <2>2 DEF Asks, Ends
  <2>5. {} \in SUBSET Place(ls)
    OBVIOUS
  <2> HIDE DEF r, ls, n, body
  <2>6. Meaning(ls, n, k, {}) = body.val
    BY <2>2, <2>4, <2>5, MeaningEquation
  <2> QED
    BY <2>1, <2>3, <2>6 DEF OutcomeWorth
<1>4. ASSUME found # 0, body.op # "const"
      PROVE  OutcomeWorth(r) /\ (r.val # Failure => r.val = ValueOf(ls, n, k))
  <2>1. PICK to \in NodesOf(o) \cup {0}, key \in Key :
           /\ Query(body, found, o) = <<to, key, o>>
           /\ to # 0 /\ Worth(<<to, key, o>>) # Failure => Worth(<<o, k, o>>) = Worth(<<to, key, o>>)
    BY <1>1, <1>4, QueryWorth
  <2>2. r = Evaluated(<<to, key, o>>)
    BY <1>4, <2>1 DEF Run
  <2> HIDE DEF r
  <2>3. /\ OutcomeWorth(r)
        /\ r.val # Failure => to # 0 /\ r.val = Worth(<<to, key, o>>)
    BY <2>2, EvaluatedWorth
  <2>4. Worth(<<o, k, o>>) = ValueOf(ls, n, k)
    BY DEF Worth
  <2> QED
    BY <2>1, <2>3, <2>4
<1> HIDE DEF r
<1> QED
  BY <1>2, <1>3, <1>4 DEF r, FieldOf

\* What is put into the cache is what the fields are worth.
LEMMA CachedWorth ==
    ASSUME IInv, CacheExact, NEW outcomes \in SUBSET Outcome, \A r \in outcomes : OutcomeWorth(r)
    PROVE  \A c \in DOMAIN Cached(outcomes) : c \in Entry /\ Cached(outcomes)[c] = Worth(c)
<1> DEFINE results == {r \in outcomes : r.val # Failure}
           Dom == DOMAIN cache \cup UNION {r.trail : r \in results}
           Val(c) == IF c \in DOMAIN cache THEN cache[c]
                     ELSE (CHOOSE r \in results : c \in r.trail).val
<1>1. \A r \in results : \A c \in r.trail : c \in Entry /\ Worth(c) = r.val
  BY DEF OutcomeWorth
<1>2. \A c \in DOMAIN cache : c \in Entry /\ cache[c] = Worth(c)
  BY DEF IInv, TypeOK, CacheExact, Worth
<1>3. Cached(outcomes) = [c \in Dom |-> Val(c)]
  BY DEF Cached
<1> HIDE DEF results
<1>4. ASSUME NEW c \in Dom PROVE c \in Entry /\ Val(c) = Worth(c)
  <2>1. CASE c \in DOMAIN cache
    BY <1>2, <2>1
  <2>2. CASE c \notin DOMAIN cache
    <3>1. \E r \in results : c \in r.trail
      BY <2>2
    <3> DEFINE r == CHOOSE r \in results : c \in r.trail
    <3>2. r \in results /\ c \in r.trail
      BY <3>1
    <3>3. Val(c) = r.val
      BY <2>2
    <3> HIDE DEF r
    <3>4. c \in Entry /\ Worth(c) = r.val
      BY <1>1, <3>2
    <3> HIDE DEF Val
    <3> QED
      BY <3>3, <3>4
  <2> QED
    BY <2>1, <2>2
<1> HIDE DEF Dom, Val
<1> QED
  BY <1>3, <1>4

----------------------------------------------------------------------------
(* The cache and what is written out stay exact *)

Exact == Plain => CacheExact /\ ManifestExact

\* The cache stays exact when nodes keep their layers and results of evaluations are added.
LEMMA CacheKept ==
    ASSUME IInv, CacheExact, Object \subseteq Object',
           \A n \in Object : nodes'[n].layers = nodes[n].layers,
           \A c \in DOMAIN cache' : c \in Entry /\ cache'[c] = Worth(c)
    PROVE  CacheExact'
<1>1. ASSUME NEW c \in DOMAIN cache'
      PROVE  cache'[c] = ValueOf(nodes'[c[3]].layers, Len(nodes'[c[1]].layers), c[2])
  <2>1. c \in Entry /\ cache'[c] = Worth(c)
    OBVIOUS
  <2>2. c[1] \in Object /\ c[3] \in Object
    BY <2>1 DEF Entry
  <2>3. nodes'[c[1]].layers = nodes[c[1]].layers /\ nodes'[c[3]].layers = nodes[c[3]].layers
    BY <2>2
  <2> QED
    BY <2>1, <2>3 DEF Worth
<1> QED
  BY <1>1 DEF CacheExact

\* A step that makes objects evaluates nothing and writes nothing out.
LEMMA BuildExact ==
    ASSUME IInv, Exact, program' = program, cache' = cache, shown' = <<>>, Object \subseteq Object',
           \A n \in Object : nodes'[n].layers = nodes[n].layers
    PROVE  Exact'
<1> SUFFICES ASSUME Plain' PROVE CacheExact' /\ ManifestExact'
  BY DEF Exact
<1>1. Plain /\ CacheExact
  BY DEF Plain, Exact
<1>2. \A c \in DOMAIN cache' : c \in Entry /\ cache'[c] = Worth(c)
  BY <1>1 DEF IInv, TypeOK, CacheExact, Worth
<1>3. CacheExact'
  BY <1>1, <1>2, CacheKept
<1>4. ManifestExact'
  BY DEF ManifestExact
<1> QED
  BY <1>3, <1>4

\* A step that evaluates
LEMMA EvaluationExact ==
    ASSUME IInv, Plain, CacheExact, NEW outcomes \in SUBSET Outcome, NEW ok, Ended(outcomes, ok),
           \A r \in outcomes : OutcomeWorth(r), Object' = Object,
           \A n \in Object : nodes'[n].layers = nodes[n].layers
    PROVE  CacheExact'
<1>1. cache' = Cached(outcomes)
  BY DEF Ended
<1>2. \A c \in DOMAIN cache' : c \in Entry /\ cache'[c] = Worth(c)
  BY <1>1, CachedWorth
<1> QED
  BY <1>2, CacheKept


\* Added nodes leave the others where they are.
LEMMA AddedNodes ==
    ASSUME TypeOK
    PROVE  /\ \A node : nodes' = Append(nodes, node) =>
                 Object \subseteq Object' /\ \A n \in Object : nodes'[n] = nodes[n]
           /\ \A m \in Nat : \A f : nodes' = nodes \o [i \in 1 .. m |-> f[i]] =>
                 Object \subseteq Object' /\ \A n \in Object : nodes'[n] = nodes[n]
<1>1. nodes \in Seq(Node) /\ Len(nodes) \in Nat /\ Object = 1 .. Len(nodes)
  BY DEF TypeOK, Object
<1>2. \A n \in 1 .. Len(nodes) : nodes[n] \in Node
  BY <1>1, ElementOfSeq
<1>3. \A S : Node \subseteq S => nodes \in Seq(S)
  BY <1>1, <1>2
<1>4. ASSUME NEW node, nodes' = Append(nodes, node)
      PROVE  Object \subseteq Object' /\ \A n \in Object : nodes'[n] = nodes[n]
  <2> DEFINE S == Node \cup {node}
  <2>1. nodes \in Seq(S) /\ node \in S
    BY <1>3
  <2> HIDE DEF S
  <2>2. /\ Len(Append(nodes, node)) = Len(nodes) + 1
        /\ \A i \in 1 .. Len(nodes) : Append(nodes, node)[i] = nodes[i]
    BY <2>1, AppendProperties
  <2>3. Len(nodes') = Len(nodes) + 1 /\ \A i \in 1 .. Len(nodes) : nodes'[i] = nodes[i]
    BY <1>4, <2>2
  <2> QED
    BY <1>1, <2>3 DEF Object
<1>5. ASSUME NEW m \in Nat, NEW f, nodes' = nodes \o [i \in 1 .. m |-> f[i]]
      PROVE  Object \subseteq Object' /\ \A n \in Object : nodes'[n] = nodes[n]
  <2> DEFINE s == [i \in 1 .. m |-> f[i]]
             S == Node \cup {s[i] : i \in 1 .. m}
  <2>1. nodes \in Seq(S)
    BY <1>3
  <2>2. s \in Seq(S) /\ Len(s) = m
    <3>1. \A i \in 1 .. m : s[i] \in S
      OBVIOUS
    <3>2. s = [i \in 1 .. m |-> s[i]]
      OBVIOUS
    <3> HIDE DEF s, S
    <3>3. s \in [1 .. m -> S]
      BY <3>1, <3>2
    <3> QED
      BY <3>3
  <2>3. nodes' = nodes \o s
    BY <1>5
  <2> HIDE DEF s, S
  <2>4. /\ Len(nodes \o s) = Len(nodes) + Len(s)
        /\ \A j \in 1 .. Len(nodes) + Len(s) :
              (nodes \o s)[j] = IF j <= Len(nodes) THEN nodes[j] ELSE s[j - Len(nodes)]
    BY <2>1, <2>2, ConcatProperties
  <2>5. /\ Len(nodes') = Len(nodes) + m
        /\ \A j \in 1 .. Len(nodes) + m : nodes'[j] = IF j <= Len(nodes) THEN nodes[j] ELSE s[j - Len(nodes)]
    BY <2>2, <2>3, <2>4
  <2>6. \A j \in 1 .. Len(nodes) : j \in 1 .. Len(nodes) + m /\ j <= Len(nodes)
    BY <1>1
  <2> QED
    BY <1>1, <2>5, <2>6 DEF Object
<1> QED
  BY <1>4, <1>5

\* CreateObject, ObjectRemoveKey and Add evaluate nothing.
LEMMA BuildStep ==
    ASSUME IInv, Exact,
           \/ \E l \in Literals : MakeLiteral(l)
           \/ \E left, right \in objects : Merge(left, right)
           \/ \E o \in objects, k \in Key : RemoveKey(o, k)
    PROVE  Exact'
<1>1. TypeOK /\ Shape /\ objects \subseteq Object
  BY DEF IInv, TypeOK
<1>2. /\ program' = program /\ cache' = cache /\ shown' = <<>>
      /\ \/ \E node : nodes' = Append(nodes, node)
         \/ \E m \in Nat : \E f : nodes' = nodes \o [i \in 1 .. m |-> f[i]]
  <2>1. CASE \E l \in Literals : MakeLiteral(l)
    BY <2>1 DEF MakeLiteral
  <2>2. CASE \E left, right \in objects : Merge(left, right)
    <3>1. PICK left, right \in objects : Merge(left, right)
      BY <2>2
    <3> DEFINE c == Chain(right)
               New(i) == MergedNode(left, i, nodes[c[Len(c) + 1 - i]])
               f == [i \in 1 .. Len(c) |-> New(i)]
    <3>2. Len(c) \in Nat
      BY <1>1, ChainFacts DEF ChainSound
    <3>3. /\ nodes' = nodes \o [i \in 1 .. Len(c) |-> New(i)]
          /\ program' = program /\ cache' = cache /\ shown' = <<>>
      BY <3>1 DEF Merge
    <3> HIDE DEF New, c
    <3>4. [i \in 1 .. Len(c) |-> New(i)] = [i \in 1 .. Len(c) |-> f[i]]
      OBVIOUS
    <3> HIDE DEF f
    <3>5. nodes' = nodes \o [i \in 1 .. Len(c) |-> f[i]]
      BY <3>3, <3>4
    <3> QED
      BY <3>2, <3>3, <3>5
  <2>3. CASE \E o \in objects, k \in Key : RemoveKey(o, k)
    BY <2>3 DEF RemoveKey
  <2> QED
    BY <2>1, <2>2, <2>3
<1>3. Object \subseteq Object' /\ \A n \in Object : nodes'[n] = nodes[n]
  BY <1>1, <1>2, AddedNodes
<1> QED
  BY <1>2, <1>3, BuildExact

\* The outcomes of the assertions put into the cache what the fields are worth.
LEMMA ChecksWorth ==
    ASSUME IInv, Plain, CacheExact, NEW o \in Object
    PROVE  \A r \in Checks(o) : OutcomeWorth(r)
<1>1. TypeOK /\ Shape
  BY DEF IInv
<1>2. ASSUME NEW a \in AssertionsOf(o) PROVE OutcomeWorth(Asked(o, a.key))
  <2>1. PICK n \in NodesOf(o) : a \in nodes[n].asserts
    BY DEF AssertionsOf
  <2>2. nodes[n] \in Node
    BY <1>1, NodesOfFacts, NodeFacts
  <2>3. a.key \in Key
    BY <2>1, <2>2 DEF Node, Assertion
  <2> QED
    BY <2>3, RunWorth
<1> QED
  BY <1>2 DEF Checks

\* o.k
LEMMA IndexObjectExact ==
    ASSUME IInv, Exact, NEW o \in objects, NEW k \in Key, IndexObject(o, k)
    PROVE  Exact'
<1> SUFFICES ASSUME Plain' PROVE CacheExact' /\ ManifestExact'
  BY DEF Exact
<1>1. nodes' = nodes /\ program' = program /\ shown' = <<>> /\ Ended({Asked(o, k)}, TRUE)
  BY DEF IndexObject
<1>2. Plain /\ CacheExact /\ TypeOK /\ Shape /\ o \in Object
  BY <1>1 DEF Plain, Exact, IInv, TypeOK
<1>3. {Asked(o, k)} \in SUBSET Outcome
  BY <1>2, EvaluatedType
<1>4. \A r \in {Asked(o, k)} : OutcomeWorth(r)
  BY <1>2, RunWorth
<1>5. Object' = Object /\ \A n \in Object : nodes'[n].layers = nodes[n].layers
  BY <1>1 DEF Object
<1>6. CacheExact'
  BY <1>1, <1>2, <1>3, <1>4, <1>5, EvaluationExact
<1> QED
  BY <1>1, <1>6 DEF ManifestExact

\* o[k]
LEMMA IndexArrayExact ==
    ASSUME IInv, Exact, NEW o \in objects, NEW k \in Key, IndexArray(o, k)
    PROVE  Exact'
<1> SUFFICES ASSUME Plain' PROVE CacheExact' /\ ManifestExact'
  BY DEF Exact
<1> DEFINE outcomes ==
      Checks(o) \cup
        (IF Resolution(o, k) = 0 THEN {} ELSE {Run(FieldOf(o, k).body, Resolution(o, k), o)})
<1>1. /\ CheckAssertions(o) /\ Ended(outcomes, AssertionsPass(o))
      /\ program' = program /\ shown' = <<>>
  BY DEF IndexArray
<1>2. Plain /\ CacheExact /\ TypeOK /\ Shape /\ o \in Object
  BY <1>1 DEF Plain, Exact, IInv, TypeOK
<1>3. outcomes \in SUBSET Outcome
  BY <1>2, ChecksFacts, FoundFacts
<1>4. \A r \in outcomes : OutcomeWorth(r)
  BY <1>2, ChecksWorth, RunWorth
<1>5. Object' = Object /\ \A n \in Object : nodes'[n].layers = nodes[n].layers
  BY <1>1, <1>2, ClearedFacts
<1> HIDE DEF outcomes
<1>6. CacheExact'
  BY <1>1, <1>2, <1>3, <1>4, <1>5, EvaluationExact
<1> QED
  BY <1>1, <1>6 DEF ManifestExact

\* Which fields are written out, from the literals
LEMMA VisibleFacts ==
    ASSUME IInv, Plain, NEW o \in Object, NEW k \in Key
    PROVE  k \in VisibleKeys(o) <=>
              ~ (Definition(nodes[o].layers, k) = 0 \/ VisibilityOf(nodes[o].layers, k) = "hidden")
<1>1. /\ Definition(nodes[o].layers, k) = 0 <=> Resolution(o, k) = 0
      /\ Definition(nodes[o].layers, k) # 0 =>
            FieldOf(o, k).vis = VisibilityOf(nodes[o].layers, k)
  BY FieldFacts DEF Plain, FieldOf
<1> QED
  BY <1>1 DEF VisibleKeys

\* value_to_json: what is written out is what the object means.
LEMMA ManifestWorth ==
    ASSUME IInv, Exact, NEW o \in objects, Manifest(o)
    PROVE  Exact'
<1> SUFFICES ASSUME Plain' PROVE CacheExact' /\ ManifestExact'
  BY DEF Exact
<1> DEFINE result(k) == Run(FieldOf(o, k).body, Resolution(o, k), o)
           outcomes == Checks(o) \cup {result(k) : k \in VisibleKeys(o)}
           values == [k \in Key |-> IF k \in VisibleKeys(o) THEN result(k).val ELSE None]
           ls == nodes[o].layers
<1>1. /\ CheckAssertions(o) /\ Ended(outcomes, AssertionsPass(o))
      /\ program' = program
      /\ shown' = IF failed' THEN <<>> ELSE <<o, values>>
  BY DEF Manifest
<1>2. Plain /\ CacheExact /\ TypeOK /\ Shape /\ o \in Object
  BY <1>1 DEF Plain, Exact, IInv, TypeOK
<1>3. \A k \in VisibleKeys(o) : k \in Key /\ Resolution(o, k) # 0
  BY DEF VisibleKeys
<1>4. outcomes \in SUBSET Outcome
  BY <1>2, <1>3, ChecksFacts, FoundFacts
<1>5. \A k \in VisibleKeys(o) :
         /\ result(k) \in outcomes /\ OutcomeWorth(result(k))
         /\ result(k).val # Failure => result(k).val = ValueOf(ls, Len(ls), k)
  BY <1>2, <1>3, RunWorth
<1>6. \A r \in outcomes : OutcomeWorth(r)
  BY <1>2, <1>5, ChecksWorth
<1>7. Object' = Object /\ \A n \in Object : nodes'[n].layers = nodes[n].layers
  BY <1>1, <1>2, ClearedFacts
<1>8. ~ failed' => \A r \in outcomes : r.val # Failure
  BY <1>1 DEF Ended
<1> HIDE DEF outcomes, result, ls
<1>9. CacheExact'
  BY <1>1, <1>2, <1>4, <1>6, <1>7, EvaluationExact
<1>10. ASSUME ~ failed', NEW k \in Key
       PROVE  values[k] = IF Definition(ls, k) = 0 \/ VisibilityOf(ls, k) = "hidden" THEN None
                          ELSE ValueOf(ls, Len(ls), k)
  <2>1. k \in VisibleKeys(o) <=> ~ (Definition(ls, k) = 0 \/ VisibilityOf(ls, k) = "hidden")
    BY <1>2, VisibleFacts DEF ls
  <2>2. k \in VisibleKeys(o) => result(k).val = ValueOf(ls, Len(ls), k)
    BY <1>5, <1>8, <1>10
  <2> QED
    BY <2>1, <2>2
<1> HIDE DEF values
<1>11. ManifestExact'
  <2>1. CASE failed'
    BY <1>1, <2>1 DEF ManifestExact
  <2>2. CASE ~ failed'
    <3>1. shown' = <<o, values>> /\ nodes'[o].layers = ls
      BY <1>1, <1>2, <1>7, <2>2 DEF ls
    <3>2. shown'[1] = o /\ shown'[2] = values
      BY <3>1
    <3> QED
      BY <1>10, <2>2, <3>1, <3>2 DEF ManifestExact
  <2> QED
    BY <2>1, <2>2
<1> QED
  BY <1>9, <1>11

\* Every step keeps the cache and what is written out exact.
LEMMA NextExact == IInv /\ Exact /\ [Next]_vars => Exact'
<1> SUFFICES ASSUME IInv, Exact, [Next]_vars PROVE Exact'
  OBVIOUS
<1>1. CASE \/ \E l \in Literals : MakeLiteral(l)
           \/ \E left, right \in objects : Merge(left, right)
           \/ \E o \in objects, k \in Key : RemoveKey(o, k)
  BY <1>1, BuildStep
<1>2. CASE \E o \in objects : Manifest(o)
  BY <1>2, ManifestWorth
<1>3. CASE \E o \in objects : Format(o)
  BY <1>3 DEF Format, Plain, Exact
<1>4. CASE \E o \in objects, k \in Key : IndexObject(o, k) \/ IndexArray(o, k)
  BY <1>4, IndexObjectExact, IndexArrayExact
<1>5. CASE UNCHANGED vars
  <2>1. program' = program /\ nodes' = nodes /\ cache' = cache /\ shown' = shown
    BY <1>5 DEF vars
  <2> QED
    BY <2>1 DEF Exact, Plain, CacheExact, ManifestExact
<1> QED
  BY <1>1, <1>2, <1>3, <1>4, <1>5 DEF Next

----------------------------------------------------------------------------
(* Theorems *)

\* The invariant behind the other theorems: a node is its own literal on top of
\* what its base is, less the keys removed from it.
THEOREM Inductive == Spec => []IInv
BY InitInv, NextInv, PTL DEF Spec

\* Objects, bases, cached results and manifested objects have their types, as they
\* are made, merged, formatted and evaluated; every evaluation has an outcome.
THEOREM TypesHold == Spec => []TypeOK
<1>1. IInv => TypeOK
  BY DEF IInv
<1> QED
  BY <1>1, Inductive, PTL

\* A field is found in the literal that defines it, and super starts below that
\* literal, in every object of a program that adds no object made by
\* std.objectRemoveKey to another.
THEOREM FieldsFound == Spec => [](~ program.mergesRemoved => FieldsResolve)
<1>1. IInv => (~ program.mergesRemoved => FieldsResolve)
  BY FieldsFollow
<1> QED
  BY <1>1, Inductive, PTL

\* A field has the visibility that the literals give it, inherited across merges
\* although merge_objects never copies the left object.
THEOREM VisibilityKept == Spec => [](~ program.mergesRemoved => VisibilityExact)
<1>1. IInv => (~ program.mergesRemoved => VisibilityExact)
  BY FieldsFollow
<1> QED
  BY <1>1, Inductive, PTL

\* An assertion stays attached to a node of the object until check_object_assertions
\* takes it off to run it.
THEOREM AssertionsKept == Spec => []AssertionsNotLost
BY AssertionsFollow, Inductive, PTL

\* Every cached value is what the literals say the field is worth, for the self and
\* the place in the chain of its key, in every program without the % operator that adds
\* no object made by std.objectRemoveKey to another: Return never stores a failed
\* evaluation, nor a value under the key of another.
THEOREM CacheCorrect == Spec => [](~ program.mergesRemoved /\ ~ program.formats => CacheExact)
<1>1. Init => Exact
  BY DEF Init, Exact, CacheExact, ManifestExact
<1>2. Exact => (~ program.mergesRemoved /\ ~ program.formats => CacheExact)
  BY DEF Exact, Plain
<1> QED
  BY <1>1, <1>2, NextExact, Inductive, PTL DEF Spec

\* value_to_json writes out the fields that are not hidden with the values that
\* overriding gives them, in the same programs.
THEOREM ManifestCorrect == Spec => [](~ program.mergesRemoved /\ ~ program.formats => ManifestExact)
<1>1. Init => Exact
  BY DEF Init, Exact, CacheExact, ManifestExact
<1>2. Exact => (~ program.mergesRemoved /\ ~ program.formats => ManifestExact)
  BY DEF Exact, Plain
<1> QED
  BY <1>1, <1>2, NextExact, Inductive, PTL DEF Spec

=============================================================================
