-------------------------- MODULE TestRunnerProofs --------------------------
(***************************************************************************)
(* Proofs about TestRunner, for objects with any number of nodes and       *)
(* tests: each test is reported once and in order, what a test may leave   *)
(* for the ones after it, and the coverage that is reported.               *)
(***************************************************************************)
EXTENDS TestRunner, SequenceTheorems, FiniteSetTheorems, TLAPS

----------------------------------------------------------------------------
(* The order of the tests *)

Rank(S, t) == Cardinality({u \in S : Before(u, t)})

LEMMA RankFacts ==
    ASSUME NEW S \in SUBSET (Nat \X Nat), IsFiniteSet(S)
    PROVE  /\ \A t \in S : Rank(S, t) \in 0 .. Cardinality(S) - 1
           /\ \A t, u \in S : Before(u, t) => Rank(S, u) < Rank(S, t)
           /\ \A t, u \in S : t = u \/ Before(t, u) \/ Before(u, t)
<1>1. \A t \in S : /\ t = <<t[1], t[2]>> /\ t[1] \in Nat /\ t[2] \in Nat
  OBVIOUS
<1>2. \A t \in S : IsFiniteSet({u \in S : Before(u, t)}) /\ Rank(S, t) \in Nat
  <2> SUFFICES ASSUME NEW t \in S
               PROVE  IsFiniteSet({u \in S : Before(u, t)}) /\ Rank(S, t) \in Nat
    OBVIOUS
  <2>1. {u \in S : Before(u, t)} \in SUBSET S
    OBVIOUS
  <2>2. IsFiniteSet({u \in S : Before(u, t)})
    BY <2>1, FS_Subset
  <2> QED
    BY <2>2, FS_CardinalityType DEF Rank
<1>3. ASSUME NEW t \in S
      PROVE  Rank(S, t) \in 0 .. Cardinality(S) - 1
  <2> DEFINE B == {u \in S : Before(u, t)}
  <2>1. B \in SUBSET S /\ t \notin B
    BY <1>1 DEF Before
  <2>2. B # S
    BY <2>1
  <2>3. Cardinality(B) <= Cardinality(S) /\ (Cardinality(S) = Cardinality(B) => S = B)
    BY <2>1, FS_Subset
  <2>4. Cardinality(B) # Cardinality(S)
    BY <2>2, <2>3
  <2>5. Cardinality(S) \in Nat
    BY FS_CardinalityType
  <2>6. Rank(S, t) = Cardinality(B) /\ Rank(S, t) \in Nat
    BY <1>2 DEF Rank
  <2> HIDE DEF B
  <2> QED
    BY <2>3, <2>4, <2>5, <2>6
<1>4. ASSUME NEW t \in S, NEW u \in S, Before(u, t)
      PROVE  Rank(S, u) < Rank(S, t)
  <2> DEFINE B == {v \in S : Before(v, t)}
             C == {v \in S : Before(v, u)}
  <2>1. C \in SUBSET B
    <3> SUFFICES ASSUME NEW v \in S, Before(v, u) PROVE Before(v, t)
      OBVIOUS
    <3> QED
      BY <1>1, <1>4 DEF Before
  <2>2. u \in B /\ u \notin C
    BY <1>1, <1>4 DEF Before
  <2>3. IsFiniteSet(B)
    BY <1>2
  <2>4. B # C
    BY <2>2
  <2>5. Rank(S, t) = Cardinality(B) /\ Rank(S, u) = Cardinality(C)
    BY DEF Rank
  <2>6. Rank(S, t) \in Nat /\ Rank(S, u) \in Nat
    BY <1>2
  <2> HIDE DEF B, C
  <2>7. Cardinality(C) <= Cardinality(B) /\ (Cardinality(B) = Cardinality(C) => B = C)
    BY <2>1, <2>3, FS_Subset
  <2>8. Cardinality(B) # Cardinality(C)
    BY <2>4, <2>7
  <2> QED
    BY <2>5, <2>6, <2>7, <2>8
<1>5. ASSUME NEW t \in S, NEW u \in S
      PROVE  t = u \/ Before(t, u) \/ Before(u, t)
  BY <1>1 DEF Before
<1> QED
  BY <1>3, <1>4, <1>5

\* ByName lists the tests of a set, each once, each behind those with smaller names
LEMMA ByNameFacts ==
    ASSUME NEW S \in SUBSET (Nat \X Nat), IsFiniteSet(S)
    PROVE  /\ ByName(S) \in Seq(S) /\ Len(ByName(S)) = Cardinality(S) /\ Cardinality(S) \in Nat
           /\ \A i, j \in 1 .. Cardinality(S) : i < j => Before(ByName(S)[i], ByName(S)[j])
           /\ \A t \in S : \E i \in 1 .. Cardinality(S) : ByName(S)[i] = t
<1> DEFINE n == Cardinality(S)
           f == [t \in S |-> Rank(S, t) + 1]
<1>1. n \in Nat
  BY FS_CardinalityType
<1>2. /\ \A t \in S : Rank(S, t) \in Nat /\ f[t] = Rank(S, t) + 1 /\ f[t] \in 1 .. n
      /\ \A t, u \in S : Before(u, t) => Rank(S, u) < Rank(S, t)
      /\ \A t, u \in S : t = u \/ Before(t, u) \/ Before(u, t)
  <2>1. \A t \in S : Rank(S, t) \in 0 .. Cardinality(S) - 1
    BY RankFacts
  <2>2. \A t \in S : Rank(S, t) \in Nat /\ f[t] = Rank(S, t) + 1 /\ f[t] \in 1 .. n
    BY <1>1, <2>1
  <2> QED
    BY <2>2, RankFacts
<1>3. \A t, u \in S : Rank(S, t) = Rank(S, u) => t = u
  <2> SUFFICES ASSUME NEW t \in S, NEW u \in S, Rank(S, t) = Rank(S, u) PROVE t = u
    OBVIOUS
  <2>1. ~(Rank(S, t) < Rank(S, u)) /\ ~(Rank(S, u) < Rank(S, t))
    BY <1>2
  <2> QED
    BY <1>2, <2>1
<1>4. f \in Injection(S, 1 .. n)
  <2>1. f \in [S -> 1 .. n]
    BY <1>2
  <2>2. \A t, u \in S : f[t] = f[u] => t = u
    BY <1>2, <1>3
  <2> QED
    BY <2>1, <2>2 DEF Injection, IsInjective
<1>5. \A i \in 1 .. n : \E t \in S : Rank(S, t) = i - 1
  <2>1. IsFiniteSet(1 .. n) /\ Cardinality(1 .. n) = n
    BY <1>1, FS_Interval
  <2> HIDE DEF f
  <2>2. f \in Surjection(S, 1 .. n)
    BY <1>4, <2>1, FS_Injection
  <2>3. \A i \in 1 .. n : \E t \in S : f[t] = i
    BY <2>2 DEF Surjection
  <2> SUFFICES ASSUME NEW i \in 1 .. n PROVE \E t \in S : Rank(S, t) = i - 1
    OBVIOUS
  <2>4. PICK t \in S : f[t] = i
    BY <2>3
  <2>5. Rank(S, t) + 1 = i /\ Rank(S, t) \in Nat
    BY <1>2, <2>4
  <2> QED
    BY <2>5
<1> HIDE DEF f
<1>6. ByName(S) = [i \in 1 .. n |-> CHOOSE t \in S : Rank(S, t) = i - 1]
  BY DEF ByName, Rank
<1>7. \A i \in 1 .. n : ByName(S)[i] \in S /\ Rank(S, ByName(S)[i]) = i - 1
  <2> SUFFICES ASSUME NEW i \in 1 .. n
               PROVE  ByName(S)[i] \in S /\ Rank(S, ByName(S)[i]) = i - 1
    OBVIOUS
  <2>1. ByName(S)[i] = CHOOSE t \in S : Rank(S, t) = i - 1
    BY <1>6
  <2> QED
    BY <1>5, <2>1
<1>8. ByName(S) \in Seq(S) /\ Len(ByName(S)) = n
  <2>1. ByName(S) \in [1 .. n -> S]
    BY <1>6, <1>7
  <2> QED
    BY <1>1, <2>1
<1>9. \A i, j \in 1 .. n : i < j => Before(ByName(S)[i], ByName(S)[j])
  <2> SUFFICES ASSUME NEW i \in 1 .. n, NEW j \in 1 .. n, i < j
               PROVE  Before(ByName(S)[i], ByName(S)[j])
    OBVIOUS
  <2>1. /\ ByName(S)[i] \in S /\ ByName(S)[j] \in S
        /\ Rank(S, ByName(S)[i]) = i - 1 /\ Rank(S, ByName(S)[j]) = j - 1
    BY <1>7
  <2>2. ByName(S)[i] # ByName(S)[j]
    BY <1>1, <2>1
  <2>3. ~Before(ByName(S)[j], ByName(S)[i])
    <3>1. ~(j - 1 < i - 1)
      BY <1>1
    <3> QED
      BY <1>2, <2>1, <3>1
  <2> QED
    BY <1>2, <2>1, <2>2, <2>3
<1>10. \A t \in S : \E i \in 1 .. n : ByName(S)[i] = t
  <2> SUFFICES ASSUME NEW t \in S PROVE \E i \in 1 .. n : ByName(S)[i] = t
    OBVIOUS
  <2>1. Rank(S, t) + 1 \in 1 .. n /\ Rank(S, t) \in Nat
    BY <1>2
  <2>2. PICK i \in 1 .. n : i = Rank(S, t) + 1
    BY <2>1
  <2>3. Rank(S, ByName(S)[i]) = Rank(S, t) /\ ByName(S)[i] \in S
    BY <1>7, <2>1, <2>2
  <2> QED
    BY <1>3, <2>3
<1> QED
  BY <1>1, <1>8, <1>9, <1>10

----------------------------------------------------------------------------
(* The variables *)

Code == UNION {UNION {o[t[2]][t[1]].covers : t \in Tests(o)} : o \in Objects}
Shared == UNION {UNION {o[t[2]][t[1]].writes : t \in Tests(o)} : o \in Objects}

Results == [name : Nat, node : Nat, outcome : {"pass", "fail", "skip"}, ran : SUBSET Code,
            frames : Nat, violated : SUBSET Shared]

TypeOK ==
    /\ object \in Objects
    /\ queue \in Seq(Tests(object))
    /\ frames \in Nat /\ frames > 0 /\ violated \subseteq Shared
    /\ results \in Seq(Results)

\* What is retained of the tests that are discovered
Retained == {t \in Discovered(object) : t[1] \in retained}

LEMMA TestsFacts ==
    ASSUME object \in Objects
    PROVE  /\ Tests(object) \subseteq Nat \X Nat /\ IsFiniteSet(Tests(object))
           /\ \A t \in Tests(object) :
                 /\ Field(t).deep \in Nat /\ Field(t).fails \in BOOLEAN
                 /\ Field(t).covers \subseteq Code /\ Field(t).writes \subseteq Shared
                 /\ t = <<t[1], t[2]>> /\ t[1] \in Nat /\ t[2] \in Nat
           /\ Retained \in SUBSET Tests(object) /\ Visible \in SUBSET Tests(object)
           /\ \A S \in SUBSET Tests(object) :
                 /\ IsFiniteSet(S) /\ S \in SUBSET (Nat \X Nat)
                 /\ ByName(S) \in Seq(S) /\ Len(ByName(S)) = Cardinality(S) /\ Cardinality(S) \in Nat
<1>1. Tests(object) \subseteq Nat \X Nat /\ IsFiniteSet(Tests(object))
  BY ObjectsAssumption
<1>2. ASSUME NEW t \in Tests(object)
      PROVE  /\ Field(t).deep \in Nat /\ Field(t).fails \in BOOLEAN
             /\ Field(t).covers \subseteq Code /\ Field(t).writes \subseteq Shared
             /\ t = <<t[1], t[2]>> /\ t[1] \in Nat /\ t[2] \in Nat
  <2>1. Field(t).deep \in Nat /\ Field(t).fails \in BOOLEAN
    BY ObjectsAssumption DEF Field
  <2>2. Field(t).covers \subseteq Code /\ Field(t).writes \subseteq Shared
    BY DEF Field, Code, Shared
  <2> QED
    BY <1>1, <2>1, <2>2
<1>3. Retained \in SUBSET Tests(object) /\ Visible \in SUBSET Tests(object)
  BY DEF Retained, Discovered, Visible, Topmost
<1>4. ASSUME NEW S \in SUBSET Tests(object)
      PROVE  /\ IsFiniteSet(S) /\ S \in SUBSET (Nat \X Nat)
             /\ ByName(S) \in Seq(S) /\ Len(ByName(S)) = Cardinality(S) /\ Cardinality(S) \in Nat
  <2>1. IsFiniteSet(S) /\ S \in SUBSET (Nat \X Nat)
    BY <1>1, FS_Subset
  <2> QED
    BY <2>1, ByNameFacts
<1> QED
  BY <1>1, <1>2, <1>3, <1>4

\* A test that ends is appended to the results
LEMMA ResultFacts ==
    ASSUME TypeOK, queue # <<>>, NEW outcome \in {"pass", "fail", "skip"},
           NEW ran \in SUBSET Code, Result(outcome, ran)
    PROVE  /\ results' \in Seq(Results) /\ Len(results') = Len(results) + 1
           /\ Len(results) \in Nat
           /\ \A i \in 1 .. Len(results) : results'[i] = results[i]
           /\ LET r == results'[Len(results) + 1]
              IN  /\ r.name = Test[1] /\ r.node = Test[2] /\ r.outcome = outcome /\ r.ran = ran
                  /\ r.frames = frames /\ r.violated = violated
           /\ Test \in Tests(object) /\ Tail(queue) \in Seq(Tests(object))
           /\ Len(queue) \in Nat /\ Len(queue) > 0 /\ Len(Tail(queue)) = Len(queue) - 1
           /\ Test = queue[1] /\ \A i \in 1 .. Len(queue) - 1 : Tail(queue)[i] = queue[i + 1]
<1>1. /\ Test \in Tests(object) /\ Tail(queue) \in Seq(Tests(object))
      /\ Len(queue) \in Nat /\ Len(queue) > 0 /\ Len(Tail(queue)) = Len(queue) - 1
      /\ Test = queue[1] /\ \A i \in 1 .. Len(queue) - 1 : Tail(queue)[i] = queue[i + 1]
  BY EmptySeq, HeadTailProperties DEF TypeOK, Test
<1> DEFINE r == [name |-> Test[1], node |-> Test[2], outcome |-> outcome,
                 ran |-> ran, frames |-> frames, violated |-> violated]
<1>2. r \in Results
  <2>1. Test[1] \in Nat /\ Test[2] \in Nat
    BY <1>1, TestsFacts DEF TypeOK
  <2> QED
    BY <2>1 DEF TypeOK, Results
<1>3. results' = Append(results, r) /\ results \in Seq(Results)
  BY DEF Result, TypeOK
<1>4. /\ r.name = Test[1] /\ r.node = Test[2] /\ r.outcome = outcome /\ r.ran = ran
      /\ r.frames = frames /\ r.violated = violated
  OBVIOUS
<1> HIDE DEF r
<1>5. /\ results' \in Seq(Results) /\ Len(results') = Len(results) + 1
      /\ Len(results) \in Nat
      /\ \A i \in 1 .. Len(results) : results'[i] = results[i]
      /\ results'[Len(results) + 1] = r
  BY <1>2, <1>3, AppendProperties
<1> QED
  BY <1>1, <1>4, <1>5

----------------------------------------------------------------------------
(* What the properties need of the states in between *)

\* No node hides a test that a node below it shows.  Where one does, the runner calls
\* the test below although the object hides it.
NoHiding(o) ==
    \A t \in Tests(o) : \A i \in 1 .. t[2] - 1 :
        t[1] \in DOMAIN o[i] /\ o[i][t[1]].hidden => o[t[2]][t[1]].hidden

\* The tests reported and the tests to come are the tests of the object, in order
Progress ==
    LET Q == ByName(Visible)
    IN  /\ status = "starting" => results = <<>>
        /\ Len(results) <= Len(Q)
        /\ \A i \in DOMAIN results : <<results[i].name, results[i].node>> = Q[i]
        /\ status = "running" =>
              /\ Len(results) + Len(queue) = Len(Q)
              /\ \A i \in DOMAIN queue : queue[i] = Q[Len(results) + i]
        /\ status \in {"passed", "failed"} => Len(results) = Len(Q)

AllWrites == UNION {Field(t).writes : t \in Tests(object)}

\* As long as no test failed, the machine is as it was
Untouched ==
    (\A i \in DOMAIN results : results[i].outcome # "fail") =>
        frames = 1 /\ violated = AllWrites

\* What was merged is what the tests ran
Accumulated ==
    collecting => accumulated = UNION {results[i].ran : i \in DOMAIN results}

Inv == TypeOK /\ InfluencesKnown /\ Untouched /\ Accumulated /\ CoverageExact

LEMMA InitInv == Init => Inv
<1> SUFFICES ASSUME Init PROVE Inv
  OBVIOUS
<1>1. violated = AllWrites /\ frames = 1 /\ results = <<>> /\ object \in Objects /\ queue = <<>>
  BY DEF Init, AllWrites, Field
<1>2. violated \subseteq Shared
  BY <1>1 DEF AllWrites, Field, Shared
<1>3. TypeOK
  BY <1>1, <1>2 DEF TypeOK
<1>4. DOMAIN results = {}
  BY <1>1
<1>5. InfluencesKnown
  BY <1>4 DEF InfluencesKnown
<1>6. Untouched
  BY <1>1 DEF Untouched
<1>7. Accumulated
  <2>1. accumulated = {} /\ UNION {results[i].ran : i \in DOMAIN results} = {}
    BY <1>4 DEF Init
  <2> QED
    BY <2>1 DEF Accumulated
<1>8. CoverageExact
  BY DEF Init, CoverageExact
<1> QED
  BY <1>3, <1>5, <1>6, <1>7, <1>8 DEF Inv

\* A test that ends: what its result says, and what it leaves
LEMMA ResultInv ==
    ASSUME Inv, queue # <<>>, UNCHANGED <<object, collecting, status>>,
           NEW outcome \in {"pass", "fail", "skip"}, NEW ran \in SUBSET Code, Result(outcome, ran),
           queue' = Tail(queue), accumulated' = Merged(ran),
           frames' \in Nat, frames' > 0, violated' \subseteq Shared,
           outcome # "fail" => frames' = frames,
           outcome # "fail" => (frames = 1 /\ violated = AllWrites => violated' = violated),
           LET f == Field(Test)
           IN  \/ outcome = "skip"
               \/ outcome = "fail" /\ frames + 1 + f.deep > MaxFrames
               \/ /\ outcome = "fail" /\ ~(frames + 1 + f.deep > MaxFrames)
                  /\ f.fails \/ f.writes \cap violated # {}
               \/ /\ outcome = "pass" /\ ~(frames + 1 + f.deep > MaxFrames)
                  /\ ~f.fails /\ f.writes \cap violated = {},
           status = "running"
    PROVE  Inv'
<1> DEFINE n == Len(results)
           f == Field(Test)
<1>1. /\ results' \in Seq(Results) /\ Len(results') = n + 1 /\ n \in Nat
      /\ \A i \in 1 .. n : results'[i] = results[i]
      /\ Test \in Tests(object) /\ Tail(queue) \in Seq(Tests(object))
  BY ResultFacts DEF Inv
<1>2. LET r == results'[n + 1]
      IN  /\ r.name = Test[1] /\ r.node = Test[2] /\ r.outcome = outcome /\ r.ran = ran
          /\ r.frames = frames /\ r.violated = violated
  BY ResultFacts DEF Inv
<1>3. DOMAIN results = 1 .. n /\ DOMAIN results' = 1 .. n + 1
  BY <1>1 DEF Inv, TypeOK
<1>4. 1 .. n + 1 = (1 .. n) \cup {n + 1} /\ n + 1 \in 1 .. n + 1
  BY <1>1
<1>5. TypeOK'
  BY <1>1 DEF Inv, TypeOK
<1> DEFINE left == \E j \in 1 .. n : results[j].outcome = "fail"
<1> HIDE DEF n, f
<1>6. InfluencesKnown'
  <2> DEFINE G(rs, i) == LET r == rs[i]
                             g == object[r.node][r.name]
                             l == \E j \in 1 .. i - 1 : rs[j].outcome = "fail"
                         IN  \/ r.outcome = "skip" \/ r.outcome = Alone(g)
                             \/ r.outcome = "fail" /\ l /\ r.frames + 1 + g.deep > MaxFrames
                             \/ r.outcome = "pass" /\ l /\ g.writes # {} /\ g.writes \cap r.violated = {}
  <2>1. ASSUME NEW i \in 1 .. n PROVE G(results', i)
    <3>1. G(results, i)
      BY <1>3 DEF Inv, InfluencesKnown
    <3>2. results'[i] = results[i]
      BY <1>1
    <3>3. \A j \in 1 .. i - 1 : results'[j] = results[j]
      BY <1>1
    <3>4. (\E j \in 1 .. i - 1 : results'[j].outcome = "fail")
             <=> (\E j \in 1 .. i - 1 : results[j].outcome = "fail")
      BY <3>3
    <3> QED
      BY <3>1, <3>2, <3>4, Zenon
  <2>2. (\E j \in 1 .. (n + 1) - 1 : results'[j].outcome = "fail") <=> left
    <3>1. 1 .. (n + 1) - 1 = 1 .. n
      BY <1>1
    <3> QED
      BY <1>1, <3>1
  <2>3. object[Test[2]][Test[1]] = f
    BY DEF Field, f
  <2>4. ~left => frames = 1 /\ violated = AllWrites
    BY <1>3 DEF Inv, Untouched
  <2>5. /\ f.deep \in Nat /\ f.fails \in BOOLEAN /\ f.writes \subseteq AllWrites
        /\ frames \in Nat /\ frames > 0 /\ MaxFrames \in Nat
    BY <1>1, TestsFacts, FramesAssumption DEF f, Inv, TypeOK, AllWrites
  <2>6. \/ outcome = "skip" \/ outcome = Alone(f)
        \/ outcome = "fail" /\ left /\ frames + 1 + f.deep > MaxFrames
        \/ outcome = "pass" /\ left /\ f.writes # {} /\ f.writes \cap violated = {}
    <3> HIDE DEF left
    <3>1. CASE outcome = "skip"
      BY <3>1
    <3>2. CASE outcome = "fail" /\ frames + 1 + f.deep > MaxFrames
      <4>1. ~left => 2 + f.deep > MaxFrames
        BY <2>4, <2>5, <3>2
      <4> QED
        BY <3>2, <4>1 DEF Alone
    <3>3. CASE outcome = "fail" /\ (f.fails \/ f.writes \cap violated # {})
      BY <3>3 DEF Alone
    <3>4. CASE /\ outcome = "pass" /\ ~(frames + 1 + f.deep > MaxFrames)
               /\ ~f.fails /\ f.writes \cap violated = {}
      <4>1. ~(2 + f.deep > MaxFrames)
        BY <2>5, <3>4
      <4>2. CASE f.writes = {}
        BY <3>4, <4>1, <4>2 DEF Alone
      <4>3. CASE f.writes # {}
        <5>1. left
          BY <2>4, <2>5, <3>4, <4>3
        <5> QED
          BY <3>4, <4>3, <5>1
      <4> QED
        BY <4>2, <4>3
    <3> QED
      BY <3>1, <3>2, <3>3, <3>4 DEF f
  <2>7. G(results', n + 1)
    BY <1>2, <2>2, <2>3, <2>6
  <2>8. \A i \in 1 .. n + 1 : G(results', i)
    BY <1>4, <2>1, <2>7
  <2>9. object' = object
    OBVIOUS
  <2> QED
    BY <1>3, <2>8, <2>9 DEF InfluencesKnown
<1>7. Untouched'
  <2> SUFFICES ASSUME \A i \in DOMAIN results' : results'[i].outcome # "fail"
               PROVE  frames' = 1 /\ violated' = AllWrites'
    BY DEF Untouched
  <2>1. outcome # "fail"
    BY <1>2, <1>3, <1>4
  <2>2. \A i \in DOMAIN results : results[i].outcome # "fail"
    BY <1>1, <1>3, <1>4
  <2>3. frames = 1 /\ violated = AllWrites
    BY <2>2 DEF Inv, Untouched
  <2>4. AllWrites' = AllWrites
    BY DEF AllWrites, Field
  <2> QED
    BY <2>1, <2>3, <2>4
<1>8. Accumulated'
  <2> SUFFICES ASSUME collecting
               PROVE  accumulated' = UNION {results'[i].ran : i \in DOMAIN results'}
    BY DEF Accumulated
  <2>1. accumulated' = accumulated \cup ran
    BY DEF Merged
  <2>2. accumulated = UNION {results[i].ran : i \in 1 .. n}
    BY <1>3 DEF Inv, Accumulated
  <2>3. {results'[i].ran : i \in 1 .. n + 1} = {results[i].ran : i \in 1 .. n} \cup {ran}
    <3>1. ASSUME NEW i \in 1 .. n PROVE results'[i].ran = results[i].ran /\ i \in 1 .. n + 1
      BY <1>1, <1>4
    <3>2. results'[n + 1].ran = ran
      BY <1>2
    <3>3. ASSUME NEW i \in 1 .. n + 1
          PROVE  results'[i].ran \in {results[j].ran : j \in 1 .. n} \cup {ran}
      BY <1>4, <3>1, <3>2
    <3> QED
      BY <1>4, <3>1, <3>2, <3>3
  <2> QED
    BY <1>3, <2>1, <2>2, <2>3
<1>9. CoverageExact'
  BY DEF CoverageExact
<1> QED
  BY <1>5, <1>6, <1>7, <1>8, <1>9 DEF Inv

LEMMA NextInv == Inv /\ [Next]_vars => Inv'
<1> SUFFICES ASSUME Inv, [Next]_vars PROVE Inv'
  OBVIOUS
<1>0. UNCHANGED <<object, results, frames, violated>> => InfluencesKnown' /\ Untouched'
  <2> SUFFICES ASSUME UNCHANGED <<object, results, frames, violated>>
               PROVE  InfluencesKnown' /\ Untouched'
    OBVIOUS
  <2>1. InfluencesKnown'
    BY DEF Inv, InfluencesKnown
  <2>2. Untouched'
    BY DEF Inv, Untouched, AllWrites, Field
  <2> QED
    BY <2>1, <2>2
<1>1. CASE Start
  <2>1. queue' \in Seq(Tests(object))
    <3>1. Retained \in SUBSET Tests(object)
      BY TestsFacts DEF Inv, TypeOK
    <3>2. ByName(Retained) \in Seq(Retained)
      BY <3>1, TestsFacts DEF Inv, TypeOK
    <3>3. ByName(Retained) \in Seq(Tests(object))
      BY <3>1, <3>2
    <3>4. queue' = queue \/ queue' = ByName(Retained)
      BY <1>1 DEF Start, Retained
    <3> QED
      BY <3>3, <3>4 DEF Inv, TypeOK
  <2>2. TypeOK'
    BY <1>1, <2>1 DEF Start, Inv, TypeOK
  <2>3. Accumulated'
    BY <1>1 DEF Start, Inv, Accumulated
  <2>4. CoverageExact'
    BY <1>1 DEF Start, CoverageExact
  <2> QED
    BY <1>0, <1>1, <2>2, <2>3, <2>4 DEF Start, Inv
<1>2. CASE Skip
  <2>1. Result("skip", {}) /\ {} \in SUBSET Code
    BY <1>2 DEF Skip
  <2>2. accumulated' = Merged({})
    BY <1>2 DEF Skip, Merged
  <2>3. frames' \in Nat /\ frames' > 0 /\ violated' \subseteq Shared
    BY <1>2 DEF Skip, Inv, TypeOK
  <2> QED
    BY <1>2, <2>1, <2>2, <2>3, ResultInv DEF Skip
<1>3. CASE ForceFails
  <2>1. TypeOK' /\ Accumulated' /\ CoverageExact'
    BY <1>3 DEF ForceFails, Inv, TypeOK, Accumulated, CoverageExact
  <2> QED
    BY <1>0, <1>3, <2>1 DEF ForceFails, Inv
<1>4. CASE Run
  <2> DEFINE f == Field(Test)
  <2>1. /\ status = "running" /\ queue # <<>>
        /\ UNCHANGED <<object, collecting, status>>
    BY <1>4 DEF Run
  <2>2. Test \in Tests(object)
    BY <2>1, EmptySeq, HeadTailProperties DEF Inv, TypeOK, Test
  <2>3. /\ f.deep \in Nat /\ f.fails \in BOOLEAN /\ f.covers \subseteq Code
        /\ f.writes \subseteq AllWrites
        /\ frames \in Nat /\ frames > 0 /\ MaxFrames \in Nat /\ MaxFrames > 0
    BY <2>2, TestsFacts, FramesAssumption DEF Inv, TypeOK, AllWrites
  <2>4. Overflows(1 + f.deep) <=> frames + 1 + f.deep > MaxFrames
    BY <2>3 DEF Overflows
  <2>5. violated' = violated \/ violated' = violated \ f.writes
    BY <1>4 DEF Run
  <2>6. violated' \subseteq Shared
    BY <2>5 DEF Inv, TypeOK
  <2>7. CASE Overflows(1 + f.deep)
    <3>1. PICK ran \in SUBSET f.covers : Ends("fail", MaxFrames, ran)
      BY <1>4, <2>7 DEF Run
    <3>2. /\ Result("fail", ran) /\ ran \in SUBSET Code /\ queue' = Tail(queue)
          /\ accumulated' = Merged(ran) /\ frames' \in Nat /\ frames' > 0
      BY <2>3, <3>1 DEF Ends, FramesAfter
    <3> HIDE DEF f
    <3>3. Inv'
      BY <2>1, <2>4, <2>6, <2>7, <3>2, ResultInv DEF f
    <3> QED
      BY <3>3
  <2>8. CASE ~Overflows(1 + f.deep) /\ (f.fails \/ f.writes \cap violated # {})
    <3>1. Ends("fail", frames + 1 + f.deep, f.covers)
      BY <1>4, <2>8 DEF Run
    <3>2. /\ Result("fail", f.covers) /\ f.covers \in SUBSET Code /\ queue' = Tail(queue)
          /\ accumulated' = Merged(f.covers) /\ frames' \in Nat /\ frames' > 0
      BY <2>3, <3>1 DEF Ends, FramesAfter
    <3> HIDE DEF f
    <3> QED
      BY <2>1, <2>4, <2>6, <2>8, <3>2, ResultInv DEF f
  <2>9. CASE ~Overflows(1 + f.deep) /\ ~(f.fails \/ f.writes \cap violated # {})
    <3>1. Ends("pass", frames + 1 + f.deep, f.covers)
      BY <1>4, <2>9 DEF Run
    <3>2. /\ Result("pass", f.covers) /\ f.covers \in SUBSET Code /\ queue' = Tail(queue)
          /\ accumulated' = Merged(f.covers) /\ frames' = frames
      BY <2>3, <3>1 DEF Ends, FramesAfter
    <3>3. violated' = violated
      BY <2>5, <2>9
    <3> HIDE DEF f
    <3> QED
      BY <2>1, <2>3, <2>4, <2>6, <2>9, <3>2, <3>3, ResultInv DEF f
  <2> QED
    BY <2>7, <2>8, <2>9
<1>5. CASE Complete
  <2>1. TypeOK' /\ Accumulated'
    BY <1>5 DEF Complete, Inv, TypeOK, Accumulated
  <2>2. CoverageExact'
    <3> SUFFICES ASSUME collecting
                 PROVE  report' = {c \in UNION {results[i].ran : i \in DOMAIN results} : c[1] # Main}
      BY <1>5 DEF Complete, CoverageExact
    <3>1. accumulated = UNION {results[i].ran : i \in DOMAIN results}
      BY DEF Inv, Accumulated
    <3> QED
      BY <1>5, <3>1 DEF Complete, Reported
  <2> QED
    BY <1>0, <1>5, <2>1, <2>2 DEF Complete, Inv
<1>6. CASE UNCHANGED vars
  <2>1. TypeOK' /\ Accumulated' /\ CoverageExact'
    BY <1>6 DEF vars, Inv, TypeOK, Accumulated, CoverageExact
  <2> QED
    BY <1>0, <1>6, <2>1 DEF vars, Inv
<1> QED
  BY <1>1, <1>2, <1>3, <1>4, <1>5, <1>6 DEF Next

\* What holds before and after every test: whatever tests leave behind, frames and assertions
\* that were taken off, is known, and the coverage so far is that of the tests so far.
THEOREM TestsInvariant == Spec => []Inv
<1> QED
  BY InitInv, NextInv, PTL DEF Spec

\* A test gives what it gives alone, but for the two causes: the frames that failed tests
\* left (the machine is used again after an error without a reset), and the assertion
\* that an earlier test took off.
THEOREM InfluencesAreKnown == Spec => []InfluencesKnown
<1>1. Inv => InfluencesKnown
  BY DEF Inv
<1> QED
  BY <1>1, TestsInvariant, PTL

\* The report of a suite that completes has the code of all of its tests.
THEOREM CoverageIsExact == Spec => []CoverageExact
<1>1. Inv => CoverageExact
  BY DEF Inv
<1> QED
  BY <1>1, TestsInvariant, PTL

----------------------------------------------------------------------------
(* Each test once, in order *)

\* What the walk over the nodes retains is what the object shows
LEMMA RetainedIsVisible ==
    ASSUME object \in Objects, NoHiding(object)
    PROVE  Retained = Visible
<1>1. ASSUME NEW t \in Retained PROVE t \in Visible
  <2>1. /\ t \in Tests(object) /\ ~object[t[2]][t[1]].hidden /\ t[1] \in retained
        /\ \A i \in 1 .. t[2] - 1 : t[1] \notin DOMAIN object[i] \/ object[i][t[1]].hidden
    BY DEF Retained, Discovered
  <2>2. \A i \in 1 .. t[2] - 1 : t[1] \notin DOMAIN object[i]
    BY <2>1 DEF NoHiding
  <2> QED
    BY <2>1, <2>2 DEF Visible, Topmost, Field
<1>2. ASSUME NEW t \in Visible PROVE t \in Retained
  BY DEF Retained, Discovered, Visible, Topmost, Field
<1> QED
  BY <1>1, <1>2

\* A test that is reported, run or not, moves from the queue to the results
LEMMA ReportedProgress ==
    ASSUME TypeOK, Progress, status = "running", queue # <<>>,
           NEW outcome \in {"pass", "fail", "skip"}, NEW ran \in SUBSET Code, Result(outcome, ran),
           queue' = Tail(queue), UNCHANGED <<object, retained, status>>
    PROVE  Progress'
<1> DEFINE n == Len(results)
           m == Len(queue)
           Q == ByName(Visible)
           named(r) == <<r.name, r.node>>
<1>1. /\ results' \in Seq(Results) /\ Len(results') = n + 1 /\ n \in Nat
      /\ \A i \in 1 .. n : results'[i] = results[i]
      /\ Test \in Tests(object) /\ queue' \in Seq(Tests(object))
      /\ m \in Nat /\ m > 0 /\ Len(queue') = m - 1
      /\ Test = queue[1] /\ \A i \in 1 .. m - 1 : queue'[i] = queue[i + 1]
  BY ResultFacts
<1>2. results'[n + 1].name = Test[1] /\ results'[n + 1].node = Test[2]
  BY ResultFacts
<1>3. Q' = Q
  BY DEF Visible, Topmost, Field
<1>4. /\ DOMAIN results = 1 .. n /\ DOMAIN results' = 1 .. n + 1
      /\ DOMAIN queue = 1 .. m /\ DOMAIN queue' = 1 .. m - 1
  BY <1>1 DEF TypeOK
<1>5. /\ n + m = Len(Q)
      /\ \A i \in 1 .. n : named(results[i]) = Q[i]
      /\ \A i \in 1 .. m : queue[i] = Q[n + i]
  BY <1>4 DEF Progress
<1>6. Test = <<Test[1], Test[2]>>
  BY <1>1, TestsFacts DEF TypeOK
<1> HIDE DEF n, m, Q
<1>7. Len(results') + Len(queue') = Len(Q) /\ Len(results') <= Len(Q)
  <2>1. /\ n \in Nat /\ m \in Nat /\ m > 0 /\ n + m = Len(Q)
        /\ Len(results') = n + 1 /\ Len(queue') = m - 1
    BY <1>1, <1>5
  <2>2. (n + 1) + (m - 1) = n + m /\ n + 1 <= n + m
    BY <2>1
  <2> QED
    BY <2>1, <2>2
<1>8. ASSUME NEW i \in 1 .. n + 1 PROVE named(results'[i]) = Q[i]
  <2>1. CASE i \in 1 .. n
    BY <1>1, <1>5, <2>1
  <2>2. CASE i = n + 1
    <3>1. 1 \in 1 .. m
      BY <1>1
    <3> QED
      BY <1>1, <1>2, <1>5, <1>6, <2>2, <3>1
  <2> QED
    BY <1>1, <2>1, <2>2
<1>9. ASSUME NEW i \in 1 .. m - 1 PROVE queue'[i] = Q[(n + 1) + i]
  <2>1. i + 1 \in 1 .. m /\ n + (i + 1) = (n + 1) + i
    BY <1>1
  <2> QED
    BY <1>1, <1>5, <2>1
<1>10. status' = "running"
  OBVIOUS
<1> QED
  BY <1>1, <1>3, <1>4, <1>7, <1>8, <1>9, <1>10 DEF Progress, Q

LEMMA NextProgress ==
    ASSUME TypeOK, Progress, NoHiding(object), [Next]_vars
    PROVE  Progress'
<1> DEFINE Q == ByName(Visible)
<1>0. UNCHANGED <<object, retained>> => Q' = Q
  BY DEF Visible, Topmost, Field
<1>1. CASE Start
  <2>1. results = <<>> /\ results' = <<>> /\ UNCHANGED <<object, retained>>
    BY <1>1 DEF Start, Progress
  <2>2. Q \in Seq(Visible) /\ Len(Q) \in Nat
    BY TestsFacts DEF TypeOK
  <2>3. CASE status' = "running"
    <3>1. queue' = Q
      <4>1. queue' = ByName(Retained)
        BY <1>1, <2>3 DEF Start, Retained
      <4> QED
        BY <4>1, RetainedIsVisible DEF TypeOK
    <3>2. Len(results') = 0 /\ DOMAIN results' = {}
      BY <2>1
    <3>3. Len(results') + Len(queue') = Len(Q) /\ \A i \in DOMAIN queue' : queue'[i] = Q[Len(results') + i]
      BY <2>2, <3>1, <3>2
    <3>4. Len(results') <= Len(Q)
      BY <2>2, <3>2
    <3> HIDE DEF Q
    <3> QED
      BY <1>0, <2>1, <2>3, <3>2, <3>3, <3>4 DEF Progress, Q
  <2>4. CASE status' \in {"NotAnObject", "NotAFunction"}
    <3>1. Len(results') = 0 /\ DOMAIN results' = {}
      BY <2>1
    <3>2. Len(results') <= Len(Q)
      BY <2>2, <3>1
    <3> HIDE DEF Q
    <3> QED
      BY <1>0, <2>1, <2>4, <3>1, <3>2 DEF Progress, Q
  <2> QED
    BY <1>1, <2>3, <2>4 DEF Start
<1>2. CASE Skip
  <2>1. Result("skip", {}) /\ {} \in SUBSET Code
    BY <1>2 DEF Skip
  <2> QED
    BY <1>2, <2>1, ReportedProgress DEF Skip
<1>3. CASE ForceFails
  <2>1. /\ UNCHANGED <<object, retained, results>> /\ status # "starting"
        /\ status' \in {"RuntimeError", "NotAFunction"}
    BY <1>3 DEF ForceFails
  <2> HIDE DEF Q
  <2> QED
    BY <1>0, <2>1 DEF Progress, Q
<1>4. CASE Run
  <2>1. \E outcome \in {"pass", "fail", "skip"}, ran \in SUBSET Code :
            Result(outcome, ran) /\ queue' = Tail(queue)
    <3> DEFINE f == Field(Test)
    <3>1. Test \in Tests(object)
      BY <1>4, EmptySeq, HeadTailProperties DEF Run, TypeOK, Test
    <3>2. f.covers \in SUBSET Code
      BY <3>1, TestsFacts DEF TypeOK
    <3>3. PICK outcome \in {"pass", "fail"}, ran \in SUBSET f.covers, depth \in {MaxFrames, frames + 1 + f.deep} :
             Ends(outcome, depth, ran)
      BY <1>4 DEF Run
    <3> HIDE DEF f
    <3> QED
      BY <3>2, <3>3 DEF Ends
  <2> QED
    BY <1>4, <2>1, ReportedProgress DEF Run
<1>5. CASE Complete
  <2>1. /\ UNCHANGED <<object, retained, results>> /\ status = "running" /\ queue = <<>>
        /\ status' \in {"passed", "failed"}
    BY <1>5 DEF Complete
  <2>2. Len(results) \in Nat /\ Len(queue) = 0
    BY <2>1 DEF TypeOK
  <2>3. Len(results) = Len(Q)
    BY <2>1, <2>2 DEF Progress
  <2> HIDE DEF Q
  <2> QED
    BY <1>0, <2>1, <2>3 DEF Progress, Q
<1>6. CASE UNCHANGED vars
  <2>1. UNCHANGED <<object, retained, results, status, queue>>
    BY <1>6 DEF vars
  <2> HIDE DEF Q
  <2> QED
    BY <1>0, <2>1 DEF Progress, Q
<1> QED
  BY <1>1, <1>2, <1>3, <1>4, <1>5, <1>6 DEF Next

\* The tests that were reported are the first ones of the object's tests
LEMMA ProgressReports == TypeOK /\ Progress => TestsReportedOnce
<1> SUFFICES ASSUME TypeOK, Progress PROVE TestsReportedOnce
  OBVIOUS
<1> DEFINE Q == ByName(Visible)
           reported == [i \in DOMAIN results |-> <<results[i].name, results[i].node>>]
<1>1. Q \in Seq(Visible) /\ Len(Q) = Cardinality(Visible) /\ Len(Q) \in Nat
  BY TestsFacts DEF TypeOK
<1>2. Len(results) \in Nat /\ DOMAIN results = 1 .. Len(results)
  BY DEF TypeOK
<1>3. /\ Len(results) <= Len(Q)
      /\ \A i \in 1 .. Len(results) : <<results[i].name, results[i].node>> = Q[i]
      /\ status \in {"passed", "failed"} => Len(results) = Len(Q)
  BY <1>2 DEF Progress
<1>4. /\ reported \in Seq(Visible) /\ Len(reported) = Len(results)
      /\ \A i \in 1 .. Len(results) : reported[i] = Q[i]
  <2>1. \A i \in 1 .. Len(results) : reported[i] = Q[i] /\ Q[i] \in Visible
    BY <1>1, <1>2, <1>3
  <2>2. reported \in [1 .. Len(results) -> Visible]
    BY <1>2, <2>1
  <2> QED
    BY <1>2, <2>1, <2>2
<1> HIDE DEF reported, Q
<1> DEFINE n == Len(results)
<1>5. IsPrefix(reported, Q)
  <2>1. n \in Nat /\ n <= Len(Q)
    BY <1>2, <1>3
  <2> HIDE DEF n
  <2>2. SubSeq(reported, 1, n) = SubSeq(Q, 1, n)
    BY <1>1, <1>4, <2>1 DEF n
  <2>3. Len(reported) = n
    BY <1>4 DEF n
  <2> QED
    BY <2>1, <2>2, <2>3 DEF IsPrefix
<1> QED
  BY <1>1, <1>3, <1>4, <1>5 DEF TestsReportedOnce, Q, reported

\* Where no node hides what a node below it shows, a suite reports each test of the
\* object once, in the order of their names and at the node that the object has it from.
THEOREM TestsAreReportedOnce ==
    ASSUME \A o \in Objects : NoHiding(o)
    PROVE  Spec => []TestsReportedOnce
<1>1. Init => Progress
  <2> SUFFICES ASSUME Init PROVE Progress
    OBVIOUS
  <2>1. TypeOK
    BY InitInv DEF Inv
  <2>2. results = <<>> /\ status = "starting" /\ DOMAIN results = {} /\ Len(results) = 0
    BY DEF Init
  <2>3. Len(results) <= Len(ByName(Visible))
    <3>1. Len(ByName(Visible)) \in Nat
      BY <2>1, TestsFacts DEF TypeOK
    <3> QED
      BY <2>2, <3>1
  <2> QED
    BY <2>2, <2>3 DEF Progress
<1>2. Inv /\ Progress /\ [Next]_vars => Progress'
  <2> SUFFICES ASSUME Inv, Progress, [Next]_vars PROVE Progress'
    OBVIOUS
  <2>1. TypeOK /\ NoHiding(object)
    BY DEF Inv, TypeOK
  <2> QED
    BY <2>1, NextProgress
<1>3. Inv /\ Progress => TestsReportedOnce
  BY ProgressReports DEF Inv
<1> QED
  BY <1>1, <1>2, <1>3, TestsInvariant, PTL DEF Spec

=============================================================================
