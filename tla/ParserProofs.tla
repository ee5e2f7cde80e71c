---------------------------- MODULE ParserProofs ----------------------------
(***************************************************************************)
(* Proofs about Parser, for programs of any length, any lookahead and any  *)
(* number of checkpoints: peek_ahead answers what advance will give, and   *)
(* the parser implements TokenStream.                                      *)
(*                                                                         *)
(* The invariant speaks of the tokens between the one that is current and  *)
(* the place of the scanner.  It is lost while an error is on its way up:  *)
(* the scanner may then be behind a token that nobody has got.  What       *)
(* brings it back is that a checkpoint is made at no such time.            *)
(***************************************************************************)
EXTENDS Parser, SequenceTheorems, WellFoundedInduction, TLAPS

\* The tokens of a buffer b that are still to be given, and the position p of the
\* scanner: without a gap, each readable, and nothing is scanned behind the end
Ahead(t, p, b, k) ==
    /\ \A i \in k + 1 .. Len(b) : Good(t, b[i]) /\ b[i] = Upcoming(p, b, k) + i - k - 1
    /\ k < Len(b) => p = After(t, b[Len(b)])
    /\ Len(b) > 0 /\ b[Len(b)] = Eof(t) => p = Eof(t)

\* While no error is on its way, what is to come is in order
InOrder == ~failed => ~panic /\ Ahead(text, position, buffer, taken)

\* and so it is at every checkpoint: one is made only then
SavedInOrder ==
    \A c \in saved : /\ ~c.panic /\ c.taken <= Len(c.buffer)
                     /\ Ahead(text, c.position, c.buffer, c.taken)

IInv == TypeOK /\ InOrder /\ SavedInOrder

----------------------------------------------------------------------------
(* The helpers of the model *)

LEMMA TextFacts ==
    ASSUME text \in Texts
    PROVE  /\ Len(text) \in Nat /\ DOMAIN text = 1 .. Len(text)
           /\ Eof(text) \in Nat /\ Eof(text) = Len(text) + 1
           /\ Tokens = 1 .. Eof(text) /\ Good(text, Eof(text))
           /\ \A i \in Tokens : After(text, i) \in Tokens /\ i \in Nat /\ 1 <= i /\ i <= Eof(text)
           /\ \A i \in Tokens : i # Eof(text) => i + 1 \in Tokens
BY TextsAssumption DEF Eof, Tokens, Good, After

\* What is missing up to an index is read from the scanner, up to the end
LEMMA FilledFacts ==
    ASSUME TypeOK, NEW upto \in Nat
    PROVE  /\ Filled(upto) \in Seq(Tokens)
           /\ Len(Filled(upto)) \in Nat /\ Len(buffer) <= Len(Filled(upto))
           /\ Len(Filled(upto)) <= Len(buffer) + Eof(text) - position + 1
           /\ \/ Len(Filled(upto)) = upto
              \/ /\ Len(Filled(upto)) < upto
                 /\ Len(Filled(upto)) = Len(buffer) + Eof(text) - position + 1
              \/ upto < Len(buffer) /\ Len(Filled(upto)) = Len(buffer)
           /\ \A i \in 1 .. Len(buffer) : Filled(upto)[i] = buffer[i]
           /\ \A i \in Len(buffer) + 1 .. Len(Filled(upto)) :
                 Filled(upto)[i] = position + i - Len(buffer) - 1
<1> DEFINE missing == upto - Len(buffer)
           there   == Eof(text) - position + 1
           low     == IF missing < there THEN missing ELSE there
           n       == IF low < 0 THEN 0 ELSE low
           new     == [i \in 1 .. n |-> position + i - 1]
<1>1. /\ Len(buffer) \in Nat /\ buffer \in Seq(Tokens) /\ position \in Tokens
      /\ Eof(text) \in Nat /\ Tokens = 1 .. Eof(text)
  BY TextFacts DEF TypeOK
<1>2. n \in Nat /\ n <= there /\ (n = missing \/ (n < missing /\ n = there) \/ (missing < 0 /\ n = 0))
  BY <1>1
<1>3. Filled(upto) = buffer \o new
  BY DEF Filled
<1> HIDE DEF n
<1>4. new \in Seq(Tokens) /\ Len(new) = n /\ \A i \in 1 .. n : new[i] = position + i - 1
  <2>1. \A i \in 1 .. n : position + i - 1 \in Tokens
    BY <1>1, <1>2
  <2> QED
    BY <1>2, <2>1
<1> HIDE DEF new
<1>5. /\ buffer \o new \in Seq(Tokens) /\ Len(buffer \o new) = Len(buffer) + n
      /\ \A i \in 1 .. Len(buffer) + n :
            (buffer \o new)[i] = IF i <= Len(buffer) THEN buffer[i] ELSE new[i - Len(buffer)]
  BY <1>1, <1>4, ConcatProperties
<1>6. position \in Nat /\ there \in Int /\ Len(Filled(upto)) = Len(buffer) + n
  BY <1>1, <1>3, <1>5
<1>7. \A i \in 1 .. Len(buffer) : Filled(upto)[i] = buffer[i]
  BY <1>1, <1>2, <1>3, <1>5
<1>8. ASSUME NEW i \in Len(buffer) + 1 .. Len(Filled(upto))
      PROVE  Filled(upto)[i] = position + i - Len(buffer) - 1
  <2>1. i - Len(buffer) \in 1 .. n /\ i \in 1 .. Len(buffer) + n /\ ~(i <= Len(buffer))
    BY <1>1, <1>2, <1>6
  <2> QED
    BY <2>1, <1>1, <1>3, <1>4, <1>5, <1>6
<1>9. Filled(upto) \in Seq(Tokens)
  BY <1>3, <1>5
<1> HIDE DEF there
<1>10. /\ Len(Filled(upto)) \in Nat /\ Len(buffer) <= Len(Filled(upto))
       /\ Len(Filled(upto)) <= Len(buffer) + there
       /\ \/ Len(Filled(upto)) = upto
          \/ Len(Filled(upto)) < upto /\ Len(Filled(upto)) = Len(buffer) + there
          \/ upto < Len(buffer) /\ Len(Filled(upto)) = Len(buffer)
  BY <1>1, <1>2, <1>6
<1>11. Len(buffer) + there = Len(buffer) + Eof(text) - position + 1
  BY <1>1, <1>6 DEF there
<1> QED
  BY <1>7, <1>8, <1>9, <1>10, <1>11

----------------------------------------------------------------------------
(* What each operation does to the tokens to come *)

\* advance and consume give the next token, unless they fail
LEMMA NextTokenStep ==
    ASSUME IInv, ~failed, NextToken, UNCHANGED <<text, buffer, saved>>
    PROVE  /\ position' \in Tokens /\ current' \in Tokens \cup {None}
           /\ taken' \in 0 .. Len(buffer) /\ panic' \in BOOLEAN /\ failed' \in BOOLEAN
           /\ InOrder'
           /\ ~failed' => /\ current' = Upcoming(position, buffer, taken)
                          /\ Good(text, current')
                          /\ Upcoming(position, buffer, taken)' = After(text, current')
<1>1. /\ TypeOK /\ panic = FALSE /\ failed = FALSE /\ Ahead(text, position, buffer, taken)
      /\ Len(buffer) \in Nat /\ taken \in 0 .. Len(buffer) /\ position \in Tokens
      /\ \A i \in 1 .. Len(buffer) : buffer[i] \in Tokens
  BY DEF IInv, TypeOK, InOrder
<1>2. /\ Eof(text) \in Nat /\ Tokens = 1 .. Eof(text) /\ Good(text, Eof(text))
      /\ \A i \in Tokens : After(text, i) \in Tokens /\ i \in Nat /\ 1 <= i /\ i <= Eof(text)
      /\ \A i \in Tokens : i # Eof(text) => i + 1 \in Tokens
  BY <1>1, TextFacts DEF TypeOK
<1> DEFINE Goal ==
      /\ position' \in Tokens /\ current' \in Tokens \cup {None}
      /\ taken' \in 0 .. Len(buffer)
      /\ \/ panic' = TRUE /\ failed' = TRUE
         \/ /\ panic' = FALSE /\ failed' = FALSE /\ Ahead(text, position, buffer, taken)'
            /\ current' = Upcoming(position, buffer, taken)
            /\ Good(text, current')
            /\ Upcoming(position, buffer, taken)' = After(text, current')
<1>3. ASSUME /\ taken < Len(buffer)
             /\ current' = buffer[taken + 1]
             /\ taken' = taken + 1
             /\ UNCHANGED <<position, panic, failed>>
      PROVE  Goal
  <2>1. /\ taken + 1 \in 1 .. Len(buffer) /\ current' \in Tokens /\ taken' \in 0 .. Len(buffer)
        /\ Upcoming(position, buffer, taken) = buffer[taken + 1]
        /\ Good(text, buffer[taken + 1])
    BY <1>1, <1>3 DEF Upcoming, Ahead
  <2>2. CASE taken + 1 = Len(buffer)
    <3>1. /\ Upcoming(position, buffer, taken)' = position
          /\ position = After(text, buffer[taken + 1])
      BY <1>1, <1>3, <2>2 DEF Upcoming, Ahead
    <3>2. Ahead(text, position, buffer, taken)'
      BY <1>1, <1>3, <2>2 DEF Ahead
    <3> QED
      BY <1>1, <1>3, <2>1, <3>1, <3>2
  <2>3. CASE taken + 1 < Len(buffer)
    <3>1. /\ Upcoming(position, buffer, taken)' = buffer[taken + 2]
          /\ buffer[taken + 2] = buffer[taken + 1] + 1 /\ buffer[taken + 2] \in Tokens
      BY <1>1, <1>3, <2>1, <2>3 DEF Upcoming, Ahead
    <3>2. buffer[taken + 2] = After(text, buffer[taken + 1])
      BY <1>2, <2>1, <1>1, <3>1 DEF After
    <3>3. \A i \in taken + 2 .. Len(buffer) :
             /\ Good(text, buffer[i])
             /\ buffer[i] = buffer[taken + 2] + i - (taken + 1) - 1
      <4>1. buffer[taken + 1] \in Nat /\ buffer[taken + 2] \in Nat
        BY <1>2, <2>1, <1>1, <3>1
      <4>2. \A i \in taken + 1 .. Len(buffer) :
               /\ Good(text, buffer[i])
               /\ buffer[i] = buffer[taken + 1] + i - taken - 1
        BY <1>1, <2>1 DEF Ahead
      <4> QED
        BY <1>1, <3>1, <4>1, <4>2
    <3>4. Ahead(text, position, buffer, taken)'
      BY <1>1, <1>3, <2>3, <3>1, <3>3 DEF Ahead
    <3> QED
      BY <1>1, <1>3, <2>1, <3>1, <3>2, <3>4
  <2>4. taken + 1 = Len(buffer) \/ taken + 1 < Len(buffer)
    BY <1>1, <2>1
  <2> QED
    BY <2>2, <2>3, <2>4, Zenon
<1>4. ASSUME /\ taken = Len(buffer)
             /\ Good(text, position)
             /\ current' = position
             /\ position' = After(text, position)
             /\ UNCHANGED <<taken, panic, failed>>
      PROVE  Goal
  <2>1. /\ Upcoming(position, buffer, taken) = position
        /\ Upcoming(position, buffer, taken)' = position'
    BY <1>1, <1>4 DEF Upcoming
  <2>2. position = Eof(text) => position' = Eof(text)
    BY <1>4 DEF After
  <2>3. Ahead(text, position, buffer, taken)'
    BY <1>1, <1>4, <2>2 DEF Ahead
  <2> QED
    BY <1>1, <1>2, <1>4, <2>1, <2>3
<1>5. ASSUME /\ taken = Len(buffer)
             /\ ScanFails
             /\ current' = None
             /\ failed' = ~panic
             /\ UNCHANGED taken
      PROVE  Goal
  <2>1. position # Eof(text) /\ position' \in {position, position + 1} /\ panic' = TRUE
    BY <1>1, <1>2, <1>5 DEF ScanFails
  <2>2. position' \in Tokens /\ panic' = TRUE /\ failed' = TRUE
    BY <1>1, <1>2, <1>5, <2>1
  <2> QED
    BY <1>1, <1>2, <1>5, <2>2
<1>6. Goal
  BY <1>3, <1>4, <1>5 DEF NextToken
<1> QED
  BY <1>6 DEF InOrder

LEMMA LeastToken ==
    ASSUME NEW T \in SUBSET Nat, T # {}
    PROVE  \E first \in T : \A j \in T : first <= j
<1> DEFINE R == OpToRel(<, Nat)
<1>1. \A i, j \in Nat : i < j => <<i, j>> \in R
  BY DEF OpToRel
<1>2. IsWellFoundedOn(R, Nat)
  BY NatLessThanWellFounded
<1> HIDE DEF R
<1>3. \E first \in T : \A j \in T : ~(<<j, first>> \in R)
  BY <1>2, WFMin
<1>4. PICK first \in T : \A j \in T : ~(<<j, first>> \in R)
  BY <1>3
<1>5. ASSUME NEW j \in T PROVE first <= j
  <2>1. first \in Nat /\ j \in Nat
    OBVIOUS
  <2>2. ~(j < first)
    BY <1>1, <1>4, <2>1
  <2> QED
    BY <2>1, <2>2
<1> QED
  BY <1>5

\* Looking ahead changes nothing of what is to come, and its answer is right
LEMMA PeekStep ==
    ASSUME IInv, NEW n \in Nat, n > 0, Peek(n)
    PROVE  /\ buffer' \in Seq(Tokens) /\ position' \in Tokens
           /\ taken \in 0 .. Len(buffer')
           /\ Ahead(text, position, buffer, taken)'
           /\ Upcoming(position, buffer, taken)' = Upcoming(position, buffer, taken)
           /\ PeekExact'
<1> DEFINE index == taken + n
           F     == Filled(index)
           from  == Upcoming(position, buffer, taken)
           end   == Eof(text)
           past  == EndBuffered /\ index > Len(buffer)
<1>1. /\ TypeOK /\ ~failed /\ Ahead(text, position, buffer, taken)
      /\ Len(buffer) \in Nat /\ taken \in 0 .. Len(buffer) /\ position \in Tokens
      /\ buffer \in Seq(Tokens) /\ \A i \in 1 .. Len(buffer) : buffer[i] \in Tokens
      /\ index \in Nat /\ index > taken
  BY DEF IInv, TypeOK, InOrder, Peek
<1>2. /\ end \in Nat /\ Tokens = 1 .. end /\ Good(text, end)
      /\ \A i \in Tokens : After(text, i) \in Tokens /\ i \in Nat /\ 1 <= i /\ i <= end
      /\ Tokens' = Tokens
  BY <1>1, TextFacts DEF TypeOK, Peek, Tokens
<1>3. /\ F \in Seq(Tokens) /\ Len(F) \in Nat /\ Len(buffer) <= Len(F)
      /\ \/ Len(F) = index
         \/ Len(F) < index /\ Len(F) = Len(buffer) + end - position + 1
         \/ index < Len(buffer) /\ Len(F) = Len(buffer)
      /\ \A i \in 1 .. Len(buffer) : F[i] = buffer[i]
      /\ \A i \in Len(buffer) + 1 .. Len(F) : F[i] = position + i - Len(buffer) - 1
  BY <1>1, FilledFacts
<1>4. /\ \A i \in Scanned(index) : past \/ Good(text, i)
      /\ buffer' = IF past THEN buffer ELSE F
      /\ position' = IF Len(buffer') = Len(buffer) THEN position
                     ELSE After(text, buffer'[Len(buffer')])
      /\ answer' = [ahead |-> n, from |-> from,
                    token |-> IF index <= Len(buffer') THEN buffer'[index] ELSE None]
      /\ text' = text /\ taken' = taken
  BY DEF Peek, Answers
<1>5. /\ from \in Nat /\ 1 <= from /\ from <= end
      /\ \A i \in taken + 1 .. Len(buffer) :
            Good(text, buffer[i]) /\ buffer[i] = from + i - taken - 1
      /\ taken = Len(buffer) => from = position
      /\ taken < Len(buffer) => position = After(text, buffer[Len(buffer)])
      /\ Len(buffer) > 0 /\ buffer[Len(buffer)] = end => position = end
  BY <1>1, <1>2 DEF Ahead, Upcoming
<1>6. EndBuffered <=> Len(buffer) > 0 /\ buffer[Len(buffer)] = end
  BY <1>1, EmptySeq DEF EndBuffered
<1> HIDE DEF F, from, end, index
<1> DEFINE Goal ==
      /\ buffer' \in Seq(Tokens) /\ position' \in Tokens /\ taken <= Len(buffer')
      /\ Ahead(text, position, buffer, taken)'
      /\ Upcoming(position, buffer, taken)' = from
      /\ \/ answer'.token = from + n - 1 /\ from + n - 1 <= end
         \/ answer'.token = None /\ (from + n - 1 > end \/ from = end)
<1>7. ASSUME past PROVE Goal
  <2>1. buffer' = buffer /\ position' = position /\ answer'.token = None
    BY <1>1, <1>4, <1>7
  <2>2. Upcoming(position, buffer, taken)' = from /\ Ahead(text, position, buffer, taken)'
    BY <1>1, <1>4, <2>1 DEF from, Upcoming, Ahead
  <2>3. from + n - 1 > end \/ from = end
    <3>1. /\ Len(buffer) > 0 /\ buffer[Len(buffer)] = end /\ position = end
          /\ taken + n > Len(buffer)
      BY <1>5, <1>6, <1>7 DEF index
    <3>2. CASE taken = Len(buffer)
      BY <1>5, <3>1, <3>2
    <3>3. CASE taken < Len(buffer)
      <4>1. Len(buffer) \in taken + 1 .. Len(buffer)
        BY <1>1, <3>3
      <4>2. end = from + Len(buffer) - taken - 1
        BY <1>5, <3>1, <4>1
      <4> QED
        BY <1>1, <1>2, <1>5, <3>1, <4>2
    <3> QED
      BY <1>1, <3>2, <3>3
  <2> QED
    BY <1>1, <2>1, <2>2, <2>3
<1>8. ASSUME ~past PROVE Goal
  <2>1. buffer' = F /\ taken + 1 <= Len(F)
    BY <1>1, <1>2, <1>3, <1>4, <1>8 DEF index
  <2>2. \A i \in taken + 1 .. Len(F) : Good(text, F[i]) /\ F[i] = from + i - taken - 1
    <3> SUFFICES ASSUME NEW i \in taken + 1 .. Len(F)
                 PROVE  Good(text, F[i]) /\ F[i] = from + i - taken - 1
      OBVIOUS
    <3>1. CASE i <= Len(buffer)
      BY <1>1, <1>3, <1>5, <3>1
    <3>2. CASE i > Len(buffer)
      <4>1. i \in Len(buffer) + 1 .. Len(F) /\ F[i] = position + i - Len(buffer) - 1
        BY <1>1, <1>3, <3>2
      <4>2. Good(text, F[i])
        BY <1>4, <1>8, <4>1 DEF Scanned, F
      <4>3. index > Len(buffer)
        BY <1>1, <1>3, <4>1 DEF index
      <4>4. ASSUME taken < Len(buffer) PROVE position = from + Len(buffer) - taken
        <5>1. Len(buffer) \in taken + 1 .. Len(buffer) /\ Len(buffer) \in 1 .. Len(buffer)
          BY <1>1, <4>4
        <5>2. buffer[Len(buffer)] = from + Len(buffer) - taken - 1 /\ buffer[Len(buffer)] \in Nat
          BY <1>1, <1>2, <1>5, <5>1
        <5>3. buffer[Len(buffer)] # end
          BY <1>1, <1>6, <1>8, <4>3, <5>1
        <5>4. position = buffer[Len(buffer)] + 1
          BY <1>5, <4>4, <5>3 DEF After, end
        <5> QED
          BY <1>1, <1>5, <5>2, <5>4
      <4>5. CASE taken = Len(buffer)
        BY <1>1, <1>2, <1>5, <4>1, <4>2, <4>5
      <4>6. CASE taken < Len(buffer)
        <5>1. position \in Int /\ i \in Int /\ from \in Int /\ taken \in Int /\ Len(buffer) \in Int
          BY <1>1, <1>2, <1>5
        <5>2. position = from + Len(buffer) - taken /\ F[i] = position + i - Len(buffer) - 1
          BY <4>1, <4>4, <4>6
        <5>3. F[i] = from + i - taken - 1
          BY <5>1, <5>2
        <5> QED
          BY <4>2, <5>3
      <4> QED
        BY <1>1, <4>5, <4>6
    <3> QED
      BY <1>1, <1>3, <3>1, <3>2
  <2>3. Upcoming(position, buffer, taken)' = from
    BY <1>1, <1>4, <1>5, <2>1, <2>2 DEF Upcoming
  <2>4. /\ position' \in Tokens /\ position' = After(text, F[Len(F)])
        /\ F[Len(F)] \in Tokens
    <3>1. F[Len(F)] \in Tokens
      BY <1>1, <1>3, <2>1
    <3>2. CASE Len(F) = Len(buffer)
      <4>1. taken < Len(buffer) /\ position' = position
        BY <1>1, <1>4, <2>1, <3>2
      <4>2. F[Len(F)] = buffer[Len(buffer)]
        BY <1>1, <1>3, <3>2, <4>1
      <4> QED
        BY <1>1, <1>5, <3>1, <4>1, <4>2
    <3>3. CASE Len(F) # Len(buffer)
      <4>1. position' = After(text, F[Len(F)])
        BY <1>4, <2>1, <3>3
      <4> QED
        BY <1>2, <3>1, <4>1
    <3> QED
      BY <3>1, <3>2, <3>3
  <2>5. Ahead(text, position, buffer, taken)'
    BY <1>1, <1>4, <2>1, <2>2, <2>3, <2>4 DEF Ahead, After
  <2>6. \/ answer'.token = from + n - 1 /\ from + n - 1 <= end
        \/ answer'.token = None /\ (from + n - 1 > end \/ from = end)
    <3>1. CASE index <= Len(F)
      <4>1. F[index] = from + n - 1 /\ F[index] \in Tokens
        <5>1. index \in taken + 1 .. Len(F) /\ index \in 1 .. Len(F)
          BY <1>1, <1>3, <3>1
        <5>2. F[index] \in Tokens /\ F[index] = from + index - taken - 1
          BY <1>3, <2>2, <5>1
        <5> QED
          BY <1>1, <1>5, <5>2 DEF index
      <4>2. answer'.token = F[index]
        BY <1>4, <2>1, <3>1
      <4> QED
        BY <1>2, <4>1, <4>2
    <3>2. CASE index > Len(F)
      <4>1. F[Len(F)] = end /\ F[Len(F)] = from + Len(F) - taken - 1
        <5>1. /\ Len(F) = Len(buffer) + end - position + 1 /\ index > Len(buffer)
              /\ Len(F) \in taken + 1 .. Len(F) /\ position \in Nat /\ position <= end
              /\ Len(F) \in Len(buffer) + 1 .. Len(F)
          <6>1. position \in Nat /\ position <= end /\ end \in Nat /\ index \in Nat
            BY <1>1, <1>2
          <6>2. Len(F) \in Nat /\ Len(buffer) <= Len(F) /\ taken + 1 <= Len(F) /\ taken \in Nat
            BY <1>1, <1>3, <2>1
          <6>3. Len(F) = Len(buffer) + end - position + 1
            BY <1>1, <1>3, <3>2, <6>1, <6>2
          <6> QED
            BY <1>1, <3>2, <6>1, <6>2, <6>3
        <5>2. F[Len(F)] = position + Len(F) - Len(buffer) - 1
          BY <1>3, <5>1
        <5>3. F[Len(F)] = from + Len(F) - taken - 1
          BY <2>2, <5>1
        <5>4. position + Len(F) - Len(buffer) - 1 = end
          <6>1. end \in Int /\ Len(buffer) \in Int /\ position \in Int
            BY <1>1, <1>2
          <6> QED
            BY <5>1, <6>1
        <5> QED
          BY <5>2, <5>3, <5>4
      <4>2. from + n - 1 > end
        BY <1>1, <1>2, <1>3, <1>5, <3>2, <4>1 DEF index
      <4>3. answer'.token = None
        BY <1>1, <1>3, <1>4, <2>1, <3>2
      <4> QED
        BY <4>2, <4>3
    <3> QED
      BY <1>1, <1>3, <3>1, <3>2
  <2> QED
    BY <1>1, <1>3, <2>1, <2>3, <2>4, <2>5, <2>6
<1>9. Goal
  BY <1>7, <1>8
<1>10. PeekExact'
  BY <1>4, <1>9 DEF PeekExact, end
<1> QED
  BY <1>1, <1>9, <1>10 DEF from

\* What an error of peek_ahead leaves: the readable tokens before the bad one
LEMMA PeekFailsStep ==
    ASSUME IInv, NEW n \in Nat, PeekFails(n)
    PROVE  /\ buffer' \in Seq(Tokens) /\ position' \in Tokens
           /\ taken \in 0 .. Len(buffer')
           /\ failed' = TRUE /\ panic' = TRUE
<1> DEFINE index == taken + n
           bad   == {i \in Scanned(index) : ~Good(text, i)}
           first == CHOOSE i \in bad : \A j \in bad : i <= j
           new   == [i \in 1 .. first - position |-> position + i - 1]
<1>1. /\ TypeOK /\ panic = FALSE /\ index \in Nat
      /\ Len(buffer) \in Nat /\ taken \in 0 .. Len(buffer) /\ position \in Tokens
      /\ buffer \in Seq(Tokens)
  BY DEF IInv, TypeOK, InOrder, PeekFails
<1>2. /\ Eof(text) \in Nat /\ Tokens = 1 .. Eof(text) /\ Good(text, Eof(text))
      /\ \A i \in Tokens : i \in Nat /\ 1 <= i /\ i <= Eof(text)
      /\ \A i \in Tokens : i # Eof(text) => i + 1 \in Tokens
  BY <1>1, TextFacts DEF TypeOK
<1>3. \A i \in Scanned(index) : i \in Tokens /\ position <= i
  <2>1. /\ Filled(index) \in Seq(Tokens) /\ Len(Filled(index)) \in Nat
        /\ \A i \in Len(buffer) + 1 .. Len(Filled(index)) :
              Filled(index)[i] = position + i - Len(buffer) - 1
    BY <1>1, FilledFacts
  <2>2. ASSUME NEW i \in Len(buffer) + 1 .. Len(Filled(index))
        PROVE  Filled(index)[i] \in Tokens /\ position <= Filled(index)[i]
    <3>1. i \in 1 .. Len(Filled(index)) /\ position \in Nat /\ i \in Nat /\ i >= Len(buffer) + 1
      BY <1>1, <1>2, <2>1
    <3>2. Filled(index)[i] = position + i - Len(buffer) - 1
      BY <2>1
    <3> QED
      BY <1>1, <2>1, <3>1, <3>2
  <2> QED
    BY <2>2 DEF Scanned
<1>4. /\ bad # {} /\ failed' = ~panic /\ panic' = TRUE /\ taken' = taken
      /\ buffer' = buffer \o new /\ position' \in {first, first + 1}
  BY DEF PeekFails
<1>5. first \in bad
  <2>1. bad \in SUBSET Nat
    BY <1>2, <1>3
  <2>2. \E i \in bad : \A j \in bad : i <= j
    BY <1>4, <2>1, LeastToken
  <2> QED
    BY <2>2
<1>6. first \in Tokens /\ position <= first /\ first # Eof(text) /\ first + 1 \in Tokens
  BY <1>2, <1>3, <1>5
<1> HIDE DEF first
<1>7. new \in Seq(Tokens)
  <2>1. first - position \in Nat /\ position \in Nat /\ first \in Nat /\ 1 <= position
    BY <1>1, <1>2, <1>6
  <2>2. \A i \in 1 .. first - position : position + i - 1 \in Tokens
    <3>1. first <= Eof(text)
      BY <1>2, <1>6
    <3> QED
      BY <1>2, <2>1, <3>1
  <2> QED
    BY <2>1, <2>2
<1> HIDE DEF new
<1>8. buffer' \in Seq(Tokens) /\ Len(buffer') = Len(buffer) + Len(new) /\ Len(new) \in Nat
  BY <1>1, <1>4, <1>7, ConcatProperties
<1>9. failed' = TRUE
  BY <1>1, <1>4
<1>10. position' \in Tokens
  BY <1>4, <1>6
<1>11. taken \in 0 .. Len(buffer')
  BY <1>1, <1>8
<1> QED
  BY <1>4, <1>8, <1>9, <1>10, <1>11

----------------------------------------------------------------------------
(* The invariant *)

LEMMA InitInv ==
    Init => IInv /\ PeekExact
<1> SUFFICES ASSUME Init PROVE IInv /\ PeekExact
  OBVIOUS
<1>1. text \in Texts /\ Eof(text) \in Nat /\ Tokens = 1 .. Eof(text) /\ Eof(text) = Len(text) + 1 /\ Len(text) \in Nat
  BY TextFacts DEF Init
<1>2. buffer = <<>> /\ Len(buffer) = 0 /\ buffer \in Seq(Tokens) /\ taken = 0
  BY EmptySeq DEF Init
<1>3. TypeOK
  <2>1. position \in Tokens
    BY <1>1 DEF Init
  <2>2. taken \in 0 .. Len(buffer)
    BY <1>2
  <2> QED
    BY <1>2, <2>1, <2>2 DEF TypeOK, Init
<1>4. InOrder
  BY <1>1, <1>2 DEF InOrder, Ahead, Init
<1>5. SavedInOrder
  BY DEF SavedInOrder, Init
<1> QED
  BY <1>3, <1>4, <1>5 DEF IInv, PeekExact, Init

\* A step that makes no checkpoint keeps those that there are
LEMMA SavedKept ==
    ASSUME IInv, UNCHANGED <<text, saved>>
    PROVE  /\ SavedInOrder' /\ saved' \subseteq Checkpoint' /\ text' \in Texts
           /\ Tokens' = Tokens
<1>1. SavedInOrder /\ saved \subseteq Checkpoint /\ text \in Texts
  BY DEF IInv, TypeOK
<1>2. Tokens' = Tokens
  BY DEF Tokens
<1>3. Checkpoint' = Checkpoint
  BY <1>2 DEF Checkpoint
<1> QED
  BY <1>1, <1>2, <1>3 DEF SavedInOrder

\* Every step keeps the invariant
LEMMA NextInv ==
    IInv /\ [Next]_vars => IInv'
<1> SUFFICES ASSUME IInv, [Next]_vars PROVE IInv'
  OBVIOUS
<1>0. TypeOK /\ InOrder /\ SavedInOrder
  BY DEF IInv
<1>1. CASE Advance
  <2>1. UNCHANGED <<text, buffer, saved>> /\ ~failed /\ NextToken /\ previous' = current
    BY <1>1 DEF Advance
  <2>2. /\ position' \in Tokens /\ current' \in Tokens \cup {None}
        /\ taken' \in 0 .. Len(buffer) /\ panic' \in BOOLEAN /\ failed' \in BOOLEAN
        /\ InOrder'
    BY <2>1, NextTokenStep
  <2> QED
    BY <1>0, <2>1, <2>2, SavedKept DEF IInv, TypeOK
<1>2. CASE Consume
  <2>1. UNCHANGED <<text, buffer, saved>> /\ ~failed /\ NextToken /\ previous' = None
    BY <1>2 DEF Consume
  <2>2. /\ position' \in Tokens /\ current' \in Tokens \cup {None}
        /\ taken' \in 0 .. Len(buffer) /\ panic' \in BOOLEAN /\ failed' \in BOOLEAN
        /\ InOrder'
    BY <2>1, NextTokenStep
  <2> QED
    BY <1>0, <2>1, <2>2, SavedKept DEF IInv, TypeOK
<1>3. CASE ConsumeFails
  <2>1. UNCHANGED <<text, position, previous, current, buffer, taken, panic, saved>> /\ failed' = TRUE
    BY <1>3 DEF ConsumeFails, parserVars
  <2>2. InOrder'
    BY <2>1 DEF InOrder
  <2> QED
    BY <1>0, <2>1, <2>2, SavedKept DEF IInv, TypeOK
<1>4. CASE PeekCurrent
  <2>1. UNCHANGED <<text, position, previous, current, buffer, taken, panic, saved, failed>>
    BY <1>4 DEF PeekCurrent, parserVars
  <2>2. InOrder'
    BY <1>0, <2>1 DEF InOrder, Ahead, Upcoming
  <2> QED
    BY <1>0, <2>1, <2>2, SavedKept DEF IInv, TypeOK
<1>5. ASSUME NEW n \in 1 .. MaxAhead, Peek(n)
      PROVE  IInv'
  <2>1. n \in Nat /\ n > 0
    BY <1>5, BoundsAssumption
  <2>2. UNCHANGED <<text, previous, current, taken, panic, saved, failed>> /\ ~failed
    BY <1>5 DEF Peek
  <2>3. /\ buffer' \in Seq(Tokens) /\ position' \in Tokens /\ taken \in 0 .. Len(buffer')
        /\ Ahead(text, position, buffer, taken)'
    BY <1>5, <2>1, PeekStep
  <2>4. InOrder'
    BY <1>0, <2>2, <2>3 DEF InOrder
  <2> QED
    BY <1>0, <2>2, <2>3, <2>4, SavedKept DEF IInv, TypeOK
<1>6. ASSUME NEW n \in 1 .. MaxAhead, PeekFails(n)
      PROVE  IInv'
  <2>1. n \in Nat
    BY <1>6, BoundsAssumption
  <2>2. UNCHANGED <<text, previous, current, taken, saved>>
    BY <1>6 DEF PeekFails
  <2>3. /\ buffer' \in Seq(Tokens) /\ position' \in Tokens /\ taken \in 0 .. Len(buffer')
        /\ failed' = TRUE /\ panic' = TRUE
    BY <1>6, <2>1, PeekFailsStep
  <2>4. InOrder'
    BY <2>3 DEF InOrder
  <2> QED
    BY <1>0, <2>2, <2>3, <2>4, SavedKept DEF IInv, TypeOK
<1>7. CASE Save
  <2>1. /\ UNCHANGED <<text, position, previous, current, buffer, taken, panic, failed>>
        /\ ~failed /\ saved' = saved \cup {Saved}
    BY <1>7 DEF Save, parserVars
  <2>2. /\ Tokens' = Tokens /\ Checkpoint' = Checkpoint
    BY <2>1 DEF Tokens, Checkpoint
  <2>3. InOrder'
    BY <1>0, <2>1 DEF InOrder, Ahead, Upcoming
  <2>4. Saved \in Checkpoint
    BY <1>0 DEF TypeOK, Checkpoint, Saved
  <2>5. ~Saved.panic /\ Saved.taken <= Len(Saved.buffer)
        /\ Ahead(text, Saved.position, Saved.buffer, Saved.taken)
    BY <1>0, <2>1 DEF Saved, InOrder, TypeOK
  <2>6. SavedInOrder'
    BY <1>0, <2>1, <2>5 DEF SavedInOrder
  <2> QED
    BY <1>0, <2>1, <2>2, <2>3, <2>4, <2>6 DEF IInv, TypeOK
<1>8. CASE Restore
  <2>1. PICK c \in saved : Restored(c)
    BY <1>8 DEF Restore
  <2>2. UNCHANGED <<text, saved>> /\ failed' = FALSE
    BY <1>8 DEF Restore
  <2>3. /\ c \in Checkpoint /\ ~c.panic /\ c.taken <= Len(c.buffer)
        /\ Ahead(text, c.position, c.buffer, c.taken)
    BY <1>0 DEF TypeOK, SavedInOrder
  <2>4. /\ position' \in Tokens /\ previous' \in Tokens \cup {None}
        /\ current' \in Tokens \cup {None} /\ buffer' \in Seq(Tokens)
        /\ taken' \in 0 .. Len(buffer') /\ panic' \in BOOLEAN
    BY <2>1, <2>3 DEF Restored, Checkpoint
  <2>5. InOrder'
    BY <2>1, <2>2, <2>3 DEF InOrder, Restored
  <2> QED
    BY <1>0, <2>2, <2>4, <2>5, SavedKept DEF IInv, TypeOK
<1>9. CASE UNCHANGED vars
  <2>1. UNCHANGED <<text, position, previous, current, buffer, taken, panic, saved, failed>>
    BY <1>9 DEF vars, parserVars
  <2>2. InOrder'
    BY <1>0, <2>1 DEF InOrder, Ahead, Upcoming
  <2> QED
    BY <1>0, <2>1, <2>2, SavedKept DEF IInv, TypeOK
<1> QED
  BY <1>1, <1>2, <1>3, <1>4, <1>5, <1>6, <1>7, <1>8, <1>9 DEF Next

\* Nothing is scanned twice or left out, at the place of the parser and at every
\* checkpoint: what the two results below rest on
THEOREM ParserInvariant ==
    Spec => []IInv
<1>1. Init => IInv
  BY InitInv
<1> QED
  BY <1>1, NextInv, PTL DEF Spec

----------------------------------------------------------------------------
(* peek_ahead *)

\* peek_ahead(n) answers the n-th of the tokens that advance will give, whatever was
\* buffered, consumed, saved and gone back to before
THEOREM PeekIsExact ==
    Spec => []PeekExact
<1>1. Init => PeekExact
  BY InitInv
<1>2. IInv /\ PeekExact /\ [Next]_vars => PeekExact'
  <2> SUFFICES ASSUME IInv, PeekExact, [Next]_vars PROVE PeekExact'
    OBVIOUS
  <2>1. ASSUME text' = text, answer' = answer PROVE PeekExact'
    BY <2>1 DEF PeekExact, Eof
  <2>2. CASE PeekCurrent
    BY <2>2 DEF PeekCurrent, PeekExact
  <2>3. ASSUME NEW n \in 1 .. MaxAhead, Peek(n)
        PROVE  PeekExact'
    <3>1. n \in Nat /\ n > 0
      BY <2>3, BoundsAssumption
    <3> QED
      BY <2>3, <3>1, PeekStep
  <2> QED
    BY <2>1, <2>2, <2>3
       DEF Next, Advance, Consume, ConsumeFails, PeekFails, Save, Restore, vars
<1> QED
  BY <1>1, <1>2, ParserInvariant, PTL DEF Spec

----------------------------------------------------------------------------
(* The tokens are given in order *)

\* A token that is given is a Read of the stream, an error its Fail
LEMMA GivesToken ==
    ASSUME IInv, ~failed, NextToken, UNCHANGED <<text, buffer, saved>>
    PROVE  Stream!Read \/ Stream!Fail
<1>1. /\ failed' \in BOOLEAN
      /\ ~failed' => /\ current' = Upcoming(position, buffer, taken)
                     /\ Good(text, current')
                     /\ Upcoming(position, buffer, taken)' = After(text, current')
  BY NextTokenStep
<1>2. UNCHANGED text /\ UNCHANGED {<<c.current, Upcoming(c.position, c.buffer, c.taken)>> : c \in saved}
  OBVIOUS
<1>3. CASE ~failed'
  <2>1. failed = FALSE /\ failed' = FALSE
    BY <1>1, <1>3 DEF IInv, TypeOK
  <2> QED
    BY <1>1, <1>2, <2>1 DEF Stream!Read, Stream!Readable, Stream!Eof, Good, After, Eof
<1>4. CASE failed'
  BY <1>2, <1>4 DEF Stream!Fail
<1> QED
  BY <1>3, <1>4

\* The parser implements the stream of tokens: nothing is lost, given twice or out of
\* order, whatever was looked at ahead, saved and gone back to
THEOREM ParserGivesTokensInOrder ==
    Spec => TokensInOrder
<1>1. Init => Stream!Init
  BY EmptySeq DEF Init, Stream!Init, Upcoming, None
<1>2. IInv /\ [Next]_vars => [Stream!Next]_Stream!vars
  <2> SUFFICES ASSUME IInv, [Next]_vars PROVE [Stream!Next]_Stream!vars
    OBVIOUS
  <2> USE DEF Stream!Next
  <2>1. CASE Advance
    BY <2>1, GivesToken DEF Advance
  <2>2. CASE Consume
    BY <2>2, GivesToken DEF Consume
  <2>3. CASE ConsumeFails
    BY <2>3 DEF ConsumeFails, Stream!Fail
  <2>4. CASE PeekCurrent
    BY <2>4 DEF PeekCurrent, parserVars, Stream!vars
  <2>5. ASSUME NEW n \in 1 .. MaxAhead, Peek(n)
        PROVE  UNCHANGED Stream!vars
    <3>1. n \in Nat /\ n > 0
      BY <2>5, BoundsAssumption
    <3>2. Upcoming(position, buffer, taken)' = Upcoming(position, buffer, taken)
      BY <2>5, <3>1, PeekStep
    <3> QED
      BY <2>5, <3>2 DEF Peek, Stream!vars
  <2>6. ASSUME NEW n \in 1 .. MaxAhead, PeekFails(n)
        PROVE  Stream!Fail
    <3>1. n \in Nat
      BY <2>6, BoundsAssumption
    <3>2. failed' = TRUE
      BY <2>6, <3>1, PeekFailsStep
    <3> QED
      BY <2>6, <3>2 DEF PeekFails, Stream!Fail
  <2>7. CASE Save
    <3>1. /\ UNCHANGED <<text, position, current, buffer, taken, failed>>
          /\ ~failed /\ saved' = saved \cup {Saved}
      BY <2>7 DEF Save, parserVars
    <3>2. <<Saved.current, Upcoming(Saved.position, Saved.buffer, Saved.taken)>>
             = <<current, Upcoming(position, buffer, taken)>>
      BY DEF Saved
    <3>3. Stream!Mark
      BY <3>1, <3>2 DEF Stream!Mark, Upcoming
    <3> QED
      BY <3>3
  <2>8. CASE Restore
    <3>1. PICK c \in saved : Restored(c)
      BY <2>8 DEF Restore
    <3>2. <<current', Upcoming(position, buffer, taken)'>>
             = <<c.current, Upcoming(c.position, c.buffer, c.taken)>>
      BY <3>1 DEF Restored, Upcoming
    <3> QED
      BY <2>8, <3>2 DEF Restore, Stream!Return
  <2>9. CASE UNCHANGED vars
    BY <2>9 DEF vars, parserVars, Stream!vars, Upcoming
  <2> QED
    BY <2>1, <2>2, <2>3, <2>4, <2>5, <2>6, <2>7, <2>8, <2>9 DEF Next
<1> QED
  BY <1>1, <1>2, ParserInvariant, PTL DEF Spec, TokensInOrder, Stream!Spec

=============================================================================
