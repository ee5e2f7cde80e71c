-------------------------- MODULE RootStackProofs --------------------------
(***************************************************************************)
(* Proofs about RootStack, for any number of tokens and open brackets.     *)
(*                                                                         *)
(* That a pop can take the entry of somebody else makes the invariant a    *)
(* statement about positions: the entries of the brackets in progress sit  *)
(* in the order of the brackets, so that whatever is on top of the stack   *)
(* is never below the entry of the innermost one.                          *)
(***************************************************************************)
EXTENDS RootStack, SequenceTheorems, FiniteSetTheorems, TLAPS

Root == Token \cup {Nothing}

\* Every bracket's entry is where it was put
InPlace ==
    \A i \in 1 .. Len(open) :
        /\ open[i].at \in 1 .. Len(values)
        /\ values[open[i].at] = open[i].token
        /\ open[i].pair =>
              /\ open[i].upAt \in 1 .. Len(upvalues)
              /\ upvalues[open[i].upAt] = open[i].token

\* Entries lie in the order of their brackets
InOrder ==
    \A i, j \in 1 .. Len(open) : i < j =>
        /\ open[i].at < open[j].at
        /\ open[i].pair /\ open[j].pair => open[i].upAt < open[j].upAt

\* A token is used once, and only finitely many are permanent
Tokens == IsFiniteSet(permanent) /\ permanent \cap unused = {}

IInv == TypeOK /\ InPlace /\ InOrder /\ Tokens /\ LeaksAccounted

----------------------------------------------------------------------------
(* Sequences. *)

LEMMA FrontProperties ==
    ASSUME NEW S, NEW s \in Seq(S), s # <<>>
    PROVE  /\ Len(s) \in Nat /\ Len(s) > 0
           /\ Front(s) \in Seq(S)
           /\ Len(Front(s)) = Len(s) - 1
           /\ \A i \in 1 .. Len(s) - 1 : Front(s)[i] = s[i]
<1> DEFINE n == Len(s) - 1
<1>1. Len(s) \in Nat /\ Len(s) > 0
  BY EmptySeq
<1>2. 1 \in Int /\ n \in Int /\ \A i \in 1 .. n : s[i] \in S
  BY <1>1
<1>3. n = Len(s) - 1 /\ Front(s) = SubSeq(s, 1, n)
  BY DEF Front
<1> HIDE DEF n
<1>4. /\ SubSeq(s, 1, n) \in Seq(S)
      /\ Len(SubSeq(s, 1, n)) = IF 1 <= n THEN n - 1 + 1 ELSE 0
      /\ \A i \in 1 .. n - 1 + 1 : SubSeq(s, 1, n)[i] = s[1 + i - 1]
  BY <1>2, SubSeqProperties
<1> QED
  BY <1>1, <1>2, <1>3, <1>4

LEMMA AppendKeeps ==
    ASSUME NEW S, NEW s \in Seq(S), NEW e \in S
    PROVE  /\ Len(s) \in Nat
           /\ Append(s, e) \in Seq(S)
           /\ Len(Append(s, e)) = Len(s) + 1
           /\ \A i \in 1 .. Len(s) : Append(s, e)[i] = s[i]
           /\ Append(s, e)[Len(s) + 1] = e
BY AppendProperties

----------------------------------------------------------------------------
(* Initial states and steps. *)

LEMMA InitInv == Init => IInv
<1> SUFFICES ASSUME Init PROVE IInv
  OBVIOUS
<1>1. TypeOK
  BY DEF Init, TypeOK
<1>2. InPlace /\ InOrder
  BY DEF Init, InPlace, InOrder
<1>3. Tokens
  BY FS_EmptySet DEF Init, Tokens
<1>4. LeaksAccounted
  BY FS_EmptySet DEF Init, LeaksAccounted
<1> QED
  BY <1>1, <1>2, <1>3, <1>4 DEF IInv

LEMMA OpenStep ==
    ASSUME IInv, NEW t \in Token, NEW pair \in BOOLEAN, OpenBracket(t, pair)
    PROVE  IInv'
<1> DEFINE b == [token |-> t, pair |-> pair, at |-> Len(values) + 1, upAt |-> Len(upvalues) + 1]
<1>1. /\ values \in Seq(Root) /\ upvalues \in Seq(Root) /\ open \in Seq(Bracket)
      /\ t \in Root /\ Len(values) \in Nat /\ Len(upvalues) \in Nat /\ Len(open) \in Nat
  BY DEF IInv, TypeOK, Root
<1>2. b \in Bracket
  BY <1>1 DEF Bracket
<1>3. /\ values' \in Seq(Root) /\ Len(values') = Len(values) + 1
      /\ \A i \in 1 .. Len(values) : values'[i] = values[i]
      /\ values'[Len(values) + 1] = t
  BY <1>1, AppendKeeps DEF OpenBracket
<1>4. /\ upvalues' \in Seq(Root)
      /\ Len(upvalues') = Len(upvalues) + (IF pair THEN 1 ELSE 0)
      /\ \A i \in 1 .. Len(upvalues) : upvalues'[i] = upvalues[i]
      /\ pair => upvalues'[Len(upvalues) + 1] = t
  BY <1>1, AppendKeeps DEF OpenBracket
<1>5. open' = Append(open, b)
  BY DEF OpenBracket
<1>6. b.token = t /\ b.pair = pair /\ b.at = Len(values) + 1 /\ b.upAt = Len(upvalues) + 1
  OBVIOUS
<1> HIDE DEF b
<1>7. /\ open' \in Seq(Bracket) /\ Len(open') = Len(open) + 1
      /\ \A i \in 1 .. Len(open) : open'[i] = open[i]
      /\ open'[Len(open) + 1] = b
  BY <1>1, <1>2, <1>5, AppendKeeps
<1>8. TypeOK'
  BY <1>3, <1>4, <1>7 DEF IInv, TypeOK, OpenBracket, Root
<1>9. InPlace'
  <2> SUFFICES ASSUME NEW i \in 1 .. Len(open')
               PROVE  /\ open'[i].at \in 1 .. Len(values')
                      /\ values'[open'[i].at] = open'[i].token
                      /\ open'[i].pair =>
                            /\ open'[i].upAt \in 1 .. Len(upvalues')
                            /\ upvalues'[open'[i].upAt] = open'[i].token
    BY DEF InPlace
  <2>1. CASE i \in 1 .. Len(open)
    <3>1. /\ open[i].at \in 1 .. Len(values) /\ values[open[i].at] = open[i].token
          /\ open[i].pair =>
                /\ open[i].upAt \in 1 .. Len(upvalues)
                /\ upvalues[open[i].upAt] = open[i].token
      BY <2>1 DEF IInv, InPlace
    <3>2. open'[i] = open[i]
      BY <1>7, <2>1
    <3> QED
      BY <1>1, <1>3, <1>4, <3>1, <3>2
  <2>2. CASE i = Len(open) + 1
    BY <1>1, <1>3, <1>4, <1>6, <1>7, <2>2
  <2> QED
    BY <1>1, <1>7, <2>1, <2>2
<1>10. InOrder'
  <2> SUFFICES ASSUME NEW i \in 1 .. Len(open'), NEW j \in 1 .. Len(open'), i < j
               PROVE  /\ open'[i].at < open'[j].at
                      /\ open'[i].pair /\ open'[j].pair => open'[i].upAt < open'[j].upAt
    BY DEF InOrder
  <2>1. i \in 1 .. Len(open) /\ open'[i] = open[i]
    BY <1>1, <1>7
  <2>2. CASE j \in 1 .. Len(open)
    BY <1>7, <2>1, <2>2 DEF IInv, InOrder
  <2>3. CASE j = Len(open) + 1
    BY <1>1, <1>6, <1>7, <2>1, <2>3 DEF IInv, InPlace
  <2> QED
    BY <1>1, <1>7, <2>2, <2>3
<1>11. Tokens'
  BY DEF IInv, Tokens, OpenBracket
<1>12. LeaksAccounted'
  <2>1. Cardinality(permanent) \in Nat /\ abandoned \in Nat
    BY FS_CardinalityType DEF IInv, Tokens, TypeOK
  <2>2. permanent' = permanent /\ abandoned' = abandoned
    BY DEF OpenBracket
  <2> QED
    BY <1>1, <1>3, <1>7, <2>1, <2>2 DEF IInv, LeaksAccounted
<1> QED
  BY <1>8, <1>9, <1>10, <1>11, <1>12 DEF IInv

\* What closing and abandoning have in common: the innermost bracket ends and
\* the stacks keep at least what is below its entries
LEMMA EndStep ==
    ASSUME IInv, open # <<>>, open' = Front(open),
           values' \in Seq(Root), upvalues' \in Seq(Root),
           Len(values') \in {Len(values), Len(values) - 1},
           Len(upvalues') \in {Len(upvalues), Len(upvalues) - 1},
           \A i \in 1 .. Len(values') : values'[i] = values[i],
           \A i \in 1 .. Len(upvalues') : upvalues'[i] = upvalues[i],
           Len(upvalues') # Len(upvalues) => open[Len(open)].pair
    PROVE  open' \in Seq(Bracket) /\ InPlace' /\ InOrder'
<1>1. /\ values \in Seq(Root) /\ upvalues \in Seq(Root) /\ open \in Seq(Bracket)
      /\ Len(values) \in Nat /\ Len(upvalues) \in Nat
  BY DEF IInv, TypeOK, Root
<1>2. /\ Len(open) \in Nat /\ Len(open) > 0 /\ open' \in Seq(Bracket)
      /\ Len(open') = Len(open) - 1
      /\ \A i \in 1 .. Len(open) - 1 : open'[i] = open[i]
  BY <1>1, FrontProperties
<1>3. Len(open) \in 1 .. Len(open)
  BY <1>2
<1>4. \A i \in 1 .. Len(open) : open[i] \in Bracket
  BY <1>1
<1>5. InPlace'
  <2> SUFFICES ASSUME NEW i \in 1 .. Len(open) - 1
               PROVE  /\ open[i].at \in 1 .. Len(values')
                      /\ values'[open[i].at] = open[i].token
                      /\ open[i].pair =>
                            /\ open[i].upAt \in 1 .. Len(upvalues')
                            /\ upvalues'[open[i].upAt] = open[i].token
    BY <1>2 DEF InPlace
  <2>1. i \in 1 .. Len(open) /\ i < Len(open)
    BY <1>2
  <2>2. /\ open[i].at \in Nat /\ open[Len(open)].at \in Nat
        /\ open[i].upAt \in Nat /\ open[Len(open)].upAt \in Nat
    BY <1>3, <1>4, <2>1 DEF Bracket
  <2>3. /\ open[i].at \in 1 .. Len(values) /\ values[open[i].at] = open[i].token
        /\ open[i].pair =>
              /\ open[i].upAt \in 1 .. Len(upvalues)
              /\ upvalues[open[i].upAt] = open[i].token
    BY <2>1 DEF IInv, InPlace
  <2>4. open[i].at < open[Len(open)].at /\ open[Len(open)].at <= Len(values)
    BY <1>3, <2>1 DEF IInv, InPlace, InOrder
  <2>5. /\ open[i].at \in 1 .. Len(values')
        /\ values'[open[i].at] = open[i].token
    BY <1>1, <2>2, <2>3, <2>4
  <2>6. ASSUME open[i].pair
        PROVE  open[i].upAt \in 1 .. Len(upvalues') /\ upvalues'[open[i].upAt] = open[i].token
    <3>1. CASE Len(upvalues') = Len(upvalues)
      BY <2>3, <2>6, <3>1
    <3>2. CASE Len(upvalues') # Len(upvalues)
      <4>1. open[Len(open)].pair
        BY <3>2
      <4>2. /\ open[i].upAt < open[Len(open)].upAt
            /\ open[Len(open)].upAt <= Len(upvalues)
        BY <1>3, <2>1, <2>6, <4>1 DEF IInv, InPlace, InOrder
      <4> QED
        BY <1>1, <2>2, <2>3, <2>6, <4>2
    <3> QED
      BY <3>1, <3>2
  <2> QED
    BY <2>5, <2>6
<1>6. InOrder'
  BY <1>2 DEF IInv, InOrder
<1> QED
  BY <1>2, <1>5, <1>6

LEMMA CloseStep ==
    ASSUME IInv, CloseBracket
    PROVE  IInv'
<1>1. /\ values \in Seq(Root) /\ upvalues \in Seq(Root) /\ open \in Seq(Bracket)
      /\ Len(values) \in Nat /\ Len(upvalues) \in Nat /\ open # <<>>
      /\ open' = Front(open)
  BY DEF IInv, TypeOK, Root, CloseBracket
<1>2. Len(open) \in Nat /\ Len(open) > 0 /\ Len(open') = Len(open) - 1
  BY <1>1, FrontProperties
<1>3. /\ Len(values) > 0 /\ values # <<>>
      /\ open[Len(open)].pair => Len(upvalues) > 0 /\ upvalues # <<>>
  <2>1. Len(open) \in 1 .. Len(open)
    BY <1>2
  <2>2. /\ open[Len(open)].at \in 1 .. Len(values)
        /\ open[Len(open)].pair => open[Len(open)].upAt \in 1 .. Len(upvalues)
    BY <2>1 DEF IInv, InPlace
  <2> QED
    BY <1>1, <2>2, EmptySeq
<1>4. /\ values' \in Seq(Root) /\ Len(values') = Len(values) - 1
      /\ \A i \in 1 .. Len(values') : values'[i] = values[i]
  BY <1>1, <1>3, FrontProperties DEF CloseBracket, Pop
<1>5. /\ upvalues' \in Seq(Root)
      /\ Len(upvalues') = Len(upvalues) - (IF open[Len(open)].pair THEN 1 ELSE 0)
      /\ \A i \in 1 .. Len(upvalues') : upvalues'[i] = upvalues[i]
  <2>1. CASE open[Len(open)].pair
    BY <1>1, <1>3, <2>1, FrontProperties DEF CloseBracket, Pop
  <2>2. CASE ~open[Len(open)].pair
    BY <1>1, <2>2 DEF CloseBracket
  <2> QED
    BY <2>1, <2>2
<1>6. open' \in Seq(Bracket) /\ InPlace' /\ InOrder'
  BY <1>1, <1>4, <1>5, EndStep
<1>7. TypeOK' /\ Tokens'
  BY <1>4, <1>5, <1>6 DEF IInv, TypeOK, Tokens, CloseBracket, Root
<1>8. LeaksAccounted'
  <2>1. Cardinality(permanent) \in Nat /\ abandoned \in Nat
    BY FS_CardinalityType DEF IInv, Tokens, TypeOK
  <2>2. permanent' = permanent /\ abandoned' = abandoned
    BY DEF CloseBracket
  <2> QED
    BY <1>1, <1>2, <1>4, <2>1, <2>2 DEF IInv, LeaksAccounted
<1> QED
  BY <1>6, <1>7, <1>8 DEF IInv

LEMMA AbandonStep ==
    ASSUME IInv, AbandonBracket
    PROVE  IInv'
<1>1. /\ values \in Seq(Root) /\ upvalues \in Seq(Root) /\ open \in Seq(Bracket)
      /\ open # <<>> /\ open' = Front(open)
      /\ values' = values /\ upvalues' = upvalues
  BY DEF IInv, TypeOK, Root, AbandonBracket
<1>2. Len(open) \in Nat /\ Len(open') = Len(open) - 1
  BY <1>1, FrontProperties
<1>3. open' \in Seq(Bracket) /\ InPlace' /\ InOrder'
  BY <1>1, EndStep
<1>4. TypeOK' /\ Tokens'
  BY <1>1, <1>3 DEF IInv, TypeOK, Tokens, AbandonBracket
<1>5. LeaksAccounted'
  <2>1. Cardinality(permanent) \in Nat /\ abandoned \in Nat
    BY FS_CardinalityType DEF IInv, Tokens, TypeOK
  <2>2. permanent' = permanent /\ abandoned' = abandoned + 1
    BY DEF AbandonBracket
  <2> QED
    BY <1>1, <1>2, <2>1, <2>2 DEF IInv, LeaksAccounted
<1> QED
  BY <1>3, <1>4, <1>5 DEF IInv

LEMMA PermanentStep ==
    ASSUME IInv, NEW t \in Token, PushPermanent(t)
    PROVE  IInv'
<1>1. /\ values \in Seq(Root) /\ upvalues \in Seq(Root) /\ open \in Seq(Bracket)
      /\ Len(values) \in Nat /\ Len(upvalues) \in Nat /\ Len(open) \in Nat
      /\ t \in Root /\ Nothing \in Root /\ open' = open
  BY DEF IInv, TypeOK, Root, PushPermanent
<1>2. /\ values' \in Seq(Root) /\ Len(values') = Len(values) + 1
      /\ \A i \in 1 .. Len(values) : values'[i] = values[i]
  BY <1>1, AppendKeeps DEF PushPermanent
<1>3. /\ upvalues' \in Seq(Root) /\ Len(upvalues') = Len(upvalues) + 1
      /\ \A i \in 1 .. Len(upvalues) : upvalues'[i] = upvalues[i]
  BY <1>1, AppendKeeps DEF PushPermanent
<1>4. TypeOK'
  BY <1>1, <1>2, <1>3 DEF IInv, TypeOK, PushPermanent, Root
<1>5. InPlace'
  BY <1>1, <1>2, <1>3 DEF IInv, InPlace
<1>6. InOrder'
  BY <1>1 DEF IInv, InOrder
<1>7. t \notin permanent /\ IsFiniteSet(permanent)
  BY DEF IInv, Tokens, PushPermanent
<1>8. /\ IsFiniteSet(permanent') /\ Cardinality(permanent) \in Nat
      /\ Cardinality(permanent') = Cardinality(permanent) + 1
  BY <1>7, FS_AddElement, FS_CardinalityType DEF PushPermanent
<1>9. Tokens'
  BY <1>8 DEF IInv, Tokens, PushPermanent
<1>10. LeaksAccounted'
  <2>1. abandoned \in Nat /\ abandoned' = abandoned
    BY DEF IInv, TypeOK, PushPermanent
  <2> QED
    BY <1>1, <1>2, <1>8, <2>1 DEF IInv, LeaksAccounted
<1> QED
  BY <1>4, <1>5, <1>6, <1>9, <1>10 DEF IInv

LEMMA StutterStep ==
    ASSUME IInv, UNCHANGED vars
    PROVE  IInv'
BY DEF IInv, TypeOK, InPlace, InOrder, Tokens, LeaksAccounted, vars

LEMMA NextStep == IInv /\ [Next]_vars => IInv'
<1> SUFFICES ASSUME IInv, [Next]_vars PROVE IInv'
  OBVIOUS
<1>1. CASE \E t \in Token, pair \in BOOLEAN : OpenBracket(t, pair)
  BY <1>1, OpenStep
<1>2. CASE CloseBracket
  BY <1>2, CloseStep
<1>3. CASE AbandonBracket
  BY <1>3, AbandonStep
<1>4. CASE \E t \in Token : PushPermanent(t)
  BY <1>4, PermanentStep
<1>5. CASE UNCHANGED vars
  BY <1>5, StutterStep
<1> QED
  BY <1>1, <1>2, <1>3, <1>4, <1>5 DEF Next

LEMMA InvImplies == IInv => OpenBracketsProtected
<1> SUFFICES ASSUME IInv, NEW i \in 1 .. Len(open)
             PROVE  /\ In(open[i].token, values)
                    /\ open[i].pair => In(open[i].token, upvalues)
  BY DEF OpenBracketsProtected
<1> QED
  BY DEF IInv, InPlace, In

----------------------------------------------------------------------------
(* Theorems. *)

\* The strengthened invariant of the two root stacks.
THEOREM Invariance == Spec => []IInv
BY InitInv, NextStep, PTL DEF Spec

\* Stacks, brackets and counters keep their types (push_external_roots,
\* pop_external_roots and the pushes of the natives).
THEOREM TypeCorrect == Spec => []TypeOK
<1>1. IInv => TypeOK
  BY DEF IInv
<1> QED
  BY <1>1, Invariance, PTL

\* However permanent roots and abandoned brackets come in between, the roots of
\* a bracket in progress stay on the stacks until it is closed: run_garbage_collect
\* finds them.
THEOREM BracketsAreProtected == Spec => []OpenBracketsProtected
BY Invariance, InvImplies, PTL

\* external_roots holds one entry for each bracket in progress, each permanent
\* root and each bracket an error left; nothing else makes it grow.
THEOREM LeaksAreAccounted == Spec => []LeaksAccounted
<1>1. IInv => LeaksAccounted
  BY DEF IInv
<1> QED
  BY <1>1, Invariance, PTL

=============================================================================
