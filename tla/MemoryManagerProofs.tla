------------------------ MODULE MemoryManagerProofs ------------------------
(***************************************************************************)
(* The safety of the heap, for every number of handles and contents and    *)
(* every client that follows MemoryManager.                                *)
(*                                                                         *)
(* None of the properties is inductive by itself.  The argument is the     *)
(* one of the tri-colour collectors: during the mark phase a marked cell   *)
(* leads only to cells that are marked or on the work list, and both are   *)
(* contained in every closed set around the roots.  When the list is       *)
(* empty the marked cells are the least such set; sweeping in two steps    *)
(* keeps the tables in line with the cells that are left.  allocated_bytes *)
(* is compared with a sum over the cells, which each step changes by what  *)
(* it counts.                                                              *)
(***************************************************************************)
EXTENDS MemoryManager, FiniteSetTheorems, SequenceTheorems, NaturalsInduction,
        WellFoundedInduction, TLAPS

\* Strings have a content; an import holds its path, a string, among its edges
CellsWellFormed ==
    \A h \in live :
        /\ kind[h] = "String" => text[h] \in Content
        /\ kind[h] = "Import" => /\ path[h] \in refs[h]
                                 /\ path[h] \in live
                                 /\ kind[path[h]] = "String"

\* What mark_upvalue marks has no upvalues of its own
UpvaluesPlain == \A u \in UpvalueRoots \cup UNION {ups[h] : h \in live} : ups[u] = {}

\* Until something is swept the heap has no dangling edge and no dangling root
HeapClosed ==
    pc \in {"client", "mark", "sweep1"} => Roots \subseteq live /\ Closed(live)

\* Marked cells are black, cells on the work list are grey
MarkFrontier ==
    pc = "mark" =>
        /\ marked \subseteq live /\ work \subseteq live
        /\ Roots \subseteq marked \cup work
        /\ \A h \in marked : Values(h) \subseteq marked \cup work /\ ups[h] \subseteq marked

\* Nothing is marked, or will be, that the roots do not lead to
MarkPrecise ==
    pc = "mark" =>
        \A S \in SUBSET Handle : Roots \subseteq S /\ Closed(S) => marked \cup work \subseteq S

\* Sweeping removes unmarked cells only, imports before anything else
SweepFrontier ==
    /\ pc \in {"sweep1", "sweep2"} => marked \subseteq live
    /\ pc = "sweep2" => \A h \in live : kind[h] = "Import" => h \in marked

IInv ==
    /\ TypeOK
    /\ CellsWellFormed
    /\ InterningExact
    /\ ImportTableExact
    /\ UpvaluesPlain
    /\ HeapClosed
    /\ MarkFrontier
    /\ MarkPrecise
    /\ MarkedIsReachable
    /\ SweepFrontier

USE NoneAssumption, KindsAssumption, BoundsAssumption

----------------------------------------------------------------------------
LEMMA ExternalEmpty == InExternal(<<>>) = {}
BY DEF InExternal

LEMMA InitIInv == Init => IInv
<1> SUFFICES ASSUME Init PROVE IInv
  OBVIOUS
<1>a. <<>> \in Seq(SUBSET Handle)
  OBVIOUS
<1>b. kind \in [Handle -> AllKinds] /\ pc \in Phases
  BY DEF Init, AllKinds, Phases
<1>c. threshold \in Nat /\ allocated \in Nat
  BY DEF Init
<1>d. slot \in [Handle -> Handle \cup {None}] /\ text \in [Handle -> Content \cup {None}] /\ size \in [Handle -> Nat]
  BY DEF Init
<1>1. TypeOK
  BY <1>a, <1>b, <1>c, <1>d DEF Init, TypeOK
<1>2. Roots = {}
  BY ExternalEmpty DEF Init, Roots, ValueRoots, UpvalueRoots
<1>3. CellsWellFormed /\ InterningExact /\ ImportTableExact /\ UpvaluesPlain
  BY ExternalEmpty DEF Init, CellsWellFormed, InterningExact, ImportTableExact,
                       UpvaluesPlain, UpvalueRoots
<1>4. HeapClosed
  BY <1>2 DEF Init, HeapClosed, Closed
<1>5. MarkFrontier /\ MarkPrecise /\ MarkedIsReachable /\ SweepFrontier
  BY DEF Init, MarkFrontier, MarkPrecise, MarkedIsReachable, SweepFrontier
<1> QED
  BY <1>1, <1>3, <1>4, <1>5 DEF IInv

----------------------------------------------------------------------------
(* The stacks of external roots. *)

LEMMA ExternalAppend ==
    ASSUME NEW s \in Seq(SUBSET Handle), NEW S \in SUBSET Handle
    PROVE  /\ Append(s, S) \in Seq(SUBSET Handle)
           /\ InExternal(Append(s, S)) = InExternal(s) \cup S
<1>1. Append(s, S) \in Seq(SUBSET Handle)
  OBVIOUS
<1>2. Len(Append(s, S)) = Len(s) + 1
  OBVIOUS
<1>3. \A i \in 1 .. Len(s) : Append(s, S)[i] = s[i]
  OBVIOUS
<1>4. Append(s, S)[Len(s) + 1] = S
  OBVIOUS
<1>5. Len(s) \in Nat
  OBVIOUS
<1>6. \A x : x \in InExternal(Append(s, S)) <=> x \in InExternal(s) \/ x \in S
  BY <1>2, <1>3, <1>4, <1>5 DEF InExternal
<1> QED
  BY <1>1, <1>6

LEMMA ExternalPop ==
    ASSUME NEW s \in Seq(SUBSET Handle)
    PROVE  /\ AllButLast(s) \in Seq(SUBSET Handle)
           /\ InExternal(AllButLast(s)) \subseteq InExternal(s)
           /\ Top(s) \subseteq InExternal(s)
           /\ InExternal(s) \subseteq Handle
<1>1. Len(s) \in Nat /\ InExternal(s) \subseteq Handle
  BY DEF InExternal
<1>2. CASE s = <<>>
  BY <1>1, <1>2 DEF AllButLast, Top
<1>3. CASE s # <<>>
  <2>1. Len(s) > 0 /\ Len(s) - 1 \in Int
    BY <1>1, <1>3, EmptySeq
  <2>2. \A i \in 1 .. Len(s) - 1 : s[i] \in SUBSET Handle
    BY <1>1, <2>1
  <2>3. /\ SubSeq(s, 1, Len(s) - 1) \in Seq(SUBSET Handle)
        /\ Len(SubSeq(s, 1, Len(s) - 1)) = Len(s) - 1
        /\ \A i \in 1 .. Len(s) - 1 : SubSeq(s, 1, Len(s) - 1)[i] = s[i]
    <3> DEFINE n == Len(s) - 1
    <3>1. 1 \in Int /\ n \in Int /\ \A i \in 1 .. n : s[i] \in SUBSET Handle
      BY <2>1, <2>2
    <3> HIDE DEF n
    <3>2. /\ SubSeq(s, 1, n) \in Seq(SUBSET Handle)
          /\ Len(SubSeq(s, 1, n)) = IF 1 <= n THEN n - 1 + 1 ELSE 0
          /\ \A i \in 1 .. n - 1 + 1 : SubSeq(s, 1, n)[i] = s[1 + i - 1]
      BY <3>1, SubSeqProperties
    <3>3. n = Len(s) - 1
      BY DEF n
    <3> QED
      BY <1>1, <2>1, <3>1, <3>2, <3>3
  <2> QED
    BY <1>1, <1>3, <2>1, <2>3 DEF InExternal, Top, AllButLast
<1> QED
  BY <1>2, <1>3

----------------------------------------------------------------------------
(* Steps of the client. *)

\* While the client runs the invariant is a statement about the heap
ClientInv ==
    /\ TypeOK /\ CellsWellFormed /\ InterningExact /\ ImportTableExact /\ UpvaluesPlain
    /\ Roots \subseteq live /\ Closed(live)

LEMMA ClientInvSuffices == ClientInv' /\ pc' = "client" => IInv'
BY DEF ClientInv, IInv, HeapClosed, MarkFrontier, MarkPrecise,
       MarkedIsReachable, SweepFrontier

LEMMA ClientInvHolds == IInv /\ pc = "client" => ClientInv
BY DEF ClientInv, IInv, HeapClosed

\* The client takes up or puts down handles of cells that are there
LEMMA HoldStep ==
    ASSUME ClientInv, pc = "client",
           UNCHANGED <<live, used, cellVars, tableVars, allocated, threshold, gcVars>>,
           shouldGC' \in BOOLEAN,
           external' \in Seq(SUBSET Handle), externalUps' \in Seq(SUBSET Handle),
           Roots' \subseteq live, UpvalueRoots' \subseteq UpvalueRoots
    PROVE  IInv'
<1>1. TypeOK'
  <2>1. held' \subseteq Handle /\ heldUps' \subseteq Handle
    BY DEF ClientInv, TypeOK, Roots, ValueRoots, UpvalueRoots
  <2> QED
    BY <2>1 DEF ClientInv, TypeOK, cellVars, tableVars, gcVars
<1>2. (CellsWellFormed /\ InterningExact /\ ImportTableExact)'
  BY DEF ClientInv, cellVars, tableVars, CellsWellFormed, InterningExact, ImportTableExact
<1>3. Closed(live)'
  BY DEF ClientInv, cellVars, Closed, Edges, Values
<1>4. UpvaluesPlain'
  BY DEF ClientInv, cellVars, UpvaluesPlain
<1>5. ClientInv' /\ pc' = "client"
  BY <1>1, <1>2, <1>3, <1>4 DEF ClientInv, gcVars
<1> QED
  BY <1>5, ClientInvSuffices

LEMMA LoadStep ==
    ASSUME IInv, NEW h \in Handle, Load(h) \/ LoadUpvalue(h) \/ Drop(h)
    PROVE  IInv'
<1>1. pc = "client" /\ ClientInv
  BY ClientInvHolds DEF Load, LoadUpvalue, Drop
<1>2. held' \subseteq live
  BY <1>1 DEF Load, LoadUpvalue, Drop, ClientInv, Closed, Edges, Values, Roots,
              ValueRoots, UpvalueRoots
<1>3. Roots' \subseteq live
  BY <1>1, <1>2 DEF Load, LoadUpvalue, Drop, ClientInv, Roots, ValueRoots,
                    UpvalueRoots, InExternal
<1> QED
  BY <1>1, <1>3, HoldStep DEF Load, LoadUpvalue, Drop, ClientInv, TypeOK,
                              UpvalueRoots, InExternal

LEMMA ExternalStep ==
    ASSUME IInv, \/ PushExternalRoots \/ PushValueRoots
                 \/ PopExternalRoots \/ PopValueRoots
    PROVE  IInv'
<1> USE DEF PushExternalRoots, PushValueRoots, PopExternalRoots, PopValueRoots
<1>1. pc = "client" /\ ClientInv
  BY ClientInvHolds
<1>2. external \in Seq(SUBSET Handle) /\ externalUps \in Seq(SUBSET Handle)
      /\ held \in SUBSET Handle /\ heldUps \in SUBSET Handle
  BY <1>1 DEF ClientInv, TypeOK
<1>3. external' \in Seq(SUBSET Handle) /\ InExternal(external') \subseteq ValueRoots
  <2>1. CASE external' = Append(external, held)
    BY <1>2, <2>1, ExternalAppend DEF ValueRoots
  <2>2. CASE external' = AllButLast(external)
    BY <1>2, <2>2, ExternalPop DEF ValueRoots
  <2> QED
    BY <2>1, <2>2
<1>4. /\ externalUps' \in Seq(SUBSET Handle)
      /\ InExternal(externalUps') \subseteq UpvalueRoots
  <2>1. CASE externalUps' = Append(externalUps, heldUps)
    BY <1>2, <2>1, ExternalAppend DEF UpvalueRoots
  <2>2. CASE externalUps' = AllButLast(externalUps)
    BY <1>2, <2>2, ExternalPop DEF UpvalueRoots
  <2>3. CASE externalUps' = externalUps
    BY <1>2, <2>3 DEF UpvalueRoots
  <2> QED
    BY <2>1, <2>2, <2>3
<1>6. held' \subseteq ValueRoots /\ heldUps' \subseteq UpvalueRoots
  BY <1>2, ExternalPop DEF ValueRoots, UpvalueRoots
<1>7. Roots' \subseteq live /\ UpvalueRoots' \subseteq UpvalueRoots
  BY <1>1, <1>3, <1>4, <1>6 DEF ClientInv, Roots, ValueRoots, UpvalueRoots, InExternal
<1> QED
  BY <1>1, <1>3, <1>4, <1>7, HoldStep DEF ClientInv, TypeOK

\* Allocation adds one cell whose edges are there already
LEMMA InsertHeap ==
    ASSUME IInv, NEW h \in Handle, NEW k, NEW vs \in SUBSET live, NEW us \in SUBSET live,
           Insert(h, k, vs, us)
    PROVE  /\ ClientInv /\ pc' = "client"
           /\ h \notin live /\ live' = live \cup {h} /\ live' \subseteq used'
           /\ used' \subseteq Handle /\ k \in AllKinds
           /\ kind' \in [Handle -> AllKinds] /\ refs' \in [Handle -> SUBSET Handle]
           /\ slot' \in [Handle -> Handle \cup {None}] /\ ups' \in [Handle -> SUBSET Handle]
           /\ size' \in [Handle -> Nat] /\ allocated' \in Nat /\ shouldGC' \in BOOLEAN
           /\ \A g \in live : kind'[g] = kind[g] /\ refs'[g] = refs[g] /\ ups'[g] = ups[g]
           /\ kind'[h] = k /\ refs'[h] = vs /\ ups'[h] = us
           /\ Closed(live)'
<1>1. ClientInv /\ pc' = "client"
  BY ClientInvHolds DEF Insert, gcVars
<1>2. h \notin live /\ live' = live \cup {h} /\ live' \subseteq used' /\ used' \subseteq Handle
  BY <1>1 DEF ClientInv, TypeOK, Insert, Fresh
<1>3. k \in AllKinds /\ shouldGC' \in BOOLEAN
  BY <1>1 DEF Insert, ShouldCollect, ClientInv, TypeOK
<1>4. live \subseteq Handle
  BY <1>2
<1>5. /\ kind' \in [Handle -> AllKinds] /\ refs' \in [Handle -> SUBSET Handle]
      /\ slot' \in [Handle -> Handle \cup {None}] /\ ups' \in [Handle -> SUBSET Handle]
      /\ size' \in [Handle -> Nat] /\ allocated' \in Nat
  BY <1>1, <1>3, <1>4 DEF ClientInv, TypeOK, Insert
<1>6. /\ \A g \in live : /\ kind'[g] = kind[g] /\ refs'[g] = refs[g]
                         /\ slot'[g] = slot[g] /\ ups'[g] = ups[g]
      /\ kind'[h] = k /\ refs'[h] = vs /\ slot'[h] = None /\ ups'[h] = us
  BY <1>1, <1>2, <1>4 DEF ClientInv, TypeOK, Insert
<1>7. Closed(live)'
  BY <1>1, <1>2, <1>6 DEF ClientInv, Closed, Edges, Values
<1> QED
  BY <1>1, <1>2, <1>3, <1>5, <1>6, <1>7

\* A cell that is neither a string nor an import leaves the tables alone
LEMMA InsertPlain ==
    ASSUME IInv, NEW h \in Handle, NEW k, NEW vs \in SUBSET live, NEW us \in SUBSET live,
           Insert(h, k, vs, us), k \notin {"String", "Import"},
           UNCHANGED <<text, path, tableVars>>,
           held' \subseteq held \cup {h}, heldUps' \subseteq heldUps \cup {h},
           \A u \in us : ups[u] = {}, us = {} \/ heldUps' = heldUps
    PROVE  IInv'
<1>1. /\ ClientInv /\ pc' = "client"
      /\ h \notin live /\ live' = live \cup {h} /\ live' \subseteq used'
      /\ used' \subseteq Handle /\ k \in AllKinds
      /\ kind' \in [Handle -> AllKinds] /\ refs' \in [Handle -> SUBSET Handle]
      /\ slot' \in [Handle -> Handle \cup {None}] /\ ups' \in [Handle -> SUBSET Handle]
      /\ size' \in [Handle -> Nat] /\ allocated' \in Nat /\ shouldGC' \in BOOLEAN
      /\ \A g \in live : kind'[g] = kind[g] /\ refs'[g] = refs[g] /\ ups'[g] = ups[g]
      /\ kind'[h] = k /\ refs'[h] = vs /\ ups'[h] = us
      /\ Closed(live)'
  BY InsertHeap
<1>2. TypeOK'
  BY <1>1 DEF ClientInv, TypeOK, Insert, tableVars, gcVars
<1>3. (CellsWellFormed /\ InterningExact /\ ImportTableExact)'
  BY <1>1 DEF ClientInv, CellsWellFormed, InterningExact, ImportTableExact, tableVars
<1>4. Roots' \subseteq live'
  BY <1>1 DEF ClientInv, Roots, ValueRoots, UpvalueRoots, InExternal, Insert
<1>5. UpvaluesPlain'
  <2>1. UpvalueRoots' \subseteq UpvalueRoots \cup {h} /\ (us = {} \/ UpvalueRoots' = UpvalueRoots)
    BY DEF UpvalueRoots, InExternal, Insert
  <2>2. \A g \in live : ups[g] \subseteq live
    BY <1>1 DEF ClientInv, Closed, Edges
  <2>3. UpvalueRoots \subseteq live
    BY <1>1 DEF ClientInv, Roots
  <2> QED
    BY <1>1, <2>1, <2>2, <2>3 DEF ClientInv, UpvaluesPlain
<1> QED
  BY <1>1, <1>2, <1>3, <1>4, <1>5, ClientInvSuffices DEF ClientInv

LEMMA AllocatePlainStep ==
    ASSUME IInv, \/ AllocateObject \/ AllocateArray \/ AllocateFunction
                 \/ AllocateBinary \/ AllocateNativeThunk
    PROVE  IInv'
<1>1. PICK k \in {"Object", "Array", "Function", "Binary", "NativeThunk"},
           vs \in SUBSET held : AllocateHolding(k, vs)
  BY DEF AllocateObject, AllocateArray, AllocateFunction, AllocateBinary,
         AllocateNativeThunk, SmallSubset, HeldOf
<1>2. PICK h \in Handle : /\ Insert(h, k, vs, {}) /\ held' = held \cup {h}
                          /\ UNCHANGED <<text, path, tableVars, heldUps>>
  BY <1>1 DEF AllocateHolding
<1>3. vs \subseteq live
  BY <1>2, ClientInvHolds DEF Insert, ClientInv, Roots, ValueRoots
<1> QED
  BY <1>2, <1>3, InsertPlain

LEMMA AllocateClosureStep ==
    ASSUME IInv, AllocateClosure PROVE IInv'
<1>0. PICK h \in Handle, f \in HeldOf({"Function"}),
           enclosing \in HeldOf({"Closure"}) \cup {None} :
           \E us \in SUBSET (heldUps \cup (IF enclosing = None THEN {} ELSE ups[enclosing])) :
              /\ Insert(h, "Closure", {f}, us)
              /\ held' = held \cup {h}
              /\ UNCHANGED <<text, path, tableVars, heldUps>>
  BY DEF AllocateClosure, SmallSubset
<1>1. PICK us \in SUBSET (heldUps \cup (IF enclosing = None THEN {} ELSE ups[enclosing])) :
              /\ Insert(h, "Closure", {f}, us)
              /\ held' = held \cup {h}
              /\ UNCHANGED <<text, path, tableVars, heldUps>>
  BY <1>0
<1>2. ClientInv
  BY <1>1, ClientInvHolds DEF Insert
<1>3. {f} \subseteq live
  BY <1>2 DEF HeldOf, ClientInv, Roots, ValueRoots
<1>4. us \subseteq live
  BY <1>2 DEF HeldOf, ClientInv, Roots, ValueRoots, UpvalueRoots, Closed, Edges
<1>5. \A u \in us : ups[u] = {}
  BY <1>2 DEF HeldOf, ClientInv, Roots, ValueRoots, UpvalueRoots, UpvaluesPlain
<1> QED
  BY <1>1, <1>3, <1>4, <1>5, InsertPlain

LEMMA AllocateUpvalueStep ==
    ASSUME IInv, AllocateUpvalue PROVE IInv'
<1>1. PICK h \in Handle : /\ Insert(h, "Upvalue", {}, {}) /\ heldUps' = heldUps \cup {h}
                          /\ UNCHANGED <<text, path, tableVars, held>>
  BY DEF AllocateUpvalue
<1> QED
  BY <1>1, InsertPlain

LEMMA AllocateStringStep ==
    ASSUME IInv, NEW c \in Content, AllocateString(c) PROVE IInv'
<1>1. ClientInv /\ pc = "client"
  BY ClientInvHolds DEF AllocateString
<1>2. CASE interned[c] # None
  <2>1. interned[c] \in live
    BY <1>1, <1>2 DEF ClientInv, InterningExact
  <2>2. Roots' \subseteq live /\ UpvalueRoots' \subseteq UpvalueRoots
    BY <1>1, <1>2, <2>1 DEF AllocateString, ClientInv, Roots, ValueRoots, UpvalueRoots, InExternal
  <2> QED
    BY <1>1, <1>2, <2>2, HoldStep DEF AllocateString, ClientInv, TypeOK
<1>3. CASE interned[c] = None
  <2>1. PICK h \in Handle : /\ Insert(h, "String", {}, {})
                            /\ text' = [text EXCEPT ![h] = c]
                            /\ interned' = [interned EXCEPT ![c] = h]
                            /\ held' = held \cup {h}
                            /\ UNCHANGED <<path, lookup, heldUps>>
    BY <1>3 DEF AllocateString
  <2>2. /\ ClientInv /\ pc' = "client"
        /\ h \notin live /\ live' = live \cup {h} /\ live' \subseteq used'
        /\ used' \subseteq Handle
        /\ kind' \in [Handle -> AllKinds] /\ refs' \in [Handle -> SUBSET Handle]
        /\ slot' \in [Handle -> Handle \cup {None}] /\ ups' \in [Handle -> SUBSET Handle]
        /\ size' \in [Handle -> Nat] /\ allocated' \in Nat /\ shouldGC' \in BOOLEAN
        /\ \A g \in live : kind'[g] = kind[g] /\ refs'[g] = refs[g] /\ ups'[g] = ups[g]
        /\ kind'[h] = "String" /\ refs'[h] = {} /\ ups'[h] = {}
        /\ Closed(live)'
    <3> DEFINE none == {}
    <3>1. none \in SUBSET live /\ Insert(h, "String", none, none)
      BY <2>1
    <3> HIDE DEF none
    <3>2. none = {}
      BY DEF none
    <3>3. refs'[h] = none /\ ups'[h] = none
      BY <1>1, <3>1 DEF Insert, ClientInv, TypeOK
    <3>4. ClientInv /\ Closed(live)'
      BY <3>1, InsertHeap
    <3>5. /\ pc' = "client"
          /\ h \notin live /\ live' = live \cup {h} /\ live' \subseteq used'
          /\ used' \subseteq Handle /\ kind'[h] = "String"
          /\ kind' \in [Handle -> AllKinds] /\ refs' \in [Handle -> SUBSET Handle]
          /\ slot' \in [Handle -> Handle \cup {None}] /\ ups' \in [Handle -> SUBSET Handle]
          /\ size' \in [Handle -> Nat] /\ allocated' \in Nat /\ shouldGC' \in BOOLEAN
          /\ \A g \in live : kind'[g] = kind[g] /\ refs'[g] = refs[g] /\ ups'[g] = ups[g]
      BY <3>1, InsertHeap
    <3> QED
      BY <3>2, <3>3, <3>4, <3>5
  <2>3. TypeOK'
    BY <2>1, <2>2 DEF ClientInv, TypeOK, Insert, gcVars
  <2>4. /\ text'[h] = c /\ interned'[c] = h
        /\ \A g \in live : text'[g] = text[g]
        /\ \A d \in Content : d # c => interned'[d] = interned[d]
    BY <2>1, <2>2 DEF ClientInv, TypeOK
  <2>5. CellsWellFormed'
    BY <2>1, <2>2, <2>4 DEF ClientInv, CellsWellFormed
  <2>6. InterningExact'
    BY <1>3, <2>1, <2>2, <2>4 DEF ClientInv, CellsWellFormed, InterningExact
  <2>7. ImportTableExact'
    BY <2>1, <2>2, <2>4 DEF ClientInv, CellsWellFormed, ImportTableExact
  <2>8. Roots' \subseteq live'
    BY <2>1, <2>2 DEF ClientInv, Roots, ValueRoots, UpvalueRoots, InExternal, Insert
  <2>9. UpvaluesPlain'
    BY <2>1, <2>2 DEF ClientInv, UpvaluesPlain, UpvalueRoots, InExternal, Insert
  <2> QED
    BY <2>2, <2>3, <2>5, <2>6, <2>7, <2>8, <2>9, ClientInvSuffices DEF ClientInv
<1> QED
  BY <1>2, <1>3

LEMMA AllocateImportStep ==
    ASSUME IInv, NEW c \in Content, AllocateImport(c) PROVE IInv'
<1>1. ClientInv /\ pc = "client"
  BY ClientInvHolds DEF AllocateImport
<1>2. CASE lookup[c] # None
  <2>1. lookup[c] \in live
    BY <1>1, <1>2 DEF ClientInv, ImportTableExact
  <2>2. Roots' \subseteq live /\ UpvalueRoots' \subseteq UpvalueRoots
    BY <1>1, <1>2, <2>1 DEF AllocateImport, ClientInv, Roots, ValueRoots, UpvalueRoots, InExternal
  <2> QED
    BY <1>1, <1>2, <2>2, HoldStep DEF AllocateImport, ClientInv, TypeOK
<1>3. CASE lookup[c] = None /\ interned[c] # None
  <2>1. PICK h \in Handle : /\ Insert(h, "Import", {interned[c]}, {})
                            /\ path' = [path EXCEPT ![h] = interned[c]]
                            /\ lookup' = [lookup EXCEPT ![c] = h]
                            /\ held' = held \cup {h}
                            /\ UNCHANGED <<text, interned, heldUps>>
    BY <1>3 DEF AllocateImport
  <2>2. interned[c] \in live /\ kind[interned[c]] = "String" /\ text[interned[c]] = c
    BY <1>1, <1>3 DEF ClientInv, InterningExact
  <2>3. /\ ClientInv /\ pc' = "client"
        /\ h \notin live /\ live' = live \cup {h} /\ live' \subseteq used'
        /\ used' \subseteq Handle
        /\ kind' \in [Handle -> AllKinds] /\ refs' \in [Handle -> SUBSET Handle]
        /\ slot' \in [Handle -> Handle \cup {None}] /\ ups' \in [Handle -> SUBSET Handle]
        /\ size' \in [Handle -> Nat] /\ allocated' \in Nat /\ shouldGC' \in BOOLEAN
        /\ \A g \in live : kind'[g] = kind[g] /\ refs'[g] = refs[g] /\ ups'[g] = ups[g]
        /\ kind'[h] = "Import" /\ refs'[h] = {interned[c]} /\ ups'[h] = {}
        /\ Closed(live)'
    <3> DEFINE some == {interned[c]}
               none == {}
    <3>1. some \in SUBSET live /\ none \in SUBSET live /\ Insert(h, "Import", some, none)
      BY <2>1, <2>2
    <3> HIDE DEF none, some
    <3>2. some = {interned[c]} /\ none = {}
      BY DEF some, none
    <3>3. refs'[h] = some /\ ups'[h] = none
      BY <1>1, <3>1 DEF Insert, ClientInv, TypeOK
    <3>5. ClientInv /\ Closed(live)'
      BY <3>1, InsertHeap
    <3>4. /\ pc' = "client"
          /\ h \notin live /\ live' = live \cup {h} /\ live' \subseteq used'
          /\ used' \subseteq Handle /\ kind'[h] = "Import"
          /\ kind' \in [Handle -> AllKinds] /\ refs' \in [Handle -> SUBSET Handle]
          /\ slot' \in [Handle -> Handle \cup {None}] /\ ups' \in [Handle -> SUBSET Handle]
          /\ size' \in [Handle -> Nat] /\ allocated' \in Nat /\ shouldGC' \in BOOLEAN
          /\ \A g \in live : kind'[g] = kind[g] /\ refs'[g] = refs[g] /\ ups'[g] = ups[g]
      BY <3>1, InsertHeap
    <3> QED
      BY <3>2, <3>3, <3>4, <3>5
  <2>4. TypeOK'
    BY <2>1, <2>2, <2>3 DEF ClientInv, TypeOK, Insert, gcVars
  <2>5. /\ path'[h] = interned[c] /\ lookup'[c] = h
        /\ \A g \in live : path'[g] = path[g]
        /\ \A d \in Content : d # c => lookup'[d] = lookup[d]
    BY <2>1, <2>3 DEF ClientInv, TypeOK
  <2>6. CellsWellFormed'
    BY <2>1, <2>2, <2>3, <2>5 DEF ClientInv, CellsWellFormed
  <2>7. InterningExact'
    BY <2>1, <2>3, <2>5 DEF ClientInv, CellsWellFormed, InterningExact
  <2>8. ImportTableExact'
    <3>1. \A g \in live' : kind'[g] = "Import" => lookup'[text'[path'[g]]] = g
      BY <1>3, <2>1, <2>2, <2>3, <2>5 DEF ClientInv, CellsWellFormed, ImportTableExact
    <3>2. ASSUME NEW d \in Content, lookup'[d] # None
          PROVE  /\ lookup'[d] \in live' /\ kind'[lookup'[d]] = "Import"
                 /\ text'[path'[lookup'[d]]] = d
      BY <3>2, <2>1, <2>2, <2>3, <2>5 DEF ClientInv, ImportTableExact
    <3> QED
      BY <3>1, <3>2 DEF ImportTableExact
  <2>9. Roots' \subseteq live'
    BY <2>1, <2>3 DEF ClientInv, Roots, ValueRoots, UpvalueRoots, InExternal, Insert
  <2>10. UpvaluesPlain'
    BY <2>1, <2>3 DEF ClientInv, UpvaluesPlain, UpvalueRoots, InExternal, Insert
  <2> QED
    BY <2>3, <2>4, <2>6, <2>7, <2>8, <2>9, <2>10, ClientInvSuffices DEF ClientInv
<1>4. CASE lookup[c] = None /\ interned[c] = None
  <2>1. PICK s \in Handle, h \in Handle :
          /\ s # h /\ Fresh(s) /\ Fresh(h)
          /\ live' = live \cup {s, h}
          /\ used' = used \cup {s, h}
          /\ kind' = [kind EXCEPT ![s] = "String", ![h] = "Import"]
          /\ refs' = [refs EXCEPT ![s] = {}, ![h] = {s}]
          /\ slot' = [slot EXCEPT ![s] = None, ![h] = None]
          /\ ups' = [ups EXCEPT ![s] = {}, ![h] = {}]
          /\ size' = [size EXCEPT ![s] = 1, ![h] = 1]
          /\ text' = [text EXCEPT ![s] = c]
          /\ path' = [path EXCEPT ![h] = s]
          /\ interned' = [interned EXCEPT ![c] = s]
          /\ lookup' = [lookup EXCEPT ![c] = h]
          /\ allocated' = allocated + 2
          /\ shouldGC' = ShouldCollect(allocated + 2)
          /\ held' = held \cup {h}
          /\ UNCHANGED <<threshold, external, externalUps, heldUps, gcVars>>
    BY <1>4 DEF AllocateImport
  <2>2. s \notin live /\ h \notin live /\ live \subseteq Handle
    BY <1>1, <2>1 DEF Fresh, ClientInv, TypeOK
  <2>3. shouldGC' \in BOOLEAN /\ {"String", "Import"} \subseteq AllKinds
    BY <1>1, <2>1 DEF ShouldCollect, ClientInv, TypeOK, AllKinds
  <2>4. TypeOK'
    <3>1. /\ kind' \in [Handle -> AllKinds] /\ refs' \in [Handle -> SUBSET Handle]
          /\ slot' \in [Handle -> Handle \cup {None}] /\ ups' \in [Handle -> SUBSET Handle]
      BY <1>1, <2>1, <2>3 DEF ClientInv, TypeOK
    <3>2. /\ size' \in [Handle -> Nat]
          /\ text' \in [Handle -> Content \cup {None}] /\ path' \in [Handle -> Handle \cup {None}]
          /\ interned' \in [Content -> Handle \cup {None}]
          /\ lookup' \in [Content -> Handle \cup {None}]
      BY <1>1, <2>1 DEF ClientInv, TypeOK
    <3>3. /\ live' \subseteq used' /\ used' \subseteq Handle /\ held' \subseteq Handle
          /\ allocated' \in Nat
      BY <1>1, <2>1 DEF ClientInv, TypeOK
    <3> QED
      BY <1>1, <2>1, <2>3, <3>1, <3>2, <3>3 DEF ClientInv, TypeOK, gcVars
  <2>5. /\ kind'[s] = "String" /\ kind'[h] = "Import" /\ refs'[s] = {} /\ refs'[h] = {s}
        /\ slot'[s] = None /\ slot'[h] = None /\ ups'[s] = {} /\ ups'[h] = {}
        /\ text'[s] = c /\ path'[h] = s /\ interned'[c] = s /\ lookup'[c] = h
    BY <1>1, <2>1, <2>2 DEF ClientInv, TypeOK
  <2>6. /\ \A g \in live : /\ kind'[g] = kind[g] /\ refs'[g] = refs[g]
                           /\ slot'[g] = slot[g] /\ ups'[g] = ups[g]
                           /\ text'[g] = text[g] /\ path'[g] = path[g]
        /\ \A d \in Content : d # c => lookup'[d] = lookup[d] /\ interned'[d] = interned[d]
    BY <1>1, <2>1, <2>2 DEF ClientInv, TypeOK
  <2>7. live' = live \cup {s, h}
    BY <2>1
  <2>8. Closed(live)'
    <3>1. \A g \in live : Values(g)' \cup ups'[g] \subseteq live
      BY <1>1, <2>6 DEF ClientInv, Closed, Edges, Values
    <3>2. Values(s)' \cup ups'[s] = {} /\ Values(h)' \cup ups'[h] = {s}
      BY <2>5 DEF Values
    <3> QED
      BY <2>7, <3>1, <3>2 DEF Closed, Edges
  <2>9. CellsWellFormed'
    <3>1. \A g \in live : /\ kind'[g] = "String" => text'[g] \in Content
                          /\ kind'[g] = "Import" => /\ path'[g] \in refs'[g]
                                                    /\ path'[g] \in live'
                                                    /\ kind'[path'[g]] = "String"
      BY <1>1, <2>6, <2>7 DEF ClientInv, CellsWellFormed
    <3> QED
      BY <2>5, <2>7, <3>1 DEF CellsWellFormed
  <2>10. InterningExact'
    <3>1. \A g \in live : kind[g] = "String" => text[g] \in Content /\ text[g] # c /\ interned[text[g]] = g
      BY <1>1, <1>4, <2>2 DEF ClientInv, CellsWellFormed, InterningExact
    <3>2. \A g \in live' : kind'[g] = "String" => interned'[text'[g]] = g
      BY <2>5, <2>6, <2>7, <3>1
    <3>3. ASSUME NEW d \in Content, interned'[d] # None
          PROVE  interned'[d] \in live' /\ kind'[interned'[d]] = "String" /\ text'[interned'[d]] = d
      BY <1>1, <2>5, <2>6, <2>7, <3>3 DEF ClientInv, InterningExact
    <3> QED
      BY <3>2, <3>3 DEF InterningExact
  <2>11. ImportTableExact'
    <3>1. \A g \in live : kind[g] = "Import" =>
             /\ path[g] \in live /\ text[path[g]] \in Content
             /\ text[path[g]] # c /\ lookup[text[path[g]]] = g
      BY <1>1, <1>4, <2>2 DEF ClientInv, CellsWellFormed, ImportTableExact
    <3>2. \A g \in live' : kind'[g] = "Import" => lookup'[text'[path'[g]]] = g
      BY <2>5, <2>6, <2>7, <3>1
    <3>3. ASSUME NEW d \in Content, lookup'[d] # None
          PROVE  /\ lookup'[d] \in live' /\ kind'[lookup'[d]] = "Import"
                 /\ text'[path'[lookup'[d]]] = d
      <4>1. CASE d = c
        BY <2>5, <2>7, <4>1
      <4>2. CASE d # c
        <5>1. lookup'[d] = lookup[d] /\ lookup[d] # None
          BY <2>6, <3>3, <4>2
        <5>2. lookup[d] \in live /\ kind[lookup[d]] = "Import" /\ text[path[lookup[d]]] = d
          BY <1>1, <5>1 DEF ClientInv, ImportTableExact
        <5>3. path[lookup[d]] \in live
          BY <3>1, <5>2
        <5> QED
          BY <2>6, <2>7, <5>1, <5>2, <5>3
      <4> QED
        BY <4>1, <4>2
    <3> QED
      BY <3>2, <3>3 DEF ImportTableExact
  <2>12. Roots' \subseteq live'
    BY <1>1, <2>1 DEF ClientInv, Roots, ValueRoots, UpvalueRoots, InExternal
  <2>13. UpvaluesPlain'
    <3>1. UpvalueRoots' = UpvalueRoots /\ UpvalueRoots \subseteq live
      BY <1>1, <2>1 DEF ClientInv, UpvalueRoots, Roots, InExternal
    <3>2. \A g \in live : ups'[g] \subseteq live
      BY <1>1, <2>6 DEF ClientInv, Closed, Edges
    <3>3. UNION {ups'[g] : g \in live'} \subseteq UNION {ups[g] : g \in live}
      BY <2>5, <2>6, <2>7
    <3>4. \A u \in live : ups'[u] = ups[u]
      BY <2>6
    <3> QED
      BY <1>1, <2>5, <2>7, <3>1, <3>2, <3>3, <3>4 DEF ClientInv, UpvaluesPlain
  <2> QED
    BY <1>1, <2>1, <2>4, <2>8, <2>9, <2>10, <2>11, <2>12, <2>13, ClientInvSuffices
       DEF ClientInv, gcVars
<1> QED
  BY <1>2, <1>3, <1>4

\* Writes into a cell store values the client holds
LEMMA WriteStep ==
    ASSUME IInv, NEW h \in Handle,
           \/ CloseUpvalue(h) \/ ForceUpvalue(h) \/ SetCached(h)
           \/ StoreElement(h) \/ AppendInPlace(h)
    PROVE  IInv'
<1>1. /\ \/ \E u \in Handle, v \in held : WriteSlot(u, v)
         \/ /\ h \in held /\ kind[h] = "Array"
            /\ \E vs \in SUBSET (refs[h] \cup held), n \in Nat : WriteRefs(h, vs, n)
      /\ heldUps' \subseteq heldUps
      /\ pc = "client"
  <2>1. CASE CloseUpvalue(h)
    BY <2>1 DEF CloseUpvalue, WriteSlot
  <2>2. CASE ForceUpvalue(h)
    BY <2>2 DEF ForceUpvalue, WriteSlot, IInv, TypeOK
  <2>3. CASE SetCached(h)
    BY <2>3 DEF SetCached, WriteSlot
  <2>4. CASE StoreElement(h)
    <3>1. PICK old \in refs[h], new \in held :
              WriteRefs(h, (refs[h] \ {old}) \cup {new}, size[h])
      BY <2>4 DEF StoreElement
    <3>2. (refs[h] \ {old}) \cup {new} \in SUBSET (refs[h] \cup held) /\ size[h] \in Nat
      BY DEF IInv, TypeOK
    <3>3. h \in held /\ kind[h] = "Array" /\ heldUps' = heldUps
      BY <2>4 DEF StoreElement, HeldOf
    <3> QED
      BY <3>1, <3>2, <3>3 DEF WriteRefs
  <2>5. CASE AppendInPlace(h)
    <3>1. PICK v \in held : WriteRefs(h, refs[h] \cup {v}, size[h] + 1)
      BY <2>5 DEF AppendInPlace
    <3>2. refs[h] \cup {v} \in SUBSET (refs[h] \cup held) /\ size[h] + 1 \in Nat
      BY DEF IInv, TypeOK
    <3>3. h \in held /\ kind[h] = "Array" /\ heldUps' = heldUps
      BY <2>5 DEF AppendInPlace, HeldOf
    <3> QED
      BY <3>1, <3>2, <3>3 DEF WriteRefs
  <2> QED
    BY <2>1, <2>2, <2>3, <2>4, <2>5
<1>2. ClientInv /\ held \subseteq live /\ live \subseteq Handle
  BY <1>1, ClientInvHolds DEF ClientInv, Roots, ValueRoots, TypeOK
<1>3. CASE \E u \in Handle, v \in held : WriteSlot(u, v)
  <2>1. PICK u \in Handle, v \in held : WriteSlot(u, v)
    BY <1>3
  <2>2. TypeOK'
    BY <1>1, <1>2, <2>1 DEF WriteSlot, ClientInv, TypeOK, tableVars, gcVars
  <2>3. \A g \in live : slot'[g] = slot[g] \/ slot'[g] = v
    BY <1>2, <2>1 DEF WriteSlot, ClientInv, TypeOK
  <2>4. Closed(live)'
    BY <1>2, <2>1, <2>3 DEF WriteSlot, ClientInv, Closed, Edges, Values
  <2>5. (CellsWellFormed /\ InterningExact /\ ImportTableExact)'
    BY <1>2, <2>1 DEF WriteSlot, ClientInv, CellsWellFormed, InterningExact,
                      ImportTableExact, tableVars
  <2>6. Roots' \subseteq live'
    BY <1>1, <1>2, <2>1 DEF WriteSlot, ClientInv, Roots, ValueRoots, UpvalueRoots, InExternal
  <2>7. UpvaluesPlain'
    BY <1>1, <1>2, <2>1 DEF WriteSlot, ClientInv, UpvaluesPlain, UpvalueRoots, InExternal
  <2> QED
    BY <1>1, <2>1, <2>2, <2>4, <2>5, <2>6, <2>7, ClientInvSuffices DEF WriteSlot, ClientInv, gcVars
<1>4. CASE /\ h \in held /\ kind[h] = "Array"
           /\ \E vs \in SUBSET (refs[h] \cup held), n \in Nat : WriteRefs(h, vs, n)
  <2>1. PICK vs \in SUBSET (refs[h] \cup held), n \in Nat : WriteRefs(h, vs, n)
    BY <1>4
  <2>2. TypeOK'
    BY <1>1, <1>2, <2>1 DEF WriteRefs, ClientInv, TypeOK, tableVars, gcVars
  <2>3. /\ \A g \in live : g # h => refs'[g] = refs[g]
        /\ refs'[h] \subseteq refs[h] \cup held
    BY <1>2, <2>1 DEF WriteRefs, ClientInv, TypeOK
  <2>4. Closed(live)'
    BY <1>2, <1>4, <2>1, <2>3 DEF WriteRefs, ClientInv, Closed, Edges, Values
  <2>5. (CellsWellFormed /\ InterningExact /\ ImportTableExact)'
    BY <1>2, <1>4, <2>1, <2>3 DEF WriteRefs, ClientInv, CellsWellFormed, InterningExact,
                      ImportTableExact, tableVars
  <2>6. Roots' \subseteq live'
    BY <1>1, <1>2, <2>1 DEF WriteRefs, ClientInv, Roots, ValueRoots, UpvalueRoots, InExternal
  <2>7. UpvaluesPlain'
    BY <1>1, <1>2, <2>1 DEF WriteRefs, ClientInv, UpvaluesPlain, UpvalueRoots, InExternal
  <2> QED
    BY <1>1, <2>1, <2>2, <2>4, <2>5, <2>6, <2>7, ClientInvSuffices DEF WriteRefs, ClientInv, gcVars
<1> QED
  BY <1>1, <1>3, <1>4

----------------------------------------------------------------------------
(* Steps of a collection. *)

\* A step that leaves heap, tables and roots alone keeps what is said of them
LEMMA HeapUnchanged ==
    ASSUME IInv, pc \in {"client", "mark", "sweep1"},
           UNCHANGED <<live, used, cellVars, tableVars, allocated, threshold, rootVars>>,
           shouldGC' \in BOOLEAN, pc' \in Phases, work' \subseteq Handle, marked' \subseteq Handle
    PROVE  /\ TypeOK' /\ CellsWellFormed' /\ InterningExact' /\ ImportTableExact'
           /\ UpvaluesPlain'
           /\ Roots' = Roots /\ Roots \subseteq live /\ Closed(live)
           /\ \A S : Closed(S)' <=> Closed(S)
           /\ HeapClosed'
<1>1. TypeOK'
  BY DEF IInv, TypeOK, cellVars, tableVars, rootVars
<1>2. CellsWellFormed' /\ InterningExact' /\ ImportTableExact' /\ UpvaluesPlain'
  BY DEF IInv, CellsWellFormed, InterningExact, ImportTableExact, cellVars, tableVars,
         UpvaluesPlain, UpvalueRoots, InExternal, rootVars
<1>3. Roots' = Roots /\ Roots \subseteq live /\ Closed(live)
  BY DEF IInv, HeapClosed, Roots, ValueRoots, UpvalueRoots, InExternal, rootVars
<1>4. \A S : Closed(S)' <=> Closed(S)
  BY DEF Closed, Edges, Values, cellVars
<1>5. HeapClosed'
  BY <1>3, <1>4 DEF HeapClosed, Closed, Edges, Values, cellVars
<1> QED
  BY <1>1, <1>2, <1>3, <1>4, <1>5

LEMMA StartGCStep == ASSUME IInv, StartGC PROVE IInv'
<1>1. /\ pc = "client" /\ shouldGC' = FALSE /\ pc' = "mark"
      /\ marked' = UpvalueRoots \cap live
      /\ work' = ValueRoots \cup UNION {Values(u) : u \in UpvalueRoots \cap live}
      /\ UNCHANGED <<live, used, cellVars, tableVars, allocated, threshold, rootVars>>
  BY DEF StartGC
<1>2. Roots \subseteq live /\ Closed(live) /\ live \subseteq Handle
  BY <1>1 DEF IInv, HeapClosed, TypeOK
<1>3. work' \subseteq live /\ marked' \subseteq live
  BY <1>1, <1>2 DEF Roots, Closed, Edges
<1>4. pc' \in Phases /\ shouldGC' \in BOOLEAN
  BY <1>1 DEF Phases
<1>5. /\ TypeOK' /\ CellsWellFormed' /\ InterningExact' /\ ImportTableExact'
      /\ UpvaluesPlain' /\ Roots' = Roots /\ HeapClosed'
      /\ (\A S : Closed(S)' <=> Closed(S))
  BY <1>1, <1>2, <1>3, <1>4, HeapUnchanged
<1>6. \A h \in marked' : Values(h)' \subseteq marked' \cup work' /\ ups'[h] \subseteq marked'
  <2>1. ASSUME NEW h \in marked' PROVE Values(h)' \subseteq work'
    BY <1>1, <2>1 DEF Values, cellVars
  <2>2. ASSUME NEW h \in marked' PROVE ups'[h] = {}
    <3>1. h \in UpvalueRoots
      BY <1>1, <2>2
    <3> QED
      BY <1>1, <3>1 DEF IInv, UpvaluesPlain, cellVars
  <2> QED
    BY <2>1, <2>2
<1>7. MarkFrontier'
  BY <1>1, <1>2, <1>3, <1>5, <1>6 DEF MarkFrontier, Roots
<1>8. MarkPrecise'
  <2>1. ASSUME NEW S \in SUBSET Handle, Roots \subseteq S, Closed(S)
        PROVE  marked' \cup work' \subseteq S
    BY <1>1, <2>1 DEF Roots, Closed, Edges
  <2> QED
    BY <1>5, <2>1 DEF MarkPrecise
<1> QED
  BY <1>1, <1>5, <1>7, <1>8 DEF IInv, MarkedIsReachable, SweepFrontier

LEMMA MarkNextStep == ASSUME IInv, NEW h \in Handle, MarkNext(h) PROVE IInv'
<1>1. /\ pc = "mark" /\ pc' = "mark" /\ h \in work /\ shouldGC' = shouldGC
      /\ UNCHANGED <<live, used, cellVars, tableVars, allocated, threshold, rootVars>>
  BY DEF MarkNext
<1>2. /\ Roots \subseteq live /\ Closed(live) /\ live \subseteq Handle
      /\ marked \subseteq live /\ work \subseteq live
  BY <1>1 DEF IInv, HeapClosed, MarkFrontier, TypeOK
<1>3. CASE h \in live \ marked
  <2> DEFINE us == ups[h] \cap live
  <2>1. /\ marked' = marked \cup {h} \cup us
        /\ work' = (work \ {h}) \cup Values(h) \cup UNION {Values(u) : u \in us}
    BY <1>3 DEF MarkNext
  <2>2. us = ups[h]
    BY <1>2, <1>3 DEF Closed, Edges
  <2>3. work' \subseteq live /\ marked' \subseteq live
    BY <1>2, <1>3, <2>1 DEF Closed, Edges
  <2>4. /\ TypeOK' /\ CellsWellFormed' /\ InterningExact' /\ ImportTableExact'
        /\ UpvaluesPlain' /\ Roots' = Roots /\ HeapClosed'
      /\ (\A S : Closed(S)' <=> Closed(S))
    BY <1>1, <1>2, <2>3, HeapUnchanged DEF IInv, TypeOK
  <2>5. \A g : Values(g)' = Values(g) /\ ups'[g] = ups[g]
    BY <1>1 DEF Values, cellVars
  <2>6. \A g \in marked' : Values(g) \subseteq marked' \cup work' /\ ups[g] \subseteq marked'
    <3>1. ASSUME NEW g \in marked
          PROVE  Values(g) \subseteq marked' \cup work' /\ ups[g] \subseteq marked'
      BY <1>1, <2>1 DEF IInv, MarkFrontier
    <3>2. Values(h) \subseteq work' /\ ups[h] \subseteq marked'
      BY <2>1, <2>2
    <3>3. ASSUME NEW u \in us PROVE Values(u) \subseteq work' /\ ups[u] = {}
      BY <1>2, <1>3, <2>1 DEF IInv, UpvaluesPlain
    <3> QED
      BY <2>1, <3>1, <3>2, <3>3
  <2>7. MarkFrontier'
    <3>1. Roots \subseteq marked' \cup work'
      BY <1>1, <1>3, <2>1 DEF IInv, MarkFrontier
    <3> QED
      BY <1>1, <2>3, <2>4, <2>5, <2>6, <3>1 DEF MarkFrontier
  <2>8. MarkPrecise'
    <3>1. ASSUME NEW S \in SUBSET Handle, Roots \subseteq S, Closed(S)
          PROVE  marked' \cup work' \subseteq S
      <4>1. marked \cup work \subseteq S
        BY <1>1, <3>1 DEF IInv, MarkPrecise
      <4>2. Values(h) \subseteq S /\ ups[h] \subseteq S
        BY <1>1, <3>1, <4>1 DEF Closed, Edges
      <4>3. \A u \in us : Values(u) \subseteq S
        BY <3>1, <4>2 DEF Closed, Edges
      <4> QED
        BY <1>1, <2>1, <4>1, <4>2, <4>3
    <3> QED
      BY <2>4, <3>1 DEF MarkPrecise
  <2> QED
    BY <1>1, <2>4, <2>7, <2>8 DEF IInv, MarkedIsReachable, SweepFrontier
<1>4. CASE h \notin live \ marked
  <2>1. marked' = marked /\ work' = work \ {h} /\ h \in marked
    BY <1>1, <1>2, <1>4 DEF MarkNext
  <2>2. /\ TypeOK' /\ CellsWellFormed' /\ InterningExact' /\ ImportTableExact'
        /\ UpvaluesPlain' /\ Roots' = Roots /\ HeapClosed'
        /\ (\A S : Closed(S)' <=> Closed(S))
    BY <1>1, <2>1, HeapUnchanged DEF IInv, TypeOK
  <2>3. \A g : Values(g)' = Values(g) /\ ups'[g] = ups[g]
    BY <1>1 DEF Values, cellVars
  <2>4. MarkFrontier' /\ MarkPrecise'
    BY <1>1, <2>1, <2>2, <2>3 DEF IInv, MarkFrontier, MarkPrecise
  <2> QED
    BY <1>1, <2>2, <2>4 DEF IInv, MarkedIsReachable, SweepFrontier
<1> QED
  BY <1>3, <1>4

LEMMA MarkDoneStep == ASSUME IInv, MarkDone PROVE IInv'
<1>1. /\ pc = "mark" /\ pc' = "sweep1" /\ work = {}
      /\ UNCHANGED <<live, used, cellVars, tableVars, allocated, threshold, shouldGC,
                     rootVars, work, marked>>
  BY DEF MarkDone
<1>2. pc' \in Phases
  BY <1>1 DEF Phases
<1>3. /\ TypeOK' /\ CellsWellFormed' /\ InterningExact' /\ ImportTableExact'
      /\ UpvaluesPlain' /\ Roots' = Roots /\ HeapClosed'
      /\ (\A S : Closed(S)' <=> Closed(S))
  BY <1>1, <1>2, HeapUnchanged DEF IInv, TypeOK
<1>4. Roots \subseteq marked /\ Closed(marked) /\ marked \subseteq live
  BY <1>1 DEF IInv, MarkFrontier, Closed, Edges
<1>5. \A S \in SUBSET Handle : Roots \subseteq S /\ Closed(S) => marked \subseteq S
  BY <1>1 DEF IInv, MarkPrecise
<1>6. MarkedIsReachable' /\ SweepFrontier'
  BY <1>1, <1>3, <1>4, <1>5 DEF MarkedIsReachable, SweepFrontier
<1> QED
  BY <1>1, <1>3, <1>6 DEF IInv, MarkFrontier, MarkPrecise

\* What a sweep of some kinds removes; the arithmetic is only typed
LEMMA SweepTypes ==
    ASSUME TypeOK, NEW ks, SweepKinds(ks)
    PROVE  /\ live' = live \ Unmarked(ks)
           /\ lookup' \in [Content -> Handle \cup {None}]
           /\ interned' \in [Content -> Handle \cup {None}]
           /\ allocated' \in Nat
           /\ \A c \in Content : lookup'[c] =
                IF \E h \in Unmarked(ks) : kind[h] = "Import" /\ text[path[h]] = c
                THEN None ELSE lookup[c]
           /\ \A c \in Content : interned'[c] =
                IF \E h \in Unmarked(ks) : kind[h] = "String" /\ text[h] = c
                THEN None ELSE interned[c]
BY DEF TypeOK, SweepKinds, Saturating

\* Removing unmarked cells keeps the tables exact as long as the path strings
\* of the imports that stay are kept too
LEMMA SweepTables ==
    ASSUME IInv, NEW ks, SweepKinds(ks), UNCHANGED cellVars,
           \A h \in live' : kind[h] = "Import" => path[h] \in live'
    PROVE  CellsWellFormed' /\ InterningExact' /\ ImportTableExact'
<1> DEFINE dead == Unmarked(ks)
<1>1. /\ live' = live \ dead /\ dead \subseteq live
      /\ \A c \in Content : lookup'[c] =
            IF \E h \in dead : kind[h] = "Import" /\ text[path[h]] = c
            THEN None ELSE lookup[c]
      /\ \A c \in Content : interned'[c] =
            IF \E h \in dead : kind[h] = "String" /\ text[h] = c
            THEN None ELSE interned[c]
  BY SweepTypes DEF IInv, Unmarked
<1> HIDE DEF dead
<1>2. kind' = kind /\ text' = text /\ path' = path /\ refs' = refs
  BY DEF cellVars
<1>3. CellsWellFormed'
  BY <1>1, <1>2 DEF IInv, CellsWellFormed
<1>4. InterningExact'
  <2>1. ASSUME NEW h \in live', kind[h] = "String" PROVE interned'[text[h]] = h
    <3>1. text[h] \in Content /\ interned[text[h]] = h
      BY <1>1, <2>1 DEF IInv, CellsWellFormed, InterningExact
    <3>2. ~ \E g \in dead : kind[g] = "String" /\ text[g] = text[h]
      BY <1>1, <2>1, <3>1 DEF IInv, InterningExact
    <3> QED
      BY <1>1, <3>1, <3>2
  <2>2. ASSUME NEW c \in Content, interned'[c] # None
        PROVE  interned'[c] \in live' /\ kind[interned'[c]] = "String" /\ text[interned'[c]] = c
    <3>1. interned'[c] = interned[c] /\ ~ \E g \in dead : kind[g] = "String" /\ text[g] = c
      BY <1>1, <2>2
    <3>2. interned[c] \in live /\ kind[interned[c]] = "String" /\ text[interned[c]] = c
      BY <2>2, <3>1 DEF IInv, InterningExact
    <3> QED
      BY <1>1, <3>1, <3>2
  <2> QED
    BY <1>2, <2>1, <2>2 DEF InterningExact
<1>5. ImportTableExact'
  <2>1. ASSUME NEW h \in live', kind[h] = "Import" PROVE lookup'[text[path[h]]] = h
    <3>1. text[path[h]] \in Content /\ lookup[text[path[h]]] = h
      BY <1>1, <2>1 DEF IInv, CellsWellFormed, ImportTableExact
    <3>2. ~ \E g \in dead : kind[g] = "Import" /\ text[path[g]] = text[path[h]]
      BY <1>1, <2>1, <3>1 DEF IInv, ImportTableExact
    <3> QED
      BY <1>1, <3>1, <3>2
  <2>2. ASSUME NEW c \in Content, lookup'[c] # None
        PROVE  /\ lookup'[c] \in live' /\ kind[lookup'[c]] = "Import"
               /\ text[path[lookup'[c]]] = c
    <3>1. lookup'[c] = lookup[c] /\ ~ \E g \in dead : kind[g] = "Import" /\ text[path[g]] = c
      BY <1>1, <2>2
    <3>2. lookup[c] \in live /\ kind[lookup[c]] = "Import" /\ text[path[lookup[c]]] = c
      BY <2>2, <3>1 DEF IInv, ImportTableExact
    <3> QED
      BY <1>1, <3>1, <3>2
  <2> QED
    BY <1>2, <2>1, <2>2 DEF ImportTableExact
<1> QED
  BY <1>3, <1>4, <1>5

LEMMA RootsUnchanged ==
    ASSUME UNCHANGED rootVars, UNCHANGED cellVars
    PROVE  Roots' = Roots /\ UpvalueRoots' = UpvalueRoots /\ \A S : Closed(S)' <=> Closed(S)
BY DEF rootVars, cellVars, Roots, ValueRoots, UpvalueRoots, InExternal, Closed, Edges, Values

LEMMA SweepFirstStep == ASSUME IInv, SweepFirst PROVE IInv'
<1>1. /\ pc = "sweep1" /\ pc' = "sweep2" /\ SweepKinds({"Import"})
      /\ UNCHANGED <<used, cellVars, threshold, shouldGC, rootVars, work, marked>>
  BY DEF SweepFirst, SweepOrder
<1>2. live' = live \ Unmarked({"Import"})
  BY <1>1, SweepTypes DEF IInv
<1>3. \A h \in live' : kind[h] = "Import" => path[h] \in live' /\ h \in marked
  BY <1>2 DEF IInv, CellsWellFormed, Unmarked
<1>4. CellsWellFormed' /\ InterningExact' /\ ImportTableExact'
  BY <1>1, <1>3, SweepTables
<1>5. TypeOK'
  BY <1>1, <1>2, SweepTypes DEF IInv, TypeOK, Phases, cellVars, rootVars
<1>6. Roots' = Roots /\ UpvalueRoots' = UpvalueRoots /\ \A S : Closed(S)' <=> Closed(S)
  BY <1>1, RootsUnchanged
<1>7. UpvaluesPlain'
  BY <1>1, <1>2, <1>6 DEF IInv, UpvaluesPlain, cellVars
<1>8. MarkedIsReachable'
  BY <1>1, <1>6 DEF IInv, MarkedIsReachable
<1>9. SweepFrontier'
  <2>1. marked \subseteq live'
    BY <1>1, <1>2 DEF IInv, SweepFrontier, Unmarked
  <2> QED
    BY <1>1, <1>3, <2>1 DEF SweepFrontier, cellVars
<1> QED
  BY <1>1, <1>4, <1>5, <1>7, <1>8, <1>9 DEF IInv, HeapClosed, MarkFrontier, MarkPrecise

LEMMA SweepSecondStep == ASSUME IInv, SweepSecond PROVE IInv'
<1>1. /\ pc = "sweep2" /\ pc' = "client" /\ SweepKinds(AllKinds \ {"Import"})
      /\ threshold' = allocated' * 2 /\ marked' = {}
      /\ UNCHANGED <<used, cellVars, shouldGC, rootVars, work>>
  BY DEF SweepSecond, SweepOrder
<1>2. live' = live \ Unmarked(AllKinds \ {"Import"})
  BY <1>1, SweepTypes DEF IInv
<1>3. /\ Roots \subseteq marked /\ Closed(marked) /\ marked \subseteq live
      /\ \A h \in live : kind[h] = "Import" => h \in marked
  BY <1>1 DEF IInv, MarkedIsReachable, SweepFrontier
<1>4. live' = marked
  BY <1>2, <1>3 DEF IInv, TypeOK, Unmarked
<1>5. \A h \in live' : kind[h] = "Import" => path[h] \in live'
  BY <1>3, <1>4 DEF IInv, CellsWellFormed, Closed, Edges, Values
<1>6. CellsWellFormed' /\ InterningExact' /\ ImportTableExact'
  BY <1>1, <1>5, SweepTables
<1>7. TypeOK'
  <2>1. allocated' \in Nat /\ threshold' \in Nat
    BY <1>1, SweepTypes DEF IInv
  <2> QED
    BY <1>1, <1>2, <2>1, SweepTypes DEF IInv, TypeOK, Phases, cellVars, rootVars
<1>8. Roots' = Roots /\ UpvalueRoots' = UpvalueRoots /\ \A S : Closed(S)' <=> Closed(S)
  BY <1>1, RootsUnchanged
<1>9. UpvaluesPlain'
  BY <1>1, <1>2, <1>8 DEF IInv, UpvaluesPlain, cellVars
<1>10. Roots' \subseteq live' /\ Closed(live)'
  BY <1>3, <1>4, <1>8 DEF Closed
<1> QED
  BY <1>1, <1>6, <1>7, <1>9, <1>10, ClientInvSuffices DEF ClientInv

----------------------------------------------------------------------------
LEMMA StepIInv == IInv /\ [Next]_vars => IInv'
<1> SUFFICES ASSUME IInv, [Next]_vars PROVE IInv'
  OBVIOUS
<1>1. CASE ClientStep
  BY <1>1, AllocateStringStep, AllocateImportStep, AllocatePlainStep, AllocateClosureStep,
     AllocateUpvalueStep, LoadStep, WriteStep, ExternalStep, StartGCStep DEF ClientStep
<1>2. CASE GCStep
  BY <1>2, MarkNextStep, MarkDoneStep, SweepFirstStep, SweepSecondStep DEF GCStep
<1>3. CASE UNCHANGED vars
  <2>1. TypeOK'
    BY <1>3 DEF IInv, TypeOK, vars, cellVars, tableVars, rootVars, gcVars
  <2>2. Roots' = Roots /\ UpvalueRoots' = UpvalueRoots /\ \A S : Closed(S)' <=> Closed(S)
    BY <1>3, RootsUnchanged DEF vars
  <2>3. \A h : Values(h)' = Values(h)
    BY <1>3 DEF Values, vars, cellVars
  <2>4. (CellsWellFormed /\ InterningExact /\ ImportTableExact)'
    BY <1>3 DEF IInv, CellsWellFormed, InterningExact, ImportTableExact, vars, cellVars, tableVars
  <2>5. (UpvaluesPlain /\ HeapClosed)'
    BY <1>3, <2>2 DEF IInv, UpvaluesPlain, HeapClosed, Closed, vars, cellVars, gcVars
  <2>6. (MarkFrontier /\ MarkPrecise)'
    BY <1>3, <2>2, <2>3 DEF IInv, MarkFrontier, MarkPrecise, vars, cellVars, gcVars
  <2>7. (MarkedIsReachable /\ SweepFrontier)'
    BY <1>3, <2>2 DEF IInv, MarkedIsReachable, SweepFrontier, Closed, vars, cellVars, gcVars
  <2> QED
    BY <2>1, <2>4, <2>5, <2>6, <2>7 DEF IInv
<1> QED
  BY <1>1, <1>2, <1>3 DEF Next

\* The strengthened invariant holds in every state of the memory manager
THEOREM Invariance == Spec => []IInv
<1>1. Init /\ [][Next]_vars => []IInv
  BY InitIInv, StepIInv, PTL
<1> QED
  BY <1>1, PTL DEF Spec

\* Every variable of the memory manager keeps its type
THEOREM TypeCorrect == Spec => []TypeOK
<1>1. IInv => TypeOK
  BY DEF IInv
<1> QED
  BY <1>1, Invariance, PTL

\* No client ever holds, or can read, the handle of a cell that was collected:
\* the load_* functions of memory_manager.rs never panic for a client that keeps
\* what it holds in its roots
THEOREM HeapSafety == Spec => []NoDanglingHandle
<1>1. IInv => NoDanglingHandle
  BY DEF IInv, HeapClosed, NoDanglingHandle
<1> QED
  BY <1>1, Invariance, PTL

\* Interning stays exact over collections: equal contents, equal handles
THEOREM Interning == Spec => []InterningExact
<1>1. IInv => InterningExact
  BY DEF IInv
<1> QED
  BY <1>1, Invariance, PTL

\* One import for one path, and no entry for an import that is gone
THEOREM ImportTable == Spec => []ImportTableExact
<1>1. IInv => ImportTableExact
  BY DEF IInv
<1> QED
  BY <1>1, Invariance, PTL

\* The sweep never reads the path string of an import after it was removed
THEOREM SweepOrderIsSafe == Spec => []SweepCanReadPaths
<1>1. IInv => SweepCanReadPaths
  BY DEF IInv, CellsWellFormed, SweepCanReadPaths
<1> QED
  BY <1>1, Invariance, PTL

\* A collection keeps what the roots lead to and nothing else
THEOREM CollectionIsExact == Spec => []MarkedIsReachable
<1>1. IInv => MarkedIsReachable
  BY DEF IInv
<1> QED
  BY <1>1, Invariance, PTL

----------------------------------------------------------------------------
(* The bytes of a set of cells.  A sum over a finite set does not depend on *)
(* the order in which the members are taken.                                *)

First(S) == CHOOSE h \in S : TRUE
SumStep(f, g, S) == IF S = {} THEN 0 ELSE f[First(S)] + g[S \ {First(S)}]
IsSum(f, g, S) == g = [s \in SUBSET S |-> SumStep(f, g, s)]
SumTable(f, g, S) == \A s \in SUBSET S : g[s] = SumStep(f, g, s)
Total(f, S) == MapThenSumSet(LAMBDA h : f[h], S)

\* A nonempty set of naturals has a least element
LEMMA LeastIn ==
    ASSUME NEW T \in SUBSET Nat, T # {}
    PROVE  \E first \in T : \A j \in T : first <= j
<1> DEFINE R == OpToRel(<, Nat)
<1>1. \A i, j \in Nat : i < j => <<i, j>> \in R
  BY DEF OpToRel
<1>2. IsWellFoundedOn(R, Nat)
  BY NatLessThanWellFounded
<1> HIDE DEF R
<1>3. PICK first \in T : \A j \in T : ~(<<j, first>> \in R)
  BY <1>2, WFMin
<1>4. ASSUME NEW j \in T PROVE first <= j
  <2>1. first \in Nat /\ j \in Nat /\ ~(j < first)
    BY <1>1, <1>3
  <2> QED
    BY <2>1
<1> QED
  BY <1>4

\* Among sets of finite sets there is one that contains no other
LEMMA SmallestIn ==
    ASSUME NEW S, IsFiniteSet(S), NEW Bad \in SUBSET (SUBSET S), Bad # {}
    PROVE  \E T \in Bad : \A U \in Bad : U \subseteq T => U = T
<1>1. FiniteSubsetsOf(S) = SUBSET S
  BY FS_FiniteSubsetsOfFinite
<1>2. IsWellFoundedOn(StrictSubsetOrdering(S), SUBSET S)
  BY <1>1, FS_StrictSubsetOrderingWellFounded
<1>3. PICK T \in Bad : \A U \in Bad : ~ (<<U, T>> \in StrictSubsetOrdering(S))
  BY <1>2, WFMin
<1>4. ASSUME NEW U \in Bad, U \subseteq T PROVE U = T
  <2>1. U \in SUBSET S /\ T \in SUBSET S
    OBVIOUS
  <2> SUFFICES ASSUME U # T PROVE FALSE
    OBVIOUS
  <2>2. <<U, T>> \in StrictSubsetOrdering(S)
    BY <1>4, <2>1 DEF StrictSubsetOrdering
  <2> QED
    BY <1>3, <2>2
<1> QED
  BY <1>4

\* The recursive function of a sum is defined, as one member is taken at a time
LEMMA SumExists ==
    ASSUME NEW S, IsFiniteSet(S), NEW f
    PROVE  \E g : IsSum(f, g, S)
<1> DEFINE n == Cardinality(S)
           Fits(g, m) == \A s \in SUBSET S : Cardinality(s) < m => g[s] = SumStep(f, g, s)
           Bad == {m \in 0 .. n + 1 : ~ \E g : Fits(g, m)}
<1>1. n \in Nat /\ \A s \in SUBSET S : IsFiniteSet(s) /\ Cardinality(s) \in 0 .. n
  <2>1. \A s \in SUBSET S : IsFiniteSet(s) /\ Cardinality(s) \in Nat /\ Cardinality(s) <= n
    BY FS_CardinalityType, FS_Subset
  <2> QED
    BY <2>1, FS_CardinalityType
<1>2. ASSUME NEW s \in SUBSET S, s # {}
      PROVE  s \ {First(s)} \in SUBSET S /\ Cardinality(s \ {First(s)}) = Cardinality(s) - 1
  <2>1. First(s) \in s
    BY <1>2 DEF First
  <2> QED
    BY <1>1, <2>1, FS_RemoveElement
<1> HIDE DEF n
<1>3. Bad = {}
  <2> SUFFICES ASSUME Bad # {} PROVE FALSE
    OBVIOUS
  <2>1. Bad \in SUBSET Nat
    BY <1>1
  <2>2. PICK m \in Bad : \A j \in Bad : m <= j
    BY <2>1, LeastIn
  <2>3. m \in 0 .. n + 1 /\ ~ \E g : Fits(g, m)
    OBVIOUS
  <2>4. m # 0
    <3>1. Fits([s \in SUBSET S |-> s], 0)
      BY <1>1
    <3> QED
      BY <2>3, <3>1
  <2>5. m - 1 \in 0 .. n + 1 /\ m \in Nat /\ m - 1 < m
    BY <1>1, <2>3, <2>4
  <2>6. m - 1 \notin Bad
    <3> HIDE DEF Bad
    <3> QED
      BY <2>2, <2>5
  <2>7. PICK f1 : Fits(f1, m - 1)
    BY <2>5, <2>6
  <2> DEFINE g == [s \in SUBSET S |-> IF Cardinality(s) < m - 1 THEN f1[s] ELSE SumStep(f, f1, s)]
  <2>8. \A s \in SUBSET S : g[s] = SumStep(f, f1, s)
    BY <2>7
  <2>9. ASSUME NEW s \in SUBSET S, Cardinality(s) < m PROVE SumStep(f, g, s) = SumStep(f, f1, s)
    <3>1. CASE s = {}
      BY <3>1 DEF SumStep
    <3>2. CASE s # {}
      <4> DEFINE r == s \ {First(s)}
      <4>1. r \in SUBSET S /\ Cardinality(r) < m - 1
        BY <1>1, <1>2, <2>5, <2>9, <3>2
      <4>2. g[r] = f1[r]
        BY <4>1
      <4> HIDE DEF g
      <4> QED
        BY <3>2, <4>2 DEF SumStep
    <3> QED
      BY <3>1, <3>2
  <2> HIDE DEF g
  <2>10. Fits(g, m)
    BY <2>8, <2>9
  <2> QED
    BY <2>3, <2>10
<1>4. PICK f1 : Fits(f1, n + 1)
  <2>1. n + 1 \in 0 .. n + 1
    BY <1>1
  <2> QED
    BY <1>3, <2>1
<1>5. \A s \in SUBSET S : f1[s] = SumStep(f, f1, s)
  BY <1>1, <1>4
<1> DEFINE g == [s \in SUBSET S |-> f1[s]]
<1>6. ASSUME NEW s \in SUBSET S PROVE g[s] = SumStep(f, g, s)
  <2>1. CASE s = {}
    BY <1>5, <2>1 DEF SumStep
  <2>2. CASE s # {}
    <3>1. g[s \ {First(s)}] = f1[s \ {First(s)}]
      BY <1>2, <2>2
    <3>2. g[s] = SumStep(f, f1, s)
      BY <1>5
    <3> HIDE DEF g
    <3> QED
      BY <2>2, <3>1, <3>2 DEF SumStep
  <2> QED
    BY <2>1, <2>2
<1>7. g = [s \in SUBSET S |-> g[s]]
  OBVIOUS
<1> HIDE DEF g
<1>8. [s \in SUBSET S |-> g[s]] = [s \in SUBSET S |-> SumStep(f, g, s)]
  BY <1>6
<1> QED
  BY <1>7, <1>8 DEF IsSum

\* A sum is the value of that function at the whole set
LEMMA TotalIs ==
    ASSUME NEW S, IsFiniteSet(S), NEW f
    PROVE  \E g : SumTable(f, g, S) /\ Total(f, S) = g[S]
<1> DEFINE D == CHOOSE g : g = [s \in SUBSET S |-> IF s = {} THEN 0
                                ELSE f[CHOOSE h \in s : TRUE] + g[s \ {CHOOSE h \in s : TRUE}]]
<1>1. \E g : g = [s \in SUBSET S |-> IF s = {} THEN 0
                     ELSE f[CHOOSE h \in s : TRUE] + g[s \ {CHOOSE h \in s : TRUE}]]
  <2>1. \E g : IsSum(f, g, S)
    BY SumExists
  <2> QED
    BY <2>1 DEF IsSum, SumStep, First
<1>2. D = [s \in SUBSET S |-> IF s = {} THEN 0
                     ELSE f[CHOOSE h \in s : TRUE] + D[s \ {CHOOSE h \in s : TRUE}]]
  BY <1>1
<1>3. Total(f, S) = D[S]
  BY DEF Total, MapThenSumSet, MapThenFoldSet
<1> HIDE DEF D
<1>4. \A s \in SUBSET S : D[s] = SumStep(f, D, s)
  BY <1>2 DEF SumStep, First
<1> QED
  BY <1>3, <1>4 DEF SumTable

\* Two such functions agree where both are defined
LEMMA SumUnique ==
    ASSUME NEW S, IsFiniteSet(S), NEW f, NEW g, NEW h,
           SumTable(f, g, S), SumTable(f, h, S)
    PROVE  \A s \in SUBSET S : g[s] = h[s]
<1> DEFINE Bad == {s \in SUBSET S : g[s] # h[s]}
<1> SUFFICES ASSUME Bad # {} PROVE FALSE
  OBVIOUS
<1>1. PICK T \in Bad : \A U \in Bad : U \subseteq T => U = T
  <2>1. Bad \in SUBSET (SUBSET S)
    OBVIOUS
  <2> HIDE DEF Bad
  <2> QED
    BY <2>1, SmallestIn
<1>2. T \in SUBSET S /\ g[T] # h[T] /\ g[T] = SumStep(f, g, T) /\ h[T] = SumStep(f, h, T)
  BY DEF SumTable
<1>3. T # {}
  BY <1>2 DEF SumStep
<1>4. First(T) \in T
  BY <1>3 DEF First
<1>5. T \ {First(T)} \notin Bad
  <2> HIDE DEF Bad
  <2> QED
    BY <1>1, <1>4
<1>6. g[T \ {First(T)}] = h[T \ {First(T)}]
  BY <1>2, <1>5
<1> QED
  BY <1>2, <1>3, <1>6 DEF SumStep

\* A sum is its first member and the sum of the others
LEMMA TotalEquation ==
    ASSUME NEW f
    PROVE  /\ Total(f, {}) = 0
           /\ \A S : IsFiniteSet(S) /\ S # {} =>
                First(S) \in S /\ Total(f, S) = f[First(S)] + Total(f, S \ {First(S)})
<1>1. ASSUME NEW S, IsFiniteSet(S) PROVE
        \E g : Total(f, S) = SumStep(f, g, S) /\ \A T \in SUBSET S : Total(f, T) = g[T]
  <2>1. PICK g : SumTable(f, g, S) /\ Total(f, S) = g[S]
    BY <1>1, TotalIs
  <2>2. ASSUME NEW T \in SUBSET S PROVE Total(f, T) = g[T]
    <3>1. IsFiniteSet(T)
      BY <1>1, FS_Subset
    <3>2. PICK h : SumTable(f, h, T) /\ Total(f, T) = h[T]
      BY <3>1, TotalIs
    <3>3. SumTable(f, g, T)
      BY <2>1 DEF SumTable
    <3>4. \A s \in SUBSET T : g[s] = h[s]
      BY <3>1, <3>2, <3>3, SumUnique
    <3> QED
      BY <3>2, <3>4
  <2>3. Total(f, S) = SumStep(f, g, S)
    BY <2>1 DEF SumTable
  <2> QED
    BY <2>2, <2>3
<1>2. Total(f, {}) = 0
  <2>1. IsFiniteSet({})
    BY FS_EmptySet
  <2> QED
    BY <1>1, <2>1 DEF SumStep
<1>3. ASSUME NEW S, IsFiniteSet(S), S # {}
      PROVE  First(S) \in S /\ Total(f, S) = f[First(S)] + Total(f, S \ {First(S)})
  <2>1. First(S) \in S
    BY <1>3 DEF First
  <2>2. PICK g : Total(f, S) = SumStep(f, g, S) /\ \A T \in SUBSET S : Total(f, T) = g[T]
    BY <1>1, <1>3
  <2>3. Total(f, S \ {First(S)}) = g[S \ {First(S)}]
    BY <2>2
  <2>4. SumStep(f, g, S) = f[First(S)] + g[S \ {First(S)}]
    BY <1>3 DEF SumStep
  <2> QED
    BY <2>1, <2>2, <2>3, <2>4
<1> QED
  BY <1>2, <1>3

\* A sum of naturals is one
LEMMA TotalType ==
    ASSUME NEW S, IsFiniteSet(S), NEW f, \A h \in S : f[h] \in Nat
    PROVE  Total(f, S) \in Nat
<1> DEFINE Bad == {T \in SUBSET S : Total(f, T) \notin Nat}
<1> SUFFICES ASSUME Bad # {} PROVE FALSE
  OBVIOUS
<1>1. PICK T \in Bad : \A U \in Bad : U \subseteq T => U = T
  <2>1. Bad \in SUBSET (SUBSET S)
    OBVIOUS
  <2> HIDE DEF Bad
  <2> QED
    BY <2>1, SmallestIn
<1>2. T \in SUBSET S /\ IsFiniteSet(T) /\ Total(f, T) \notin Nat
  BY FS_Subset
<1>3. T # {}
  <2>1. Total(f, {}) \in Nat
    BY TotalEquation
  <2> HIDE DEF Bad
  <2> QED
    BY <1>2, <2>1
<1>4. First(T) \in T /\ Total(f, T) = f[First(T)] + Total(f, T \ {First(T)})
  BY <1>2, <1>3, TotalEquation
<1>5. T \ {First(T)} \notin Bad
  <2> HIDE DEF Bad
  <2> QED
    BY <1>1, <1>4
<1>6. Total(f, T \ {First(T)}) \in Nat
  BY <1>2, <1>5
<1>7. f[First(T)] \in Nat
  BY <1>2, <1>4
<1> QED
  BY <1>2, <1>4, <1>6, <1>7

\* Any member can be taken first
LEMMA TotalRemove ==
    ASSUME NEW S, IsFiniteSet(S), NEW f, \A h \in S : f[h] \in Nat, NEW x \in S
    PROVE  Total(f, S) = f[x] + Total(f, S \ {x})
<1> DEFINE Bad == {T \in SUBSET S : \E h \in T : Total(f, T) # f[h] + Total(f, T \ {h})}
<1> SUFFICES ASSUME Bad # {} PROVE FALSE
  OBVIOUS
<1>1. PICK T \in Bad : \A U \in Bad : U \subseteq T => U = T
  <2>1. Bad \in SUBSET (SUBSET S)
    OBVIOUS
  <2> HIDE DEF Bad
  <2> QED
    BY <2>1, SmallestIn
<1>2. T \in SUBSET S
  OBVIOUS
<1>3. PICK h \in T : Total(f, T) # f[h] + Total(f, T \ {h})
  OBVIOUS
<1>4. \A U \in SUBSET S : IsFiniteSet(U) /\ Total(f, U) \in Nat
  <2>1. ASSUME NEW U \in SUBSET S PROVE IsFiniteSet(U) /\ Total(f, U) \in Nat
    <3>1. IsFiniteSet(U) /\ \A e \in U : f[e] \in Nat
      BY FS_Subset
    <3> QED
      BY <3>1, TotalType
  <2> QED
    BY <2>1
<1> DEFINE p == First(T)
           V == (T \ {p}) \ {h}
<1>5. p \in T /\ Total(f, T) = f[p] + Total(f, T \ {p})
  BY <1>2, <1>3, <1>4, TotalEquation
<1>6. p # h
  BY <1>3, <1>5
<1>7. Total(f, T \ {p}) = f[h] + Total(f, V)
  <2>1. T \ {p} \notin Bad
    <3> HIDE DEF Bad
    <3> QED
      BY <1>1, <1>5
  <2>2. h \in T \ {p}
    BY <1>3, <1>6
  <2> HIDE DEF p
  <2> QED
    BY <1>2, <2>1, <2>2
<1>8. Total(f, T \ {h}) = f[p] + Total(f, V)
  <2>1. T \ {h} \notin Bad
    <3> HIDE DEF Bad
    <3> QED
      BY <1>1, <1>3
  <2>2. p \in T \ {h} /\ (T \ {h}) \ {p} = V
    BY <1>5, <1>6
  <2> HIDE DEF p, V
  <2> QED
    BY <1>2, <2>1, <2>2
<1>9. V \in SUBSET S /\ f[p] \in Nat /\ f[h] \in Nat /\ Total(f, V) \in Nat
  BY <1>2, <1>3, <1>4, <1>5
<1> HIDE DEF p, V
<1> QED
  BY <1>3, <1>5, <1>7, <1>8, <1>9

\* What is taken away and what is left add up
LEMMA TotalSplit ==
    ASSUME NEW S, IsFiniteSet(S), NEW f, \A h \in S : f[h] \in Nat, NEW D \in SUBSET S
    PROVE  /\ Total(f, S) = Total(f, D) + Total(f, S \ D)
           /\ Total(f, S) \in Nat /\ Total(f, D) \in Nat /\ Total(f, S \ D) \in Nat
<1>1. \A U \in SUBSET S : IsFiniteSet(U) /\ Total(f, U) \in Nat
  <2>1. ASSUME NEW U \in SUBSET S PROVE IsFiniteSet(U) /\ Total(f, U) \in Nat
    <3>1. IsFiniteSet(U) /\ \A e \in U : f[e] \in Nat
      BY FS_Subset
    <3> QED
      BY <3>1, TotalType
  <2> QED
    BY <2>1
<1> DEFINE Bad == {T \in SUBSET S : Total(f, S) # Total(f, T) + Total(f, S \ T)}
<1>2. Bad = {}
  <2> SUFFICES ASSUME Bad # {} PROVE FALSE
    OBVIOUS
  <2>1. PICK T \in Bad : \A U \in Bad : U \subseteq T => U = T
    <3>1. Bad \in SUBSET (SUBSET S)
      OBVIOUS
    <3> HIDE DEF Bad
    <3> QED
      BY <3>1, SmallestIn
  <2>2. T \in SUBSET S /\ Total(f, S) # Total(f, T) + Total(f, S \ T)
    OBVIOUS
  <2>3. T # {}
    <3>1. S \ {} = S
      OBVIOUS
    <3>2. Total(f, {}) = 0
      BY TotalEquation
    <3>3. Total(f, S) \in Nat
      BY <1>1
    <3>4. Total(f, S) = Total(f, {}) + Total(f, S \ {})
      BY <3>1, <3>2, <3>3
    <3> HIDE DEF Bad
    <3> QED
      BY <2>2, <3>4
  <2>4. PICK x \in T : TRUE
    BY <2>3
  <2> DEFINE R == T \ {x}
             Q == S \ R
  <2>5. Total(f, S) = Total(f, R) + Total(f, Q)
    <3>1. R \notin Bad
      <4> HIDE DEF Bad
      <4> QED
        BY <2>1, <2>4
    <3> QED
      BY <2>2, <3>1
  <2>6. Total(f, T) = f[x] + Total(f, R)
    <3>1. IsFiniteSet(T) /\ \A h \in T : f[h] \in Nat
      BY <1>1, <2>2
    <3> QED
      BY <2>4, <3>1, TotalRemove
  <2>7. Total(f, Q) = f[x] + Total(f, S \ T)
    <3>1. Q \in SUBSET S /\ x \in Q /\ Q \ {x} = S \ T
      BY <2>2, <2>4
    <3>2. IsFiniteSet(Q) /\ \A h \in Q : f[h] \in Nat
      BY <1>1, <3>1
    <3> HIDE DEF Q
    <3>3. Total(f, Q) = f[x] + Total(f, Q \ {x})
      BY <3>1, <3>2, TotalRemove
    <3> QED
      BY <3>1, <3>3
  <2>8. R \in SUBSET S /\ S \ T \in SUBSET S /\ f[x] \in Nat
    BY <2>2, <2>4
  <2>9. Total(f, R) \in Nat /\ Total(f, S \ T) \in Nat
    BY <1>1, <2>8
  <2> HIDE DEF R, Q, Bad
  <2> QED
    BY <2>2, <2>5, <2>6, <2>7, <2>8, <2>9
<1>3. S \in SUBSET S /\ D \in SUBSET S /\ S \ D \in SUBSET S
  OBVIOUS
<1> QED
  BY <1>1, <1>2, <1>3

\* Members that grow make the sum grow
LEMMA TotalGrows ==
    ASSUME NEW S, IsFiniteSet(S), NEW f, NEW g,
           \A h \in S : f[h] \in Nat /\ g[h] \in Nat /\ f[h] <= g[h]
    PROVE  Total(f, S) <= Total(g, S)
<1> DEFINE Bad == {T \in SUBSET S : ~ (Total(f, T) <= Total(g, T))}
<1> SUFFICES ASSUME Bad # {} PROVE FALSE
  OBVIOUS
<1>1. PICK T \in Bad : \A U \in Bad : U \subseteq T => U = T
  <2>1. Bad \in SUBSET (SUBSET S)
    OBVIOUS
  <2> HIDE DEF Bad
  <2> QED
    BY <2>1, SmallestIn
<1>2. T \in SUBSET S /\ IsFiniteSet(T) /\ ~ (Total(f, T) <= Total(g, T))
  BY FS_Subset
<1>3. T # {}
  BY <1>2, TotalEquation
<1> DEFINE p == First(T)
           R == T \ {p}
<1>4. p \in T /\ Total(f, T) = f[p] + Total(f, R) /\ Total(g, T) = g[p] + Total(g, R)
  BY <1>2, <1>3, TotalEquation
<1>5. Total(f, R) <= Total(g, R)
  <2>1. R \notin Bad
    <3> HIDE DEF Bad
    <3> QED
      BY <1>1, <1>4
  <2>2. R \in SUBSET S
    BY <1>2
  <2> HIDE DEF R
  <2> QED
    BY <2>1, <2>2
<1>6. f[p] \in Nat /\ g[p] \in Nat /\ f[p] <= g[p]
  BY <1>2, <1>4
<1>7. IsFiniteSet(R) /\ \A h \in R : f[h] \in Nat /\ g[h] \in Nat
  BY <1>2, FS_RemoveElement
<1>8. Total(f, R) \in Nat /\ Total(g, R) \in Nat
  BY <1>7, TotalType
<1> HIDE DEF p, R, Bad
<1> QED
  BY <1>2, <1>4, <1>5, <1>6, <1>8

(* The count of bytes is at most what the cells take. *)
BytesInv == IsFiniteSet(live) /\ NeverOvercounted

\* Bytes are a sum; those of the cells that are there and those counted are naturals
LEMMA BytesFacts ==
    ASSUME TypeOK, BytesInv
    PROVE  /\ IsFiniteSet(live) /\ \A h \in live : size[h] \in Nat
           /\ Total(size, live) \in Nat /\ allocated \in Nat /\ allocated <= Total(size, live)
<1>1. IsFiniteSet(live) /\ \A h \in live : size[h] \in Nat
  BY DEF TypeOK, BytesInv
<1>2. Total(size, live) \in Nat
  BY <1>1, TotalType
<1>3. allocated <= Total(size, live)
  BY DEF BytesInv, NeverOvercounted, Bytes, Total
<1> QED
  BY <1>1, <1>2, <1>3 DEF TypeOK

\* Bytes is the sum of the sizes
LEMMA BytesTotal == Bytes(live) = Total(size, live)
BY DEF Bytes, Total

\* The invariant of the next state
LEMMA BytesNext ==
    ASSUME IsFiniteSet(live'), allocated' <= Total(size', live')
    PROVE  BytesInv'
<1>1. (Bytes(live) = Total(size, live))'
  BY BytesTotal, PTL
<1>2. Bytes(live)' = Total(size', live')
  BY <1>1
<1> QED
  BY <1>2 DEF BytesInv, NeverOvercounted

\* Cells may grow while they stay what they are
LEMMA GrownStep ==
    ASSUME TypeOK, TypeOK', BytesInv, live' = live, allocated' = allocated,
           \A h \in live : size[h] <= size'[h]
    PROVE  BytesInv'
<1>1. \A h \in live : size'[h] \in Nat
  BY DEF TypeOK
<1>2. Total(size, live) <= Total(size', live)
  BY <1>1, BytesFacts, TotalGrows
<1>3. Total(size', live) \in Nat
  BY <1>1, BytesFacts, TotalType
<1>4. allocated' <= Total(size', live)
  BY <1>2, <1>3, BytesFacts
<1> QED
  BY <1>4, BytesFacts, BytesNext

\* New cells of one byte each
LEMMA AddCell ==
    ASSUME NEW S, IsFiniteSet(S), NEW f, NEW h, h \notin S, f[h] = 1, \A e \in S : f[e] \in Nat
    PROVE  /\ IsFiniteSet(S \cup {h}) /\ \A e \in S \cup {h} : f[e] \in Nat
           /\ Total(f, S) \in Nat /\ Total(f, S \cup {h}) = Total(f, S) + 1
<1> DEFINE T == S \cup {h}
<1>1. IsFiniteSet(T) /\ (\A e \in T : f[e] \in Nat) /\ h \in T
  BY FS_AddElement
<1>2. Total(f, T \ {h}) = Total(f, S)
  <2>1. T \ {h} = S
    OBVIOUS
  <2> QED
    BY <2>1
<1>3. Total(f, S) \in Nat
  BY TotalType
<1> HIDE DEF T
<1>4. Total(f, T) = f[h] + Total(f, T \ {h})
  BY <1>1, TotalRemove
<1>5. Total(f, T) = Total(f, S) + 1
  BY <1>2, <1>3, <1>4
<1> QED
  BY <1>1, <1>3, <1>5 DEF T

\* An allocation counts the byte that the new cell takes
LEMMA InsertBytes ==
    ASSUME TypeOK, TypeOK', BytesInv, NEW h, NEW k, NEW vs, NEW us, Insert(h, k, vs, us)
    PROVE  BytesInv'
<1>1. /\ h \in Handle /\ h \notin live /\ live' = live \cup {h} /\ allocated' = allocated + 1
      /\ size' = [size EXCEPT ![h] = 1]
  BY DEF Insert, Fresh, TypeOK
<1>2. size'[h] = 1 /\ \A e \in live : size'[e] = size[e]
  BY <1>1 DEF TypeOK
<1>3. \A e \in live : size[e] \in Nat /\ size'[e] \in Nat /\ size[e] <= size'[e]
  BY <1>2, BytesFacts
<1>4. Total(size, live) <= Total(size', live)
  BY <1>3, BytesFacts, TotalGrows
<1>5. /\ IsFiniteSet(live \cup {h}) /\ Total(size', live) \in Nat
      /\ Total(size', live \cup {h}) = Total(size', live) + 1
  BY <1>1, <1>2, <1>3, BytesFacts, AddCell
<1>6. allocated + 1 <= Total(size', live \cup {h})
  BY <1>4, <1>5, BytesFacts
<1> QED
  BY <1>1, <1>5, <1>6, BytesNext

\* An import with its path string is two cells
LEMMA InsertTwoBytes ==
    ASSUME TypeOK, TypeOK', BytesInv, NEW s \in Handle \ used, NEW h \in Handle \ used, s # h,
           live' = live \cup {s, h}, allocated' = allocated + 2,
           size' = [size EXCEPT ![s] = 1, ![h] = 1]
    PROVE  BytesInv'
<1>1. s \notin live /\ h \notin live \cup {s}
  BY DEF TypeOK
<1>2. size'[s] = 1 /\ size'[h] = 1 /\ \A e \in live : size'[e] = size[e]
  BY <1>1 DEF TypeOK
<1>3. ASSUME NEW e \in live PROVE size[e] \in Nat /\ size'[e] \in Nat /\ size[e] <= size'[e]
  <2>1. size[e] \in Nat
    BY BytesFacts
  <2>2. size'[e] = size[e]
    BY <1>2
  <2> QED
    BY <2>1, <2>2
<1>4. Total(size, live) <= Total(size', live)
  BY <1>3, BytesFacts, TotalGrows
<1> DEFINE T == live \cup {s}
<1>5. /\ IsFiniteSet(T) /\ (\A e \in T : size'[e] \in Nat) /\ Total(size', live) \in Nat
      /\ Total(size', T) = Total(size', live) + 1
  BY <1>1, <1>2, <1>3, BytesFacts, AddCell
<1>6. live' = T \cup {h} /\ h \notin T
  BY <1>1
<1> HIDE DEF T
<1>7. IsFiniteSet(T \cup {h}) /\ Total(size', T \cup {h}) = Total(size', T) + 1
  BY <1>2, <1>5, <1>6, AddCell
<1>8. allocated' <= Total(size', T \cup {h})
  BY <1>4, <1>5, <1>7, BytesFacts
<1> QED
  BY <1>6, <1>7, <1>8, BytesNext

\* A sweep takes off what the cells it removes take
LEMMA SweepBytes ==
    ASSUME TypeOK, BytesInv, NEW ks, SweepKinds(ks), size' = size
    PROVE  BytesInv'
<1> DEFINE dead == Unmarked(ks)
           left == live \ dead
<1>1. dead \in SUBSET live /\ live' = left /\ allocated' = Saturating(allocated, Total(size, dead))
  BY DEF SweepKinds, Bytes, Total, Unmarked
<1>2. IsFiniteSet(left)
  BY BytesFacts, FS_Subset
<1> HIDE DEF dead
<1>3. /\ Total(size, live) = Total(size, dead) + Total(size, left)
      /\ Total(size, dead) \in Nat /\ Total(size, left) \in Nat
  BY <1>1, BytesFacts, TotalSplit
<1> HIDE DEF left
<1>4. allocated' <= Total(size, left)
  BY <1>1, <1>3, BytesFacts DEF Saturating
<1> QED
  BY <1>1, <1>2, <1>4, BytesNext

\* Every step keeps the invariant of the count
LEMMA BytesStep ==
    ASSUME IInv, BytesInv, [Next]_vars PROVE BytesInv'
<1>1. TypeOK /\ TypeOK'
  BY StepIInv DEF IInv
<1>2. CASE UNCHANGED <<live, allocated, size>>
  <2>1. \A h \in live : size[h] <= size'[h]
    BY <1>2, BytesFacts, <1>1
  <2> QED
    BY <1>1, <1>2, <2>1, GrownStep
<1>3. CASE \E h, k, vs, us : Insert(h, k, vs, us)
  BY <1>1, <1>3, InsertBytes
<1>4. CASE \E h \in Handle : \E vs, bytes : WriteRefs(h, vs, bytes) /\ bytes \in {size[h], size[h] + 1}
  <2>1. PICK h \in Handle : \E vs, bytes : WriteRefs(h, vs, bytes) /\ bytes \in {size[h], size[h] + 1}
    BY <1>4
  <2>2. PICK bytes \in {size[h], size[h] + 1} :
           size' = [size EXCEPT ![h] = bytes] /\ live' = live /\ allocated' = allocated
    BY <2>1 DEF WriteRefs
  <2>3. size[h] \in Nat /\ size[h] <= bytes
    BY <1>1, <2>2 DEF TypeOK
  <2>4. \A e \in live : size[e] <= size'[e]
    <3>1. ASSUME NEW e \in live PROVE size[e] <= size'[e]
      <4>1. size[e] \in Nat /\ e \in Handle /\ size'[e] = IF e = h THEN bytes ELSE size[e]
        BY <1>1, <2>2 DEF TypeOK
      <4> QED
        BY <2>3, <4>1
    <3> QED
      BY <3>1
  <2> QED
    BY <1>1, <2>2, <2>4, GrownStep
<1>5. CASE \E c \in Content : AllocateString(c)
  <2>1. \/ UNCHANGED <<live, allocated, size>>
        \/ \E h, k, vs, us : Insert(h, k, vs, us)
    BY <1>5 DEF AllocateString, cellVars
  <2> QED
    BY <1>2, <1>3, <2>1
<1>6. CASE \E c \in Content : AllocateImport(c)
  <2>1. \/ UNCHANGED <<live, allocated, size>>
        \/ \E h, k, vs, us : Insert(h, k, vs, us)
        \/ \E s, h \in Handle \ used :
              /\ s # h /\ live' = live \cup {s, h} /\ allocated' = allocated + 2
              /\ size' = [size EXCEPT ![s] = 1, ![h] = 1]
    BY <1>6 DEF AllocateImport, Fresh, cellVars
  <2> QED
    BY <1>1, <1>2, <1>3, <2>1, InsertTwoBytes
<1>7. CASE AllocateObject \/ AllocateArray \/ AllocateFunction \/ AllocateBinary \/ AllocateNativeThunk
  <2>1. \E k, vs : AllocateHolding(k, vs)
    BY <1>7 DEF AllocateObject, AllocateArray, AllocateFunction, AllocateBinary, AllocateNativeThunk
  <2> QED
    BY <1>3, <2>1 DEF AllocateHolding
<1>8. CASE AllocateClosure \/ AllocateUpvalue
  BY <1>3, <1>8 DEF AllocateClosure, AllocateUpvalue
<1>9. CASE \E h \in Handle : StoreElement(h) \/ AppendInPlace(h)
  <2>1. PICK h \in Handle : StoreElement(h) \/ AppendInPlace(h)
    BY <1>9
  <2> QED
    BY <1>4, <2>1 DEF StoreElement, AppendInPlace
<1>10. CASE \E h \in Handle : Load(h) \/ LoadUpvalue(h) \/ Drop(h) \/ CloseUpvalue(h)
                              \/ ForceUpvalue(h) \/ SetCached(h) \/ MarkNext(h)
  BY <1>2, <1>10 DEF Load, LoadUpvalue, Drop, CloseUpvalue, ForceUpvalue, SetCached, MarkNext,
                     WriteSlot, cellVars
<1>11. CASE \/ PushExternalRoots \/ PushValueRoots \/ PopExternalRoots \/ PopValueRoots
            \/ StartGC \/ MarkDone \/ UNCHANGED vars
  BY <1>2, <1>11 DEF PushExternalRoots, PushValueRoots, PopExternalRoots, PopValueRoots,
                     StartGC, MarkDone, vars, cellVars
<1>12. CASE SweepFirst \/ SweepSecond
  BY <1>1, <1>12, SweepBytes DEF SweepFirst, SweepSecond, cellVars
<1> QED
  BY <1>5, <1>6, <1>7, <1>8, <1>9, <1>10, <1>11, <1>12 DEF Next, ClientStep, GCStep

\* What a collection is started by is never more than the cells take: memory
\* that was given back is not counted, whatever grew in place in between
THEOREM BytesNotOvercounted == Spec => []NeverOvercounted
<1>1. Init => BytesInv
  <2> SUFFICES ASSUME Init PROVE BytesInv
    OBVIOUS
  <2>1. live = {} /\ allocated = 0 /\ IsFiniteSet({}) /\ Total(size, {}) = 0
    BY FS_EmptySet, TotalEquation DEF Init
  <2> QED
    BY <2>1 DEF BytesInv, NeverOvercounted, Bytes, Total
<1>2. IInv /\ BytesInv /\ [Next]_vars => BytesInv'
  BY BytesStep
<1>3. BytesInv => NeverOvercounted
  BY DEF BytesInv
<1>4. Spec => [][Next]_vars /\ Init
  BY PTL DEF Spec
<1> QED
  BY <1>1, <1>2, <1>3, <1>4, Invariance, PTL

=============================================================================
