--------------------------- MODULE MemoryManager ---------------------------
(***************************************************************************)
(* The heap of the interpreter (src/src/memory_manager.rs): slot maps of   *)
(* cells, string interning, the import table, the stacks of external roots *)
(* and the mark-and-sweep collector.                                       *)
(*                                                                         *)
(* One set Handle stands for the keys of all nine slot maps; a key carries *)
(* a version, so a handle that was removed is never handed out again.  A   *)
(* cell is its kind and its edges: refs are the Values it is made with,    *)
(* slot is the Value it may be given later (closed_value of an upvalue,    *)
(* cached_result of an import, cached of a native thunk); the collector    *)
(* pushes both on its work list.  ups are the upvalue indices of a         *)
(* closure, which it marks on the spot.                                    *)
(*                                                                         *)
(* The client is a virtual machine or a compiler.  It works with the       *)
(* values in `held' (its stack, its constants) and the upvalues in         *)
(* `heldUps' (its open upvalue list), passes both as the roots of a        *)
(* collection, and cannot run while one is going on.                       *)
(***************************************************************************)
EXTENDS Integers, Sequences, FiniteSets, FiniteSetsExt

CONSTANTS
    Handle,         \* keys of the slot maps
    Content,        \* contents of strings; the paths of imports are contents
    Kinds,          \* the kinds of cell the client allocates
    None,           \* Option::None in a lookup table
    StressGC,       \* the stress_gc feature: collect after every allocation
    InitThreshold,  \* the first gc_threshold
    MaxEdges,       \* bound: edges given to a new cell
    MaxGrowth,      \* bound: elements pushed in place on one array
    MaxExternal     \* bound: sets of external roots at one time

AllKinds == {"String", "Object", "Array", "Function", "Closure", "Upvalue",
             "Import", "Binary", "NativeThunk"}

ASSUME NoneAssumption == None \notin Handle /\ None \notin Content
ASSUME KindsAssumption == Kinds \subseteq AllKinds
ASSUME BoundsAssumption ==
    /\ StressGC \in BOOLEAN
    /\ InitThreshold \in Nat /\ MaxEdges \in Nat
    /\ MaxGrowth \in Nat /\ MaxExternal \in Nat

VARIABLES
    live,       \* handles present in the slot maps
    used,       \* handles ever handed out
    kind,       \* kind of a cell
    refs,       \* the Values in a cell
    slot,       \* the optional Value of an upvalue, import or native thunk
    ups,        \* the upvalues of a closure
    text,       \* content of a string
    path,       \* the path string of an import
    size,       \* bytes of a cell as its size() would report them now
    interned,   \* interned_strings: content -> handle
    lookup,     \* import_lookup: path -> handle
    allocated,  \* allocated_bytes
    threshold,  \* gc_threshold
    external,   \* external_roots
    externalUps,\* external_upvalue_roots
    shouldGC,   \* should_garbage_collect of the last allocation, until acted on
    held,       \* values the client works with
    heldUps,    \* upvalues on the client's open list
    pc,         \* "client", or the phase of run_garbage_collect
    work,       \* the work list of the mark phase
    marked      \* cells whose mark bit is set

cellVars   == <<kind, refs, slot, ups, text, path, size>>
tableVars  == <<interned, lookup>>
rootVars   == <<external, externalUps, held, heldUps>>
gcVars     == <<pc, work, marked>>
vars == <<live, used, cellVars, tableVars, allocated, threshold, shouldGC,
          rootVars, gcVars>>

Phases == {"client", "mark", "sweep1", "sweep2"}

TypeOK ==
    /\ live \subseteq used /\ used \subseteq Handle
    /\ kind \in [Handle -> AllKinds]
    /\ refs \in [Handle -> SUBSET Handle]
    /\ slot \in [Handle -> Handle \cup {None}]
    /\ ups \in [Handle -> SUBSET Handle]
    /\ text \in [Handle -> Content \cup {None}]
    /\ path \in [Handle -> Handle \cup {None}]
    /\ size \in [Handle -> Nat]
    /\ interned \in [Content -> Handle \cup {None}]
    /\ lookup \in [Content -> Handle \cup {None}]
    /\ allocated \in Nat /\ threshold \in Nat
    /\ external \in Seq(SUBSET Handle)
    /\ externalUps \in Seq(SUBSET Handle)
    /\ shouldGC \in BOOLEAN
    /\ held \subseteq Handle /\ heldUps \subseteq Handle
    /\ pc \in Phases
    /\ work \subseteq Handle /\ marked \subseteq Handle

(***************************************************************************)
(* Roots.  The collector reads an upvalue root through mark_upvalue and    *)
(* every other root through the work list.                                 *)
(***************************************************************************)
InExternal(s) == UNION {s[i] : i \in 1 .. Len(s)}
ValueRoots == held \cup InExternal(external)
UpvalueRoots == heldUps \cup InExternal(externalUps)
Roots == ValueRoots \cup UpvalueRoots

Values(h) == refs[h] \cup ({slot[h]} \ {None})
Edges(h) == Values(h) \cup ups[h]

Closed(S) == \A h \in S : Edges(h) \subseteq S

Init ==
    /\ live = {} /\ used = {}
    /\ kind = [h \in Handle |-> "Binary"]
    /\ refs = [h \in Handle |-> {}]
    /\ slot = [h \in Handle |-> None]
    /\ ups = [h \in Handle |-> {}]
    /\ text = [h \in Handle |-> None]
    /\ path = [h \in Handle |-> None]
    /\ size = [h \in Handle |-> 0]
    /\ interned = [c \in Content |-> None]
    /\ lookup = [c \in Content |-> None]
    /\ allocated = 0 /\ threshold = InitThreshold
    /\ external = <<>> /\ externalUps = <<>>
    /\ shouldGC = FALSE
    /\ held = {} /\ heldUps = {}
    /\ pc = "client" /\ work = {} /\ marked = {}

(***************************************************************************)
(* Allocation.                                                             *)
(***************************************************************************)
Fresh(h) == h \in Handle \ used

\* should_collect, for the count of bytes the allocation leaves behind
ShouldCollect(bytes) == StressGC \/ bytes >= threshold

\* SlotMap::insert of a cell of one byte, and the bookkeeping all allocate_*
\* functions share
Insert(h, k, vs, us) ==
    /\ pc = "client"
    /\ k \in Kinds
    /\ Fresh(h)
    /\ live' = live \cup {h}
    /\ used' = used \cup {h}
    /\ kind' = [kind EXCEPT ![h] = k]
    /\ refs' = [refs EXCEPT ![h] = vs]
    /\ slot' = [slot EXCEPT ![h] = None]
    /\ ups' = [ups EXCEPT ![h] = us]
    /\ size' = [size EXCEPT ![h] = 1]
    /\ allocated' = allocated + 1
    /\ shouldGC' = ShouldCollect(allocated + 1)
    /\ UNCHANGED <<threshold, external, externalUps, gcVars>>

SmallSubset(S) == {T \in SUBSET S : Cardinality(T) <= MaxEdges}

HeldOf(ks) == {h \in held : kind[h] \in ks}

\* A content that is interned already is answered with its handle and never
\* asks for a collection; otherwise a cell and a table entry are made.
AllocateString(c) ==
    /\ pc = "client"
    /\ \/ /\ interned[c] # None
          /\ held' = held \cup {interned[c]}
          /\ shouldGC' = FALSE
          /\ UNCHANGED <<live, used, cellVars, tableVars, allocated, threshold,
                         external, externalUps, heldUps, gcVars>>
       \/ /\ interned[c] = None
          /\ \E h \in Handle :
                /\ Insert(h, "String", {}, {})
                /\ text' = [text EXCEPT ![h] = c]
                /\ interned' = [interned EXCEPT ![c] = h]
                /\ held' = held \cup {h}
                /\ UNCHANGED <<path, lookup, heldUps>>

\* Allocations whose cell holds values the client has at hand
AllocateHolding(k, vs) ==
    \E h \in Handle :
        /\ Insert(h, k, vs, {})
        /\ held' = held \cup {h}
        /\ UNCHANGED <<text, path, tableVars, heldUps>>

\* properties (keys and values), assertions and base_object
AllocateObject ==
    \E vs \in SmallSubset(held) : AllocateHolding("Object", vs)

AllocateArray ==
    \E vs \in SmallSubset(held) : AllocateHolding("Array", vs)

\* name, parameter names and the constants of the chunk
AllocateFunction ==
    \E vs \in SmallSubset(held) : AllocateHolding("Function", vs)

AllocateBinary == AllocateHolding("Binary", {})

\* func and arg
AllocateNativeThunk ==
    \E f \in HeldOf({"Closure", "Function"}), a \in held :
        AllocateHolding("NativeThunk", {f, a})

\* allocate_closure and allocate_thunk: a function and upvalues taken from the
\* open list or from the closure of the running frame
AllocateClosure ==
    \E h \in Handle, f \in HeldOf({"Function"}), enclosing \in HeldOf({"Closure"}) \cup {None} :
        LET capturable == heldUps \cup (IF enclosing = None THEN {} ELSE ups[enclosing])
        IN \E us \in SmallSubset(capturable) :
              /\ Insert(h, "Closure", {f}, us)
              /\ held' = held \cup {h}
              /\ UNCHANGED <<text, path, tableVars, heldUps>>

\* an open upvalue, on the open list
AllocateUpvalue ==
    \E h \in Handle :
        /\ Insert(h, "Upvalue", {}, {})
        /\ heldUps' = heldUps \cup {h}
        /\ UNCHANGED <<text, path, tableVars, held>>

\* One import for one path.  The path string is interned on the way, and the
\* collection it may ask for is left to the import's own answer.
AllocateImport(c) ==
    /\ pc = "client"
    /\ \/ /\ lookup[c] # None
          /\ held' = held \cup {lookup[c]}
          /\ shouldGC' = FALSE
          /\ UNCHANGED <<live, used, cellVars, tableVars, allocated, threshold,
                         external, externalUps, heldUps, gcVars>>
       \/ /\ lookup[c] = None /\ interned[c] # None
          /\ \E h \in Handle :
                /\ Insert(h, "Import", {interned[c]}, {})
                /\ path' = [path EXCEPT ![h] = interned[c]]
                /\ lookup' = [lookup EXCEPT ![c] = h]
                /\ held' = held \cup {h}
                /\ UNCHANGED <<text, interned, heldUps>>
       \/ /\ lookup[c] = None /\ interned[c] = None
          /\ {"String", "Import"} \subseteq Kinds
          /\ \E s, h \in Handle :
                /\ s # h /\ Fresh(s) /\ Fresh(h)
                /\ live' = live \cup {s, h}
                /\ used' = used \cup {s, h}
                /\ kind' = [kind EXCEPT ![s] = "String", ![h] = "Import"]
                /\ refs' = [refs EXCEPT ![s] = {}, ![h] = {s}]
                /\ slot' = [slot EXCEPT ![s] = None, ![h] = None]
                /\ ups' = [ups EXCEPT ![s] = {}, ![h] = {}]
                /\ size' = [size EXCEPT ![s] = 1, ![h] = 1]
                /\ text' = [text EXCEPT ![s] = c]
                /\ path' = [path EXCEPT ![h] = s]
                /\ interned' = [interned EXCEPT ![c] = s]
                /\ lookup' = [lookup EXCEPT ![c] = h]
                /\ allocated' = allocated + 2
                /\ shouldGC' = ShouldCollect(allocated + 2)
                /\ held' = held \cup {h}
                /\ UNCHANGED <<threshold, external, externalUps, heldUps, gcVars>>

(***************************************************************************)
(* What the client does with the cells it has.                             *)
(***************************************************************************)
\* load_object, load_array, load_closure, ...: a value inside a cell is read
Load(h) ==
    /\ pc = "client"
    /\ h \in held
    /\ \E v \in Values(h) : v \notin held /\ held' = held \cup {v}
    /\ UNCHANGED <<live, used, cellVars, tableVars, allocated, threshold,
                   shouldGC, external, externalUps, heldUps, gcVars>>

\* the closed_value of an upvalue of a closure is read
LoadUpvalue(h) ==
    /\ pc = "client"
    /\ h \in held
    /\ \E u \in ups[h] : \E v \in Values(u) : v \notin held /\ held' = held \cup {v}
    /\ UNCHANGED <<live, used, cellVars, tableVars, allocated, threshold,
                   shouldGC, external, externalUps, heldUps, gcVars>>

\* a value leaves the stack
Drop(h) ==
    /\ pc = "client"
    /\ h \in held
    /\ held' = held \ {h}
    /\ UNCHANGED <<live, used, cellVars, tableVars, allocated, threshold,
                   shouldGC, external, externalUps, heldUps, gcVars>>

WriteRefs(h, vs, bytes) ==
    /\ pc = "client"
    /\ refs' = [refs EXCEPT ![h] = vs]
    /\ size' = [size EXCEPT ![h] = bytes]
    /\ UNCHANGED <<live, used, kind, slot, ups, text, path, tableVars, allocated,
                   threshold, shouldGC, external, externalUps, held, gcVars>>

WriteSlot(h, v) ==
    /\ pc = "client"
    /\ slot' = [slot EXCEPT ![h] = v]
    /\ UNCHANGED <<live, used, kind, refs, ups, text, path, size, tableVars,
                   allocated, threshold, shouldGC, external, externalUps, held, gcVars>>

\* ManagedUpvalue::close, when the slot it points to leaves the stack
CloseUpvalue(u) ==
    /\ u \in heldUps
    /\ \E v \in held : WriteSlot(u, v)
    /\ heldUps' = heldUps \ {u}

\* GetUpvalue forces what a closed upvalue holds and writes the result back
ForceUpvalue(h) ==
    /\ h \in held
    /\ \E u \in ups[h], v \in held : slot[u] # None /\ WriteSlot(u, v)
    /\ UNCHANGED heldUps

\* cached_result of an import, cached of a native thunk
SetCached(h) ==
    /\ h \in HeldOf({"Import", "NativeThunk"})
    /\ slot[h] = None
    /\ \E v \in held : WriteSlot(h, v)
    /\ UNCHANGED heldUps

\* a forced value replaces the thunk in an element: the array keeps its size
StoreElement(a) ==
    /\ a \in HeldOf({"Array"})
    /\ \E old \in refs[a], new \in held :
          WriteRefs(a, (refs[a] \ {old}) \cup {new}, size[a])
    /\ UNCHANGED heldUps

\* ArrayAppendInPlace: the element vector grows, allocated_bytes does not
AppendInPlace(a) ==
    /\ a \in HeldOf({"Array"})
    /\ size[a] <= MaxGrowth
    /\ \E v \in held : WriteRefs(a, refs[a] \cup {v}, size[a] + 1)
    /\ UNCHANGED heldUps

\* The roots of a virtual machine are pushed for the time of a nested
\* compilation or execution: values on one stack, upvalues on the other.
PushExternalRoots ==
    /\ pc = "client"
    /\ Len(external) < MaxExternal /\ Len(externalUps) < MaxExternal
    /\ external' = Append(external, held)
    /\ externalUps' = Append(externalUps, heldUps)
    /\ UNCHANGED <<live, used, cellVars, tableVars, allocated, threshold,
                   shouldGC, held, heldUps, gcVars>>

\* The natives push values straight on external_roots.
PushValueRoots ==
    /\ pc = "client"
    /\ Len(external) < MaxExternal
    /\ external' = Append(external, held)
    /\ UNCHANGED <<live, used, cellVars, tableVars, allocated, threshold,
                   shouldGC, externalUps, held, heldUps, gcVars>>

\* Vec::pop, which leaves an empty vector as it is
AllButLast(s) == IF s = <<>> THEN s ELSE SubSeq(s, 1, Len(s) - 1)
Top(s) == IF s = <<>> THEN {} ELSE s[Len(s)]

\* Whoever pops works on with the values and upvalues that were pushed.
PopExternalRoots ==
    /\ pc = "client"
    /\ external' = AllButLast(external)
    /\ externalUps' = AllButLast(externalUps)
    /\ held' = held \cup Top(external)
    /\ heldUps' = heldUps \cup Top(externalUps)
    /\ UNCHANGED <<live, used, cellVars, tableVars, allocated, threshold,
                   shouldGC, gcVars>>

PopValueRoots ==
    /\ pc = "client"
    /\ external' = AllButLast(external)
    /\ held' = held \cup Top(external)
    /\ UNCHANGED <<live, used, cellVars, tableVars, allocated, threshold,
                   shouldGC, externalUps, heldUps, gcVars>>

(***************************************************************************)
(* run_garbage_collect.                                                    *)
(***************************************************************************)
\* Mutant: what closed upvalues on the open list hold is not looked at
StartGC_ForgetsClosedValues ==
    /\ pc = "client" /\ shouldGC
    /\ shouldGC' = FALSE /\ pc' = "mark"
    /\ marked' = UpvalueRoots \cap live
    /\ work' = ValueRoots
    /\ UNCHANGED <<live, used, cellVars, tableVars, allocated, threshold, rootVars>>

\* The work list starts with the value roots and with what closed upvalue
\* roots hold; upvalue roots are marked at once.
StartGC ==
    /\ pc = "client"
    /\ shouldGC
    /\ shouldGC' = FALSE
    /\ pc' = "mark"
    /\ marked' = UpvalueRoots \cap live
    /\ work' = ValueRoots \cup UNION {Values(u) : u \in UpvalueRoots \cap live}
    /\ UNCHANGED <<live, used, cellVars, tableVars, allocated, threshold, rootVars>>

\* Mutant: the upvalues of a closure are not marked
MarkNext_SkipsUpvalues(h) ==
    /\ pc = "mark" /\ h \in work
    /\ marked' = marked \cup ({h} \cap live)
    /\ work' = (work \ {h}) \cup (IF h \in live \ marked THEN Values(h) ELSE {})
    /\ UNCHANGED <<live, used, cellVars, tableVars, allocated, threshold,
                   shouldGC, rootVars, pc>>

\* Mutant: a cell that is marked already is scanned again
MarkNext_Rescans(h) ==
    /\ pc = "mark" /\ h \in work
    /\ marked' = marked \cup (({h} \cup ups[h]) \cap live)
    /\ work' = (work \ {h}) \cup Values(h) \cup UNION {Values(u) : u \in ups[h]}
    /\ UNCHANGED <<live, used, cellVars, tableVars, allocated, threshold,
                   shouldGC, rootVars, pc>>

\* An unmarked cell is marked and its values join the work list; upvalues of a
\* closure are marked with it.  Marked cells and handles of no cell are skipped.
\* The list is a queue in the code; its order and repetitions do not change
\* what is marked.
MarkNext(h) ==
    /\ pc = "mark"
    /\ h \in work
    /\ IF h \in live \ marked
       THEN LET us == ups[h] \cap live
            IN /\ marked' = marked \cup {h} \cup us
               /\ work' = (work \ {h}) \cup Values(h) \cup UNION {Values(u) : u \in us}
       ELSE /\ work' = work \ {h}
            /\ UNCHANGED marked
    /\ UNCHANGED <<live, used, cellVars, tableVars, allocated, threshold,
                   shouldGC, rootVars, pc>>

MarkDone ==
    /\ pc = "mark"
    /\ work = {}
    /\ pc' = "sweep1"
    /\ UNCHANGED <<live, used, cellVars, tableVars, allocated, threshold,
                   shouldGC, rootVars, work, marked>>

Unmarked(ks) == {h \in live \ marked : kind[h] \in ks}

\* Mutant: plain subtraction
Saturating_Wraps(a, b) == a - b

\* saturating_sub, once for every cell the sweep removes
Saturating(a, b) == IF b \in 0 .. a THEN a - b ELSE 0

Bytes(S) == MapThenSumSet(LAMBDA h : size[h], S)

\* Mutant: strings are swept before the imports that name them
SweepOrder_StringsFirst == <<AllKinds \ {"Import"}, {"Import"}>>

\* Imports go first: their path strings must still be there to be read when
\* their entries leave import_lookup.
SweepOrder == <<{"Import"}, AllKinds \ {"Import"}>>

\* Mutants: entries of the dead strings, or of the dead imports, or their bytes,
\* are left behind
Without(ks, table, isEntryOf(_, _)) ==
    [c \in Content |-> IF \E h \in Unmarked(ks) : isEntryOf(h, c) THEN None ELSE table[c]]

IsStringOf(h, c) == kind[h] = "String" /\ text[h] = c
IsImportOf(h, c) == kind[h] = "Import" /\ text[path[h]] = c

SweepKinds_KeepsInterned(ks) ==
    /\ live' = live \ Unmarked(ks)
    /\ lookup' = Without(ks, lookup, IsImportOf)
    /\ interned' = interned
    /\ allocated' = Saturating(allocated, Bytes(Unmarked(ks)))

SweepKinds_KeepsLookup(ks) ==
    /\ live' = live \ Unmarked(ks)
    /\ lookup' = lookup
    /\ interned' = Without(ks, interned, IsStringOf)
    /\ allocated' = Saturating(allocated, Bytes(Unmarked(ks)))

SweepKinds_KeepsBytes(ks) ==
    /\ live' = live \ Unmarked(ks)
    /\ lookup' = Without(ks, lookup, IsImportOf)
    /\ interned' = Without(ks, interned, IsStringOf)
    /\ allocated' = allocated

\* The unmarked cells of some kinds are removed, with the table entries of the
\* imports and strings among them, and their bytes are given back.
SweepKinds(ks) ==
    LET dead == Unmarked(ks)
    IN /\ live' = live \ dead
       /\ lookup' = [c \in Content |->
                       IF \E h \in dead : kind[h] = "Import" /\ text[path[h]] = c
                       THEN None ELSE lookup[c]]
       /\ interned' = [c \in Content |->
                       IF \E h \in dead : kind[h] = "String" /\ text[h] = c
                       THEN None ELSE interned[c]]
       /\ allocated' = Saturating(allocated, Bytes(dead))

SweepFirst ==
    /\ pc = "sweep1"
    /\ SweepKinds(SweepOrder[1])
    /\ pc' = "sweep2"
    /\ UNCHANGED <<used, cellVars, threshold, shouldGC, rootVars, work, marked>>

SweepSecond ==
    /\ pc = "sweep2"
    /\ SweepKinds(SweepOrder[2])
    /\ threshold' = allocated' * 2
    /\ marked' = {}
    /\ pc' = "client"
    /\ UNCHANGED <<used, cellVars, shouldGC, rootVars, work>>

GCStep == (\E h \in Handle : MarkNext(h)) \/ MarkDone \/ SweepFirst \/ SweepSecond

ClientStep ==
    \/ \E c \in Content : AllocateString(c) \/ AllocateImport(c)
    \/ AllocateObject \/ AllocateArray \/ AllocateFunction \/ AllocateBinary
    \/ AllocateNativeThunk \/ AllocateClosure \/ AllocateUpvalue
    \/ \E h \in Handle :
          \/ Load(h) \/ LoadUpvalue(h) \/ Drop(h)
          \/ CloseUpvalue(h) \/ ForceUpvalue(h) \/ SetCached(h)
          \/ StoreElement(h) \/ AppendInPlace(h)
    \/ PushExternalRoots \/ PushValueRoots
    \/ PopExternalRoots \/ PopValueRoots
    \/ StartGC

Next == ClientStep \/ GCStep

\* The collector is a plain loop: once entered it runs on.  Nothing makes the
\* client do anything.
Spec == Init /\ [][Next]_vars /\ WF_vars(GCStep)

(***************************************************************************)
(* Properties.                                                             *)
(***************************************************************************)
\* No use of a removed cell: while the client runs, everything it holds, or has
\* pushed as an external root, is in the slot maps, and so is everything that
\* can be read from a cell that is there (the load_* functions panic on a
\* handle they do not find).
NoDanglingHandle ==
    pc = "client" => Roots \subseteq live /\ Closed(live)

\* Strings are equal exactly when their handles are: every content has at most
\* one string cell, interned_strings knows it, and it knows no other.  Values
\* are compared, and object keys looked up, by handle.
InterningExact ==
    /\ \A h \in live : kind[h] = "String" => interned[text[h]] = h
    /\ \A c \in Content : interned[c] # None =>
          interned[c] \in live /\ kind[interned[c]] = "String" /\ text[interned[c]] = c

\* A path has at most one import cell and import_lookup finds it, so a file is
\* evaluated once however often it is imported; no entry outlives its import.
ImportTableExact ==
    /\ \A h \in live : kind[h] = "Import" => lookup[text[path[h]]] = h
    /\ \A c \in Content : lookup[c] # None =>
          lookup[c] \in live /\ kind[lookup[c]] = "Import" /\ text[path[lookup[c]]] = c

\* While imports are still to be swept their path strings can be read:
\* load_string in the sweep does not panic.
SweepCanReadPaths ==
    \A h \in live : kind[h] = "Import" => path[h] \in live /\ kind[path[h]] = "String"

\* A collection removes exactly the garbage.  What is kept is marked; it
\* contains the roots and what they lead to, and it is the least such set: every
\* set of handles that does so contains it.
MarkedIsReachable ==
    pc \in {"sweep1", "sweep2"} =>
        /\ Roots \subseteq marked /\ Closed(marked)
        /\ \A S \in SUBSET Handle : Roots \subseteq S /\ Closed(S) => marked \subseteq S

\* allocated_bytes never exceeds what the cells take: memory that grew in place
\* makes it too low, and the saturating subtraction then rounds towards zero,
\* but a collection is never triggered by bytes that are gone.
NeverOvercounted == allocated <= Bytes(live)

\* Every collection ends, cycles in the heap included.
CollectionEnds == pc # "client" ~> pc = "client"

=============================================================================
