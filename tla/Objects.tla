------------------------------ MODULE Objects ------------------------------
(***************************************************************************)
(* Objects: inheritance, self and super, visibility, std.objectRemoveKey,  *)
(* the field cache, assertions and manifestation                           *)
(* (src/src/virtual_machine.rs, src/src/memory_manager.rs).                *)
(*                                                                         *)
(* A + B does not copy A.  The nodes of B are built anew on top of the     *)
(* chain of A, which every object made from A shares.  What a program      *)
(* means by an object is the sequence of the literals it is made of (and   *)
(* of the keys removed in between), lowest first; nodes carry it in the    *)
(* history field `layers', and the properties compare the two.             *)
(*                                                                         *)
(* The body of a field is a constant, a field of self or a field of super: *)
(* enough to tell which field was found and which object self was.  What   *)
(* an opcode evaluates is evaluated in one step.  Null is what the code    *)
(* gives for a field that is not there.  A program stops at an error.      *)
(***************************************************************************)
EXTENDS Integers, Sequences, FiniteSets

CONSTANTS
    Key,        \* names of fields
    Const,      \* values
    Null,
    None,       \* no field under a key
    Failure,    \* the outcome of an evaluation that fails
    Literals,   \* the object literals of a program
    Programs,   \* the kinds of program that are run
    MaxNodes,   \* bound: nodes
    MaxRead,    \* bound: nodes of a heap that is not only built but also read
    MaxCache    \* bound: entries of field_cache

Value == Const \cup {Null}
Visibility == {"visible", "hidden", "forced"}
Body == [op : {"const"}, val : Value] \cup [op : {"self", "super"}, key : Key]
Field == [body : Body, vis : Visibility]
Fields == [Key -> Field \cup {None}]

\* An assertion compares a field of self with a value.
Assertion == [key : Key, is : Value]
Literal == [fields : Fields, asserts : SUBSET Assertion]

\* selfs: fields refer to self.  formats: objects are given to the % operator.
\* reuses: objects are made from others after that.  mergesRemoved: an object made
\* by std.objectRemoveKey is added to another.
Program == [selfs : BOOLEAN, formats : BOOLEAN, reuses : BOOLEAN, mergesRemoved : BOOLEAN]

ASSUME MarkersAssumption ==
    /\ Null \notin Const /\ None \notin Field /\ Failure \notin Value
ASSUME InstanceAssumption ==
    /\ IsFiniteSet(Key) /\ Literals \subseteq Literal /\ Programs \subseteq Program
    /\ MaxNodes \in Nat /\ MaxRead \in Nat /\ MaxCache \in Nat

VARIABLES
    program,    \* the program that is run
    nodes,      \* the objects in the slot map; an index is a handle
    objects,    \* those the program has got
    cache,      \* field_cache
    ran,        \* the literals whose assertions ran, on any object
    shown,      \* the object that was just manifested, and its fields
    failed      \* an error ended the program

vars == <<program, nodes, objects, cache, ran, shown, failed>>

\* A layer of what an object means: a literal, told apart by id, or the removal
\* of keys.
Layer == [id : Nat, fields : Fields, asserts : SUBSET Assertion, removes : SUBSET Key]

Node == [props : Fields, base : Nat, deleted : SUBSET Key,
         asserts : SUBSET Assertion, layers : Seq(Layer)]

Object == 1 .. Len(nodes)

\* What is asked for: where the lookup starts (0: below the lowest node), the field,
\* self.  Only what starts at a node is cached.
Question == (0 .. Len(nodes)) \X Key \X Object
Entry == Object \X Key \X Object

\* Mutant: self is not part of the key
CacheKey_WithoutSelf(at, k, self) == <<at, k, at>>

\* The key of field_cache: where the lookup starts, the field, self
CacheKey(at, k, self) == <<at, k, self>>

TypeOK ==
    /\ program \in Program
    /\ nodes \in Seq(Node)
    /\ \A n \in Object : nodes[n].base \in 0 .. Len(nodes)
    /\ objects \subseteq Object
    /\ DOMAIN cache \subseteq Entry /\ cache \in [DOMAIN cache -> Value]
    /\ ran \subseteq Nat
    /\ shown \in {<<>>} \cup (Object \X [Key -> Value \cup {None}])
    /\ failed \in BOOLEAN

Init ==
    /\ program \in Programs
    /\ nodes = <<>> /\ objects = {}
    /\ cache = <<>> /\ ran = {} /\ shown = <<>> /\ failed = FALSE

----------------------------------------------------------------------------
(* The chain of an object.                                                 *)

\* An object and the nodes below it, from the top down
Chain(o) ==
    LET Down[n \in 0 .. Len(nodes)] == IF n = 0 THEN <<>> ELSE <<n>> \o Down[nodes[n].base]
    IN Down[o]

NodesOf(o) == {Chain(o)[i] : i \in 1 .. Len(Chain(o))}

\* get_object_field_resolution: the first node that has the field, unless a node
\* on the way, that one included, says it is deleted; 0 for none.
Resolution(o, k) ==
    LET chain == Chain(o)
        hits == {i \in 1 .. Len(chain) :
                    /\ nodes[chain[i]].props[k] # None
                    /\ \A j \in 1 .. i : k \notin nodes[chain[j]].deleted}
    IN IF hits = {} THEN 0 ELSE chain[CHOOSE i \in hits : \A j \in hits : i <= j]

FieldOf(o, k) == nodes[Resolution(o, k)].props[k]

----------------------------------------------------------------------------
(* Making objects.                                                         *)

\* CreateObject, ObjectInsert for every field and Assert for every assertion
MakeLiteral(l) ==
    /\ ~ failed
    /\ Len(nodes) < MaxNodes
    /\ program.selfs \/ \A k \in Key : l.fields[k] # None => l.fields[k].body.op # "self"
    /\ nodes' = Append(nodes,
                  [props |-> l.fields, base |-> 0, deleted |-> {}, asserts |-> l.asserts,
                   layers |-> <<[id |-> Len(nodes) + 1, fields |-> l.fields,
                                 asserts |-> l.asserts, removes |-> {}]>>])
    /\ objects' = objects \cup {Len(nodes) + 1}
    /\ shown' = <<>>
    /\ UNCHANGED <<program, cache, ran, failed>>

\* Mutant: the visibility is taken from the top node of the left object
InheritedVis_OfTopNode(left, k, vis) ==
    IF vis = "visible" /\ nodes[left].props[k] # None THEN nodes[left].props[k].vis ELSE vis

\* `:' on the right takes over the visibility on the left
InheritedVis(left, k, vis) ==
    IF vis = "visible" /\ Resolution(left, k) # 0 THEN FieldOf(left, k).vis ELSE vis

\* Mutants: every node is put directly on the left object; assertions on the
\* right are lost
MergedNode_OnLeft(left, i, node) ==
    [props |-> [k \in Key |->
                  IF node.props[k] = None THEN None
                  ELSE [node.props[k] EXCEPT !.vis = InheritedVis(left, k, @)]],
     base |-> left, deleted |-> {}, asserts |-> node.asserts,
     layers |-> nodes[left].layers \o node.layers]

MergedNode_DropsAssertions(left, i, node) ==
    [MergedNode_OnLeft(left, i, node) EXCEPT
        !.base = IF i = 1 THEN left ELSE Len(nodes) + i - 1, !.asserts = {}]

\* The i-th node that is built on the left object, from a node of the right one
MergedNode(left, i, node) ==
    [props |-> [k \in Key |->
                  IF node.props[k] = None THEN None
                  ELSE [node.props[k] EXCEPT !.vis = InheritedVis(left, k, @)]],
     base |-> IF i = 1 THEN left ELSE Len(nodes) + i - 1,
     deleted |-> {},
     asserts |-> node.asserts,
     layers |-> nodes[left].layers \o node.layers]

\* A thunk was replaced by its value in some node.
Formatted ==
    \E n \in Object, k \in Key :
        /\ nodes[n].props[k] # None /\ nodes[n].props[k].body.op = "const"
        /\ \A i \in 1 .. Len(nodes[n].layers) :
              nodes[n].layers[i].fields[k] # None =>
                  nodes[n].layers[i].fields[k].body # nodes[n].props[k].body

\* Add of two objects, merge_objects
Merge(left, right) ==
    LET chain == Chain(right)
        n == Len(chain)
    IN /\ ~ failed
       /\ Len(nodes) + n <= MaxNodes
       /\ program.mergesRemoved \/ \A i \in NodesOf(right) : nodes[i].deleted = {}
       /\ program.reuses \/ ~ Formatted
       /\ nodes' = nodes \o [i \in 1 .. n |-> MergedNode(left, i, nodes[chain[n + 1 - i]])]
       /\ objects' = objects \cup {Len(nodes) + n}
       /\ shown' = <<>>
       /\ UNCHANGED <<program, cache, ran, failed>>

\* std_object_remove_key, allocate_object_remove_key: a copy of the top node
Removed(node, k) == [node EXCEPT !.props[k] = None, !.deleted = @ \cup {k}]

RemoveKey(o, k) ==
    /\ ~ failed
    /\ Len(nodes) < MaxNodes
    /\ program.reuses \/ ~ Formatted
    /\ nodes' = Append(nodes, [Removed(nodes[o], k) EXCEPT
                                 !.layers = Append(@, [id |-> 0, fields |-> [j \in Key |-> None],
                                                       asserts |-> {}, removes |-> {k}])])
    /\ objects' = objects \cup {Len(nodes) + 1}
    /\ shown' = <<>>
    /\ UNCHANGED <<program, cache, ran, failed>>

----------------------------------------------------------------------------
(* Evaluation.  An outcome is a value or Failure, and the cache keys of the *)
(* fields whose thunks ran to their end, all of which returned that value.  *)

\* Mutant: super is what is below self
Query_BelowSelf(body, found, self) ==
    IF body.op = "self" THEN <<self, body.key, self>> ELSE <<nodes[self].base, body.key, self>>

\* What a body asks for: a field of self, from the top, or of what is below the
\* node it was found in; there is nothing below the lowest node.
Query(body, found, self) ==
    IF body.op = "self" THEN <<self, body.key, self>> ELSE <<nodes[found].base, body.key, self>>

\* ObjectIndex and SuperIndex, and the frames they push.  A field that is asked
\* for in the course of its own evaluation runs into the limit of frames.
Follow ==
    LET F[p \in Question \X SUBSET Entry] ==
            LET q == p[1]
                trail == p[2]
                found == Resolution(q[1], q[2])
                body == nodes[found].props[q[2]].body
                entry == CacheKey(q[1], q[2], q[3])
            IN IF q[1] = 0 THEN [val |-> Failure, trail |-> trail]
               ELSE IF entry \in DOMAIN cache THEN [val |-> cache[entry], trail |-> trail]
               ELSE IF found = 0 THEN [val |-> Null, trail |-> trail]
               ELSE IF body.op = "const" THEN [val |-> body.val, trail |-> trail]
               ELSE IF entry \in trail THEN [val |-> Failure, trail |-> trail]
               ELSE F[<<Query(body, found, q[3]), trail \cup {entry}>>]
    IN F

Evaluated(q) == Follow[<<q, {}>>]

Asked(o, k) == Evaluated(<<o, k, o>>)

\* execute_thunk_sync of the body found at a node: its own result is not cached
Run(body, found, self) ==
    IF body.op = "const" THEN [val |-> body.val, trail |-> {}]
    ELSE Evaluated(Query(body, found, self))

\* Mutant: a frame that is left by an error puts something into the cache, too
Cached_Failures(outcomes) ==
    [c \in DOMAIN cache \cup UNION {r.trail : r \in outcomes} |->
        IF c \in DOMAIN cache THEN cache[c]
        ELSE (CHOOSE r \in outcomes : c \in r.trail).val]

\* Return of the frames: results are put into the cache
Cached(outcomes) ==
    LET results == {r \in outcomes : r.val # Failure}
    IN [c \in DOMAIN cache \cup UNION {r.trail : r \in results} |->
          IF c \in DOMAIN cache THEN cache[c]
          ELSE (CHOOSE r \in results : c \in r.trail).val]

\* Bounds, and the end of a program
Reading == ~ failed /\ Len(nodes) <= MaxRead /\ Cardinality(DOMAIN cache) < MaxCache

Ended(outcomes, ok) ==
    /\ cache' = Cached(outcomes)
    /\ failed' = ~ (ok /\ \A r \in outcomes : r.val # Failure)

\* o.k: ObjectIndex, which does not look at assertions
IndexObject(o, k) ==
    /\ Reading
    /\ Ended({Asked(o, k)}, TRUE)
    /\ shown' = <<>>
    /\ UNCHANGED <<program, nodes, objects, ran>>

----------------------------------------------------------------------------
(* Assertions: check_object_assertions takes them off every node of the     *)
(* chain, then runs them on the object.                                     *)

AssertionsOf(o) == UNION {nodes[n].asserts : n \in NodesOf(o)}

Checks(o) == {Asked(o, a.key) : a \in AssertionsOf(o)}
AssertionsPass(o) == \A a \in AssertionsOf(o) : Asked(o, a.key).val = a.is

Cleared(o) == [n \in Object |-> IF n \in NodesOf(o) THEN [nodes[n] EXCEPT !.asserts = {}] ELSE nodes[n]]

\* The literal the assertions of a node are from
Origin(n) ==
    LET ls == nodes[n].layers
    IN ls[CHOOSE i \in 1 .. Len(ls) :
             ls[i].id # 0 /\ \A j \in i + 1 .. Len(ls) : ls[j].id = 0].id

CheckAssertions(o) ==
    /\ nodes' = Cleared(o)
    /\ ran' = ran \cup {Origin(n) : n \in {m \in NodesOf(o) : nodes[m].asserts # {}}}

\* o[k]: ArrayIndex of an object
IndexArray(o, k) ==
    /\ Reading
    /\ CheckAssertions(o)
    /\ Ended(Checks(o) \cup
               (IF Resolution(o, k) = 0 THEN {} ELSE {Run(FieldOf(o, k).body, Resolution(o, k), o)}),
             AssertionsPass(o))
    /\ shown' = <<>>
    /\ UNCHANGED <<program, objects>>

----------------------------------------------------------------------------
(* Whole objects.                                                          *)

\* enumerate_object_fields without the hidden ones
VisibleKeys(o) == {k \in Key : Resolution(o, k) # 0 /\ FieldOf(o, k).vis # "hidden"}

\* value_to_json
Manifest(o) ==
    LET result(k) == Run(FieldOf(o, k).body, Resolution(o, k), o)
    IN /\ Reading
       /\ CheckAssertions(o)
       /\ Ended(Checks(o) \cup {result(k) : k \in VisibleKeys(o)}, AssertionsPass(o))
       /\ shown' = IF failed' THEN <<>>
                   ELSE <<o, [k \in Key |-> IF k \in VisibleKeys(o) THEN result(k).val ELSE None]>>
       /\ UNCHANGED <<program, objects>>

\* force_all_object_fields, for the % operator: every field of every node of the
\* chain is evaluated with self = o, and its value takes the place of its thunk.
Format(o) ==
    LET result(n, k) == Run(nodes[n].props[k].body, n, o)
        forced == {p \in NodesOf(o) \X Key : nodes[p[1]].props[p[2]] # None}
    IN /\ Reading
       /\ program.formats
       /\ Ended({result(p[1], p[2]) : p \in forced}, TRUE)
       /\ nodes' = IF failed' THEN nodes
                   ELSE [n \in Object |-> [nodes[n] EXCEPT !.props =
                           [k \in Key |-> IF <<n, k>> \in forced
                                          THEN [@[k] EXCEPT !.body = [op |-> "const", val |-> result(n, k).val]]
                                          ELSE @[k]]]]
       /\ shown' = <<>>
       /\ UNCHANGED <<program, objects, ran>>

Next ==
    \/ \E l \in Literals : MakeLiteral(l)
    \/ \E left, right \in objects : Merge(left, right)
    \/ \E o \in objects : Manifest(o) \/ Format(o)
    \/ \E o \in objects, k \in Key : RemoveKey(o, k) \/ IndexObject(o, k) \/ IndexArray(o, k)

Spec == Init /\ [][Next]_vars

----------------------------------------------------------------------------
(* What an object means, from the literals it is made of.                  *)

\* The layer that defines k: the highest one that has it, if k is not removed at
\* or above it; 0 for none
Definitions(ls, k) ==
    {j \in 1 .. Len(ls) : /\ ls[j].fields[k] # None
                          /\ \A i \in j .. Len(ls) : k \notin ls[i].removes}

Highest(S) == IF S = {} THEN 0 ELSE CHOOSE j \in S : \A i \in S : i <= j

Definition(ls, k) == Highest(Definitions(ls, k))

\* `:' leaves the visibility as it is, `::' and `:::' set it
VisibilityOf(ls, k) ==
    LET setting == {j \in Definitions(ls, k) : ls[j].fields[k].vis # "visible"}
    IN IF setting = {} THEN "visible" ELSE ls[Highest(setting)].fields[k].vis

\* The value of a field of the lowest layers, within the object of all layers: p is
\* how many layers, the field, and the fields of layers whose evaluation asks for it
Denoted(ls) ==
    LET V[p \in (0 .. Len(ls)) \X Key \X SUBSET ((1 .. Len(ls)) \X Key)] ==
            LET j == Definition(SubSeq(ls, 1, p[1]), p[2])
                body == ls[j].fields[p[2]].body
            IN IF j = 0 THEN Null
               ELSE IF body.op = "const" THEN body.val
               ELSE IF <<j, p[2]>> \in p[3] \/ (body.op = "super" /\ j = 1) THEN Failure
               ELSE V[<<IF body.op = "self" THEN Len(ls) ELSE j - 1, body.key, p[3] \cup {<<j, p[2]>>}>>]
    IN V

ValueOf(ls, n, k) == Denoted(ls)[<<n, k, {}>>]

----------------------------------------------------------------------------
(* Properties.                                                             *)

\* Along the chain of any object, the bases of bases included, a field is found
\* in the literal that defines it, however the object was put together and
\* whatever was removed; and what lies below the node it is found in, which is
\* super for that field, is what lies below that literal.
FieldsResolve ==
    \A o \in Object, k \in Key :
        LET ls == nodes[o].layers
            j == Definition(ls, k)
            found == Resolution(o, k)
        IN /\ j = 0 <=> found = 0
           /\ j # 0 => /\ program.formats \/ nodes[found].props[k].body = ls[j].fields[k].body
                       /\ SubSeq(ls, 1, j - 1) =
                             IF nodes[found].base = 0 THEN <<>> ELSE nodes[nodes[found].base].layers

\* A field is hidden, visible or forced as the literals say: the h_L + h_R of the
\* language is kept although the left object is never copied.
VisibilityExact ==
    \A o \in Object, k \in Key :
        Resolution(o, k) # 0 => FieldOf(o, k).vis = VisibilityOf(nodes[o].layers, k)

\* field_cache holds what the fields are worth: nothing is answered from it that
\* was computed for another self or another place in the chain.
CacheExact ==
    \A c \in DOMAIN cache :
        cache[c] = ValueOf(nodes[c[3]].layers, Len(nodes[c[1]].layers), c[2])

\* What is written out is what the object means: the fields that are not hidden,
\* with the values that overriding gives them.
ManifestExact ==
    shown # <<>> =>
        LET ls == nodes[shown[1]].layers
        IN \A k \in Key :
              shown[2][k] = IF Definition(ls, k) = 0 \/ VisibilityOf(ls, k) = "hidden" THEN None
                            ELSE ValueOf(ls, Len(ls), k)

\* No assertion gets lost unseen: it is still attached to the object, or it was
\* run, if only on another object made from the same literal.
AssertionsNotLost ==
    ~ failed =>
        \A o \in objects : \A i \in 1 .. Len(nodes[o].layers) :
            LET l == nodes[o].layers[i]
            IN l.asserts # {} =>
                  \/ \E n \in NodesOf(o) : Origin(n) = l.id /\ nodes[n].asserts = l.asserts
                  \/ l.id \in ran

\* What is written out satisfies its assertions.
ManifestedAssertionsHold ==
    shown # <<>> =>
        LET ls == nodes[shown[1]].layers
        IN \A i \in 1 .. Len(ls) : \A a \in ls[i].asserts : ValueOf(ls, Len(ls), a.key) = a.is

=============================================================================
