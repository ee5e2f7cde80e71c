------------------------------ MODULE Imports ------------------------------
(***************************************************************************)
(* Evaluation of imports (force_value, src/src/virtual_machine.rs): every  *)
(* file is evaluated by a virtual machine of its own, on the heap of the   *)
(* importer, which waits.  Import cells remember the value of a file and   *)
(* that it is being evaluated; the collector may run in any machine, and   *)
(* knows of the waiting ones only what they pushed as external roots.      *)
(*                                                                         *)
(* MemoryManager has the heap in full.  Here a cell is an import or some   *)
(* other value, a collection is one step, and import_lookup, which is      *)
(* exact, is the set of the import cells that are there.                   *)
(***************************************************************************)
EXTENDS Integers, Sequences, FiniteSets

CONSTANTS
    File,           \* files that can be imported
    Handle,         \* handles of cells
    None,
    Programs,       \* the kinds of program that are run
    MaxHeld         \* bound: values on one stack

\* imports: it imports files.  chains: the value of a file may itself be an
\* import.  caches: it reads fields of objects, so that the machines put values
\* into field_cache.  collects: its heap grows past gc_threshold.
Program == [imports : BOOLEAN, chains : BOOLEAN, caches : BOOLEAN, collects : BOOLEAN]

ASSUME NoneAssumption == None \notin File /\ None \notin Handle
ASSUME ProgramsAssumption == Programs \subseteq Program /\ MaxHeld \in Nat

VARIABLES
    program,    \* the program that is run
    live,       \* handles in the slot maps
    used,       \* handles ever handed out
    file,       \* the file of an import cell, None for any other cell
    cached,     \* cached_result
    evaluating, \* imports whose evaluating flag is set
    refs,       \* what any other cell refers to
    machines,   \* the virtual machines, importers first; the last one runs
    external    \* external_roots

cellVars == <<used, file, refs>>
vars == <<program, live, cellVars, cached, evaluating, machines, external>>

\* held: what stack, frames and open upvalues lead to; cache: the values in
\* field_cache; waiting: the imports this machine is forcing, outermost first.
Machine == [held : SUBSET Handle, cache : SUBSET Handle, waiting : Seq(Handle)]

TypeOK ==
    /\ program \in Program
    /\ live \subseteq used /\ used \subseteq Handle
    /\ file \in [Handle -> File \cup {None}]
    /\ cached \in [Handle -> Handle \cup {None}]
    /\ evaluating \subseteq Handle
    /\ refs \in [Handle -> SUBSET Handle]
    /\ machines \in Seq(Machine)
    /\ external \in Seq(SUBSET Handle)

Fresh == [held |-> {}, cache |-> {}, waiting |-> <<>>]

Init ==
    /\ program \in Programs
    /\ live = {} /\ used = {}
    /\ file = [h \in Handle |-> None]
    /\ cached = [h \in Handle |-> None]
    /\ evaluating = {}
    /\ refs = [h \in Handle |-> {}]
    /\ machines = <<Fresh>>
    /\ external = <<>>

Front(s) == SubSeq(s, 1, Len(s) - 1)
Last(s) == s[Len(s)]
Elements(s) == {s[i] : i \in 1 .. Len(s)}

Running == Last(machines)
IsImport(h) == file[h] # None

Become(m) == machines' = [machines EXCEPT ![Len(machines)] = m]
Hold(h) == Become([Running EXCEPT !.held = @ \cup {h}])

----------------------------------------------------------------------------
(* What the running machine does with values.                              *)

CellsAdd(h, f, rs) ==
    /\ h \in Handle \ used
    /\ live' = live \cup {h} /\ used' = used \cup {h}
    /\ file' = [file EXCEPT ![h] = f]
    /\ refs' = [refs EXCEPT ![h] = rs]

\* an object, array or function over values at hand
Allocate(h) ==
    /\ Cardinality(Running.held) < MaxHeld
    /\ \E rs \in {{}} \cup {{r} : r \in Running.held} : CellsAdd(h, None, rs)
    /\ Hold(h)
    /\ UNCHANGED <<cached, evaluating, external>>

\* Opcode::Import: the import of a file is found in import_lookup or made.
\* Nothing is evaluated yet.
PushImport(f) ==
    /\ program.imports
    /\ Cardinality(Running.held) < MaxHeld
    /\ \/ \E h \in live : /\ file[h] = f
                          /\ h \notin Running.held /\ Hold(h)
                          /\ UNCHANGED <<live, cellVars>>
       \/ \E h \in Handle : /\ \A g \in live : file[g] # f
                            /\ CellsAdd(h, f, {})
                            /\ Hold(h)
    /\ UNCHANGED <<cached, evaluating, external>>

Load(h) ==
    /\ h \in Running.held
    /\ Cardinality(Running.held) < MaxHeld
    /\ \E r \in refs[h] : r \notin Running.held /\ Hold(r)
    /\ UNCHANGED <<live, cellVars, cached, evaluating, external>>

Drop(h) ==
    /\ h \in Running.held
    /\ Become([Running EXCEPT !.held = @ \ {h}])
    /\ UNCHANGED <<live, cellVars, cached, evaluating, external>>

\* The value of a field goes into field_cache when its thunk returns; a later
\* access takes it from there.
CacheField(h) ==
    /\ program.caches
    /\ h \in Running.held
    /\ Become([Running EXCEPT !.cache = @ \cup {h}])
    /\ UNCHANGED <<live, cellVars, cached, evaluating, external>>

HitFieldCache(h) ==
    /\ h \in Running.cache
    /\ h \notin Running.held /\ Hold(h)
    /\ UNCHANGED <<live, cellVars, cached, evaluating, external>>

Edges(h) == refs[h] \cup ({cached[h]} \ {None})

\* The least set of cells with those of S that has with a cell what it leads to
Reachable(S) ==
    LET Closed == {C \in SUBSET live : /\ S \cap live \subseteq C
                                      /\ \A h \in C : Edges(h) \cap live \subseteq C}
    IN {h \in live : \A C \in Closed : h \in C}

\* Mutant: field_cache is not among the roots
CollectGarbage_ForgetsFieldCache ==
    /\ program.collects
    /\ live' = Reachable(Running.held \cup UNION Elements(external))
    /\ live' # live
    /\ UNCHANGED <<cellVars, cached, evaluating, machines, external>>

\* run_garbage_collection of the running machine
CollectGarbage ==
    /\ program.collects
    /\ live' = Reachable(Running.held \cup Running.cache \cup UNION Elements(external))
    /\ live' # live
    /\ UNCHANGED <<cellVars, cached, evaluating, machines, external>>

----------------------------------------------------------------------------
(* force_value of an import.                                               *)

\* Imports are done, with value v: for each, innermost first, cached_result is
\* set and evaluating cleared.
Complete(ws, v) ==
    /\ cached' = [h \in Handle |-> IF h \in ws THEN v ELSE cached[h]]
    /\ evaluating' = evaluating \ ws

\* Mutant: the import that is forced is not among the roots
Begin_Unprotected(ms, m, h, roots) ==
    /\ evaluating' = evaluating \cup {h}
    /\ external' = Append(roots, m.held)
    /\ machines' = ms \o <<[m EXCEPT !.waiting = Append(@, h)], Fresh>>

\* Mutant: the evaluating flag is not set
Begin_Unmarked(ms, m, h, roots) ==
    /\ external' = Append(roots, m.held \cup {h})
    /\ machines' = ms \o <<[m EXCEPT !.waiting = Append(@, h)], Fresh>>
    /\ UNCHANGED evaluating

\* An import that is not known yet and not being evaluated: it is marked, the
\* machine m pushes its roots - not the values of its field_cache - and another
\* machine starts on the file.
Begin(ms, m, h, roots) ==
    /\ evaluating' = evaluating \cup {h}
    /\ external' = Append(roots, m.held \cup {h})
    /\ machines' = ms \o <<[m EXCEPT !.waiting = Append(@, h)], Fresh>>

\* Mutant: cached_result is taken without looking whether there is one
ForceImport_TakesCached(h, popped) ==
    LET m == [Running EXCEPT !.held = IF popped THEN @ \ {h} ELSE @]
    IN /\ h \in Running.held /\ IsImport(h)
       /\ Become([m EXCEPT !.held = @ \cup {cached[h]}])
       /\ UNCHANGED <<live, cellVars, cached, evaluating, external>>

\* Mutant: cached_result is not looked at
ForceImport_Again(h, popped) ==
    LET m == [Running EXCEPT !.held = IF popped THEN @ \ {h} ELSE @]
    IN /\ h \in Running.held /\ IsImport(h) /\ h \notin evaluating
       /\ Begin(Front(machines), m, h, external)
       /\ UNCHANGED <<live, cellVars, cached>>

\* An import is forced.  It may have been popped off the stack just before.
ForceImport(h, popped) ==
    LET m == [Running EXCEPT !.held = IF popped THEN @ \ {h} ELSE @]
    IN /\ h \in Running.held /\ IsImport(h)
       /\ h \notin evaluating
       /\ IF cached[h] # None
          THEN /\ Become([m EXCEPT !.held = @ \cup {cached[h]}])
               /\ UNCHANGED <<evaluating, external>>
          ELSE Begin(Front(machines), m, h, external)
       /\ UNCHANGED <<live, cellVars, cached>>

\* A file is evaluated to v: its machine is dropped and the roots are popped.
\* If v is an import the importer forces it in turn, while the outer import
\* waits for the value; otherwise everything that waited for v has it.
FileReturns(v) ==
    LET importers == Front(machines)
        m == Last(importers)
        ws == Elements(m.waiting)
        value == IF IsImport(v) THEN cached[v] ELSE v
        roots == Front(external)
    IN /\ Len(machines) > 1
       /\ v \in Running.held
       /\ IsImport(v) => program.chains /\ v \notin evaluating
       /\ IF value # None
          THEN /\ Complete(ws, value)
               /\ machines' = [importers EXCEPT ![Len(importers)] =
                                 [m EXCEPT !.held = @ \cup {value}, !.waiting = <<>>]]
               /\ external' = roots
          ELSE /\ Begin(Front(importers), m, v, roots)
               /\ UNCHANGED cached
       /\ UNCHANGED <<live, cellVars>>

\* Mutant: an error leaves the evaluating flags set
Unwind_KeepsFlags ==
    /\ machines' = <<[machines[1] EXCEPT !.waiting = <<>>]>>
    /\ external' = <<>>
    /\ UNCHANGED <<live, cellVars, cached, evaluating>>

\* An error goes all the way up: evaluating is cleared and the roots are popped
\* at every level.  The test runner goes on with the first machine.
Unwind ==
    /\ machines' = <<[machines[1] EXCEPT !.waiting = <<>>]>>
    /\ external' = <<>>
    /\ evaluating' = evaluating \ UNION {Elements(machines[i].waiting) : i \in 1 .. Len(machines)}
    /\ UNCHANGED <<live, cellVars, cached>>

\* The file cannot be read or compiled, or its evaluation fails
Fail ==
    /\ Len(machines) > 1
    /\ Unwind

\* Forcing an import that is being evaluated, by the running machine or as the
\* value of its file
CyclicImport(h) ==
    /\ h \in Running.held /\ IsImport(h)
    /\ cached[h] = None /\ h \in evaluating
    /\ Unwind

Step ==
    \/ \E h \in Handle :
          \/ Allocate(h) \/ Load(h) \/ Drop(h) \/ CacheField(h) \/ HitFieldCache(h)
          \/ \E popped \in BOOLEAN : ForceImport(h, popped)
          \/ FileReturns(h) \/ CyclicImport(h)
    \/ \E f \in File : PushImport(f)
    \/ CollectGarbage
    \/ Fail

Next == Step /\ UNCHANGED program

Spec == Init /\ [][Next]_vars

----------------------------------------------------------------------------
(* Properties.                                                             *)

Waiting == UNION {Elements(machines[i].waiting) : i \in 1 .. Len(machines)}

\* The evaluating flags tell what is being evaluated, whatever failed before: an
\* import is reported as cyclic if and only if it is forced in the course of its
\* own evaluation.
EvaluatingExact == evaluating = Waiting

\* No file is evaluated while it is being evaluated: imports that go round in a
\* circle are noticed.
CyclesDetected ==
    \A i, j \in 1 .. Len(machines) :
        \A a \in 1 .. Len(machines[i].waiting), b \in 1 .. Len(machines[j].waiting) :
            file[machines[i].waiting[a]] = file[machines[j].waiting[b]] => i = j /\ a = b

\* A collection in the machine of an imported file takes nothing from the
\* machines that wait: neither what they hold nor the imports they force.
ImportersProtected ==
    \A i \in 1 .. Len(machines) :
        machines[i].held \cup Elements(machines[i].waiting) \subseteq live

\* Nor does it take the values of fields they have cached.
CachedFieldsLive ==
    \A i \in 1 .. Len(machines) : machines[i].cache \subseteq live

\* Once the value of an import is known it stays the same: all importers of the
\* file share it.
ValueOfImportStable ==
    [][\A h \in live \cap live' : cached[h] # None => cached'[h] = cached[h]]_vars

=============================================================================
