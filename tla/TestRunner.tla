----------------------------- MODULE TestRunner -----------------------------
(***************************************************************************)
(* The test runner (src/src/test_runner.rs, jsonnet_test_runner.rs): the   *)
(* test functions of one object are called one after the other on one      *)
(* machine.  A test that fails leaves the machine as it was at the error.  *)
(*                                                                         *)
(* What a test does is abstracted to what can matter to another one: how   *)
(* deep it calls, whether it fails there, which shared object with a       *)
(* violated assertion it writes out, and which code it runs.               *)
(***************************************************************************)
EXTENDS Integers, FiniteSets, SequencesExt

CONSTANTS
    Objects,    \* what the file may evaluate to: chains of nodes, the top one first
    Filters,    \* for each filter that may be given, the names that contain it
    Skipped,    \* names that begin with skip_test
    Main,       \* the test file itself, as a source of coverage
    MaxFrames   \* MAX_FRAMES

ASSUME FramesAssumption == MaxFrames \in Nat \ {0}

VARIABLES
    object,      \* the top-level value
    retained,    \* the names that contain the filter
    queue,       \* the tests to come, by name, each with the node it was found in
    status,      \* "starting", "running", "passed", "failed", or the error of the suite
    frames,      \* frame_count of the machine
    violated,    \* shared objects whose violated assertion is still in place
    roots,       \* external roots that run_tests has pushed
    collecting,  \* --coverage
    accumulated, \* accumulated_coverage
    results,     \* results, each with the node of the test and with what is history:
                 \* the frames, the violated assertions and the code that ran
    report       \* what generate_lcov is given

vars == <<object, retained, queue, status, frames, violated, roots, collecting,
          accumulated, results, report>>

\* A field of a node: whether it is hidden; what forcing it gives; how deep the
\* function calls, whether it fails there, the shared objects it writes out; and the
\* code that runs, as pairs of source and span.
Tests(o) == UNION {{<<x, i>> : x \in DOMAIN o[i]} : i \in DOMAIN o}
Field(t) == object[t[2]][t[1]]

\* Names are numbers, in the order in which they are sorted.
ASSUME ObjectsAssumption ==
    \A o \in Objects :
        /\ IsFiniteSet(Tests(o)) /\ Tests(o) \subseteq Nat \X Nat
        /\ \A t \in Tests(o) : o[t[2]][t[1]].deep \in Nat /\ o[t[2]][t[1]].fails \in BOOLEAN

Init ==
    /\ object \in Objects /\ retained \in Filters /\ queue = <<>> /\ status = "starting"
    /\ frames = 1 /\ violated = UNION {object[t[2]][t[1]].writes : t \in Tests(object)}
    /\ roots = 0
    /\ collecting \in BOOLEAN /\ accumulated = {} /\ results = <<>> /\ report = {}

----------------------------------------------------------------------------
(* discover_test_fields *)

\* Mutant: every node is asked for every test
Discovered_Each(o) == {t \in Tests(o) : ~o[t[2]][t[1]].hidden}

\* The nodes are walked from the top; a name that was found is not looked for in the
\* nodes below, but a hidden field is passed over before its name is noted.
Discovered(o) ==
    {t \in Tests(o) : /\ ~o[t[2]][t[1]].hidden
                      /\ \A i \in 1 .. t[2] - 1 : t[1] \notin DOMAIN o[i] \/ o[i][t[1]].hidden}

Before(t, u) == t[1] < u[1] \/ (t[1] = u[1] /\ t[2] < u[2])

\* The i-th of the tests has i - 1 of them before it.
ByName(tests) ==
    [i \in 1 .. Cardinality(tests) |->
        CHOOSE t \in tests : Cardinality({u \in tests : Before(u, t)}) = i - 1]

Start ==
    /\ status = "starting"
    /\ IF object = <<>> THEN status' = "NotAnObject" /\ UNCHANGED <<queue, roots>>
       ELSE IF \E t \in Discovered(object) : Field(t).kind = "raw"
       THEN status' = "NotAFunction" /\ UNCHANGED <<queue, roots>>
       ELSE /\ status' = "running"
            /\ queue' = ByName({t \in Discovered(object) : t[1] \in retained})
            /\ roots' = roots + 1
    /\ UNCHANGED <<object, retained, frames, violated, collecting, accumulated, results, report>>

----------------------------------------------------------------------------
(* run_tests *)

Test == Head(queue)
Overflows(n) == frames + n > MaxFrames

Result(outcome, ran) ==
    results' = Append(results, [name |-> Test[1], node |-> Test[2], outcome |-> outcome,
                                ran |-> ran, frames |-> frames, violated |-> violated])

\* skip_test: reported without running
Skip ==
    /\ status = "running" /\ queue # <<>> /\ Test[1] \in Skipped
    /\ Result("skip", {})
    /\ queue' = Tail(queue)
    /\ UNCHANGED <<object, retained, status, frames, violated, roots, collecting, accumulated, report>>

\* Forcing the field: an error, or a value that is no function without required
\* parameters, ends the suite, and the roots stay.
ForceFails ==
    /\ status = "running" /\ queue # <<>> /\ Test[1] \notin Skipped
    /\ \/ /\ Overflows(1) \/ Field(Test).kind = "error"
          /\ status' = "RuntimeError"
       \/ /\ ~Overflows(1) /\ Field(Test).kind \in {"value", "needs arguments"}
          /\ status' = "NotAFunction"
    /\ UNCHANGED <<object, retained, queue, frames, violated, roots, collecting, accumulated, results, report>>

\* Mutant: what earlier tests ran is replaced
Merged_Replaces(ran) == IF collecting THEN ran ELSE accumulated

\* enable_coverage before a test, take_coverage and merge after it
Merged(ran) == IF collecting THEN accumulated \cup ran ELSE accumulated

\* Mutant: the frame of a test that passes is not taken off
FramesAfter_Passing(outcome, depth) == IF outcome = "pass" THEN frames + 1 ELSE depth

\* The frames of a test that fails are still there afterwards.
FramesAfter(outcome, depth) == IF outcome = "pass" THEN frames ELSE depth

Ends(outcome, depth, ran) ==
    /\ frames' = FramesAfter(outcome, depth)
    /\ Result(outcome, ran)
    /\ accumulated' = Merged(ran)
    /\ queue' = Tail(queue)

\* Writing an object out takes its assertions off before they run: whoever writes it
\* first fails.
Run ==
    LET f == Field(Test)
    IN  /\ status = "running" /\ queue # <<>> /\ Test[1] \notin Skipped
        /\ f.kind = "function" /\ ~Overflows(1)
        /\ IF Overflows(1 + f.deep)
           THEN /\ \E ran \in SUBSET f.covers : Ends("fail", MaxFrames, ran)
                /\ violated' \in {violated, violated \ f.writes}
           ELSE /\ Ends(IF f.fails \/ f.writes \cap violated # {} THEN "fail" ELSE "pass",
                        frames + 1 + f.deep, f.covers)
                /\ violated' = violated \ f.writes
        /\ UNCHANGED <<object, retained, status, roots, collecting, report>>

\* The test file itself is no part of the report.
Reported(hits) == {c \in hits : c[1] # Main}

\* all_passed is the exit code.
Complete ==
    /\ status = "running" /\ queue = <<>>
    /\ status' = IF \E i \in DOMAIN results : results[i].outcome = "fail"
                 THEN "failed" ELSE "passed"
    /\ roots' = roots - 1
    /\ report' = Reported(accumulated)
    /\ UNCHANGED <<object, retained, queue, frames, violated, collecting, accumulated, results>>

Next == Start \/ Skip \/ ForceFails \/ Run \/ Complete

Spec == Init /\ [][Next]_vars

----------------------------------------------------------------------------
(* Properties *)

\* What `o' has under a name is what its topmost node with that name says.
Topmost(o) == {t \in Tests(o) : \A i \in 1 .. t[2] - 1 : t[1] \notin DOMAIN o[i]}

Visible == {t \in Topmost(object) : ~Field(t).hidden /\ t[1] \in retained}

\* A suite that completes has reported each test of the object once, in the order of
\* the names and as the object has it; one that ends early a beginning of that.
TestsReportedOnce ==
    status # "starting" =>
        LET reported == [i \in DOMAIN results |-> <<results[i].name, results[i].node>>]
        IN  /\ IsPrefix(reported, ByName(Visible))
            /\ status \in {"passed", "failed"} => Len(reported) = Cardinality(Visible)

Alone(f) == IF f.fails \/ f.writes # {} \/ 2 + f.deep > MaxFrames THEN "fail" ELSE "pass"

\* A test gives what it gives when it is the only one, but for two causes: earlier
\* tests that failed left their frames and it finds too few; or the assertion it should
\* fail by was taken off by an earlier test.  Tests that pass leave no trace.
InfluencesKnown ==
    \A i \in DOMAIN results :
        LET r == results[i]
            f == object[r.node][r.name]
            left == \E j \in 1 .. i - 1 : results[j].outcome = "fail"
        IN  \/ r.outcome = "skip" \/ r.outcome = Alone(f)
            \/ r.outcome = "fail" /\ left /\ r.frames + 1 + f.deep > MaxFrames
            \/ r.outcome = "pass" /\ left /\ f.writes # {} /\ f.writes \cap r.violated = {}

\* The report has what every test ran, those that failed included, except for the
\* test file itself.
CoverageExact ==
    status \in {"passed", "failed"} /\ collecting =>
        report = {c \in UNION {results[i].ran : i \in DOMAIN results} : c[1] # Main}

=============================================================================
