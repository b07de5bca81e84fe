------------------------------ MODULE Startup ------------------------------
(***************************************************************************)
(* Process startup: glm-engine/src/startup.rs.  The coordinator takes all  *)
(* ranks through the stages together.  In every stage it sends a command   *)
(* on a channel of one to each rank thread, collects one report from each  *)
(* on a shared channel, and advances only if the reports agree.            *)
(*                                                                         *)
(* A digest is the value it is taken of; ZERO is the digest of nothing.    *)
(* The four immutable digests of a report are one value.  deviation says   *)
(* what which ranks report differently from which stage on.                *)
(***************************************************************************)
EXTENDS Integers, Sequences, FiniteSets

CONSTANTS Ranks, ZERO, Deviations, NONE

VARIABLES coordinator, run, workers, responses, deviation

vars == <<coordinator, run, workers, responses, deviation>>

NORMATIVE_ORDER ==
    <<"Created", "HostValidated", "CudaContextsReady", "TopologyValidated", "ModulesReady",
      "MemoryPlanned", "WeightsLoaded", "GraphsCaptured", "KvReady", "CollectivesVoted",
      "Healthy">>

Stage(state) == CHOOSE i \in DOMAIN NORMATIVE_ORDER : NORMATIVE_ORDER[i] = state

AtLeast(state, other) == Stage(state) >= Stage(other)

\* Empty for Healthy and Failed.
successor(state) ==
    {NORMATIVE_ORDER[i] : i \in {i \in DOMAIN NORMATIVE_ORDER :
                                   i > 1 /\ NORMATIVE_ORDER[i - 1] = state}}

-----------------------------------------------------------------------------
(* The coordinator.                                                        *)

new == [state |-> "Created", consensus |-> NONE]

fail(c) == [c EXCEPT !.state = "Failed"]

\* The adoption every report has to carry; NONE if there is none.
ExpectedAdoption(c, next, expected) ==
    IF next = "WeightsLoaded" THEN IF expected = ZERO THEN NONE ELSE expected
    ELSE IF ~AtLeast(next, "WeightsLoaded") THEN ZERO
    ELSE IF c.consensus.adopted = ZERO THEN NONE
    ELSE c.consensus.adopted

Agree(c, next, reports, expected) ==
    /\ Len(reports) = Cardinality(Ranks)
    /\ (next = "WeightsLoaded") <=> (expected # NONE)
    /\ \A i \in DOMAIN reports : reports[i].ok
    /\ {reports[i].rank : i \in DOMAIN reports} = Ranks
    /\ \A i \in DOMAIN reports : reports[i].reached = next
    /\ reports[1].digests # ZERO
    /\ \A i \in DOMAIN reports : reports[i].digests = reports[1].digests
    /\ c.consensus # NONE => c.consensus.digests = reports[1].digests
    /\ \A i \in DOMAIN reports : reports[i].adopted = ExpectedAdoption(c, next, expected)

\* Failed and Healthy stay what they are.
advance_inner(c, reports, expected) ==
    IF successor(c.state) = {} THEN c
    ELSE LET next == CHOOSE state \in successor(c.state) : TRUE
         IN  IF Agree(c, next, reports, expected)
             THEN [state |-> next, consensus |-> reports[1]] ELSE fail(c)

advance(c, reports) == advance_inner(c, reports, NONE)

\* The first good report stands in for the receipt of the load transaction.
advance_mock_weights_loaded(c, reports) ==
    LET good == {i \in DOMAIN reports : reports[i].ok}
        first == CHOOSE i \in good : \A j \in good : i <= j
    IN  IF good = {} THEN fail(c)
        ELSE IF reports[first].adopted = ZERO THEN fail(c)
        ELSE advance_inner(c, reports, reports[first].adopted)

-----------------------------------------------------------------------------
(* The rank threads.                                                       *)

Deviates(r, stage) == r \in deviation.ranks /\ AtLeast(stage, deviation.stage)

Report(r, stage) ==
    LET honest == [ok |-> TRUE, rank |-> r, reached |-> stage, digests |-> "digests",
                   adopted |-> IF AtLeast(stage, "WeightsLoaded") THEN "set" ELSE ZERO]
    IN  IF ~Deviates(r, stage) THEN honest
        ELSE CASE deviation.kind = "reject"  -> [honest EXCEPT !.ok = FALSE]
               [] deviation.kind = "digests" -> [honest EXCEPT !.digests = "others"]
               [] deviation.kind = "adopted" -> [honest EXCEPT !.adopted = "others"]
               [] deviation.kind = "blank"   -> [honest EXCEPT !.digests = ZERO, !.adopted = ZERO]

Init ==
    /\ coordinator = new
    /\ run = [at |-> "send", sent |-> {}, reports |-> <<>>, result |-> NONE]
    /\ workers = [r \in Ranks |-> [commands |-> <<>>, exited |-> FALSE]]
    /\ responses = <<>>
    /\ deviation \in Deviations

MockWorker(r) ==
    /\ workers[r].commands # <<>>
    /\ LET command == Head(workers[r].commands)
       IN  IF command = "Shutdown"
           THEN /\ workers' = [workers EXCEPT ![r] = [commands |-> <<>>, exited |-> TRUE]]
                /\ UNCHANGED responses
           ELSE /\ Len(responses) < Cardinality(Ranks)
                /\ workers' = [workers EXCEPT ![r].commands = <<>>]
                /\ responses' = Append(responses, Report(r, command))
    /\ UNCHANGED <<coordinator, run, deviation>>

-----------------------------------------------------------------------------
(* run_coordinator and the end of run_mock_startup.                        *)

Next1 == CHOOSE state \in successor(coordinator.state) : TRUE

\* The coordinator sends to the ranks in order and waits while a channel is full.
Send ==
    /\ run.at \in {"send", "shutdown"}
    /\ \E r \in Ranks :
         /\ run.sent = {q \in Ranks : q < r}
         /\ workers[r].commands = <<>>
         /\ workers' = [workers EXCEPT ![r].commands =
              <<IF run.at = "send" THEN Next1 ELSE "Shutdown">>]
         /\ run' = [run EXCEPT
              !.sent = @ \cup {r},
              !.at = IF run.sent \cup {r} # Ranks THEN @
                     ELSE IF @ = "send" THEN "collect" ELSE "join"]
    /\ UNCHANGED <<coordinator, responses, deviation>>

Advanced(reports) ==
    IF Next1 = "WeightsLoaded" THEN advance_mock_weights_loaded(coordinator, reports)
                               ELSE advance(coordinator, reports)

\* An error ends the run; so does Healthy.
Collect ==
    /\ run.at = "collect" /\ responses # <<>>
    /\ responses' = Tail(responses)
    /\ LET reports == Append(run.reports, Head(responses))
           c       == Advanced(reports)
       IN  IF Len(reports) < Cardinality(Ranks)
           THEN run' = [run EXCEPT !.reports = reports] /\ UNCHANGED coordinator
           ELSE /\ coordinator' = c
                /\ run' = [run EXCEPT
                     !.at = IF successor(c.state) = {} THEN "shutdown" ELSE "send",
                     !.sent = {}, !.reports = <<>>,
                     !.result = IF successor(c.state) = {} THEN c.state ELSE NONE]
    /\ UNCHANGED <<workers, deviation>>

Join ==
    /\ run.at = "join"
    /\ \A r \in Ranks : workers[r].exited
    /\ run' = [run EXCEPT !.at = "returned"]
    /\ UNCHANGED <<coordinator, workers, responses, deviation>>

Next == Send \/ Collect \/ Join \/ \E r \in Ranks : MockWorker(r)

Spec == Init /\ [][Next]_vars

-----------------------------------------------------------------------------
(* Properties.                                                             *)

\* What all ranks report up to a stage: nobody refuses, the digests are one
\* value throughout, and the adopted set is one value from the load on.
Coherent(state) ==
    LET stages == {NORMATIVE_ORDER[i] : i \in 2..Stage(state)}
        loaded == {stage \in stages : AtLeast(stage, "WeightsLoaded")}
        told(field, among) == {Report(r, stage)[field] : r \in Ranks, stage \in among}
    IN  /\ told("ok", stages) \subseteq {TRUE}
        /\ Cardinality(told("digests", stages)) <= 1 /\ ZERO \notin told("digests", stages)
        /\ Cardinality(told("adopted", loaded)) <= 1 /\ ZERO \notin told("adopted", loaded)
        /\ told("adopted", stages \ loaded) \subseteq {ZERO}

\* The process gets exactly as far as all ranks tell the same story, whatever
\* the order in which the reports of a stage arrive: a rank that refuses, and
\* digests or an adopted set that differ between ranks or from an earlier stage,
\* end the startup in Failed, and nothing else does.
StartsOnlyTogether ==
    /\ coordinator.state # "Failed" => Coherent(coordinator.state)
    /\ run.result # NONE => (run.result = "Healthy" <=> Coherent("Healthy"))

\* Nobody waits for ever: until the call returns, the coordinator or a rank can
\* go on, and it returns with every rank thread gone and no message left over.
StartupReturns ==
    IF run.at = "returned"
    THEN responses = <<>> /\ \A r \in Ranks : workers[r].exited
    ELSE ENABLED Next

StartupIsUnanimous == StartsOnlyTogether /\ StartupReturns
=============================================================================
