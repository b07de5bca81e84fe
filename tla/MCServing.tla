----------------------------- MODULE MCServing -----------------------------
(***************************************************************************)
(* Three requests, of a kind that drafts and one that does not, on two     *)
(* ranks; a cached first page with and without its draft.                  *)
(***************************************************************************)
EXTENDS Serving

CONSTANTS k0, x, y

MCAttachments ==
    {[key |-> k0, generation |-> 1, target |-> x, draft |-> NONE],
     [key |-> k0, generation |-> 2, target |-> x, draft |-> y]}

MCWeight == [t \in Tenants |-> 1]

MCActive == [t \in Tenants |-> 2]

Request(prompt, new_tokens, depth) ==
    [tenant |-> 1, prompt_tokens |-> prompt, maximum_new_tokens |-> new_tokens,
     mtp_depth |-> depth, sampling |-> "Greedy"]

MCSpecs == {Request(2, 2, 1), Request(3, 1, 0)}

MCRoutes ==
    [kind \in {"TpReduce", "DcpPackedCkv", "DcpQueryGather", "DcpCandidateExchange",
               "DcpPartialStateReturn", "LogitsArgmax", "LogitsTopK", "LogitsMass"} |->
       [route_id |-> IF kind = "TpReduce" THEN 1 ELSE 2, bytes_per_row |-> 8]]

Graph(id, mode, depth, query_rows, prompt_tokens) ==
    [graph_id |-> id, order |-> id, mode |-> mode, mtp_depth |-> depth, sequences |-> 2,
     query_rows |-> query_rows, prompt_tokens |-> prompt_tokens, sequence_bucket |-> 2,
     verifier_row_bucket |-> IF mode = "Prefill" THEN 0 ELSE query_rows,
     attention_transport |-> IF mode = "Prefill" THEN "PrefillCkv" ELSE "DecodeQueryLse",
     tp_routes |-> {1}, dcp_routes |-> {2},
     sampling_routes |-> IF mode = "Prefill" THEN {} ELSE {2}]

MCGraphs == {Graph(1, "Prefill", 0, 3, 3), Graph(2, "Decode", 0, 2, 0),
             Graph(3, "Verify", 1, 4, 0)}

\* The profile is one the scheduler accepts, and its entries are sound.
ASSUME MCProfileAssumption ==
    /\ E!ValidCatalog
    /\ E!validate_entries(Graphs)
    /\ \A graph \in Graphs : E!CapturedSoundly(graph)
=============================================================================
