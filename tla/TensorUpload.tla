---------------------------- MODULE TensorUpload ----------------------------
(***************************************************************************)
(* PlannedRankTensorSink (glm-engine/src/checkpoint_load.rs) writing one   *)
(* rank's stream into the arenas LoadPlan laid out.  The caller is any     *)
(* user of the RankTensorSink callbacks: the native reader's order and     *)
(* chunking, and every wrong order too.  A byte is named by the tensor,    *)
(* the plane and its index there.                                          *)
(***************************************************************************)
EXTENDS LoadPlan, Functions

CONSTANTS
    Contracts,      \* the tensor contracts to plan for
    Environments,   \* RankSetLoadEnvironment values
    RankSources,    \* what the rank files say, one function per choice
    Chunks,         \* sizes of the chunks a reader may hand over
    Rank,           \* the rank that uploads
    WriterFails     \* whether an arena write may fail

VARIABLES
    contract, plan,   \* plan is "unbuilt" before build_rank_set_load_plan
    sink,             \* PlannedRankTensorSink
    arena,            \* [weight, metadata] : offset -> the bytes written there, in order
    summary           \* the RankArenaUploadSummary of drain_and_seal, or NONE

vars == <<contract, plan, sink, arena, summary>>

NewSink == [next_tensor |-> 1, active |-> NONE, primary |-> 0, auxiliary |-> 0,
            metadata |-> 0, failed |-> FALSE]

Init ==
    /\ contract \in Contracts
    /\ plan = [state |-> "unbuilt"]
    /\ sink = NewSink
    /\ arena = [weight |-> <<>>, metadata |-> <<>>]
    /\ summary = NONE

Blank(bytes) == [i \in 1..bytes |-> <<>>]

Build ==
    /\ plan = [state |-> "unbuilt"]
    /\ \E environment \in Environments, sources \in RankSources :
         \E p \in {build_rank_set_load_plan_from_sources(
                     [r \in LoadRanks |-> sources[r] @@ [descriptors |-> contract]],
                     environment, contract)} :
            IF p = NONE
            THEN plan' = [state |-> "refused"] /\ UNCHANGED arena
            ELSE /\ plan' = p @@ [state |-> "built"]
                 /\ arena' = [weight |-> Blank(p.layouts[Rank].weight),
                              metadata |-> Blank(p.layouts[Rank].metadata)]
    /\ UNCHANGED <<contract, sink, summary>>

Layout == plan.layouts[Rank].tensors
Uploading == plan.state = "built" /\ summary = NONE

\* Writes bytes first..first+n-1 of a plane at its offset.
WriteAt(bytes, offset, n, tensor, plane, first) ==
    [i \in DOMAIN bytes |->
        IF i \in offset + 1..offset + n
        THEN Append(bytes[i], <<tensor, plane, first + (i - offset - 1)>>)
        ELSE bytes[i]]

Fail == sink' = [sink EXCEPT !.failed = TRUE] /\ UNCHANGED arena

begin_tensor(index, matches) ==
    /\ Uploading
    /\ IF sink.failed \/ sink.active # NONE \/ index # sink.next_tensor
          \/ index > Len(Layout) \/ ~matches
       THEN Fail
       ELSE LET e == Layout[index] IN
            \/ WriterFails /\ Fail
            \/ /\ arena' = [arena EXCEPT !.metadata =
                              WriteAt(@, e.metadata, e.t.metadata_bytes, index, "metadata", 0)]
               /\ sink' = [sink EXCEPT
                             !.metadata = @ + e.t.metadata_bytes,
                             !.active = [primary |-> 0, auxiliary |-> 0]]
    /\ UNCHANGED <<contract, plan, summary>>

primary_chunk(n) ==
    /\ Uploading
    /\ IF sink.active = NONE THEN Fail
       ELSE LET e == Layout[sink.next_tensor] IN
            IF sink.failed \/ sink.active.primary + n > e.t.primary_bytes THEN Fail
            ELSE
            \/ WriterFails /\ Fail
            \/ /\ arena' = [arena EXCEPT !.weight =
                              WriteAt(@, e.primary + sink.active.primary, n, sink.next_tensor,
                                      "primary", sink.active.primary)]
               /\ sink' = [sink EXCEPT !.primary = @ + n, !.active.primary = @ + n]
    /\ UNCHANGED <<contract, plan, summary>>

aux_chunk(n) ==
    /\ Uploading
    /\ IF sink.active = NONE THEN Fail
       ELSE LET e == Layout[sink.next_tensor] IN
            IF \/ sink.failed
               \/ sink.active.primary # e.t.primary_bytes
               \/ sink.active.auxiliary + n > e.t.auxiliary_bytes
            THEN Fail
            ELSE
            \/ WriterFails /\ Fail
            \/ /\ arena' = [arena EXCEPT !.weight =
                              WriteAt(@, e.auxiliary + sink.active.auxiliary, n,
                                      sink.next_tensor, "auxiliary", sink.active.auxiliary)]
               /\ sink' = [sink EXCEPT !.auxiliary = @ + n, !.active.auxiliary = @ + n]
    /\ UNCHANGED <<contract, plan, summary>>

\* finish_tensor that only asks for the primary plane.
finish_tensor_early ==
    /\ Uploading
    /\ sink' = IF \/ sink.active = NONE \/ sink.failed
                  \/ sink.active.primary # Layout[sink.next_tensor].t.primary_bytes
               THEN [sink EXCEPT !.active = NONE, !.failed = TRUE]
               ELSE [sink EXCEPT !.active = NONE, !.next_tensor = @ + 1]
    /\ UNCHANGED <<contract, plan, arena, summary>>

finish_tensor ==
    /\ Uploading
    /\ sink' = IF \/ sink.active = NONE \/ sink.failed
                  \/ sink.active # [primary |-> Layout[sink.next_tensor].t.primary_bytes,
                                    auxiliary |-> Layout[sink.next_tensor].t.auxiliary_bytes]
               THEN [sink EXCEPT !.active = NONE, !.failed = TRUE]
               ELSE [sink EXCEPT !.active = NONE, !.next_tensor = @ + 1]
    /\ UNCHANGED <<contract, plan, arena, summary>>

\* A refused seal, or a writer that cannot drain, gives no summary.
drain_and_seal ==
    /\ Uploading
    /\ \/ /\ sink.failed \/ sink.active # NONE \/ sink.next_tensor # Len(Layout) + 1
          /\ summary' = [state |-> "incomplete"]
       \/ /\ ~sink.failed /\ sink.active = NONE /\ sink.next_tensor = Len(Layout) + 1
          /\ summary' \in {[state |-> "writer failed"],
                           [state |-> "sealed", metadata |-> sink.metadata,
                            primary |-> sink.primary, auxiliary |-> sink.auxiliary]}
    /\ UNCHANGED <<contract, plan, sink, arena>>

Next ==
    \/ Build
    \/ \E index \in 1..Len(contract) + 1, matches \in BOOLEAN : begin_tensor(index, matches)
    \/ \E n \in Chunks : primary_chunk(n) \/ aux_chunk(n)
    \/ finish_tensor \/ drain_and_seal

Spec == Init /\ [][Next]_vars
-----------------------------------------------------------------------------
Sealed == summary # NONE /\ summary.state = "sealed"

\* The layout derived from a well-formed contract always passes the
\* validation RankSetLoadPlan::new applies to it: alignment, bounds, overlap
\* and exact arena size, unless a cursor overflows.
DerivedLayoutIsValid ==
    \A r \in LoadRanks :
        LET layout == derive_tensor_arena_entries(contract, contract)
        IN  layout # NONE =>
                validate_tensor_layout(r, [tensor_count |-> Len(contract),
                                           arena_layout |-> arena_layout_sha256(r, layout)],
                                       layout)

\* Where the planned bytes of each plane must be, and nothing else.
Planes(e) ==
    [primary |-> [start |-> e.primary, bytes |-> e.t.primary_bytes],
     auxiliary |-> [start |-> e.auxiliary, bytes |-> e.t.auxiliary_bytes],
     metadata |-> [start |-> e.metadata, bytes |-> e.t.metadata_bytes]]
PlannedByte(planes, offset) ==
    {<<i, p, k>> \in (DOMAIN Layout) \X planes \X (0..MaxU64) :
        LET plane == Planes(Layout[i])[p]
        IN  k < plane.bytes /\ offset = plane.start + k}
Exact(bytes, planes) ==
    \A i \in DOMAIN bytes :
        Len(bytes[i]) <= 1 /\ Range(bytes[i]) = PlannedByte(planes, i - 1)

\* A sealed arena holds each byte of each tensor once, at its planned
\* offset, whatever the order and the sizes of the chunks: no chunk is
\* dropped, repeated or written over another plane.
SealedArenaIsExact ==
    Sealed => /\ Exact(arena.weight, {"primary", "auxiliary"})
              /\ Exact(arena.metadata, {"metadata"})


\* The summary of a sealed upload is the one the plan predicts, which
\* RankLoadVerificationEvidence::new demands.
SummaryIsExpected ==
    Sealed => [metadata |-> summary.metadata, primary |-> summary.primary,
               auxiliary |-> summary.auxiliary] = expected_upload_summary(plan, Rank)

\* What the plan accepts the executor can use: an adopted arena's layout
\* passes validate_resident_layout and every tensor resolves to addresses of
\* its own, no two planes of a rank sharing a byte.  (A plan without codec
\* metadata is accepted here and refused by the device arena.)
PlannedTensorsResolve ==
    plan.state = "built" /\ plan.layouts[Rank].metadata # 0 =>
        LET layout == plan.layouts[Rank]
            base == [weight |-> 256, metadata |-> 512]
            bindings == [i \in DOMAIN layout.tensors |-> tensor_binding(layout, base, i - 1)]
        IN  /\ validate_resident_layout(layout)
            /\ \A i \in DOMAIN bindings : bindings[i] # NONE
            /\ \A i, j \in DOMAIN bindings : \A p, q \in {"primary", "auxiliary", "metadata"} :
                 <<i, p>> # <<j, q>> => bindings[i][p] \intersect bindings[j][q] = {}
=============================================================================
