--------------------------- MODULE CheckpointArena ---------------------------
(***************************************************************************)
(* One rank's CudaQuarantinedArena (glm-engine/src/checkpoint_cuda.rs):    *)
(* two device arenas filled through a ring of pinned slots by copies the   *)
(* GPU performs later, sealed, read back, adopted, and released once.      *)
(*                                                                         *)
(* The owner thread's backend calls may each fail when "calls" is in       *)
(* Faults; the GPU executes its stream in order at its own pace, and an    *)
(* event is the number of operations that precede it.                      *)
(***************************************************************************)
EXTENDS Integers, Sequences, FiniteSets, SequencesExt

CONSTANTS
    weight_bytes, metadata_bytes,   \* arena sizes
    slot_count,                     \* of the pinned ring, at least two
    slot_bytes,                     \* of one slot
    MaxWrites,                      \* bound: chunks written
    Faults                          \* "calls", "sync", "corrupt"

VARIABLES
    at,        \* where PreparedCudaRank::load, or its owner, stands
    arena,     \* CudaQuarantinedArena without its resources
    slots,     \* PinnedSlot: its event, whether a copy is in flight, its bytes
    live,      \* handles created, and not yet given to a free call
    freed,     \* how often each handle was given to a free call
    gpu,       \* the stream (pending), operations done, and device memory
    process    \* "running", "error" (reported to a caller) or "aborted"

vars == <<at, arena, slots, live, freed, gpu, process>>

Slots == 1..slot_count
Planes == {"weight", "metadata"}
Capacity(plane) == IF plane = "weight" THEN weight_bytes ELSE metadata_bytes
Zeros(n) == [i \in 1..n |-> 0]
Host(i) == <<"host", i>>
Event(i) == <<"event", i>>
Single == {<<"stream", 0>>, <<"weight", 0>>, <<"metadata", 0>>}
Handles == Single \union {Host(i) : i \in Slots} \union {Event(i) : i \in Slots}

\* The backend calls of allocate, in order.
Allocations ==
    <<<<"stream", 0>>, <<"weight", 0>>, <<"metadata", 0>>>>
        \o FlattenSeq([i \in Slots |-> <<Host(i), Event(i)>>])

Init ==
    /\ at = "allocating"
    /\ arena = [next_slot |-> 1, sealed |-> FALSE, verified |-> FALSE, poisoned |-> FALSE,
                mismatch |-> FALSE, writes |-> 0,
                image |-> [p \in Planes |-> <<>>]]   \* what the hasher has seen
    /\ slots = [i \in Slots |-> [event |-> 0, in_flight |-> FALSE, bytes |-> <<>>]]
    /\ live = {}
    /\ freed = [h \in Handles |-> 0]
    /\ gpu = [pending |-> <<>>, done |-> 0, corrupted |-> FALSE,
              memory |-> [p \in Planes |-> [i \in 1..Capacity(p) |-> -1]]]
    /\ process = "running"

Fallible == "calls" \in Faults
\* An error on the way drops the arena, and with it its resources.
Drop == at' = "dropping"
-----------------------------------------------------------------------------
(* CudaQuarantinedArena::allocate                                          *)

Allocate ==
    /\ at = "allocating"
    /\ Cardinality(live) < Len(Allocations)
    /\ \/ /\ live' = live \union {Allocations[Cardinality(live) + 1]}
          /\ UNCHANGED at
       \/ Fallible /\ Drop /\ UNCHANGED live
    /\ UNCHANGED <<arena, slots, freed, gpu, process>>

\* Both memset_zero calls are queued on the stream.
Zeroing ==
    <<[plane |-> "weight", from |-> 0, offset |-> 0, count |-> weight_bytes],
      [plane |-> "metadata", from |-> 0, offset |-> 0, count |-> metadata_bytes]>>

Zero ==
    /\ at = "allocating"
    /\ Cardinality(live) = Len(Allocations)
    /\ \/ /\ at' = "loading"
          /\ gpu' = [gpu EXCEPT !.pending = Zeroing]
       \/ Fallible /\ Drop /\ \E n \in 0..1 : gpu' = [gpu EXCEPT !.pending = SubSeq(Zeroing, 1, n)]
    /\ UNCHANGED <<arena, slots, live, freed, process>>

Poison == arena' = [arena EXCEPT !.poisoned = TRUE]
Enqueued(op) == [gpu EXCEPT !.pending = Append(@, op)]
\* The event recorded behind everything the stream holds.
Recorded(g) == g.done + Len(g.pending)
Passed(event) == gpu.done >= event

\* The chunk's bytes reach the device when the GPU performs the copy.
Submit(plane, offset, bytes, recorded) ==
    LET i == arena.next_slot
        op == [plane |-> plane, from |-> i, offset |-> offset, count |-> Len(bytes)]
    IN  /\ gpu' = Enqueued(op)
        /\ slots' = [slots EXCEPT ![i] = [event |-> IF recorded THEN Recorded(Enqueued(op))
                                                    ELSE @.event,
                                          in_flight |-> TRUE, bytes |-> bytes]]

Hashed(plane, offset, bytes) ==
    LET image == arena.image[plane]
    IN  image \o Zeros(offset - Len(image)) \o bytes

Written(plane, offset, bytes) ==
    /\ Submit(plane, offset, bytes, TRUE)
    /\ arena' = [arena EXCEPT !.writes = @ + 1,
                              !.image[plane] = Hashed(plane, offset, bytes),
                              !.next_slot = (@ % slot_count) + 1]

\* write_plane that reuses its slot without waiting for the event.
write_plane_eager(plane, offset, bytes) ==
    /\ at = "loading" /\ ~arena.poisoned /\ ~arena.sealed
    /\ offset >= Len(arena.image[plane]) /\ offset + Len(bytes) <= Capacity(plane)
    /\ Written(plane, offset, bytes)
    /\ UNCHANGED <<at, live, freed, process>>

write_plane(plane, offset, bytes) ==
    /\ at = "loading" /\ ~arena.poisoned /\ ~arena.sealed
    /\ IF \/ Len(bytes) > slot_bytes
          \/ offset < Len(arena.image[plane])
          \/ offset + Len(bytes) > Capacity(plane)
       THEN Poison /\ UNCHANGED <<slots, gpu>>
       ELSE \/ Fallible /\ Poison /\ UNCHANGED <<slots, gpu>>
            \/ /\ slots[arena.next_slot].in_flight => Passed(slots[arena.next_slot].event)
               /\ \/ Written(plane, offset, bytes)
                  \* record_event fails after the copy was queued
                  \/ Fallible /\ Submit(plane, offset, bytes, FALSE) /\ Poison
    /\ UNCHANGED <<at, live, freed, process>>

\* A poisoned or otherwise failed load, or an owner thread that ends, drops
\* the arena.
DropArena ==
    /\ at \in {"loading", "sealed", "prepared", "acknowledged", "executable"}
    /\ arena.poisoned \/ Fallible
    /\ Drop
    /\ UNCHANGED <<arena, slots, live, freed, gpu, process>>

Sealing(hashes) ==
    /\ at' = "sealed"
    /\ arena' = [arena EXCEPT !.sealed = TRUE, !.image = hashes]
    /\ slots' = [i \in Slots |-> [slots[i] EXCEPT !.in_flight = FALSE]]

drain_and_seal ==
    /\ at = "loading" /\ ~arena.poisoned
    /\ \/ /\ \A i \in Slots : slots[i].in_flight => Passed(slots[i].event)
          /\ gpu.pending = <<>>
          /\ Sealing([p \in Planes |-> Hashed(p, Capacity(p), <<>>)])
       \/ Fallible /\ Poison /\ UNCHANGED <<at, slots>>
    /\ UNCHANGED <<live, freed, gpu, process>>

\* A copy of the read-back: it leaves the device's memory as it is.
ReadBack == [plane |-> "weight", from |-> 0, offset |-> 0, count |-> 0]

\* Both arenas are read back through the first slot and hashed.  A failed
\* event leaves the copy it followed on the stream, to a slot in flight.
verify_device_contents ==
    /\ at = "sealed" /\ arena.sealed /\ ~arena.verified /\ ~arena.poisoned
    /\ ~slots[1].in_flight
    /\ \/ /\ IF gpu.memory = arena.image
             THEN arena' = [arena EXCEPT !.verified = TRUE] /\ at' = "prepared"
             ELSE arena' = [arena EXCEPT !.poisoned = TRUE, !.mismatch = TRUE] /\ UNCHANGED at
          /\ UNCHANGED <<slots, gpu>>
       \/ /\ Fallible /\ Poison
          /\ \/ UNCHANGED <<slots, gpu>>
             \/ /\ slots' = [slots EXCEPT ![1].in_flight = TRUE]
                /\ gpu' = Enqueued(ReadBack)
          /\ UNCHANGED at
    /\ UNCHANGED <<live, freed, process>>
-----------------------------------------------------------------------------
(* After the load: acknowledged, adopted, or aborted.                      *)

acknowledge_adoption ==
    /\ at = "prepared"
    /\ at' = "acknowledged"
    /\ UNCHANGED <<arena, slots, live, freed, gpu, process>>

\* CudaQuarantinedArena::adopt; a refusal drops the arena.
adopt ==
    /\ at = "acknowledged"
    /\ IF arena.sealed /\ arena.verified /\ ~arena.poisoned
       THEN at' = "executable" ELSE Drop
    /\ UNCHANGED <<arena, slots, live, freed, gpu, process>>

\* abort_and_release, or shutdown of an adopted arena
abort_and_release ==
    /\ at \in {"prepared", "acknowledged", "executable"}
    /\ at' = "releasing"
    /\ UNCHANGED <<arena, slots, live, freed, gpu, process>>

Failing(error) ==
    IF error THEN IF at = "dropping" THEN "aborted" ELSE "error" ELSE process

\* CudaArenaResources::cleanup that trusts the events instead of the stream.
cleanup_unsynchronized ==
    /\ at \in {"releasing", "dropping"}
    /\ freed' = [h \in Handles |-> IF h \in live THEN freed[h] + 1 ELSE freed[h]]
    /\ live' = {}
    /\ at' = "released"
    /\ UNCHANGED <<arena, slots, gpu, process>>

\* The stream is drained before anything is freed.  When it cannot be,
\* every handle is leaked; a failed free does not keep the others.
cleanup ==
    /\ at \in {"releasing", "dropping"}
    /\ \/ /\ <<"stream", 0>> \in live => gpu.pending = <<>>
          /\ freed' = [h \in Handles |-> IF h \in live THEN freed[h] + 1 ELSE freed[h]]
          /\ live' = {}
          /\ \E error \in {FALSE} \union (IF Fallible THEN {TRUE} ELSE {}) :
                process' = Failing(error)
       \/ /\ "sync" \in Faults
          /\ <<"stream", 0>> \in live
          /\ process' = Failing(TRUE)
          /\ UNCHANGED <<live, freed>>
    /\ at' = "released"
    /\ UNCHANGED <<arena, slots, gpu>>
-----------------------------------------------------------------------------
(* The GPU                                                                 *)

Execute ==
    /\ gpu.pending # <<>>
    /\ LET op == Head(gpu.pending)
           source(k) == IF op.from = 0 THEN 0 ELSE slots[op.from].bytes[k]
           reach == IF op.from = 0 THEN op.count ELSE Len(slots[op.from].bytes)
       IN  gpu' = [gpu EXCEPT
                     !.pending = Tail(@), !.done = @ + 1,
                     !.memory[op.plane] = [i \in DOMAIN @ |->
                        IF i - op.offset \in 1..op.count
                        THEN IF i - op.offset \in 1..reach THEN source(i - op.offset) ELSE -1
                        ELSE @[i]]]
    /\ UNCHANGED <<at, arena, slots, live, freed, process>>

Corrupt ==
    /\ "corrupt" \in Faults /\ ~gpu.corrupted
    /\ at \in {"loading", "sealed"}
    /\ gpu' = [gpu EXCEPT !.corrupted = TRUE, !.memory["weight"][1] = -1]
    /\ UNCHANGED <<at, arena, slots, live, freed, process>>

\* Every chunk carries bytes of its own.
Chunk(n) == [i \in 1..n |-> (arena.writes + 1) * 10 + i]

Write ==
    /\ arena.writes < MaxWrites
    /\ \E plane \in Planes, offset \in 0..weight_bytes - 1, n \in 1..slot_bytes + 1 :
         write_plane(plane, offset, Chunk(n))

Next ==
    \/ Allocate \/ Zero \/ Write \/ DropArena \/ drain_and_seal \/ verify_device_contents
    \/ acknowledge_adoption \/ adopt \/ abort_and_release \/ cleanup
    \/ Execute \/ Corrupt

Spec == Init /\ [][Next]_vars
-----------------------------------------------------------------------------
\* An arena that passed the read-back holds exactly the bytes streamed into
\* it, zeros in the gaps, whatever the GPU's pace.
VerifiedIsWhatWasWritten ==
    at \in {"prepared", "acknowledged", "executable"} => gpu.memory = arena.image

\* The read-back fails only for memory the device itself damaged: no copy
\* reads a pinned slot after the next chunk was put there.
MismatchMeansDamage == arena.mismatch => gpu.corrupted

\* Nothing is freed while the GPU may still copy from or to it.
NothingFreedInFlight == gpu.pending # <<>> => \A h \in Handles : freed[h] = 0

\* Every handle is given back once, unless the stream could not be drained,
\* and then the caller sees an error or the process ends.
ReleasedExactly ==
    /\ \A h \in Handles : freed[h] <= 1
    /\ at = "released" /\ live # {} =>
         process # "running" /\ \A h \in Handles : freed[h] = 0
=============================================================================
