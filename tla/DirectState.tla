----------------------------- MODULE DirectState -----------------------------
(***************************************************************************)
(* The two generation-tagged tables of glm-cache/src/direct_state.rs as    *)
(* operators on values: the pool of I/O buffers and the table of io_uring  *)
(* descriptors.  An operation that the code refuses returns NONE, except   *)
(* the two searches, which may retire worn-out slots and still fail; they  *)
(* return the new table with a NONE id.                                    *)
(*                                                                         *)
(* No holder of a buffer's lock can panic while writing it, so a poisoned  *)
(* lock is not modelled.                                                   *)
(***************************************************************************)
EXTENDS DirectExtent, FiniteSets

CONSTANTS
    buffer_slots, descriptor_capacity,
    BufferGenerations,      \* bound: u64::MAX
    DescriptorGenerations,  \* bound: u32::MAX
    NONE

ASSUME DirectStateAssumption ==
    /\ buffer_slots \in Nat \ {0} /\ descriptor_capacity \in Nat \ {0}
    /\ BufferGenerations \in Nat \ {0} /\ DescriptorGenerations \in Nat \ {0}

is_active(state) == state \notin {"Free", "Failed", "Quarantined", "Retired"}

\* The slots a circular search from `next` inspects before it stops at the
\* first usable one, and that one (NONE if there is none).
Search(next, capacity, usable) ==
    LET At(d) == (next + d) % capacity
        hits == {d \in 0..capacity - 1 : At(d) \in usable}
        first == CHOOSE d \in hits : \A e \in hits : d <= e
    IN  [found |-> IF hits = {} THEN NONE ELSE At(first),
         passed |-> {At(d) : d \in {e \in 0..capacity - 1 : \A h \in hits : e < h}}]

(***************************************************************************)
(* DirectBufferPool                                                        *)
(***************************************************************************)
NewPool ==
    [slots |-> [i \in 0..buffer_slots - 1 |-> [generation |-> 0, state |-> "Free", bytes |-> Blank]],
     next_search |-> 0]

reserve(pool, usage) ==
    LET Free(i) == pool.slots[i].state = "Free"
        search == Search(pool.next_search, buffer_slots,
                         {i \in DOMAIN pool.slots :
                            Free(i) /\ pool.slots[i].generation < BufferGenerations})
        i == search.found
        retired == [j \in DOMAIN pool.slots |->
                      IF j \in search.passed /\ Free(j)
                      THEN [pool.slots[j] EXCEPT !.state = "Retired"] ELSE pool.slots[j]]
        generation == pool.slots[i].generation + 1
    IN  IF i = NONE
        THEN [pool |-> [pool EXCEPT !.slots = retired], id |-> NONE]
        ELSE [pool |-> [slots |-> [retired EXCEPT ![i] =
                                     [generation |-> generation, bytes |-> Blank,
                                      state |-> IF usage = "CpuWrite" THEN "HashingForWrite"
                                                ELSE "ReadQueued"]],
                        next_search |-> (i + 1) % buffer_slots],
              id |-> [slot |-> i, generation |-> generation]]

\* DirectBufferPool::slot finds the id's slot only in the id's generation.
Current(pool, id) ==
    /\ id.generation # 0 /\ id.slot \in DOMAIN pool.slots
    /\ pool.slots[id.slot].generation = id.generation

valid_transition(current, next) ==
    \/ is_active(current) /\ next = "Failed"
    \/ <<current, next>> \in
         {<<"FillingFromHbm", "HashingForWrite">>, <<"HashingForWrite", "WriteQueued">>,
          <<"WriteQueued", "WriteInflight">>, <<"WriteQueued", "Free">>,
          <<"WriteInflight", "Free">>, <<"ReadQueued", "ReadInflight">>, <<"ReadQueued", "Free">>,
          <<"ReadInflight", "HashingForRead">>, <<"HashingForRead", "HostReady">>,
          <<"HostReady", "CopyingToHbm">>, <<"HostReady", "Free">>, <<"CopyingToHbm", "Free">>,
          <<"Failed", "Quarantined">>}

SetState(pool, id, next) ==
    [pool EXCEPT !.slots[id.slot].state = next,
                 !.slots[id.slot].bytes = IF next = "Free" THEN Blank ELSE @]

transition(pool, id, next) ==
    IF Current(pool, id) /\ valid_transition(pool.slots[id.slot].state, next)
    THEN SetState(pool, id, next) ELSE NONE

release_abandoned_read(pool, id) ==
    IF Current(pool, id) /\ pool.slots[id.slot].state = "ReadInflight"
    THEN SetState(pool, id, "Free") ELSE NONE

with_bytes_mut(pool, id, bytes) ==
    IF Current(pool, id) /\ is_active(pool.slots[id.slot].state)
    THEN [pool EXCEPT !.slots[id.slot].bytes = bytes] ELSE NONE

active_slots(pool) == Cardinality({i \in DOMAIN pool.slots : is_active(pool.slots[i].state)})

(***************************************************************************)
(* DirectDescriptorTable.  A token names a slot, its generation and the    *)
(* completion it stands for.                                               *)
(***************************************************************************)
NewDescriptors ==
    [slots |-> [i \in 0..descriptor_capacity - 1 |->
                  [generation |-> 0, retired |-> FALSE, entry |-> NONE]],
     next_search |-> 0]

Token(slot, generation, kind) == [slot |-> slot, generation |-> generation, kind |-> kind]

allocate(table, binding) ==
    LET Open(i) == ~table.slots[i].retired /\ table.slots[i].entry = NONE
        search == Search(table.next_search, descriptor_capacity,
                         {i \in DOMAIN table.slots :
                            Open(i) /\ table.slots[i].generation < DescriptorGenerations})
        i == search.found
        retired == [j \in DOMAIN table.slots |->
                      [table.slots[j] EXCEPT !.retired = @ \/ (j \in search.passed /\ Open(j))]]
        generation == table.slots[i].generation + 1
    IN  IF i = NONE
        THEN [table |-> [table EXCEPT !.slots = retired], token |-> NONE]
        ELSE [table |-> [slots |-> [retired EXCEPT ![i] =
                                      [generation |-> generation, retired |-> FALSE,
                                       entry |-> [binding |-> binding, Original |-> TRUE,
                                                  AsyncCancel |-> FALSE]]],
                         next_search |-> (i + 1) % descriptor_capacity],
              token |-> Token(i, generation, "Original")]

\* Whether the completion the token stands for is outstanding.
Pending(table, token) ==
    /\ token.generation # 0 /\ token.slot \in DOMAIN table.slots
    /\ table.slots[token.slot].generation = token.generation
    /\ table.slots[token.slot].entry # NONE
    /\ table.slots[token.slot].entry[token.kind]

resolve(table, token) ==
    IF Pending(table, token) THEN table.slots[token.slot].entry.binding ELSE NONE

issue_cancel(table, original) ==
    IF /\ original.kind = "Original" /\ Pending(table, original)
       /\ ~table.slots[original.slot].entry.AsyncCancel
    THEN [table EXCEPT !.slots[original.slot].entry.AsyncCancel = TRUE] ELSE NONE

complete(table, token) ==
    LET entry == table.slots[token.slot].entry
        left == [entry EXCEPT ![token.kind] = FALSE]
    IN  IF ~Pending(table, token) THEN NONE
        ELSE [table EXCEPT !.slots[token.slot].entry =
                IF left.Original \/ left.AsyncCancel THEN left ELSE NONE]

outstanding_descriptors(table) ==
    Cardinality({i \in DOMAIN table.slots : table.slots[i].entry # NONE})
=============================================================================
