---------------------------- MODULE WorkerPool ----------------------------
(***************************************************************************)
(* The TP4 worker pool of glm-engine/src/worker.rs: callers that reserve a *)
(* step slot or the whole pool through one atomic state word, a bounded    *)
(* command queue, the dispatcher thread, and one persistent thread per     *)
(* rank with a channel of one command.  A rank's weights follow the native *)
(* executor of native_worker.rs.                                           *)
(*                                                                         *)
(* Plans, deltas and tensors are reduced to what the pool compares: a step *)
(* identifier, the page-table generation a delta starts from, the digest   *)
(* of an output, the identity of a device.  A command goes to the ranks in *)
(* one step, taken when every rank's channel has room; the receipts that   *)
(* the load coordinator refuses are the subject of RankSetLoad, and show   *)
(* here as a rank whose phase failed.  Every step is bound to a page table *)
(* (try_submit_bound); an unbound one exists in tests only.                *)
(***************************************************************************)
EXTENDS Integers, Sequences, FiniteSets

CONSTANTS
  Ranks,                \* the rank threads (four in the code)
  Callers,              \* threads that share the pool
  maximum_outstanding,  \* steps queued or running at most
  Kinds,                \* the calls the callers make
  Calls,                \* bound on the number of calls
  MaxStep,              \* bound on step identifiers and on generations
  Faults,               \* what may go wrong on a rank
  NONE

ASSUME PoolAssumption ==
  /\ maximum_outstanding \in Nat \ {0}
  /\ Calls \in Nat /\ MaxStep \in Nat
  /\ Kinds \subseteq {"Initialize", "ApplyDelta", "DeviceIdentities",
                      "LoadWeights", "ShutdownWeights", "Execute"}
  /\ Faults \subseteq {"spawn", "memory", "load", "acknowledge", "finalize",
                       "release", "panic", "execute", "diverge", "identity",
                       "timeout"}

VARIABLES
  state_word,   \* the atomic word: count and the three flags
  queue,        \* the pool's command channel
  dispatcher,   \* the dispatcher thread
  ranks,        \* the rank threads
  callers,      \* the calling threads
  calls,        \* calls still to be made
  handle        \* TRUE until the pool is dropped

vars == <<state_word, queue, dispatcher, ranks, callers, calls, handle>>

---------------------------------------------------------------------------
(* The state word.                                                         *)

Free == [count |-> 0, exclusive |-> FALSE, closed |-> FALSE, poisoned |-> FALSE]

\* Mutant: a slot is given out while the pool is held exclusively.
reserve_beside_exclusive(w) ==
  IF ~w.closed /\ ~w.poisoned /\ w.count < maximum_outstanding
  THEN [w EXCEPT !.count = @ + 1] ELSE NONE

reserve_slot(w) ==
  IF ~w.exclusive /\ ~w.closed /\ ~w.poisoned /\ w.count < maximum_outstanding
  THEN [w EXCEPT !.count = @ + 1] ELSE NONE

try_reserve_exclusive(w) ==
  IF w = Free THEN [Free EXCEPT !.exclusive = TRUE] ELSE NONE

drop_outstanding(w) ==
  IF w.count = 0 THEN [w EXCEPT !.poisoned = TRUE]
                 ELSE [w EXCEPT !.count = @ - 1]

drop_exclusive(w) ==
  IF w.exclusive /\ w.count = 0 /\ ~w.poisoned
  THEN [w EXCEPT !.exclusive = FALSE]
  ELSE [w EXCEPT !.exclusive = FALSE, !.poisoned = TRUE]

ReservePermit(w, kind) ==
  IF kind = "Execute" THEN reserve_slot(w) ELSE try_reserve_exclusive(w)

DropPermit(w, kind) ==
  IF kind = "Execute" THEN drop_outstanding(w) ELSE drop_exclusive(w)

\* The permits of the commands that are dropped with the queue.
DropPermits(w, commands) ==
  LET After[i \in 0..Len(commands)] ==
        IF i = 0 THEN w ELSE DropPermit(After[i - 1], commands[i].kind)
  IN  After[Len(commands)]

---------------------------------------------------------------------------
(* The calls.  A command names what the dispatcher compares: the step, and *)
(* the generation its delta starts from.                                   *)

Idle(answer) == [at |-> "idle", command |-> NONE, answer |-> answer]
Answer(kind, ok, clean) == [kind |-> kind, ok |-> ok, clean |-> clean]

\* Only what a call uses distinguishes two of its commands.
Request(kind, caller, step, generation) ==
  /\ (kind # "Execute") => step = 0
  /\ (kind = "Execute") => step > 0
  /\ (kind \notin {"Execute", "ApplyDelta"}) => generation = 0

\* A call takes its permit before anything is sent; a call the word refuses
\* returns Saturated, Closed or Poisoned and changes nothing.
Reserve(c) ==
  /\ callers[c].at = "idle" /\ calls > 0 /\ handle
  /\ dispatcher.ready = Ranks
  /\ \E kind \in Kinds, step \in 0..MaxStep, generation \in 0..MaxStep :
       /\ Request(kind, c, step, generation)
       /\ ReservePermit(state_word, kind) # NONE
       /\ state_word' = ReservePermit(state_word, kind)
       /\ callers' = [callers EXCEPT ![c] =
            [at |-> "reserved", answer |-> NONE,
             command |-> [kind |-> kind, caller |-> c, step |-> step,
                          generation |-> generation]]]
  /\ calls' = calls - 1
  /\ UNCHANGED <<queue, dispatcher, ranks, handle>>

\* A step uses try_send, the other calls wait for room; a send that fails
\* drops the command and with it the permit.
Submit(c) ==
  /\ callers[c].at = "reserved"
  /\ LET command == callers[c].command IN
     IF dispatcher.at = "done" \/ (Len(queue) = maximum_outstanding
                                    /\ command.kind = "Execute")
     THEN /\ state_word' = DropPermit(state_word, command.kind)
          /\ callers' = [callers EXCEPT ![c] =
               Idle(Answer(command.kind, FALSE, FALSE))]
          /\ UNCHANGED queue
     ELSE /\ Len(queue) < maximum_outstanding
          /\ queue' = Append(queue, command)
          /\ callers' = [callers EXCEPT ![c].at = "waiting"]
          /\ UNCHANGED state_word
  /\ UNCHANGED <<dispatcher, ranks, calls, handle>>

\* apply_page_delta verifies the delta once it holds the permit.
Withdraw(c) ==
  /\ callers[c].at = "reserved" /\ callers[c].command.kind = "ApplyDelta"
  /\ state_word' = DropPermit(state_word, "ApplyDelta")
  /\ callers' = [callers EXCEPT ![c] = Idle(NONE)]
  /\ UNCHANGED <<queue, dispatcher, ranks, calls, handle>>

\* A step's handle is dropped, or its receive times out: nobody waits for
\* the answer any more, and the quota stays with the step.
Abandon(c) ==
  /\ callers[c].at = "waiting" /\ callers[c].command.kind = "Execute"
  /\ callers' = [callers EXCEPT ![c] = Idle(NONE)]
  /\ UNCHANGED <<state_word, queue, dispatcher, ranks, calls, handle>>

\* Dropping the pool drops the sender; calls that borrow the pool are over.
DropPool ==
  /\ handle /\ dispatcher.ready = Ranks
  /\ \A c \in Callers :
       \/ callers[c].at = "idle"
       \/ callers[c].at = "waiting" /\ callers[c].command.kind = "Execute"
  /\ handle' = FALSE
  /\ UNCHANGED <<state_word, queue, dispatcher, ranks, callers, calls>>

---------------------------------------------------------------------------
(* The rank threads.                                                       *)

NewRank ==
  [at |-> "initializing", inbox |-> NONE, running |-> NONE,
   last_step_id |-> 0, page_table |-> NONE,
   weights |-> "Vacant", active |-> FALSE]

\* The thread ends: its executor is dropped, and with it what it still held.
Ended(k) ==
  [k EXCEPT !.at = "ended", !.inbox = NONE, !.running = NONE,
            !.weights = "Vacant", !.active = FALSE]

Ok(k, value)  == [ok |-> TRUE, value |-> value, rank |-> k]
Err(k)        == [ok |-> FALSE, value |-> NONE, rank |-> k]
ErrIf(f, k)   == IF f \in Faults THEN {Err(k)} ELSE {}

initialize(k, command) ==
  IF k.page_table # NONE THEN {Err(k)}
  ELSE {Ok([k EXCEPT !.page_table = command.generation], command.generation)}

\* The mirror refuses a delta that does not start from its generation.
apply_page_delta_on_rank(k, command) ==
  IF k.page_table = NONE \/ k.page_table # command.generation THEN {Err(k)}
  ELSE {Ok([k EXCEPT !.page_table = @ + 1], k.page_table + 1)}

\* A bound step applies its delta before the executor runs; the executor may
\* fail, or produce an output that differs from the other ranks'.
execute_rank(k, command) ==
  IF command.step <= k.last_step_id THEN {Err(k)}
  ELSE LET started == [k EXCEPT !.last_step_id = command.step] IN
       UNION { IF applied.ok
               THEN {Ok(applied.rank, digest) :
                       digest \in IF "diverge" \in Faults THEN {0, 1} ELSE {0}}
                    \cup ErrIf("execute", applied.rank)
               ELSE {Err(applied.rank)} :
               applied \in apply_page_delta_on_rank(started, command) }

checkpoint_device_identity_sha256(k, r) ==
  {Ok(k, r)} \cup (IF "identity" \in Faults THEN {Err(k), Ok(k, NONE)} ELSE {})

\* The attempt is remembered before the arena is allocated, and after the
\* free-memory check.
prepare_weights(k) ==
  IF k.active \/ k.weights # "Vacant" THEN {Err(k)}
  ELSE ErrIf("memory", k)
       \cup ErrIf("load", [k EXCEPT !.active = TRUE])
       \cup {Ok([k EXCEPT !.active = TRUE, !.weights = "Prepared"], NONE)}

acknowledge_weight_adoption(k) ==
  IF ~k.active \/ k.weights # "Prepared" THEN {Err(k)}
  ELSE ErrIf("acknowledge", [k EXCEPT !.weights = "Vacant"])
       \cup {Ok([k EXCEPT !.weights = "Acknowledged"], NONE)}

finalize_weights(k) ==
  IF ~k.active \/ k.weights # "Acknowledged" THEN {Err(k)}
  ELSE ErrIf("finalize", [k EXCEPT !.weights = "Vacant"])
       \cup (IF "release" \in Faults
             THEN ErrIf("finalize", [k EXCEPT !.weights = "CleanupFailed"]) ELSE {})
       \cup {Ok([k EXCEPT !.weights = "Resident"], NONE)}

abort_weight_load(k) ==
  IF ~k.active \/ k.weights = "CleanupFailed" THEN {Err(k)}
  ELSE (IF k.weights = "Vacant" THEN {}
        ELSE ErrIf("release", [k EXCEPT !.weights = "CleanupFailed"]))
       \cup {Ok([k EXCEPT !.weights = "Vacant", !.active = FALSE], NONE)}

Served(k, r, command) ==
  CASE command.kind = "Initialize"         -> initialize(k, command)
    [] command.kind = "ApplyDelta"         -> apply_page_delta_on_rank(k, command)
    [] command.kind = "DeviceIdentity"     -> checkpoint_device_identity_sha256(k, r)
    [] command.kind = "PrepareWeights"     -> prepare_weights(k)
    [] command.kind = "AcknowledgeWeights" -> acknowledge_weight_adoption(k)
    [] command.kind = "FinalizeWeights"    -> finalize_weights(k)
    [] command.kind = "AbortWeights"       -> abort_weight_load(k)
    [] command.kind = "Execute"            -> execute_rank(k, command)

\* The failures after which a rank leaves its loop.
Breaking == {"Initialize", "ApplyDelta", "AbortWeights", "Execute"}

Receive(r) ==
  /\ ranks[r].at = "waiting" /\ ranks[r].inbox # NONE
  /\ ranks' = [ranks EXCEPT ![r].at = "running", ![r].running = ranks[r].inbox,
                            ![r].inbox = NONE]
  /\ UNCHANGED <<state_word, queue, dispatcher, callers, calls, handle>>

\* The command is served and answered on the channel it came with; the
\* dispatcher may have given that channel up.
Serve(r) ==
  /\ ranks[r].at = "running"
  /\ LET command == ranks[r].running IN
     \E reply \in Served([ranks[r] EXCEPT !.running = NONE, !.at = "waiting"],
                         r, command) :
       /\ ranks' = [ranks EXCEPT ![r] =
            IF ~reply.ok /\ command.kind \in Breaking THEN Ended(reply.rank)
                                                      ELSE reply.rank]
       /\ dispatcher' =
            IF command.channel = dispatcher.channel /\ dispatcher.at = "collecting"
            THEN [dispatcher EXCEPT !.replies[r] =
                   [ok |-> reply.ok, value |-> reply.value,
                    held |-> reply.rank.weights]]
            ELSE dispatcher
  /\ UNCHANGED <<state_word, queue, callers, calls, handle>>

\* The executor panics: the thread is gone and never answers.
Panic(r) ==
  /\ "panic" \in Faults /\ ranks[r].at = "running"
  /\ ranks' = [ranks EXCEPT ![r] = Ended(@)]
  /\ UNCHANGED <<state_word, queue, dispatcher, callers, calls, handle>>

\* The dispatcher has dropped the senders: the loop of a rank ends with the
\* commands that are still in its channel.
Leave(r) ==
  /\ ranks[r].at = "waiting" /\ ranks[r].inbox = NONE
  /\ dispatcher.at = "stopping"
  /\ ranks' = [ranks EXCEPT ![r] = Ended(@)]
  /\ UNCHANGED <<state_word, queue, dispatcher, callers, calls, handle>>

---------------------------------------------------------------------------
(* Startup: the pool exists when every rank has reported ready.            *)

Start(r) ==
  /\ ranks[r].at = "initializing"
  /\ ranks' = [ranks EXCEPT ![r].at = "waiting"]
  /\ dispatcher' = IF dispatcher.at = "starting"
       THEN [dispatcher EXCEPT !.ready = @ \cup {r},
               !.at = IF dispatcher.ready \cup {r} = Ranks THEN "idle" ELSE @]
       ELSE dispatcher
  /\ UNCHANGED <<state_word, queue, callers, calls, handle>>

\* A rank's executor cannot be created, or its thread cannot be spawned: in
\* that case the ranks after it are never spawned either.
StartFails(r) ==
  /\ "spawn" \in Faults /\ ranks[r].at = "initializing"
  /\ dispatcher.at = "starting"
  /\ \E unspawned \in SUBSET {q \in Ranks : ranks[q].at = "initializing"} :
       ranks' = [q \in Ranks |->
         IF q = r \/ q \in unspawned THEN Ended(ranks[q]) ELSE ranks[q]]
  /\ dispatcher' = [dispatcher EXCEPT !.at = "stopping"]
  /\ UNCHANGED <<state_word, queue, callers, calls, handle>>

---------------------------------------------------------------------------
(* The dispatcher.                                                         *)

NoReplies == [r \in Ranks |-> NONE]

NewDispatcher ==
  [at |-> "starting", ready |-> {}, command |-> NONE, phase |-> NONE,
   channel |-> 0, replies |-> NoReplies, refused |-> FALSE,
   failed |-> FALSE, clean |-> FALSE,
   last_step_id |-> 0, initialized |-> FALSE, weights_loaded |-> FALSE]

Phase(d, phase) == [d EXCEPT !.at = "sending", !.phase = phase]

\* A result is known: the rest of the handler closes the pool if it failed,
\* drops the permit and only then answers.
Settle(d, failed, clean) ==
  [d EXCEPT !.at = "closing", !.failed = failed, !.clean = clean]

\* What the dispatcher does with a command before any rank sees it.
Begin(d, command) ==
  LET b == [d EXCEPT !.command = command] IN
  CASE command.kind = "Initialize" ->
         IF d.initialized THEN Settle(b, TRUE, FALSE) ELSE Phase(b, "Initialize")
    [] command.kind = "ApplyDelta" ->
         IF d.initialized THEN Phase(b, "ApplyDelta") ELSE Settle(b, TRUE, FALSE)
    [] command.kind = "DeviceIdentities" -> Phase(b, "DeviceIdentity")
    [] command.kind = "LoadWeights" ->
         IF d.weights_loaded THEN Settle(b, TRUE, FALSE)
                             ELSE Phase(b, "PrepareWeights")
    [] command.kind = "ShutdownWeights" ->
         IF d.weights_loaded THEN Phase(b, "AbortWeights")
                             ELSE Settle(b, TRUE, FALSE)
    [] command.kind = "Execute" ->
         IF command.step <= d.last_step_id \/ ~d.initialized
         THEN Settle(b, TRUE, FALSE)
         ELSE Phase([b EXCEPT !.last_step_id = command.step], "Execute")

Dispatch ==
  /\ dispatcher.at = "idle" /\ queue # <<>>
  /\ dispatcher' = Begin(dispatcher, Head(queue))
  /\ queue' = Tail(queue)
  /\ UNCHANGED <<state_word, ranks, callers, calls, handle>>

Weighted == {"PrepareWeights", "AcknowledgeWeights", "FinalizeWeights",
             "AbortWeights", "DeviceIdentity"}

\* A fresh channel for the phase, and the command to every rank; a rank
\* whose thread has ended refuses it.
Send ==
  /\ dispatcher.at = "sending"
  /\ \A r \in Ranks : ranks[r].inbox = NONE
  /\ LET live    == {r \in Ranks : ranks[r].at # "ended"}
         channel == dispatcher.channel + 1
         command == [kind |-> dispatcher.phase, channel |-> channel,
                     step |-> dispatcher.command.step,
                     generation |-> dispatcher.command.generation] IN
     /\ ranks' = [r \in Ranks |->
          IF r \in live THEN [ranks[r] EXCEPT !.inbox = command] ELSE ranks[r]]
     /\ dispatcher' = [dispatcher EXCEPT !.at = "collecting",
          !.channel = channel, !.replies = NoReplies, !.refused = (live # Ranks)]
  /\ UNCHANGED <<state_word, queue, callers, calls, handle>>

Replied   == \A r \in Ranks : dispatcher.replies[r] # NONE
AnyError  == \E r \in Ranks : dispatcher.replies[r] # NONE
                               /\ ~dispatcher.replies[r].ok
AllOk     == Replied /\ ~AnyError /\ ~dispatcher.refused
Agree     == \A q, r \in Ranks :
               dispatcher.replies[q].value = dispatcher.replies[r].value
Distinct  == /\ \A r \in Ranks : dispatcher.replies[r].value # NONE
             /\ \A q, r \in Ranks : q # r =>
                  dispatcher.replies[q].value # dispatcher.replies[r].value

\* Nobody is left who could still answer on the channel.
Disconnected ==
  \A r \in Ranks : dispatcher.replies[r] = NONE =>
    \A command \in {ranks[r].inbox, ranks[r].running} \ {NONE} :
      command.channel # dispatcher.channel

\* The phase is over, well or badly: the page-table and step phases stop at
\* the first error, the others wait for every rank or for the timeout.
PhaseEnds ==
  \/ Replied
  \/ Disconnected
  \/ dispatcher.refused
  \/ dispatcher.phase \in Breaking \ {"AbortWeights"} /\ AnyError
  \/ dispatcher.phase \in Weighted /\ "timeout" \in Faults

initialize_rank_page_tables(d) ==
  Settle([d EXCEPT !.initialized = @ \/ AllOk], ~AllOk, FALSE)

apply_rank_page_delta(d) == Settle(d, ~(AllOk /\ Agree), FALSE)

\* Mutant: a step is reported without comparing the ranks' outputs.
dispatch_unagreed(d) == Settle(d, ~AllOk, FALSE)

dispatch_one(d) == Settle(d, ~(AllOk /\ Agree), FALSE)

collect_checkpoint_device_identities(d) ==
  Settle(d, ~(AllOk /\ Distinct), FALSE)

\* A phase of the load that fails on any rank sends every rank the abort.
prepare_rank_weights(d) ==
  Phase(d, IF AllOk THEN "AcknowledgeWeights" ELSE "AbortWeights")

acknowledge_rank_weights(d) ==
  Phase(d, IF AllOk THEN "FinalizeWeights" ELSE "AbortWeights")

\* Mutant: the load succeeds although a rank did not finalize.
finalize_some(d) ==
  Settle([d EXCEPT !.weights_loaded = TRUE], FALSE, FALSE)

finalize_rank_weights(d) ==
  IF AllOk THEN Settle([d EXCEPT !.weights_loaded = TRUE], FALSE, FALSE)
           ELSE Phase(d, "AbortWeights")

\* The end of an abort: of a load that failed, with what is known of the
\* cleanup, or of a shutdown, which fails unless every rank acknowledged.
cleanup_rank_weights(d) ==
  IF d.command.kind = "LoadWeights" THEN Settle(d, TRUE, AllOk)
  ELSE Settle([d EXCEPT !.weights_loaded = FALSE], ~AllOk, AllOk)

Collect ==
  /\ dispatcher.at = "collecting" /\ PhaseEnds
  /\ dispatcher' =
       CASE dispatcher.phase = "Initialize"     -> initialize_rank_page_tables(dispatcher)
         [] dispatcher.phase = "ApplyDelta"     -> apply_rank_page_delta(dispatcher)
         [] dispatcher.phase = "Execute"        -> dispatch_one(dispatcher)
         [] dispatcher.phase = "DeviceIdentity" ->
              collect_checkpoint_device_identities(dispatcher)
         [] dispatcher.phase = "PrepareWeights" -> prepare_rank_weights(dispatcher)
         [] dispatcher.phase = "AcknowledgeWeights" ->
              acknowledge_rank_weights(dispatcher)
         [] dispatcher.phase = "FinalizeWeights" -> finalize_rank_weights(dispatcher)
         [] dispatcher.phase = "AbortWeights"   -> cleanup_rank_weights(dispatcher)
  /\ UNCHANGED <<state_word, queue, ranks, callers, calls, handle>>

Terminal(d) == d.failed \/ d.command.kind = "ShutdownWeights"

Close ==
  /\ dispatcher.at = "closing"
  /\ state_word' = [state_word EXCEPT !.closed = @ \/ Terminal(dispatcher)]
  /\ dispatcher' = [dispatcher EXCEPT !.at = "releasing"]
  /\ UNCHANGED <<queue, ranks, callers, calls, handle>>

Release ==
  /\ dispatcher.at = "releasing"
  /\ state_word' = DropPermit(state_word, dispatcher.command.kind)
  /\ dispatcher' = [dispatcher EXCEPT !.at = "responding"]
  /\ UNCHANGED <<queue, ranks, callers, calls, handle>>

\* The answer reaches the caller unless it has given the step up.
Answered(d) ==
  [c \in Callers |->
     IF callers[c].at = "waiting" /\ callers[c].command = d.command
     THEN Idle(Answer(d.command.kind, ~d.failed, d.clean)) ELSE callers[c]]

Respond ==
  /\ dispatcher.at = "responding"
  /\ callers' = Answered(dispatcher)
  /\ state_word' = [state_word EXCEPT !.closed = @ \/ Terminal(dispatcher)]
  /\ dispatcher' = [dispatcher EXCEPT
       !.at = IF Terminal(dispatcher) THEN "stopping" ELSE "idle",
       !.command = NONE, !.phase = NONE, !.replies = NoReplies,
       !.refused = FALSE, !.failed = FALSE, !.clean = FALSE]
  /\ UNCHANGED <<queue, ranks, calls, handle>>

\* The pool was dropped and its queue is empty.
Drained ==
  /\ dispatcher.at = "idle" /\ queue = <<>> /\ ~handle
  /\ dispatcher' = [dispatcher EXCEPT !.at = "stopping"]
  /\ UNCHANGED <<state_word, queue, ranks, callers, calls, handle>>

\* The rank threads are joined; the guard closes the word; the receiver goes,
\* and the commands still queued go with it: their callers see Closed.
Stop ==
  /\ dispatcher.at = "stopping"
  /\ \A r \in Ranks : ranks[r].at = "ended"
  /\ dispatcher' = [dispatcher EXCEPT !.at = "done"]
  /\ state_word' = [DropPermits(state_word, queue) EXCEPT !.closed = TRUE]
  /\ callers' = [c \in Callers |->
       IF callers[c].at = "waiting"
       THEN Idle(Answer(callers[c].command.kind, FALSE, FALSE)) ELSE callers[c]]
  /\ queue' = <<>>
  /\ UNCHANGED <<ranks, calls, handle>>

---------------------------------------------------------------------------
Init ==
  /\ state_word = Free
  /\ queue = <<>>
  /\ dispatcher = NewDispatcher
  /\ ranks = [r \in Ranks |-> NewRank]
  /\ callers = [c \in Callers |-> Idle(NONE)]
  /\ calls = Calls
  /\ handle = TRUE

CallerStep == \E c \in Callers :
  Reserve(c) \/ Submit(c) \/ Withdraw(c) \/ Abandon(c)
RankStep == \E r \in Ranks :
  Start(r) \/ StartFails(r) \/ Receive(r) \/ Serve(r) \/ Panic(r) \/ Leave(r)
DispatcherStep ==
  Dispatch \/ Send \/ Collect \/ Close \/ Release \/ Respond \/ Drained \/ Stop

Next == CallerStep \/ DropPool \/ RankStep \/ DispatcherStep

Spec == Init /\ [][Next]_vars

\* The threads run: a caller that has reserved goes on to send, the
\* dispatcher never sleeps on work it can do, and every rank starts and
\* serves what it has received.  Nothing obliges a caller to call.
Fairness ==
  /\ WF_vars(DispatcherStep)
  /\ \A c \in Callers : WF_vars(Submit(c))
  /\ \A r \in Ranks : /\ WF_vars(Start(r)) /\ WF_vars(Receive(r))
                      /\ WF_vars(Serve(r)) /\ WF_vars(Leave(r))

---------------------------------------------------------------------------
(* Properties.                                                             *)

\* The commands that hold a permit: the ones about to be sent, the queued
\* ones, and the one the dispatcher has not released yet.
Permits ==
  [c \in {c \in Callers : callers[c].at = "reserved"} |-> callers[c].command.kind]
DispatcherHolds ==
  dispatcher.at \in {"sending", "collecting", "closing", "releasing"}
Holding(Is(_)) ==
  Cardinality({c \in DOMAIN Permits : Is(Permits[c])})
  + Cardinality({i \in DOMAIN queue : Is(queue[i].kind)})
  + (IF DispatcherHolds /\ Is(dispatcher.command.kind) THEN 1 ELSE 0)

\* The state word counts exactly the permits that exist, whatever order
\* callers, the dispatcher and a closing pool drop them in: it is never
\* poisoned, a slot is never lost or freed twice, and an exclusive operation
\* has the pool to itself.  In particular a reserved step always finds room
\* in the queue, and an exclusive call never waits for it.
PermitsAreExact ==
  /\ ~state_word.poisoned
  /\ state_word.count = Holding(LAMBDA k : k = "Execute")
  /\ Holding(LAMBDA k : k # "Execute") = (IF state_word.exclusive THEN 1 ELSE 0)
  /\ state_word.exclusive => state_word.count = 0
  /\ \A c \in Callers : callers[c].at = "reserved" =>
       Len(queue) < maximum_outstanding

\* A caller that learns that its operation failed finds the pool closed, and
\* no operation is admitted any more: the dispatcher closes the word before
\* it gives back the permit and before it answers.
FailureIsFinal ==
  /\ \A c \in Callers :
       callers[c].answer # NONE /\ ~callers[c].answer.ok => state_word.closed
  /\ dispatcher.at = "responding" /\ Terminal(dispatcher) => state_word.closed
  /\ dispatcher.at \in {"releasing", "responding"} /\ Terminal(dispatcher) =>
       \A c \in Callers : callers[c].at = "reserved" =>
         callers[c].command.kind = "Execute"

\* While the pool serves, the ranks have applied the same deltas and started
\* the same steps: after every operation that was reported as done, their
\* mirrors and step counters agree with each other and with the dispatcher.
RanksAgree ==
  dispatcher.at = "idle" =>
    \A q, r \in Ranks :
      /\ ranks[r].at # "ended"
      /\ ranks[r].page_table = ranks[q].page_table
      /\ ranks[r].last_step_id = dispatcher.last_step_id
      /\ (ranks[r].page_table # NONE) = dispatcher.initialized

\* A step or a delta that was reported done was answered by every rank with
\* the same value.
ReportsAreUnanimous ==
  dispatcher.at \in {"closing", "releasing", "responding"} /\ ~dispatcher.failed
    /\ dispatcher.command.kind \in {"Execute", "ApplyDelta"} =>
      \A q, r \in Ranks :
        /\ dispatcher.replies[r] # NONE /\ dispatcher.replies[r].ok
        /\ dispatcher.replies[q].value = dispatcher.replies[r].value

\* What the pool reports is what all ranks did, and once they disagree it
\* admits nothing more.
PoolIsUnanimous == RanksAgree /\ ReportsAreUnanimous /\ FailureIsFinal

\* Weights are adopted on all ranks or on none: between operations every
\* rank is resident exactly when the dispatcher believes the load succeeded,
\* and nothing is half loaded.
WeightsAllOrNothing ==
  dispatcher.at = "idle" =>
    \A r \in Ranks :
      ranks[r].weights = IF dispatcher.weights_loaded THEN "Resident" ELSE "Vacant"

\* A cleanup that is reported complete, after a failed load or a shutdown,
\* is complete: no rank holds anything of the attempt any more, even if
\* some phase timed out and its answers arrive late.
CleanupIsTrue ==
  \A c \in Callers :
    callers[c].answer # NONE /\ callers[c].answer.clean =>
      \A r \in Ranks : ranks[r].weights = "Vacant"

\* Neither a load, a failed load nor a shutdown leaves weights on some ranks
\* only, whatever phase failed or timed out and whatever arrives late.
PoolWeightsAreAtomic == WeightsAllOrNothing /\ CleanupIsTrue

\* Every call that was sent is answered, and a pool that is dropped joins
\* its threads, whatever fails on the ranks.
CallsAreAnswered ==
  /\ \A c \in Callers : callers[c].at = "waiting" ~> callers[c].at = "idle"
  /\ ~handle ~> dispatcher.at = "done"
=============================================================================
