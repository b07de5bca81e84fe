--------------------------- MODULE ServingBackend ---------------------------
(***************************************************************************)
(* The API side of serving: glm-serving/src/http.rs and backend.rs.        *)
(*                                                                         *)
(* A client is a connection that submits one chat request; the request has *)
(* the client's name, which stands for the id submit_chat draws from its   *)
(* counter.  Connection threads (accept, take, submit, read, cancel) run   *)
(* beside one runtime thread, and share with it the owner and cancellation *)
(* registries, the bounded command queue, one bounded completion channel   *)
(* per request, and the fatal flag.  The coordinator the runtime drives is *)
(* reduced to what it promises about one request: an admission that is     *)
(* immediate, pending or refused, prefill progress, tokens, and one        *)
(* terminal event.                                                         *)
(*                                                                         *)
(* The runtime may panic: the thread catches it, and what the loop owned   *)
(* (requests, the receiving end of the command queue) is dropped.          *)
(***************************************************************************)
EXTENDS Integers, Sequences, FiniteSets, Functions

CONSTANTS
    Clients,                    \* connections, numbered
    connection_queue_capacity, connection_workers,
    command_capacity, maximum_commands_per_tick, completion_event_capacity,
    MaximumOutput,              \* tokens a request asks for
    RefusedCancellations,       \* may the coordinator refuse one: FALSE, TRUE
    NONE

ASSUME ClientsAreNumbers == Clients \subseteq Nat \ {0} /\ IsFiniteSet(Clients)
ASSUME RefusalsAreChoices == RefusedCancellations \subseteq BOOLEAN

VARIABLES
    conn,            \* client -> where its connection is
    got,             \* client -> text deltas it has read
    owners, cancellations, fatal, shutdown,   \* shared with the runtime
    commands, disconnected,     \* command queue; is its receiver gone
    channel,         \* client -> undelivered completion events
    sender,          \* clients whose completion sender is alive
    receiver,        \* clients whose completion receiver is alive
    pc, quota, progressed, polls, drained, closing,   \* the runtime thread
    active, pending_admissions,
    coordinator, generated, events,   \* the coordinator's requests and event queue
    counters

http      == <<conn, got>>
shared    == <<owners, cancellations, fatal, shutdown>>
queue     == <<commands, disconnected>>
channels  == <<channel, sender, receiver>>
loop      == <<pc, quota, progressed, polls, drained, closing>>
requests  == <<active, pending_admissions>>
serving   == <<coordinator, generated, events>>
vars == <<http, shared, queue, channels, loop, requests, serving, counters>>

Counters == {"submitted", "rejected", "completed", "cancelled", "failed", "slow_consumers"}
Closing == [id: Clients, counts: SUBSET Counters]

ASSUME NoneIsNoRequest == NONE \notin Closing

Without(f, id) == [x \in DOMAIN f \ {id} |-> f[x]]
With(f, id, v) == [x \in DOMAIN f \cup {id} |-> IF x = id THEN v ELSE f[x]]
Least(S) == CHOOSE x \in S : \A y \in S : x <= y
\* The one sequence that lists the members of S in order.
Ascending(S) == {s \in [1..Cardinality(S) -> S] : \A i, j \in DOMAIN s : i < j => s[i] < s[j]}
Count(names) == counters' = [n \in Counters |-> counters[n] + IF n \in names THEN 1 ELSE 0]

Init ==
    /\ conn = [c \in Clients |-> "idle"]
    /\ got = [c \in Clients |-> 0]
    /\ owners = {} /\ cancellations = <<>> /\ fatal = FALSE /\ shutdown = FALSE
    /\ commands = <<>> /\ disconnected = FALSE
    /\ channel = [c \in Clients |-> <<>>] /\ sender = {} /\ receiver = {}
    /\ pc = "top" /\ quota = 0 /\ progressed = FALSE
    /\ polls = {} /\ drained = <<>> /\ closing = NONE
    /\ active = <<>> /\ pending_admissions = {}
    /\ coordinator = [c \in Clients |-> "none"]
    /\ generated = [c \in Clients |-> 0] /\ events = <<>>
    /\ counters = [n \in Counters |-> 0]

----------------------------------------------------------------------------
(* Connection threads.                                                     *)

\* The client has its reply (overloaded, unhealthy, rejected, completed, failed,
\* timed out): which one makes no difference to what follows.
Answer(c) == conn' = [conn EXCEPT ![c] = "done"]

accept_loop(c) ==
    /\ conn[c] = "idle" /\ ~shutdown
    /\ IF Cardinality({d \in Clients : conn[d] = "queued"}) < connection_queue_capacity
       THEN conn' = [conn EXCEPT ![c] = "queued"]
       ELSE Answer(c)
    /\ UNCHANGED <<got, shared, queue, channels, loop, requests, serving, counters>>

Busy == {c \in Clients : conn[c] \in {"checked", "waiting"}}

\* A worker takes the connection, reads the request and asks for the health.
handle_connection(c) ==
    /\ conn[c] = "queued" /\ Cardinality(Busy) < connection_workers
    /\ IF fatal THEN Answer(c)
                ELSE conn' = [conn EXCEPT ![c] = "checked"]
    /\ UNCHANGED <<got, shared, queue, channels, loop, requests, serving, counters>>

Stopped == fatal \/ shutdown

\* The encoder may refuse the prompt.  From the owner insertion to the
\* enqueue the registry lock is held.
submit_chat(c) ==
    /\ conn[c] = "checked"
    /\ \/ /\ Answer(c) /\ Count({"rejected"})
          /\ UNCHANGED <<owners, fatal, commands, channels>>
       \/ /\ ~Stopped
          /\ IF disconnected
             THEN /\ Answer(c) /\ Count({"rejected"}) /\ fatal' = TRUE
                  /\ UNCHANGED <<owners, commands, channels>>
             ELSE /\ Len(commands) < command_capacity
                  /\ owners' = owners \cup {c}
                  /\ commands' = Append(commands, c)
                  /\ sender' = sender \cup {c} /\ receiver' = receiver \cup {c}
                  /\ conn' = [conn EXCEPT ![c] = "waiting"]
                  /\ Count({"submitted"})
                  /\ UNCHANGED <<channel, fatal>>
    /\ UNCHANGED <<got, cancellations, shutdown, disconnected, loop, requests, serving>>

cancel(c) ==
    cancellations' = IF c \in owners /\ ~Stopped /\ c \notin DOMAIN cancellations
                     THEN With(cancellations, c, "Requested") ELSE cancellations

\* The client gives up on its request: a cancellation, and the receiver goes.
GiveUp(c) ==
    /\ cancel(c)
    /\ Answer(c)
    /\ receiver' = receiver \ {c}

\* A read event is written out; a write that fails, or a buffered reply over
\* its limit, gives up.
Receive(c) ==
    /\ conn[c] = "waiting" /\ channel[c] # <<>>
    /\ channel' = [channel EXCEPT ![c] = Tail(@)]
    /\ LET event == Head(channel[c])
       IN  IF event.kind = "TextDelta"
           THEN \/ /\ got' = [got EXCEPT ![c] = @ + 1]
                   /\ UNCHANGED <<conn, receiver, cancellations>>
                \/ GiveUp(c) /\ UNCHANGED got
           ELSE /\ Answer(c)
                /\ receiver' = receiver \ {c}
                /\ UNCHANGED <<got, cancellations>>
    /\ UNCHANGED <<owners, fatal, shutdown, queue, sender, loop, requests, serving, counters>>

Timeout(c) ==
    /\ conn[c] = "waiting" /\ GiveUp(c)
    /\ UNCHANGED <<got, owners, fatal, shutdown, queue, channel, sender, loop, requests,
                   serving, counters>>

Disconnected(c) ==
    /\ conn[c] = "waiting" /\ channel[c] = <<>> /\ c \notin sender
    /\ GiveUp(c)
    /\ UNCHANGED <<got, owners, fatal, shutdown, queue, channel, sender, loop, requests,
                   serving, counters>>

\* DELETE /v1/requests/{id} by the tenant that owns the request.
Delete(c) ==
    /\ c \in owners /\ cancel(c) /\ cancellations' # cancellations
    /\ UNCHANGED <<http, owners, fatal, shutdown, queue, channels, loop, requests, serving,
                   counters>>

\* The backend goes when the last thread that holds it does.
Drop ==
    /\ ~shutdown /\ \A c \in Clients : conn[c] \in {"idle", "done"}
    /\ shutdown' = TRUE
    /\ UNCHANGED <<http, owners, cancellations, fatal, queue, channels, loop, requests,
                   serving, counters>>

----------------------------------------------------------------------------
(* The runtime thread.                                                     *)

Goto(label) == pc' = label

Die == fatal' = TRUE /\ Goto("drain")

\* What a nonblocking send does to the channel, and whether it is delivered.
Delivered(id) == id \in receiver /\ Len(channel[id]) < completion_event_capacity
try_send(id, event) ==
    channel' = IF Delivered(id) THEN [channel EXCEPT ![id] = Append(@, event)] ELSE channel

\* A request leaves the active map with its last event sent; its counters
\* and its owner follow in Settle, and with them the sender is dropped.
Close(id, names) ==
    /\ active' = Without(active, id)
    /\ closing' = [id |-> id, counts |-> names]

Failure == [kind |-> "Failed"]
fail_request(id) == try_send(id, Failure) /\ Close(id, {"failed"})

\* The last event goes behind the text flushed with it.
finish_request(id, texts, flushed) ==
    LET delivered == id \in receiver /\ Len(flushed) < completion_event_capacity
        last      == [kind |-> "Finished", texts |-> texts]
    IN  /\ channel' = [channel EXCEPT ![id] = IF delivered THEN Append(flushed, last) ELSE flushed]
        /\ Close(id, IF delivered THEN {"completed"} ELSE {"slow_consumers"})

Settle ==
    /\ closing # NONE
    /\ Count(closing.counts)
    /\ owners' = owners \ {closing.id}
    /\ sender' = sender \ {closing.id}
    /\ closing' = NONE
    /\ UNCHANGED <<http, cancellations, fatal, shutdown, queue, channel, receiver, pc, quota,
                   progressed, polls, drained, requests, serving>>

Turn ==
    /\ pc = "top" /\ closing = NONE
    /\ IF shutdown THEN Goto("drain") /\ UNCHANGED <<quota, progressed>>
       ELSE Goto("commands") /\ quota' = maximum_commands_per_tick /\ progressed' = FALSE
    /\ UNCHANGED <<http, shared, queue, channels, polls, drained, closing, requests, serving,
                   counters>>

NewRequest == [admitted |-> FALSE, tokens |-> 0, texts |-> 0]

\* The submit command at the head of the queue: the coordinator admits the
\* request, starts to restore its prefix, or refuses it.
process_submit ==
    LET id == Head(commands)
    IN  /\ commands # <<>>
        /\ commands' = Tail(commands)
        /\ \/ /\ active' = With(active, id, NewRequest)
              /\ coordinator' = [coordinator EXCEPT ![id] = "running"]
              /\ events' = Append(events, [kind |-> "Admitted", id |-> id])
              /\ UNCHANGED <<pending_admissions, closing, channel>>
           \/ /\ active' = With(active, id, NewRequest)
              /\ coordinator' = [coordinator EXCEPT ![id] = "pending"]
              /\ pending_admissions' = pending_admissions \cup {id}
              /\ UNCHANGED <<events, closing, channel>>
           \/ /\ fail_request(id)
              /\ UNCHANGED <<pending_admissions, coordinator, events>>
        /\ UNCHANGED <<http, shared, disconnected, sender, receiver, polls, drained, generated,
                       counters>>

ReceiveCommand ==
    /\ pc = "commands" /\ quota > 0 /\ closing = NONE
    /\ process_submit
    /\ quota' = quota - 1 /\ progressed' = TRUE
    /\ UNCHANGED pc

CommandsTaken ==
    /\ pc = "commands" /\ closing = NONE
    /\ quota = 0 \/ commands = <<>>
    /\ Goto("cancellations") /\ quota' = maximum_commands_per_tick
    /\ UNCHANGED <<http, shared, queue, channels, progressed, polls, drained, closing, requests,
                   serving, counters>>

\* Mutant: a marker is dispatched although its request is still queued.
RequestedOrQueued == {id \in DOMAIN cancellations : cancellations[id] = "Requested"}

Requested == {id \in DOMAIN cancellations :
                cancellations[id] = "Requested" /\ id \in DOMAIN active}

\* The coordinator gives up a pending admission, or cannot and keeps it; of
\* any other request it notes the cancellation.  It would refuse only if its
\* generations ran out (RefusedCancellations).
DispatchCancellation ==
    LET id == Least(Requested)
    IN  /\ pc = "cancellations" /\ quota > 0 /\ closing = NONE
        /\ Requested # {}
        /\ IF id \notin owners
           THEN Die /\ UNCHANGED <<cancellations, requests, coordinator, events, channel, closing,
                                   quota, progressed>>
           ELSE IF coordinator[id] = "pending"
           THEN \/ /\ coordinator' = [coordinator EXCEPT ![id] = "over"]
                   /\ events' = Append(events, [kind |-> "Cancelled", id |-> id])
                   /\ pending_admissions' = pending_admissions \ {id}
                   /\ cancellations' = [cancellations EXCEPT ![id] = "Dispatched"]
                   /\ quota' = quota - 1 /\ progressed' = TRUE
                   /\ UNCHANGED <<fatal, pc, active, channel, closing>>
                \/ Die /\ UNCHANGED <<cancellations, requests, coordinator, events, channel,
                                      closing, quota, progressed>>
           ELSE /\ \E refused \in RefusedCancellations :
                     IF refused
                     THEN fail_request(id) /\ UNCHANGED coordinator
                     ELSE /\ coordinator' = [coordinator EXCEPT ![id] = "cancelling"]
                          /\ UNCHANGED <<active, channel, closing>>
                /\ pending_admissions' = pending_admissions \ {id}
                /\ cancellations' = [cancellations EXCEPT ![id] = "Dispatched"]
                /\ quota' = quota - 1 /\ progressed' = TRUE
                /\ UNCHANGED <<events, fatal, pc>>
        /\ UNCHANGED <<http, owners, shutdown, queue, sender, receiver, polls, drained, generated,
                       counters>>

PruneCancellation ==
    /\ pc = "cancellations" /\ quota > 0 /\ closing = NONE
    /\ Requested = {} /\ DOMAIN cancellations \ owners # {}
    /\ cancellations' = Without(cancellations, Least(DOMAIN cancellations \ owners))
    /\ quota' = quota - 1 /\ progressed' = TRUE
    /\ UNCHANGED <<http, owners, fatal, shutdown, queue, channels, pc, polls, drained, closing,
                   requests, serving, counters>>

CancellationsTaken ==
    /\ pc = "cancellations" /\ closing = NONE
    /\ quota = 0 \/ (Requested = {} /\ DOMAIN cancellations \subseteq owners)
    /\ Goto("polls") /\ polls' = pending_admissions
    /\ UNCHANGED <<http, shared, queue, channels, quota, progressed, drained, closing, requests,
                   serving, counters>>

poll_pending_admission(id) ==
    /\ pc = "polls" /\ closing = NONE /\ id \in polls
    /\ polls' = polls \ {id}
    /\ \/ UNCHANGED <<requests, coordinator, events, channel, closing, progressed, fatal, pc>>
       \/ /\ coordinator' = [coordinator EXCEPT ![id] = "running"]
          /\ events' = Append(events, [kind |-> "Admitted", id |-> id])
          /\ pending_admissions' = pending_admissions \ {id}
          /\ progressed' = TRUE
          /\ UNCHANGED <<active, channel, closing, fatal, pc>>
       \/ /\ coordinator' = [coordinator EXCEPT ![id] = "over"]
          /\ pending_admissions' = pending_admissions \ {id}
          /\ fail_request(id)
          /\ progressed' = TRUE
          /\ UNCHANGED <<events, fatal, pc>>
       \/ Die /\ UNCHANGED <<requests, coordinator, events, channel, closing, progressed>>
    /\ UNCHANGED <<http, owners, cancellations, shutdown, queue, sender, receiver, quota, drained,
                   generated, counters>>

drain_events(from, to) ==
    /\ pc = from /\ closing = NONE
    /\ drained' = events /\ events' = <<>>
    /\ progressed' = (progressed \/ events # <<>>)
    /\ Goto(to)
    /\ UNCHANGED <<http, shared, queue, channels, quota, polls, closing, requests, coordinator,
                   generated, counters>>

AdmissionEvents == polls = {} /\ drain_events("polls", "admitted")
StepEvents      == drain_events("stepped", "dispatch")

\* One tick: cancellations take effect at the boundary, then a running
\* request may get a part of its prompt prefilled, or a step of one or two
\* tokens, or finish, or the step fails.  A failed tick is fatal, and what it
\* emitted is still dispatched.
tick_observed ==
    \E cancelled \in Ascending({c \in Clients : coordinator[c] = "cancelling"}) :
    LET boundary  == [i \in DOMAIN cancelled |-> [kind |-> "Cancelled", id |-> cancelled[i]]]
        over      == [c \in Clients |-> IF coordinator[c] = "cancelling" THEN "over"
                                        ELSE coordinator[c]]
        tokens(id, n) == [i \in 1..n |-> [kind |-> "Token", id |-> id,
                                          position |-> generated[id] + i - 1]]
        last(id, finished) == IF finished THEN <<[kind |-> "Finished", id |-> id]>> ELSE <<>>
    IN  /\ pc = "admitted" /\ closing = NONE /\ drained = <<>>
        /\ Goto("stepped")
        /\ \/ /\ \A c \in Clients : over[c] # "running"
              /\ coordinator' = over /\ events' = boundary
              /\ UNCHANGED <<progressed, fatal, generated>>
           \/ \E id \in {c \in Clients : over[c] = "running"}, n \in 1..2 :
                /\ generated[id] + n <= MaximumOutput
                /\ \E finished \in {generated[id] + n = MaximumOutput, TRUE} :
                     /\ coordinator' = IF finished THEN [over EXCEPT ![id] = "over"] ELSE over
                     /\ events' = boundary \o tokens(id, n) \o last(id, finished)
                /\ generated' = [generated EXCEPT ![id] = @ + n]
                /\ progressed' = TRUE
                /\ UNCHANGED fatal
           \/ \E id \in {c \in Clients : over[c] = "running"} :
                /\ generated[id] = 0
                /\ coordinator' = over
                /\ events' = Append(boundary, [kind |-> "PrefillProgress", id |-> id])
                /\ progressed' = TRUE
                /\ UNCHANGED <<fatal, generated>>
           \/ \E id \in {c \in Clients : over[c] = "running"} :
                /\ coordinator' = [over EXCEPT ![id] = "over"]
                /\ events' = Append(boundary, [kind |-> "Failed", id |-> id])
                /\ fatal' = TRUE
                /\ UNCHANGED <<progressed, generated>>
           \/ fatal' = TRUE /\ UNCHANGED <<progressed, serving>>
        /\ UNCHANGED <<http, owners, cancellations, shutdown, queue, channels, quota, polls,
                       drained, closing, requests, counters>>

----------------------------------------------------------------------------
(* Dispatching the drained events, one at a time.                          *)

Dispatching(kind) ==
    /\ pc \in {"admitted", "dispatch"} /\ closing = NONE /\ drained # <<>>
    /\ Head(drained).kind = kind

Event == Head(drained)

\* The request the event is for is gone: the event is skipped.
SkipEvent ==
    /\ pc \in {"admitted", "dispatch"} /\ closing = NONE /\ drained # <<>>
    /\ Event.id \notin DOMAIN active
    /\ drained' = Tail(drained)
    /\ pending_admissions' = IF Event.kind \in {"Finished", "Cancelled", "Failed"}
                             THEN pending_admissions \ {Event.id} ELSE pending_admissions
    /\ UNCHANGED <<http, shared, queue, channels, pc, quota, progressed, polls, closing, active,
                   serving, counters>>

Untouched == <<http, owners, cancellations, shutdown, queue, sender, receiver, quota,
               progressed, polls, counters>>

\* Mutant: the request is forgotten before the coordinator agreed.
cancel_dispatch_request_first(id) ==
    \/ /\ coordinator' = [coordinator EXCEPT ![id] = IF @ = "running" THEN "cancelling" ELSE @]
       /\ UNCHANGED <<fatal, pc>>
    \/ UNCHANGED <<coordinator, fatal, pc>>

\* What a request that must end early needs first: a running request is
\* marked, one that is over already stays so.
cancel_dispatch_request(id) ==
    /\ coordinator' = [coordinator EXCEPT ![id] = IF @ = "running" THEN "cancelling" ELSE @]
    /\ UNCHANGED <<fatal, pc>>

\* The coordinator refuses: the request stays, and the backend dies.
EventCancellationFails ==
    /\ Dispatching("Token") /\ Event.id \in DOMAIN active
    /\ Die
    /\ UNCHANGED <<Untouched, channel, drained, closing, requests, serving>>

DispatchAdmitted ==
    LET id == Event.id
    IN  /\ Dispatching("Admitted") /\ id \in DOMAIN active
        /\ drained' = Tail(drained)
        /\ IF active[id].admitted
           THEN cancel_dispatch_request(id) /\ fail_request(id)
           ELSE /\ active' = [active EXCEPT ![id].admitted = TRUE]
                /\ UNCHANGED <<channel, closing, coordinator, fatal, pc>>
        /\ UNCHANGED <<Untouched, pending_admissions, events, generated>>

\* How much of the prompt is done only the counters tell apart: the scheduler
\* reports it in order and within the prompt.
DispatchPrefillProgress ==
    LET id == Event.id
    IN  /\ Dispatching("PrefillProgress") /\ id \in DOMAIN active
        /\ drained' = Tail(drained)
        /\ IF ~active[id].admitted
           THEN cancel_dispatch_request(id) /\ fail_request(id)
           ELSE UNCHANGED <<active, channel, closing, coordinator, fatal, pc>>
        /\ UNCHANGED <<Untouched, pending_admissions, events, generated>>

\* Mutant: a delta the channel has no room for is dropped.
SlowTextDropped(id, request) ==
    /\ active' = [active EXCEPT ![id] = request]
    /\ UNCHANGED <<closing, coordinator, fatal, pc>>

\* A text the channel has no room for ends the request without a last event.
SlowText(id, request) ==
    /\ cancel_dispatch_request(id)
    /\ Close(id, {"slow_consumers", "cancelled"})

\* The decoder may hold the text back, produce some, meet a stop string with
\* or without text before it, or fail.
DispatchToken ==
    LET id      == Event.id
        request == [active[id] EXCEPT !.tokens = @ + 1]
        written == [request EXCEPT !.texts = @ + 1]
        flushed == Append(channel[id], [kind |-> "TextDelta"])
    IN  /\ Dispatching("Token") /\ id \in DOMAIN active
        /\ drained' = Tail(drained)
        /\ IF ~active[id].admitted \/ Event.position # active[id].tokens
           THEN cancel_dispatch_request(id) /\ fail_request(id)
           ELSE \/ /\ active' = [active EXCEPT ![id] = request]
                   /\ UNCHANGED <<channel, closing, coordinator, fatal, pc>>
                \/ /\ Delivered(id)
                   /\ channel' = [channel EXCEPT ![id] = flushed]
                   /\ active' = [active EXCEPT ![id] = written]
                   /\ UNCHANGED <<closing, coordinator, fatal, pc>>
                \/ ~Delivered(id) /\ SlowText(id, written) /\ UNCHANGED channel
                \/ cancel_dispatch_request(id) /\ finish_request(id, request.texts, channel[id])
                \/ /\ Delivered(id)
                   /\ cancel_dispatch_request(id)
                   /\ finish_request(id, written.texts, flushed)
                \/ cancel_dispatch_request(id) /\ fail_request(id)
        /\ UNCHANGED <<Untouched, pending_admissions, events, generated>>

\* The decoder flushes what it held back.
DispatchFinished ==
    LET id      == Event.id
        flushed == Append(channel[id], [kind |-> "TextDelta"])
    IN  /\ Dispatching("Finished") /\ id \in DOMAIN active
        /\ drained' = Tail(drained)
        /\ pending_admissions' = pending_admissions \ {id}
        /\ \/ finish_request(id, active[id].texts, channel[id])
           \/ Delivered(id) /\ finish_request(id, active[id].texts + 1, flushed)
           \/ ~Delivered(id) /\ Close(id, {"slow_consumers", "cancelled"}) /\ UNCHANGED channel
           \/ fail_request(id)
        /\ UNCHANGED <<Untouched, fatal, pc, serving>>

DispatchEnd(kind, count) ==
    LET id == Event.id
    IN  /\ Dispatching(kind) /\ id \in DOMAIN active
        /\ drained' = Tail(drained)
        /\ pending_admissions' = pending_admissions \ {id}
        /\ try_send(id, Failure)
        /\ Close(id, {count})
        /\ UNCHANGED <<Untouched, fatal, pc, serving>>

DispatchCancelled == DispatchEnd("Cancelled", "cancelled")
DispatchFailed    == DispatchEnd("Failed", "failed")

\* The turn is over.  An idle turn waits for one command.
TurnOver ==
    /\ pc = "dispatch" /\ closing = NONE /\ drained = <<>>
    /\ Goto(IF fatal THEN "drain" ELSE IF progressed THEN "top" ELSE "idle")
    /\ UNCHANGED <<http, shared, queue, channels, quota, progressed, polls, drained, closing,
                   requests, serving, counters>>

IdleCommand ==
    /\ pc = "idle" /\ process_submit
    /\ Goto("top")
    /\ UNCHANGED <<quota, progressed>>

\* Mutant: an idle turn blocks until the next command.
IdleWithoutTimeout ==
    /\ pc = "idle" /\ shutdown /\ Goto("top")
    /\ UNCHANGED <<http, shared, queue, channels, quota, progressed, polls, drained, closing,
                   requests, serving, counters>>

IdleTimeout ==
    /\ pc = "idle" /\ Goto("top")
    /\ UNCHANGED <<http, shared, queue, channels, quota, progressed, polls, drained, closing,
                   requests, serving, counters>>

----------------------------------------------------------------------------
(* The end of the runtime thread.                                          *)

FailActive ==
    /\ pc = "drain" /\ closing = NONE /\ DOMAIN active # {}
    /\ LET id == Least(DOMAIN active)
       IN  /\ try_send(id, Failure)
           /\ active' = Without(active, id)
           /\ sender' = sender \ {id}
    /\ Count({"failed"})
    /\ UNCHANGED <<http, shared, queue, receiver, loop, pending_admissions, serving>>

\* Under the registry lock: the queue is drained and the registry cleared.
FailQueued ==
    LET queued == Range(commands)
    IN  /\ pc = "drain" /\ closing = NONE /\ active = <<>>
        /\ channel' = [c \in Clients |-> IF c \in queued /\ Delivered(c)
                                         THEN Append(channel[c], Failure) ELSE channel[c]]
        /\ sender' = sender \ queued
        /\ counters' = [counters EXCEPT !.failed = @ + Len(commands)]
        /\ commands' = <<>>
        /\ owners' = {}
        /\ Goto("drained")
        /\ UNCHANGED <<http, cancellations, fatal, shutdown, disconnected, receiver, quota,
                       progressed, polls, drained, closing, requests, serving>>

\* The loop returns: the receiver goes, with any command still in it.
Return ==
    /\ pc = "drained"
    /\ disconnected' = TRUE
    /\ commands' = <<>> /\ sender' = sender \ Range(commands)
    /\ Goto("returned")
    /\ UNCHANGED <<http, shared, channel, receiver, quota, progressed, polls, drained, closing,
                   requests, serving, counters>>

\* A panic drops the receiver with the queued commands, and every request.
Panic ==
    /\ pc \notin {"drained", "returned", "exit"}
    /\ disconnected' = TRUE
    /\ commands' = <<>> /\ active' = <<>>
    /\ sender' = {}
    /\ closing' = NONE
    /\ Goto("returned")
    /\ UNCHANGED <<http, shared, channel, receiver, quota, progressed, polls, drained,
                   pending_admissions, serving, counters>>

\* What the thread does after the loop, whether it returned or panicked.
Exit ==
    /\ pc = "returned"
    /\ fatal' = (fatal \/ ~shutdown)
    /\ owners' = {} /\ cancellations' = <<>>
    /\ Goto("exit")
    /\ UNCHANGED <<http, shutdown, queue, channels, quota, progressed, polls, drained, closing,
                   requests, serving, counters>>

Runtime ==
    \/ Settle \/ Turn \/ ReceiveCommand \/ CommandsTaken
    \/ DispatchCancellation \/ PruneCancellation \/ CancellationsTaken
    \/ \E c \in Clients : poll_pending_admission(c)
    \/ AdmissionEvents \/ tick_observed \/ StepEvents
    \/ SkipEvent \/ DispatchAdmitted \/ DispatchPrefillProgress \/ DispatchToken
    \/ DispatchFinished \/ DispatchCancelled \/ DispatchFailed \/ EventCancellationFails
    \/ TurnOver \/ IdleCommand \/ IdleTimeout
    \/ FailActive \/ FailQueued \/ Return \/ Exit

Connection(c) ==
    handle_connection(c) \/ submit_chat(c) \/ Receive(c) \/ Disconnected(c)

Terminated ==
    /\ pc = "exit" /\ \A c \in Clients : conn[c] \in {"idle", "done"}
    /\ UNCHANGED vars

Next ==
    \/ Runtime \/ Panic \/ Drop \/ Terminated
    \/ \E c \in Clients : accept_loop(c) \/ Connection(c) \/ Timeout(c) \/ Delete(c)

\* Threads run.  The coordinator resolves a restore it is polled for and
\* serves a running request: PrefixRestore and Scheduler show that it does.
Fairness ==
    /\ WF_vars(Runtime)
    /\ \A c \in Clients : WF_vars(Connection(c))
    /\ \A c \in Clients : SF_vars(poll_pending_admission(c) /\ coordinator'[c] # "pending")
    /\ \A c \in Clients : SF_vars(tick_observed /\ generated'[c] # generated[c])

Spec == Init /\ [][Next]_vars

----------------------------------------------------------------------------
(* Properties.                                                             *)

Alive == pc \notin {"drain", "drained", "returned", "exit"}

\* While the runtime lives, the registry names exactly the requests that are
\* queued, active, or just being closed: no owner is left behind by any of
\* the ways a request can end, and none is dropped early.
OwnersAreAccountedFor ==
    Alive => owners = Range(commands) \cup DOMAIN active
                        \cup (IF closing = NONE THEN {} ELSE {closing.id})

\* The coordinator never admits, restores or runs a request the backend has
\* forgotten: whoever drops a request has cancelled it first.
WorkHasAnOwner ==
    Alive => {c \in Clients : coordinator[c] \in {"pending", "running"}} \subseteq DOMAIN active

\* Owners, active requests and the coordinator's work agree while the runtime
\* lives: nobody is forgotten and nothing runs for nobody.
OwnersMatchWork == OwnersAreAccountedFor /\ WorkHasAnOwner

\* A completion that says it finished was delivered with every text delta
\* before it: a full channel ends a request, it never thins it out.
FinishedTellsAll ==
    \A c \in Clients : \A i \in DOMAIN channel[c] :
      conn[c] = "waiting" /\ channel[c][i].kind = "Finished" =>
        channel[c][i].texts = got[c] + i - 1

\* Every connection that was accepted is answered, without waiting for its
\* deadline: the runtime completes, fails or closes every channel.
ConnectionsAreAnswered == \A c \in Clients : conn[c] = "queued" ~> conn[c] = "done"

\* A cancellation that was accepted is not lost, also when it was accepted
\* while its request was still in the command queue: a marker that is spent
\* belongs to a request the coordinator has been told to end.
CancellationsAreNotLost ==
    Alive => \A c \in DOMAIN cancellations \cap DOMAIN active :
               cancellations[c] = "Dispatched" => coordinator[c] \in {"cancelling", "over"}

=============================================================================
