-------------------------- MODULE DirectIoScheduler --------------------------
(***************************************************************************)
(* DirectIoScheduler (glm-cache/src/direct_schedule.rs): the order in      *)
(* which resume reads, admission reads, publication writes and cleaner     *)
(* writes share one NVMe queue.  A heap is the set of its commands; its    *)
(* head is the one with the least order key.  command_ids and order_keys   *)
(* are the ids and keys of the queued commands.                            *)
(*                                                                         *)
(* The caller acquires a buffer, a descriptor and two CQ entries for a     *)
(* read or a cleaner write before it queues it; a publication acquires     *)
(* them when it is admitted.  They are released when the I/O is done.      *)
(***************************************************************************)
EXTENDS Integers, FiniteSets, FiniteSetsExt

CONSTANTS
    Commands,      \* what callers may queue: [command_id, class, order, bytes]
    maximum_queued_commands,
    total_buffers, read_reserved_buffers, total_descriptors, read_reserved_descriptors,
    read_low_watermark_bytes, read_high_watermark_bytes, publication_low_watermark_commands,
    maximum_read_command_bytes,
    maximum_resume_read_bytes_before_admission_read,
    maximum_read_bytes_before_publication_admission,
    maximum_read_bytes_before_publication_service,
    NONE

MAX_DIRECT_IO_QUEUED_COMMANDS == 65536
DIRECT_PUBLICATION_CQ_RESERVATION == 2
total_cq_entries == 2 * total_descriptors
read_reserved_cq_entries == 2 * read_reserved_descriptors

\* The configurations new accepts.
validate_config ==
    /\ maximum_queued_commands \in 1..MAX_DIRECT_IO_QUEUED_COMMANDS
    /\ read_reserved_buffers \in Nat /\ read_reserved_buffers < total_buffers
    /\ read_reserved_descriptors \in Nat /\ read_reserved_descriptors < total_descriptors
    /\ read_low_watermark_bytes <= read_high_watermark_bytes
    /\ publication_low_watermark_commands <= maximum_queued_commands
    /\ maximum_read_command_bytes > 0
    /\ maximum_resume_read_bytes_before_admission_read >= maximum_read_command_bytes
    /\ maximum_read_bytes_before_publication_admission >= maximum_read_command_bytes
    /\ maximum_read_bytes_before_publication_service >= maximum_read_command_bytes

\* The limits are numbers of bytes.
LimitsAreBytes ==
    /\ maximum_read_command_bytes \in Nat
    /\ maximum_resume_read_bytes_before_admission_read \in Nat
    /\ maximum_read_bytes_before_publication_admission \in Nat
    /\ maximum_read_bytes_before_publication_service \in Nat

\* A command has a place in the order of its class and a size.
CommandsAreSized == NONE \notin Nat /\ \A c \in Commands : c.order \in Nat /\ c.bytes \in Nat

VARIABLES
    s,        \* DirectIoScheduler
    held,     \* commands that own I/O resources
    last,     \* the last decision of next: [kind, class]
    waited    \* bytes of reads really served while others waited (history)

vars == <<s, held, last, waited>>

Queues == {"resume_reads", "admission_reads", "publication_candidates", "admitted_publications",
           "cleaner_writes"}
Reads == {"ResumeRead", "AdmissionRead"}
Bytes(commands) == MapThenSumSet(LAMBDA c : c.bytes, commands)
Peek(commands) == CHOOSE c \in commands : \A d \in commands : c.order <= d.order
Queued(q) == UNION {q[name] : name \in Queues}

NewScheduler ==
    [resume_reads |-> {}, admission_reads |-> {}, publication_candidates |-> {},
     admitted_publications |-> {}, cleaner_writes |-> {}, queued_commands |-> 0,
     queued_read_bytes |-> 0, resume_waited |-> 0, candidate_waited |-> 0, admitted_waited |-> 0,
     publication_admitted_since_service |-> FALSE]

\* The queue a command enters, and the one it is served from.
EntryQueue(class) ==
    CASE class = "ResumeRead" -> "resume_reads" [] class = "AdmissionRead" -> "admission_reads"
      [] class = "PublicationWrite" -> "publication_candidates" [] OTHER -> "cleaner_writes"
ServiceQueue(class) ==
    IF class = "PublicationWrite" THEN "admitted_publications" ELSE EntryQueue(class)

insert(q, c) ==
    IF \/ q.queued_commands >= maximum_queued_commands
       \/ \E d \in Queued(q) : d.command_id = c.command_id \/ (d.class = c.class /\ d.order = c.order)
       \/ c.class \in Reads /\ c.bytes > maximum_read_command_bytes
    THEN NONE
    ELSE [q EXCEPT ![EntryQueue(c.class)] = @ \union {c},
                   !.resume_waited =
                      IF c.class = "AdmissionRead" /\ q.admission_reads = {} THEN 0 ELSE @,
                   !.candidate_waited =
                      IF c.class = "PublicationWrite" /\ q.publication_candidates = {} THEN 0 ELSE @,
                   !.queued_commands = @ + 1,
                   !.queued_read_bytes = @ + IF c.class \in Reads THEN c.bytes ELSE 0]

pop_service(q, class) ==
    LET c == Peek(q[ServiceQueue(class)])
    IN  [q EXCEPT ![ServiceQueue(class)] = @ \ {c}, !.queued_commands = @ - 1,
                  !.queued_read_bytes = @ - IF class \in Reads THEN c.bytes ELSE 0,
                  !.publication_admitted_since_service = FALSE]

\* A waiting queue's counter grows by the served bytes, up to its limit.
Advance(counter, queue, bytes, limit) ==
    IF queue = {} THEN 0 ELSE Min({counter + bytes, limit})

record_read_service(q, class, bytes) ==
    [q EXCEPT !.resume_waited =
                 IF class = "AdmissionRead" THEN 0
                 ELSE Advance(@, q.admission_reads, bytes,
                              maximum_resume_read_bytes_before_admission_read),
              !.candidate_waited = Advance(@, q.publication_candidates, bytes,
                                           maximum_read_bytes_before_publication_admission),
              !.admitted_waited = Advance(@, q.admitted_publications, bytes,
                                          maximum_read_bytes_before_publication_service)]

\* Mutant: the read that would pass the limit is still served first.
Due_late(counter, next_bytes, limit) == counter >= limit

\* A counter has reached its limit, or would pass it with the next read.
Due(counter, next_bytes, limit) ==
    counter >= limit \/ (next_bytes # NONE /\ counter + next_bytes > limit)

admission_read_due(q) ==
    /\ q.admission_reads # {}
    /\ q.resume_reads # {} => Due(q.resume_waited, Peek(q.resume_reads).bytes,
                                  maximum_resume_read_bytes_before_admission_read)

next_read_bytes(q) ==
    IF admission_read_due(q) THEN Peek(q.admission_reads).bytes
    ELSE IF q.resume_reads # {} THEN Peek(q.resume_reads).bytes ELSE NONE

Free(total, each) == total - each * Cardinality(held)

reserve_publication_resources ==
    /\ Free(total_buffers, 1) > read_reserved_buffers
    /\ Free(total_descriptors, 1) > read_reserved_descriptors
    /\ Free(total_cq_entries, 2) >= read_reserved_cq_entries + DIRECT_PUBLICATION_CQ_RESERVATION

publication_service_due(q) ==
    /\ q.admitted_publications # {}
    /\ \/ next_read_bytes(q) = NONE
       \/ Due(q.admitted_waited, next_read_bytes(q), maximum_read_bytes_before_publication_service)

publication_admission_due(q) ==
    /\ ~q.publication_admitted_since_service /\ q.publication_candidates # {}
    /\ \/ q.queued_read_bytes <= read_high_watermark_bytes
       \/ Due(q.candidate_waited, next_read_bytes(q), maximum_read_bytes_before_publication_admission)

cleaner_due(q) ==
    /\ q.cleaner_writes # {}
    /\ q.queued_read_bytes <= read_low_watermark_bytes
    /\ Cardinality(q.publication_candidates) + Cardinality(q.admitted_publications)
         <= publication_low_watermark_commands

\* The decision of next: what it does, and to which class.  With no read
\* waiting, an admission read or an admitted publication is due above, so the
\* code's later branches for them are not reached.
Decision(q) ==
    LET Service(class) == [kind |-> "Service", class |-> class]
    IN  IF publication_service_due(q) THEN Service("PublicationWrite")
        ELSE IF publication_admission_due(q) /\ reserve_publication_resources
        THEN [kind |-> "PublicationAdmitted", class |-> "PublicationWrite"]
        ELSE IF admission_read_due(q) THEN Service("AdmissionRead")
        ELSE IF q.resume_reads # {} THEN Service("ResumeRead")
        ELSE IF cleaner_due(q) THEN Service("CleanerWrite")
        ELSE NONE

admit_publication(q) ==
    LET c == Peek(q.publication_candidates)
    IN  [q EXCEPT !.publication_candidates = @ \ {c}, !.admitted_publications = @ \union {c},
                  !.candidate_waited = 0,
                  !.admitted_waited = IF q.admitted_publications = {} THEN 0 ELSE @,
                  !.publication_admitted_since_service = TRUE]

service(q, class) ==
    LET popped == pop_service(q, class)
        bytes == Peek(q[ServiceQueue(class)]).bytes
    IN  IF class \in Reads THEN record_read_service(popped, class, bytes)
        ELSE IF class = "PublicationWrite" THEN [popped EXCEPT !.admitted_waited = 0]
        ELSE popped
(***************************************************************************)
(* The callers, and the storage                                            *)
(***************************************************************************)
Init ==
    /\ s = NewScheduler /\ held = {} /\ last = NONE
    /\ waited = [admission |-> 0, candidate |-> 0, admitted |-> 0]

HasResources == Free(total_buffers, 1) > 0 /\ Free(total_descriptors, 1) > 0

enqueue_ready(c) ==
    /\ c.class # "PublicationWrite" /\ HasResources /\ c \notin held
    /\ \E q \in {insert(s, c)} \ {NONE} : s' = q
    /\ held' = held \union {c}
    /\ UNCHANGED <<last, waited>>

offer_publication(c) ==
    /\ c.class = "PublicationWrite" /\ c \notin held
    /\ \E q \in {insert(s, c)} \ {NONE} : s' = q
    /\ UNCHANGED <<held, last, waited>>

\* Bytes really served while a queue waited, counted without the code's
\* counters and up to WaitCap, which is past every limit.
WaitCap == 1 + maximum_resume_read_bytes_before_admission_read
             + maximum_read_bytes_before_publication_admission
             + maximum_read_bytes_before_publication_service

Waited(count, bytes) == IF count + bytes > WaitCap THEN WaitCap ELSE count + bytes

Served(class, bytes) ==
    [admission |-> IF class = "AdmissionRead" \/ s.admission_reads = {} THEN 0
                   ELSE Waited(waited.admission, bytes),
     candidate |-> IF s.publication_candidates = {} THEN 0
                   ELSE Waited(waited.candidate, IF reserve_publication_resources THEN bytes ELSE 0),
     admitted |-> IF s.admitted_publications = {} THEN 0 ELSE Waited(waited.admitted, bytes)]

next ==
    \E decision \in {Decision(s)} \ {NONE} :
      /\ last' = decision
      /\ IF decision.kind = "PublicationAdmitted"
         THEN /\ s' = admit_publication(s)
              /\ held' = held \union {Peek(s.publication_candidates)}
              /\ waited' = [waited EXCEPT !.candidate = 0,
                              !.admitted = IF s.admitted_publications = {} THEN 0 ELSE @]
         ELSE /\ s' = service(s, decision.class)
              /\ held' = held
              /\ waited' = IF decision.class \in Reads
                           THEN Served(decision.class, Peek(s[ServiceQueue(decision.class)]).bytes)
                           ELSE IF decision.class = "PublicationWrite"
                           THEN [waited EXCEPT !.admitted = 0] ELSE waited

\* A command that was served ends, and gives its resources back.
Finish(c) ==
    /\ c \in held \ Queued(s) /\ held' = held \ {c} /\ UNCHANGED <<s, last, waited>>

Next ==
    \/ \E c \in Commands : enqueue_ready(c) \/ offer_publication(c)
    \/ next
    \/ \E c \in held : Finish(c)

Spec == Init /\ [][Next]_vars
(***************************************************************************)
(* Properties                                                              *)
(***************************************************************************)
\* The bounds of the configuration are real bounds on waiting: while an
\* admission read waits, while a candidate waits for which resources are free,
\* and while an admitted publication waits, the reads served ahead of it never
\* exceed the configured bytes, even by the last read.
WaitsAreBounded ==
    /\ waited.admission <= maximum_resume_read_bytes_before_admission_read
    /\ waited.candidate <= maximum_read_bytes_before_publication_admission
    /\ waited.admitted <= maximum_read_bytes_before_publication_service

=============================================================================
