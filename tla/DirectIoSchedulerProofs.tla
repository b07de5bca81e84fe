----------------------- MODULE DirectIoSchedulerProofs -----------------------
(***************************************************************************)
(* The waiting bounds of DirectIoScheduler, for every configuration new    *)
(* accepts, any set of commands and any number of them.                    *)
(*                                                                         *)
(* The code keeps three counters of the read bytes served while a queue    *)
(* waits, each cut off at its limit, and resets them at other moments than *)
(* the waiting ends.  The invariant relates them to the bytes really       *)
(* served: a counter is never behind what a nonempty queue has waited, so  *)
(* a read that Due lets pass leaves the queue within its limit.            *)
(***************************************************************************)
EXTENDS DirectIoScheduler, WellFoundedInduction, TLAPS

Record == [resume_reads: SUBSET Commands, admission_reads: SUBSET Commands,
           publication_candidates: SUBSET Commands, admitted_publications: SUBSET Commands,
           cleaner_writes: SUBSET Commands, queued_commands: Int, queued_read_bytes: Int,
           resume_waited: Nat, candidate_waited: Nat, admitted_waited: Nat,
           publication_admitted_since_service: BOOLEAN]

TypeOK ==
    /\ s \in Record
    /\ waited \in [admission: Nat, candidate: Nat, admitted: Nat]

\* insert refuses a read larger than the limit of one command.
ReadsFit ==
    \A c \in s.resume_reads \cup s.admission_reads : c.bytes <= maximum_read_command_bytes

\* Each counter is within its limit, and not behind what its queue waited.
CountersKeepUp ==
    /\ waited.admission <= IF s.admission_reads = {} THEN 0 ELSE s.resume_waited
    /\ waited.candidate <= IF s.publication_candidates = {} THEN 0 ELSE s.candidate_waited
    /\ waited.admitted <= IF s.admitted_publications = {} THEN 0 ELSE s.admitted_waited
    /\ s.resume_waited <= maximum_resume_read_bytes_before_admission_read
    /\ s.candidate_waited <= maximum_read_bytes_before_publication_admission
    /\ s.admitted_waited <= maximum_read_bytes_before_publication_service

\* One publication is admitted between two services; the candidates behind it
\* have not waited since.
AdmittedIsFresh ==
    s.publication_admitted_since_service => s.candidate_waited = 0

IInv == TypeOK /\ ReadsFit /\ CountersKeepUp /\ AdmittedIsFresh
-----------------------------------------------------------------------------
(* Helpers.                                                                *)

\* A heap that is not empty has a head.
LEMMA PeekIsMember ==
  ASSUME CommandsAreSized, NEW S, S \subseteq Commands, S # {}
  PROVE  Peek(S) \in S
<1> DEFINE T == {c.order : c \in S}
<1>1. T \subseteq Nat /\ T # {}
  BY DEF CommandsAreSized
<1>2. PICK x \in T : \A y \in T : <<y, x>> \notin OpToRel(<, Nat)
  BY <1>1, NatLessThanWellFounded, WFMin, Zenon
<1>3. \A y \in T : x <= y
  <2> SUFFICES ASSUME NEW y \in T, y < x PROVE FALSE
    BY <1>1, SMT
  <2>1. <<y, x>> \in Nat \X Nat /\ <<y, x>>[1] = y /\ <<y, x>>[2] = x
    BY <1>1
  <2>2. <<y, x>> \in OpToRel(<, Nat)
    BY <2>1, Zenon DEF OpToRel
  <2> QED BY <1>2, <2>2, Zenon
<1>4. PICK c \in S : \A d \in S : c.order <= d.order
  BY <1>3
<1> QED BY <1>4, Zenon DEF Peek

LEMMA MinOfTwo ==
  ASSUME NEW a \in Nat, NEW b \in Nat
  PROVE  Min({a, b}) = IF a <= b THEN a ELSE b
<1>1. PICK m \in {a, b} : \A y \in {a, b} : m <= y
  <2>1. CASE a <= b
    BY <2>1
  <2>2. CASE b <= a
    BY <2>2
  <2> QED BY <2>1, <2>2
<1>2. Min({a, b}) \in {a, b} /\ \A y \in {a, b} : Min({a, b}) <= y
  BY <1>1, Zenon DEF Min
<1> QED BY <1>2

\* A counter advances to a number within the limit, and by all the bytes
\* unless the limit cuts it off.
LEMMA AdvanceCounts ==
  ASSUME NEW counter \in Nat, NEW bytes \in Nat, NEW limit \in Nat, counter <= limit,
         NEW queue, NEW a, a = Advance(counter, queue, bytes, limit)
  PROVE  /\ a \in Nat /\ a <= limit
         /\ queue # {} => counter <= a
         /\ queue # {} /\ counter + bytes <= limit => a = counter + bytes
<1>1. CASE queue = {}
  BY <1>1 DEF Advance
<1>2. CASE queue # {}
  <2>1. a = IF counter + bytes <= limit THEN counter + bytes ELSE limit
    BY <1>2, MinOfTwo DEF Advance
  <2> QED BY <1>2, <2>1
<1> QED BY <1>1, <1>2

LEMMA WaitedCounts ==
  ASSUME NEW count \in Nat, NEW bytes \in Nat, LimitsAreBytes
  PROVE  Waited(count, bytes) \in Nat /\ Waited(count, bytes) <= count + bytes
BY DEF Waited, WaitCap, LimitsAreBytes
-----------------------------------------------------------------------------
(* Queueing.                                                               *)

\* A command enters one of the queues; the counters are set.
Entered(q, c, k, rw, cw, n, b) ==
    [q EXCEPT ![k] = @ \union {c}, !.resume_waited = rw, !.candidate_waited = cw,
              !.queued_commands = n, !.queued_read_bytes = b]

Enters(t, q, c, k, rw, cw) ==
    /\ t \in Record
    /\ t.resume_reads = q.resume_reads \cup IF k = "resume_reads" THEN {c} ELSE {}
    /\ t.admission_reads = q.admission_reads \cup IF k = "admission_reads" THEN {c} ELSE {}
    /\ t.publication_candidates =
         q.publication_candidates \cup IF k = "publication_candidates" THEN {c} ELSE {}
    /\ t.admitted_waited = q.admitted_waited
    /\ t.admitted_publications = q.admitted_publications
    /\ t.publication_admitted_since_service = q.publication_admitted_since_service
    /\ t.resume_waited = rw /\ t.candidate_waited = cw

LEMMA EnterRecord ==
  ASSUME NEW q \in Record, NEW t, NEW c \in Commands, NEW k,
         NEW rw \in Nat, NEW cw \in Nat, NEW n \in Int, NEW b \in Int,
         k \in {"resume_reads", "admission_reads", "publication_candidates", "cleaner_writes"},
         t = Entered(q, c, k, rw, cw, n, b)
  PROVE  Enters(t, q, c, k, rw, cw)
<1>1. CASE k = "resume_reads"
  <2>1. PICK u : u = [q EXCEPT !.resume_reads = @ \union {c}, !.resume_waited = rw,
                               !.candidate_waited = cw, !.queued_commands = n,
                               !.queued_read_bytes = b]
    OBVIOUS
  <2>2. u \in Record
    BY <2>1, Zenon DEF Record
  <2>3. /\ u.resume_reads = q.resume_reads \cup {c} /\ u.admission_reads = q.admission_reads
        /\ u.publication_candidates = q.publication_candidates
        /\ u.admitted_waited = q.admitted_waited
        /\ u.admitted_publications = q.admitted_publications
        /\ u.publication_admitted_since_service = q.publication_admitted_since_service
        /\ u.resume_waited = rw /\ u.candidate_waited = cw
    BY <2>1 DEF Record
  <2>4. t = u
    BY <1>1, <2>1, Zenon DEF Entered
  <2> QED BY <1>1, <2>2, <2>3, <2>4 DEF Enters
<1>2. CASE k = "admission_reads"
  <2>1. PICK u : u = [q EXCEPT !.admission_reads = @ \union {c}, !.resume_waited = rw,
                               !.candidate_waited = cw, !.queued_commands = n,
                               !.queued_read_bytes = b]
    OBVIOUS
  <2>2. u \in Record
    BY <2>1, Zenon DEF Record
  <2>3. /\ u.resume_reads = q.resume_reads /\ u.admission_reads = q.admission_reads \cup {c}
        /\ u.publication_candidates = q.publication_candidates
        /\ u.admitted_waited = q.admitted_waited
        /\ u.admitted_publications = q.admitted_publications
        /\ u.publication_admitted_since_service = q.publication_admitted_since_service
        /\ u.resume_waited = rw /\ u.candidate_waited = cw
    BY <2>1 DEF Record
  <2>4. t = u
    BY <1>2, <2>1, Zenon DEF Entered
  <2> QED BY <1>2, <2>2, <2>3, <2>4 DEF Enters
<1>3. CASE k = "publication_candidates"
  <2>1. PICK u : u = [q EXCEPT !.publication_candidates = @ \union {c}, !.resume_waited = rw,
                               !.candidate_waited = cw, !.queued_commands = n,
                               !.queued_read_bytes = b]
    OBVIOUS
  <2>2. u \in Record
    BY <2>1, Zenon DEF Record
  <2>3. /\ u.resume_reads = q.resume_reads /\ u.admission_reads = q.admission_reads
        /\ u.publication_candidates = q.publication_candidates \cup {c}
        /\ u.admitted_waited = q.admitted_waited
        /\ u.admitted_publications = q.admitted_publications
        /\ u.publication_admitted_since_service = q.publication_admitted_since_service
        /\ u.resume_waited = rw /\ u.candidate_waited = cw
    BY <2>1 DEF Record
  <2>4. t = u
    BY <1>3, <2>1, Zenon DEF Entered
  <2> QED BY <1>3, <2>2, <2>3, <2>4 DEF Enters
<1>4. CASE k = "cleaner_writes"
  <2>1. PICK u : u = [q EXCEPT !.cleaner_writes = @ \union {c}, !.resume_waited = rw,
                               !.candidate_waited = cw, !.queued_commands = n,
                               !.queued_read_bytes = b]
    OBVIOUS
  <2>2. u \in Record
    BY <2>1, Zenon DEF Record
  <2>3. /\ u.resume_reads = q.resume_reads /\ u.admission_reads = q.admission_reads
        /\ u.publication_candidates = q.publication_candidates
        /\ u.admitted_waited = q.admitted_waited
        /\ u.admitted_publications = q.admitted_publications
        /\ u.publication_admitted_since_service = q.publication_admitted_since_service
        /\ u.resume_waited = rw /\ u.candidate_waited = cw
    BY <2>1 DEF Record
  <2>4. t = u
    BY <1>4, <2>1, Zenon DEF Entered
  <2> QED BY <1>4, <2>2, <2>3, <2>4 DEF Enters
<1> QED BY <1>1, <1>2, <1>3, <1>4

LEMMA InsertKeeps ==
  ASSUME IInv, LimitsAreBytes, CommandsAreSized, NEW c \in Commands,
         s' = insert(s, c), s' # NONE, UNCHANGED waited
  PROVE  IInv'
<1>1. /\ s \in Record /\ waited \in [admission: Nat, candidate: Nat, admitted: Nat]
      /\ c.bytes \in Nat
  BY DEF IInv, TypeOK, CommandsAreSized
<1>0. ~(c.class \in Reads /\ c.bytes > maximum_read_command_bytes)
  BY Zenon DEF insert
<1>2. s' = [s EXCEPT ![EntryQueue(c.class)] = @ \union {c},
                        !.resume_waited =
                          IF c.class = "AdmissionRead" /\ s.admission_reads = {} THEN 0 ELSE @,
                        !.candidate_waited =
                          IF c.class = "PublicationWrite" /\ s.publication_candidates = {} THEN 0 ELSE @,
                        !.queued_commands = @ + 1,
                        !.queued_read_bytes = @ + IF c.class \in Reads THEN c.bytes ELSE 0]
  BY Zenon DEF insert
<1>3. EntryQueue(c.class) \in {"resume_reads", "admission_reads", "publication_candidates",
                               "cleaner_writes"}
  BY DEF EntryQueue
<1>4. PICK k, rw, cw, n, b :
        /\ k = EntryQueue(c.class) /\ n = s.queued_commands + 1
        /\ rw = IF c.class = "AdmissionRead" /\ s.admission_reads = {} THEN 0 ELSE s.resume_waited
        /\ cw = IF c.class = "PublicationWrite" /\ s.publication_candidates = {} THEN 0
                ELSE s.candidate_waited
        /\ b = s.queued_read_bytes + IF c.class \in Reads THEN c.bytes ELSE 0
  OBVIOUS
<1>5. rw \in Nat /\ cw \in Nat /\ n \in Int /\ b \in Int
  <2>1. rw \in Nat /\ cw \in Nat /\ n \in Int
    BY <1>1, <1>4 DEF Record
  <2>2. b \in Int
    BY <1>1, <1>4 DEF Record
  <2> QED BY <2>1, <2>2
<1>5a. s' = Entered(s, c, k, rw, cw, n, b)
  BY <1>2, <1>4, Zenon DEF Entered
<1>6. /\ s' \in Record
      /\ s'.resume_reads = s.resume_reads \cup IF k = "resume_reads" THEN {c} ELSE {}
      /\ s'.admission_reads = s.admission_reads \cup IF k = "admission_reads" THEN {c} ELSE {}
      /\ s'.publication_candidates =
           s.publication_candidates \cup IF k = "publication_candidates" THEN {c} ELSE {}
      /\ s'.admitted_waited = s.admitted_waited
      /\ s'.admitted_publications = s.admitted_publications
      /\ s'.publication_admitted_since_service = s.publication_admitted_since_service
      /\ s'.resume_waited = rw /\ s'.candidate_waited = cw
  <2>1. s \in Record /\ k \in {"resume_reads", "admission_reads", "publication_candidates",
                               "cleaner_writes"}
    BY <1>1, <1>3, <1>4, Zenon
  <2>2. Enters(s', s, c, k, rw, cw)
    BY <1>5, <1>5a, <2>1, EnterRecord, Zenon
  <2> QED BY <2>2, Zenon DEF Enters
<1>7. /\ k = "resume_reads" <=> c.class = "ResumeRead"
      /\ k = "admission_reads" <=> c.class = "AdmissionRead"
      /\ k = "publication_candidates" <=> c.class = "PublicationWrite"
  BY <1>4 DEF EntryQueue
<1>8. TypeOK'
  BY <1>1, <1>6 DEF TypeOK
<1>9. ReadsFit'
  <2>1. c.class \in Reads => c.bytes <= maximum_read_command_bytes
    BY <1>0, <1>1 DEF LimitsAreBytes
  <2>2. \A d \in s.resume_reads \cup s.admission_reads : d.bytes <= maximum_read_command_bytes
    BY DEF IInv, ReadsFit
  <2> QED BY <1>6, <1>7, <2>1, <2>2 DEF Reads, ReadsFit
<1>10. CountersKeepUp'
  <2>1. /\ s.resume_waited \in Nat /\ s.candidate_waited \in Nat /\ s.admitted_waited \in Nat
        /\ waited.admission \in Nat /\ waited.candidate \in Nat /\ waited.admitted \in Nat
    BY <1>1 DEF Record
  <2> QED BY <1>4, <1>6, <1>7, <2>1 DEF IInv, CountersKeepUp, LimitsAreBytes
<1>11. AdmittedIsFresh'
  BY <1>4, <1>6 DEF IInv, AdmittedIsFresh
<1> QED BY <1>8, <1>9, <1>10, <1>11 DEF IInv
-----------------------------------------------------------------------------
(* Service.                                                                *)

Classes == {"ResumeRead", "AdmissionRead", "PublicationWrite", "CleanerWrite"}

\* What pop_service leaves of q when it takes c.
Pops(t, q, c, class) ==
    /\ t \in Record
    /\ t.resume_reads = IF class = "ResumeRead" THEN q.resume_reads \ {c} ELSE q.resume_reads
    /\ t.admission_reads = IF class = "AdmissionRead" THEN q.admission_reads \ {c} ELSE q.admission_reads
    /\ t.publication_candidates = q.publication_candidates
    /\ t.admitted_publications = IF class = "PublicationWrite" THEN q.admitted_publications \ {c} ELSE q.admitted_publications
    /\ t.resume_waited = q.resume_waited /\ t.candidate_waited = q.candidate_waited
    /\ t.admitted_waited = q.admitted_waited
    /\ t.publication_admitted_since_service = FALSE

LEMMA PopRecord ==
  ASSUME NEW q \in Record, NEW class \in Classes, NEW c, c = Peek(q[ServiceQueue(class)]),
         c.bytes \in Nat, NEW t, t = pop_service(q, class)
  PROVE  Pops(t, q, c, class)
<1>1. PICK n, b : n = q.queued_commands - 1
                  /\ b = q.queued_read_bytes - IF class \in Reads THEN c.bytes ELSE 0
  OBVIOUS
<1>2. n \in Int /\ b \in Int
  <2>1. q.queued_commands \in Int /\ q.queued_read_bytes \in Int
    BY DEF Record
  <2>2. n \in Int
    BY <1>1, <2>1
  <2>3. CASE class \in Reads
    BY <1>1, <2>1, <2>3
  <2>4. CASE class \notin Reads
    BY <1>1, <2>1, <2>4
  <2> QED BY <2>2, <2>3, <2>4
<1>3. t = [q EXCEPT ![ServiceQueue(class)] = @ \ {c}, !.queued_commands = n,
                    !.queued_read_bytes = b, !.publication_admitted_since_service = FALSE]
  BY <1>1, Zenon DEF pop_service
<1>4. CASE class = "ResumeRead"
  <2>1. PICK u : u = [q EXCEPT !.resume_reads = @ \ {c}, !.queued_commands = n,
                               !.queued_read_bytes = b, !.publication_admitted_since_service = FALSE]
    OBVIOUS
  <2>2. u \in Record
    BY <1>2, <2>1, Zenon DEF Record
  <2>3. /\ u.resume_reads = q.resume_reads \ {c} /\ u.admission_reads = q.admission_reads
        /\ u.publication_candidates = q.publication_candidates /\ u.admitted_publications = q.admitted_publications
        /\ u.resume_waited = q.resume_waited /\ u.candidate_waited = q.candidate_waited
        /\ u.admitted_waited = q.admitted_waited
        /\ u.publication_admitted_since_service = FALSE
    BY <1>2, <2>1 DEF Record
  <2>4. ServiceQueue(class) = "resume_reads"
    BY <1>4 DEF ServiceQueue, EntryQueue
  <2>5. t = u
    BY <1>3, <2>1, <2>4, Zenon
  <2>6. Pops(u, q, c, class)
    BY <1>4, <2>2, <2>3 DEF Pops
  <2> QED BY <2>5, <2>6
<1>5. CASE class = "AdmissionRead"
  <2>1. PICK u : u = [q EXCEPT !.admission_reads = @ \ {c}, !.queued_commands = n,
                               !.queued_read_bytes = b, !.publication_admitted_since_service = FALSE]
    OBVIOUS
  <2>2. u \in Record
    BY <1>2, <2>1, Zenon DEF Record
  <2>3. /\ u.resume_reads = q.resume_reads /\ u.admission_reads = q.admission_reads \ {c}
        /\ u.publication_candidates = q.publication_candidates /\ u.admitted_publications = q.admitted_publications
        /\ u.resume_waited = q.resume_waited /\ u.candidate_waited = q.candidate_waited
        /\ u.admitted_waited = q.admitted_waited
        /\ u.publication_admitted_since_service = FALSE
    BY <1>2, <2>1 DEF Record
  <2>4. ServiceQueue(class) = "admission_reads"
    BY <1>5 DEF ServiceQueue, EntryQueue
  <2>5. t = u
    BY <1>3, <2>1, <2>4, Zenon
  <2>6. Pops(u, q, c, class)
    BY <1>5, <2>2, <2>3 DEF Pops
  <2> QED BY <2>5, <2>6
<1>6. CASE class = "PublicationWrite"
  <2>1. PICK u : u = [q EXCEPT !.admitted_publications = @ \ {c}, !.queued_commands = n,
                               !.queued_read_bytes = b, !.publication_admitted_since_service = FALSE]
    OBVIOUS
  <2>2. u \in Record
    BY <1>2, <2>1, Zenon DEF Record
  <2>3. /\ u.resume_reads = q.resume_reads /\ u.admission_reads = q.admission_reads
        /\ u.publication_candidates = q.publication_candidates /\ u.admitted_publications = q.admitted_publications \ {c}
        /\ u.resume_waited = q.resume_waited /\ u.candidate_waited = q.candidate_waited
        /\ u.admitted_waited = q.admitted_waited
        /\ u.publication_admitted_since_service = FALSE
    BY <1>2, <2>1 DEF Record
  <2>4. ServiceQueue(class) = "admitted_publications"
    BY <1>6 DEF ServiceQueue, EntryQueue
  <2>5. t = u
    BY <1>3, <2>1, <2>4, Zenon
  <2>6. Pops(u, q, c, class)
    BY <1>6, <2>2, <2>3 DEF Pops
  <2> QED BY <2>5, <2>6
<1>7. CASE class = "CleanerWrite"
  <2>1. PICK u : u = [q EXCEPT !.cleaner_writes = @ \ {c}, !.queued_commands = n,
                               !.queued_read_bytes = b, !.publication_admitted_since_service = FALSE]
    OBVIOUS
  <2>2. u \in Record
    BY <1>2, <2>1, Zenon DEF Record
  <2>3. /\ u.resume_reads = q.resume_reads /\ u.admission_reads = q.admission_reads
        /\ u.publication_candidates = q.publication_candidates /\ u.admitted_publications = q.admitted_publications
        /\ u.resume_waited = q.resume_waited /\ u.candidate_waited = q.candidate_waited
        /\ u.admitted_waited = q.admitted_waited
        /\ u.publication_admitted_since_service = FALSE
    BY <1>2, <2>1 DEF Record
  <2>4. ServiceQueue(class) = "cleaner_writes"
    BY <1>7 DEF ServiceQueue, EntryQueue
  <2>5. t = u
    BY <1>3, <2>1, <2>4, Zenon
  <2>6. Pops(u, q, c, class)
    BY <1>7, <2>2, <2>3 DEF Pops
  <2> QED BY <2>5, <2>6
<1> QED BY <1>4, <1>5, <1>6, <1>7 DEF Classes

\* The waiting counters of q are set.
Counts(t, q, x, y, z) ==
    /\ t \in Record
    /\ t.resume_reads = q.resume_reads /\ t.admission_reads = q.admission_reads
    /\ t.publication_candidates = q.publication_candidates
    /\ t.admitted_publications = q.admitted_publications
    /\ t.resume_waited = x /\ t.candidate_waited = y /\ t.admitted_waited = z
    /\ t.publication_admitted_since_service = q.publication_admitted_since_service

LEMMA CountRecord ==
  ASSUME NEW q \in Record, NEW x \in Nat, NEW y \in Nat, NEW z \in Nat, NEW t,
         t = [q EXCEPT !.resume_waited = x, !.candidate_waited = y, !.admitted_waited = z]
  PROVE  Counts(t, q, x, y, z)
BY Zenon DEF Record, Counts

\* A read of that many bytes passes no limit that a waiting queue relies on.
MayPass(class, bytes) ==
    /\ class = "ResumeRead" /\ s.admission_reads # {}
         => s.resume_waited + bytes <= maximum_resume_read_bytes_before_admission_read
    /\ s.publication_candidates # {} /\ reserve_publication_resources
         => \/ s.publication_admitted_since_service
            \/ s.candidate_waited + bytes <= maximum_read_bytes_before_publication_admission
    /\ s.admitted_publications # {}
         => s.admitted_waited + bytes <= maximum_read_bytes_before_publication_service

\* The served read, and what service and Served make of it.
ReadIsServed(class, c, x, y, z) ==
    /\ class \in Reads /\ c \in Commands /\ c.bytes \in Nat
    /\ c.bytes <= maximum_read_command_bytes /\ MayPass(class, c.bytes)
    /\ \E t : Pops(t, s, c, class) /\ s' = record_read_service(t, class, c.bytes)
    /\ waited' = Served(class, c.bytes)
    /\ x = IF class = "AdmissionRead" THEN 0
           ELSE Advance(s.resume_waited, s.admission_reads, c.bytes,
                        maximum_resume_read_bytes_before_admission_read)
    /\ y = Advance(s.candidate_waited, s.publication_candidates, c.bytes,
                   maximum_read_bytes_before_publication_admission)
    /\ z = Advance(s.admitted_waited, s.admitted_publications, c.bytes,
                   maximum_read_bytes_before_publication_service)

LEMMA ReadServiceKeeps ==
  ASSUME IInv, validate_config, LimitsAreBytes, NEW class, NEW c, NEW x, NEW y, NEW z,
         ReadIsServed(class, c, x, y, z)
  PROVE  IInv'
<1>1. /\ class \in Reads /\ c \in Commands /\ c.bytes \in Nat
      /\ c.bytes <= maximum_read_command_bytes
  BY Zenon DEF ReadIsServed
<1>2. /\ s \in Record /\ s.resume_waited \in Nat /\ s.candidate_waited \in Nat
      /\ s.admitted_waited \in Nat
  BY DEF IInv, TypeOK, Record
<1>3. /\ waited \in [admission: Nat, candidate: Nat, admitted: Nat]
      /\ waited.admission \in Nat /\ waited.candidate \in Nat /\ waited.admitted \in Nat
  BY DEF IInv, TypeOK
<1>4. /\ s.resume_waited <= maximum_resume_read_bytes_before_admission_read
      /\ s.candidate_waited <= maximum_read_bytes_before_publication_admission
      /\ s.admitted_waited <= maximum_read_bytes_before_publication_service
      /\ waited.admission <= IF s.admission_reads = {} THEN 0 ELSE s.resume_waited
      /\ waited.candidate <= IF s.publication_candidates = {} THEN 0 ELSE s.candidate_waited
      /\ waited.admitted <= IF s.admitted_publications = {} THEN 0 ELSE s.admitted_waited
  BY Zenon DEF IInv, CountersKeepUp
<1>5. PICK t : Pops(t, s, c, class) /\ s' = record_read_service(t, class, c.bytes)
  BY Zenon DEF ReadIsServed
<1>6. /\ x \in Nat /\ x <= maximum_resume_read_bytes_before_admission_read
      /\ class = "ResumeRead" /\ s.admission_reads # {} => x = s.resume_waited + c.bytes
  <2>1. CASE class = "AdmissionRead"
    BY <2>1 DEF ReadIsServed, LimitsAreBytes
  <2>2. CASE class = "ResumeRead"
    <3>1. x = Advance(s.resume_waited, s.admission_reads, c.bytes,
                      maximum_resume_read_bytes_before_admission_read)
      BY <2>2 DEF ReadIsServed
    <3>2. s.admission_reads # {}
            => s.resume_waited + c.bytes <= maximum_resume_read_bytes_before_admission_read
      BY <2>2, Zenon DEF ReadIsServed, MayPass
    <3> QED BY <1>1, <1>2, <1>4, <3>1, <3>2, AdvanceCounts, SMTT(30) DEF LimitsAreBytes
  <2> QED BY <1>1, <2>1, <2>2 DEF Reads
<1>7. /\ y \in Nat /\ y <= maximum_read_bytes_before_publication_admission
      /\ s.publication_candidates # {} => s.candidate_waited <= y
      /\ s.publication_candidates # {} /\ reserve_publication_resources
           => y = s.candidate_waited + c.bytes
  <2>1. y = Advance(s.candidate_waited, s.publication_candidates, c.bytes,
                    maximum_read_bytes_before_publication_admission)
    BY Zenon DEF ReadIsServed
  <2>2. s.publication_candidates # {} /\ reserve_publication_resources
          => s.candidate_waited + c.bytes <= maximum_read_bytes_before_publication_admission
    <3>1. s.publication_admitted_since_service => s.candidate_waited = 0
      BY DEF IInv, AdmittedIsFresh
    <3>2. c.bytes <= maximum_read_bytes_before_publication_admission
      <4>1. maximum_read_bytes_before_publication_admission >= maximum_read_command_bytes
        BY Zenon DEF validate_config
      <4> QED BY <1>1, <4>1 DEF LimitsAreBytes
    <3>3. s.publication_candidates # {} /\ reserve_publication_resources
            => \/ s.publication_admitted_since_service
               \/ s.candidate_waited + c.bytes <= maximum_read_bytes_before_publication_admission
      BY Zenon DEF ReadIsServed, MayPass
    <3> QED BY <1>1, <3>1, <3>2, <3>3
  <2> QED BY <1>1, <1>2, <1>4, <2>1, <2>2, AdvanceCounts, SMTT(30) DEF LimitsAreBytes
<1>8. /\ z \in Nat /\ z <= maximum_read_bytes_before_publication_service
      /\ s.admitted_publications # {} => z = s.admitted_waited + c.bytes
  <2>1. z = Advance(s.admitted_waited, s.admitted_publications, c.bytes,
                    maximum_read_bytes_before_publication_service)
    BY Zenon DEF ReadIsServed
  <2>2. s.admitted_publications # {}
          => s.admitted_waited + c.bytes <= maximum_read_bytes_before_publication_service
    BY Zenon DEF ReadIsServed, MayPass
  <2> QED BY <1>1, <1>2, <1>4, <2>1, <2>2, AdvanceCounts, SMTT(30) DEF LimitsAreBytes
<1>9. /\ t \in Record
      /\ t.resume_reads \subseteq s.resume_reads /\ t.admission_reads \subseteq s.admission_reads
      /\ class = "ResumeRead" => t.admission_reads = s.admission_reads
      /\ t.publication_candidates = s.publication_candidates
      /\ t.admitted_publications = s.admitted_publications
      /\ t.resume_waited = s.resume_waited /\ t.candidate_waited = s.candidate_waited
      /\ t.admitted_waited = s.admitted_waited
      /\ t.publication_admitted_since_service = FALSE
  BY <1>1, <1>5 DEF Pops, Reads
<1>10. s' = [t EXCEPT !.resume_waited = x, !.candidate_waited = y, !.admitted_waited = z]
  <2>1. x = IF class = "AdmissionRead" THEN 0
            ELSE Advance(t.resume_waited, t.admission_reads, c.bytes,
                         maximum_resume_read_bytes_before_admission_read)
    <3>1. x = IF class = "AdmissionRead" THEN 0
              ELSE Advance(s.resume_waited, s.admission_reads, c.bytes,
                           maximum_resume_read_bytes_before_admission_read)
      BY Zenon DEF ReadIsServed
    <3>2. class = "AdmissionRead" \/ class = "ResumeRead"
      BY <1>1 DEF Reads
    <3> QED BY <1>9, <3>1, <3>2, Zenon
  <2>2. /\ y = Advance(t.candidate_waited, t.publication_candidates, c.bytes,
                       maximum_read_bytes_before_publication_admission)
        /\ z = Advance(t.admitted_waited, t.admitted_publications, c.bytes,
                       maximum_read_bytes_before_publication_service)
    BY <1>9, Zenon DEF ReadIsServed
  <2> QED BY <1>5, <2>1, <2>2, Zenon DEF record_read_service
<1>11. /\ s' \in Record
       /\ s'.resume_reads = t.resume_reads /\ s'.admission_reads = t.admission_reads
       /\ s'.publication_candidates = t.publication_candidates
       /\ s'.admitted_publications = t.admitted_publications
       /\ s'.resume_waited = x /\ s'.candidate_waited = y /\ s'.admitted_waited = z
       /\ s'.publication_admitted_since_service = t.publication_admitted_since_service
  <2>1. t \in Record /\ x \in Nat /\ y \in Nat /\ z \in Nat
    BY <1>6, <1>7, <1>8, <1>9, Zenon
  <2>2. Counts(s', t, x, y, z)
    BY <1>10, <2>1, CountRecord, Zenon
  <2> QED BY <2>2, Zenon DEF Counts
<1>12. PICK wa, wc, wp :
         /\ wa = IF class = "AdmissionRead" \/ s.admission_reads = {} THEN 0
                 ELSE Waited(waited.admission, c.bytes)
         /\ wc = IF s.publication_candidates = {} THEN 0
                 ELSE Waited(waited.candidate, IF reserve_publication_resources THEN c.bytes ELSE 0)
         /\ wp = IF s.admitted_publications = {} THEN 0 ELSE Waited(waited.admitted, c.bytes)
  OBVIOUS
<1>13. waited' = [admission |-> wa, candidate |-> wc, admitted |-> wp]
  BY <1>12, Zenon DEF ReadIsServed, Served
<1>14. wa \in Nat /\ wa <= IF s'.admission_reads = {} THEN 0 ELSE s'.resume_waited
  <2>1. CASE class = "AdmissionRead" \/ s.admission_reads = {}
    <3>1. wa = 0
      BY <1>12, <2>1, SMTT(30)
    <3> QED BY <1>6, <1>11, <3>1
  <2>2. CASE ~(class = "AdmissionRead" \/ s.admission_reads = {})
    <3>1. class = "ResumeRead"
      BY <1>1, <2>2, SMTT(30) DEF Reads
    <3>2. wa = Waited(waited.admission, c.bytes)
      BY <1>12, <2>2
    <3>3. wa \in Nat /\ wa <= waited.admission + c.bytes
      BY <1>1, <1>3, <3>2, WaitedCounts, Zenon
    <3>4. s'.admission_reads # {} /\ s'.resume_waited = s.resume_waited + c.bytes
      BY <1>6, <1>9, <1>11, <2>2, <3>1
    <3> QED BY <1>1, <1>2, <1>3, <1>4, <2>2, <3>3, <3>4, SMTT(30)
  <2> QED BY <2>1, <2>2
<1>15. wc \in Nat /\ wc <= IF s'.publication_candidates = {} THEN 0 ELSE s'.candidate_waited
  <2>1. CASE s.publication_candidates = {}
    BY <1>9, <1>11, <1>12, <2>1
  <2>2. CASE s.publication_candidates # {} /\ reserve_publication_resources
    <3>1. wc \in Nat /\ wc <= waited.candidate + c.bytes
      BY <1>1, <1>3, <1>12, <2>2, WaitedCounts, SMTT(30)
    <3> QED BY <1>1, <1>2, <1>3, <1>4, <1>7, <1>9, <1>11, <2>2, <3>1, SMTT(30)
  <2>3. CASE s.publication_candidates # {} /\ ~reserve_publication_resources
    <3>1. wc \in Nat /\ wc <= waited.candidate + 0
      BY <1>3, <1>12, <2>3, WaitedCounts, ZenonT(30)
    <3> QED BY <1>2, <1>3, <1>4, <1>7, <1>9, <1>11, <2>3, <3>1, SMTT(30)
  <2> QED BY <2>1, <2>2, <2>3
<1>16. wp \in Nat /\ wp <= IF s'.admitted_publications = {} THEN 0 ELSE s'.admitted_waited
  <2>1. CASE s.admitted_publications = {}
    BY <1>9, <1>11, <1>12, <2>1
  <2>2. CASE s.admitted_publications # {}
    <3>1. wp \in Nat /\ wp <= waited.admitted + c.bytes
      BY <1>1, <1>3, <1>12, <2>2, WaitedCounts, Zenon
    <3> QED BY <1>1, <1>2, <1>3, <1>4, <1>8, <1>9, <1>11, <2>2, <3>1
  <2> QED BY <2>1, <2>2
<1>17. TypeOK'
  BY <1>11, <1>13, <1>14, <1>15, <1>16 DEF TypeOK
<1>18. CountersKeepUp'
  <2>1. waited'.admission = wa /\ waited'.candidate = wc /\ waited'.admitted = wp
    BY <1>13, SMTT(30)
  <2> QED BY <1>6, <1>7, <1>8, <1>11, <1>14, <1>15, <1>16, <2>1 DEF CountersKeepUp
<1>19. ReadsFit' /\ AdmittedIsFresh'
  BY <1>9, <1>11 DEF IInv, ReadsFit, AdmittedIsFresh
<1> QED BY <1>17, <1>18, <1>19 DEF IInv
-----------------------------------------------------------------------------
(* The decision of next.                                                   *)

\* No publication goes ahead of the next read.
ReadsGoFirst ==
    /\ ~publication_service_due(s)
    /\ ~(publication_admission_due(s) /\ reserve_publication_resources)

LEMMA DecisionCases ==
  ASSUME NEW d, d = Decision(s), d # NONE
  PROVE  \/ d.kind = "Service" /\ d.class = "PublicationWrite" /\ s.admitted_publications # {}
         \/ d.kind = "PublicationAdmitted" /\ s.publication_candidates # {}
         \/ /\ d.kind = "Service" /\ d.class = "AdmissionRead"
            /\ admission_read_due(s) /\ ReadsGoFirst
         \/ /\ d.kind = "Service" /\ d.class = "ResumeRead"
            /\ ~admission_read_due(s) /\ s.resume_reads # {} /\ ReadsGoFirst
         \/ d.kind = "Service" /\ d.class = "CleanerWrite" /\ s.cleaner_writes # {}
<1>1. CASE publication_service_due(s)
  <2>1. d = [kind |-> "Service", class |-> "PublicationWrite"]
    BY <1>1, Zenon DEF Decision
  <2> QED BY <1>1, <2>1 DEF publication_service_due
<1>2. CASE ~publication_service_due(s) /\ publication_admission_due(s)
           /\ reserve_publication_resources
  <2>1. d = [kind |-> "PublicationAdmitted", class |-> "PublicationWrite"]
    BY <1>2, Zenon DEF Decision
  <2> QED BY <1>2, <2>1 DEF publication_admission_due
<1>3. CASE ReadsGoFirst /\ admission_read_due(s)
  <2>1. d = [kind |-> "Service", class |-> "AdmissionRead"]
    BY <1>3, Zenon DEF Decision, ReadsGoFirst
  <2> QED BY <1>3, <2>1
<1>4. CASE ReadsGoFirst /\ ~admission_read_due(s) /\ s.resume_reads # {}
  <2>1. d = [kind |-> "Service", class |-> "ResumeRead"]
    BY <1>4, Zenon DEF Decision, ReadsGoFirst
  <2> QED BY <1>4, <2>1
<1>5. CASE ReadsGoFirst /\ ~admission_read_due(s) /\ s.resume_reads = {}
  <2>1. cleaner_due(s)
    BY <1>5, Zenon DEF Decision, ReadsGoFirst
  <2>2. d = [kind |-> "Service", class |-> "CleanerWrite"]
    BY <1>5, <2>1, Zenon DEF Decision, ReadsGoFirst
  <2> QED BY <2>1, <2>2 DEF cleaner_due
<1> QED BY <1>1, <1>2, <1>3, <1>4, <1>5, Zenon DEF ReadsGoFirst

LEMMA NotDueIsWithin ==
  ASSUME NEW counter \in Nat, NEW bytes \in Nat, NEW limit \in Nat, CommandsAreSized,
         ~Due(counter, bytes, limit)
  PROVE  counter + bytes <= limit
BY DEF Due, CommandsAreSized

\* The read that goes first passes no limit.
LEMMA FirstReadMayPass ==
  ASSUME IInv, LimitsAreBytes, CommandsAreSized, ReadsGoFirst, NEW class, NEW c, c.bytes \in Nat,
         next_read_bytes(s) = c.bytes,
         class = "ResumeRead" /\ s.admission_reads # {}
           => ~Due(s.resume_waited, c.bytes, maximum_resume_read_bytes_before_admission_read)
  PROVE  MayPass(class, c.bytes)
<1>1. /\ s.resume_waited \in Nat /\ s.candidate_waited \in Nat /\ s.admitted_waited \in Nat
  BY DEF IInv, TypeOK, Record
<1>2. class = "ResumeRead" /\ s.admission_reads # {}
        => s.resume_waited + c.bytes <= maximum_resume_read_bytes_before_admission_read
  BY <1>1, NotDueIsWithin, SMTT(30) DEF LimitsAreBytes
<1>3. s.publication_candidates # {} /\ reserve_publication_resources
        => \/ s.publication_admitted_since_service
           \/ s.candidate_waited + c.bytes <= maximum_read_bytes_before_publication_admission
  <2>1. s.publication_candidates # {} /\ reserve_publication_resources
          => \/ s.publication_admitted_since_service
             \/ ~Due(s.candidate_waited, c.bytes, maximum_read_bytes_before_publication_admission)
    BY Zenon DEF ReadsGoFirst, publication_admission_due
  <2> QED BY <1>1, <2>1, NotDueIsWithin DEF LimitsAreBytes
<1>4. s.admitted_publications # {}
        => s.admitted_waited + c.bytes <= maximum_read_bytes_before_publication_service
  <2>1. s.admitted_publications # {}
          => ~Due(s.admitted_waited, c.bytes, maximum_read_bytes_before_publication_service)
    BY Zenon DEF ReadsGoFirst, publication_service_due
  <2> QED BY <1>1, <2>1, NotDueIsWithin DEF LimitsAreBytes
<1> QED BY <1>2, <1>3, <1>4, Zenon DEF MayPass

LEMMA QueuesAreCommands ==
  ASSUME IInv
  PROVE  /\ s.resume_reads \subseteq Commands /\ s.admission_reads \subseteq Commands
         /\ s.publication_candidates \subseteq Commands
         /\ s.admitted_publications \subseteq Commands /\ s.cleaner_writes \subseteq Commands
BY DEF IInv, TypeOK, Record

\* A read that next decides to serve, from the queue of its class.
LEMMA ServedReadKeeps ==
  ASSUME IInv, validate_config, LimitsAreBytes, CommandsAreSized, NEW class, NEW c, NEW queue,
         class \in Reads, queue = s[ServiceQueue(class)], c = Peek(queue), queue # {},
         queue \subseteq s.resume_reads \cup s.admission_reads, MayPass(class, c.bytes),
         s' = service(s, class), waited' = Served(class, c.bytes)
  PROVE  IInv'
<1>1. c \in queue /\ c \in Commands /\ c.bytes \in Nat
  <2>1. queue \subseteq Commands
    BY QueuesAreCommands, SMTT(30)
  <2>2. c \in queue
    BY <2>1, PeekIsMember, SMTT(30)
  <2> QED BY <2>1, <2>2, SMTT(30) DEF CommandsAreSized
<1>2. c.bytes <= maximum_read_command_bytes
  BY <1>1, SMTT(30) DEF IInv, ReadsFit
<1>3. PICK t : t = pop_service(s, class)
  OBVIOUS
<1>4. Pops(t, s, c, class)
  <2>1. s \in Record /\ class \in Classes
    BY DEF IInv, TypeOK, Reads, Classes
  <2>2. c = Peek(s[ServiceQueue(class)])
    BY Zenon
  <2> QED BY <1>1, <1>3, <2>1, <2>2, PopRecord, Zenon
<1>5. s' = record_read_service(t, class, c.bytes)
  BY <1>3, Zenon DEF service
<1>6. PICK x, y, z :
        /\ x = IF class = "AdmissionRead" THEN 0
               ELSE Advance(s.resume_waited, s.admission_reads, c.bytes,
                            maximum_resume_read_bytes_before_admission_read)
        /\ y = Advance(s.candidate_waited, s.publication_candidates, c.bytes,
                       maximum_read_bytes_before_publication_admission)
        /\ z = Advance(s.admitted_waited, s.admitted_publications, c.bytes,
                       maximum_read_bytes_before_publication_service)
  OBVIOUS
<1>7. ReadIsServed(class, c, x, y, z)
  BY <1>1, <1>2, <1>4, <1>5, <1>6, Zenon DEF ReadIsServed
<1> QED BY <1>7, ReadServiceKeeps, Zenon

LEMMA AdmissionReadKeeps ==
  ASSUME IInv, validate_config, LimitsAreBytes, CommandsAreSized,
         admission_read_due(s), ReadsGoFirst, s' = service(s, "AdmissionRead"),
         waited' = Served("AdmissionRead", Peek(s[ServiceQueue("AdmissionRead")]).bytes)
  PROVE  IInv'
<1>1. ServiceQueue("AdmissionRead") = "admission_reads"
  BY SMTT(30) DEF ServiceQueue, EntryQueue
<1>2. PICK c : c = Peek(s.admission_reads)
  OBVIOUS
<1>3. s.admission_reads # {} /\ next_read_bytes(s) = c.bytes
  BY <1>2, Zenon DEF admission_read_due, next_read_bytes
<1>4. c.bytes \in Nat
  BY <1>2, <1>3, QueuesAreCommands, PeekIsMember, SMTT(30) DEF CommandsAreSized
<1>5. MayPass("AdmissionRead", c.bytes)
  BY <1>3, <1>4, FirstReadMayPass
<1>6. waited' = Served("AdmissionRead", c.bytes) /\ s[ServiceQueue("AdmissionRead")] = s.admission_reads
  BY <1>1, <1>2, Zenon
<1>7. "AdmissionRead" \in Reads /\ s.admission_reads \subseteq s.resume_reads \cup s.admission_reads
  BY DEF Reads
<1> QED BY <1>2, <1>3, <1>5, <1>6, <1>7, ServedReadKeeps, Zenon

LEMMA ResumeReadKeeps ==
  ASSUME IInv, validate_config, LimitsAreBytes, CommandsAreSized,
         ~admission_read_due(s), s.resume_reads # {}, ReadsGoFirst, s' = service(s, "ResumeRead"),
         waited' = Served("ResumeRead", Peek(s[ServiceQueue("ResumeRead")]).bytes)
  PROVE  IInv'
<1>1. ServiceQueue("ResumeRead") = "resume_reads"
  BY DEF ServiceQueue, EntryQueue
<1>2. PICK c : c = Peek(s.resume_reads)
  OBVIOUS
<1>3. /\ next_read_bytes(s) = c.bytes
      /\ s.admission_reads # {}
           => ~Due(s.resume_waited, c.bytes, maximum_resume_read_bytes_before_admission_read)
  BY <1>2, Zenon DEF admission_read_due, next_read_bytes
<1>4. c.bytes \in Nat
  BY <1>2, <1>3, QueuesAreCommands, PeekIsMember, SMTT(30) DEF CommandsAreSized
<1>5. MayPass("ResumeRead", c.bytes)
  BY <1>3, <1>4, FirstReadMayPass, SMTT(30)
<1>6. waited' = Served("ResumeRead", c.bytes) /\ s[ServiceQueue("ResumeRead")] = s.resume_reads
  BY <1>1, <1>2, Zenon
<1>7. "ResumeRead" \in Reads /\ s.resume_reads \subseteq s.resume_reads \cup s.admission_reads
  BY DEF Reads
<1> QED BY <1>2, <1>5, <1>6, <1>7, ServedReadKeeps, Zenon

\* Writes are served without a read ahead of anyone.
LEMMA WriteServiceKeeps ==
  ASSUME IInv, LimitsAreBytes, CommandsAreSized, NEW class \in {"PublicationWrite", "CleanerWrite"},
         s[ServiceQueue(class)] # {}, s' = service(s, class),
         waited' = IF class = "PublicationWrite" THEN [waited EXCEPT !.admitted = 0] ELSE waited
  PROVE  IInv'
<1>1. PICK c : c = Peek(s[ServiceQueue(class)])
  OBVIOUS
<1>2. c.bytes \in Nat
  <2>1. s[ServiceQueue(class)] \subseteq Commands
    BY QueuesAreCommands DEF ServiceQueue, EntryQueue
  <2>2. c \in Commands
    BY <1>1, <2>1, PeekIsMember, SMTT(30)
  <2> QED BY <2>2 DEF CommandsAreSized
<1>3. PICK t : t = pop_service(s, class)
  OBVIOUS
<1>4. Pops(t, s, c, class)
  <2>1. s \in Record /\ class \in Classes
    BY DEF IInv, TypeOK, Classes
  <2> QED BY <1>1, <1>2, <1>3, <2>1, PopRecord, Zenon
<1>5. s' = IF class = "PublicationWrite" THEN [t EXCEPT !.admitted_waited = 0] ELSE t
  <2>1. class \notin Reads
    BY DEF Reads
  <2> QED BY <1>3, <2>1, Zenon DEF service
<1>6. /\ t \in Record
      /\ t.resume_reads = s.resume_reads /\ t.admission_reads = s.admission_reads
      /\ t.publication_candidates = s.publication_candidates
      /\ class = "CleanerWrite" => t.admitted_publications = s.admitted_publications
      /\ t.resume_waited = s.resume_waited /\ t.candidate_waited = s.candidate_waited
      /\ t.admitted_waited = s.admitted_waited
      /\ t.publication_admitted_since_service = FALSE
  BY <1>4 DEF Pops
<1>7. /\ s' \in Record
      /\ s'.resume_reads = s.resume_reads /\ s'.admission_reads = s.admission_reads
      /\ s'.publication_candidates = s.publication_candidates
      /\ class = "CleanerWrite" => s'.admitted_publications = s.admitted_publications
      /\ s'.resume_waited = s.resume_waited /\ s'.candidate_waited = s.candidate_waited
      /\ s'.admitted_waited = IF class = "PublicationWrite" THEN 0 ELSE s.admitted_waited
      /\ s'.publication_admitted_since_service = FALSE
  <2>1. CASE class = "PublicationWrite"
    <3>1. PICK u : u = [t EXCEPT !.admitted_waited = 0]
      BY Zenon
    <3>2. /\ u \in Record
          /\ u.resume_reads = t.resume_reads /\ u.admission_reads = t.admission_reads
          /\ u.publication_candidates = t.publication_candidates
          /\ u.resume_waited = t.resume_waited /\ u.candidate_waited = t.candidate_waited
          /\ u.admitted_waited = 0
          /\ u.publication_admitted_since_service = t.publication_admitted_since_service
      BY <1>6, <3>1 DEF Record
    <3>3. s' = u
      BY <1>5, <2>1, <3>1
    <3> QED BY <1>6, <2>1, <3>2, <3>3
  <2>2. CASE class = "CleanerWrite"
    BY <1>5, <1>6, <2>2, SMTT(30)
  <2> QED BY <2>1, <2>2, Zenon
<1>8. /\ waited' \in [admission: Nat, candidate: Nat, admitted: Nat]
      /\ waited'.admission = waited.admission /\ waited'.candidate = waited.candidate
      /\ waited'.admitted = IF class = "PublicationWrite" THEN 0 ELSE waited.admitted
  BY DEF IInv, TypeOK
<1>9. TypeOK' /\ ReadsFit' /\ AdmittedIsFresh'
  BY <1>7, <1>8, SMTT(30) DEF IInv, TypeOK, ReadsFit, AdmittedIsFresh
<1>10. CountersKeepUp'
  BY <1>7, <1>8 DEF IInv, CountersKeepUp, LimitsAreBytes
<1> QED BY <1>9, <1>10 DEF IInv

LEMMA AdmissionKeeps ==
  ASSUME IInv, LimitsAreBytes, CommandsAreSized, s.publication_candidates # {},
         s' = admit_publication(s),
         waited' = [waited EXCEPT !.candidate = 0,
                      !.admitted = IF s.admitted_publications = {} THEN 0 ELSE @]
  PROVE  IInv'
<1>1. PICK c, m : /\ c = Peek(s.publication_candidates)
                  /\ m = IF s.admitted_publications = {} THEN 0 ELSE s.admitted_waited
  OBVIOUS
<1>2. c \in Commands /\ m \in Nat
  <2>1. c \in Commands
    BY <1>1, QueuesAreCommands, PeekIsMember
  <2>2. m \in Nat
    BY <1>1 DEF IInv, TypeOK, Record
  <2> QED BY <2>1, <2>2
<1>3. PICK t : t = [s EXCEPT !.publication_candidates = @ \ {c},
                             !.admitted_publications = @ \union {c}, !.candidate_waited = 0,
                             !.admitted_waited = m, !.publication_admitted_since_service = TRUE]
  OBVIOUS
<1>4. s' = t
  BY <1>1, <1>3, Zenon DEF admit_publication
<1>5. s \in Record
  BY DEF IInv, TypeOK
<1>6. t \in Record
  BY <1>2, <1>3, <1>5, Zenon DEF Record
<1>7. /\ t.resume_reads = s.resume_reads /\ t.admission_reads = s.admission_reads
      /\ t.admitted_publications # {}
      /\ t.resume_waited = s.resume_waited /\ t.candidate_waited = 0 /\ t.admitted_waited = m
  BY <1>3, <1>5 DEF Record
<1>8. /\ waited' \in [admission: Nat, candidate: Nat, admitted: Nat]
      /\ waited'.admission = waited.admission /\ waited'.candidate = 0
      /\ waited'.admitted = IF s.admitted_publications = {} THEN 0 ELSE waited.admitted
  BY Zenon DEF IInv, TypeOK
<1>9. TypeOK' /\ ReadsFit' /\ AdmittedIsFresh'
  BY <1>4, <1>6, <1>7, <1>8 DEF IInv, TypeOK, ReadsFit, AdmittedIsFresh
<1>10. CountersKeepUp'
  BY <1>1, <1>4, <1>7, <1>8, SMTT(30) DEF IInv, CountersKeepUp, LimitsAreBytes
<1> QED BY <1>9, <1>10 DEF IInv

LEMMA NextKeeps ==
  ASSUME IInv, validate_config, LimitsAreBytes, CommandsAreSized, next
  PROVE  IInv'
<1>1. PICK d : /\ d = Decision(s) /\ d # NONE
               /\ IF d.kind = "PublicationAdmitted"
                  THEN /\ s' = admit_publication(s)
                       /\ waited' = [waited EXCEPT !.candidate = 0,
                                       !.admitted = IF s.admitted_publications = {} THEN 0 ELSE @]
                  ELSE /\ s' = service(s, d.class)
                       /\ waited' = IF d.class \in Reads
                                    THEN Served(d.class, Peek(s[ServiceQueue(d.class)]).bytes)
                                    ELSE IF d.class = "PublicationWrite"
                                    THEN [waited EXCEPT !.admitted = 0] ELSE waited
  BY Zenon DEF next
<1>2. CASE d.kind = "PublicationAdmitted" /\ s.publication_candidates # {}
  BY <1>1, <1>2, AdmissionKeeps, Zenon
<1>3. CASE /\ d.kind = "Service" /\ d.class = "AdmissionRead"
           /\ admission_read_due(s) /\ ReadsGoFirst
  <2>1. "AdmissionRead" \in Reads
    BY DEF Reads
  <2>2. /\ s' = service(s, "AdmissionRead")
        /\ waited' = Served("AdmissionRead", Peek(s[ServiceQueue("AdmissionRead")]).bytes)
    BY <1>1, <1>3, <2>1, SMTT(30)
  <2> QED BY <1>3, <2>2, AdmissionReadKeeps, Zenon
<1>4. CASE /\ d.kind = "Service" /\ d.class = "ResumeRead"
           /\ ~admission_read_due(s) /\ s.resume_reads # {} /\ ReadsGoFirst
  <2>1. "ResumeRead" \in Reads
    BY DEF Reads
  <2>2. /\ s' = service(s, "ResumeRead")
        /\ waited' = Served("ResumeRead", Peek(s[ServiceQueue("ResumeRead")]).bytes)
    BY <1>1, <1>4, <2>1, SMTT(30)
  <2> QED BY <1>4, <2>2, ResumeReadKeeps, Zenon
<1>5. CASE d.kind = "Service" /\ d.class = "PublicationWrite" /\ s.admitted_publications # {}
  <2>1. /\ "PublicationWrite" \notin Reads
        /\ ServiceQueue("PublicationWrite") = "admitted_publications"
    BY SMTT(30) DEF Reads, ServiceQueue
  <2>2. /\ s' = service(s, "PublicationWrite") /\ waited' = [waited EXCEPT !.admitted = 0]
        /\ s[ServiceQueue("PublicationWrite")] # {}
    BY <1>1, <1>5, <2>1, SMTT(30)
  <2> QED BY <2>2, WriteServiceKeeps, SMTT(30)
<1>6. CASE d.kind = "Service" /\ d.class = "CleanerWrite" /\ s.cleaner_writes # {}
  <2>1. "CleanerWrite" \notin Reads /\ ServiceQueue("CleanerWrite") = "cleaner_writes"
    BY DEF Reads, ServiceQueue, EntryQueue
  <2>2. /\ s' = service(s, "CleanerWrite") /\ waited' = waited
        /\ s[ServiceQueue("CleanerWrite")] # {}
    BY <1>1, <1>6, <2>1, SMTT(30)
  <2> QED BY <2>2, WriteServiceKeeps, SMTT(30)
<1>7. d = Decision(s) /\ d # NONE
  BY <1>1, Zenon
<1> QED BY <1>2, <1>3, <1>4, <1>5, <1>6, <1>7, DecisionCases, SMTT(30)

\* A scheduler starts with a record of its type.
LEMMA NewIsRecord == NewScheduler \in Record
<1>1. 0 \in Nat /\ 0 \in Int /\ {} \in SUBSET Commands /\ FALSE \in BOOLEAN
  OBVIOUS
<1> QED BY <1>1, ZenonT(30) DEF NewScheduler, Record
-----------------------------------------------------------------------------
\* The configured bytes bound the waiting: with the configurations that new
\* accepts, next never serves reads past the limit of a waiting admission read,
\* of a waiting candidate for which resources are free, or of an admitted
\* publication, not even by the last read; for any commands, in any order of
\* enqueue_ready, offer_publication and next.
THEOREM WaitingIsBounded ==
  ASSUME validate_config, LimitsAreBytes, CommandsAreSized
  PROVE  Spec => []WaitsAreBounded
<1>1. Init => IInv
  <2> SUFFICES ASSUME Init PROVE IInv
    BY SMTT(30)
  <2>1. s = NewScheduler /\ waited = [admission |-> 0, candidate |-> 0, admitted |-> 0]
    BY SMTT(30) DEF Init
  <2>2. s \in Record
    BY <2>1, NewIsRecord, Zenon
  <2>3. /\ s.resume_reads = {} /\ s.admission_reads = {} /\ s.publication_candidates = {}
        /\ s.admitted_publications = {} /\ s.resume_waited = 0 /\ s.candidate_waited = 0
        /\ s.admitted_waited = 0
    BY <2>1, ZenonT(30) DEF NewScheduler
  <2>4. TypeOK /\ ReadsFit /\ AdmittedIsFresh
    BY <2>1, <2>2, <2>3, SMTT(30) DEF TypeOK, ReadsFit, AdmittedIsFresh
  <2>5. CountersKeepUp
    BY <2>1, <2>3, SMTT(30) DEF CountersKeepUp, LimitsAreBytes
  <2> QED BY <2>4, <2>5, SMTT(30) DEF IInv
<1>2. IInv /\ [Next]_vars => IInv'
  <2> SUFFICES ASSUME IInv, [Next]_vars PROVE IInv'
    BY SMTT(30)
  <2>1. ASSUME UNCHANGED <<s, waited>> PROVE IInv'
    BY <2>1 DEF IInv, TypeOK, ReadsFit, CountersKeepUp, AdmittedIsFresh
  <2>2. ASSUME NEW c \in Commands, enqueue_ready(c) \/ offer_publication(c) PROVE IInv'
    <3>1. s' = insert(s, c) /\ s' # NONE /\ UNCHANGED waited
      BY <2>2 DEF enqueue_ready, offer_publication
    <3> QED BY <3>1, InsertKeeps, SMTT(30)
  <2>3. ASSUME NEW c, Finish(c) PROVE IInv'
    BY <2>1, <2>3 DEF Finish
  <2>4. CASE UNCHANGED vars
    BY <2>1, <2>4, SMTT(30) DEF vars
  <2> QED BY <2>2, <2>3, <2>4, NextKeeps, Zenon DEF Next
<1>3. IInv => WaitsAreBounded
  <2> SUFFICES ASSUME IInv PROVE WaitsAreBounded
    OBVIOUS
  <2>1. /\ s.resume_waited \in Nat /\ s.candidate_waited \in Nat /\ s.admitted_waited \in Nat
        /\ waited.admission \in Nat /\ waited.candidate \in Nat /\ waited.admitted \in Nat
    BY DEF IInv, TypeOK, Record
  <2> QED BY <2>1 DEF IInv, CountersKeepUp, LimitsAreBytes, WaitsAreBounded
<1> QED BY <1>1, <1>2, <1>3, PTL DEF Spec
=============================================================================
