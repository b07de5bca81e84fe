------------------------ MODULE ServingBackendLemmas ------------------------
(***************************************************************************)
(* The inductive invariant of the serving backend, and what its steps have *)
(* in common: how a connection thread moves, how the runtime loop turns,   *)
(* and how a request is taken, goes on and is closed.                      *)
(***************************************************************************)
EXTENDS ServingBackend, TLAPS

Completion == [kind: {"TextDelta", "Failed"}] \cup [kind: {"Finished"}, texts: Nat]

RequestEvent == [kind: {"Admitted", "PrefillProgress", "Cancelled", "Finished", "Failed"}, id: Clients]
                  \cup [kind: {"Token"}, id: Clients, position: Nat]

Request == [admitted: BOOLEAN, tokens: Nat, texts: Nat]

\* Every variable the argument reads keeps its type.
TypeOK ==
    /\ conn \in [Clients -> {"idle", "queued", "checked", "waiting", "done"}]
    /\ got \in [Clients -> Nat]
    /\ owners \subseteq Clients
    /\ DOMAIN cancellations \subseteq Clients
    /\ commands \in Seq(Clients)
    /\ channel \in [Clients -> Seq(Completion)]
    /\ polls \subseteq Clients
    /\ drained \in Seq(RequestEvent)
    /\ closing \in Closing \cup {NONE}
    /\ DOMAIN active \subseteq Clients
    /\ \A c \in DOMAIN active : active[c] \in Request
    /\ pending_admissions \subseteq Clients
    /\ coordinator \in [Clients -> {"none", "pending", "running", "cancelling", "over"}]
    /\ generated \in [Clients -> Nat]
    /\ events \in Seq(RequestEvent)

Queued == Range(commands)

\* A request is in one place at a time: queued once, or active, or closing.
OnePlace ==
    /\ \A i, j \in DOMAIN commands : commands[i] = commands[j] => i = j
    /\ Queued \cap DOMAIN active = {}
    /\ closing # NONE => closing.id \notin Queued \cup DOMAIN active
    /\ pc = "idle" => closing = NONE

\* What submit_chat has not submitted, nobody knows.
Unsubmitted ==
    \A c \in Clients : conn[c] \in {"idle", "queued", "checked"} =>
      /\ c \notin Queued /\ c \notin DOMAIN active /\ c \notin DOMAIN cancellations
      /\ closing # NONE => closing.id # c
      /\ coordinator[c] = "none" /\ channel[c] = <<>> /\ got[c] = 0

\* A queued request has not been acted on: its marker, if any, is unspent.
QueuedIsFresh ==
    \A c \in Queued :
      /\ coordinator[c] = "none" /\ channel[c] = <<>> /\ got[c] = 0
      /\ c \in DOMAIN cancellations => cancellations[c] # "Dispatched"

\* The runtime polls only admissions that are still pending, of active requests.
PolledIsPending ==
    /\ polls \subseteq pending_admissions
    /\ \A c \in pending_admissions : coordinator[c] = "pending" /\ c \in DOMAIN active
    /\ polls # {} => pc = "polls"

Terminal == {"Cancelled", "Finished", "Failed"}

\* An event is of a request the coordinator admitted, and a last event of
\* one it has let go.
EventIsDue(e) ==
    /\ coordinator[e.id] \in {"running", "cancelling", "over"}
    /\ e.kind \in Terminal => coordinator[e.id] # "running"

EventsAreDue ==
    /\ \A i \in DOMAIN events : EventIsDue(events[i])
    /\ \A i \in DOMAIN drained : EventIsDue(drained[i])

\* The text deltas of an active request are those read and those undelivered.
TextsAreCounted ==
    \A c \in DOMAIN active : conn[c] = "waiting" =>
      /\ active[c].texts = got[c] + Len(channel[c])
      /\ \A i \in DOMAIN channel[c] : channel[c][i].kind # "Finished"

\* While the runtime lives.
Consistent ==
    /\ OwnersAreAccountedFor
    /\ OnePlace /\ Unsubmitted /\ QueuedIsFresh /\ PolledIsPending
    /\ EventsAreDue /\ TextsAreCounted
    /\ CancellationsAreNotLost
    /\ TRUE \notin RefusedCancellations => WorkHasAnOwner

\* Only a request that was submitted finishes, and its last event says how
\* many texts come before it.
FinishedIsTold ==
    \A c \in Clients : \A i \in DOMAIN channel[c] : channel[c][i].kind = "Finished" =>
      /\ conn[c] \in {"waiting", "done"}
      /\ conn[c] = "waiting" => channel[c][i].texts = got[c] + i - 1

IInv == TypeOK /\ FinishedIsTold /\ (Alive => Consistent)
-----------------------------------------------------------------------------
(* Helpers.                                                                *)

\* What the steps use of a list: its length and its members.
LEMMA ListIs ==
  ASSUME NEW S, NEW s \in Seq(S)
  PROVE  Len(s) \in Nat /\ \A i \in DOMAIN s : s[i] \in S
OBVIOUS

\* The empty list, and the count of nothing.
LEMMA EmptyList ==
  ASSUME NEW S
  PROVE  <<>> \in Seq(S) /\ DOMAIN <<>> = {} /\ Len(<<>>) = 0 /\ 0 + 0 = 0
OBVIOUS

\* A list with one more member at its end.
LEMMA LongerList ==
  ASSUME NEW S, NEW s \in Seq(S), NEW e \in S
  PROVE  /\ Append(s, e) \in Seq(S)
         /\ \A i \in DOMAIN Append(s, e) :
              \/ i \in DOMAIN s /\ Append(s, e)[i] = s[i]
              \/ i = Len(s) + 1 /\ Append(s, e)[i] = e
OBVIOUS

\* A list without its head.
LEMMA ShorterList ==
  ASSUME NEW S, NEW s \in Seq(S), s # <<>>
  PROVE  /\ Tail(s) \in Seq(S)
         /\ \A i \in DOMAIN Tail(s) : i + 1 \in DOMAIN s /\ Tail(s)[i] = s[i + 1]
OBVIOUS

\* Two lists one after the other.
LEMMA JoinedList ==
  ASSUME NEW S, NEW s \in Seq(S), NEW t \in Seq(S)
  PROVE  s \o t \in Seq(S)
OBVIOUS

\* A list of one.
LEMMA ListOfOne ==
  ASSUME NEW S, NEW e \in S
  PROVE  <<e>> \in Seq(S)
OBVIOUS

\* A list given by its members.
LEMMA ListedAs ==
  ASSUME NEW S, NEW n \in Nat, NEW s \in [1..n -> S]
  PROVE  s \in Seq(S)
OBVIOUS

\* What a client has read and what waits for it add up, after it reads one.
LEMMA ReadingAddsUp ==
  ASSUME NEW read \in Nat, NEW n \in Nat \ {0}
  PROVE  read + n = (read + 1) + (n - 1)
OBVIOUS

\* What joins a queue is in it, and once if it was not; what heads it leaves.
LEMMA AppendLists ==
  ASSUME NEW S, NEW s \in Seq(S), NEW x \in S
  PROVE  /\ Append(s, x) \in Seq(S) /\ Range(Append(s, x)) = Range(s) \cup {x}
         /\ (x \notin Range(s) /\ \A i, j \in DOMAIN s : s[i] = s[j] => i = j) =>
              \A i, j \in DOMAIN Append(s, x) : Append(s, x)[i] = Append(s, x)[j] => i = j
<1> DEFINE t == Append(s, x)
<1>1. /\ t \in Seq(S) /\ Len(s) \in Nat /\ DOMAIN s = 1..Len(s) /\ DOMAIN t = 1..(Len(s) + 1)
      /\ \A i \in DOMAIN s : t[i] = s[i]
      /\ t[Len(s) + 1] = x
  OBVIOUS
<1>2. /\ \A i \in DOMAIN t : i \in DOMAIN s \/ i = Len(s) + 1
      /\ DOMAIN s \subseteq DOMAIN t /\ Len(s) + 1 \in DOMAIN t
  BY <1>1
<1> HIDE DEF t
<1>3. Range(t) = Range(s) \cup {x}
  BY <1>1, <1>2, Zenon DEF Range
<1>4. ASSUME x \notin Range(s), \A i, j \in DOMAIN s : s[i] = s[j] => i = j,
             NEW i \in DOMAIN t, NEW j \in DOMAIN t, t[i] = t[j]
      PROVE  i = j
  <2>1. \A k \in DOMAIN s : s[k] # x
    BY <1>4 DEF Range
  <2> QED BY <1>1, <1>2, <1>4, <2>1, Zenon
<1> QED BY <1>1, <1>3, <1>4 DEF t

LEMMA TailLists ==
  ASSUME NEW S, NEW s \in Seq(S), s # <<>>
  PROVE  /\ Tail(s) \in Seq(S) /\ Head(s) \in S /\ Range(s) = Range(Tail(s)) \cup {Head(s)}
         /\ (\A i, j \in DOMAIN s : s[i] = s[j] => i = j) =>
              /\ Head(s) \notin Range(Tail(s))
              /\ \A i, j \in DOMAIN Tail(s) : Tail(s)[i] = Tail(s)[j] => i = j
<1>1. /\ Tail(s) \in Seq(S) /\ Head(s) = s[1] /\ Len(s) \in Nat \ {0}
      /\ DOMAIN s = 1..Len(s) /\ DOMAIN Tail(s) = 1..(Len(s) - 1)
      /\ \A i \in DOMAIN Tail(s) : Tail(s)[i] = s[i + 1]
  OBVIOUS
<1>2. Range(s) = Range(Tail(s)) \cup {Head(s)}
  <2>1. ASSUME NEW i \in DOMAIN s PROVE i = 1 \/ (i - 1 \in DOMAIN Tail(s) /\ Tail(s)[i - 1] = s[i])
    BY <1>1
  <2>2. ASSUME NEW i \in DOMAIN Tail(s) PROVE i + 1 \in DOMAIN s
    BY <1>1
  <2>3. 1 \in DOMAIN s
    BY <1>1
  <2>4. ASSUME NEW x \in Range(s) PROVE x \in Range(Tail(s)) \cup {Head(s)}
    <3>1. PICK i \in DOMAIN s : x = s[i]
      BY DEF Range
    <3> QED BY <1>1, <2>1, <3>1, ZenonT(30) DEF Range
  <2>5. ASSUME NEW x \in Range(Tail(s)) \cup {Head(s)} PROVE x \in Range(s)
    <3>1. CASE x = Head(s)
      BY <1>1, <2>3, <3>1, Zenon DEF Range
    <3>2. CASE x \in Range(Tail(s))
      <4>1. PICK i \in DOMAIN Tail(s) : x = Tail(s)[i]
        BY <3>2 DEF Range
      <4> QED BY <1>1, <2>2, <4>1, Zenon DEF Range
    <3> QED BY <3>1, <3>2
  <2> QED BY <2>4, <2>5
<1>3. ASSUME \A i, j \in DOMAIN s : s[i] = s[j] => i = j
      PROVE  /\ Head(s) \notin Range(Tail(s))
             /\ \A i, j \in DOMAIN Tail(s) : Tail(s)[i] = Tail(s)[j] => i = j
  <2>1. \A i \in DOMAIN Tail(s) : i + 1 \in DOMAIN s /\ i + 1 # 1 /\ i \in Nat /\ 1 \in DOMAIN s
    BY <1>1
  <2>2. \A i \in DOMAIN Tail(s) : Tail(s)[i] # Head(s)
    BY <1>1, <1>3, <2>1, ZenonT(60)
  <2>3. ASSUME NEW i \in DOMAIN Tail(s), NEW j \in DOMAIN Tail(s), Tail(s)[i] = Tail(s)[j]
        PROVE  i = j
    <3>1. i + 1 = j + 1
      BY <1>1, <1>3, <2>1, <2>3, ZenonT(30)
    <3> QED BY <2>1, <3>1
  <2> QED BY <2>2, <2>3 DEF Range
<1> QED BY <1>1, <1>2, <1>3

\* The variables no conjunct of the invariant reads but through pc.
Kept == <<conn, got, owners, cancellations, commands, channel, polls, drained, closing,
          active, pending_admissions, coordinator, generated, events>>

\* A step of the runtime's own control keeps the invariant.
LEMMA ControlKeeps ==
  ASSUME IInv, UNCHANGED Kept,
         Alive' => /\ Alive
                   /\ pc' = "idle" => closing = NONE
                   /\ polls # {} => pc' = "polls"
  PROVE  IInv'
<1>1. TypeOK' /\ FinishedIsTold'
  BY DEF IInv, TypeOK, FinishedIsTold, Kept
<1>2. ASSUME Alive' PROVE Consistent'
  <2>1. Alive /\ Consistent
    BY <1>2 DEF IInv
  <2>2. OwnersAreAccountedFor' /\ OnePlace'
    BY <1>2, <2>1 DEF Kept, Consistent, OwnersAreAccountedFor, OnePlace, Queued
  <2>3. Unsubmitted' /\ QueuedIsFresh'
    BY <1>2, <2>1 DEF Kept, Consistent, Unsubmitted, QueuedIsFresh, Queued
  <2>4. PolledIsPending' /\ TextsAreCounted'
    BY <1>2, <2>1 DEF Kept, Consistent, PolledIsPending, TextsAreCounted
  <2>5. EventsAreDue'
    BY <2>1 DEF Kept, Consistent, EventsAreDue, EventIsDue
  <2>6. CancellationsAreNotLost' /\ (TRUE \notin RefusedCancellations => WorkHasAnOwner')
    BY <1>2, <2>1, Zenon DEF Kept, Consistent, CancellationsAreNotLost, WorkHasAnOwner
  <2> QED BY <2>2, <2>3, <2>4, <2>5, <2>6, Zenon DEF Consistent
<1> QED BY <1>1, <1>2 DEF IInv

\* What a nonblocking send of anything but the last event leaves of a channel.
LEMMA SendTells ==
  ASSUME TypeOK, NEW id \in Clients, NEW e \in Completion, e.kind # "Finished",
         try_send(id, e)
  PROVE  /\ channel' \in [Clients -> Seq(Completion)]
         /\ \A c \in Clients \ {id} : channel'[c] = channel[c]
         /\ \A i \in DOMAIN channel'[id] : channel'[id][i].kind = "Finished" =>
              i \in DOMAIN channel[id] /\ channel'[id][i] = channel[id][i]
<1>1. channel \in [Clients -> Seq(Completion)] /\ channel[id] \in Seq(Completion)
  BY DEF TypeOK
<1>2. CASE ~Delivered(id)
  BY <1>1, <1>2 DEF try_send
<1>3. CASE Delivered(id)
  <2>1. channel' = [channel EXCEPT ![id] = Append(channel[id], e)]
    BY <1>3 DEF try_send
  <2>2. Append(channel[id], e) \in Seq(Completion)
    BY <1>1
  <2>3. \A i \in DOMAIN Append(channel[id], e) : Append(channel[id], e)[i].kind = "Finished" =>
          i \in DOMAIN channel[id] /\ Append(channel[id], e)[i] = channel[id][i]
    BY <1>1
  <2> QED BY <1>1, <2>1, <2>2, <2>3
<1> QED BY <1>2, <1>3
-----------------------------------------------------------------------------
(* Connection threads.                                                     *)

\* A connection that has not submitted moves on, or is answered.
LEMMA MoveKeeps ==
  ASSUME IInv, NEW c \in Clients, conn[c] \in {"idle", "queued", "checked"},
         NEW s \in {"queued", "checked", "done"}, conn' = [conn EXCEPT ![c] = s], pc' = pc,
         UNCHANGED <<got, owners, cancellations, commands, channel, polls, drained, closing,
                     active, pending_admissions, coordinator, generated, events>>
  PROVE  IInv'
<1>1. TypeOK' /\ FinishedIsTold'
  BY ZenonT(30) DEF IInv, TypeOK, FinishedIsTold
<1>2. ASSUME Alive' PROVE Consistent'
  <2>1. Alive /\ Consistent /\ TypeOK
    BY <1>2 DEF IInv, Alive
  <2>2. OwnersAreAccountedFor' /\ OnePlace'
    BY <2>1, SMTT(30) DEF Consistent, OwnersAreAccountedFor, OnePlace, Queued, Alive
  <2>3. Unsubmitted' /\ QueuedIsFresh'
    BY <2>1, SMTT(30) DEF Consistent, Unsubmitted, QueuedIsFresh, Queued, TypeOK
  <2>4. PolledIsPending' /\ TextsAreCounted'
    <3>1. PolledIsPending'
      BY <2>1, ZenonT(30) DEF Consistent, PolledIsPending
    <3>2. c \notin DOMAIN active /\ active' = active
      BY <2>1, ZenonT(30) DEF Consistent, Unsubmitted
    <3>3. \A d \in DOMAIN active : conn'[d] = conn[d] /\ d \in Clients
      BY <2>1, <3>2, ZenonT(30) DEF TypeOK
    <3>4. TextsAreCounted'
      BY <2>1, <3>2, <3>3, ZenonT(30) DEF Consistent, TextsAreCounted
    <3> QED BY <3>1, <3>4
  <2>5. EventsAreDue'
    BY <2>1 DEF Consistent, EventsAreDue, EventIsDue
  <2>6. CancellationsAreNotLost' /\ (TRUE \notin RefusedCancellations => WorkHasAnOwner')
    BY <2>1, Zenon DEF Consistent, CancellationsAreNotLost, WorkHasAnOwner, Alive
  <2> QED BY <2>2, <2>3, <2>4, <2>5, <2>6, Zenon DEF Consistent
<1> QED BY <1>1, <1>2 DEF IInv

LEMMA AcceptKeeps ==
  ASSUME IInv, NEW c \in Clients, accept_loop(c) \/ handle_connection(c) PROVE IInv'
<1>1. PICK s \in {"queued", "checked", "done"} : conn' = [conn EXCEPT ![c] = s]
  BY DEF accept_loop, handle_connection, Answer
<1>2. /\ conn[c] \in {"idle", "queued", "checked"} /\ pc' = pc
      /\ UNCHANGED <<got, owners, cancellations, commands, channel, polls, drained, closing,
                     active, pending_admissions, coordinator, generated, events>>
  BY DEF accept_loop, handle_connection, shared, queue, channels, loop, requests, serving
<1> QED BY <1>1, <1>2, MoveKeeps, Zenon

LEMMA SubmitKeeps ==
  ASSUME IInv, NEW c \in Clients, submit_chat(c) PROVE IInv'
<1>1. /\ conn[c] = "checked" /\ pc' = pc
      /\ UNCHANGED <<got, cancellations, polls, drained, closing, active, pending_admissions,
                     coordinator, generated, events>>
  BY DEF submit_chat, loop, requests, serving
<1>2. CASE conn' = [conn EXCEPT ![c] = "done"] /\ UNCHANGED <<owners, commands, channel>>
  BY <1>1, <1>2, MoveKeeps, Zenon
<1>3. CASE /\ owners' = owners \cup {c} /\ commands' = Append(commands, c)
           /\ conn' = [conn EXCEPT ![c] = "waiting"] /\ channel' = channel
  <2>1. commands \in Seq(Clients) /\ TypeOK
    BY DEF IInv, TypeOK
  <2>2. commands' \in Seq(Clients) /\ Queued' = Queued \cup {c}
    BY <1>3, <2>1, AppendLists, SMTT(30) DEF Queued
  <2>3. TypeOK'
    BY <1>1, <1>3, <2>1, <2>2, SMTT(30) DEF TypeOK
  <2>5. FinishedIsTold'
    BY <1>1, <1>3, <2>1, Zenon DEF IInv, FinishedIsTold, TypeOK
  <2>6. ASSUME Alive' PROVE Consistent'
    <3>1. Alive /\ Consistent
      BY <1>1, <2>6, ZenonT(30) DEF IInv, Alive
    <3>2. /\ c \notin Queued /\ c \notin DOMAIN active /\ c \notin DOMAIN cancellations
          /\ closing # NONE => closing.id # c
          /\ coordinator[c] = "none" /\ channel[c] = <<>> /\ got[c] = 0
      BY <1>1, <3>1, ZenonT(30) DEF Consistent, Unsubmitted
    <3>3. OwnersAreAccountedFor' /\ OnePlace'
      BY <1>1, <1>3, <2>1, <2>2, <3>1, <3>2, AppendLists, SMTT(30)
         DEF Consistent, OwnersAreAccountedFor, OnePlace, Queued, Alive
    <3>4. Unsubmitted' /\ QueuedIsFresh'
      BY <1>1, <1>3, <2>1, <2>2, <3>1, <3>2, ZenonT(30) DEF Consistent, Unsubmitted, QueuedIsFresh, TypeOK
    <3>5. PolledIsPending' /\ TextsAreCounted'
      BY <1>1, <1>3, <2>1, <3>1, <3>2, ZenonT(30) DEF Consistent, PolledIsPending, TextsAreCounted, TypeOK
    <3>6. EventsAreDue'
      BY <1>1, <3>1 DEF Consistent, EventsAreDue, EventIsDue
    <3>7. CancellationsAreNotLost' /\ (TRUE \notin RefusedCancellations => WorkHasAnOwner')
      BY <1>1, <3>1, Zenon DEF Consistent, CancellationsAreNotLost, WorkHasAnOwner, Alive
    <3> QED BY <3>3, <3>4, <3>5, <3>6, <3>7, Zenon DEF Consistent
  <2> QED BY <2>3, <2>5, <2>6, SMTT(30) DEF IInv
<1> QED BY <1>2, <1>3 DEF submit_chat, Answer, channels

\* A cancellation adds at most one unspent marker.
LEMMA CancelAdds ==
  ASSUME NEW c, cancel(c)
  PROVE  /\ DOMAIN cancellations' \subseteq DOMAIN cancellations \cup {c}
         /\ c \notin owners => cancellations' = cancellations
         /\ \A d \in DOMAIN cancellations' :
              \/ d \in DOMAIN cancellations /\ cancellations'[d] = cancellations[d]
              \/ cancellations'[d] = "Requested"
  BY ZenonT(30) DEF cancel, With

\* The client is gone, with or without a cancellation behind it.
LEMMA LeaveKeeps ==
  ASSUME IInv, NEW c \in Clients, conn[c] = "waiting", conn' = [conn EXCEPT ![c] = "done"],
         cancel(c) \/ cancellations' = cancellations,
         channel' \in [Clients -> Seq(Completion)],
         \A d \in Clients \ {c} : channel'[d] = channel[d],
         channel[c] = <<>> => channel'[c] = <<>>,
         \A i \in DOMAIN channel'[c] : channel'[c][i].kind = "Finished" =>
           \E j \in DOMAIN channel[c] : channel[c][j].kind = "Finished",
         pc' = pc,
         UNCHANGED <<got, owners, commands, polls, drained, closing, active, pending_admissions,
                     coordinator, generated, events>>
  PROVE  IInv'
<1>1. /\ DOMAIN cancellations' \subseteq DOMAIN cancellations \cup {c}
      /\ \A d \in DOMAIN cancellations' :
              \/ d \in DOMAIN cancellations /\ cancellations'[d] = cancellations[d]
              \/ cancellations'[d] = "Requested"
  BY CancelAdds
<1>2. TypeOK'
  BY <1>1, Zenon DEF IInv, TypeOK
<1>3. FinishedIsTold'
  <2>1. FinishedIsTold /\ conn \in [Clients -> {"idle", "queued", "checked", "waiting", "done"}]
    BY Zenon DEF IInv, TypeOK
  <2>2. conn'[c] = "done" /\ \A d \in Clients \ {c} : conn'[d] = conn[d]
    BY <2>1, Zenon
  <2>3. ASSUME NEW d \in Clients, NEW i \in DOMAIN channel'[d], channel'[d][i].kind = "Finished"
        PROVE  /\ conn'[d] \in {"waiting", "done"}
               /\ conn'[d] = "waiting" => channel'[d][i].texts = got'[d] + i - 1
    <3>1. CASE d = c
      BY <2>2, <3>1, Zenon
    <3>2. CASE d # c
      <4>1. conn'[d] = conn[d] /\ channel'[d] = channel[d] /\ got' = got
        BY <2>2, <3>2, Zenon
      <4> QED BY <2>1, <2>3, <4>1, ZenonT(30) DEF FinishedIsTold
    <3> QED BY <3>1, <3>2, Zenon
  <2> QED BY <2>3, ZenonT(30) DEF FinishedIsTold
<1>4. ASSUME Alive' PROVE Consistent'
  <2>1. Alive /\ Consistent /\ TypeOK
    BY <1>4 DEF IInv, Alive
  <2>2. OwnersAreAccountedFor' /\ OnePlace'
    BY <2>1, Zenon DEF Consistent, OwnersAreAccountedFor, OnePlace, Queued, Alive
  <2>3. Unsubmitted'
    BY <1>1, <2>1, SMTT(30) DEF Consistent, Unsubmitted, Queued, TypeOK
  <2>4. QueuedIsFresh'
    <3>1. Queued' = Queued /\ Queued \subseteq Clients
      BY <2>1, SMTT(30) DEF Queued, Range, TypeOK
    <3> QED BY <1>1, <2>1, <3>1, ZenonT(30) DEF Consistent, QueuedIsFresh
  <2>5. PolledIsPending' /\ TextsAreCounted'
    BY <2>1, SMTT(30) DEF Consistent, PolledIsPending, TextsAreCounted, TypeOK
  <2>6. EventsAreDue'
    BY <2>1, SMTT(30) DEF Consistent, EventsAreDue, EventIsDue
  <2>7. CancellationsAreNotLost' /\ (TRUE \notin RefusedCancellations => WorkHasAnOwner')
    BY <1>1, <2>1, Zenon DEF Consistent, CancellationsAreNotLost, WorkHasAnOwner, Alive
  <2> QED BY <2>2, <2>3, <2>4, <2>5, <2>6, <2>7, Zenon DEF Consistent
<1> QED BY <1>2, <1>3, <1>4, ZenonT(30) DEF IInv

LEMMA GiveUpKeeps ==
  ASSUME IInv, NEW c \in Clients, Timeout(c) \/ Disconnected(c) PROVE IInv'
<1>1. /\ conn[c] = "waiting" /\ conn' = [conn EXCEPT ![c] = "done"] /\ cancel(c)
      /\ pc' = pc /\ channel' = channel
      /\ UNCHANGED <<got, owners, commands, polls, drained, closing, active,
                     pending_admissions, coordinator, generated, events>>
  BY ZenonT(30) DEF Timeout, Disconnected, GiveUp, Answer, queue, loop, requests, serving
<1>2. channel' \in [Clients -> Seq(Completion)]
  BY <1>1 DEF IInv, TypeOK
<1> QED BY <1>1, <1>2, LeaveKeeps, Zenon

LEMMA ReceiveKeeps ==
  ASSUME IInv, NEW c \in Clients, Receive(c) PROVE IInv'
<1>1. /\ conn[c] = "waiting" /\ channel[c] # <<>> /\ pc' = pc
      /\ channel' = [channel EXCEPT ![c] = Tail(channel[c])]
      /\ UNCHANGED <<owners, commands, polls, drained, closing, active, pending_admissions,
                     coordinator, generated, events>>
  BY Zenon DEF Receive, queue, loop, requests, serving
<1>2. /\ TypeOK /\ channel \in [Clients -> Seq(Completion)] /\ channel[c] \in Seq(Completion)
      /\ got \in [Clients -> Nat]
  BY ZenonT(30) DEF IInv, TypeOK
<1>3. /\ channel' \in [Clients -> Seq(Completion)] /\ channel'[c] = Tail(channel[c])
      /\ \A d \in Clients \ {c} : channel'[d] = channel[d]
  BY <1>1, <1>2
<1>4. /\ Len(channel'[c]) = Len(channel[c]) - 1 /\ Len(channel[c]) \in Nat \ {0}
      /\ \A i \in DOMAIN channel'[c] :
           /\ i \in Nat /\ i + 1 \in DOMAIN channel[c]
           /\ channel'[c][i] = channel[c][i + 1]
  BY <1>1, <1>2, <1>3
<1>5. CASE conn' = [conn EXCEPT ![c] = "done"] /\ got' = got
  <2>1. cancel(c) \/ cancellations' = cancellations
    BY <1>5 DEF Receive, GiveUp
  <2>2. \A i \in DOMAIN channel'[c] : channel'[c][i].kind = "Finished" =>
          \E j \in DOMAIN channel[c] : channel[c][j].kind = "Finished"
    BY <1>4, Zenon
  <2> QED BY <1>1, <1>3, <1>5, <2>1, <2>2, LeaveKeeps, Zenon
<1>6. CASE got' = [got EXCEPT ![c] = got[c] + 1] /\ UNCHANGED <<conn, cancellations>>
  <2>1. TypeOK'
    <3>1. got' \in [Clients -> Nat]
      BY <1>2, <1>6
    <3> QED BY <1>1, <1>2, <1>3, <1>6, <3>1, Zenon DEF TypeOK
  <2>2. FinishedIsTold'
    <3> SUFFICES ASSUME NEW d \in Clients, NEW i \in DOMAIN channel'[d],
                        channel'[d][i].kind = "Finished"
                 PROVE  /\ conn'[d] \in {"waiting", "done"}
                        /\ conn'[d] = "waiting" => channel'[d][i].texts = got'[d] + i - 1
      BY SMTT(30) DEF FinishedIsTold
    <3>1. CASE d = c
      <4>1. /\ channel[c][i + 1].kind = "Finished" /\ i \in Nat /\ i + 1 \in DOMAIN channel[c]
            /\ channel'[c][i] = channel[c][i + 1]
        BY <1>4, <3>1, ZenonT(30)
      <4>2. channel[c][i + 1].texts = got[c] + (i + 1) - 1
        BY <1>1, <4>1 DEF IInv, FinishedIsTold
      <4>3. got'[c] = got[c] + 1 /\ got[c] \in Nat
        BY <1>2, <1>6, ZenonT(30)
      <4> QED BY <1>1, <1>6, <3>1, <4>1, <4>2, <4>3, SMTT(30)
    <3>2. CASE d # c
      BY <1>2, <1>3, <1>6, <3>2, ZenonT(30) DEF IInv, FinishedIsTold
    <3> QED BY <3>1, <3>2, SMTT(30)
  <2>3. ASSUME Alive' PROVE Consistent'
    <3>1. Alive /\ Consistent
      BY <1>1, <2>3, ZenonT(30) DEF IInv, Alive
    <3>2. OwnersAreAccountedFor' /\ OnePlace'
      BY <1>1, <3>1, ZenonT(30) DEF Consistent, OwnersAreAccountedFor, OnePlace, Queued, Alive
    <3>3. Unsubmitted'
      <4>1. \A d \in Clients : conn[d] \in {"idle", "queued", "checked"} =>
              channel'[d] = channel[d] /\ got'[d] = got[d]
        BY <1>1, <1>2, <1>3, <1>6, ZenonT(30)
      <4>2. Queued' = Queued /\ conn' = conn
        BY <1>1, <1>6, Zenon DEF Queued
      <4> QED BY <1>1, <1>6, <3>1, <4>1, <4>2, ZenonT(30) DEF Consistent, Unsubmitted
    <3>4. c \notin Queued /\ Queued \subseteq Clients
      <4>1. c \notin Queued
        BY <1>1, <3>1, Zenon DEF Consistent, QueuedIsFresh
      <4>2. commands \in Seq(Clients)
        BY <1>2, Zenon DEF TypeOK
      <4> QED BY <4>1, <4>2 DEF Queued, Range
    <3>5. QueuedIsFresh'
      BY <1>1, <1>2, <1>3, <1>6, <3>1, <3>4, ZenonT(30) DEF Consistent, QueuedIsFresh, Queued
    <3>6. PolledIsPending'
      BY <1>1, <3>1, SMTT(30) DEF Consistent, PolledIsPending
    <3>7. TextsAreCounted'
      <4>0. active' = active /\ conn' = conn
        BY <1>1, <1>6, Zenon
      <4> SUFFICES ASSUME NEW d \in DOMAIN active, conn[d] = "waiting"
                   PROVE  /\ active[d].texts = got'[d] + Len(channel'[d])
                          /\ \A i \in DOMAIN channel'[d] : channel'[d][i].kind # "Finished"
        BY <4>0, ZenonT(30) DEF TextsAreCounted
      <4>1. /\ active[d].texts = got[d] + Len(channel[d]) /\ d \in Clients
            /\ \A i \in DOMAIN channel[d] : channel[d][i].kind # "Finished"
        BY <1>2, <3>1, ZenonT(30) DEF Consistent, TextsAreCounted, TypeOK
      <4>2. CASE d = c
        <5>1. got'[c] = got[c] + 1 /\ got[c] \in Nat
          BY <1>2, <1>6, SMTT(30)
        <5>2. \A i \in DOMAIN channel'[c] : channel'[c][i].kind # "Finished"
          BY <1>4, <4>1, <4>2, ZenonT(30)
        <5>3. got[c] + Len(channel[c]) = (got[c] + 1) + (Len(channel[c]) - 1)
          BY <1>4, <5>1, ReadingAddsUp, Zenon
        <5>4. active[c].texts = got'[c] + Len(channel'[c])
          BY <1>4, <4>1, <4>2, <5>1, <5>3, Zenon
        <5> QED BY <4>2, <5>2, <5>4, Zenon
      <4>3. CASE d # c
        BY <1>2, <1>3, <1>6, <4>1, <4>3, ZenonT(30)
      <4> QED BY <4>2, <4>3, ZenonT(30)
    <3>8. EventsAreDue'
      BY <1>1, <3>1 DEF Consistent, EventsAreDue, EventIsDue
    <3>9. CancellationsAreNotLost' /\ (TRUE \notin RefusedCancellations => WorkHasAnOwner')
      BY <1>1, <1>6, <3>1, Zenon DEF Consistent, CancellationsAreNotLost, WorkHasAnOwner, Alive
    <3> QED BY <3>2, <3>3, <3>5, <3>6, <3>7, <3>8, <3>9, Zenon DEF Consistent
  <2> QED BY <2>1, <2>2, <2>3 DEF IInv
<1> QED BY <1>5, <1>6, SMTT(30) DEF Receive, GiveUp, Answer

LEMMA DeleteKeeps ==
  ASSUME IInv, NEW c \in Clients, Delete(c) PROVE IInv'
<1>1. /\ c \in owners /\ cancel(c) /\ pc' = pc
      /\ UNCHANGED <<conn, got, owners, commands, channel, polls, drained, closing, active,
                     pending_admissions, coordinator, generated, events>>
  BY DEF Delete, http, queue, channels, loop, requests, serving
<1>2. /\ DOMAIN cancellations' \subseteq DOMAIN cancellations \cup {c}
      /\ \A d \in DOMAIN cancellations' :
              \/ d \in DOMAIN cancellations /\ cancellations'[d] = cancellations[d]
              \/ cancellations'[d] = "Requested"
  BY <1>1, CancelAdds, SMTT(30)
<1>3. TypeOK' /\ FinishedIsTold'
  BY <1>1, <1>2, ZenonT(30) DEF IInv, TypeOK, FinishedIsTold
<1>4. ASSUME Alive' PROVE Consistent'
  <2>1. Alive /\ Consistent
    BY <1>1, <1>4 DEF IInv, Alive
  <2>2. c \in Queued \cup DOMAIN active \/ (closing # NONE /\ closing.id = c)
    BY <1>1, <2>1, ZenonT(30) DEF Consistent, OwnersAreAccountedFor, Queued
  <2>3. OwnersAreAccountedFor' /\ OnePlace'
    BY <1>1, <2>1, ZenonT(30) DEF Consistent, OwnersAreAccountedFor, OnePlace, Queued, Alive
  <2>4. Unsubmitted'
    BY <1>1, <1>2, <2>1, <2>2, ZenonT(30) DEF Consistent, Unsubmitted, Queued
  <2>5. QueuedIsFresh'
    BY <1>1, <1>2, <2>1, ZenonT(30) DEF Consistent, QueuedIsFresh, Queued
  <2>6. PolledIsPending' /\ TextsAreCounted'
    BY <1>1, <2>1, ZenonT(30) DEF Consistent, PolledIsPending, TextsAreCounted
  <2>7. EventsAreDue'
    BY <1>1, <2>1, SMTT(30) DEF Consistent, EventsAreDue, EventIsDue
  <2>8. CancellationsAreNotLost' /\ (TRUE \notin RefusedCancellations => WorkHasAnOwner')
    BY <1>1, <1>2, <2>1, ZenonT(30) DEF Consistent, CancellationsAreNotLost, WorkHasAnOwner, Alive
  <2> QED BY <2>3, <2>4, <2>5, <2>6, <2>7, <2>8, Zenon DEF Consistent
<1> QED BY <1>3, <1>4 DEF IInv
-----------------------------------------------------------------------------
(* The runtime thread: steps that leave the requests alone.                *)

LEMMA LoopKeeps ==
  ASSUME IInv, Turn \/ CommandsTaken \/ TurnOver \/ IdleTimeout \/ Drop \/ EventCancellationFails
  PROVE  IInv'
<1>1. UNCHANGED Kept
  BY DEF Kept, Turn, CommandsTaken, TurnOver, IdleTimeout, Drop, EventCancellationFails, Die,
         Untouched, http, shared, queue, channels, loop, requests, serving
<1>2. Alive' => Alive
  BY ZenonT(30) DEF Alive, Turn, CommandsTaken, TurnOver, IdleTimeout, Drop, EventCancellationFails, Die,
         Dispatching, Goto, loop
<1>3. pc' = pc \/ pc' # "idle" \/ closing = NONE
  BY ZenonT(30) DEF Turn, CommandsTaken, TurnOver, IdleTimeout, Drop, EventCancellationFails, Die, Goto, loop
<1>4. Alive' => pc' = pc \/ pc # "polls"
  BY ZenonT(30) DEF Alive, Turn, CommandsTaken, TurnOver, IdleTimeout, Drop, EventCancellationFails, Die,
         Dispatching, Goto, loop
<1>5. ASSUME Alive' PROVE (pc = "idle" => closing = NONE) /\ (polls # {} => pc = "polls")
  BY <1>2, <1>5 DEF IInv, Consistent, OnePlace, PolledIsPending
<1> QED BY <1>1, <1>2, <1>3, <1>4, <1>5, ControlKeeps, ZenonT(30)

LEMMA SettleKeeps ==
  ASSUME IInv, Settle PROVE IInv'
<1>1. /\ closing # NONE /\ owners' = owners \ {closing.id} /\ closing' = NONE /\ pc' = pc
      /\ UNCHANGED <<conn, got, cancellations, commands, channel, polls, drained, active,
                     pending_admissions, coordinator, generated, events>>
  BY ZenonT(30) DEF Settle, http, queue, requests, serving
<1>2. TypeOK' /\ FinishedIsTold'
  BY <1>1 DEF IInv, TypeOK, FinishedIsTold
<1>3. ASSUME Alive' PROVE Consistent'
  <2>1. Alive /\ Consistent
    BY <1>1, <1>3, ZenonT(30) DEF IInv, Alive
  <2>2. OwnersAreAccountedFor' /\ OnePlace'
    BY <1>1, <2>1, SMTT(30) DEF Consistent, OwnersAreAccountedFor, OnePlace, Queued, Alive
  <2>3. Unsubmitted' /\ QueuedIsFresh'
    BY <1>1, <2>1, ZenonT(30) DEF Consistent, Unsubmitted, QueuedIsFresh, Queued
  <2>4. PolledIsPending' /\ TextsAreCounted'
    BY <1>1, <2>1, ZenonT(30) DEF Consistent, PolledIsPending, TextsAreCounted
  <2>5. EventsAreDue'
    BY <1>1, <2>1, SMTT(30) DEF Consistent, EventsAreDue, EventIsDue
  <2>6. CancellationsAreNotLost' /\ (TRUE \notin RefusedCancellations => WorkHasAnOwner')
    BY <1>1, <2>1, Zenon DEF Consistent, CancellationsAreNotLost, WorkHasAnOwner, Alive
  <2> QED BY <2>2, <2>3, <2>4, <2>5, <2>6, Zenon DEF Consistent
<1> QED BY <1>2, <1>3, ZenonT(30) DEF IInv

LEMMA PruneKeeps ==
  ASSUME IInv, PruneCancellation PROVE IInv'
<1>1. /\ \E id : cancellations' = Without(cancellations, id)
      /\ pc' = pc
      /\ UNCHANGED <<conn, got, owners, commands, channel, polls, drained, closing, active,
                     pending_admissions, coordinator, generated, events>>
  BY DEF PruneCancellation, http, queue, channels, requests, serving
<1>2. /\ DOMAIN cancellations' \subseteq DOMAIN cancellations
      /\ \A c \in DOMAIN cancellations' : cancellations'[c] = cancellations[c]
  BY <1>1, ZenonT(30) DEF Without
<1>3. TypeOK' /\ FinishedIsTold'
  BY <1>1, <1>2, ZenonT(30) DEF IInv, TypeOK, FinishedIsTold
<1>4. ASSUME Alive' PROVE Consistent'
  <2>1. Alive /\ Consistent
    BY <1>1, <1>4, ZenonT(30) DEF IInv, Alive
  <2>2. OwnersAreAccountedFor' /\ OnePlace'
    BY <1>1, <2>1, SMTT(30) DEF Consistent, OwnersAreAccountedFor, OnePlace, Queued, Alive
  <2>3. Unsubmitted' /\ QueuedIsFresh'
    BY <1>1, <1>2, <2>1, ZenonT(30) DEF Consistent, Unsubmitted, QueuedIsFresh, Queued
  <2>4. PolledIsPending' /\ TextsAreCounted'
    BY <1>1, <2>1, ZenonT(30) DEF Consistent, PolledIsPending, TextsAreCounted
  <2>5. EventsAreDue'
    BY <1>1, <2>1, SMTT(30) DEF Consistent, EventsAreDue, EventIsDue
  <2>6. CancellationsAreNotLost' /\ (TRUE \notin RefusedCancellations => WorkHasAnOwner')
    BY <1>1, <1>2, <2>1, Zenon DEF Consistent, CancellationsAreNotLost, WorkHasAnOwner, Alive
  <2> QED BY <2>2, <2>3, <2>4, <2>5, <2>6, Zenon DEF Consistent
<1> QED BY <1>3, <1>4 DEF IInv

\* Progress of a prefill is counted, and changes nothing else.
PrefillIsCounted ==
    /\ Dispatching("PrefillProgress") /\ drained' = Tail(drained)
    /\ UNCHANGED <<conn, got, owners, cancellations, commands, channel, polls, closing, active, pc,
                   pending_admissions, coordinator, generated, events>>

\* The events pass from the coordinator to the runtime, the polls are drawn
\* up, or an event that nobody waits for or that is only counted is dropped.
LEMMA EventsPass ==
  ASSUME IInv,
         \/ CancellationsTaken \/ AdmissionEvents \/ StepEvents \/ SkipEvent
         \/ PrefillIsCounted
  PROVE  IInv'
<1>1. /\ UNCHANGED <<conn, got, owners, cancellations, commands, channel, closing, active,
                     coordinator, generated>>
      /\ closing = NONE
      /\ Alive /\ pc' # "idle"
      /\ pending_admissions' \subseteq pending_admissions
  <2>1. CASE CancellationsTaken
    BY <2>1, ZenonT(30) DEF CancellationsTaken, Goto, Alive, http, shared, queue, channels, requests, serving
  <2>2. CASE AdmissionEvents
    BY <2>2, ZenonT(30) DEF AdmissionEvents, drain_events, Goto, Alive, http, shared, queue, channels, requests
  <2>3. CASE StepEvents
    BY <2>3, ZenonT(30) DEF StepEvents, drain_events, Goto, Alive, http, shared, queue, channels, requests
  <2>4. CASE SkipEvent
    BY <2>4 DEF SkipEvent, Alive, http, shared, queue, channels, serving
  <2>5. CASE PrefillIsCounted
    BY <2>5 DEF PrefillIsCounted, Dispatching, Alive
  <2> QED BY <2>1, <2>2, <2>3, <2>4, <2>5, ZenonT(30)
<1>2. TypeOK /\ Consistent
  BY <1>1 DEF IInv
<1>3. polls' \subseteq pending_admissions' /\ (polls' # {} => pc' = "polls")
  <2>1. CASE CancellationsTaken
    BY <2>1, SMTT(30) DEF CancellationsTaken, Goto, requests
  <2>2. CASE AdmissionEvents \/ StepEvents
    BY <1>2, <2>2, ZenonT(30) DEF AdmissionEvents, StepEvents, drain_events, requests, Consistent,
                      PolledIsPending
  <2>3. CASE SkipEvent
    BY <1>2, <2>3, ZenonT(30) DEF SkipEvent, Consistent, PolledIsPending
  <2>4. CASE PrefillIsCounted
    BY <1>2, <2>4, ZenonT(30) DEF PrefillIsCounted, Consistent, PolledIsPending
  <2> QED BY <2>1, <2>2, <2>3, <2>4, ZenonT(30)
<1>4. /\ events' \in Seq(RequestEvent) /\ drained' \in Seq(RequestEvent)
      /\ \A i \in DOMAIN events' : EventIsDue(events'[i])
      /\ \A i \in DOMAIN drained' : EventIsDue(drained'[i])
  <2>1. CASE CancellationsTaken
    BY <1>2, <2>1, ZenonT(30) DEF CancellationsTaken, serving, TypeOK, Consistent, EventsAreDue
  <2>2. CASE AdmissionEvents \/ StepEvents
    <3>1. drained' = events /\ events' = <<>>
      BY <2>2 DEF AdmissionEvents, StepEvents, drain_events
    <3>2. events' \in Seq(RequestEvent) /\ DOMAIN events' = {}
      BY <3>1, EmptyList, Zenon
    <3> QED BY <1>2, <3>1, <3>2, ZenonT(30) DEF TypeOK, Consistent, EventsAreDue
  <2>3. CASE SkipEvent \/ PrefillIsCounted
    <3>1. events' = events /\ drained # <<>> /\ drained' = Tail(drained)
      BY <2>3, ZenonT(30) DEF SkipEvent, PrefillIsCounted, Dispatching, serving
    <3>2. /\ drained' \in Seq(RequestEvent)
          /\ \A i \in DOMAIN drained' : i + 1 \in DOMAIN drained /\ drained'[i] = drained[i + 1]
      BY <1>2, <3>1, ShorterList, ZenonT(30) DEF TypeOK
    <3> QED BY <1>2, <3>1, <3>2, ZenonT(30) DEF TypeOK, Consistent, EventsAreDue
  <2> QED BY <2>1, <2>2, <2>3, SMTT(30)
<1>5. TypeOK' /\ FinishedIsTold'
  BY <1>1, <1>2, <1>3, <1>4, ZenonT(30) DEF IInv, TypeOK, FinishedIsTold
<1>6. OwnersAreAccountedFor' /\ OnePlace'
  <2>1. Queued' = Queued /\ commands' = commands /\ active' = active /\ closing' = closing /\ owners' = owners
    BY <1>1, Zenon DEF Queued
  <2>2. OwnersAreAccountedFor'
    BY <1>1, <1>2, <2>1, Zenon DEF Consistent, OwnersAreAccountedFor
  <2>3. OnePlace'
    BY <1>1, <1>2, <2>1, Zenon DEF Consistent, OnePlace
  <2> QED BY <2>2, <2>3, Zenon
<1>7. Unsubmitted' /\ QueuedIsFresh'
  BY <1>1, <1>2, ZenonT(30) DEF Consistent, Unsubmitted, QueuedIsFresh, Queued
<1>8. PolledIsPending' /\ TextsAreCounted'
  BY <1>1, <1>2, <1>3, ZenonT(30) DEF Consistent, PolledIsPending, TextsAreCounted
<1>9. EventsAreDue'
  <2>1. coordinator' = coordinator
    BY <1>1, Zenon
  <2> QED BY <1>4, <2>1, Zenon DEF EventsAreDue, EventIsDue
<1>10. CancellationsAreNotLost' /\ (TRUE \notin RefusedCancellations => WorkHasAnOwner')
  BY <1>1, <1>2, ZenonT(30) DEF Consistent, CancellationsAreNotLost, WorkHasAnOwner
<1> QED BY <1>5, <1>6, <1>7, <1>8, <1>9, <1>10, ZenonT(30) DEF IInv, Consistent

-----------------------------------------------------------------------------
(* The runtime thread: requests come and go.                               *)

\* A request taken from the queue becomes active, or is refused and closed.
LEMMA TakeKeeps ==
  ASSUME IInv, process_submit, Alive, closing = NONE, polls = {}, pc' # "idle"
  PROVE  IInv'
<1>1. /\ commands # <<>> /\ commands' = Tail(commands) /\ polls' = {}
      /\ UNCHANGED <<conn, got, owners, cancellations, drained, generated>>
  BY DEF process_submit, http, shared
<1>2. TypeOK /\ Consistent /\ FinishedIsTold
  BY DEF IInv
<1>3. PICK id : id = Head(commands)
  BY Zenon
<1>4. /\ id \in Clients /\ commands' \in Seq(Clients)
      /\ Queued = Queued' \cup {id} /\ id \notin Queued'
      /\ \A i, j \in DOMAIN commands' : commands'[i] = commands'[j] => i = j
  BY <1>1, <1>2, <1>3, TailLists, ZenonT(30) DEF TypeOK, Consistent, OnePlace, Queued
<1>5. /\ id \notin DOMAIN active
      /\ coordinator[id] = "none" /\ channel[id] = <<>> /\ got[id] = 0
      /\ id \in DOMAIN cancellations => cancellations[id] # "Dispatched"
      /\ conn[id] \notin {"idle", "queued", "checked"}
  BY <1>2, <1>4, ZenonT(30) DEF Consistent, OnePlace, QueuedIsFresh, Unsubmitted
<1>6. ASSUME NEW e \in RequestEvent, EventIsDue(e) PROVE e.id # id /\ e.id \in Clients
  BY <1>5, <1>6, ZenonT(30) DEF EventIsDue, RequestEvent
<1>9. Queued \subseteq Clients
  BY <1>2 DEF TypeOK, Queued, Range
<1>7. CASE /\ active' = With(active, id, NewRequest)
           /\ UNCHANGED <<closing, channel>>
           /\ \/ /\ coordinator' = [coordinator EXCEPT ![id] = "running"]
                 /\ events' = Append(events, [kind |-> "Admitted", id |-> id])
                 /\ pending_admissions' = pending_admissions
              \/ /\ coordinator' = [coordinator EXCEPT ![id] = "pending"]
                 /\ pending_admissions' = pending_admissions \cup {id}
                 /\ events' = events
  <2>1. /\ DOMAIN active' = DOMAIN active \cup {id} /\ active'[id] = NewRequest
        /\ \A c \in DOMAIN active : active'[c] = active[c]
        /\ NewRequest \in Request /\ NewRequest.texts = 0
    BY <1>5, <1>7 DEF With, NewRequest, Request
  <2>2. /\ coordinator' \in [Clients -> {"none", "pending", "running", "cancelling", "over"}]
        /\ coordinator'[id] \in {"pending", "running"}
        /\ \A c \in Clients \ {id} : coordinator'[c] = coordinator[c]
        /\ pending_admissions \subseteq pending_admissions'
        /\ pending_admissions' \subseteq pending_admissions \cup {id}
        /\ id \in pending_admissions' \ pending_admissions => coordinator'[id] = "pending"
    BY <1>2, <1>4, <1>7, ZenonT(30) DEF TypeOK
  <2>3. /\ events' \in Seq(RequestEvent)
        /\ \A i \in DOMAIN events' :
             \/ i \in DOMAIN events /\ events'[i] = events[i]
             \/ /\ events'[i] = [kind |-> "Admitted", id |-> id]
                /\ coordinator'[id] = "running"
    <3>1. [kind |-> "Admitted", id |-> id] \in RequestEvent /\ events \in Seq(RequestEvent)
      BY <1>2, <1>4, ZenonT(30) DEF RequestEvent, TypeOK
    <3>2. coordinator \in [Clients -> {"none", "pending", "running", "cancelling", "over"}]
      BY <1>2, ZenonT(30) DEF TypeOK
    <3>3. CASE events' = events
      BY <3>1, <3>3, ZenonT(30)
    <3>4. CASE /\ events' = Append(events, [kind |-> "Admitted", id |-> id])
               /\ coordinator' = [coordinator EXCEPT ![id] = "running"]
      <4>1. coordinator'[id] = "running"
        BY <1>4, <3>2, <3>4, SMTT(30)
      <4> QED BY <3>1, <3>4, <4>1, SMTT(30)
    <3> QED BY <1>7, <3>3, <3>4, Zenon
  <2>4. TypeOK'
    BY <1>1, <1>2, <1>4, <1>7, <2>1, <2>2, <2>3, ZenonT(90) DEF TypeOK
  <2>5. FinishedIsTold'
    BY <1>1, <1>2, <1>7, Zenon DEF FinishedIsTold
  <2>6. OwnersAreAccountedFor' /\ OnePlace'
    <3>1. owners = Queued \cup DOMAIN active
      BY <1>2, Zenon DEF Consistent, OwnersAreAccountedFor, Queued
    <3>2. owners' = Queued' \cup DOMAIN active' /\ closing' = NONE
      BY <1>1, <1>4, <1>7, <2>1, <3>1, Zenon
    <3>3. OwnersAreAccountedFor'
      BY <3>2, Zenon DEF OwnersAreAccountedFor, Queued
    <3>4. Queued \cap DOMAIN active = {}
      BY <1>2, Zenon DEF Consistent, OnePlace
    <3>5. Queued' \cap DOMAIN active' = {}
      BY <1>4, <2>1, <3>4, Zenon
    <3>6. OnePlace'
      BY <1>4, <3>2, <3>5, Zenon DEF OnePlace
    <3> QED BY <3>3, <3>6
  <2>7. Unsubmitted' /\ QueuedIsFresh'
    <3>1. Unsubmitted'
      BY <1>1, <1>2, <1>4, <1>5, <1>7, <2>1, <2>2, Zenon DEF Consistent, Unsubmitted
    <3>2. QueuedIsFresh'
      BY <1>1, <1>2, <1>4, <1>7, <1>9, <2>2, ZenonT(30) DEF Consistent, QueuedIsFresh
    <3> QED BY <3>1, <3>2
  <2>8. PolledIsPending'
    <3>1. /\ \A c \in pending_admissions : coordinator[c] = "pending" /\ c \in DOMAIN active
          /\ pending_admissions \subseteq Clients
      BY <1>2, Zenon DEF Consistent, PolledIsPending, TypeOK
    <3>2. ASSUME NEW c \in pending_admissions' PROVE coordinator'[c] = "pending" /\ c \in DOMAIN active'
      <4>1. CASE c = id
        BY <1>5, <2>1, <2>2, <3>1, <4>1, ZenonT(30)
      <4>2. CASE c # id
        BY <2>1, <2>2, <3>1, <4>2, ZenonT(30)
      <4> QED BY <4>1, <4>2, SMTT(30)
    <3> QED BY <1>1, <3>2, Zenon DEF PolledIsPending
  <2>9. TextsAreCounted'
    <3> SUFFICES ASSUME NEW c \in DOMAIN active', conn[c] = "waiting"
                 PROVE  /\ active'[c].texts = got[c] + Len(channel[c])
                        /\ \A i \in DOMAIN channel[c] : channel[c][i].kind # "Finished"
      BY <1>1, <1>7, ZenonT(30) DEF TextsAreCounted
    <3>1. CASE c = id
      <4>1. active'[id].texts = 0
        BY <2>1, ZenonT(30) DEF NewRequest
      <4> QED BY <1>5, <3>1, <4>1, EmptyList, ZenonT(30)
    <3>2. CASE c \in DOMAIN active
      BY <1>2, <2>1, <3>2, ZenonT(30) DEF Consistent, TextsAreCounted
    <3> QED BY <2>1, <3>1, <3>2, ZenonT(30)
  <2>10. EventsAreDue'
    <3>1. ASSUME NEW e \in RequestEvent, EventIsDue(e)
          PROVE  coordinator'[e.id] = coordinator[e.id]
      BY <1>6, <2>2, <3>1, ZenonT(30)
    <3>2. \A i \in DOMAIN drained : /\ EventIsDue(drained[i])
                                     /\ coordinator'[drained[i].id] = coordinator[drained[i].id]
      BY <1>2, <3>1, ListIs, ZenonT(30) DEF Consistent, EventsAreDue, TypeOK
    <3>3. \A i \in DOMAIN events : /\ EventIsDue(events[i])
                                    /\ coordinator'[events[i].id] = coordinator[events[i].id]
      BY <1>2, <3>1, ListIs, ZenonT(30) DEF Consistent, EventsAreDue, TypeOK
    <3>4. \A i \in DOMAIN drained' : EventIsDue(drained[i])'
      BY <1>1, <3>2, ZenonT(30) DEF EventIsDue
    <3>5. ASSUME NEW i \in DOMAIN events' PROVE EventIsDue(events[i])'
      <4>1. CASE i \in DOMAIN events /\ events'[i] = events[i]
        BY <3>3, <4>1, ZenonT(30) DEF EventIsDue
      <4>2. CASE events'[i] = [kind |-> "Admitted", id |-> id] /\ coordinator'[id] = "running"
        BY <4>2, SMTT(30) DEF EventIsDue, Terminal
      <4> QED BY <2>3, <4>1, <4>2, SMTT(30)
    <3> QED BY <3>4, <3>5, SMTT(30) DEF EventsAreDue
  <2>11. CancellationsAreNotLost' /\ (TRUE \notin RefusedCancellations => WorkHasAnOwner')
    BY <1>1, <1>2, <1>5, <2>1, <2>2, ZenonT(30) DEF Consistent, CancellationsAreNotLost, WorkHasAnOwner, TypeOK
  <2> QED BY <2>4, <2>5, <2>6, <2>7, <2>8, <2>9, <2>10, <2>11, ZenonT(30) DEF IInv, Consistent
<1>8. CASE fail_request(id) /\ UNCHANGED <<pending_admissions, coordinator, events>>
  <2>1. /\ DOMAIN active' = DOMAIN active
        /\ \A c \in DOMAIN active' : active'[c] = active[c]
        /\ closing' = [id |-> id, counts |-> {"failed"}] /\ closing' \in Closing /\ closing' # NONE
        /\ closing'.id = id
    <3>1. active' = Without(active, id) /\ closing' = [id |-> id, counts |-> {"failed"}]
      BY <1>8 DEF fail_request, Close
    <3>2. closing' \in Closing /\ closing'.id = id
      BY <1>4, <3>1, ZenonT(30) DEF Closing, Counters
    <3> QED BY <1>5, <3>1, <3>2, NoneIsNoRequest, Zenon DEF Without
  <2>2. /\ channel' \in [Clients -> Seq(Completion)]
        /\ \A c \in Clients \ {id} : channel'[c] = channel[c]
        /\ \A i \in DOMAIN channel'[id] : channel'[id][i].kind = "Finished" =>
             i \in DOMAIN channel[id] /\ channel'[id][i] = channel[id][i]
    <3>1. try_send(id, Failure) /\ Failure \in Completion /\ Failure.kind # "Finished"
      BY <1>8, SMTT(30) DEF fail_request, Failure, Completion
    <3> QED BY <1>2, <1>4, <3>1, SendTells, ZenonT(30)
  <2>3. TypeOK'
    BY <1>1, <1>2, <1>4, <1>8, <2>1, <2>2, Zenon DEF TypeOK
  <2>4. FinishedIsTold'
    <3>1. \A c \in Clients : \A i \in DOMAIN channel'[c] : channel'[c][i].kind = "Finished" =>
            i \in DOMAIN channel[c] /\ channel'[c][i] = channel[c][i]
      BY <2>2, Zenon
    <3> QED BY <1>1, <1>2, <3>1, ZenonT(30) DEF FinishedIsTold
  <2>5. OwnersAreAccountedFor' /\ OnePlace'
    <3>1. owners = Queued \cup DOMAIN active
      BY <1>2 DEF Consistent, OwnersAreAccountedFor, Queued
    <3>2. OwnersAreAccountedFor'
      BY <1>1, <1>4, <2>1, <3>1, Zenon DEF OwnersAreAccountedFor, Queued
    <3>3. Queued' \cap DOMAIN active' = {}
      BY <1>2, <1>4, <2>1, Zenon DEF Consistent, OnePlace
    <3>4. OnePlace'
      BY <1>4, <1>5, <2>1, <3>3, ZenonT(30) DEF OnePlace
    <3> QED BY <3>2, <3>4
  <2>6. Unsubmitted' /\ QueuedIsFresh'
    <3>1. Unsubmitted'
      BY <1>1, <1>2, <1>4, <1>5, <1>8, <2>1, <2>2, ZenonT(30) DEF Consistent, Unsubmitted
    <3>2. QueuedIsFresh'
      BY <1>1, <1>2, <1>4, <1>8, <1>9, <2>2, ZenonT(30) DEF Consistent, QueuedIsFresh
    <3> QED BY <3>1, <3>2
  <2>7. PolledIsPending' /\ TextsAreCounted'
    <3>1. PolledIsPending'
      BY <1>1, <1>2, <1>8, <2>1, ZenonT(30) DEF Consistent, PolledIsPending
    <3>2. \A c \in DOMAIN active : c \in Clients \ {id}
      BY <1>2, <1>5, ZenonT(30) DEF TypeOK
    <3>3. TextsAreCounted'
      <4>1. \A c \in DOMAIN active' : /\ c \in DOMAIN active /\ active'[c] = active[c]
                                       /\ conn'[c] = conn[c] /\ got'[c] = got[c]
                                       /\ channel'[c] = channel[c]
        BY <1>1, <2>1, <2>2, <3>2, ZenonT(30)
      <4> QED BY <1>2, <4>1, ZenonT(30) DEF Consistent, TextsAreCounted
    <3> QED BY <3>1, <3>3
  <2>8. EventsAreDue'
    BY <1>1, <1>2, <1>8, SMTT(30) DEF Consistent, EventsAreDue, EventIsDue
  <2>9. CancellationsAreNotLost' /\ (TRUE \notin RefusedCancellations => WorkHasAnOwner')
    BY <1>1, <1>2, <1>8, <2>1, ZenonT(30) DEF Consistent, CancellationsAreNotLost, WorkHasAnOwner
  <2> QED BY <2>3, <2>4, <2>5, <2>6, <2>7, <2>8, <2>9, Zenon DEF IInv, Consistent
<1> QED BY <1>3, <1>7, <1>8, ZenonT(30) DEF process_submit

\* What a request leaves in its channel when it ends: a last event says how
\* many texts the client has read or finds before it.
Told(id) ==
    /\ channel' \in [Clients -> Seq(Completion)]
    /\ \A c \in Clients \ {id} : channel'[c] = channel[c]
    /\ \A i \in DOMAIN channel'[id] : channel'[id][i].kind = "Finished" /\ conn[id] = "waiting" =>
         channel'[id][i].texts = got[id] + i - 1

\* Events left to dispatch were there before.
Drains ==
    /\ drained' \in Seq(RequestEvent)
    /\ \A i \in DOMAIN drained' : \E j \in DOMAIN drained : drained'[i] = drained[j]

\* Request id leaves the active map, and the coordinator has been told to end
\* it unless it refused.
Closes(id) ==
    /\ closing = NONE /\ pc' = pc /\ pc # "idle" /\ id \in DOMAIN active
    /\ \E names \in SUBSET Counters : Close(id, names)
    /\ UNCHANGED <<conn, got, owners, commands, events, generated>>
    /\ Told(id) /\ Drains
    /\ coordinator' \in [Clients -> {"none", "pending", "running", "cancelling", "over"}]
    /\ \A c \in Clients \ {id} : coordinator'[c] = coordinator[c]
    /\ coordinator'[id] \in {"cancelling", "over", coordinator[id]}
    /\ TRUE \notin RefusedCancellations => coordinator'[id] \notin {"pending", "running"}
    /\ polls' \subseteq polls /\ polls' \subseteq pending_admissions'
    /\ pending_admissions' \subseteq pending_admissions /\ id \notin pending_admissions'
    /\ DOMAIN cancellations' = DOMAIN cancellations
    /\ \A c \in DOMAIN cancellations \ {id} : cancellations'[c] = cancellations[c]

\* Request id goes on as r, with one more text in its channel or none.
Continues(id, r) ==
    /\ pc' = pc /\ id \in DOMAIN active /\ r \in Request /\ active' = [active EXCEPT ![id] = r]
    /\ \/ r.texts = active[id].texts /\ channel' = channel
       \/ /\ r.texts = active[id].texts + 1
          /\ channel' = [channel EXCEPT ![id] = Append(channel[id], [kind |-> "TextDelta"])]
    /\ Drains
    /\ UNCHANGED <<conn, got, owners, cancellations, commands, polls, closing,
                   pending_admissions, coordinator, events, generated>>

\* What the last event of a request leaves of its channel: it says how many
\* texts the client has read or finds before it.
LEMMA FinishTells ==
  ASSUME TypeOK, NEW id \in Clients, NEW texts \in Nat, NEW flushed \in Seq(Completion),
         conn[id] \in {"waiting", "done"},
         conn[id] = "waiting" =>
           /\ texts = got[id] + Len(flushed)
           /\ \A i \in DOMAIN flushed : flushed[i].kind # "Finished",
         finish_request(id, texts, flushed)
  PROVE  Told(id) /\ \E names \in SUBSET Counters : Close(id, names)
<1> DEFINE last == [kind |-> "Finished", texts |-> texts]
<1>1. channel \in [Clients -> Seq(Completion)] /\ got[id] \in Nat /\ Len(flushed) \in Nat
  BY ListIs, ZenonT(30) DEF TypeOK
<1>2. /\ last \in Completion /\ last.kind = "Finished" /\ last.texts = texts
  BY ZenonT(30) DEF Completion
<1> HIDE DEF last
<1>3. \/ channel' = [channel EXCEPT ![id] = flushed]
      \/ channel' = [channel EXCEPT ![id] = Append(flushed, last)]
  BY Zenon DEF finish_request, last
<1>4. \E names \in SUBSET Counters : Close(id, names)
  <2>1. Close(id, {"completed"}) \/ Close(id, {"slow_consumers"})
    BY ZenonT(30) DEF finish_request
  <2>2. {"completed"} \in SUBSET Counters /\ {"slow_consumers"} \in SUBSET Counters
    BY ZenonT(30) DEF Counters
  <2> QED BY <2>1, <2>2, ZenonT(30)
<1>5. CASE channel' = [channel EXCEPT ![id] = flushed]
  <2>1. /\ channel' \in [Clients -> Seq(Completion)] /\ channel'[id] = flushed
        /\ \A c \in Clients \ {id} : channel'[c] = channel[c]
    BY <1>1, <1>5
  <2> QED BY <1>4, <2>1, Zenon DEF Told
<1>6. CASE channel' = [channel EXCEPT ![id] = Append(flushed, last)]
  <2>1. Append(flushed, last) \in Seq(Completion)
    BY <1>2, LongerList, Zenon
  <2>2. /\ channel' \in [Clients -> Seq(Completion)] /\ channel'[id] = Append(flushed, last)
        /\ \A c \in Clients \ {id} : channel'[c] = channel[c]
    BY <1>1, <1>6, <2>1, ZenonT(30)
  <2>3. \A i \in DOMAIN Append(flushed, last) :
          \/ i \in DOMAIN flushed /\ Append(flushed, last)[i] = flushed[i]
          \/ i = Len(flushed) + 1 /\ Append(flushed, last)[i] = last
    BY <1>2, LongerList, Zenon
  <2>4. conn[id] = "waiting" => texts = got[id] + (Len(flushed) + 1) - 1
    BY <1>1
  <2>5. ASSUME NEW i \in DOMAIN channel'[id], channel'[id][i].kind = "Finished", conn[id] = "waiting"
        PROVE  channel'[id][i].texts = got[id] + i - 1
    BY <1>2, <2>2, <2>3, <2>4, <2>5, Zenon
  <2> QED BY <1>4, <2>2, <2>5, Zenon DEF Told
<1> QED BY <1>3, <1>5, <1>6, ZenonT(30)

\* A request is closed once the coordinator no longer runs it.
LEMMA ClosingKeeps ==
  ASSUME IInv, Alive, NEW id, Closes(id) PROVE IInv'
<1>1. TypeOK /\ Consistent /\ FinishedIsTold
  BY Zenon DEF IInv
<1>2. /\ closing = NONE /\ pc' = pc /\ pc # "idle" /\ id \in DOMAIN active
      /\ UNCHANGED <<conn, got, owners, commands, events, generated>>
  BY Zenon DEF Closes
<1>3. PICK names \in SUBSET Counters : Close(id, names)
  BY Zenon DEF Closes
<1>4. /\ channel' \in [Clients -> Seq(Completion)]
      /\ \A c \in Clients \ {id} : channel'[c] = channel[c]
      /\ \A i \in DOMAIN channel'[id] : channel'[id][i].kind = "Finished" /\ conn[id] = "waiting" =>
           channel'[id][i].texts = got[id] + i - 1
  BY Zenon DEF Closes, Told
<1>5. /\ coordinator' \in [Clients -> {"none", "pending", "running", "cancelling", "over"}]
      /\ \A c \in Clients \ {id} : coordinator'[c] = coordinator[c]
      /\ coordinator'[id] \in {"cancelling", "over", coordinator[id]}
      /\ TRUE \notin RefusedCancellations => coordinator'[id] \notin {"pending", "running"}
  BY Zenon DEF Closes
<1>6. /\ polls' \subseteq polls /\ polls' \subseteq pending_admissions'
      /\ pending_admissions' \subseteq pending_admissions /\ id \notin pending_admissions'
  BY Zenon DEF Closes
<1>7. /\ drained' \in Seq(RequestEvent)
      /\ \A i \in DOMAIN drained' : \E j \in DOMAIN drained : drained'[i] = drained[j]
  BY Zenon DEF Closes, Drains
<1>8. /\ DOMAIN cancellations' = DOMAIN cancellations
      /\ \A c \in DOMAIN cancellations \ {id} : cancellations'[c] = cancellations[c]
  BY Zenon DEF Closes
<1>9. OwnersAreAccountedFor /\ OnePlace /\ Unsubmitted /\ QueuedIsFresh
  BY <1>1, Zenon DEF Consistent
<1>10. PolledIsPending /\ EventsAreDue /\ TextsAreCounted /\ CancellationsAreNotLost
  BY <1>1, Zenon DEF Consistent
<1>11. id \in Clients /\ Queued' = Queued /\ Queued \subseteq Clients
  <2>1. id \in Clients
    BY <1>1, <1>2, Zenon DEF TypeOK
  <2>2. Queued' = Queued
    BY <1>2, ZenonT(30) DEF Queued
  <2>3. Queued \subseteq Clients
    BY <1>1 DEF TypeOK, Queued, Range
  <2> QED BY <2>1, <2>2, <2>3
<1>12. id \notin Queued
  BY <1>2, <1>9, Zenon DEF OnePlace
<1>13. conn[id] \in {"waiting", "done"}
  <2>1. conn[id] \in {"idle", "queued", "checked", "waiting", "done"}
    BY <1>1, <1>11, Zenon DEF TypeOK
  <2>2. conn[id] \notin {"idle", "queued", "checked"}
    BY <1>2, <1>9, <1>11, Zenon DEF Unsubmitted
  <2> QED BY <2>1, <2>2
<1>14. /\ DOMAIN active' = DOMAIN active \ {id}
       /\ \A c \in DOMAIN active' : active'[c] = active[c]
       /\ closing' \in Closing /\ closing'.id = id /\ closing' # NONE
  <2>1. active' = Without(active, id) /\ closing' = [id |-> id, counts |-> names]
    BY <1>3, Zenon DEF Close
  <2>2. closing' \in Closing /\ closing'.id = id
    BY <1>3, <1>11, <2>1, ZenonT(30) DEF Closing
  <2>3. DOMAIN active' = DOMAIN active \ {id} /\ \A c \in DOMAIN active' : active'[c] = active[c]
    BY <2>1, ZenonT(30) DEF Without
  <2> QED BY <2>2, <2>3, NoneIsNoRequest, Zenon
<1>15. DOMAIN active' \subseteq Clients \ {id} /\ DOMAIN active' \subseteq DOMAIN active
  <2>1. DOMAIN active \subseteq Clients
    BY <1>1, Zenon DEF TypeOK
  <2> QED BY <1>14, <2>1
<1>16. TypeOK'
  <2>1. \A c \in DOMAIN active' : active'[c] \in Request
    BY <1>1, <1>14, <1>15, ZenonT(30) DEF TypeOK
  <2>2. DOMAIN active' \subseteq Clients
    BY <1>15
  <2>3. polls' \subseteq Clients /\ pending_admissions' \subseteq Clients
    BY <1>1, <1>6, ZenonT(30) DEF TypeOK
  <2> QED BY <1>1, <1>2, <1>4, <1>5, <1>7, <1>8, <1>14, <2>1, <2>2, <2>3, Zenon DEF TypeOK
<1>17. FinishedIsTold'
  <2> SUFFICES ASSUME NEW c \in Clients, NEW i \in DOMAIN channel'[c],
                      channel'[c][i].kind = "Finished"
               PROVE  /\ conn[c] \in {"waiting", "done"}
                      /\ conn[c] = "waiting" => channel'[c][i].texts = got[c] + i - 1
    BY <1>2, Zenon DEF FinishedIsTold
  <2>1. CASE c = id
    BY <1>4, <1>13, <2>1, Zenon
  <2>2. CASE c # id
    <3>1. channel'[c] = channel[c]
      BY <1>4, <2>2, Zenon
    <3> QED BY <1>1, <3>1, Zenon DEF FinishedIsTold
  <2> QED BY <2>1, <2>2
<1>18. OwnersAreAccountedFor'
  <2>1. owners = Queued \cup DOMAIN active
    BY <1>2, <1>9, ZenonT(30) DEF OwnersAreAccountedFor, Queued
  <2>2. owners' = Queued' \cup DOMAIN active' \cup {closing'.id}
    BY <1>2, <1>11, <1>14, <2>1
  <2> QED BY <1>14, <2>2, Zenon DEF OwnersAreAccountedFor, Queued
<1>19. OnePlace'
  <2>1. /\ \A i, j \in DOMAIN commands : commands[i] = commands[j] => i = j
        /\ Queued \cap DOMAIN active = {}
    BY <1>9, ZenonT(30) DEF OnePlace
  <2>2. Queued' \cap DOMAIN active' = {} /\ closing'.id \notin Queued' \cup DOMAIN active'
    BY <1>11, <1>12, <1>14, <2>1
  <2> QED BY <1>2, <2>1, <2>2, Zenon DEF OnePlace
<1>20. Unsubmitted'
  <2> SUFFICES ASSUME NEW c \in Clients, conn[c] \in {"idle", "queued", "checked"}
               PROVE  /\ c \notin Queued' /\ c \notin DOMAIN active' /\ c \notin DOMAIN cancellations'
                      /\ closing' # NONE => closing'.id # c
                      /\ coordinator'[c] = "none" /\ channel'[c] = <<>> /\ got'[c] = 0
    BY <1>2, Zenon DEF Unsubmitted
  <2>1. c # id
    BY <1>13
  <2>2. /\ c \notin Queued /\ c \notin DOMAIN active /\ c \notin DOMAIN cancellations
        /\ coordinator[c] = "none" /\ channel[c] = <<>> /\ got[c] = 0
    BY <1>9, Zenon DEF Unsubmitted
  <2> QED BY <1>2, <1>4, <1>5, <1>8, <1>11, <1>14, <2>1, <2>2, Zenon
<1>21. QueuedIsFresh'
  <2> SUFFICES ASSUME NEW c \in Queued
               PROVE  /\ coordinator'[c] = "none" /\ channel'[c] = <<>> /\ got'[c] = 0
                      /\ c \in DOMAIN cancellations' => cancellations'[c] # "Dispatched"
    BY <1>11, Zenon DEF QueuedIsFresh
  <2>1. c \in Clients \ {id}
    BY <1>11, <1>12
  <2>2. /\ coordinator[c] = "none" /\ channel[c] = <<>> /\ got[c] = 0
        /\ c \in DOMAIN cancellations => cancellations[c] # "Dispatched"
    BY <1>9, Zenon DEF QueuedIsFresh
  <2> QED BY <1>2, <1>4, <1>5, <1>8, <2>1, <2>2, Zenon
<1>22. PolledIsPending'
  <2>1. polls' # {} => pc' = "polls"
    BY <1>2, <1>6, <1>10, Zenon DEF PolledIsPending
  <2>2. ASSUME NEW c \in pending_admissions' PROVE coordinator'[c] = "pending" /\ c \in DOMAIN active'
    <3>1. c # id /\ coordinator[c] = "pending" /\ c \in DOMAIN active
      BY <1>6, <1>10, Zenon DEF PolledIsPending
    <3>2. c \in Clients
      BY <1>1, <3>1, Zenon DEF TypeOK
    <3> QED BY <1>5, <1>14, <3>1, <3>2, Zenon
  <2> QED BY <1>6, <2>1, <2>2, ZenonT(30) DEF PolledIsPending
<1>23. TextsAreCounted'
  <2> SUFFICES ASSUME NEW c \in DOMAIN active', conn[c] = "waiting"
               PROVE  /\ active'[c].texts = got[c] + Len(channel'[c])
                      /\ \A i \in DOMAIN channel'[c] : channel'[c][i].kind # "Finished"
    BY <1>2, Zenon DEF TextsAreCounted
  <2>1. channel'[c] = channel[c] /\ active'[c] = active[c] /\ c \in DOMAIN active
    BY <1>4, <1>14, <1>15, Zenon
  <2> QED BY <1>10, <2>1, Zenon DEF TextsAreCounted
<1>24. EventsAreDue'
  <2>1. ASSUME NEW e \in RequestEvent, EventIsDue(e)
        PROVE  /\ coordinator'[e.id] \in {"running", "cancelling", "over"}
               /\ e.kind \in Terminal => coordinator'[e.id] # "running"
    <3>1. e.id \in Clients
      BY Zenon DEF RequestEvent
    <3>2. /\ coordinator[e.id] \in {"running", "cancelling", "over"}
          /\ e.kind \in Terminal => coordinator[e.id] # "running"
      BY <2>1, Zenon DEF EventIsDue
    <3>3. coordinator'[e.id] \in {"cancelling", "over", coordinator[e.id]}
      BY <1>5, <3>1
    <3> QED BY <3>2, <3>3, ZenonT(30)
  <2>2. /\ \A i \in DOMAIN events : events[i] \in RequestEvent /\ EventIsDue(events[i])
        /\ \A i \in DOMAIN drained : drained[i] \in RequestEvent /\ EventIsDue(drained[i])
    <3>1. events \in Seq(RequestEvent) /\ drained \in Seq(RequestEvent)
      BY <1>1, Zenon DEF TypeOK
    <3>2. /\ \A i \in DOMAIN events : events[i] \in RequestEvent
          /\ \A i \in DOMAIN drained : drained[i] \in RequestEvent
      BY <3>1
    <3> QED BY <1>10, <3>2, Zenon DEF EventsAreDue
  <2>3. ASSUME NEW i \in DOMAIN events' PROVE EventIsDue(events[i])'
    BY <1>2, <2>1, <2>2, Zenon DEF EventIsDue
  <2>4. ASSUME NEW i \in DOMAIN drained' PROVE EventIsDue(drained[i])'
    <3>1. PICK j \in DOMAIN drained : drained'[i] = drained[j]
      BY <1>7, Zenon
    <3> QED BY <2>1, <2>2, <3>1, Zenon DEF EventIsDue
  <2> QED BY <2>3, <2>4, ZenonT(30) DEF EventsAreDue
<1>25. CancellationsAreNotLost'
  <2> SUFFICES ASSUME NEW c \in DOMAIN cancellations' \cap DOMAIN active', cancellations'[c] = "Dispatched"
               PROVE  coordinator'[c] \in {"cancelling", "over"}
    BY Zenon DEF CancellationsAreNotLost
  <2>1. c \in Clients \ {id} /\ c \in DOMAIN active /\ c \in DOMAIN cancellations
    BY <1>8, <1>15
  <2>2. cancellations[c] = "Dispatched"
    BY <1>8, <2>1, Zenon
  <2>3. coordinator[c] \in {"cancelling", "over"}
    BY <1>10, <2>1, <2>2, Zenon DEF CancellationsAreNotLost
  <2> QED BY <1>5, <2>1, <2>3, Zenon
<1>26. TRUE \notin RefusedCancellations => WorkHasAnOwner'
  <2> SUFFICES ASSUME TRUE \notin RefusedCancellations PROVE WorkHasAnOwner'
    BY Zenon
  <2>1. {c \in Clients : coordinator[c] \in {"pending", "running"}} \subseteq DOMAIN active
    BY <1>1, Zenon DEF Consistent, WorkHasAnOwner
  <2>2. ASSUME NEW c \in Clients, coordinator'[c] \in {"pending", "running"} PROVE c \in DOMAIN active'
    <3>1. c # id
      BY <1>5, <2>2, Zenon
    <3>2. coordinator[c] \in {"pending", "running"}
      BY <1>5, <2>2, <3>1, Zenon
    <3> QED BY <1>14, <2>1, <3>1, <3>2
  <2> QED BY <2>2, Zenon DEF WorkHasAnOwner
<1> QED BY <1>16, <1>17, <1>18, <1>19, <1>20, <1>21, <1>22, <1>23, <1>24, <1>25, <1>26, Zenon
        DEF IInv, Consistent

\* One more text is counted with the delta in the channel.
LEMMA TextsAddUp ==
  ASSUME NEW n \in Nat, NEW g \in Nat, NEW s \in Seq(Completion), n = g + Len(s), NEW m, NEW u,
         \/ m = n /\ u = s
         \/ m = n + 1 /\ u = Append(s, [kind |-> "TextDelta"])
  PROVE  m = g + Len(u)
<1>1. Len(Append(s, [kind |-> "TextDelta"])) = Len(s) + 1 /\ Len(s) \in Nat
  OBVIOUS
<1> QED BY <1>1

\* A request goes on, with one more text in its channel or none.
LEMMA ContinueKeeps ==
  ASSUME IInv, Alive, NEW id, NEW r, Continues(id, r) PROVE IInv'
<1>1. TypeOK /\ Consistent /\ FinishedIsTold
  BY Zenon DEF IInv
<1>2. /\ pc' = pc /\ id \in DOMAIN active /\ r \in Request /\ active' = [active EXCEPT ![id] = r]
      /\ UNCHANGED <<conn, got, owners, cancellations, commands, polls, closing,
                     pending_admissions, coordinator, events, generated>>
  BY Zenon DEF Continues
<1>3. \/ r.texts = active[id].texts /\ channel' = channel
      \/ /\ r.texts = active[id].texts + 1
         /\ channel' = [channel EXCEPT ![id] = Append(channel[id], [kind |-> "TextDelta"])]
  BY Zenon DEF Continues
<1>4. /\ drained' \in Seq(RequestEvent)
      /\ \A i \in DOMAIN drained' : \E j \in DOMAIN drained : drained'[i] = drained[j]
  BY Zenon DEF Continues, Drains
<1>5. OwnersAreAccountedFor /\ OnePlace /\ Unsubmitted /\ QueuedIsFresh
  BY <1>1, Zenon DEF Consistent
<1>6. PolledIsPending /\ EventsAreDue /\ TextsAreCounted /\ CancellationsAreNotLost
  BY <1>1, Zenon DEF Consistent
<1>7. /\ id \in Clients /\ channel \in [Clients -> Seq(Completion)] /\ channel[id] \in Seq(Completion)
      /\ got[id] \in Nat /\ active[id].texts \in Nat
  <2>1. id \in Clients /\ active[id] \in Request /\ got \in [Clients -> Nat]
    BY <1>1, <1>2, Zenon DEF TypeOK
  <2>2. channel \in [Clients -> Seq(Completion)]
    BY <1>1, Zenon DEF TypeOK
  <2> QED BY <2>1, <2>2 DEF Request
<1>8. Queued' = Queued /\ Queued \subseteq Clients /\ id \notin Queued
  <2>1. Queued' = Queued /\ id \notin Queued
    BY <1>2, <1>5, Zenon DEF Queued, OnePlace
  <2>2. Queued \subseteq Clients
    BY <1>1 DEF TypeOK, Queued, Range
  <2> QED BY <2>1, <2>2
<1>9. conn[id] \notin {"idle", "queued", "checked"}
  BY <1>2, <1>5, <1>7, Zenon DEF Unsubmitted
<1>10. /\ DOMAIN active' = DOMAIN active /\ active'[id] = r
       /\ \A c \in DOMAIN active \ {id} : active'[c] = active[c]
  BY <1>2
<1>11. /\ channel' \in [Clients -> Seq(Completion)]
       /\ \A c \in Clients \ {id} : channel'[c] = channel[c]
       /\ \A i \in DOMAIN channel'[id] : channel'[id][i].kind = "Finished" =>
            i \in DOMAIN channel[id] /\ channel'[id][i] = channel[id][i]
       /\ \/ r.texts = active[id].texts /\ channel'[id] = channel[id]
          \/ /\ r.texts = active[id].texts + 1
             /\ channel'[id] = Append(channel[id], [kind |-> "TextDelta"])
  <2>1. CASE r.texts = active[id].texts /\ channel' = channel
    BY <1>7, <2>1, Zenon
  <2>2. CASE /\ r.texts = active[id].texts + 1
             /\ channel' = [channel EXCEPT ![id] = Append(channel[id], [kind |-> "TextDelta"])]
    <3>1. PICK e, s, u : e = [kind |-> "TextDelta"] /\ s = channel[id] /\ u = Append(s, e)
      BY Zenon
    <3>2. e \in Completion /\ e.kind # "Finished" /\ s \in Seq(Completion)
      BY <1>7, <3>1, ZenonT(30) DEF Completion
    <3>3. u \in Seq(Completion) /\ \A i \in DOMAIN u : (i \in DOMAIN s /\ u[i] = s[i]) \/ u[i] = e
      BY <3>1, <3>2
    <3>4. channel' = [channel EXCEPT ![id] = u]
      BY <2>2, <3>1, ZenonT(30)
    <3>5. /\ channel' \in [Clients -> Seq(Completion)] /\ channel'[id] = u
          /\ \A c \in Clients \ {id} : channel'[c] = channel[c]
      BY <1>7, <3>3, <3>4, ZenonT(30)
    <3> QED BY <2>2, <3>1, <3>2, <3>3, <3>5, ZenonT(30)
  <2> QED BY <1>3, <2>1, <2>2, Zenon
<1>12. TypeOK'
  <2>1. \A c \in DOMAIN active' : active'[c] \in Request
    <3>1. \A c \in DOMAIN active : active[c] \in Request
      BY <1>1, Zenon DEF TypeOK
    <3> QED BY <1>2, <1>10, <3>1, Zenon
  <2> QED BY <1>1, <1>2, <1>4, <1>10, <1>11, <2>1, Zenon DEF TypeOK
<1>13. FinishedIsTold'
  <2>1. \A c \in Clients : \A i \in DOMAIN channel'[c] : channel'[c][i].kind = "Finished" =>
          i \in DOMAIN channel[c] /\ channel'[c][i] = channel[c][i]
    BY <1>11, Zenon
  <2> QED BY <1>1, <1>2, <2>1, Zenon DEF FinishedIsTold
<1>14. OwnersAreAccountedFor' /\ OnePlace'
  <2>1. OwnersAreAccountedFor'
    BY <1>2, <1>5, <1>10, Zenon DEF OwnersAreAccountedFor
  <2>2. OnePlace'
    BY <1>2, <1>5, <1>8, <1>10, Zenon DEF OnePlace
  <2> QED BY <2>1, <2>2
<1>15. Unsubmitted'
  <2> SUFFICES ASSUME NEW c \in Clients, conn[c] \in {"idle", "queued", "checked"}
               PROVE  /\ c \notin Queued' /\ c \notin DOMAIN active' /\ c \notin DOMAIN cancellations
                      /\ closing # NONE => closing.id # c
                      /\ coordinator[c] = "none" /\ channel'[c] = <<>> /\ got[c] = 0
    BY <1>2, Zenon DEF Unsubmitted
  <2>1. channel'[c] = channel[c]
    BY <1>9, <1>11, Zenon
  <2> QED BY <1>5, <1>8, <1>10, <2>1, Zenon DEF Unsubmitted
<1>16. QueuedIsFresh'
  <2>1. \A c \in Queued : channel'[c] = channel[c]
    BY <1>8, <1>11
  <2> QED BY <1>2, <1>5, <1>8, <2>1, ZenonT(30) DEF QueuedIsFresh
<1>17. PolledIsPending'
  BY <1>2, <1>6, <1>10, Zenon DEF PolledIsPending
<1>18. TextsAreCounted'
  <2> SUFFICES ASSUME NEW c \in DOMAIN active, conn[c] = "waiting"
               PROVE  /\ active'[c].texts = got[c] + Len(channel'[c])
                      /\ \A i \in DOMAIN channel'[c] : channel'[c][i].kind # "Finished"
    BY <1>2, <1>10, Zenon DEF TextsAreCounted
  <2>1. /\ active[c].texts = got[c] + Len(channel[c])
        /\ \A i \in DOMAIN channel[c] : channel[c][i].kind # "Finished"
    BY <1>6, Zenon DEF TextsAreCounted
  <2>2. CASE c = id
    <3>1. active[id].texts = got[id] + Len(channel[id])
      BY <2>1, <2>2, Zenon
    <3>2. PICK n, m, g, s, u : /\ n = active[id].texts /\ m = r.texts /\ g = got[id]
                               /\ s = channel[id] /\ u = channel'[id]
      OBVIOUS
    <3>3. /\ n \in Nat /\ g \in Nat /\ s \in Seq(Completion) /\ n = g + Len(s)
          /\ \/ m = n /\ u = s
             \/ m = n + 1 /\ u = Append(s, [kind |-> "TextDelta"])
      BY <1>7, <1>11, <3>1, <3>2, Zenon
    <3>4. m = g + Len(u)
      BY <3>3, TextsAddUp, SMTT(30)
    <3>5. active'[id].texts = got[id] + Len(channel'[id])
      BY <1>10, <3>2, <3>4, Zenon
    <3> QED BY <1>11, <2>1, <2>2, <3>5, Zenon
  <2>3. CASE c # id
    <3>1. c \in Clients
      BY <1>1, Zenon DEF TypeOK
    <3>2. channel'[c] = channel[c] /\ active'[c] = active[c]
      BY <1>10, <1>11, <2>3, <3>1, Zenon
    <3> QED BY <2>1, <3>2, Zenon
  <2> QED BY <2>2, <2>3
<1>19. EventsAreDue'
  <2>1. ASSUME NEW i \in DOMAIN drained' PROVE EventIsDue(drained'[i])
    BY <1>4, <1>6, Zenon DEF EventsAreDue
  <2> QED BY <1>2, <1>6, <2>1, Zenon DEF EventsAreDue, EventIsDue
<1>20. CancellationsAreNotLost'
  BY <1>2, <1>6, <1>10, Zenon DEF CancellationsAreNotLost
<1>21. TRUE \notin RefusedCancellations => WorkHasAnOwner'
  BY <1>1, <1>2, <1>10, Zenon DEF Consistent, WorkHasAnOwner
<1> QED BY <1>12, <1>13, <1>14, <1>15, <1>16, <1>17, <1>18, <1>19, <1>20, <1>21, Zenon
        DEF IInv, Consistent
=============================================================================
