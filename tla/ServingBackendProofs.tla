------------------------ MODULE ServingBackendProofs ------------------------
(***************************************************************************)
(* Proofs about the serving backend, for any number of clients and any     *)
(* capacities: the owner registry, the command queue, the active requests  *)
(* and the coordinator's work agree; a completion that finished carries    *)
(* every text before it; a cancellation marker is spent on a request the   *)
(* coordinator was told to end.                                            *)
(***************************************************************************)
EXTENDS ServingBackendLemmas, FiniteSetTheorems

(* The invariant holds at the start, and while nothing happens.            *)

\* Nothing is queued, active or told when the runtime starts.
LEMMA InitIInv ==
  ASSUME Init PROVE IInv
<1>1. /\ DOMAIN active = {} /\ DOMAIN cancellations = {} /\ Queued = {}
      /\ DOMAIN events = {} /\ DOMAIN drained = {} /\ commands = <<>>
      /\ closing = NONE /\ pc = "top" /\ polls = {} /\ pending_admissions = {} /\ owners = {}
  BY DEF Init, Queued, Range
<1>2. /\ \A c \in Clients : /\ coordinator[c] = "none" /\ channel[c] = <<>> /\ got[c] = 0
                            /\ DOMAIN channel[c] = {} /\ conn[c] = "idle"
  BY DEF Init
<1>3. TypeOK
  BY SMTT(30) DEF Init, TypeOK
<1>4. FinishedIsTold
  BY <1>2, ZenonT(30) DEF FinishedIsTold
<1>5. OwnersAreAccountedFor /\ OnePlace
  BY <1>1, SMTT(30) DEF OwnersAreAccountedFor, OnePlace, Queued
<1>6. Unsubmitted /\ QueuedIsFresh /\ PolledIsPending
  BY <1>1, <1>2, ZenonT(30) DEF Unsubmitted, QueuedIsFresh, PolledIsPending
<1>7. EventsAreDue /\ TextsAreCounted /\ CancellationsAreNotLost /\ WorkHasAnOwner
  BY <1>1, <1>2 DEF EventsAreDue, TextsAreCounted, CancellationsAreNotLost, WorkHasAnOwner
<1> QED BY <1>3, <1>4, <1>5, <1>6, <1>7, ZenonT(30) DEF IInv, Consistent

\* A step that changes nothing keeps it.
LEMMA StutterKeeps ==
  ASSUME IInv, UNCHANGED vars PROVE IInv'
<1>1. UNCHANGED Kept /\ pc' = pc
  BY ZenonT(30) DEF vars, http, shared, queue, channels, loop, requests, serving, Kept
<1>2. Alive' => /\ Alive
                /\ pc' = "idle" => closing = NONE
                /\ polls # {} => pc' = "polls"
  BY <1>1 DEF Alive, IInv, Consistent, OnePlace, PolledIsPending
<1> QED BY <1>1, <1>2, ControlKeeps, Zenon

-----------------------------------------------------------------------------
\* A set of numbers that is not empty has the least member CHOOSE picks: the
\* registries hand out ids in order.
LEMMA LeastIsMember ==
  ASSUME NEW S, S \subseteq Nat, S # {}
  PROVE  Least(S) \in S
<1>1. PICK x \in S : \A y \in S : <<y, x>> \notin OpToRel(<, Nat)
  BY NatLessThanWellFounded, WFMin, Zenon
<1>2. \A y \in S : x <= y
  <2> SUFFICES ASSUME NEW y \in S, y < x PROVE FALSE
    BY SMT
  <2>1. <<y, x>> \in Nat \X Nat /\ <<y, x>>[1] = y /\ <<y, x>>[2] = x
    OBVIOUS
  <2>2. <<y, x>> \in OpToRel(<, Nat)
    BY <2>1, Zenon DEF OpToRel
  <2> QED BY <1>1, <2>2, Zenon
<1> QED BY <1>2, Zenon DEF Least

-----------------------------------------------------------------------------
(* The end of the runtime thread.                                          *)

LEMMA EndKeeps ==
  ASSUME IInv, FailActive \/ FailQueued \/ Return \/ Panic \/ Exit PROVE IInv'
<1>1. ~Alive'
  BY DEF FailActive, FailQueued, Return, Panic, Exit, Goto, Alive, loop
<1>2. TypeOK /\ FinishedIsTold
  BY DEF IInv
<1>3. UNCHANGED <<conn, got, polls, drained, pending_admissions, coordinator, generated, events>>
  BY SMTT(30) DEF FailActive, FailQueued, Return, Panic, Exit, http, loop, requests, serving
<1>4. /\ DOMAIN active' \subseteq DOMAIN active /\ \A c \in DOMAIN active' : active'[c] = active[c]
      /\ owners' \subseteq owners /\ DOMAIN cancellations' \subseteq DOMAIN cancellations
      /\ commands' \in Seq(Clients)
      /\ closing' = closing \/ closing' = NONE
  <2>1. CASE FailActive
    BY <1>2, <2>1, Zenon DEF FailActive, Without, TypeOK, shared, queue, loop
  <2>2. CASE FailQueued
    BY <1>2, <2>2, SMTT(30) DEF FailQueued, TypeOK, requests
  <2>3. CASE Return
    BY <1>2, <2>3, SMTT(30) DEF Return, TypeOK, shared, requests
  <2>4. CASE Panic
    BY <1>2, <2>4, SMTT(30) DEF Panic, TypeOK, shared
  <2>5. CASE Exit
    BY <1>2, <2>5, SMTT(30) DEF Exit, TypeOK, queue, requests
  <2> QED BY <2>1, <2>2, <2>3, <2>4, <2>5, ZenonT(30)
<1>5. /\ channel' \in [Clients -> Seq(Completion)]
      /\ \A c \in Clients : \A i \in DOMAIN channel'[c] : channel'[c][i].kind = "Finished" =>
           i \in DOMAIN channel[c] /\ channel'[c][i] = channel[c][i]
  <2>1. CASE FailActive
    <3> DEFINE id == Least(DOMAIN active)
    <3>1. id \in Clients
      BY <1>2, <2>1, LeastIsMember, ClientsAreNumbers, Zenon DEF FailActive, TypeOK
    <3>2. try_send(id, Failure) /\ Failure \in Completion /\ Failure.kind # "Finished"
      BY <2>1, ZenonT(30) DEF FailActive, Failure, Completion
    <3> HIDE DEF id
    <3> QED BY <1>2, <3>1, <3>2, SendTells, ZenonT(30)
  <2>2. CASE FailQueued
    <3>1. channel' = [c \in Clients |-> IF c \in Range(commands) /\ Delivered(c)
                                        THEN Append(channel[c], Failure) ELSE channel[c]]
      BY <2>2 DEF FailQueued
    <3>2. Failure \in Completion /\ Failure.kind # "Finished"
      BY SMTT(30) DEF Failure, Completion
    <3>3. ASSUME NEW c \in Clients
          PROVE  /\ channel[c] \in Seq(Completion) /\ Append(channel[c], Failure) \in Seq(Completion)
                 /\ \A i \in DOMAIN Append(channel[c], Failure) :
                      Append(channel[c], Failure)[i].kind = "Finished" =>
                        /\ i \in DOMAIN channel[c]
                        /\ Append(channel[c], Failure)[i] = channel[c][i]
      <4>1. channel[c] \in Seq(Completion)
        BY <1>2, Zenon DEF TypeOK
      <4>2. /\ Append(channel[c], Failure) \in Seq(Completion)
            /\ \A i \in DOMAIN Append(channel[c], Failure) :
                 \/ i \in DOMAIN channel[c] /\ Append(channel[c], Failure)[i] = channel[c][i]
                 \/ i = Len(channel[c]) + 1 /\ Append(channel[c], Failure)[i] = Failure
        BY <3>2, <4>1, LongerList, Zenon
      <4> QED BY <3>2, <4>1, <4>2, Zenon
    <3> QED BY <3>1, <3>3
  <2>3. CASE Return \/ Panic \/ Exit
    <3>1. channel' = channel
      BY <2>3, Zenon DEF Return, Panic, Exit, channels
    <3>2. channel \in [Clients -> Seq(Completion)]
      BY <1>2, Zenon DEF TypeOK
    <3> QED BY <3>1, <3>2, Zenon
  <2> QED BY <2>1, <2>2, <2>3, ZenonT(30)
<1>6. TypeOK'
  BY <1>2, <1>3, <1>4, <1>5, ZenonT(30) DEF TypeOK
<1>7. FinishedIsTold'
  BY <1>2, <1>3, <1>5, ZenonT(30) DEF FinishedIsTold
<1> QED BY <1>1, <1>6, <1>7, ZenonT(30) DEF IInv

-----------------------------------------------------------------------------
(* Commands, cancellations and admissions.                                 *)

\* A command taken in a turn or while idle.
LEMMA CommandKeeps ==
  ASSUME IInv, ReceiveCommand \/ IdleCommand PROVE IInv'
<1>1. process_submit /\ pc \in {"commands", "idle"} /\ pc' # "idle" /\ (pc = "commands" => closing = NONE)
  BY DEF ReceiveCommand, IdleCommand, Goto
<1>2. Alive
  BY <1>1 DEF Alive
<1>3. closing = NONE /\ polls = {}
  BY <1>1, <1>2 DEF IInv, Consistent, OnePlace, PolledIsPending
<1> QED BY <1>1, <1>2, <1>3, TakeKeeps, Zenon

\* The coordinator takes back nothing it let go, and starts nothing anew.
Advances ==
    /\ coordinator' \in [Clients -> {"none", "pending", "running", "cancelling", "over"}]
    /\ \A c \in Clients \ DOMAIN active : coordinator[c] = "none" => coordinator'[c] = "none"
    /\ \A c \in Clients : coordinator[c] \in {"cancelling", "over"} =>
                            coordinator'[c] \in {"cancelling", "over"}
    /\ \A c \in Clients : coordinator[c] = "running" =>
                            coordinator'[c] \in {"running", "cancelling", "over"}
    /\ \A c \in Clients : coordinator'[c] \in {"pending", "running"} =>
                            coordinator[c] \in {"pending", "running"}

\* What it tells was told before or is due now.
Tells ==
    /\ events' \in Seq(RequestEvent)
    /\ \A i \in DOMAIN events' :
         \/ \E j \in DOMAIN events : events'[i] = events[j]
         \/ /\ coordinator'[events'[i].id] \in {"running", "cancelling", "over"}
            /\ events'[i].kind \in Terminal => coordinator'[events'[i].id] # "running"

\* The coordinator's requests move on, and the active map stays.
MovesOn ==
    /\ pc' # "idle" /\ closing = NONE /\ Advances /\ Tells
    /\ UNCHANGED <<conn, got, owners, commands, channel, drained, closing, active>>
    /\ generated' \in [Clients -> Nat]
    /\ DOMAIN cancellations' = DOMAIN cancellations
    /\ \A c \in DOMAIN cancellations :
         \/ cancellations'[c] = cancellations[c]
         \/ c \in DOMAIN active /\ coordinator'[c] \in {"cancelling", "over"}
    /\ polls' \subseteq polls /\ polls' \subseteq pending_admissions'
    /\ pending_admissions' \subseteq pending_admissions
    /\ \A c \in pending_admissions' : coordinator'[c] = "pending"
    /\ polls' # {} => pc' = "polls"

LEMMA TellKeeps ==
  ASSUME IInv, Alive, MovesOn PROVE IInv'
<1>1. TypeOK /\ Consistent /\ FinishedIsTold
  BY Zenon DEF IInv
<1>2. /\ pc' # "idle" /\ closing = NONE /\ generated' \in [Clients -> Nat]
      /\ UNCHANGED <<conn, got, owners, commands, channel, drained, closing, active>>
  BY Zenon DEF MovesOn
<1>3. /\ coordinator' \in [Clients -> {"none", "pending", "running", "cancelling", "over"}]
      /\ \A c \in Clients \ DOMAIN active : coordinator[c] = "none" => coordinator'[c] = "none"
      /\ \A c \in Clients : coordinator[c] \in {"cancelling", "over"} =>
                              coordinator'[c] \in {"cancelling", "over"}
      /\ \A c \in Clients : coordinator[c] = "running" =>
                              coordinator'[c] \in {"running", "cancelling", "over"}
      /\ \A c \in Clients : coordinator'[c] \in {"pending", "running"} =>
                              coordinator[c] \in {"pending", "running"}
  BY Zenon DEF MovesOn, Advances
<1>4. /\ events' \in Seq(RequestEvent)
      /\ \A i \in DOMAIN events' :
           \/ \E j \in DOMAIN events : events'[i] = events[j]
           \/ /\ coordinator'[events'[i].id] \in {"running", "cancelling", "over"}
              /\ events'[i].kind \in Terminal => coordinator'[events'[i].id] # "running"
  BY Zenon DEF MovesOn, Tells
<1>5. /\ DOMAIN cancellations' = DOMAIN cancellations
      /\ \A c \in DOMAIN cancellations :
           \/ cancellations'[c] = cancellations[c]
           \/ c \in DOMAIN active /\ coordinator'[c] \in {"cancelling", "over"}
  BY Zenon DEF MovesOn
<1>6. /\ polls' \subseteq polls /\ polls' \subseteq pending_admissions'
      /\ pending_admissions' \subseteq pending_admissions
      /\ \A c \in pending_admissions' : coordinator'[c] = "pending"
      /\ polls' # {} => pc' = "polls"
  BY Zenon DEF MovesOn
<1>7. OwnersAreAccountedFor /\ OnePlace /\ Unsubmitted /\ QueuedIsFresh
  BY <1>1, Zenon DEF Consistent
<1>8. PolledIsPending /\ EventsAreDue /\ TextsAreCounted /\ CancellationsAreNotLost
  BY <1>1, Zenon DEF Consistent
<1>9. TypeOK'
  <2>1. polls' \subseteq Clients /\ pending_admissions' \subseteq Clients
    BY <1>1, <1>6, Zenon DEF TypeOK
  <2> QED BY <1>1, <1>2, <1>3, <1>4, <1>5, <2>1, Zenon DEF TypeOK
<1>10. FinishedIsTold'
  BY <1>1, <1>2, Zenon DEF FinishedIsTold
<1>11. Queued' = Queued /\ Queued \subseteq Clients \ DOMAIN active
  <2>1. Queued' = Queued
    BY <1>2, Zenon DEF Queued
  <2>2. Queued \cap DOMAIN active = {}
    BY <1>7, Zenon DEF OnePlace
  <2>3. Queued \subseteq Clients
    BY <1>1 DEF Queued, Range, TypeOK
  <2> QED BY <2>1, <2>2, <2>3
<1>12. OwnersAreAccountedFor' /\ OnePlace'
  <2>1. OwnersAreAccountedFor'
    BY <1>2, <1>7, Zenon DEF OwnersAreAccountedFor
  <2>2. OnePlace'
    BY <1>2, <1>7, <1>11, Zenon DEF OnePlace
  <2> QED BY <2>1, <2>2
<1>13. Unsubmitted'
  <2> SUFFICES ASSUME NEW c \in Clients, conn[c] \in {"idle", "queued", "checked"}
               PROVE  /\ c \notin Queued /\ c \notin DOMAIN active /\ c \notin DOMAIN cancellations'
                      /\ closing # NONE => closing.id # c
                      /\ coordinator'[c] = "none" /\ channel[c] = <<>> /\ got[c] = 0
    BY <1>2, <1>11, Zenon DEF Unsubmitted
  <2> QED BY <1>3, <1>5, <1>7, Zenon DEF Unsubmitted
<1>14. QueuedIsFresh'
  <2> SUFFICES ASSUME NEW c \in Queued
               PROVE  /\ coordinator'[c] = "none" /\ channel[c] = <<>> /\ got[c] = 0
                      /\ c \in DOMAIN cancellations' => cancellations'[c] # "Dispatched"
    BY <1>2, <1>11, Zenon DEF QueuedIsFresh
  <2>1. /\ coordinator[c] = "none" /\ channel[c] = <<>> /\ got[c] = 0
        /\ c \in DOMAIN cancellations => cancellations[c] # "Dispatched"
    BY <1>7, Zenon DEF QueuedIsFresh
  <2>2. c \in Clients \ DOMAIN active
    BY <1>11
  <2> QED BY <1>3, <1>5, <2>1, <2>2, ZenonT(30)
<1>15. PolledIsPending'
  BY <1>2, <1>6, <1>8, Zenon DEF PolledIsPending
<1>16. EventsAreDue'
  <2>1. ASSUME NEW e \in RequestEvent, EventIsDue(e)
        PROVE  /\ coordinator'[e.id] \in {"running", "cancelling", "over"}
               /\ e.kind \in Terminal => coordinator'[e.id] # "running"
    <3>1. e.id \in Clients
      BY DEF RequestEvent
    <3>2. /\ coordinator[e.id] \in {"running", "cancelling", "over"}
          /\ e.kind \in Terminal => coordinator[e.id] # "running"
      BY <2>1, Zenon DEF EventIsDue
    <3> QED BY <1>3, <3>1, <3>2, ZenonT(30)
  <2>2. /\ \A i \in DOMAIN events : events[i] \in RequestEvent /\ EventIsDue(events[i])
        /\ \A i \in DOMAIN drained : drained[i] \in RequestEvent /\ EventIsDue(drained[i])
    <3>1. events \in Seq(RequestEvent) /\ drained \in Seq(RequestEvent)
      BY <1>1, Zenon DEF TypeOK
    <3>2. /\ \A i \in DOMAIN events : events[i] \in RequestEvent
          /\ \A i \in DOMAIN drained : drained[i] \in RequestEvent
      BY <3>1
    <3> QED BY <1>8, <3>2, Zenon DEF EventsAreDue
  <2>3. ASSUME NEW i \in DOMAIN drained' PROVE EventIsDue(drained[i])'
    BY <1>2, <2>1, <2>2, Zenon DEF EventIsDue
  <2>4. ASSUME NEW i \in DOMAIN events' PROVE EventIsDue(events[i])'
    <3>1. CASE \E j \in DOMAIN events : events'[i] = events[j]
      <4>1. PICK j \in DOMAIN events : events'[i] = events[j]
        BY <3>1
      <4> QED BY <2>1, <2>2, <4>1, Zenon DEF EventIsDue
    <3> QED BY <1>4, <3>1, Zenon DEF EventIsDue
  <2> QED BY <2>3, <2>4, Zenon DEF EventsAreDue
<1>17. TextsAreCounted'
  BY <1>2, <1>8, Zenon DEF TextsAreCounted
<1>18. CancellationsAreNotLost'
  <2> SUFFICES ASSUME NEW c \in DOMAIN cancellations \cap DOMAIN active, cancellations'[c] = "Dispatched"
               PROVE  coordinator'[c] \in {"cancelling", "over"}
    BY <1>2, <1>5, Zenon DEF CancellationsAreNotLost
  <2>1. c \in Clients
    BY <1>1, Zenon DEF TypeOK
  <2>2. CASE cancellations'[c] = cancellations[c]
    BY <1>3, <1>8, <2>1, <2>2, ZenonT(30) DEF CancellationsAreNotLost
  <2> QED BY <1>5, <2>2, Zenon
<1>19. TRUE \notin RefusedCancellations => WorkHasAnOwner'
  <2>1. {c \in Clients : coordinator'[c] \in {"pending", "running"}} \subseteq
          {c \in Clients : coordinator[c] \in {"pending", "running"}}
    BY <1>3, Zenon
  <2> QED BY <1>1, <1>2, <2>1, Zenon DEF Consistent, WorkHasAnOwner
<1> QED BY <1>9, <1>10, <1>12, <1>13, <1>14, <1>15, <1>16, <1>17, <1>18, <1>19, ZenonT(30)
        DEF IInv, Consistent

LEMMA EventJoins ==
  ASSUME events \in Seq(RequestEvent), NEW kind \in {"Admitted", "Cancelled", "Finished", "Failed"},
         NEW id \in Clients, events' = Append(events, [kind |-> kind, id |-> id])
  PROVE  /\ events' \in Seq(RequestEvent)
         /\ \A i \in DOMAIN events' : \/ \E j \in DOMAIN events : events'[i] = events[j]
                                      \/ events'[i] = [kind |-> kind, id |-> id]
<1> PICK e : e = [kind |-> kind, id |-> id]
  OBVIOUS
<1>1. e \in RequestEvent
  BY DEF RequestEvent
<1>2. /\ Append(events, e) \in Seq(RequestEvent)
      /\ \A i \in DOMAIN Append(events, e) :
           \/ i \in DOMAIN events /\ Append(events, e)[i] = events[i]
           \/ Append(events, e)[i] = e
  BY <1>1
<1> QED BY <1>2, Zenon

\* A request that ends with anything but a completion leaves none in its channel.
LEMMA EndTells ==
  ASSUME TypeOK, FinishedIsTold, NEW id \in Clients, try_send(id, Failure)
  PROVE  Told(id)
<1>1. Failure \in Completion /\ Failure.kind # "Finished"
  BY DEF Failure, Completion
<1>2. /\ channel' \in [Clients -> Seq(Completion)]
      /\ \A c \in Clients \ {id} : channel'[c] = channel[c]
      /\ \A i \in DOMAIN channel'[id] : channel'[id][i].kind = "Finished" =>
           i \in DOMAIN channel[id] /\ channel'[id][i] = channel[id][i]
  BY <1>1, SendTells, Zenon
<1>3. ASSUME NEW i \in DOMAIN channel'[id], channel'[id][i].kind = "Finished", conn[id] = "waiting"
      PROVE  channel'[id][i].texts = got[id] + i - 1
  <2>1. i \in DOMAIN channel[id] /\ channel'[id][i] = channel[id][i]
    BY <1>2, <1>3, Zenon
  <2> QED BY <1>3, <2>1, ZenonT(30) DEF FinishedIsTold
<1> QED BY <1>2, <1>3, Zenon DEF Told

LEMMA CancellationKeeps ==
  ASSUME IInv, DispatchCancellation PROVE IInv'
<1> PICK id : id = Least(Requested)
  BY ZenonT(30)
<1>1. /\ pc = "cancellations" /\ quota > 0 /\ closing = NONE /\ Requested # {}
      /\ UNCHANGED <<conn, got, owners, commands, polls, drained, generated>>
  BY DEF DispatchCancellation, http, queue
<1>2. Alive /\ pc # "idle"
  BY <1>1, ZenonT(30) DEF Alive
<1>3. TypeOK /\ Consistent /\ FinishedIsTold
  BY <1>2, ZenonT(30) DEF IInv
<1>4. id \in DOMAIN cancellations /\ id \in DOMAIN active /\ id \in Clients
  <2>1. Requested \subseteq Nat /\ Requested \subseteq DOMAIN cancellations \cap DOMAIN active
    BY <1>3, ClientsAreNumbers, ZenonT(30) DEF Requested, TypeOK
  <2>2. id \in Requested
    BY <1>1, <2>1, LeastIsMember, ZenonT(30)
  <2> QED BY <1>3, <2>1, <2>2, ZenonT(30) DEF TypeOK
<1>5. polls = {} /\ \A c \in pending_admissions : coordinator[c] = "pending"
  BY <1>1, <1>3, ZenonT(30) DEF Consistent, PolledIsPending
<1>6. CASE Die /\ UNCHANGED <<cancellations, requests, coordinator, events, channel, closing>>
  <2>1. UNCHANGED Kept
    BY <1>1, <1>6, ZenonT(30) DEF Kept, requests
  <2>2. ~Alive'
    BY <1>6, ZenonT(30) DEF Die, Goto, Alive
  <2> QED BY <2>1, <2>2, ControlKeeps, ZenonT(30)
<1>7. CASE /\ coordinator[id] = "pending"
           /\ coordinator' = [coordinator EXCEPT ![id] = "over"]
           /\ events' = Append(events, [kind |-> "Cancelled", id |-> id])
           /\ pending_admissions' = pending_admissions \ {id}
           /\ cancellations' = [cancellations EXCEPT ![id] = "Dispatched"]
           /\ UNCHANGED <<pc, active, channel, closing>>
  <2>1. /\ coordinator' \in [Clients -> {"none", "pending", "running", "cancelling", "over"}]
        /\ coordinator'[id] = "over" /\ \A c \in Clients \ {id} : coordinator'[c] = coordinator[c]
    BY <1>3, <1>4, <1>7, ZenonT(30) DEF TypeOK
  <2>2. /\ DOMAIN cancellations' = DOMAIN cancellations
        /\ \A c \in DOMAIN cancellations \ {id} : cancellations'[c] = cancellations[c]
    BY <1>7, ZenonT(30)
  <2>3. polls' = {} /\ \A c \in pending_admissions' : coordinator'[c] = "pending"
    BY <1>1, <1>3, <1>5, <1>7, <2>1, ZenonT(30) DEF TypeOK
  <2>4. /\ events' \in Seq(RequestEvent)
        /\ \A i \in DOMAIN events' : \/ \E j \in DOMAIN events : events'[i] = events[j]
                                     \/ events'[i] = [kind |-> "Cancelled", id |-> id]
    BY <1>3, <1>4, <1>7, EventJoins, ZenonT(30) DEF TypeOK
  <2>5. /\ [kind |-> "Cancelled", id |-> id].id = id
    OBVIOUS
  <2>6. Tells
    BY <2>1, <2>4, <2>5, ZenonT(30) DEF Tells
  <2>7. Advances
    BY <1>4, <2>1, ZenonT(30) DEF Advances
  <2>8. \A c \in DOMAIN cancellations :
          \/ cancellations'[c] = cancellations[c]
          \/ c \in DOMAIN active /\ coordinator'[c] \in {"cancelling", "over"}
    BY <1>4, <2>1, <2>2, ZenonT(30)
  <2>9. generated' \in [Clients -> Nat] /\ pending_admissions' \subseteq pending_admissions
    BY <1>1, <1>3, <1>7, ZenonT(30) DEF TypeOK
  <2>10. MovesOn
    BY <1>1, <1>2, <1>5, <1>7, <2>2, <2>3, <2>6, <2>7, <2>8, <2>9, ZenonT(30) DEF MovesOn
  <2> QED BY <1>2, <2>10, TellKeeps, ZenonT(30)
<1>8. CASE /\ coordinator' = [coordinator EXCEPT ![id] = "cancelling"]
           /\ pending_admissions' = pending_admissions \ {id}
           /\ cancellations' = [cancellations EXCEPT ![id] = "Dispatched"]
           /\ UNCHANGED <<pc, active, channel, closing, events>>
  <2>1. /\ coordinator' \in [Clients -> {"none", "pending", "running", "cancelling", "over"}]
        /\ coordinator'[id] = "cancelling"
        /\ \A c \in Clients \ {id} : coordinator'[c] = coordinator[c]
    BY <1>3, <1>4, <1>8, ZenonT(30) DEF TypeOK
  <2>2. /\ DOMAIN cancellations' = DOMAIN cancellations
        /\ \A c \in DOMAIN cancellations \ {id} : cancellations'[c] = cancellations[c]
    BY <1>8, ZenonT(30)
  <2>3. polls' = {} /\ \A c \in pending_admissions' : coordinator'[c] = "pending"
    BY <1>1, <1>3, <1>5, <1>8, <2>1, ZenonT(30) DEF TypeOK
  <2>4. /\ events' = events /\ events \in Seq(RequestEvent) /\ generated' \in [Clients -> Nat]
        /\ pending_admissions' \subseteq pending_admissions
    BY <1>1, <1>3, <1>8, ZenonT(30) DEF TypeOK
  <2>5. Tells
    BY <2>4, Zenon DEF Tells
  <2>6. Advances
    BY <1>4, <1>8, <2>1, ZenonT(30) DEF Advances
  <2>7. \A c \in DOMAIN cancellations :
          \/ cancellations'[c] = cancellations[c]
          \/ c \in DOMAIN active /\ coordinator'[c] \in {"cancelling", "over"}
    BY <1>4, <2>1, <2>2, ZenonT(30)
  <2>8. MovesOn
    BY <1>1, <1>2, <1>5, <1>8, <2>2, <2>3, <2>4, <2>5, <2>6, <2>7, ZenonT(30) DEF MovesOn
  <2> QED BY <1>2, <2>8, TellKeeps, Zenon
<1>9. CASE /\ TRUE \in RefusedCancellations
           /\ fail_request(id) /\ UNCHANGED coordinator
           /\ pending_admissions' = pending_admissions \ {id}
           /\ cancellations' = [cancellations EXCEPT ![id] = "Dispatched"]
           /\ UNCHANGED <<pc, events>>
  <2>1. {"failed"} \in SUBSET Counters
    BY DEF Counters
  <2>2. try_send(id, Failure) /\ Close(id, {"failed"})
    BY <1>9 DEF fail_request
  <2>3. Told(id)
    BY <1>3, <1>4, <2>2, EndTells, ZenonT(30)
  <2>5. /\ drained' = drained /\ drained \in Seq(RequestEvent) /\ coordinator' = coordinator
        /\ coordinator' \in [Clients -> {"none", "pending", "running", "cancelling", "over"}]
    BY <1>1, <1>3, <1>9, ZenonT(30) DEF TypeOK
  <2>6. /\ DOMAIN cancellations' = DOMAIN cancellations
        /\ \A c \in DOMAIN cancellations \ {id} : cancellations'[c] = cancellations[c]
    BY <1>9, ZenonT(30)
  <2>7. /\ polls' \subseteq polls /\ polls' \subseteq pending_admissions'
        /\ pending_admissions' \subseteq pending_admissions /\ id \notin pending_admissions'
    BY <1>1, <1>5, <1>9, ZenonT(30)
  <2>8. Drains /\ pc' = pc /\ events' = events
    BY <1>9, <2>5, Zenon DEF Drains
  <2>9. Closes(id)
    BY <1>1, <1>2, <1>4, <1>9, <2>1, <2>2, <2>3, <2>5, <2>6, <2>7, <2>8, ZenonT(30) DEF Closes
  <2> QED BY <1>2, <2>9, ClosingKeeps, ZenonT(30)
<1> QED BY <1>6, <1>7, <1>8, <1>9, RefusalsAreChoices, ZenonT(30) DEF DispatchCancellation

LEMMA PollKeeps ==
  ASSUME IInv, NEW id \in Clients, poll_pending_admission(id) PROVE IInv'
<1>1. /\ pc = "polls" /\ closing = NONE /\ id \in polls /\ polls' = polls \ {id}
      /\ UNCHANGED <<conn, got, owners, cancellations, commands, drained, generated>>
  BY DEF poll_pending_admission, http, queue
<1>2. Alive /\ pc # "idle"
  BY <1>1, ZenonT(30) DEF Alive
<1>3. TypeOK /\ Consistent /\ FinishedIsTold
  BY <1>2, ZenonT(30) DEF IInv
<1>4. /\ id \in DOMAIN active /\ coordinator[id] = "pending" /\ polls \subseteq pending_admissions
      /\ \A c \in pending_admissions : coordinator[c] = "pending"
      /\ polls' \subseteq pending_admissions \ {id} /\ polls' \subseteq polls
  BY <1>1, <1>3, ZenonT(30) DEF Consistent, PolledIsPending
<1>5. CASE UNCHANGED <<requests, coordinator, events, channel, closing, pc>>
  <2>1. UNCHANGED <<channel, closing, active, pending_admissions, coordinator, events>>
    BY <1>5, ZenonT(30) DEF requests
  <2>2. /\ events' \in Seq(RequestEvent) /\ generated' \in [Clients -> Nat]
        /\ coordinator' \in [Clients -> {"none", "pending", "running", "cancelling", "over"}]
    BY <1>1, <1>3, <2>1, ZenonT(30) DEF TypeOK
  <2>3. pc' = pc
    BY <1>5, ZenonT(30)
  <2>4. /\ polls' \subseteq pending_admissions' /\ pending_admissions' \subseteq pending_admissions
        /\ \A c \in pending_admissions' : coordinator'[c] = "pending"
    BY <1>4, <2>1, ZenonT(30)
  <2>5. Advances /\ Tells
    BY <2>1, <2>2, ZenonT(30) DEF Advances, Tells
  <2>6. MovesOn
    BY <1>1, <1>2, <1>4, <2>1, <2>2, <2>3, <2>4, <2>5, ZenonT(30) DEF MovesOn
  <2> QED BY <1>2, <2>6, TellKeeps, ZenonT(30)
<1>6. CASE /\ coordinator' = [coordinator EXCEPT ![id] = "running"]
           /\ events' = Append(events, [kind |-> "Admitted", id |-> id])
           /\ pending_admissions' = pending_admissions \ {id}
           /\ UNCHANGED <<active, channel, closing, pc>>
  <2>1. /\ coordinator' \in [Clients -> {"none", "pending", "running", "cancelling", "over"}]
        /\ coordinator'[id] = "running" /\ \A c \in Clients \ {id} : coordinator'[c] = coordinator[c]
    BY <1>3, <1>6, ZenonT(30) DEF TypeOK
  <2>2. /\ events' \in Seq(RequestEvent)
        /\ \A i \in DOMAIN events' : \/ \E j \in DOMAIN events : events'[i] = events[j]
                                     \/ events'[i] = [kind |-> "Admitted", id |-> id]
    BY <1>3, <1>6, EventJoins, ZenonT(30) DEF TypeOK
  <2>3. Tells
    BY <2>1, <2>2 DEF Tells, Terminal
  <2>4. /\ pending_admissions' \subseteq pending_admissions /\ polls' \subseteq pending_admissions'
        /\ \A c \in pending_admissions' : coordinator'[c] = "pending"
    BY <1>3, <1>4, <1>6, <2>1, ZenonT(30) DEF TypeOK
  <2>5. Advances
    BY <1>4, <2>1, ZenonT(30) DEF Advances
  <2>6. generated' \in [Clients -> Nat]
    BY <1>1, <1>3, ZenonT(30) DEF TypeOK
  <2>7. MovesOn
    BY <1>1, <1>2, <1>4, <1>6, <2>3, <2>4, <2>5, <2>6, ZenonT(30) DEF MovesOn
  <2> QED BY <1>2, <2>7, TellKeeps, Zenon
<1>7. CASE /\ coordinator' = [coordinator EXCEPT ![id] = "over"]
           /\ pending_admissions' = pending_admissions \ {id}
           /\ fail_request(id)
           /\ UNCHANGED <<events, pc>>
  <2>1. try_send(id, Failure) /\ Close(id, {"failed"}) /\ {"failed"} \in SUBSET Counters
    BY <1>7 DEF fail_request, Counters
  <2>2. Told(id)
    BY <1>3, <2>1, EndTells, ZenonT(30)
  <2>3. /\ coordinator' \in [Clients -> {"none", "pending", "running", "cancelling", "over"}]
        /\ coordinator'[id] = "over" /\ \A c \in Clients \ {id} : coordinator'[c] = coordinator[c]
        /\ drained' = drained /\ drained \in Seq(RequestEvent)
    BY <1>1, <1>3, <1>7, ZenonT(30) DEF TypeOK
  <2>4. /\ polls' \subseteq polls /\ polls' \subseteq pending_admissions'
        /\ pending_admissions' \subseteq pending_admissions /\ id \notin pending_admissions'
        /\ coordinator'[id] \in {"cancelling", "over", coordinator[id]}
        /\ coordinator'[id] \notin {"pending", "running"}
    BY <1>4, <1>7, <2>3, ZenonT(30)
  <2>5. Drains
    BY <2>3, Zenon DEF Drains
  <2>6. Closes(id)
    BY <1>1, <1>2, <1>4, <1>7, <2>1, <2>2, <2>3, <2>4, <2>5, ZenonT(30) DEF Closes
  <2> QED BY <1>2, <2>6, ClosingKeeps, ZenonT(30)
<1>8. CASE Die /\ UNCHANGED <<requests, coordinator, events, channel, closing>>
  <2>1. UNCHANGED <<channel, closing, active, pending_admissions, coordinator, events>> /\ ~Alive'
    BY <1>8, ZenonT(30) DEF requests, Die, Goto, Alive
  <2>2. TypeOK' /\ FinishedIsTold'
    BY <1>1, <1>3, <2>1, ZenonT(30) DEF TypeOK, FinishedIsTold
  <2> QED BY <2>1, <2>2, ZenonT(30) DEF IInv
<1> QED BY <1>5, <1>6, <1>7, <1>8, ZenonT(30) DEF poll_pending_admission
-----------------------------------------------------------------------------
(* Dispatching an event.                                                   *)

\* What holds of the request of the event at the head.
LEMMA EventIsOfAdmitted ==
  ASSUME IInv, NEW kind, Dispatching(kind), NEW id, id = Event.id, id \in DOMAIN active,
         drained' = Tail(drained)
  PROVE  /\ Alive /\ pc # "idle" /\ closing = NONE /\ polls = {}
         /\ id \in Clients /\ id \notin pending_admissions
         /\ coordinator[id] \in {"running", "cancelling", "over"}
         /\ kind \in Terminal => coordinator[id] # "running"
         /\ Drains
<1>1. /\ pc \in {"admitted", "dispatch"} /\ closing = NONE /\ drained # <<>>
      /\ Head(drained).kind = kind /\ Head(drained).id = id
  BY DEF Dispatching, Event
<1>2. Alive /\ pc # "idle" /\ pc # "polls"
  BY <1>1 DEF Alive
<1>3. TypeOK /\ Consistent
  BY <1>2, ZenonT(30) DEF IInv
<1>4. drained \in Seq(RequestEvent) /\ id \in Clients
  BY <1>3, ZenonT(30) DEF TypeOK
<1>5. /\ Head(drained) = drained[1] /\ 1 \in DOMAIN drained
      /\ Tail(drained) \in Seq(RequestEvent)
      /\ \A i \in DOMAIN Tail(drained) : i + 1 \in DOMAIN drained /\ Tail(drained)[i] = drained[i + 1]
  BY <1>1, <1>4
<1>6. EventIsDue(Head(drained))
  BY <1>3, <1>5, Zenon DEF Consistent, EventsAreDue
<1>7. /\ coordinator[id] \in {"running", "cancelling", "over"}
      /\ kind \in Terminal => coordinator[id] # "running"
  BY <1>1, <1>6, ZenonT(30) DEF EventIsDue
<1>8. polls = {} /\ id \notin pending_admissions
  BY <1>2, <1>3, <1>7, ZenonT(30) DEF Consistent, PolledIsPending
<1> QED BY <1>1, <1>2, <1>4, <1>5, <1>7, <1>8, ZenonT(30) DEF Drains

\* The request of the event at the head is closed, and cancelled if it runs.
LEMMA DispatchCloses ==
  ASSUME IInv, NEW kind, Dispatching(kind), NEW id, id = Event.id, id \in DOMAIN active,
         drained' = Tail(drained),
         NEW names \in SUBSET Counters, Close(id, names),
         cancel_dispatch_request(id) \/ (kind \in Terminal /\ UNCHANGED <<coordinator, pc>>),
         pending_admissions' \in {pending_admissions, pending_admissions \ {id}},
         UNCHANGED <<conn, got, owners, cancellations, commands, polls, events, generated>>,
         Told(id)
  PROVE  IInv'
<1>1. /\ Alive /\ pc # "idle" /\ closing = NONE /\ polls = {}
      /\ id \in Clients /\ id \notin pending_admissions
      /\ coordinator[id] \in {"running", "cancelling", "over"}
      /\ kind \in Terminal => coordinator[id] # "running"
      /\ Drains
  BY EventIsOfAdmitted, Zenon
<1>2. coordinator \in [Clients -> {"none", "pending", "running", "cancelling", "over"}]
  BY ZenonT(30) DEF IInv, TypeOK
<1>3. /\ pc' = pc
      /\ \/ coordinator' = [coordinator EXCEPT ![id] = IF coordinator[id] = "running" THEN "cancelling"
                                                       ELSE coordinator[id]]
         \/ kind \in Terminal /\ coordinator' = coordinator
  BY DEF cancel_dispatch_request
<1>4. /\ coordinator' \in [Clients -> {"none", "pending", "running", "cancelling", "over"}]
      /\ \A c \in Clients \ {id} : coordinator'[c] = coordinator[c]
      /\ coordinator'[id] \in {"cancelling", "over", coordinator[id]}
      /\ coordinator'[id] \notin {"pending", "running"}
  BY <1>1, <1>2, <1>3, ZenonT(30)
<1>5. /\ polls' \subseteq polls /\ polls' \subseteq pending_admissions'
      /\ pending_admissions' \subseteq pending_admissions /\ id \notin pending_admissions'
  BY <1>1
<1>6. Closes(id)
  BY <1>1, <1>3, <1>4, <1>5, Zenon DEF Closes
<1> QED BY <1>1, <1>6, ClosingKeeps, Zenon

LEMMA DispatchEndKeeps ==
  ASSUME IInv, DispatchCancelled \/ DispatchFailed PROVE IInv'
<1>1. PICK kind \in Terminal, count \in Counters : DispatchEnd(kind, count)
  BY DEF DispatchCancelled, DispatchFailed, Terminal, Counters
<1>2. PICK id : id = Event.id
  BY ZenonT(30)
<1>3. /\ Dispatching(kind) /\ id \in DOMAIN active /\ drained' = Tail(drained)
      /\ pending_admissions' = pending_admissions \ {id}
      /\ try_send(id, Failure) /\ Close(id, {count})
      /\ UNCHANGED <<conn, got, owners, cancellations, commands, polls, coordinator, pc, events,
                     generated>>
  BY <1>1, <1>2, ZenonT(30) DEF DispatchEnd, Untouched, http, queue, serving
<1>4. TypeOK /\ FinishedIsTold /\ id \in Clients
  BY <1>3 DEF IInv, TypeOK
<1>5. Told(id)
  BY <1>3, <1>4, EndTells, Zenon
<1>6. {count} \in SUBSET Counters
  OBVIOUS
<1> QED BY <1>2, <1>3, <1>5, <1>6, DispatchCloses, ZenonT(30)

LEMMA DispatchAdmittedKeeps ==
  ASSUME IInv, DispatchAdmitted PROVE IInv'
<1>1. PICK id : id = Event.id
  OBVIOUS
<1>2. /\ Dispatching("Admitted") /\ id \in DOMAIN active /\ drained' = Tail(drained)
      /\ UNCHANGED <<conn, got, owners, cancellations, commands, polls, events, generated,
                     pending_admissions>>
  BY <1>1, ZenonT(30) DEF DispatchAdmitted, Untouched, http, queue
<1>3. TypeOK /\ FinishedIsTold /\ id \in Clients /\ active[id] \in Request
  BY <1>2 DEF IInv, TypeOK
<1>4. CASE cancel_dispatch_request(id) /\ fail_request(id)
  <2>1. try_send(id, Failure) /\ Close(id, {"failed"}) /\ {"failed"} \in SUBSET Counters
    BY <1>4 DEF fail_request, Counters
  <2>2. Told(id)
    BY <1>3, <2>1, EndTells, Zenon
  <2> QED BY <1>1, <1>2, <1>4, <2>1, <2>2, DispatchCloses, ZenonT(30)
<1>5. CASE /\ active' = [active EXCEPT ![id].admitted = TRUE]
           /\ UNCHANGED <<channel, closing, coordinator, pc>>
  <2>1. PICK r : r = [active[id] EXCEPT !.admitted = TRUE]
    BY Zenon
  <2>2. r \in Request /\ r.texts = active[id].texts
    BY <1>3, <2>1, Zenon DEF Request
  <2>3. active' = [active EXCEPT ![id] = r]
    BY <1>5, <2>1, ZenonT(30)
  <2>4. Alive /\ Drains
    BY <1>1, <1>2, EventIsOfAdmitted, Zenon
  <2>5. Continues(id, r)
    BY <1>2, <1>5, <2>2, <2>3, <2>4, ZenonT(30) DEF Continues
  <2> QED BY <2>4, <2>5, ContinueKeeps, Zenon
<1> QED BY <1>1, <1>4, <1>5, ZenonT(30) DEF DispatchAdmitted

\* Progress of a prefill ends a request that was not admitted, and is counted
\* for one that was.
LEMMA DispatchPrefillKeeps ==
  ASSUME IInv, DispatchPrefillProgress PROVE IInv'
<1>1. PICK id : id = Event.id
  OBVIOUS
<1>2. /\ Dispatching("PrefillProgress") /\ id \in DOMAIN active /\ drained' = Tail(drained)
      /\ UNCHANGED <<conn, got, owners, cancellations, commands, polls, events, generated,
                     pending_admissions>>
  BY <1>1, ZenonT(30) DEF DispatchPrefillProgress, Untouched, http, queue
<1>3. TypeOK /\ FinishedIsTold /\ id \in Clients
  BY <1>2 DEF IInv, TypeOK
<1>4. CASE cancel_dispatch_request(id) /\ fail_request(id)
  <2>1. try_send(id, Failure) /\ Close(id, {"failed"}) /\ {"failed"} \in SUBSET Counters
    BY <1>4 DEF fail_request, Counters
  <2>2. Told(id)
    BY <1>3, <2>1, EndTells, Zenon
  <2> QED BY <1>1, <1>2, <1>4, <2>1, <2>2, DispatchCloses, ZenonT(30)
<1>5. CASE UNCHANGED <<active, channel, closing, coordinator, pc>>
  <2>1. PrefillIsCounted
    BY <1>2, <1>5, ZenonT(30) DEF PrefillIsCounted
  <2> QED BY <2>1, EventsPass, Zenon
<1> QED BY <1>1, <1>4, <1>5, ZenonT(30) DEF DispatchPrefillProgress

\* The texts of an active request are told by its channel, before and after
\* one more.
LEMMA TextsAreTold ==
  ASSUME IInv, Alive, NEW id \in DOMAIN active, NEW texts, NEW flushed,
         \/ texts = active[id].texts /\ flushed = channel[id]
         \/ texts = active[id].texts + 1 /\ flushed = Append(channel[id], [kind |-> "TextDelta"])
  PROVE  /\ id \in Clients /\ texts \in Nat /\ flushed \in Seq(Completion)
         /\ conn[id] \in {"waiting", "done"}
         /\ conn[id] = "waiting" => /\ texts = got[id] + Len(flushed)
                                    /\ \A i \in DOMAIN flushed : flushed[i].kind # "Finished"
<1>1. TypeOK /\ Consistent
  BY DEF IInv
<1>2. /\ id \in Clients /\ active[id].texts \in Nat /\ channel[id] \in Seq(Completion)
      /\ got[id] \in Nat
  BY <1>1, ZenonT(30) DEF TypeOK, Request
<1>3. conn[id] \in {"waiting", "done"}
  BY <1>1, <1>2, ZenonT(30) DEF TypeOK, Consistent, Unsubmitted
<1>4. PICK e : e = [kind |-> "TextDelta"]
  BY ZenonT(30)
<1>5. e \in Completion /\ e.kind # "Finished"
  BY <1>4, ZenonT(30) DEF Completion
<1>6. PICK s : s = channel[id]
  BY ZenonT(30)
<1>7. /\ Append(s, e) \in Seq(Completion)
      /\ \A i \in DOMAIN Append(s, e) : (i \in DOMAIN s /\ Append(s, e)[i] = s[i]) \/ Append(s, e)[i] = e
  BY <1>2, <1>5, <1>6
<1>8. /\ texts \in Nat /\ flushed \in Seq(Completion)
      /\ \A i \in DOMAIN flushed : (i \in DOMAIN s /\ flushed[i] = s[i]) \/ flushed[i] = e
  <2>1. flushed = s \/ flushed = Append(s, e)
    BY <1>4, <1>6, ZenonT(30)
  <2>2. texts \in Nat
    BY <1>2
  <2> QED BY <1>2, <1>6, <1>7, <2>1, <2>2, ZenonT(30)
<1>9. ASSUME conn[id] = "waiting"
      PROVE  /\ texts = got[id] + Len(flushed)
             /\ \A i \in DOMAIN flushed : flushed[i].kind # "Finished"
  <2>1. /\ active[id].texts = got[id] + Len(s)
        /\ \A i \in DOMAIN s : s[i].kind # "Finished"
    BY <1>1, <1>6, <1>9, Zenon DEF Consistent, TextsAreCounted
  <2>2. PICK n, g : n = active[id].texts /\ g = got[id]
    OBVIOUS
  <2>3. /\ n \in Nat /\ g \in Nat /\ s \in Seq(Completion) /\ n = g + Len(s)
        /\ \/ texts = n /\ flushed = s
           \/ texts = n + 1 /\ flushed = Append(s, [kind |-> "TextDelta"])
    BY <1>2, <1>6, <2>1, <2>2, Zenon
  <2>4. texts = g + Len(flushed)
    <3>1. CASE texts = n /\ flushed = s
      BY <2>3, <3>1, Zenon
    <3>2. CASE texts = n + 1 /\ flushed = Append(s, [kind |-> "TextDelta"])
      <4>1. flushed = Append(s, e)
        BY <1>4, <3>2, Zenon
      <4>2. Len(flushed) = Len(s) + 1 /\ Len(s) \in Nat
        BY <2>3, <4>1
      <4> QED BY <2>3, <3>2, <4>2
    <3> QED BY <2>3, <3>1, <3>2, Zenon
  <2>5. \A i \in DOMAIN flushed : flushed[i].kind # "Finished"
    BY <1>5, <1>8, <2>1, Zenon
  <2> QED BY <2>2, <2>4, <2>5, Zenon
<1> QED BY <1>2, <1>3, <1>8, <1>9, ZenonT(30)

\* The ways a request leaves the active map, and what each leaves in its channel.
LEMMA ClosingTells ==
  ASSUME IInv, Alive, NEW id \in DOMAIN active, NEW flushed,
         flushed = Append(channel[id], [kind |-> "TextDelta"]),
         \/ finish_request(id, active[id].texts, channel[id])
         \/ finish_request(id, active[id].texts + 1, flushed)
         \/ Close(id, {"slow_consumers", "cancelled"}) /\ UNCHANGED channel
         \/ fail_request(id)
  PROVE  \E names \in SUBSET Counters :
           Close(id, names) /\ Told(id)
<1>1. TypeOK /\ FinishedIsTold /\ id \in Clients
  BY ZenonT(30) DEF IInv, TypeOK
<1>2. CASE finish_request(id, active[id].texts, channel[id])
  <2>1. PICK n, s : n = active[id].texts /\ s = channel[id]
    BY ZenonT(30)
  <2>2. /\ n \in Nat /\ s \in Seq(Completion) /\ conn[id] \in {"waiting", "done"}
        /\ conn[id] = "waiting" => /\ n = got[id] + Len(s)
                                   /\ \A i \in DOMAIN s : s[i].kind # "Finished"
    BY <2>1, TextsAreTold, Zenon
  <2> QED BY <1>1, <1>2, <2>1, <2>2, FinishTells, Zenon
<1>3. CASE finish_request(id, active[id].texts + 1, flushed)
  <2>1. PICK n : n = active[id].texts + 1
    OBVIOUS
  <2>2. /\ n \in Nat /\ flushed \in Seq(Completion) /\ conn[id] \in {"waiting", "done"}
        /\ conn[id] = "waiting" => /\ n = got[id] + Len(flushed)
                                   /\ \A i \in DOMAIN flushed : flushed[i].kind # "Finished"
    BY <2>1, TextsAreTold, Zenon
  <2> QED BY <1>1, <1>3, <2>1, <2>2, FinishTells, ZenonT(30)
<1>4. CASE Close(id, {"slow_consumers", "cancelled"}) /\ UNCHANGED channel
  <2>1. {"slow_consumers", "cancelled"} \in SUBSET Counters
    BY ZenonT(30) DEF Counters
  <2>2. channel' = channel /\ channel \in [Clients -> Seq(Completion)]
    BY <1>1, <1>4, ZenonT(30) DEF TypeOK
  <2>3. \A i \in DOMAIN channel'[id] : channel'[id][i].kind = "Finished" /\ conn[id] = "waiting" =>
          channel'[id][i].texts = got[id] + i - 1
    BY <1>1, <1>4, ZenonT(30) DEF FinishedIsTold
  <2>4. Told(id)
    BY <2>2, <2>3, Zenon DEF Told
  <2> QED BY <1>4, <2>1, <2>4, Zenon
<1>5. CASE fail_request(id)
  <2>1. try_send(id, Failure) /\ Close(id, {"failed"}) /\ {"failed"} \in SUBSET Counters
    BY <1>5, ZenonT(30) DEF fail_request, Counters
  <2> QED BY <1>1, <2>1, EndTells, ZenonT(30)
<1> QED BY <1>2, <1>3, <1>4, <1>5, ZenonT(30)

LEMMA DispatchFinishedKeeps ==
  ASSUME IInv, DispatchFinished PROVE IInv'
<1>1. PICK id, flushed : id = Event.id /\ flushed = Append(channel[id], [kind |-> "TextDelta"])
  BY Zenon
<1>2. /\ Dispatching("Finished") /\ id \in DOMAIN active /\ drained' = Tail(drained)
      /\ pending_admissions' = pending_admissions \ {id}
      /\ UNCHANGED <<conn, got, owners, cancellations, commands, polls, coordinator, pc, events,
                     generated>>
      /\ \/ finish_request(id, active[id].texts, channel[id])
         \/ finish_request(id, active[id].texts + 1, flushed)
         \/ Close(id, {"slow_consumers", "cancelled"}) /\ UNCHANGED channel
         \/ fail_request(id)
  BY <1>1, ZenonT(30) DEF DispatchFinished, Untouched, http, queue, serving
<1>3. Alive /\ "Finished" \in Terminal
  BY <1>1, <1>2, EventIsOfAdmitted, ZenonT(30) DEF Terminal
<1>4. PICK names \in SUBSET Counters :
        Close(id, names) /\ Told(id)
  BY <1>1, <1>2, <1>3, ClosingTells, Zenon
<1> QED BY <1>1, <1>2, <1>3, <1>4, DispatchCloses, Zenon

\* A request that was sent one more token.
LEMMA OneMoreToken ==
  ASSUME NEW r \in Request
  PROVE  /\ [r EXCEPT !.tokens = r.tokens + 1] \in Request
         /\ [r EXCEPT !.tokens = r.tokens + 1].texts = r.texts
BY DEF Request

LEMMA DispatchTokenKeeps ==
  ASSUME IInv, DispatchToken PROVE IInv'
<1>1. PICK id, flushed, request, written :
        /\ id = Event.id /\ flushed = Append(channel[id], [kind |-> "TextDelta"])
        /\ request = [active[id] EXCEPT !.tokens = active[id].tokens + 1]
        /\ written = [request EXCEPT !.texts = request.texts + 1]
  BY Zenon
<1>2. /\ Dispatching("Token") /\ id \in DOMAIN active /\ drained' = Tail(drained)
      /\ UNCHANGED <<conn, got, owners, cancellations, commands, polls, events, generated,
                     pending_admissions>>
  BY <1>1 DEF DispatchToken, Untouched, http, queue
<1>3. /\ request \in Request /\ request.texts = active[id].texts
      /\ written \in Request /\ written.texts = active[id].texts + 1
  <2>1. active[id] \in Request
    BY <1>2 DEF IInv, TypeOK
  <2>2. request \in Request /\ request.texts = active[id].texts
    BY <1>1, <2>1, OneMoreToken, Zenon
  <2>3. request.texts \in Nat /\ request.texts + 1 \in Nat
    BY <2>2 DEF Request
  <2>4. PICK n : n = request.texts + 1
    OBVIOUS
  <2>5. written \in Request /\ written.texts = n
    BY <1>1, <2>2, <2>3, <2>4, ZenonT(30) DEF Request
  <2> QED BY <2>2, <2>4, <2>5, ZenonT(30)
<1>4. \/ /\ active' = [active EXCEPT ![id] = request]
         /\ UNCHANGED <<channel, closing, coordinator, pc>>
      \/ /\ channel' = [channel EXCEPT ![id] = flushed]
         /\ active' = [active EXCEPT ![id] = written]
         /\ UNCHANGED <<closing, coordinator, pc>>
      \/ /\ cancel_dispatch_request(id)
         /\ \/ finish_request(id, request.texts, channel[id])
            \/ finish_request(id, written.texts, flushed)
            \/ Close(id, {"slow_consumers", "cancelled"}) /\ UNCHANGED channel
            \/ fail_request(id)
  BY <1>1 DEF DispatchToken, SlowText
<1>5. Alive /\ Drains
  BY <1>1, <1>2, EventIsOfAdmitted, ZenonT(30)
<1>6. CASE /\ active' = [active EXCEPT ![id] = request]
           /\ UNCHANGED <<channel, closing, coordinator, pc>>
  <2>1. Continues(id, request)
    BY <1>2, <1>3, <1>5, <1>6, ZenonT(30) DEF Continues
  <2> QED BY <1>5, <2>1, ContinueKeeps, Zenon
<1>7. CASE /\ channel' = [channel EXCEPT ![id] = flushed]
           /\ active' = [active EXCEPT ![id] = written]
           /\ UNCHANGED <<closing, coordinator, pc>>
  <2>1. Continues(id, written)
    BY <1>1, <1>2, <1>3, <1>5, <1>7, ZenonT(30) DEF Continues
  <2> QED BY <1>5, <2>1, ContinueKeeps, Zenon
<1>8. CASE /\ cancel_dispatch_request(id)
           /\ \/ finish_request(id, active[id].texts, channel[id])
              \/ finish_request(id, active[id].texts + 1, flushed)
              \/ Close(id, {"slow_consumers", "cancelled"}) /\ UNCHANGED channel
              \/ fail_request(id)
  <2>1. PICK names \in SUBSET Counters :
          Close(id, names) /\ Told(id)
    BY <1>1, <1>2, <1>5, <1>8, ClosingTells, ZenonT(30)
  <2> QED BY <1>1, <1>2, <1>8, <2>1, DispatchCloses, ZenonT(30)
<1> QED BY <1>3, <1>4, <1>6, <1>7, <1>8, Zenon
-----------------------------------------------------------------------------
(* One tick of the coordinator.                                            *)

\* The requests a boundary cancels, as a list.
LEMMA AscendingLists ==
  ASSUME NEW S, S \subseteq Clients, NEW s \in Ascending(S)
  PROVE  /\ Cardinality(S) \in Nat /\ DOMAIN s = 1..Cardinality(S)
         /\ \A i \in DOMAIN s : s[i] \in S
<1>1. IsFiniteSet(S)
  BY ClientsAreNumbers, FS_Subset, Zenon
<1>2. Cardinality(S) \in Nat
  BY <1>1, FS_CardinalityType, Zenon
<1>3. s \in [1..Cardinality(S) -> S]
  BY DEF Ascending
<1> QED BY <1>2, <1>3, Zenon

\* A tick lets requests go, and tells of what it has let go and of what runs.
LEMMA TickTells ==
  ASSUME IInv, pc = "admitted", closing = NONE, drained = <<>>, pc' = "stepped",
         UNCHANGED <<conn, got, owners, cancellations, commands, channel, polls, drained, closing,
                     active, pending_admissions>>,
         coordinator' \in [Clients -> {"none", "pending", "running", "cancelling", "over"}],
         \A c \in Clients : \/ coordinator'[c] = coordinator[c]
                            \/ coordinator[c] \in {"running", "cancelling"} /\ coordinator'[c] = "over",
         Tells, generated' \in [Clients -> Nat]
  PROVE  IInv'
<1>1. Alive
  BY DEF Alive
<1>2. TypeOK /\ Consistent
  BY <1>1, ZenonT(30) DEF IInv
<1>3. polls' = {} /\ \A c \in pending_admissions : c \in Clients /\ coordinator[c] = "pending"
  BY <1>2 DEF TypeOK, Consistent, PolledIsPending
<1>4. \A c \in pending_admissions' : coordinator'[c] = "pending"
  BY <1>3, ZenonT(30)
<1>5. Advances
  BY DEF Advances
<1>6. MovesOn
  <2>1. polls' \subseteq polls /\ polls' \subseteq pending_admissions' /\ ~(polls' # {})
    BY <1>3, ZenonT(30)
  <2> QED BY <1>4, <1>5, <2>1, ZenonT(30) DEF MovesOn
<1> QED BY <1>1, <1>6, TellKeeps, ZenonT(30)

LEMMA TickKeeps ==
  ASSUME IInv, tick_observed PROVE IInv'
<1>1. /\ pc = "admitted" /\ closing = NONE /\ drained = <<>> /\ pc' = "stepped"
      /\ UNCHANGED <<conn, got, owners, cancellations, commands, channel, polls, drained, closing,
                     active, pending_admissions>>
  BY ZenonT(30) DEF tick_observed, Goto, http, queue, channels, requests
<1>2. /\ coordinator \in [Clients -> {"none", "pending", "running", "cancelling", "over"}]
      /\ generated \in [Clients -> Nat] /\ events \in Seq(RequestEvent)
  BY DEF IInv, TypeOK
<1> DEFINE S    == {c \in Clients : coordinator[c] = "cancelling"}
           over == [c \in Clients |-> IF coordinator[c] = "cancelling" THEN "over"
                                      ELSE coordinator[c]]
<1>5. PICK cancelled \in Ascending(S) :
        LET boundary == [i \in DOMAIN cancelled |-> [kind |-> "Cancelled", id |-> cancelled[i]]]
            tokens(id, n) == [i \in 1..n |-> [kind |-> "Token", id |-> id,
                                              position |-> generated[id] + i - 1]]
            last(id, finished) == IF finished THEN <<[kind |-> "Finished", id |-> id]>> ELSE <<>>
        IN  \/ coordinator' = over /\ events' = boundary /\ generated' = generated
            \/ \E id \in {c \in Clients : over[c] = "running"}, n \in 1..2 :
                 /\ \E finished \in {generated[id] + n = MaximumOutput, TRUE} :
                      /\ coordinator' = IF finished THEN [over EXCEPT ![id] = "over"] ELSE over
                      /\ events' = boundary \o tokens(id, n) \o last(id, finished)
                 /\ generated' = [generated EXCEPT ![id] = generated[id] + n]
            \/ \E id \in {c \in Clients : over[c] = "running"} :
                 /\ coordinator' = over
                 /\ events' = Append(boundary, [kind |-> "PrefillProgress", id |-> id])
                 /\ generated' = generated
            \/ \E id \in {c \in Clients : over[c] = "running"} :
                 /\ coordinator' = [over EXCEPT ![id] = "over"]
                 /\ events' = Append(boundary, [kind |-> "Failed", id |-> id])
                 /\ generated' = generated
            \/ UNCHANGED <<coordinator, generated, events>>
  BY ZenonT(150) DEF tick_observed, serving
<1>6. PICK boundary : boundary = [i \in DOMAIN cancelled |-> [kind |-> "Cancelled", id |-> cancelled[i]]]
  BY Zenon
<1>7. S \subseteq Clients /\ \A c \in Clients : c \in S <=> coordinator[c] = "cancelling"
  OBVIOUS
<1>8. /\ over \in [Clients -> {"none", "pending", "running", "cancelling", "over"}]
      /\ \A c \in S : over[c] = "over" /\ coordinator[c] = "cancelling"
      /\ \A c \in Clients \ S : over[c] = coordinator[c]
  BY <1>2, <1>7
<1> HIDE DEF S, over
<1>9. /\ Cardinality(S) \in Nat /\ DOMAIN cancelled = 1..Cardinality(S)
      /\ \A i \in DOMAIN cancelled : cancelled[i] \in S
  BY <1>7, AscendingLists, Zenon
<1>10. PICK D : D = {e \in RequestEvent :
                       /\ coordinator'[e.id] \in {"running", "cancelling", "over"}
                       /\ e.kind \in Terminal => coordinator'[e.id] # "running"}
  BY Zenon
<1>11. ASSUME \A c \in S : coordinator'[c] = "over" PROVE boundary \in Seq(D)
  <2>1. ASSUME NEW i \in DOMAIN cancelled PROVE [kind |-> "Cancelled", id |-> cancelled[i]] \in D
    BY <1>7, <1>9, <1>10, <1>11, ZenonT(30) DEF RequestEvent
  <2>2. boundary \in [1..Cardinality(S) -> D]
    BY <1>6, <1>9, <2>1
  <2> QED BY <1>9, <2>2
<1>12. ASSUME events' \in Seq(D)
       PROVE  Tells
  <2>1. events' \in Seq(RequestEvent) /\ \A i \in DOMAIN events' : events'[i] \in D
    BY <1>10, <1>12
  <2> QED BY <1>10, <2>1, Zenon DEF Tells
<1>13. ASSUME coordinator' \in [Clients -> {"none", "pending", "running", "cancelling", "over"}],
              \A c \in Clients : coordinator'[c] = over[c] \/ (over[c] = "running" /\ coordinator'[c] = "over"),
              events' \in Seq(D), generated' \in [Clients -> Nat]
       PROVE  IInv'
  <2>1. \A c \in Clients : \/ coordinator'[c] = coordinator[c]
                           \/ coordinator[c] \in {"running", "cancelling"} /\ coordinator'[c] = "over"
    BY <1>8, <1>13, ZenonT(30)
  <2> QED BY <1>1, <1>12, <1>13, <2>1, TickTells, ZenonT(30)
<1>14. CASE coordinator' = over /\ events' = boundary /\ generated' = generated
  <2>1. boundary \in Seq(D)
    BY <1>8, <1>11, <1>14, ZenonT(30)
  <2>2. \A c \in Clients : coordinator'[c] = over[c]
    BY <1>14, ZenonT(30)
  <2>3. events' \in Seq(D) /\ generated' \in [Clients -> Nat]
    BY <1>2, <1>14, <2>1, ZenonT(30)
  <2>4. coordinator' \in [Clients -> {"none", "pending", "running", "cancelling", "over"}]
    BY <1>8, <1>14, ZenonT(30)
  <2> QED BY <1>13, <2>2, <2>3, <2>4, ZenonT(30)
<1>15. CASE \E id \in {c \in Clients : over[c] = "running"} :
              /\ coordinator' = [over EXCEPT ![id] = "over"]
              /\ events' = Append(boundary, [kind |-> "Failed", id |-> id])
              /\ generated' = generated
  <2>1. PICK id \in Clients : /\ over[id] = "running"
                              /\ coordinator' = [over EXCEPT ![id] = "over"]
                              /\ events' = Append(boundary, [kind |-> "Failed", id |-> id])
                              /\ generated' = generated
    BY <1>15, Zenon
  <2>2. /\ coordinator' \in [Clients -> {"none", "pending", "running", "cancelling", "over"}]
        /\ coordinator'[id] = "over" /\ \A c \in Clients \ {id} : coordinator'[c] = over[c]
    BY <1>8, <2>1, ZenonT(30)
  <2>3. \A c \in S : coordinator'[c] = "over"
    BY <1>7, <1>8, <2>2, ZenonT(30)
  <2>4. [kind |-> "Failed", id |-> id] \in D
    BY <1>10, <2>2, ZenonT(30) DEF RequestEvent
  <2>5. events' \in Seq(D)
    BY <1>11, <2>1, <2>3, <2>4, LongerList, ZenonT(30)
  <2>6. \A c \in Clients : coordinator'[c] = over[c] \/ (over[c] = "running" /\ coordinator'[c] = "over")
    BY <2>1, <2>2, ZenonT(30)
  <2>7. generated' \in [Clients -> Nat]
    BY <1>2, <2>1, ZenonT(30)
  <2> QED BY <1>13, <2>2, <2>5, <2>6, <2>7, ZenonT(30)
<1>16. CASE UNCHANGED <<coordinator, generated, events>>
  <2>1. Tells
    BY <1>2, <1>16, ZenonT(30) DEF Tells
  <2> QED BY <1>1, <1>2, <1>16, <2>1, TickTells, ZenonT(30)
<1>17. ASSUME NEW id \in Clients, NEW n \in 1..2, NEW finished \in BOOLEAN, over[id] = "running",
              coordinator' = IF finished THEN [over EXCEPT ![id] = "over"] ELSE over,
              events' = boundary \o [i \in 1..n |-> [kind |-> "Token", id |-> id,
                                                     position |-> generated[id] + i - 1]]
                          \o (IF finished THEN <<[kind |-> "Finished", id |-> id]>> ELSE <<>>),
              generated' = [generated EXCEPT ![id] = generated[id] + n]
       PROVE  IInv'
  <2>1. /\ coordinator' \in [Clients -> {"none", "pending", "running", "cancelling", "over"}]
        /\ coordinator'[id] = IF finished THEN "over" ELSE "running"
        /\ \A c \in Clients \ {id} : coordinator'[c] = over[c]
    BY <1>8, <1>17, ZenonT(30)
  <2>2. \A c \in S : coordinator'[c] = "over"
    BY <1>7, <1>8, <1>17, <2>1, ZenonT(30)
  <2>3. PICK tokens : tokens = [i \in 1..n |-> [kind |-> "Token", id |-> id,
                                                position |-> generated[id] + i - 1]]
    BY Zenon
  <2>4. ASSUME NEW i \in 1..n
        PROVE  [kind |-> "Token", id |-> id, position |-> generated[id] + i - 1] \in D
    <3>1. generated[id] + i - 1 \in Nat
      BY <1>2, <1>17, SMTT(30)
    <3> QED BY <1>10, <2>1, <3>1, ZenonT(30) DEF RequestEvent, Terminal
  <2>5. tokens \in Seq(D)
    <3>1. tokens \in [1..n -> D]
      BY <2>3, <2>4, Zenon
    <3>2. n \in Nat
      OBVIOUS
    <3> QED BY <3>1, <3>2, ListedAs, Zenon
  <2>6. PICK last : last = IF finished THEN <<[kind |-> "Finished", id |-> id]>> ELSE <<>>
    BY Zenon
  <2>7. last \in Seq(D)
    <3>1. CASE ~finished
      BY <2>6, <3>1, EmptyList, Zenon
    <3>2. CASE finished
      <4>1. [kind |-> "Finished", id |-> id] \in D
        BY <1>10, <2>1, <3>2, ZenonT(30) DEF RequestEvent
      <4> QED BY <2>6, <3>2, <4>1, ListOfOne, Zenon
    <3> QED BY <1>17, <3>1, <3>2, ZenonT(30)
  <2>8. boundary \in Seq(D)
    BY <1>11, <2>2, ZenonT(30)
  <2>9. events' = boundary \o tokens \o last
    BY <1>17, <2>3, <2>6, ZenonT(30)
  <2>10. events' \in Seq(D)
    <3>1. boundary \o tokens \in Seq(D)
      BY <2>5, <2>8, JoinedList, Zenon
    <3> QED BY <2>7, <2>9, <3>1, JoinedList, Zenon
  <2>11. generated' \in [Clients -> Nat]
    BY <1>2, <1>17, SMTT(30)
  <2>12. \A c \in Clients : coordinator'[c] = over[c] \/ (over[c] = "running" /\ coordinator'[c] = "over")
    <3>1. CASE finished
      BY <1>17, <2>1, <3>1, ZenonT(30)
    <3>2. CASE ~finished
      BY <1>17, <2>1, <3>2, ZenonT(30)
    <3> QED BY <1>17, <3>1, <3>2, ZenonT(30)
  <2> QED BY <1>13, <2>1, <2>10, <2>11, <2>12, ZenonT(30)
<1>18. CASE \E id \in {c \in Clients : over[c] = "running"} :
              /\ coordinator' = over
              /\ events' = Append(boundary, [kind |-> "PrefillProgress", id |-> id])
              /\ generated' = generated
  <2>1. PICK id \in Clients : /\ over[id] = "running" /\ coordinator' = over
                              /\ events' = Append(boundary, [kind |-> "PrefillProgress", id |-> id])
                              /\ generated' = generated
    BY <1>18, Zenon
  <2>2. /\ coordinator' \in [Clients -> {"none", "pending", "running", "cancelling", "over"}]
        /\ \A c \in Clients : coordinator'[c] = over[c]
        /\ \A c \in S : coordinator'[c] = "over"
    BY <1>8, <2>1, ZenonT(30)
  <2>3. [kind |-> "PrefillProgress", id |-> id] \in D
    BY <1>10, <2>1, ZenonT(30) DEF RequestEvent, Terminal
  <2>4. events' \in Seq(D)
    BY <1>11, <2>1, <2>2, <2>3, LongerList, ZenonT(30)
  <2>5. generated' \in [Clients -> Nat]
    BY <1>2, <2>1, ZenonT(30)
  <2> QED BY <1>13, <2>2, <2>4, <2>5, ZenonT(30)
<1> QED BY <1>5, <1>6, <1>14, <1>15, <1>16, <1>17, <1>18, ZenonT(30)
-----------------------------------------------------------------------------
(* The invariant.                                                          *)

LEMMA RuntimeKeeps ==
  ASSUME IInv, Runtime PROVE IInv'
<1>1. CASE Settle
  BY <1>1, SettleKeeps, Zenon
<1>2. CASE Turn \/ CommandsTaken \/ TurnOver \/ IdleTimeout \/ EventCancellationFails
  BY <1>2, LoopKeeps, Zenon
<1>3. CASE ReceiveCommand \/ IdleCommand
  BY <1>3, CommandKeeps, ZenonT(30)
<1>4. CASE DispatchCancellation
  BY <1>4, CancellationKeeps, Zenon
<1>5. CASE PruneCancellation
  BY <1>5, PruneKeeps, Zenon
<1>6. CASE CancellationsTaken \/ AdmissionEvents \/ StepEvents \/ SkipEvent
  BY <1>6, EventsPass, Zenon
<1>7. CASE \E c \in Clients : poll_pending_admission(c)
  BY <1>7, PollKeeps, ZenonT(30)
<1>8. CASE tick_observed
  BY <1>8, TickKeeps, Zenon
<1>9. CASE DispatchAdmitted
  BY <1>9, DispatchAdmittedKeeps, Zenon
<1>10. CASE DispatchToken
  BY <1>10, DispatchTokenKeeps, Zenon
<1>11. CASE DispatchFinished
  BY <1>11, DispatchFinishedKeeps, Zenon
<1>12. CASE DispatchCancelled \/ DispatchFailed
  BY <1>12, DispatchEndKeeps, Zenon
<1>13. CASE FailActive \/ FailQueued \/ Return \/ Exit
  BY <1>13, EndKeeps, ZenonT(30)
<1>14. CASE DispatchPrefillProgress
  BY <1>14, DispatchPrefillKeeps, Zenon
<1> QED BY <1>1, <1>2, <1>3, <1>4, <1>5, <1>6, <1>7, <1>8, <1>9, <1>10, <1>11, <1>12, <1>13, <1>14,
           ZenonT(30) DEF Runtime

LEMMA StepKeepsIInv ==
  ASSUME IInv, [Next]_vars PROVE IInv'
<1>1. CASE Runtime
  BY <1>1, RuntimeKeeps, Zenon
<1>2. CASE Panic
  BY <1>2, EndKeeps, Zenon
<1>3. CASE Drop
  BY <1>3, LoopKeeps, Zenon
<1>4. CASE Terminated \/ UNCHANGED vars
  BY <1>4, StutterKeeps, Zenon DEF Terminated
<1>5. CASE \E c \in Clients : accept_loop(c) \/ Connection(c) \/ Timeout(c) \/ Delete(c)
  BY <1>5, AcceptKeeps, SubmitKeeps, ReceiveKeeps, GiveUpKeeps, DeleteKeeps, ZenonT(30) DEF Connection
<1> QED BY <1>1, <1>2, <1>3, <1>4, <1>5, ZenonT(30) DEF Next

\* The inductive invariant holds in every behaviour of the backend.
LEMMA IInvHolds == Spec => []IInv
<1>1. Init => IInv
  BY InitIInv, Zenon
<1>2. IInv /\ [Next]_vars => IInv'
  BY StepKeepsIInv, Zenon
<1> QED BY <1>1, <1>2, PTL DEF Spec

\* While the runtime of backend.rs lives, the owner registry names exactly
\* the requests that are queued, active or being closed, whatever the
\* connection threads, the deletions and the coordinator do in between.
THEOREM OwnersAreExact == Spec => []OwnersAreAccountedFor
<1>1. IInv => OwnersAreAccountedFor
  <2>1. ASSUME IInv, ~Alive PROVE OwnersAreAccountedFor
    BY <2>1, Zenon DEF OwnersAreAccountedFor
  <2> QED BY <2>1, Zenon DEF IInv, Consistent
<1> QED BY <1>1, IInvHolds, PTL

\* Owners, active requests and the coordinator's work agree: the dispatchers
\* drop no request whose work goes on.  The one hypothesis is that the
\* coordinator refuses no cancellation of a request it runs; it refuses only
\* when its generations are exhausted, and then process_command fails the
\* request all the same, and its work has no owner.
THEOREM OwnersAndWorkAgree ==
  ASSUME TRUE \notin RefusedCancellations
  PROVE  Spec => []OwnersMatchWork
<1>1. IInv => OwnersMatchWork
  <2>1. ASSUME IInv, ~Alive PROVE OwnersMatchWork
    BY <2>1, ZenonT(30) DEF OwnersMatchWork, OwnersAreAccountedFor, WorkHasAnOwner
  <2> QED BY <2>1, Zenon DEF IInv, Consistent, OwnersMatchWork
<1> QED BY <1>1, IInvHolds, PTL

\* A Finished completion is read behind every text delta of its request, for
\* any capacity of the completion channel (finish_request, try_send).
THEOREM FinishedIsComplete == Spec => []FinishedTellsAll
<1>1. IInv => FinishedTellsAll
  BY ZenonT(30) DEF IInv, FinishedIsTold, FinishedTellsAll
<1> QED BY <1>1, IInvHolds, PTL

\* A cancellation marker is spent only on a request the coordinator was told
\* to end, also one that was set while the request was still queued.
THEOREM CancellationsReachTheCoordinator == Spec => []CancellationsAreNotLost
<1>1. IInv => CancellationsAreNotLost
  <2>1. ASSUME IInv, ~Alive PROVE CancellationsAreNotLost
    BY <2>1, Zenon DEF CancellationsAreNotLost
  <2> QED BY <2>1, Zenon DEF IInv, Consistent
<1> QED BY <1>1, IInvHolds, PTL
==============================================================================
