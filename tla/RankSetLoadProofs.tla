-------------------------- MODULE RankSetLoadProofs --------------------------
(***************************************************************************)
(* The load transaction, proved for every set of ranks and plans, any      *)
(* number of attempts and every combination of faults: no permit rests on  *)
(* a receipt of an earlier attempt, and the messages of the transaction    *)
(* implement the single decision of AtomicAdoption.                        *)
(***************************************************************************)
EXTENDS RankSetLoad, TLAPS

-----------------------------------------------------------------------------
(* The inductive invariant.                                                *)

CoordinatorState == {"Preparing", "Adopting", "Adopted", "Aborted"}

RankSet == [plan: Plans, receipts: [Ranks -> Receipt]]

Acknowledgement == [rank: Ranks, plan: Plans, set: [Ranks -> Receipt], generation: Nat]

AdoptedSet == [plan: Plans, set: [Ranks -> Receipt]]

Coordinator ==
    [plan: Plans, attempt: Nat, generations: [Ranks -> Nat], state: CoordinatorState,
     prepared: [Ranks -> Receipt \cup {NONE}], set: RankSet \cup {NONE},
     acknowledgements: [Ranks -> Acknowledgement \cup {NONE}],
     adopted: AdoptedSet \cup {NONE},
     terminal_error: {NONE, "Receipt", "Transition", "Adoption", "Rank", "Timeout"}]

Messages ==
    [kind: {"prepared"}, attempt: Nat, value: Receipt]
      \cup [kind: {"failure"}, attempt: Nat, value: Ranks]
      \cup [kind: {"acknowledged"}, attempt: Nat, value: Acknowledgement]
      \cup [kind: {"Adopt"}, attempt: Nat, value: RankSet]
      \cup [kind: {"Complete"}, attempt: Nat, value: AdoptedSet]
      \cup [kind: {"Abort"}, attempt: Nat, value: Plans]

TypeOK ==
    /\ coordinator \in Coordinator
    /\ arenas \in [Ranks -> Arena \cup {NONE}]
    /\ messages \subseteq Messages

\* What the coordinator has collected is of its own attempt, and every
\* acknowledgement it keeps was sent.
CoordinatorIsCurrent ==
    /\ coordinator.generations = [r \in Ranks |-> coordinator.attempt]
    /\ \A r \in Ranks : coordinator.prepared[r] # NONE =>
         coordinator.prepared[r].generation = coordinator.attempt
    /\ coordinator.set # NONE =>
         /\ coordinator.set.plan = coordinator.plan
         /\ \A r \in Ranks :
              coordinator.set.receipts[r].generation = coordinator.attempt
    /\ coordinator.state = "Adopting" => coordinator.set # NONE
    /\ \A r \in Ranks : coordinator.acknowledgements[r] # NONE =>
         \E m \in Sent("acknowledged") : m.value = coordinator.acknowledgements[r]

\* An arena belongs to the attempt, and what it was prepared and adopted
\* with does too; it is aborted only after the coordinator.
ArenasAreCurrent ==
    \A r \in Ranks : arenas[r] # NONE =>
        /\ arenas[r].rank = r
        /\ arenas[r].plan = coordinator.plan
        /\ arenas[r].generation = coordinator.attempt
        /\ arenas[r].state = "Prepared" => arenas[r].prepared.generation = coordinator.attempt
        /\ arenas[r].state \in {"Adopted", "Executable"} =>
             arenas[r].set[r].generation = coordinator.attempt
        /\ arenas[r].state = "Aborted" => coordinator.state = "Aborted"

\* Every rank acknowledged the adopted set that a Complete message carries,
\* with a generation of the attempt the message was sent in.
AdoptedByAll(m) ==
    \A q \in Ranks :
        /\ m.value.set[q].generation = m.attempt
        /\ \E n \in Sent("acknowledged") :
             n.value = [rank |-> q, plan |-> m.value.plan, set |-> m.value.set,
                        generation |-> m.attempt]

MessagesAreTrue ==
    \A m \in messages :
        /\ m.attempt <= coordinator.attempt
        /\ m.kind = "Abort" /\ m.attempt = coordinator.attempt =>
             coordinator.state = "Aborted"
        /\ m.kind = "Complete" => AdoptedByAll(m)
        /\ m.kind = "Complete" /\ m.attempt = coordinator.attempt =>
             coordinator.state \in {"Adopted", "Aborted"}
        /\ m.kind = "acknowledged" => m.value.generation <= coordinator.attempt
        /\ m.kind = "acknowledged" /\ m.value.generation = coordinator.attempt
             /\ coordinator.state # "Aborted" =>
             /\ arenas[m.value.rank] # NONE
             /\ arenas[m.value.rank].state \in {"Adopted", "Executable"}

\* An arena became executable by the Complete message of its own attempt.
ExecutableIsDecided ==
    \A r \in Ranks : arenas[r] # NONE /\ arenas[r].state = "Executable" =>
        \E m \in Sent("Complete") :
            /\ m.attempt = coordinator.attempt
            /\ m.value.plan = arenas[r].plan
            /\ m.value.set = arenas[r].set

IInv ==
    /\ TypeOK
    /\ CoordinatorIsCurrent
    /\ ArenasAreCurrent
    /\ MessagesAreTrue
    /\ ExecutableIsDecided
-----------------------------------------------------------------------------
(* What a report does to the coordinator: it gives up, waits for more, or  *)
(* takes the one step its phase is for.                                    *)

GivesUp(c, o) ==
    /\ o.coordinator \in Coordinator
    /\ o.coordinator.state = "Aborted"
    /\ o.coordinator.plan = c.plan
    /\ o.coordinator.attempt = c.attempt
    /\ o.coordinator.generations = c.generations
    /\ o.coordinator.set \in {NONE, c.set}
    /\ \A r \in Ranks : o.coordinator.prepared[r] \in {NONE, c.prepared[r]}
    /\ \A r \in Ranks : o.coordinator.acknowledgements[r] \in {NONE, c.acknowledgements[r]}
    /\ o.action = [kind |-> "Abort", attempt |-> c.attempt, value |-> c.plan]

With(receipts, receipt) == [receipts EXCEPT ![receipt.rank] = receipt]

Collects(c, receipt, o) ==
    /\ c.state = "Preparing"
    /\ receipt.generation = c.generations[receipt.rank]
    /\ o.coordinator = [c EXCEPT !.prepared = With(c.prepared, receipt)]
    /\ o.action.kind = "Wait"

Proposes(c, receipt, o) ==
    /\ c.state = "Preparing"
    /\ receipt.generation = c.generations[receipt.rank]
    /\ \A r \in Ranks : With(c.prepared, receipt)[r] # NONE
    /\ \E set \in {[plan |-> c.plan, receipts |-> With(c.prepared, receipt)]} :
         /\ set # NONE
         /\ o.coordinator = [c EXCEPT !.prepared = With(c.prepared, receipt), !.set = set,
                                      !.state = "Adopting"]
         /\ o.action = [kind |-> "Adopt", attempt |-> c.attempt, value |-> set]

Gathers(c, acknowledgement, o) ==
    /\ c.state = "Adopting"
    /\ o.coordinator =
         [c EXCEPT !.acknowledgements = With(c.acknowledgements, acknowledgement)]
    /\ o.action.kind = "Wait"

Concludes(c, acknowledgement, o) ==
    /\ c.state = "Adopting"
    /\ \A r \in Ranks :
         /\ With(c.acknowledgements, acknowledgement)[r] # NONE
         /\ With(c.acknowledgements, acknowledgement)[r] =
              [rank |-> r, plan |-> c.set.plan, set |-> c.set.receipts,
               generation |-> c.set.receipts[r].generation]
    /\ \E adopted \in {[plan |-> c.set.plan, set |-> c.set.receipts]} :
         /\ o.coordinator =
              [c EXCEPT !.acknowledgements = With(c.acknowledgements, acknowledgement),
                        !.adopted = adopted, !.state = "Adopted"]
         /\ o.action = [kind |-> "Complete", attempt |-> c.attempt, value |-> adopted]

\* fail drops what was collected and keeps the first error.
LEMMA FailGivesUp ==
    ASSUME NEW c \in Coordinator, NEW e \in {"Receipt", "Transition", "Adoption", "Rank", "Timeout"}
    PROVE  GivesUp(c, fail(c, e))
<1> DEFINE d == [c EXCEPT !.state = "Aborted",
                          !.prepared = [r \in Ranks |-> NONE],
                          !.set = NONE,
                          !.acknowledgements = [r \in Ranks |-> NONE],
                          !.adopted = NONE,
                          !.terminal_error = IF @ = NONE THEN e ELSE @]
<1>1. d \in Coordinator
  BY Zenon DEF Coordinator, CoordinatorState
<1>2. /\ d.state = "Aborted" /\ d.plan = c.plan /\ d.attempt = c.attempt
      /\ d.generations = c.generations /\ d.set = NONE
      /\ d.prepared = [r \in Ranks |-> NONE]
      /\ d.acknowledgements = [r \in Ranks |-> NONE]
  BY DEF Coordinator
<1>3. /\ fail(c, e).coordinator = d
      /\ fail(c, e).action = [kind |-> "Abort", attempt |-> c.attempt, value |-> c.plan]
  BY <1>2 DEF fail, Action
<1>4. QED
  BY <1>1, <1>2, <1>3 DEF GivesUp

\* A coordinator that already gave up answers every report with its abort.
LEMMA AbortedGivesUp ==
    ASSUME NEW c \in Coordinator, c.state = "Aborted"
    PROVE  GivesUp(c, Action(c, "Abort", c.plan))
BY DEF GivesUp, Action, Coordinator

\* report_rank_failure always ends the attempt.
LEMMA FailureOutcome ==
    ASSUME NEW c \in Coordinator, NEW r \in Ranks, NEW e \in {"Rank", "Timeout"}
    PROVE  GivesUp(c, report_rank_failure(c, r, e))
BY FailGivesUp, AbortedGivesUp DEF report_rank_failure

\* report_prepared accepts a receipt only of this attempt's generation.
LEMMA PreparedOutcome ==
    ASSUME NEW c \in Coordinator, NEW receipt \in Receipt,
           NEW o, o = report_prepared(c, receipt)
    PROVE  GivesUp(c, o) \/ Collects(c, receipt, o) \/ Proposes(c, receipt, o)
<1> DEFINE prepared == With(c.prepared, receipt)
           set == PreparedRankSet(c.plan, prepared)
<1>1. c.state \in {"Preparing", "Adopting", "Adopted", "Aborted"}
  BY DEF Coordinator, CoordinatorState
<1>2. CASE c.state = "Aborted"
  <2>1. o = Action(c, "Abort", c.plan)
    BY <1>2 DEF report_prepared
  <2>2. QED
    BY <1>2, <2>1, AbortedGivesUp
<1>3. CASE c.state \in {"Adopting", "Adopted"}
  <2>1. o = fail(c, "Transition")
    BY <1>3 DEF report_prepared
  <2>2. QED
    BY <2>1, FailGivesUp
<1>4. CASE c.state = "Preparing"
  <2> DEFINE bad == \/ c.prepared[receipt.rank] # NONE
                    \/ receipt.generation # c.generations[receipt.rank]
                    \/ ~ValidReceipt(receipt, c.plan)
             open == \E r \in Ranks : prepared[r] = NONE
             waiting == Action([c EXCEPT !.prepared = prepared], "Wait", NONE)
             adopting == Action([c EXCEPT !.prepared = prepared, !.set = set,
                                          !.state = "Adopting"], "Adopt", set)
  <2>1. o = IF bad THEN fail(c, "Receipt") ELSE IF open THEN waiting
            ELSE IF set = NONE THEN fail(c, "Receipt") ELSE adopting
    BY <1>4 DEF report_prepared, With
  <2>2. CASE bad \/ (~open /\ set = NONE)
    BY <2>1, <2>2, FailGivesUp
  <2>3. CASE ~bad /\ open
    <3>1. o = waiting
      BY <2>1, <2>3
    <3>2. o.coordinator = [c EXCEPT !.prepared = prepared] /\ o.action.kind = "Wait"
      BY <3>1 DEF Action
    <3>3. QED
      BY <1>4, <2>3, <3>2 DEF Collects
  <2>4. CASE ~bad /\ ~open /\ set # NONE
    <3>1. o = adopting
      BY <2>1, <2>4
    <3>2. set = [plan |-> c.plan, receipts |-> prepared]
      BY <2>4 DEF PreparedRankSet
    <3>3. [c EXCEPT !.prepared = prepared, !.set = set, !.state = "Adopting"].attempt = c.attempt
      BY DEF Coordinator
    <3>4. /\ o.coordinator = [c EXCEPT !.prepared = prepared, !.set = set, !.state = "Adopting"]
          /\ o.action = [kind |-> "Adopt", attempt |-> c.attempt, value |-> set]
      BY <3>1, <3>3 DEF Action
    <3>5. QED
      BY <1>4, <2>4, <3>2, <3>4 DEF Proposes
  <2>5. QED
    BY <2>2, <2>3, <2>4
<1>5. QED
  BY <1>1, <1>2, <1>3, <1>4

\* report_adoption_acknowledgement concludes only with one exact
\* acknowledgement of every rank.
LEMMA AcknowledgementOutcome ==
    ASSUME NEW c \in Coordinator, c.state = "Adopting" => c.set # NONE,
           NEW ack \in Acknowledgement,
           NEW o, o = report_adoption_acknowledgement(c, ack)
    PROVE  GivesUp(c, o) \/ Gathers(c, ack, o) \/ Concludes(c, ack, o)
<1> DEFINE acks == With(c.acknowledgements, ack)
           adopted == complete_adoption(c.set, acks)
<1>1. c.state \in {"Preparing", "Adopting", "Adopted", "Aborted"}
  BY DEF Coordinator, CoordinatorState
<1>2. CASE c.state = "Aborted"
  <2>1. o = Action(c, "Abort", c.plan)
    BY <1>2 DEF report_adoption_acknowledgement
  <2>2. QED
    BY <1>2, <2>1, AbortedGivesUp
<1>3. CASE c.state \in {"Preparing", "Adopted"}
  <2>1. o = fail(c, "Transition")
    BY <1>3 DEF report_adoption_acknowledgement
  <2>2. QED
    BY <2>1, FailGivesUp
<1>4. CASE c.state = "Adopting"
  <2> DEFINE bad == \/ c.acknowledgements[ack.rank] # NONE
                    \/ ack # AdoptionAcknowledgement(c.set, ack.rank,
                                                     c.set.receipts[ack.rank].generation)
             open == \E r \in Ranks : acks[r] = NONE
             waiting == Action([c EXCEPT !.acknowledgements = acks], "Wait", NONE)
             complete == Action([c EXCEPT !.acknowledgements = acks, !.adopted = adopted,
                                          !.state = "Adopted"], "Complete", adopted)
  <2>1. o = IF bad THEN fail(c, "Adoption") ELSE IF open THEN waiting
            ELSE IF adopted = NONE THEN fail(c, "Adoption") ELSE complete
    BY <1>4 DEF report_adoption_acknowledgement, With
  <2>2. CASE bad \/ (~open /\ adopted = NONE)
    BY <2>1, <2>2, FailGivesUp
  <2>3. CASE ~bad /\ open
    <3>1. o = waiting
      BY <2>1, <2>3
    <3>2. o.coordinator = [c EXCEPT !.acknowledgements = acks] /\ o.action.kind = "Wait"
      BY <3>1 DEF Action
    <3>3. QED
      BY <1>4, <2>3, <3>2 DEF Gathers
  <2>4. CASE ~bad /\ ~open /\ adopted # NONE
    <3>1. o = complete
      BY <2>1, <2>4
    <3>2. adopted = [plan |-> c.set.plan, set |-> c.set.receipts]
      BY <2>4 DEF complete_adoption
    <3>3. \A r \in Ranks : acks[r] = [rank |-> r, plan |-> c.set.plan, set |-> c.set.receipts,
                                      generation |-> c.set.receipts[r].generation]
      BY <2>4 DEF complete_adoption, AdoptionAcknowledgement
    <3>4. [c EXCEPT !.acknowledgements = acks, !.adopted = adopted,
                    !.state = "Adopted"].attempt = c.attempt
      BY DEF Coordinator
    <3>5. /\ o.coordinator = [c EXCEPT !.acknowledgements = acks, !.adopted = adopted,
                                       !.state = "Adopted"]
          /\ o.action = [kind |-> "Complete", attempt |-> c.attempt, value |-> adopted]
      BY <3>1, <3>4 DEF Action
    <3>6. QED
      BY <1>4, <2>4, <3>2, <3>3, <3>5 DEF Concludes
  <2>5. QED
    BY <2>2, <2>3, <2>4
<1>5. QED
  BY <1>1, <1>2, <1>3, <1>4
-----------------------------------------------------------------------------
(* The invariant holds initially and every step keeps it.                  *)

LEMMA InitIInv == Init => IInv
<1> SUFFICES ASSUME Init PROVE IInv
  OBVIOUS
<1>1. PICK plan \in Plans : coordinator = NewCoordinator(plan, 1, OwnerGenerations(1))
  BY DEF Init
<1>2. TypeOK
  BY <1>1 DEF Init, TypeOK, NewCoordinator, OwnerGenerations, Coordinator, CoordinatorState
<1>3. CoordinatorIsCurrent
  BY <1>1 DEF NewCoordinator, OwnerGenerations, CoordinatorIsCurrent
<1>4. ArenasAreCurrent /\ MessagesAreTrue /\ ExecutableIsDecided
  BY DEF Init, ArenasAreCurrent, MessagesAreTrue, ExecutableIsDecided
<1>5. QED
  BY <1>2, <1>3, <1>4 DEF IInv

\* Messages are never taken back, so an adopted set stays acknowledged.
LEMMA AdoptedStays ==
    ASSUME messages \subseteq messages', NEW m, AdoptedByAll(m)
    PROVE  AdoptedByAll(m)'
BY DEF AdoptedByAll, Sent

\* Whatever makes the coordinator give up, the invariant stays.
LEMMA GivingUpKeeps ==
    ASSUME IInv, NEW o, GivesUp(coordinator, o), Report(o)
    PROVE  IInv'
<1> USE DEF IInv
<1> DEFINE act == [kind |-> "Abort", attempt |-> coordinator.attempt, value |-> coordinator.plan]
<1>1. /\ coordinator' \in Coordinator
      /\ coordinator'.state = "Aborted"
      /\ coordinator'.plan = coordinator.plan
      /\ coordinator'.attempt = coordinator.attempt
      /\ coordinator'.generations = coordinator.generations
      /\ coordinator'.set \in {NONE, coordinator.set}
      /\ \A r \in Ranks : coordinator'.prepared[r] \in {NONE, coordinator.prepared[r]}
      /\ \A r \in Ranks :
           coordinator'.acknowledgements[r] \in {NONE, coordinator.acknowledgements[r]}
      /\ messages' = messages \cup {act}
      /\ arenas' = arenas
  BY DEF GivesUp, Report
<1>2. act \in Messages
  BY DEF TypeOK, Coordinator, Messages
<1>3. TypeOK'
  BY <1>1, <1>2 DEF TypeOK
<1>4. CoordinatorIsCurrent'
  BY <1>1 DEF CoordinatorIsCurrent, Sent
<1>5. ArenasAreCurrent'
  BY <1>1 DEF ArenasAreCurrent
<1>6. MessagesAreTrue'
  <2>1. coordinator.attempt \in Nat
    BY DEF TypeOK, Coordinator
  <2>2. ASSUME NEW m \in messages PROVE m.kind = "Complete" => AdoptedByAll(m)'
    BY <1>1, AdoptedStays DEF MessagesAreTrue
  <2>3. QED
    BY <1>1, <2>1, <2>2 DEF MessagesAreTrue
<1>7. ExecutableIsDecided'
  BY <1>1 DEF ExecutableIsDecided, Sent
<1>8. QED
  BY <1>3, <1>4, <1>5, <1>6, <1>7

\* A receipt of this attempt is kept, and the rest is waited for.
LEMMA CollectingKeeps ==
    ASSUME IInv, NEW receipt \in Receipt, NEW o, Collects(coordinator, receipt, o), Report(o)
    PROVE  IInv'
<1> USE DEF IInv
<1>1. /\ coordinator' = [coordinator EXCEPT !.prepared = With(coordinator.prepared, receipt)]
      /\ messages' = messages /\ arenas' = arenas
  BY DEF Collects, Report
<1>2. With(coordinator.prepared, receipt) \in [Ranks -> Receipt \cup {NONE}]
  BY DEF TypeOK, Coordinator, With, Receipt
<1>3. /\ coordinator' \in Coordinator
      /\ coordinator'.prepared = With(coordinator.prepared, receipt)
      /\ coordinator'.state = coordinator.state
      /\ coordinator'.plan = coordinator.plan
      /\ coordinator'.attempt = coordinator.attempt
      /\ coordinator'.generations = coordinator.generations
      /\ coordinator'.set = coordinator.set
      /\ coordinator'.acknowledgements = coordinator.acknowledgements
  BY <1>1, <1>2 DEF TypeOK, Coordinator
<1>4. TypeOK'
  BY <1>1, <1>3 DEF TypeOK
<1>5. CoordinatorIsCurrent'
  <2>1. receipt.generation = coordinator.attempt
    BY DEF Collects, CoordinatorIsCurrent, Receipt
  <2>2. \A r \in Ranks : With(coordinator.prepared, receipt)[r] \in {receipt, coordinator.prepared[r]}
    BY DEF With, TypeOK, Coordinator
  <2>3. QED
    BY <1>1, <1>3, <2>1, <2>2 DEF CoordinatorIsCurrent, Sent
<1>6. ArenasAreCurrent'
  BY <1>1, <1>3 DEF ArenasAreCurrent
<1>7. MessagesAreTrue'
  BY <1>1, <1>3 DEF MessagesAreTrue, AdoptedByAll, Sent
<1>8. ExecutableIsDecided'
  BY <1>1, <1>3 DEF ExecutableIsDecided, Sent
<1>9. QED
  BY <1>4, <1>5, <1>6, <1>7, <1>8

\* The last receipt makes the set, all of this attempt's receipts.
LEMMA ProposingKeeps ==
    ASSUME IInv, NEW receipt \in Receipt, NEW o, Proposes(coordinator, receipt, o), Report(o)
    PROVE  IInv'
<1> USE DEF IInv
<1> DEFINE receipts == With(coordinator.prepared, receipt)
           set == [plan |-> coordinator.plan, receipts |-> receipts]
           act == [kind |-> "Adopt", attempt |-> coordinator.attempt, value |-> set]
<1>1. /\ coordinator' = [coordinator EXCEPT !.prepared = receipts, !.set = set,
                                            !.state = "Adopting"]
      /\ messages' = messages \cup {act} /\ arenas' = arenas
      /\ coordinator.state = "Preparing"
      /\ set # NONE
      /\ \A r \in Ranks : receipts[r] # NONE
  <2>1. /\ o.coordinator = [coordinator EXCEPT !.prepared = receipts, !.set = set,
                                               !.state = "Adopting"]
        /\ o.action = act
        /\ set # NONE
    BY Zenon DEF Proposes
  <2>2. o.action.kind = "Adopt"
    BY <2>1
  <2>3. QED
    BY <2>1, <2>2 DEF Proposes, Report
<1>2. receipts \in [Ranks -> Receipt \cup {NONE}]
  BY DEF TypeOK, Coordinator, With, Receipt
<1>3. receipts \in [Ranks -> Receipt]
  BY <1>1, <1>2
<1>4. set \in RankSet
  BY <1>3 DEF TypeOK, Coordinator, RankSet
<1> HIDE DEF set, receipts
<1>5. /\ coordinator' \in Coordinator
      /\ coordinator'.prepared = receipts
      /\ coordinator'.state = "Adopting"
      /\ coordinator'.plan = coordinator.plan
      /\ coordinator'.attempt = coordinator.attempt
      /\ coordinator'.generations = coordinator.generations
      /\ coordinator'.set = set
      /\ coordinator'.acknowledgements = coordinator.acknowledgements
  BY <1>1, <1>2, <1>4, Zenon DEF TypeOK, Coordinator, CoordinatorState
<1>6. act \in Messages
  BY <1>4 DEF TypeOK, Coordinator, Messages
<1>7. TypeOK'
  BY <1>1, <1>5, <1>6 DEF TypeOK
<1>8. CoordinatorIsCurrent'
  <2>1. receipt.generation = coordinator.attempt
    BY DEF Proposes, CoordinatorIsCurrent, Receipt
  <2>2. \A r \in Ranks : receipts[r] \in {receipt, coordinator.prepared[r]}
    BY DEF receipts, With, TypeOK, Coordinator
  <2>3. \A r \in Ranks : receipts[r].generation = coordinator.attempt
    BY <1>1, <2>1, <2>2 DEF CoordinatorIsCurrent
  <2>4. set.plan = coordinator.plan /\ set.receipts = receipts
    BY DEF set
  <2>5. QED
    BY <1>1, <1>5, <2>3, <2>4 DEF CoordinatorIsCurrent, Sent
<1>9. ArenasAreCurrent'
  BY <1>1, <1>5 DEF ArenasAreCurrent
<1>10. MessagesAreTrue'
  <2>1. coordinator.attempt \in Nat
    BY DEF TypeOK, Coordinator
  <2>2. ASSUME NEW m \in messages PROVE m.kind = "Complete" => AdoptedByAll(m)'
    BY <1>1, AdoptedStays DEF MessagesAreTrue
  <2>3. QED
    BY <1>1, <1>5, <2>1, <2>2 DEF MessagesAreTrue
<1>11. ExecutableIsDecided'
  BY <1>1, <1>5 DEF ExecutableIsDecided, Sent
<1>12. QED
  BY <1>7, <1>8, <1>9, <1>10, <1>11

\* An acknowledgement that was sent is kept.
LEMMA GatheringKeeps ==
    ASSUME IInv, NEW m \in Sent("acknowledged"), NEW o,
           Gathers(coordinator, m.value, o), Report(o)
    PROVE  IInv'
<1> USE DEF IInv
<1> DEFINE acks == With(coordinator.acknowledgements, m.value)
<1>1. /\ coordinator' = [coordinator EXCEPT !.acknowledgements = acks]
      /\ messages' = messages /\ arenas' = arenas
  BY DEF Gathers, Report
<1>2. m.value \in Acknowledgement
  BY DEF TypeOK, Sent, Messages
<1>3. acks \in [Ranks -> Acknowledgement \cup {NONE}]
  BY <1>2 DEF TypeOK, Coordinator, With, Acknowledgement
<1>4. \A r \in Ranks : acks[r] \in {m.value, coordinator.acknowledgements[r]}
  BY DEF With, TypeOK, Coordinator
<1> HIDE DEF acks
<1>5. /\ coordinator' \in Coordinator
      /\ coordinator'.prepared = coordinator.prepared
      /\ coordinator'.state = coordinator.state
      /\ coordinator'.plan = coordinator.plan
      /\ coordinator'.attempt = coordinator.attempt
      /\ coordinator'.generations = coordinator.generations
      /\ coordinator'.set = coordinator.set
      /\ coordinator'.acknowledgements = acks
  BY <1>1, <1>3 DEF TypeOK, Coordinator
<1>6. TypeOK'
  BY <1>1, <1>5 DEF TypeOK
<1>7. CoordinatorIsCurrent'
  BY <1>1, <1>4, <1>5 DEF CoordinatorIsCurrent, Sent
<1>8. ArenasAreCurrent'
  BY <1>1, <1>5 DEF ArenasAreCurrent
<1>9. MessagesAreTrue'
  BY <1>1, <1>5 DEF MessagesAreTrue, AdoptedByAll, Sent
<1>10. ExecutableIsDecided'
  BY <1>1, <1>5 DEF ExecutableIsDecided, Sent
<1>11. QED
  BY <1>6, <1>7, <1>8, <1>9, <1>10

\* The last acknowledgement adopts the set: every rank sent one for it.
LEMMA ConcludingKeeps ==
    ASSUME IInv, NEW m \in Sent("acknowledged"), NEW o,
           Concludes(coordinator, m.value, o), Report(o)
    PROVE  IInv'
<1> USE DEF IInv
<1> DEFINE acks == With(coordinator.acknowledgements, m.value)
           adopted == [plan |-> coordinator.set.plan, set |-> coordinator.set.receipts]
<1>0. PICK act : act = [kind |-> "Complete", attempt |-> coordinator.attempt, value |-> adopted]
  BY Zenon
<1>1. /\ coordinator' = [coordinator EXCEPT !.acknowledgements = acks, !.adopted = adopted,
                                            !.state = "Adopted"]
      /\ messages' = messages \cup {act} /\ arenas' = arenas
      /\ coordinator.state = "Adopting"
  <2>1. /\ o.coordinator = [coordinator EXCEPT !.acknowledgements = acks, !.adopted = adopted,
                                               !.state = "Adopted"]
        /\ o.action = act
    BY <1>0, Zenon DEF Concludes
  <2>2. o.action.kind = "Complete"
    BY <1>0, <2>1
  <2>3. QED
    BY <2>1, <2>2 DEF Concludes, Report
<1>2. m.value \in Acknowledgement
  BY DEF TypeOK, Sent, Messages
<1>3. acks \in [Ranks -> Acknowledgement \cup {NONE}]
  BY <1>2 DEF TypeOK, Coordinator, With, Acknowledgement
<1>4. \A r \in Ranks : acks[r] \in {m.value, coordinator.acknowledgements[r]}
  BY DEF With, TypeOK, Coordinator
<1>5. /\ coordinator.set \in RankSet
      /\ coordinator.set.plan = coordinator.plan
      /\ \A r \in Ranks : coordinator.set.receipts[r].generation = coordinator.attempt
  BY <1>1 DEF TypeOK, Coordinator, CoordinatorIsCurrent
<1>6. adopted \in AdoptedSet
  BY <1>5 DEF RankSet, AdoptedSet
<1>7. \A q \in Ranks : \E n \in Sent("acknowledged") :
         n.value = [rank |-> q, plan |-> coordinator.set.plan, set |-> coordinator.set.receipts,
                    generation |-> coordinator.attempt]
  <2> TAKE q \in Ranks
  <2>1. /\ acks[q] # NONE
        /\ acks[q] = [rank |-> q, plan |-> coordinator.set.plan,
                      set |-> coordinator.set.receipts, generation |-> coordinator.attempt]
    BY <1>5 DEF Concludes
  <2>2. \E n \in Sent("acknowledged") : n.value = acks[q]
    BY <1>4, <2>1 DEF CoordinatorIsCurrent
  <2>3. QED
    BY <2>1, <2>2
<1>8. AdoptedByAll(act)'
  BY <1>0, <1>1, <1>5, <1>7 DEF AdoptedByAll, Sent
<1>9. act \in Messages /\ act.attempt = coordinator.attempt /\ act.kind = "Complete"
  BY <1>0, <1>6 DEF TypeOK, Coordinator, Messages
<1> HIDE DEF acks, adopted
<1>10. /\ coordinator' \in Coordinator
       /\ coordinator'.prepared = coordinator.prepared
       /\ coordinator'.state = "Adopted"
       /\ coordinator'.plan = coordinator.plan
       /\ coordinator'.attempt = coordinator.attempt
       /\ coordinator'.generations = coordinator.generations
       /\ coordinator'.set = coordinator.set
       /\ coordinator'.acknowledgements = acks
  BY <1>1, <1>3, <1>6, Zenon DEF TypeOK, Coordinator, CoordinatorState
<1>11. TypeOK'
  BY <1>1, <1>9, <1>10 DEF TypeOK
<1>12. CoordinatorIsCurrent'
  BY <1>1, <1>4, <1>10 DEF CoordinatorIsCurrent, Sent
<1>13. ArenasAreCurrent'
  BY <1>1, <1>10 DEF ArenasAreCurrent
<1>14. MessagesAreTrue'
  <2>1. coordinator.attempt \in Nat
    BY DEF TypeOK, Coordinator
  <2>2. ASSUME NEW n \in messages PROVE n.kind = "Complete" => AdoptedByAll(n)'
    BY <1>1, AdoptedStays DEF MessagesAreTrue
  <2>3. ASSUME NEW n \in messages'
        PROVE  n.kind = "Complete" => AdoptedByAll(n)'
    BY <1>1, <1>8, <2>2
  <2>4. QED
    BY <1>1, <1>9, <1>10, <2>1, <2>3 DEF MessagesAreTrue
<1>15. ExecutableIsDecided'
  BY <1>1, <1>10 DEF ExecutableIsDecided, Sent
<1>16. QED
  BY <1>11, <1>12, <1>13, <1>14, <1>15

\* A step of a rank that leaves the coordinator alone, gives its arena a
\* value of the attempt, and sends nothing or one true message.
LEMMA AllocateKeeps == ASSUME IInv, NEW r \in Ranks, Allocate(r) PROVE IInv'
<1> USE DEF IInv
<1> DEFINE a == allocated(coordinator.plan, r, coordinator.generations[r])
<1>1. /\ coordinator' = coordinator /\ messages' = messages
      /\ arenas[r] = NONE
      /\ arenas' = [arenas EXCEPT ![r] = a]
  BY DEF Allocate
<1>2. /\ a \in Arena /\ a.rank = r /\ a.plan = coordinator.plan
      /\ a.generation = coordinator.attempt /\ a.state = "Allocated"
  BY DEF allocated, TypeOK, Coordinator, CoordinatorIsCurrent, Arena, ArenaState
<1> HIDE DEF a
<1>3. TypeOK'
  BY <1>1, <1>2 DEF TypeOK
<1>4. CoordinatorIsCurrent'
  BY <1>1 DEF CoordinatorIsCurrent, Sent
<1>5. ArenasAreCurrent'
  BY <1>1, <1>2 DEF ArenasAreCurrent, TypeOK
<1>6. MessagesAreTrue'
  BY <1>1, <1>2 DEF MessagesAreTrue, TypeOK, AdoptedByAll, Sent
<1>7. ExecutableIsDecided'
  BY <1>1, <1>2 DEF ExecutableIsDecided, Sent, TypeOK
<1>8. QED
  BY <1>3, <1>4, <1>5, <1>6, <1>7

LEMMA StageKeeps == ASSUME IInv, NEW r \in Ranks, Stage(r) PROVE IInv'
<1> USE DEF IInv
<1>1. arenas[r] \in Arena /\ arenas[r].state = "Allocated" /\ arenas[r] # NONE
  BY DEF Stage, begin_staging, TypeOK
<1> DEFINE a == [arenas[r] EXCEPT !.state = "Staging"]
<1>2. /\ coordinator' = coordinator /\ messages' = messages
      /\ arenas' = [arenas EXCEPT ![r] = a]
  BY <1>1, Zenon DEF Stage, begin_staging
<1>3. /\ a \in Arena /\ a.rank = arenas[r].rank /\ a.plan = arenas[r].plan
      /\ a.generation = arenas[r].generation /\ a.state = "Staging"
  BY <1>1 DEF Arena, ArenaState
<1> HIDE DEF a
<1>4. TypeOK'
  BY <1>2, <1>3 DEF TypeOK
<1>5. CoordinatorIsCurrent'
  BY <1>2 DEF CoordinatorIsCurrent, Sent
<1>6. ArenasAreCurrent'
  BY <1>1, <1>2, <1>3 DEF ArenasAreCurrent, TypeOK
<1>7. MessagesAreTrue'
  BY <1>1, <1>2, <1>3 DEF MessagesAreTrue, TypeOK, AdoptedByAll, Sent
<1>8. ExecutableIsDecided'
  BY <1>1, <1>2, <1>3 DEF ExecutableIsDecided, Sent, TypeOK
<1>9. QED
  BY <1>4, <1>5, <1>6, <1>7, <1>8

\* A receipt built from evidence of the plan is valid for it.
LEMMA BuiltReceipt ==
    ASSUME NEW plan \in Plans, NEW r \in Ranks, NEW g \in Nat,
           NEW payload, NEW upload, NEW device, NEW receipt, receipt # NONE,
           receipt = PreparedRankReceipt(plan, r, g,
                       VerificationEvidence(plan, r, g, payload, upload, device))
    PROVE  /\ receipt \in Receipt
           /\ receipt.rank = r /\ receipt.generation = g
           /\ ValidReceipt(receipt, plan)
<1> DEFINE evidence == VerificationEvidence(plan, r, g, payload, upload, device)
<1>1. evidence # NONE
  BY DEF PreparedRankReceipt
<1>2. evidence = [rank |-> r, plan |-> plan, generation |-> g]
  BY <1>1 DEF VerificationEvidence
<1>3. receipt = [rank |-> r, plan |-> plan, generation |-> g, expected |-> Expected(plan, r),
                 evidence |-> [rank |-> r, plan |-> plan, generation |-> g]]
  BY <1>2 DEF PreparedRankReceipt
<1>4. QED
  BY <1>3 DEF Receipt, Evidence, Expected, ValidReceipt

LEMMA PrepareKeeps == ASSUME IInv, NEW r \in Ranks, Prepare(r) PROVE IInv'
<1> USE DEF IInv
<1> DEFINE a == arenas[r]
<1>1. a \in Arena /\ a # NONE /\ a.state = "Staging" /\ coordinator' = coordinator
  BY DEF Prepare, TypeOK
<1>2. /\ a.rank = r /\ a.plan = coordinator.plan /\ a.generation = coordinator.attempt
      /\ a.plan \in Plans /\ a.generation \in Nat /\ coordinator.attempt \in Nat
  BY <1>1 DEF ArenasAreCurrent, TypeOK, Coordinator
<1>3. CASE messages' = messages \cup {Message("failure", r)} /\ arenas' = arenas
  <2>1. /\ Message("failure", r) \in Messages
        /\ Message("failure", r).kind = "failure"
        /\ Message("failure", r).attempt = coordinator.attempt
    BY <1>2 DEF Message, Messages
  <2> HIDE DEF a
  <2>2. TypeOK'
    BY <1>1, <1>3, <2>1 DEF TypeOK
  <2>3. CoordinatorIsCurrent' /\ ArenasAreCurrent' /\ ExecutableIsDecided'
    BY <1>1, <1>3 DEF CoordinatorIsCurrent, ArenasAreCurrent, ExecutableIsDecided, Sent
  <2>4. ASSUME NEW n \in messages PROVE n.kind = "Complete" => AdoptedByAll(n)'
    BY <1>3, AdoptedStays DEF MessagesAreTrue
  <2>5. MessagesAreTrue'
    BY <1>1, <1>2, <1>3, <2>1, <2>4 DEF MessagesAreTrue
  <2>6. QED
    BY <2>2, <2>3, <2>5
<1>4. CASE \E receipt :
             /\ receipt # NONE /\ receipt \in Receipt
             /\ receipt.rank = r /\ receipt.generation = a.generation
             /\ ValidReceipt(receipt, a.plan)
             /\ messages' = messages \cup {Message("prepared", receipt)}
             /\ arenas' = [arenas EXCEPT ![r] = prepare(a, a.plan, receipt)]
  <2>1. PICK receipt :
             /\ receipt # NONE /\ receipt \in Receipt
             /\ receipt.rank = r /\ receipt.generation = a.generation
             /\ ValidReceipt(receipt, a.plan)
             /\ messages' = messages \cup {Message("prepared", receipt)}
             /\ arenas' = [arenas EXCEPT ![r] = prepare(a, a.plan, receipt)]
    BY <1>4, Zenon
  <2> DEFINE b == [a EXCEPT !.prepared = receipt, !.state = "Prepared"]
  <2>2. arenas' = [arenas EXCEPT ![r] = b]
    BY <1>1, <1>2, <2>1 DEF prepare
  <2>3. /\ b \in Arena /\ b.rank = a.rank /\ b.plan = a.plan /\ b.generation = a.generation
        /\ b.state = "Prepared" /\ b.prepared = receipt
    BY <1>1, <2>1, Zenon DEF Arena, ArenaState
  <2>4. /\ Message("prepared", receipt) \in Messages
        /\ Message("prepared", receipt).kind = "prepared"
        /\ Message("prepared", receipt).attempt = coordinator.attempt
    BY <1>2, <2>1 DEF Message, Messages
  <2> HIDE DEF b
  <2>5. TypeOK'
    BY <1>1, <2>1, <2>2, <2>3, <2>4 DEF TypeOK
  <2>6. CoordinatorIsCurrent'
    BY <1>1, <2>1 DEF CoordinatorIsCurrent, Sent
  <2>7. ArenasAreCurrent'
    BY <1>1, <1>2, <2>1, <2>2, <2>3 DEF ArenasAreCurrent, TypeOK
  <2>8. ASSUME NEW n \in messages PROVE n.kind = "Complete" => AdoptedByAll(n)'
    BY <2>1, AdoptedStays DEF MessagesAreTrue
  <2>9. MessagesAreTrue'
    BY <1>1, <1>2, <2>1, <2>2, <2>3, <2>4, <2>8 DEF MessagesAreTrue, TypeOK
  <2>10. ExecutableIsDecided'
    BY <1>1, <2>1, <2>2, <2>3 DEF ExecutableIsDecided, Sent, TypeOK
  <2>11. QED
    BY <2>5, <2>6, <2>7, <2>9, <2>10
<1>5. QED
  <2>1. PICK payload, upload, device :
          LET receipt == PreparedRankReceipt(a.plan, r, a.generation,
                           VerificationEvidence(a.plan, r, a.generation, payload, upload,
                                                <<device, a.generation>>))
          IN  IF receipt = NONE
              THEN messages' = messages \cup {Message("failure", r)} /\ arenas' = arenas
              ELSE /\ messages' = messages \cup {Message("prepared", receipt)}
                   /\ arenas' = [arenas EXCEPT ![r] = prepare(a, a.plan, receipt)]
    BY DEF Prepare
  <2> DEFINE receipt == PreparedRankReceipt(a.plan, r, a.generation,
                           VerificationEvidence(a.plan, r, a.generation, payload, upload,
                                                <<device, a.generation>>))
  <2>2. CASE receipt = NONE
    BY <1>3, <2>1, <2>2
  <2>3. CASE receipt # NONE
    <3>1. /\ receipt \in Receipt /\ receipt.rank = r /\ receipt.generation = a.generation
          /\ ValidReceipt(receipt, a.plan)
      BY <1>2, <2>3, BuiltReceipt
    <3>2. QED
      BY <1>4, <2>1, <2>3, <3>1
  <2>4. QED
    BY <2>2, <2>3

LEMMA RankFailsKeeps == ASSUME IInv, NEW r \in Ranks, RankFails(r) PROVE IInv'
<1> USE DEF IInv
<1>1. /\ coordinator' = coordinator /\ arenas' = arenas
      /\ messages' = messages \cup {Message("failure", r)}
  BY DEF RankFails
<1>2. /\ Message("failure", r) \in Messages
      /\ Message("failure", r).kind = "failure"
      /\ Message("failure", r).attempt = coordinator.attempt
      /\ coordinator.attempt \in Nat
  BY DEF Message, Messages, TypeOK, Coordinator
<1>3. TypeOK'
  BY <1>1, <1>2 DEF TypeOK
<1>4. CoordinatorIsCurrent' /\ ArenasAreCurrent' /\ ExecutableIsDecided'
  BY <1>1 DEF CoordinatorIsCurrent, ArenasAreCurrent, ExecutableIsDecided, Sent
<1>5. ASSUME NEW n \in messages PROVE n.kind = "Complete" => AdoptedByAll(n)'
  BY <1>1, AdoptedStays DEF MessagesAreTrue
<1>6. MessagesAreTrue'
  BY <1>1, <1>2, <1>5 DEF MessagesAreTrue
<1>7. QED
  BY <1>3, <1>4, <1>6

\* A rank pledges itself only to a set its own receipt is in, so its
\* acknowledgement is of this attempt.
LEMMA AcknowledgeKeeps == ASSUME IInv, NEW r \in Ranks, Acknowledge(r) PROVE IInv'
<1> USE DEF IInv
<1>1. PICK m \in Deliverable("Adopt") :
        \E a \in {acknowledge_adoption(arenas[r], m.value)} \ {NONE} :
            /\ arenas' = [arenas EXCEPT ![r] = a]
            /\ messages' = messages \cup
                 {Message("acknowledged", AdoptionAcknowledgement(m.value, r, a.generation))}
  BY Zenon DEF Acknowledge
<1>2. arenas[r] \in Arena /\ arenas[r] # NONE /\ coordinator' = coordinator
  BY DEF Acknowledge, TypeOK
<1>3. m \in messages /\ m.value \in RankSet
  BY DEF Deliverable, Sent, TypeOK, Messages
<1>4. /\ arenas[r].state = "Prepared" /\ m.value.plan = arenas[r].plan
      /\ m.value.receipts[arenas[r].rank] = arenas[r].prepared
  BY <1>1 DEF acknowledge_adoption
<1> DEFINE a == [arenas[r] EXCEPT !.set = m.value.receipts, !.state = "Adopted"]
           ack == AdoptionAcknowledgement(m.value, r, arenas[r].generation)
<1>5. /\ a \in Arena /\ a.rank = arenas[r].rank /\ a.plan = arenas[r].plan
      /\ a.generation = arenas[r].generation /\ a.state = "Adopted"
      /\ a.set = m.value.receipts
  BY <1>2, <1>3, Zenon DEF Arena, ArenaState, RankSet
<1>6. /\ arenas' = [arenas EXCEPT ![r] = a]
      /\ messages' = messages \cup {Message("acknowledged", ack)}
  BY <1>1, <1>4, <1>5, Zenon DEF acknowledge_adoption
<1>7. /\ arenas[r].rank = r /\ arenas[r].generation = coordinator.attempt
      /\ arenas[r].plan = coordinator.plan
      /\ arenas[r].prepared.generation = coordinator.attempt
      /\ coordinator.attempt \in Nat /\ coordinator.plan \in Plans
  BY <1>2, <1>4 DEF ArenasAreCurrent, TypeOK, Coordinator
<1>8. ack \in Acknowledgement /\ ack.rank = r /\ ack.generation = coordinator.attempt
  BY <1>3, <1>4, <1>7 DEF AdoptionAcknowledgement, Acknowledgement, RankSet
<1>9. a.set[r].generation = coordinator.attempt
  BY <1>4, <1>5, <1>7
<1> HIDE DEF a, ack
<1>10. /\ Message("acknowledged", ack) \in Messages
       /\ Message("acknowledged", ack).kind = "acknowledged"
       /\ Message("acknowledged", ack).attempt = coordinator.attempt
       /\ Message("acknowledged", ack).value = ack
  BY <1>7, <1>8 DEF Message, Messages
<1>11. TypeOK'
  BY <1>2, <1>5, <1>6, <1>10 DEF TypeOK
<1>12. CoordinatorIsCurrent'
  BY <1>2, <1>6 DEF CoordinatorIsCurrent, Sent
<1>13. ArenasAreCurrent'
  BY <1>2, <1>5, <1>6, <1>7, <1>9 DEF ArenasAreCurrent, TypeOK
<1>14. MessagesAreTrue'
  <2>1. ASSUME NEW n \in messages PROVE n.kind = "Complete" => AdoptedByAll(n)'
    BY <1>6, AdoptedStays DEF MessagesAreTrue
  <2>2. a # NONE
    BY <1>5, RankSetAssumption
  <2>3. ASSUME NEW n \in messages'
        PROVE  n \in messages \/ n = Message("acknowledged", ack)
    BY <1>6
  <2>4. \A q \in Ranks : q # r => arenas'[q] = arenas[q]
    BY <1>6
  <2>5. arenas'[r] = a
    BY <1>6 DEF TypeOK
  <2>6. ASSUME NEW n \in messages, n.kind = "acknowledged"
        PROVE  n.value.rank \in Ranks
    BY <2>6 DEF TypeOK, Messages, Acknowledgement
  <2>7. QED
    BY <1>2, <1>5, <1>7, <1>8, <1>10, <2>1, <2>2, <2>3, <2>4, <2>5, <2>6 DEF MessagesAreTrue
<1>15. ExecutableIsDecided'
  BY <1>2, <1>5, <1>6 DEF ExecutableIsDecided, Sent, TypeOK
<1>16. QED
  BY <1>11, <1>12, <1>13, <1>14, <1>15

\* The Complete message whose set is this arena's is of this attempt.
LEMMA FinalizeKeeps == ASSUME IInv, NEW r \in Ranks, Finalize(r) PROVE IInv'
<1> USE DEF IInv
<1>1. PICK m \in Deliverable("Complete") :
        \E a \in {execution_permit(arenas[r], m.value)} \ {NONE} :
            arenas' = [arenas EXCEPT ![r] = a]
  BY Zenon DEF Finalize
<1>2. /\ arenas[r] \in Arena /\ arenas[r] # NONE
      /\ coordinator' = coordinator /\ messages' = messages
  BY DEF Finalize, TypeOK
<1>3. m \in messages /\ m.kind = "Complete" /\ m.attempt \in Nat
  BY DEF Deliverable, Sent, TypeOK, Messages
<1>4. /\ arenas[r].state = "Adopted" /\ m.value.plan = arenas[r].plan
      /\ m.value.set = arenas[r].set
  BY <1>1 DEF execution_permit
<1> DEFINE a == [arenas[r] EXCEPT !.state = "Executable"]
<1>5. /\ a \in Arena /\ a.rank = arenas[r].rank /\ a.plan = arenas[r].plan
      /\ a.generation = arenas[r].generation /\ a.state = "Executable"
      /\ a.set = arenas[r].set
  BY <1>2 DEF Arena, ArenaState
<1>6. arenas' = [arenas EXCEPT ![r] = a]
  BY <1>1, <1>4, Zenon DEF execution_permit
<1>7. m.attempt = coordinator.attempt
  <2>1. AdoptedByAll(m)
    BY <1>3 DEF MessagesAreTrue
  <2>2. arenas[r].set[r].generation = coordinator.attempt
    BY <1>2, <1>4 DEF ArenasAreCurrent
  <2>3. QED
    BY <1>4, <2>1, <2>2, Zenon DEF AdoptedByAll
<1> HIDE DEF a
<1>8. TypeOK'
  BY <1>2, <1>5, <1>6 DEF TypeOK
<1>9. CoordinatorIsCurrent'
  BY <1>2 DEF CoordinatorIsCurrent, Sent
<1>10. ArenasAreCurrent'
  BY <1>2, <1>4, <1>5, <1>6 DEF ArenasAreCurrent, TypeOK
<1>11. MessagesAreTrue'
  <2>1. a # NONE
    BY <1>5, RankSetAssumption
  <2>2. arenas'[r] = a /\ \A q \in Ranks : q # r => arenas'[q] = arenas[q]
    BY <1>6 DEF TypeOK
  <2>3. ASSUME NEW n \in messages PROVE n.kind = "Complete" => AdoptedByAll(n)'
    BY <1>2, AdoptedStays DEF MessagesAreTrue
  <2>4. ASSUME NEW n \in messages, n.kind = "acknowledged"
        PROVE  n.value.rank \in Ranks
    BY <2>4 DEF TypeOK, Messages, Acknowledgement
  <2>5. QED
    BY <1>2, <1>5, <2>1, <2>2, <2>3, <2>4 DEF MessagesAreTrue
<1>12. ExecutableIsDecided'
  <2>1. m \in Sent("Complete")
    BY <1>3 DEF Sent
  <2>2. QED
    BY <1>2, <1>4, <1>5, <1>6, <1>7, <2>1 DEF ExecutableIsDecided, Sent, TypeOK
<1>13. QED
  BY <1>8, <1>9, <1>10, <1>11, <1>12

\* A rank aborts only after the coordinator did.
LEMMA AbortRankKeeps == ASSUME IInv, NEW r \in Ranks, AbortRank(r) PROVE IInv'
<1> USE DEF IInv
<1> DEFINE b == IF arenas[r] = NONE
                THEN [allocated(coordinator.plan, r, coordinator.generations[r])
                        EXCEPT !.state = "Aborted"]
                ELSE arenas[r]
           a == [b EXCEPT !.state = "Aborted", !.prepared = NONE, !.set = NONE]
<1>1. /\ coordinator' = coordinator /\ messages' = messages
      /\ arenas' = [arenas EXCEPT ![r] = a]
  <2>1. arenas' = [arenas EXCEPT ![r] = abort(b).arena]
    BY DEF AbortRank
  <2>2. abort(b).arena = a
    BY DEF abort
  <2>3. QED
    BY <2>1, <2>2, Zenon DEF AbortRank
<1>2. coordinator.state = "Aborted"
  BY DEF AbortRank, Sent, MessagesAreTrue
<1>3. /\ b \in Arena /\ b.rank = r /\ b.plan = coordinator.plan
      /\ b.generation = coordinator.attempt
  BY DEF allocated, TypeOK, Coordinator, CoordinatorIsCurrent, ArenasAreCurrent, Arena, ArenaState
<1>4. /\ a \in Arena /\ a.rank = r /\ a.plan = coordinator.plan
      /\ a.generation = coordinator.attempt /\ a.state = "Aborted"
  BY <1>3, Zenon DEF Arena, ArenaState
<1> HIDE DEF a, b
<1>5. TypeOK'
  BY <1>1, <1>4 DEF TypeOK
<1>6. CoordinatorIsCurrent'
  BY <1>1 DEF CoordinatorIsCurrent, Sent
<1>7. ArenasAreCurrent'
  BY <1>1, <1>2, <1>4 DEF ArenasAreCurrent, TypeOK
<1>8. MessagesAreTrue'
  <2>1. ASSUME NEW n \in messages PROVE n.kind = "Complete" => AdoptedByAll(n)'
    BY <1>1, AdoptedStays DEF MessagesAreTrue
  <2>2. QED
    BY <1>1, <1>2, <2>1 DEF MessagesAreTrue
<1>9. ExecutableIsDecided'
  BY <1>1, <1>4 DEF ExecutableIsDecided, Sent, TypeOK
<1>10. QED
  BY <1>5, <1>6, <1>7, <1>8, <1>9

LEMMA DeliveriesKeep == ASSUME IInv, CoordinatorStep \/ PhaseTimeout PROVE IInv'
<1>1. coordinator \in Coordinator /\ messages \subseteq Messages
  BY DEF IInv, TypeOK
<1>2. CASE DeliverPrepared
  <2>1. PICK m \in Deliverable("prepared") : Report(report_prepared(coordinator, m.value))
    BY <1>2 DEF DeliverPrepared
  <2>2. m.value \in Receipt
    BY <1>1 DEF Deliverable, Sent, Messages
  <2> DEFINE o == report_prepared(coordinator, m.value)
  <2>3. GivesUp(coordinator, o) \/ Collects(coordinator, m.value, o)
          \/ Proposes(coordinator, m.value, o)
    BY <1>1, <2>2, PreparedOutcome
  <2>4. Report(o)
    BY <2>1
  <2> HIDE DEF o
  <2>5. QED
    BY <2>2, <2>3, <2>4, GivingUpKeeps, CollectingKeeps, ProposingKeeps
<1>3. CASE DeliverAcknowledgement
  <2>1. PICK m \in Deliverable("acknowledged") :
          Report(report_adoption_acknowledgement(coordinator, m.value))
    BY <1>3 DEF DeliverAcknowledgement
  <2>2. m \in Sent("acknowledged") /\ m.value \in Acknowledgement
    BY <1>1 DEF Deliverable, Sent, Messages
  <2> DEFINE o == report_adoption_acknowledgement(coordinator, m.value)
  <2>3. coordinator.state = "Adopting" => coordinator.set # NONE
    BY DEF IInv, CoordinatorIsCurrent
  <2>4. GivesUp(coordinator, o) \/ Gathers(coordinator, m.value, o)
          \/ Concludes(coordinator, m.value, o)
    BY <1>1, <2>2, <2>3, AcknowledgementOutcome
  <2>5. Report(o)
    BY <2>1
  <2> HIDE DEF o
  <2>6. QED
    BY <2>2, <2>4, <2>5, GivingUpKeeps, GatheringKeeps, ConcludingKeeps
<1>4. CASE DeliverFailure
  <2>1. PICK m \in Deliverable("failure") :
          Report(report_rank_failure(coordinator, m.value, "Rank"))
    BY <1>4 DEF DeliverFailure
  <2>2. m.value \in Ranks
    BY <1>1 DEF Deliverable, Sent, Messages
  <2>3. GivesUp(coordinator, report_rank_failure(coordinator, m.value, "Rank"))
    BY <1>1, <2>2, FailureOutcome
  <2>4. QED
    BY <2>1, <2>3, GivingUpKeeps
<1>5. CASE PhaseTimeout
  <2>1. PICK r \in Ranks : Report(report_rank_failure(coordinator, r, "Timeout"))
    BY <1>5 DEF PhaseTimeout
  <2>2. GivesUp(coordinator, report_rank_failure(coordinator, r, "Timeout"))
    BY <1>1, FailureOutcome
  <2>3. QED
    BY <2>1, <2>2, GivingUpKeeps
<1>6. QED
  BY <1>2, <1>3, <1>4, <1>5 DEF CoordinatorStep

\* Whatever is still under way when the next attempt starts is of an earlier
\* one.
LEMMA NextAttemptKeeps == ASSUME IInv, NextAttempt PROVE IInv'
<1> USE DEF IInv
<1>1. PICK plan \in Plans :
           coordinator' = NewCoordinator(plan, coordinator.attempt + 1,
                                         OwnerGenerations(coordinator.attempt + 1))
  BY DEF NextAttempt
<1>2. coordinator.attempt \in Nat
  BY DEF TypeOK, Coordinator
<1>3. /\ coordinator' \in Coordinator
      /\ coordinator'.attempt = coordinator.attempt + 1
      /\ coordinator'.state = "Preparing"
      /\ coordinator'.generations = [r \in Ranks |-> coordinator'.attempt]
      /\ \A r \in Ranks : coordinator'.prepared[r] = NONE
      /\ \A r \in Ranks : coordinator'.acknowledgements[r] = NONE
      /\ coordinator'.set = NONE
  BY <1>1, <1>2 DEF NewCoordinator, OwnerGenerations, Coordinator, CoordinatorState
<1>4. arenas' = [r \in Ranks |-> NONE] /\ messages' = messages
  BY DEF NextAttempt
<1>5. TypeOK'
  BY <1>3, <1>4 DEF TypeOK
<1>6. CoordinatorIsCurrent'
  BY <1>3 DEF CoordinatorIsCurrent
<1>7. ArenasAreCurrent' /\ ExecutableIsDecided'
  BY <1>4 DEF ArenasAreCurrent, ExecutableIsDecided
<1>8. MessagesAreTrue'
  <2>1. ASSUME NEW n \in messages PROVE n.kind = "Complete" => AdoptedByAll(n)'
    BY <1>4, AdoptedStays DEF MessagesAreTrue
  <2>2. ASSUME NEW n \in messages
        PROVE  n.attempt \in Nat /\ (n.kind = "acknowledged" => n.value.generation \in Nat)
    BY DEF TypeOK, Messages, Acknowledgement
  <2>3. QED
    BY <1>2, <1>3, <1>4, <2>1, <2>2 DEF MessagesAreTrue
<1>9. QED
  BY <1>5, <1>6, <1>7, <1>8

LEMMA StepKeepsIInv == IInv /\ [Next]_vars => IInv'
<1> SUFFICES ASSUME IInv, [Next]_vars PROVE IInv'
  BY SMTT(30)
<1>1. CASE UNCHANGED vars
  <2>1. TypeOK' /\ CoordinatorIsCurrent'
    BY <1>1 DEF vars, IInv, TypeOK, CoordinatorIsCurrent, Sent
  <2>2. ArenasAreCurrent' /\ ExecutableIsDecided'
    BY <1>1 DEF vars, IInv, ArenasAreCurrent, ExecutableIsDecided, Sent
  <2>3. MessagesAreTrue'
    BY <1>1 DEF vars, IInv, MessagesAreTrue, AdoptedByAll, Sent
  <2>4. QED
    BY <2>1, <2>2, <2>3 DEF IInv
<1>2. ASSUME NEW r \in Ranks, RankStep(r) PROVE IInv'
  BY <1>2, AllocateKeeps, StageKeeps, PrepareKeeps, AcknowledgeKeeps, FinalizeKeeps DEF RankStep
<1>3. ASSUME NEW r \in Ranks, AbortRank(r) \/ RankFails(r) PROVE IInv'
  BY <1>3, AbortRankKeeps, RankFailsKeeps
<1>4. CASE CoordinatorStep \/ PhaseTimeout
  BY <1>4, DeliveriesKeep
<1>5. CASE NextAttempt
  BY <1>5, NextAttemptKeeps
<1>6. QED
  BY <1>1, <1>2, <1>3, <1>4, <1>5 DEF Next

LEMMA IInvHolds == Spec => []IInv
BY InitIInv, StepKeepsIInv, PTL DEF Spec

\* No set is sent for adoption and no rank gets its permit on a receipt of
\* an earlier attempt, and a permit needs an acknowledgement of every rank
\* (RankSetLoadCoordinator and RankArenaLifecycle of checkpoint_load.rs).
THEOREM PermitsAreCurrent == Spec => []PermitsAreOfThisAttempt
<1>1. IInv => PermitsAreOfThisAttempt
  <2> SUFFICES ASSUME IInv PROVE PermitsAreOfThisAttempt
    OBVIOUS
  <2>1. SetIsOfThisAttempt
    BY DEF IInv, CoordinatorIsCurrent, SetIsOfThisAttempt
  <2>2. PermitNeedsEveryRank
    <3> SUFFICES ASSUME NEW r \in Ranks, arenas[r] # NONE, arenas[r].state = "Executable",
                        NEW q \in Ranks
                 PROVE  /\ arenas[r].set[q].generation = coordinator.attempt
                        /\ \E m \in Sent("acknowledged") :
                             m.value = [rank |-> q, plan |-> coordinator.plan,
                                        set |-> arenas[r].set,
                                        generation |-> coordinator.attempt]
      BY DEF PermitNeedsEveryRank
    <3>1. PICK m \in Sent("Complete") :
            /\ m.attempt = coordinator.attempt
            /\ m.value.plan = arenas[r].plan
            /\ m.value.set = arenas[r].set
      BY DEF IInv, ExecutableIsDecided
    <3>2. AdoptedByAll(m)
      BY DEF Sent, IInv, MessagesAreTrue
    <3>3. arenas[r].plan = coordinator.plan
      BY DEF IInv, ArenasAreCurrent
    <3>4. QED
      BY <3>1, <3>2, <3>3 DEF AdoptedByAll
  <2>3. QED
    BY <2>1, <2>2 DEF PermitsAreOfThisAttempt
<1>2. QED
  BY <1>1, IInvHolds, PTL
-----------------------------------------------------------------------------
(* The refinement: every step is a step of AtomicAdoption or a stutter.    *)

Aborted == coordinator.state = "Aborted"
Decided == \E m \in Sent("Complete") : m.attempt = coordinator.attempt
View == [r \in Ranks |-> ArenaView(r)]

LEMMA InitView == Init => Atomic!AtomicInit
<1> SUFFICES ASSUME Init PROVE Atomic!AtomicInit
  OBVIOUS
<1>1. ~Aborted
  BY DEF Init, NewCoordinator, OwnerGenerations, Aborted
<1>2. ~Decided
  BY DEF Init, Decided, Sent
<1>3. View = [r \in Ranks |-> "empty"]
  BY DEF Init, View, ArenaView
<1>4. QED
  BY <1>1, <1>2, <1>3 DEF Atomic!AtomicInit, Aborted, Decided, View

\* A step of one rank's arena changes the view at that rank only.
LEMMA OneViewChanges ==
    ASSUME NEW r \in Ranks, NEW a, arenas \in [Ranks -> Arena \cup {NONE}],
           arenas' = [arenas EXCEPT ![r] = a], NEW v, ArenaView(r)' = v
    PROVE  View' = [View EXCEPT ![r] = v]
<1>1. ASSUME NEW q \in Ranks, q # r PROVE ArenaView(q)' = ArenaView(q)
  <2>1. arenas'[q] = arenas[q]
    BY <1>1
  <2>2. arenas[q] # NONE => arenas[q].state \in ArenaState
    BY DEF Arena
  <2>3. QED
    BY <2>1, <2>2 DEF ArenaView, ArenaState
<1>2. QED
  BY <1>1, Zenon DEF View

\* Without a new Complete message the decision is what it was.
LEMMA DecisionStays ==
    ASSUME coordinator'.attempt = coordinator.attempt, NEW sent,
           messages' = messages \cup {sent}, sent.kind # "Complete"
    PROVE  Decided' = Decided
BY DEF Decided, Sent

LEMMA Stutters ==
    ASSUME Aborted' = Aborted, Decided' = Decided, View' = View
    PROVE  [Atomic!AtomicNext]_(Atomic!view)
BY DEF Atomic!view, Aborted, Decided, View

LEMMA AllocateView ==
    ASSUME IInv, NEW r \in Ranks, Allocate(r) PROVE Atomic!Hold(r)
<1> DEFINE a == allocated(coordinator.plan, r, coordinator.generations[r])
<1>1. /\ coordinator' = coordinator /\ messages' = messages /\ arenas[r] = NONE
      /\ arenas' = [arenas EXCEPT ![r] = a] /\ arenas \in [Ranks -> Arena \cup {NONE}]
  BY DEF Allocate, IInv, TypeOK
<1>2. a \in Arena /\ a.state = "Allocated"
  BY DEF allocated, IInv, TypeOK, Coordinator, Arena, ArenaState
<1>3. arenas'[r] = a /\ arenas'[r] # NONE
  BY <1>1, <1>2, RankSetAssumption
<1>4. ArenaView(r)' = "quarantined"
  BY <1>2, <1>3 DEF ArenaView
<1>5. View[r] = "empty"
  BY <1>1 DEF View, ArenaView
<1>6. View' = [View EXCEPT ![r] = "quarantined"]
  BY <1>1, <1>4, OneViewChanges, Zenon
<1>7. Aborted' = Aborted /\ Decided' = Decided
  BY <1>1 DEF Aborted, Decided, Sent
<1>8. QED
  BY <1>5, <1>6, <1>7 DEF Atomic!Hold, Atomic!Become, View, Aborted, Decided

LEMMA StageView ==
    ASSUME IInv, NEW r \in Ranks, Stage(r) PROVE [Atomic!AtomicNext]_(Atomic!view)
<1>1. /\ arenas[r] \in Arena /\ arenas[r].state = "Allocated" /\ arenas[r] # NONE
      /\ arenas \in [Ranks -> Arena \cup {NONE}]
  BY DEF Stage, begin_staging, IInv, TypeOK
<1> DEFINE a == [arenas[r] EXCEPT !.state = "Staging"]
<1>2. /\ coordinator' = coordinator /\ messages' = messages
      /\ arenas' = [arenas EXCEPT ![r] = a]
  BY <1>1, Zenon DEF Stage, begin_staging
<1>3. a \in Arena /\ a.state = "Staging" /\ a # NONE
  BY <1>1, RankSetAssumption DEF Arena, ArenaState
<1> HIDE DEF a
<1>4. ArenaView(r)' = "quarantined" /\ ArenaView(r) = "quarantined"
  BY <1>1, <1>2, <1>3 DEF ArenaView
<1>5. View' = View
  BY <1>1, <1>2, <1>4, OneViewChanges, Zenon DEF View
<1>6. Aborted' = Aborted /\ Decided' = Decided
  BY <1>2 DEF Aborted, Decided, Sent
<1>7. QED
  BY <1>5, <1>6, Stutters

LEMMA PrepareView ==
    ASSUME IInv, NEW r \in Ranks, Prepare(r) PROVE [Atomic!AtomicNext]_(Atomic!view)
<1> DEFINE a == arenas[r]
<1>1. /\ a \in Arena /\ a # NONE /\ a.state = "Staging" /\ coordinator' = coordinator
      /\ arenas \in [Ranks -> Arena \cup {NONE}]
  BY DEF Prepare, IInv, TypeOK
<1>2. a.rank = r /\ a.plan \in Plans /\ a.generation \in Nat
  BY <1>1, SMTT(30) DEF IInv, ArenasAreCurrent, Arena
<1>3. PICK payload, upload, device :
        LET receipt == PreparedRankReceipt(a.plan, r, a.generation,
                         VerificationEvidence(a.plan, r, a.generation, payload, upload,
                                              <<device, a.generation>>))
        IN  IF receipt = NONE
            THEN messages' = messages \cup {Message("failure", r)} /\ arenas' = arenas
            ELSE /\ messages' = messages \cup {Message("prepared", receipt)}
                 /\ arenas' = [arenas EXCEPT ![r] = prepare(a, a.plan, receipt)]
  BY Zenon DEF Prepare
<1> DEFINE receipt == PreparedRankReceipt(a.plan, r, a.generation,
                        VerificationEvidence(a.plan, r, a.generation, payload, upload,
                                             <<device, a.generation>>))
<1>4. Aborted' = Aborted
  BY <1>1 DEF Aborted
<1>5. PICK sent : sent.kind # "Complete" /\ messages' = messages \cup {sent}
  <2>1. CASE receipt = NONE
    BY <1>3, <2>1, Zenon DEF Message
  <2>2. CASE receipt # NONE
    BY <1>3, <2>2, Zenon DEF Message
  <2>3. QED
    BY <2>1, <2>2
<1>6. Decided' = Decided
  BY <1>1, <1>5, DecisionStays
<1>7. View' = View
  <2>1. CASE receipt = NONE
    <3>1. arenas' = arenas
      BY <1>3, <2>1
    <3>2. QED
      BY <3>1 DEF View, ArenaView
  <2>2. CASE receipt # NONE
    <3>1. /\ receipt \in Receipt /\ receipt.rank = r /\ receipt.generation = a.generation
          /\ ValidReceipt(receipt, a.plan)
      BY <1>2, <2>2, BuiltReceipt
    <3> DEFINE b == [a EXCEPT !.prepared = receipt, !.state = "Prepared"]
    <3>2. arenas' = [arenas EXCEPT ![r] = b]
      <4>1. arenas' = [arenas EXCEPT ![r] = prepare(a, a.plan, receipt)]
        BY <1>3, <2>2
      <4>2. prepare(a, a.plan, receipt) = b
        BY <1>1, <1>2, <3>1, Zenon DEF prepare
      <4> QED BY <4>1, <4>2, Zenon
    <3>3. b \in Arena /\ b.state = "Prepared" /\ b # NONE
      BY <1>1, <3>1, RankSetAssumption, ZenonT(30) DEF Arena, ArenaState
    <3> HIDE DEF b
    <3>4. ArenaView(r)' = "quarantined" /\ ArenaView(r) = "quarantined"
      BY <1>1, <3>2, <3>3 DEF ArenaView
    <3>5. QED
      BY <1>1, <3>2, <3>4, OneViewChanges, ZenonT(30) DEF View
  <2>3. QED
    BY <2>1, <2>2
<1>8. QED
  BY <1>4, <1>6, <1>7, Stutters

LEMMA RankFailsView ==
    ASSUME NEW r \in Ranks, RankFails(r) PROVE [Atomic!AtomicNext]_(Atomic!view)
<1>1. coordinator' = coordinator /\ arenas' = arenas
  BY DEF RankFails
<1>2. Decided' = Decided
  <2>1. /\ messages' = messages \cup {Message("failure", r)}
        /\ Message("failure", r).kind # "Complete"
    BY DEF RankFails, Message
  <2>2. QED
    BY <1>1, <2>1, DecisionStays
<1>3. Aborted' = Aborted /\ View' = View
  BY <1>1 DEF Aborted, View, ArenaView
<1>4. QED
  BY <1>2, <1>3, Stutters

LEMMA AcknowledgeView ==
    ASSUME IInv, NEW r \in Ranks, Acknowledge(r) PROVE Atomic!Pledge(r)
<1>1. PICK m \in Deliverable("Adopt") :
        \E a \in {acknowledge_adoption(arenas[r], m.value)} \ {NONE} :
            /\ arenas' = [arenas EXCEPT ![r] = a]
            /\ messages' = messages \cup
                 {Message("acknowledged", AdoptionAcknowledgement(m.value, r, a.generation))}
  BY Zenon DEF Acknowledge
<1>2. /\ arenas[r] \in Arena /\ arenas[r] # NONE /\ coordinator' = coordinator
      /\ arenas \in [Ranks -> Arena \cup {NONE}]
  BY DEF Acknowledge, IInv, TypeOK
<1> DEFINE a == [arenas[r] EXCEPT !.set = m.value.receipts, !.state = "Adopted"]
<1>3. arenas[r].state = "Prepared" /\ arenas' = [arenas EXCEPT ![r] = a] /\ a # NONE
  BY <1>1, Zenon DEF acknowledge_adoption
<1>4. a.state = "Adopted"
  BY <1>2 DEF Arena
<1> HIDE DEF a
<1>5. ArenaView(r)' = "pledged" /\ ArenaView(r) = "quarantined"
  BY <1>2, <1>3, <1>4 DEF ArenaView
<1>6. View' = [View EXCEPT ![r] = "pledged"] /\ View[r] = "quarantined"
  BY <1>2, <1>3, <1>5, OneViewChanges, Zenon DEF View
<1>7. Decided' = Decided
  <2>1. PICK ack : messages' = messages \cup {Message("acknowledged", ack)}
    BY <1>1
  <2>2. Message("acknowledged", ack).kind # "Complete"
    BY DEF Message
  <2>3. QED
    BY <1>2, <2>1, <2>2, DecisionStays
<1>8. Aborted' = Aborted
  BY <1>2 DEF Aborted
<1>9. QED
  BY <1>6, <1>7, <1>8 DEF Atomic!Pledge, Atomic!Become, View, Aborted, Decided

LEMMA FinalizeView ==
    ASSUME IInv, NEW r \in Ranks, Finalize(r) PROVE Atomic!Execute(r)
<1>1. PICK m \in Deliverable("Complete") :
        \E a \in {execution_permit(arenas[r], m.value)} \ {NONE} :
            arenas' = [arenas EXCEPT ![r] = a]
  BY Zenon DEF Finalize
<1>2. /\ arenas[r] \in Arena /\ arenas[r] # NONE
      /\ coordinator' = coordinator /\ messages' = messages
      /\ arenas \in [Ranks -> Arena \cup {NONE}]
  BY DEF Finalize, IInv, TypeOK
<1> DEFINE a == [arenas[r] EXCEPT !.state = "Executable"]
<1>3. /\ arenas[r].state = "Adopted" /\ m.value.set = arenas[r].set
      /\ arenas' = [arenas EXCEPT ![r] = a] /\ a # NONE
  BY <1>1, Zenon DEF execution_permit
<1>4. a.state = "Executable"
  BY <1>2 DEF Arena
<1> HIDE DEF a
<1>5. ArenaView(r)' = "executable" /\ ArenaView(r) = "pledged"
  BY <1>2, <1>3, <1>4 DEF ArenaView
<1>6. View' = [View EXCEPT ![r] = "executable"] /\ View[r] = "pledged"
  BY <1>2, <1>3, <1>5, OneViewChanges, Zenon DEF View
<1>7. Decided
  <2>1. m \in messages /\ m.kind = "Complete"
    BY DEF Deliverable, Sent
  <2>2. AdoptedByAll(m)
    BY <2>1 DEF IInv, MessagesAreTrue
  <2>3. arenas[r].set[r].generation = coordinator.attempt
    BY <1>2, <1>3 DEF IInv, ArenasAreCurrent
  <2>4. m.attempt = coordinator.attempt
    BY <1>3, <2>2, <2>3, Zenon DEF AdoptedByAll
  <2>5. QED
    BY <2>1, <2>4 DEF Decided, Sent
<1>8. Aborted' = Aborted /\ Decided' = Decided
  BY <1>2 DEF Aborted, Decided, Sent
<1>9. QED
  BY <1>6, <1>7, <1>8 DEF Atomic!Execute, Atomic!Become, View, Aborted, Decided

LEMMA AbortRankView ==
    ASSUME IInv, NEW r \in Ranks, AbortRank(r) PROVE [Atomic!AtomicNext]_(Atomic!view)
<1> DEFINE b == IF arenas[r] = NONE
                THEN [allocated(coordinator.plan, r, coordinator.generations[r])
                        EXCEPT !.state = "Aborted"]
                ELSE arenas[r]
           a == [b EXCEPT !.state = "Aborted", !.prepared = NONE, !.set = NONE]
<1>1. /\ coordinator' = coordinator /\ messages' = messages
      /\ arenas' = [arenas EXCEPT ![r] = a]
      /\ arenas \in [Ranks -> Arena \cup {NONE}]
  <2>1. arenas' = [arenas EXCEPT ![r] = abort(b).arena]
    BY DEF AbortRank
  <2>2. abort(b).arena = a
    BY DEF abort
  <2>3. QED
    BY <2>1, <2>2, Zenon DEF AbortRank, IInv, TypeOK
<1>2. Aborted
  BY DEF AbortRank, Sent, IInv, MessagesAreTrue, Aborted
<1>3. b \in Arena
  BY <1>1 DEF allocated, IInv, TypeOK, Coordinator, Arena, ArenaState
<1>4. a \in Arena /\ a.state = "Aborted" /\ a # NONE
  BY <1>3, RankSetAssumption, Zenon DEF Arena, ArenaState
<1> HIDE DEF a, b
<1>5. ArenaView(r)' = "released"
  BY <1>1, <1>4 DEF ArenaView
<1>6. View' = [View EXCEPT ![r] = "released"]
  BY <1>1, <1>5, OneViewChanges, Zenon
<1>7. Aborted' = Aborted /\ Decided' = Decided
  BY <1>1 DEF Aborted, Decided, Sent
<1>8. CASE View[r] = "released"
  <2>1. View' = View
    BY <1>6, <1>8, Zenon DEF View
  <2>2. QED
    BY <1>7, <2>1, Stutters
<1>9. CASE View[r] # "released"
  <2>1. Atomic!Release(r)
    BY <1>2, <1>6, <1>7, <1>9 DEF Atomic!Release, View, Aborted, Decided
  <2>2. QED
    BY <2>1 DEF Atomic!AtomicNext
<1>10. QED
  BY <1>8, <1>9

\* Giving up is the abort of AtomicAdoption, or a repetition of it.
LEMMA GivingUpView ==
    ASSUME NEW o, GivesUp(coordinator, o), Report(o)
    PROVE  [Atomic!AtomicNext]_(Atomic!view)
<1> DEFINE act == [kind |-> "Abort", attempt |-> coordinator.attempt, value |-> coordinator.plan]
<1>1. /\ coordinator'.state = "Aborted" /\ coordinator'.attempt = coordinator.attempt
      /\ arenas' = arenas /\ messages' = messages \cup {act} /\ act.kind = "Abort"
  BY DEF GivesUp, Report
<1> HIDE DEF act
<1>2. Aborted'
  BY <1>1 DEF Aborted
<1>3. Decided' = Decided
  BY <1>1, DecisionStays
<1>4. View' = View
  BY <1>1 DEF View, ArenaView
<1>5. CASE Aborted
  <2>1. Aborted' = Aborted
    BY <1>2, <1>5
  <2>2. QED
    BY <1>3, <1>4, <2>1, Stutters
<1>6. CASE ~Aborted
  <2>1. Atomic!Abort
    BY <1>2, <1>3, <1>4, <1>6 DEF Atomic!Abort, View, Aborted, Decided
  <2>2. QED
    BY <2>1 DEF Atomic!AtomicNext
<1>7. QED
  BY <1>5, <1>6

LEMMA WaitingView ==
    ASSUME IInv, NEW v, NEW o, Report(o),
           Collects(coordinator, v, o) \/ Gathers(coordinator, v, o) \/ Proposes(coordinator, v, o)
    PROVE  [Atomic!AtomicNext]_(Atomic!view)
<1>1. coordinator \in Coordinator
  BY DEF IInv, TypeOK
<1>2. /\ coordinator'.attempt = coordinator.attempt
      /\ coordinator.state # "Aborted" /\ coordinator'.state # "Aborted"
  <2>1. CASE Collects(coordinator, v, o) \/ Gathers(coordinator, v, o)
    BY <1>1, <2>1 DEF Collects, Gathers, Report, Coordinator
  <2>2. CASE Proposes(coordinator, v, o)
    BY <1>1, <2>2 DEF Proposes, Report, Coordinator
  <2>3. QED
    BY <2>1, <2>2
<1>3. \/ messages' = messages
      \/ messages' = messages \cup {o.action} /\ o.action.kind # "Complete"
  BY DEF Collects, Gathers, Proposes, Report
<1>4. Decided' = Decided
  <2>1. CASE messages' = messages
    BY <1>2, <2>1 DEF Decided, Sent
  <2>2. QED
    BY <1>2, <1>3, <2>1, DecisionStays
<1>5. Aborted' = Aborted
  BY <1>2 DEF Aborted
<1>6. View' = View
  BY DEF Report, View, ArenaView
<1>7. QED
  BY <1>4, <1>5, <1>6, Stutters

\* The decision finds every rank pledged and none executable.
LEMMA ConcludingView ==
    ASSUME IInv, NEW m \in Sent("acknowledged"), NEW o,
           Concludes(coordinator, m.value, o), Report(o)
    PROVE  Atomic!Adopt
<1> DEFINE acks == With(coordinator.acknowledgements, m.value)
           adopted == [plan |-> coordinator.set.plan, set |-> coordinator.set.receipts]
           act == [kind |-> "Complete", attempt |-> coordinator.attempt, value |-> adopted]
<1>1. /\ o.coordinator = [coordinator EXCEPT !.acknowledgements = acks, !.adopted = adopted,
                                             !.state = "Adopted"]
      /\ o.action = act /\ o.action.kind = "Complete" /\ coordinator.state = "Adopting"
  <2>1. /\ o.coordinator = [coordinator EXCEPT !.acknowledgements = acks, !.adopted = adopted,
                                               !.state = "Adopted"]
        /\ o.action = act
    BY Zenon DEF Concludes
  <2>2. o.action.kind = "Complete"
    BY <2>1
  <2>3. coordinator.state = "Adopting"
    BY DEF Concludes
  <2>4. QED
    BY <2>1, <2>2, <2>3
<1>2. coordinator \in Coordinator
  BY DEF IInv, TypeOK
<1>3. /\ coordinator'.state = "Adopted" /\ coordinator'.attempt = coordinator.attempt
      /\ messages' = messages \cup {act} /\ arenas' = arenas
  BY <1>1, <1>2 DEF Report, Coordinator
<1>4. ~Aborted /\ ~Decided
  BY <1>1 DEF IInv, MessagesAreTrue, Aborted, Decided, Sent
<1>5. ASSUME NEW q \in Ranks PROVE View[q] = "pledged"
  <2>1. /\ acks[q] # NONE
        /\ acks[q] = [rank |-> q, plan |-> coordinator.set.plan, set |-> coordinator.set.receipts,
                      generation |-> coordinator.set.receipts[q].generation]
    BY DEF Concludes
  <2>2. acks[q] \in {m.value, coordinator.acknowledgements[q]}
    BY <1>2 DEF With, Coordinator
  <2>3. PICK n \in Sent("acknowledged") : n.value = acks[q]
    BY <2>1, <2>2, Zenon DEF IInv, CoordinatorIsCurrent
  <2>4. coordinator.set.receipts[q].generation = coordinator.attempt
    BY <1>1 DEF IInv, CoordinatorIsCurrent
  <2>5. n.value.rank = q /\ n.value.generation = coordinator.attempt
    BY <2>1, <2>3, <2>4
  <2>6. arenas[q] # NONE /\ arenas[q].state \in {"Adopted", "Executable"}
    BY <1>1, <2>5 DEF Sent, IInv, MessagesAreTrue
  <2>7. arenas[q].state # "Executable"
    BY <1>4, <2>6 DEF IInv, ExecutableIsDecided, Decided
  <2>8. QED
    BY <2>6, <2>7 DEF View, ArenaView
<1>6. Decided'
  <2>1. PICK sent : sent = act
    BY Zenon
  <2>2. sent \in messages' /\ sent.kind = "Complete" /\ sent.attempt = coordinator'.attempt
    BY <1>3, <2>1
  <2>3. QED
    BY <2>2 DEF Decided, Sent
<1>7. Aborted' = Aborted
  BY <1>3, <1>4 DEF Aborted
<1>8. View' = View
  BY <1>3 DEF View, ArenaView
<1>9. QED
  BY <1>4, <1>5, <1>6, <1>7, <1>8 DEF Atomic!Adopt, View, Aborted, Decided

LEMMA DeliveriesView ==
    ASSUME IInv, CoordinatorStep \/ PhaseTimeout PROVE [Atomic!AtomicNext]_(Atomic!view)
<1>1. coordinator \in Coordinator /\ messages \subseteq Messages
  BY DEF IInv, TypeOK
<1>2. CASE DeliverPrepared
  <2>1. PICK m \in Deliverable("prepared") : Report(report_prepared(coordinator, m.value))
    BY <1>2 DEF DeliverPrepared
  <2>2. m.value \in Receipt
    BY <1>1 DEF Deliverable, Sent, Messages
  <2> DEFINE o == report_prepared(coordinator, m.value)
  <2>3. GivesUp(coordinator, o) \/ Collects(coordinator, m.value, o)
          \/ Proposes(coordinator, m.value, o)
    BY <1>1, <2>2, PreparedOutcome
  <2>4. Report(o)
    BY <2>1
  <2> HIDE DEF o
  <2>5. QED
    BY <2>3, <2>4, GivingUpView, WaitingView
<1>3. CASE DeliverAcknowledgement
  <2>1. PICK m \in Deliverable("acknowledged") :
          Report(report_adoption_acknowledgement(coordinator, m.value))
    BY <1>3 DEF DeliverAcknowledgement
  <2>2. m \in Sent("acknowledged") /\ m.value \in Acknowledgement
    BY <1>1 DEF Deliverable, Sent, Messages
  <2> DEFINE o == report_adoption_acknowledgement(coordinator, m.value)
  <2>3. coordinator.state = "Adopting" => coordinator.set # NONE
    BY DEF IInv, CoordinatorIsCurrent
  <2>4. GivesUp(coordinator, o) \/ Gathers(coordinator, m.value, o)
          \/ Concludes(coordinator, m.value, o)
    BY <1>1, <2>2, <2>3, AcknowledgementOutcome
  <2>5. Report(o)
    BY <2>1
  <2> HIDE DEF o
  <2>6. ASSUME Concludes(coordinator, m.value, o) PROVE [Atomic!AtomicNext]_(Atomic!view)
    <3>1. Atomic!Adopt
      BY <2>2, <2>5, <2>6, ConcludingView
    <3>2. QED
      BY <3>1 DEF Atomic!AtomicNext
  <2>7. QED
    BY <2>4, <2>5, <2>6, GivingUpView, WaitingView
<1>4. CASE DeliverFailure
  <2>1. PICK m \in Deliverable("failure") :
          Report(report_rank_failure(coordinator, m.value, "Rank"))
    BY <1>4 DEF DeliverFailure
  <2>2. m.value \in Ranks
    BY <1>1 DEF Deliverable, Sent, Messages
  <2>3. GivesUp(coordinator, report_rank_failure(coordinator, m.value, "Rank"))
    BY <1>1, <2>2, FailureOutcome
  <2>4. QED
    BY <2>1, <2>3, GivingUpView
<1>5. CASE PhaseTimeout
  <2>1. PICK r \in Ranks : Report(report_rank_failure(coordinator, r, "Timeout"))
    BY <1>5 DEF PhaseTimeout
  <2>2. GivesUp(coordinator, report_rank_failure(coordinator, r, "Timeout"))
    BY <1>1, FailureOutcome
  <2>3. QED
    BY <2>1, <2>2, GivingUpView
<1>6. QED
  BY <1>2, <1>3, <1>4, <1>5 DEF CoordinatorStep

LEMMA NextAttemptView == ASSUME IInv, NextAttempt PROVE Atomic!Restart
<1>1. PICK plan \in Plans :
           coordinator' = NewCoordinator(plan, coordinator.attempt + 1,
                                         OwnerGenerations(coordinator.attempt + 1))
  BY DEF NextAttempt
<1>2. /\ coordinator'.state = "Preparing" /\ coordinator'.attempt = coordinator.attempt + 1
      /\ coordinator.attempt \in Nat
  BY <1>1 DEF NewCoordinator, OwnerGenerations, IInv, TypeOK, Coordinator
<1>3. Aborted /\ ~Aborted'
  BY <1>2 DEF NextAttempt, Aborted
<1>4. ~Decided'
  <2>1. ASSUME NEW m \in messages PROVE m.attempt \in Nat /\ m.attempt <= coordinator.attempt
    BY DEF IInv, MessagesAreTrue, TypeOK, Messages
  <2>2. QED
    BY <1>2, <2>1 DEF NextAttempt, Decided, Sent
<1>5. \A r \in Ranks : View[r] = "released"
  BY DEF NextAttempt, View, ArenaView
<1>6. View' = [r \in Ranks |-> "empty"]
  BY DEF NextAttempt, View, ArenaView
<1>7. QED
  BY <1>3, <1>4, <1>5, <1>6 DEF Atomic!Restart, View, Aborted, Decided

\* The load transaction implements AtomicAdoption: there is one decision for
\* all ranks, no arena executes before it, and an abort releases every arena
\* (PreparedRankSet, RankSetLoadCoordinator and RankArenaLifecycle).
THEOREM LoadIsAtomic == Spec => AdoptionIsAtomic
<1>1. IInv /\ [Next]_vars => [Atomic!AtomicNext]_(Atomic!view)
  <2> SUFFICES ASSUME IInv, [Next]_vars PROVE [Atomic!AtomicNext]_(Atomic!view)
    OBVIOUS
  <2>1. CASE UNCHANGED vars
    <3>1. coordinator' = coordinator /\ messages' = messages /\ arenas' = arenas
      BY <2>1 DEF vars
    <3>2. Aborted' = Aborted /\ Decided' = Decided /\ View' = View
      BY <3>1 DEF Aborted, Decided, Sent, View, ArenaView
    <3>3. QED
      BY <3>2, Stutters
  <2>2. ASSUME NEW r \in Ranks, Allocate(r) \/ Acknowledge(r) \/ Finalize(r)
        PROVE  [Atomic!AtomicNext]_(Atomic!view)
    BY <2>2, AllocateView, AcknowledgeView, FinalizeView DEF Atomic!AtomicNext
  <2>3. ASSUME NEW r \in Ranks, Stage(r) \/ Prepare(r) \/ AbortRank(r) \/ RankFails(r)
        PROVE  [Atomic!AtomicNext]_(Atomic!view)
    BY <2>3, StageView, PrepareView, AbortRankView, RankFailsView
  <2>4. CASE CoordinatorStep \/ PhaseTimeout
    BY <2>4, DeliveriesView
  <2>5. CASE NextAttempt
    BY <2>5, NextAttemptView DEF Atomic!AtomicNext
  <2>6. QED
    BY <2>1, <2>2, <2>3, <2>4, <2>5 DEF Next, RankStep
<1>2. QED
  BY <1>1, InitView, IInvHolds, PTL DEF Spec, AdoptionIsAtomic, Atomic!AtomicSpec
==============================================================================
