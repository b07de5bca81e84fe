--------------------------- MODULE AtomicAdoption ---------------------------
(***************************************************************************)
(* What loading a checkpoint on all ranks promises, without its messages:  *)
(* one decision, taken when every rank has pledged its arena, before which *)
(* no arena is executable, and an abort after which every arena ends       *)
(* released.  RankSetLoad implements it.                                   *)
(***************************************************************************)
CONSTANT Ranks

VARIABLES
    aborted,    \* the attempt was given up
    decided,    \* the rank set was adopted, once, in this attempt
    arena       \* of each rank

view == <<aborted, decided, arena>>

AtomicInit ==
    /\ aborted = FALSE
    /\ decided = FALSE
    /\ arena = [r \in Ranks |-> "empty"]

Become(r, from, to) ==
    /\ arena[r] = from
    /\ arena' = [arena EXCEPT ![r] = to]

Hold(r) == Become(r, "empty", "quarantined") /\ UNCHANGED <<aborted, decided>>

Pledge(r) == Become(r, "quarantined", "pledged") /\ UNCHANGED <<aborted, decided>>

Adopt ==
    /\ ~aborted /\ ~decided
    /\ \A r \in Ranks : arena[r] = "pledged"
    /\ decided' = TRUE
    /\ UNCHANGED <<aborted, arena>>

Execute(r) ==
    /\ decided
    /\ Become(r, "pledged", "executable")
    /\ UNCHANGED <<aborted, decided>>

Abort ==
    /\ ~aborted
    /\ aborted' = TRUE
    /\ UNCHANGED <<decided, arena>>

Release(r) ==
    /\ aborted
    /\ arena[r] # "released"
    /\ arena' = [arena EXCEPT ![r] = "released"]
    /\ UNCHANGED <<aborted, decided>>

Restart ==
    /\ aborted
    /\ \A r \in Ranks : arena[r] = "released"
    /\ aborted' = FALSE
    /\ decided' = FALSE
    /\ arena' = [r \in Ranks |-> "empty"]

AtomicNext ==
    \/ \E r \in Ranks : Hold(r) \/ Pledge(r) \/ Execute(r) \/ Release(r)
    \/ Adopt \/ Abort \/ Restart

AtomicSpec == AtomicInit /\ [][AtomicNext]_view
=============================================================================
