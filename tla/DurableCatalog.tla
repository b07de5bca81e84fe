--------------------------- MODULE DurableCatalog ---------------------------
(***************************************************************************)
(* What the durable tier promises: a catalog of prefix pages that only     *)
(* grows.  A page is published whole; its target content never changes; a  *)
(* target-only page may gain a draft once, as a later generation.          *)
(***************************************************************************)
EXTENDS Naturals

CONSTANTS Keys, Contents, Generations, NONE

VARIABLE catalog

Page == [generation: Generations, target: Contents, draft: Contents \cup {NONE}]

Init == catalog = [key \in Keys |-> NONE]

Published(old, new) == old = NONE /\ new \in Page

Upgraded(old, new) ==
    /\ old # NONE
    /\ old.draft = NONE
    /\ new \in Page
    /\ new.target = old.target
    /\ new.draft # NONE
    /\ new.generation > old.generation

\* One key gains a page, or its page gains a draft.
Gains(old, new) ==
    \E key \in Keys :
        /\ Published(old[key], new[key]) \/ Upgraded(old[key], new[key])
        /\ \A other \in Keys \ {key} : new[other] = old[other]

Next == Gains(catalog, catalog')

Spec == Init /\ [][Next]_catalog
=============================================================================
