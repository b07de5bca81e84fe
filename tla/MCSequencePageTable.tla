------------------------- MODULE MCSequencePageTable -------------------------
(* Two ranks, pages of two positions, up to three pages per sequence.       *)
EXTENDS SequencePageTable

CONSTANTS k0, k1, x, y

\* A page with a target-only record, its MTP upgrade and an MTP record that is
\* not newer, and the MTP record of a second page.
MCAttachments ==
    {[key |-> k0, generation |-> 1, target |-> x, draft |-> NONE],
     [key |-> k0, generation |-> 1, target |-> x, draft |-> y],
     [key |-> k0, generation |-> 2, target |-> x, draft |-> y],
     [key |-> k1, generation |-> 1, target |-> x, draft |-> y]}
=============================================================================
