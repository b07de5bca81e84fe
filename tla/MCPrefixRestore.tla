--------------------------- MODULE MCPrefixRestore ---------------------------
(* Two prompts that start with the same page and one that competes with it *)
(* for the HBM of rank 0, which holds one page with its draft.             *)
EXTENDS PrefixRestore, TLC

CONSTANTS a, b, q1, q2

Requests == Permutations(RequestIds)

MCPrompts == {<<a, b>>, <<b>>}

MCPageKeys == {<<a>>, <<a, b>>, <<b>>}

MCTarget == [mtp |-> FALSE, generation |-> 1]

MCUpgrade == [mtp |-> TRUE, generation |-> 2]

MCRecords == {MCTarget, MCUpgrade}

MCBatches ==
    {[tokens |-> <<a, b>>, records |-> <<MCTarget, MCTarget>>],
     [tokens |-> <<a, b>>, records |-> <<MCUpgrade, MCUpgrade>>],
     [tokens |-> <<b>>, records |-> <<MCUpgrade>>]}

\* The readers opened the store before the upgrade of the first prompt was
\* published, so that its pages are restored as target-only records and
\* upgraded where they are, or after it, in a store without the other prompt.
MCCatalogs ==
    {[key \in PageKeys |-> IF key = <<b>> THEN MCUpgrade ELSE MCTarget],
     [key \in PageKeys |-> IF key = <<b>> THEN NONE ELSE MCUpgrade]}

=============================================================================
