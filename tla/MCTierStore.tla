----------------------------- MODULE MCTierStore -----------------------------
(***************************************************************************)
(* Two keys, two contents, two generations and two transactions: enough    *)
(* for an orphan or an upgrade and a publication after it, with pieces     *)
(* that end inside a block.                                                *)
(***************************************************************************)
EXTENDS TierStore, TLC

MCExpectedBytes ==
    [piece \in TierPiece |-> CASE piece = "TargetKv" -> 3
                               [] piece = "TargetIndexer" -> 1
                               [] piece = "DraftSidecar" -> 1]

Request(key, generation, target, draft) ==
    [page_key |-> key, generation |-> generation, mtp |-> draft # NONE,
     target |-> target, draft |-> draft]

CONSTANTS c1, c2

\* For every key: two contents, a draft, and the same draft in a later generation.
MCRequests ==
    UNION {{Request(key, 1, c1, NONE), Request(key, 1, c2, NONE),
            Request(key, 1, c1, c1), Request(key, 2, c1, c1)} : key \in Keys}

\* Keys are only compared.
Symmetric == Permutations(Keys)
=============================================================================
