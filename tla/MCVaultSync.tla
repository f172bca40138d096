---------------------------- MODULE MCVaultSync ----------------------------
(***************************************************************************)
(* A vault with two processes, this agent and a peer, for TLC.  The second *)
(* process was started after this agent's key was changed, the registry    *)
(* has an old record of this agent, and the peer may change its key.       *)
(***************************************************************************)
EXTENDS VaultSync

CONSTANTS me, ana, p1, p2, old, new, hers, hers2, here, there

MCKeyOf == [p \in {p1, p2} |-> IF p = p1 THEN old ELSE new]

Has(key, info, platform, marked) ==
    [key |-> key, info |-> info, platform |-> platform, marked |-> marked]
Says(key, info) == [key |-> key, info |-> info, platform |-> "hermes"]

Two(mine, other) == [n \in {me, ana} |-> IF n = me THEN mine ELSE other]

\* This agent new to the vault and the peer written by hand, without a key or
\* a tag; this agent known and the peer new; both known.
MCVaults == {Two(None, Has(None, here, "", FALSE)),
             Two(Has(old, there, "diploid", TRUE), None),
             Two(Has(old, here, "diploid", TRUE), Has(hers, here, "diploid", TRUE))}

MCRegistries == {Two(Says(old, there), Says(hers, there))}

MCOffers == Two({}, {Says(hers2, here)})
=============================================================================
