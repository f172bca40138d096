--------------------------- MODULE MCOpenThreads ---------------------------
(***************************************************************************)
(* A small registry for TLC: a file three seats share, in which two agents *)
(* contest the seat of a third, who may also write first.                  *)
(***************************************************************************)
EXTENDS LeaseRefinement, TLC

CONSTANTS ana, bea, cyd

MCAgents == {ana, bea, cyd}

Ask(s, p, r) == [sender |-> s, peer |-> p, reply |-> r]

\* Claims between every two of the three names that meet, and one terminator.
MCRequests ==
    {Ask(ana, cyd, "yes"), Ask(bea, cyd, "yes"), Ask(cyd, ana, "yes"),
     Ask(ana, cyd, "end")}

Interchangeable == Permutations(Workers)
=============================================================================
