--------------------------- MODULE MCRegistryLock ---------------------------
(***************************************************************************)
(* Two threads of one process and one of another that append a row or drop *)
(* the rows of a pair, for TLC.                                            *)
(***************************************************************************)
EXTENDS RegistryLock

CONSTANTS t1, t2, t3, harness, tool, x, y

MCHome == [t \in {t1, t2, t3} |-> IF t = t3 THEN tool ELSE harness]

MCOps == {"mint", "release"}
MCContents == SUBSET {x, y}

\* A call for one pair appends its row, a call for another removes its own.
MCUpdate ==
    [o \in MCOps |-> [c \in MCContents |->
        IF o = "mint" THEN c \cup {x} ELSE c \ {y}]]

MCUnread == [c \in MCContents |-> {}]
=============================================================================
