----------------------------- MODULE MCModelStore -----------------------------
(* Two programs, three calls of save() and one crash or error inside one.    *)
EXTENDS ModelStore

CONSTANTS p1, p2
MCPrograms == {p1, p2}

===============================================================================
