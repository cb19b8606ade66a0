----------------------------- MODULE MCFrontend -----------------------------
(* Two registered cities whose noons differ from each other and from the   *)
(* hours the user sets.                                                    *)
EXTENDS Frontend

CONSTANTS cambridge, phoenix

MCNoon == [c \in City |-> IF c = phoenix THEN 19 ELSE 16]
=============================================================================
