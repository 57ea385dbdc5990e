------------------------------ MODULE MCHistory ------------------------------
(* Three notifications of two apps, the first two under the same id;         *)
(* of the second and the third, only one fits into a message.                *)
EXTENDS History

CONSTANTS n1, n2, n3

MCSender == [c \in Call |-> IF c = n3 THEN "game" ELSE "mail"]
MCSize == [c \in Call |-> IF c = n1 THEN 1 ELSE 2]
MCIdOf == [c \in Call |-> IF c = n3 THEN 2 ELSE 1]
=============================================================================
