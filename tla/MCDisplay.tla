------------------------------ MODULE MCDisplay ------------------------------
(* Small instances of Display for TLC: "a" occurs in itself; "." occurs in  *)
(* no text and matches every text as a regular expression.                  *)
EXTENDS Display

MCfind == [p \in Patterns |-> {p} \cap Texts]
MCsearch == [p \in Patterns |-> IF p = "." THEN Texts ELSE {p} \cap Texts]
=============================================================================
