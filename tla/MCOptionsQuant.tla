---- MODULE MCOptionsQuant ----
(* A small instance of OptionsQuant for TLC. *)
EXTENDS OptionsQuant

SmallMarks == {-40, 10}
====
