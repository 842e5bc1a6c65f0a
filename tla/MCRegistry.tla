------------------------------- MODULE MCRegistry -------------------------------
(* PoolIndex with the calls of startup its runs use. *)
EXTENDS PoolIndex

StatedMains == {<<w, m>> : w \in {1, 2}, m \in {0, 1, 2}}
AutoMains == {<<2, AutoThreadCount>>}
================================================================================
