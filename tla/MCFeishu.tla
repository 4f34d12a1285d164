------------------------------ MODULE MCFeishu ------------------------------
(* Instances of Feishu for TLC. *)
EXTENDS Feishu

CONSTANTS k1, k2

(* One interaction with one card, one with a card for each of two questions. *)
OneAndTwo == [k \in {k1, k2} |-> IF k = k1 THEN 1 ELSE 2]
=============================================================================
