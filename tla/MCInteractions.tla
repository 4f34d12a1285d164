--------------------------- MODULE MCInteractions ---------------------------
(* Instances of Interactions for TLC. *)
EXTENDS Interactions

(* A request with several questions, and a request of another kind; or one *)
(* with a single question, where a single command answers.                 *)
MixedKinds == {[k \in Tokens |-> IF k = 1 THEN "questions" ELSE other] :
             other \in {"question", "approval"}}
SingleKind == {[k \in Tokens |-> "question"]}
=============================================================================
