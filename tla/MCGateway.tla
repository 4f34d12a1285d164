----------------------------- MODULE MCGateway -----------------------------
(* Instances of Gateway for TLC. *)
EXTENDS Gateway

CONSTANTS c1, i1

OneConversation == [m \in Messages |-> c1]

(* A conversation whose only thread has a session, and one, edited by      *)
(* hand, whose current thread is not among its threads.                    *)
WithSession == [a \in {0} |-> [id |-> i1, dir |-> DefaultDir, mode |-> NoMode]]
RestoredOne == [c \in Conversations |-> [current |-> 0, threads |-> WithSession]]
RestoredDangling == [c \in Conversations |-> [current |-> 1, threads |-> WithSession]]
=============================================================================
