------------------------------ MODULE Questions ------------------------------
(***************************************************************************)
(* The frame in which the pure parts of the program are checked: one       *)
(* question is put, drawn from a bounded set of inputs, and the            *)
(* invariants compare the program's answer with what it should be.         *)
(***************************************************************************)

VARIABLE question

NoQuestion == [topic |-> "none"]
QuestionInit == question = NoQuestion
Put(topic, input) ==
    /\ question = NoQuestion
    /\ question' = [topic |-> topic, input |-> input]
Asked(topic) == question.topic = topic

=============================================================================
