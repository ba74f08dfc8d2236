------------------------------ MODULE MCFaqImport ------------------------------
(***************************************************************************)
(* Two readable workbooks, one of them with its FAQ on the second sheet,   *)
(* and one that cannot be read.  a1 and a1v are the same answer, written   *)
(* differently, q1 and q1v the same question.  The first workbook has two  *)
(* rows with a common question; the second repeats an answer of the first, *)
(* and has a row with a sensitive question, a row without anything and two *)
(* rows with the same answer.                                              *)
(***************************************************************************)
EXTENDS FaqImport, TLC

CONSTANTS f1, f2, f3, a1, a1v, a2, a3, q1, q1v, q2, q3, wl, u1, ana, bob, guest, none, req1, req2

R(answer, questions) == [numbered |-> TRUE, answer |-> answer, questions |-> questions]

WorkbookDef ==
  f1 :> [readable |-> TRUE,
         sheets |-> <<[header |-> TRUE, rows |-> <<R(a1, <<q1, q1v>>), R(a2, <<q1v, q2>>)>>]>>]
  @@ f2 :> [readable |-> TRUE,
            sheets |-> <<[header |-> FALSE, rows |-> <<>>],
                         [header |-> TRUE,
                          rows |-> <<R(a1v, <<q2>>), R(a2, <<q3>>), R(a3, <<wl>>), R(a3, <<>>),
                                     [numbered |-> FALSE, answer |-> NoAnswer, questions |-> <<>>]>>]>>]
  @@ f3 :> [readable |-> FALSE, sheets |-> <<>>]

AnswerKeyDef == [a \in Answers |-> IF a = a1v THEN a1 ELSE a]
QuestionKeyDef == [q \in Questions |-> IF q = q1v THEN q1 ELSE q]
SeededDef == <<{q1}>>
EditsDef == {[answer |-> a2, questions |-> {q2}]}
Symmetry == Permutations({ana, bob}) \cup Permutations({req1, req2})
=============================================================================
