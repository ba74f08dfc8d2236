--------------------------- MODULE PublicAnswers ---------------------------
(***************************************************************************)
(* What the knowledge governance promises to everybody who hears an        *)
(* answer, without rows, versions, pages or transactions: an item has at   *)
(* most one live answer, an answer goes live only over four signatures of  *)
(* different people, the first of them the item's author, and a live       *)
(* answer is never edited in place: it is withdrawn and signed again.      *)
(***************************************************************************)
EXTENDS Integers, Sequences

CONSTANTS Items, Actors, Answers, AuthorOf, NoAnswer

VARIABLES live,      \* the answer of each item that is published, or NoAnswer
          signers    \* who signed it, in order; empty without an answer

vars == <<live, signers>>

SignerLists(k) ==
  {s \in [1 .. 4 -> Actors] : s[1] = AuthorOf[k] /\ \A i, j \in 1 .. 4 : i # j => s[i] # s[j]}

Init ==
  /\ live = [k \in Items |-> NoAnswer]
  /\ signers = [k \in Items |-> <<>>]

GoLive(k) ==
  /\ live[k] = NoAnswer
  /\ live'[k] \in Answers
  /\ signers'[k] \in SignerLists(k)
  /\ live' = [live EXCEPT ![k] = live'[k]]
  /\ signers' = [signers EXCEPT ![k] = signers'[k]]

Withdraw(k) ==
  /\ live[k] # NoAnswer
  /\ live' = [live EXCEPT ![k] = NoAnswer]
  /\ signers' = [signers EXCEPT ![k] = <<>>]

Next == \E k \in Items : GoLive(k) \/ Withdraw(k)

Spec == Init /\ [][Next]_vars
=============================================================================
