------------------------ MODULE MCConversationStore ------------------------
(* Four sessions compete for the places of a store that keeps two or three. *)
EXTENDS ConversationStore, TLC

SessionSymmetry == Permutations(Sessions)
=============================================================================
