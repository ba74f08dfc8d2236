-------------------------- MODULE MCGovernanceRace --------------------------
(* Two items edited and published at the same time by administrators who    *)
(* hold one role each, as the development identities do.  k1 owns the ASR   *)
(* alias w1 that k2 uses as a word; both were imported with question q1.    *)
EXTENDS KnowledgeGovernance

CONSTANTS k1, k2, author, reviewer, approver, publisher, c1, q1, q2, w1

AuthorOfDef == [k \in Items |-> author]
RolesOfDef ==
  [a \in Actors |->
     CASE a = author    -> {"author"}
       [] a = reviewer  -> {"reviewer", "revoker"}
       [] a = approver  -> {"approver"}
       [] a = publisher -> {"publisher"}]
SeedDef ==
  [k \in Items |->
     [content |-> c1, questions |-> Questions \cap {q1},
      lexicon |-> IF k = k1 THEN [canonical |-> {}, aliases |-> Words \cap {w1}]
                            ELSE [canonical |-> Words \cap {w1}, aliases |-> {}]]]
SeedVersionDef == [k \in Items |-> [major |-> IF k = k1 THEN 0 ELSE 1,
                                   minor |-> IF k = k1 THEN 1 ELSE 0, draft |-> TRUE]]

\* The log is left out of the fingerprint: no guard reads more of it than its
\* length, which is the row version, and no property of these runs reads it.
RaceView == <<item, archive, tx, now, overlapped>>
=============================================================================
