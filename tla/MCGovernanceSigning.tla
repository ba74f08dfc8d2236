------------------------ MODULE MCGovernanceSigning ------------------------
(* One item, five people who hold every role: the whole signing cycle with  *)
(* stale pages, returns, revocation and one revision.                       *)
EXTENDS KnowledgeGovernance, TLC

CONSTANTS k1, author, p1, p2, p3, c1, c2

AuthorOfDef == [k \in Items |-> author]
RolesOfDef == [a \in Actors |-> Roles]
SeedDef == [k \in Items |-> [content |-> c1, questions |-> {},
                             lexicon |-> [canonical |-> {}, aliases |-> {}]]]
SeedVersionDef == [k \in Items |-> [major |-> 0, minor |-> 1, draft |-> TRUE]]
\* The people other than the author are interchangeable.
PeopleSymmetry == Permutations(Actors \ {author})
=============================================================================
