----------------------- MODULE ConversationStoreProofs -----------------------
(***************************************************************************)
(* Proofs about the context store, for any sessions and limits.  A         *)
(* dictionary is well formed (Dict) when its order is linear, follows the  *)
(* times of use, and every session that comes after another in it is       *)
(* recorded as used since: this ties the place of a session, which decides *)
(* an eviction, to the history that LiveContextKept is stated with.        *)
(*                                                                         *)
(* What an exchange is (the set X) is left open: the store does not look   *)
(* at it, and the voice turns keep records of their own in it.             *)
(***************************************************************************)
EXTENDS ConversationStore, FiniteSetTheorems, WellFoundedInduction, TLAPS

Linear(d) ==
  /\ d.before \subseteq Ids(d) \X Ids(d)
  /\ \A a \in Ids(d) : <<a, a>> \notin d.before
  /\ \A a, b \in Ids(d) : a # b => <<a, b>> \in d.before \/ <<b, a>> \in d.before
  /\ \A a, b, c \in Ids(d) :
       <<a, b>> \in d.before /\ <<b, c>> \in d.before => <<a, c>> \in d.before

Entries(d, X) ==
  \A id \in Ids(d) :
    /\ d.entries[id].updatedAt \in 0 .. clock
    /\ d.entries[id].exchanges \in Seq(X)
    /\ Len(d.entries[id].exchanges) \in 1 .. MaxTurns

ByUse(d) ==
  \A a, b \in Ids(d) :
    <<a, b>> \in d.before => d.entries[a].updatedAt <= d.entries[b].updatedAt

Noted(d) ==
  \A id \in Ids(d) :
    /\ lastUse[id] # NotKept
    /\ lastUse[id].at = d.entries[id].updatedAt
    /\ After(d, id) \subseteq lastUse[id].others

Dict(d, X) ==
  /\ Ids(d) \subseteq Sessions /\ IsFiniteSet(Ids(d)) /\ Cardinality(Ids(d)) <= MaxConversations
  /\ Linear(d) /\ Entries(d, X) /\ ByUse(d) /\ Noted(d)

LastUses ==
  /\ lastUse \in [Sessions -> [at : -1 .. clock, others : SUBSET Sessions]]
  /\ \A id \in Sessions : IsFiniteSet(lastUse[id].others)

StoreInv(X) ==
  /\ clock \in 0 .. MaxClock
  /\ LastUses
  /\ Dict(store, X)
  /\ LiveContextKept

-----------------------------------------------------------------------------
(* The first session of a dictionary *)

LEMMA LeastNumber ==
  ASSUME NEW S \in SUBSET Nat, S # {}
  PROVE  \E n \in S : \A m \in S : n <= m
  <1> DEFINE R == {ss \in Nat \X Nat : ss[1] < ss[2]}
  <1>1. IsWellFoundedOn(R, Nat)
    BY NatLessThanWellFounded, Zenon DEF OpToRel
  <1> HIDE DEF R
  <1>2. PICK n \in S : \A m \in S : ~ (<<m, n>> \in R)
    BY <1>1, WFMin
  <1>3. ASSUME NEW m \in S
        PROVE  n <= m
    <2>1. m < n => <<m, n>> \in R
      BY DEF R
    <2> QED BY <1>2, <2>1
  <1> QED BY <1>3

HasFirst(d, T) == \E f \in T : \A j \in T \ {f} : <<f, j>> \in d.before

\* A smallest set of sessions without a first one would be made of its own.
LEMMA FirstExists ==
  ASSUME NEW d, Linear(d), NEW T \in SUBSET Ids(d), IsFiniteSet(Ids(d)), T # {}
  PROVE  HasFirst(d, T)
  <1> DEFINE Bad == {n \in Nat : \E U \in SUBSET Ids(d) :
                       U # {} /\ Cardinality(U) = n /\ ~ HasFirst(d, U)}
  <1>1. \A U \in SUBSET Ids(d) : IsFiniteSet(U) /\ Cardinality(U) \in Nat
    BY FS_Subset, FS_CardinalityType
  <1>2. ASSUME Bad # {}
        PROVE  FALSE
    <2>1. PICK n \in Bad : \A m \in Bad : n <= m
      BY <1>2, LeastNumber
    <2>2. PICK U \in SUBSET Ids(d) : U # {} /\ Cardinality(U) = n /\ ~ HasFirst(d, U)
      BY <2>1
    <2>3. PICK x \in U : TRUE
      BY <2>2
    <2>4. PICK V \in SUBSET Ids(d) : V = U \ {x}
      OBVIOUS
    <2>5. Cardinality(V) = n - 1 /\ n \in Nat
      BY <1>1, <2>1, <2>2, <2>3, <2>4, FS_RemoveElement
    <2>6. CASE V = {}
      BY <2>2, <2>3, <2>4, <2>6 DEF HasFirst
    <2>7. CASE V # {}
      <3>1. HasFirst(d, V)
        <4>1. n - 1 \in Nat
          BY <1>1, <2>5
        <4>2. n - 1 \notin Bad
          BY <2>1, <2>5, <4>1
        <4> QED BY <2>5, <2>7, <4>1, <4>2
      <3>2. PICK y \in V : \A j \in V \ {y} : <<y, j>> \in d.before
        BY <3>1 DEF HasFirst
      <3>3. x # y /\ x \in Ids(d) /\ y \in Ids(d)
        BY <2>4
      <3>4. CASE <<x, y>> \in d.before
        <4>1. \A j \in U \ {x} : <<x, j>> \in d.before
          BY <2>4, <3>2, <3>3, <3>4 DEF Linear
        <4> QED BY <2>2, <4>1 DEF HasFirst
      <3>5. CASE <<y, x>> \in d.before
        <4>1. \A j \in U \ {y} : <<y, j>> \in d.before
          BY <2>4, <3>2, <3>5
        <4> QED BY <2>2, <2>4, <4>1 DEF HasFirst
      <3> QED BY <3>3, <3>4, <3>5 DEF Linear
    <2> QED BY <2>6, <2>7
  <1>3. Cardinality(T) \in Nat
    BY <1>1
  <1> QED BY <1>2, <1>3

-----------------------------------------------------------------------------
(* Taking sessions out, and using one *)

LEMMA OnlyShape ==
  ASSUME NEW d, NEW ids \in SUBSET Ids(d)
  PROVE  /\ Ids(Only(d, ids)) = ids
         /\ \A id \in ids : Only(d, ids).entries[id] = d.entries[id]
         /\ Only(d, ids).before = d.before \cap (ids \X ids)
         /\ \A id \in ids : After(Only(d, ids), id) \subseteq After(d, id)
  BY DEF Only, Ids, After

LEMMA OnlyKeeps ==
  ASSUME NEW X, NEW d, Dict(d, X), NEW ids \in SUBSET Ids(d)
  PROVE  Dict(Only(d, ids), X)
  <1>1. PICK o : o = Only(d, ids)
    OBVIOUS
  <1>2. /\ Ids(o) = ids /\ \A id \in ids : o.entries[id] = d.entries[id]
        /\ o.before = d.before \cap (ids \X ids)
        /\ \A id \in ids : After(o, id) \subseteq After(d, id)
    BY <1>1, OnlyShape
  <1>3. IsFiniteSet(ids) /\ Cardinality(ids) <= MaxConversations
    <2>1. /\ IsFiniteSet(ids) /\ Cardinality(ids) <= Cardinality(Ids(d))
          /\ Cardinality(ids) \in Nat /\ Cardinality(Ids(d)) \in Nat
      BY FS_Subset, FS_CardinalityType DEF Dict
    <2> QED BY <2>1, StoreAssumption DEF Dict
  <1>4. Linear(o)
    BY <1>2 DEF Dict, Linear
  <1>5. Entries(o, X)
    BY <1>2 DEF Dict, Entries
  <1>6. ByUse(o)
    BY <1>2 DEF Dict, ByUse
  <1>7. Noted(o)
    BY <1>2 DEF Dict, Noted
  <1> QED BY <1>1, <1>2, <1>3, <1>4, <1>5, <1>6, <1>7 DEF Dict

LEMMA PurgedShape ==
  ASSUME NEW X, NEW d, Dict(d, X), clock \in Nat
  PROVE  /\ Ids(Purged(d)) \subseteq Ids(d) /\ Dict(Purged(d), X)
         /\ \A id \in Ids(Purged(d)) : Purged(d).entries[id] = d.entries[id]
         /\ \A id \in Ids(d) \ Ids(Purged(d)) : clock - d.entries[id].updatedAt > TtlSeconds
  <1>1. PICK ids \in SUBSET Ids(d) :
          ids = {id \in Ids(d) : clock - d.entries[id].updatedAt <= TtlSeconds}
    OBVIOUS
  <1>2. Purged(d) = Only(d, ids)
    BY <1>1 DEF Purged
  <1>3. Ids(Purged(d)) = ids /\ \A id \in ids : Purged(d).entries[id] = d.entries[id]
    BY <1>2, OnlyShape
  <1>4. ASSUME NEW id \in Ids(d) \ ids
        PROVE  clock - d.entries[id].updatedAt > TtlSeconds
    <2>1. ~ (clock - d.entries[id].updatedAt <= TtlSeconds)
      BY <1>1
    <2>2. clock \in Int /\ d.entries[id].updatedAt \in Int
      BY DEF Dict, Entries
    <2> QED BY <2>1, <2>2, StoreAssumption
  <1> QED BY <1>2, <1>3, <1>4, OnlyKeeps

\* There is room for one more, and whoever had to go was the one unused for longest.
LEMMA EvictedShape ==
  ASSUME NEW X, NEW d, Dict(d, X)
  PROVE  /\ Ids(Evicted(d)) \subseteq Ids(d) /\ Dict(Evicted(d), X)
         /\ Cardinality(Ids(Evicted(d))) < MaxConversations
         /\ \A id \in Ids(d) \ Ids(Evicted(d)) :
              Cardinality(After(d, id)) >= MaxConversations - 1
  <1>1. PICK ids \in SUBSET Ids(d) :
          ids = {id \in Ids(d) : Cardinality(After(d, id)) < MaxConversations - 1}
    OBVIOUS
  <1>2. Evicted(d) = Only(d, ids)
    BY <1>1 DEF Evicted
  <1>3. Ids(Evicted(d)) = ids
    BY <1>2, OnlyShape
  <1>4. ASSUME NEW id \in Ids(d)
        PROVE  IsFiniteSet(After(d, id)) /\ Cardinality(After(d, id)) \in Nat
    BY FS_Subset, FS_CardinalityType DEF Dict, After
  <1>5. \A id \in Ids(d) \ ids : Cardinality(After(d, id)) >= MaxConversations - 1
    BY <1>1, <1>4, StoreAssumption
  <1>6. /\ IsFiniteSet(Ids(d)) /\ Cardinality(Ids(d)) <= MaxConversations
        /\ Cardinality(Ids(d)) \in Nat /\ IsFiniteSet(ids) /\ Cardinality(ids) \in Nat
        /\ Cardinality(ids) <= Cardinality(Ids(d))
    BY FS_Subset, FS_CardinalityType DEF Dict
  <1>7. ASSUME Cardinality(Ids(d)) = MaxConversations
        PROVE  Cardinality(ids) < MaxConversations
    <2>1. Ids(d) # {}
      BY <1>7, FS_EmptySet, StoreAssumption
    <2>2. PICK f \in Ids(d) : \A j \in Ids(d) \ {f} : <<f, j>> \in d.before
      BY <1>6, <2>1, FirstExists DEF HasFirst, Dict
    <2>3. After(d, f) = Ids(d) \ {f}
      BY <2>2 DEF After, Dict, Linear
    <2>4. Cardinality(Ids(d) \ {f}) = MaxConversations - 1 /\ IsFiniteSet(Ids(d) \ {f})
      BY <1>6, <1>7, FS_RemoveElement
    <2>5. ids \subseteq Ids(d) \ {f}
      BY <1>1, <2>3, <2>4, StoreAssumption
    <2>6. Cardinality(ids) <= MaxConversations - 1
      BY <2>4, <2>5, FS_Subset
    <2> QED BY <1>6, <2>6, StoreAssumption
  <1>8. Cardinality(Ids(d)) # MaxConversations => Cardinality(ids) < MaxConversations
    BY <1>6, StoreAssumption
  <1>9. Cardinality(ids) < MaxConversations
    BY <1>7, <1>8
  <1> QED BY <1>2, <1>3, <1>5, <1>9, OnlyKeeps

LEMMA UseNotedShape ==
  ASSUME LastUses, clock \in Nat, clock' = clock, NEW id \in Sessions, lastUse' = UseNoted(id)
  PROVE  /\ LastUses'
         /\ lastUse'[id] # NotKept /\ lastUse'[id].at = clock
         /\ \A j \in Sessions \ {id} :
              /\ lastUse[j] = NotKept <=> lastUse'[j] = NotKept
              /\ lastUse[j] # NotKept =>
                   lastUse'[j].at = lastUse[j].at /\ lastUse'[j].others = lastUse[j].others \cup {id}
  <1>1. PICK U : U = [at : -1 .. clock, others : SUBSET Sessions]
    OBVIOUS
  <1>2. NotKept \in U /\ NotKept.others = {} /\ NotKept.at = -1
    BY <1>1 DEF NotKept
  <1>3. PICK used \in U : used = [at |-> clock, others |-> {}]
    <2>1. clock \in -1 .. clock
      OBVIOUS
    <2>2. PICK T, S : T = -1 .. clock /\ S = SUBSET Sessions
      OBVIOUS
    <2>3. [at |-> clock, others |-> {}] \in [at : T, others : S]
      BY <2>1, <2>2
    <2> QED BY <1>1, <2>2, <2>3
  <1>4. used # NotKept /\ used.at = clock /\ used.others = {}
    BY <1>2, <1>3
  <1>5. ASSUME NEW j \in Sessions
        PROVE  lastUse[j] \in U /\ IsFiniteSet(lastUse[j].others)
    BY <1>1 DEF LastUses
  <1>6. lastUse'[id] = used /\ DOMAIN lastUse' = Sessions
    BY <1>3 DEF UseNoted
  <1>7. ASSUME NEW j \in Sessions \ {id}
        PROVE  /\ lastUse'[j] \in U /\ IsFiniteSet(lastUse'[j].others)
               /\ lastUse[j] = NotKept <=> lastUse'[j] = NotKept
               /\ lastUse[j] # NotKept =>
                    lastUse'[j].at = lastUse[j].at /\ lastUse'[j].others = lastUse[j].others \cup {id}
    <2>1. PICK u \in U : u = lastUse[j] /\ IsFiniteSet(u.others)
      BY <1>5
    <2>2. CASE u = NotKept
      BY <1>2, <2>1, <2>2, FS_EmptySet DEF UseNoted
    <2>3. CASE u # NotKept
      <3>1. PICK v : v = [u EXCEPT !.others = @ \cup {id}]
        OBVIOUS
      <3>2. lastUse'[j] = v
        BY <2>1, <2>3, <3>1 DEF UseNoted
      <3>3. v \in U /\ v.at = u.at /\ v.others = u.others \cup {id}
        BY <1>1, <3>1
      <3>4. v # NotKept
        BY <1>2, <3>3
      <3>5. IsFiniteSet(v.others)
        BY <2>1, <3>3, FS_AddElement
      <3> QED BY <2>1, <2>3, <3>2, <3>3, <3>4, <3>5
    <2> QED BY <2>2, <2>3
  <1>8. LastUses'
    <2>1. lastUse' \in [Sessions -> U]
      <3>1. lastUse' = [j \in Sessions |-> lastUse'[j]]
        BY DEF UseNoted
      <3> QED BY <1>3, <1>6, <1>7, <3>1
    <2>2. \A j \in Sessions : IsFiniteSet(lastUse'[j].others)
      BY <1>4, <1>6, <1>7, FS_EmptySet
    <2> QED BY <1>1, <2>1, <2>2 DEF LastUses
  <1> QED BY <1>4, <1>6, <1>7, <1>8

\* A use puts the session last; what it leaves in front has seen it used.
LEMMA UsedKeeps ==
  ASSUME NEW X, NEW d, Dict(d, X), LastUses, clock \in Nat, clock' = clock,
         NEW id \in Sessions, NEW exchanges \in Seq(X), Len(exchanges) \in 1 .. MaxTurns,
         id \in Ids(d) \/ Cardinality(Ids(d)) < MaxConversations,
         lastUse' = UseNoted(id), store' = Used(d, id, exchanges)
  PROVE  /\ Dict(store, X)' /\ Ids(store') = Ids(d) \cup {id}
         /\ \A j \in Ids(d) \ {id} : store'.entries[j] = d.entries[j]
         /\ store'.entries[id].exchanges = exchanges
  <1>1. PICK new : new = [exchanges |-> exchanges, updatedAt |-> clock]
    OBVIOUS
  <1>2. PICK u : u = store'
    OBVIOUS
  <1>3. /\ Ids(u) = Ids(d) \cup {id} /\ u.entries[id] = new
        /\ \A j \in Ids(d) \ {id} : u.entries[j] = d.entries[j]
        /\ u.before = (d.before \cap ((Ids(d) \ {id}) \X (Ids(d) \ {id}))) \cup ((Ids(d) \ {id}) \X {id})
    BY <1>1, <1>2 DEF Used, Ids, Without, Only
  <1>4. new.updatedAt = clock /\ new.exchanges = exchanges
    BY <1>1
  <1>5. IsFiniteSet(Ids(u)) /\ Cardinality(Ids(u)) <= MaxConversations
    <2>1. IsFiniteSet(Ids(d)) /\ Cardinality(Ids(d)) <= MaxConversations /\ Cardinality(Ids(d)) \in Nat
      BY FS_CardinalityType DEF Dict
    <2>2. CASE id \in Ids(d)
      <3>1. Ids(u) = Ids(d)
        BY <1>3, <2>2
      <3> QED BY <2>1, <3>1
    <2>3. CASE id \notin Ids(d)
      <3>1. IsFiniteSet(Ids(u)) /\ Cardinality(Ids(u)) = Cardinality(Ids(d)) + 1
        BY <1>3, <2>1, <2>3, FS_AddElement
      <3> QED BY <2>1, <2>3, <3>1, StoreAssumption
    <2> QED BY <2>2, <2>3
  <1>6. Linear(u)
    BY <1>3 DEF Dict, Linear
  <1>7. Entries(u, X)'
    <2>1. \A j \in Ids(d) \ {id} :
            /\ d.entries[j].updatedAt \in 0 .. clock
            /\ d.entries[j].exchanges \in Seq(X)
            /\ Len(d.entries[j].exchanges) \in 1 .. MaxTurns
      BY DEF Dict, Entries
    <2>2. \A j \in Ids(u) : j = id \/ j \in Ids(d) \ {id}
      BY <1>3
    <2> QED BY <1>3, <1>4, <2>1, <2>2 DEF Entries
  <1>8. ByUse(u)
    <2>1. \A j \in Ids(d) : d.entries[j].updatedAt \in 0 .. clock
      BY DEF Dict, Entries
    <2>2. ASSUME NEW a \in Ids(u), NEW b \in Ids(u), <<a, b>> \in u.before
          PROVE  u.entries[a].updatedAt <= u.entries[b].updatedAt
      <3>1. a \in Ids(d) \ {id}
        BY <1>3, <2>2
      <3>2. CASE b = id
        BY <1>3, <1>4, <2>1, <3>1, <3>2
      <3>3. CASE b # id
        <4>1. b \in Ids(d) \ {id} /\ <<a, b>> \in d.before
          BY <1>3, <2>2, <3>3
        <4> QED BY <1>3, <3>1, <4>1 DEF Dict, ByUse
      <3> QED BY <3>2, <3>3
    <2> QED BY <2>2 DEF ByUse
  <1>9. ASSUME NEW j \in Ids(u)
        PROVE  /\ lastUse'[j] # NotKept /\ lastUse'[j].at = u.entries[j].updatedAt
               /\ After(u, j) \subseteq lastUse'[j].others
    <2>1. CASE j = id
      <3>1. After(u, j) = {}
        BY <1>3, <2>1 DEF After
      <3> QED BY <1>3, <1>4, <2>1, <3>1, UseNotedShape
    <2>2. CASE j # id
      <3>1. j \in Ids(d) \ {id} /\ j \in Sessions
        BY <1>3, <2>2 DEF Dict
      <3>2. /\ lastUse[j] # NotKept /\ lastUse[j].at = d.entries[j].updatedAt
            /\ After(d, j) \subseteq lastUse[j].others
        BY <3>1 DEF Dict, Noted
      <3>3. /\ lastUse'[j] # NotKept /\ lastUse'[j].at = lastUse[j].at
            /\ lastUse'[j].others = lastUse[j].others \cup {id}
        BY <3>1, <3>2, UseNotedShape
      <3>4. After(u, j) \subseteq After(d, j) \cup {id}
        BY <1>3 DEF After
      <3> QED BY <1>3, <3>1, <3>2, <3>3, <3>4
    <2> QED BY <2>1, <2>2
  <1>10. Ids(u) \subseteq Sessions
    BY <1>3 DEF Dict
  <1>11. Dict(u, X)'
    <2>1. Noted(u)'
      BY <1>9 DEF Noted
    <2> QED BY <1>5, <1>6, <1>7, <1>8, <1>10, <2>1 DEF Dict
  <1> QED BY <1>2, <1>3, <1>4, <1>11

-----------------------------------------------------------------------------
(* The operations *)

LEMMA LatestShape ==
  ASSUME NEW X, NEW s \in Seq(X), Len(s) \in 1 .. MaxTurns + 1
  PROVE  Latest(s) \in Seq(X) /\ Len(Latest(s)) \in 1 .. MaxTurns
  BY StoreAssumption DEF Latest

LEMMA HistoryShape ==
  ASSUME NEW X, StoreInv(X), NEW id \in Sessions, id \in Ids(Purged(store))
  PROVE  /\ HistoryOf(id) = store.entries[id].exchanges
         /\ HistoryOf(id) \in Seq(X) /\ Len(HistoryOf(id)) \in 1 .. MaxTurns
         /\ id \in Ids(store)
  <1>1. clock \in Nat /\ Dict(store, X)
    BY DEF StoreInv
  <1>2. id \in Ids(store)
    BY <1>1, PurgedShape
  <1> QED BY <1>1, <1>2 DEF HistoryOf, Dict, Entries

\* A session that was lost before the step is still lost for a reason after it.
LEMMA LossKeepsReason ==
  ASSUME NEW X, StoreInv(X), NEW id \in Sessions, lastUse' = UseNoted(id), clock' = clock,
         NEW j \in Sessions \ {id}, lastUse'[j] # NotKept,
         \/ j \notin Ids(store)
         \/ clock - lastUse[j].at > TtlSeconds
         \/ \E S : S \subseteq lastUse[j].others /\ id \notin S /\ IsFiniteSet(S)
                   /\ Cardinality(S) >= MaxConversations - 1
  PROVE  \/ clock' - lastUse'[j].at > TtlSeconds
         \/ Cardinality(lastUse'[j].others) >= MaxConversations
  <1>1. LastUses /\ clock \in Nat
    BY DEF StoreInv
  <1>2. /\ lastUse[j] # NotKept /\ lastUse'[j].at = lastUse[j].at
        /\ lastUse'[j].others = lastUse[j].others \cup {id}
    BY <1>1, UseNotedShape
  <1>3. IsFiniteSet(lastUse[j].others) /\ IsFiniteSet(lastUse'[j].others)
        /\ Cardinality(lastUse[j].others) \in Nat /\ Cardinality(lastUse'[j].others) \in Nat
    <2>1. IsFiniteSet(lastUse[j].others)
      BY <1>1 DEF LastUses
    <2>2. IsFiniteSet(lastUse'[j].others)
      BY <1>2, <2>1, FS_AddElement
    <2> QED BY <2>1, <2>2, FS_CardinalityType
  <1>4. CASE j \notin Ids(store)
    <2>1. \/ clock - lastUse[j].at > TtlSeconds
          \/ Cardinality(lastUse[j].others) >= MaxConversations
      BY <1>2, <1>4 DEF StoreInv, LiveContextKept
    <2>2. Cardinality(lastUse[j].others) <= Cardinality(lastUse'[j].others)
      BY <1>2, <1>3, FS_Subset
    <2>3. Cardinality(lastUse[j].others) >= MaxConversations
            => Cardinality(lastUse'[j].others) >= MaxConversations
      BY <1>3, <2>2, StoreAssumption
    <2> QED BY <1>2, <2>1, <2>3
  <1>5. CASE clock - lastUse[j].at > TtlSeconds
    BY <1>2, <1>5
  <1>6. CASE \E S : S \subseteq lastUse[j].others /\ id \notin S /\ IsFiniteSet(S)
                    /\ Cardinality(S) >= MaxConversations - 1
    <2>1. PICK S : S \subseteq lastUse[j].others /\ id \notin S /\ IsFiniteSet(S)
                   /\ Cardinality(S) >= MaxConversations - 1
      BY <1>6
    <2>2. /\ IsFiniteSet(S \cup {id}) /\ Cardinality(S \cup {id}) = Cardinality(S) + 1
          /\ Cardinality(S) \in Nat
      BY <2>1, FS_AddElement, FS_CardinalityType
    <2>3. Cardinality(S \cup {id}) <= Cardinality(lastUse'[j].others)
      BY <1>2, <1>3, <2>1, FS_Subset
    <2>4. Cardinality(lastUse'[j].others) >= MaxConversations
      BY <1>3, <2>1, <2>2, <2>3, StoreAssumption
    <2> QED BY <2>4
  <1> QED BY <1>4, <1>5, <1>6

\* history, whether or not there is something to return.
LEMMA HistoryKeeps ==
  ASSUME NEW X, StoreInv(X), NEW id \in Sessions, History(id), clock' = clock
  PROVE  /\ StoreInv(X)'
         /\ \A j \in Ids(store') : j \in Ids(store)
              /\ store'.entries[j].exchanges = store.entries[j].exchanges
  <1>1. clock \in Nat /\ clock \in 0 .. MaxClock /\ LastUses /\ Dict(store, X)
    BY DEF StoreInv
  <1>2. PICK d : d = Purged(store)
    OBVIOUS
  <1>3. /\ Ids(d) \subseteq Ids(store) /\ Dict(d, X)
        /\ \A j \in Ids(d) : d.entries[j] = store.entries[j]
        /\ \A j \in Ids(store) \ Ids(d) : clock - store.entries[j].updatedAt > TtlSeconds
    BY <1>1, <1>2, PurgedShape
  <1>4. \A j \in Ids(store) \ Ids(d) : clock - lastUse[j].at > TtlSeconds
    BY <1>1, <1>3 DEF Dict, Noted
  <1>5. CASE id \in Ids(d)
    <2>1. store' = Used(d, id, HistoryOf(id)) /\ lastUse' = UseNoted(id)
      BY <1>2, <1>5 DEF History
    <2>2. /\ HistoryOf(id) = store.entries[id].exchanges
          /\ HistoryOf(id) \in Seq(X) /\ Len(HistoryOf(id)) \in 1 .. MaxTurns
      BY <1>2, <1>5, HistoryShape
    <2>3. /\ Dict(store, X)' /\ Ids(store') = Ids(d) \cup {id}
          /\ \A j \in Ids(d) \ {id} : store'.entries[j] = d.entries[j]
          /\ store'.entries[id].exchanges = HistoryOf(id)
      BY <1>1, <1>3, <1>5, <2>1, <2>2, UsedKeeps
    <2>4. LastUses'
      BY <1>1, <2>1, UseNotedShape
    <2>5. LiveContextKept'
      <3>1. ASSUME NEW j \in Sessions, lastUse'[j] # NotKept, j \notin Ids(store')
            PROVE  \/ clock' - lastUse'[j].at > TtlSeconds
                   \/ Cardinality(lastUse'[j].others) >= MaxConversations
        <4>1. j \in Sessions \ {id}
          BY <2>3, <3>1
        <4>2. j \notin Ids(store) \/ clock - lastUse[j].at > TtlSeconds
          BY <1>4, <2>3, <3>1
        <4> QED BY <2>1, <3>1, <4>1, <4>2, LossKeepsReason
      <3> QED BY <3>1 DEF LiveContextKept
    <2>6. \A j \in Ids(store') : j \in Ids(store)
              /\ store'.entries[j].exchanges = store.entries[j].exchanges
      BY <1>3, <1>5, <2>2, <2>3
    <2> QED BY <1>1, <2>3, <2>4, <2>5, <2>6 DEF StoreInv
  <1>6. CASE id \notin Ids(d)
    <2>1. store' = d /\ lastUse' = lastUse
      BY <1>2, <1>6 DEF History
    <2>2. Dict(store, X)'
      BY <1>3, <2>1 DEF Dict, Entries, Noted, Linear, ByUse
    <2>3. LiveContextKept'
      BY <1>4, <2>1 DEF StoreInv, LiveContextKept
    <2>4. LastUses'
      BY <1>1, <2>1 DEF LastUses
    <2> QED BY <1>1, <1>3, <2>1, <2>2, <2>3, <2>4 DEF StoreInv
  <1> QED BY <1>5, <1>6

\* append, to a session that is kept or one that needs a place.
LEMMA AppendKeeps ==
  ASSUME NEW X, StoreInv(X), NEW id \in Sessions, NEW x \in X, AppendExchange(id, x), clock' = clock
  PROVE  /\ StoreInv(X)'
         /\ \A j \in Ids(store') \ {id} : j \in Ids(store)
              /\ store'.entries[j].exchanges = store.entries[j].exchanges
         /\ \/ store'.entries[id].exchanges = <<x>>
            \/ /\ id \in Ids(store)
               /\ store'.entries[id].exchanges = Latest(Append(store.entries[id].exchanges, x))
  <1>1. clock \in Nat /\ clock \in 0 .. MaxClock /\ LastUses /\ Dict(store, X)
    BY DEF StoreInv
  <1>2. PICK d : d = Purged(store)
    OBVIOUS
  <1>3. /\ Ids(d) \subseteq Ids(store) /\ Dict(d, X)
        /\ \A j \in Ids(d) : d.entries[j] = store.entries[j]
        /\ \A j \in Ids(store) \ Ids(d) : clock - store.entries[j].updatedAt > TtlSeconds
    BY <1>1, <1>2, PurgedShape
  <1>4. \A j \in Ids(store) \ Ids(d) : clock - lastUse[j].at > TtlSeconds
    BY <1>1, <1>3 DEF Dict, Noted
  <1>5. lastUse' = UseNoted(id)
    BY DEF AppendExchange
  <1>6. LastUses'
    BY <1>1, <1>5, UseNotedShape
  <1>7. CASE id \in Ids(d)
    <2>1. PICK h : h = Latest(Append(HistoryOf(id), x))
      OBVIOUS
    <2>2. store' = Used(d, id, h)
      BY <1>2, <1>7, <2>1 DEF AppendExchange
    <2>3. /\ HistoryOf(id) = store.entries[id].exchanges /\ id \in Ids(store)
          /\ HistoryOf(id) \in Seq(X) /\ Len(HistoryOf(id)) \in 1 .. MaxTurns
      BY <1>2, <1>7, HistoryShape
    <2>4. h \in Seq(X) /\ Len(h) \in 1 .. MaxTurns
      <3>1. PICK g \in Seq(X) : g = HistoryOf(id) /\ Len(g) \in 1 .. MaxTurns
        BY <2>3
      <3>2. PICK k \in Seq(X) : k = Append(g, x) /\ Len(k) = Len(g) + 1
        <4>1. Append(g, x) \in Seq(X) /\ Len(Append(g, x)) = Len(g) + 1
          BY <3>1
        <4> QED BY <4>1
      <3>3. Len(k) \in 1 .. MaxTurns + 1
        BY <3>1, <3>2, StoreAssumption
      <3> QED BY <2>1, <3>1, <3>2, <3>3, LatestShape
    <2>5. /\ Dict(store, X)' /\ Ids(store') = Ids(d) \cup {id}
          /\ \A j \in Ids(d) \ {id} : store'.entries[j] = d.entries[j]
          /\ store'.entries[id].exchanges = h
      BY <1>1, <1>3, <1>5, <1>7, <2>2, <2>4, UsedKeeps
    <2>6. LiveContextKept'
      <3>1. ASSUME NEW j \in Sessions, lastUse'[j] # NotKept, j \notin Ids(store')
            PROVE  \/ clock' - lastUse'[j].at > TtlSeconds
                   \/ Cardinality(lastUse'[j].others) >= MaxConversations
        <4>1. j \in Sessions \ {id}
          BY <2>5, <3>1
        <4>2. j \notin Ids(store) \/ clock - lastUse[j].at > TtlSeconds
          BY <1>4, <2>5, <3>1
        <4> QED BY <1>5, <3>1, <4>1, <4>2, LossKeepsReason
      <3> QED BY <3>1 DEF LiveContextKept
    <2> QED BY <1>1, <1>3, <1>6, <2>1, <2>3, <2>5, <2>6 DEF StoreInv
  <1>8. CASE id \notin Ids(d)
    <2>1. PICK e : e = Evicted(d)
      OBVIOUS
    <2>2. store' = Used(e, id, <<x>>)
      BY <1>2, <1>8, <2>1 DEF AppendExchange
    <2>3. /\ Ids(e) \subseteq Ids(d) /\ Dict(e, X) /\ Cardinality(Ids(e)) < MaxConversations
          /\ \A j \in Ids(d) \ Ids(e) : Cardinality(After(d, j)) >= MaxConversations - 1
          /\ \A j \in Ids(e) : e.entries[j] = d.entries[j]
      <3>1. \A j \in Ids(e) : e.entries[j] = d.entries[j]
        BY <2>1, OnlyShape DEF Evicted
      <3> QED BY <1>3, <2>1, <3>1, EvictedShape
    <2>4. PICK s \in Seq(X) : s = <<x>> /\ Len(s) \in 1 .. MaxTurns
      <3>1. <<x>> \in Seq(X) /\ Len(<<x>>) = 1
        OBVIOUS
      <3>2. 1 \in 1 .. MaxTurns
        BY StoreAssumption
      <3> QED BY <3>1, <3>2
    <2>5. /\ Dict(store, X)' /\ Ids(store') = Ids(e) \cup {id}
          /\ \A j \in Ids(e) \ {id} : store'.entries[j] = e.entries[j]
          /\ store'.entries[id].exchanges = <<x>>
      <3>1. store' = Used(e, id, s)
        BY <2>2, <2>4
      <3>2. /\ Dict(store, X)' /\ Ids(store') = Ids(e) \cup {id}
            /\ \A j \in Ids(e) \ {id} : store'.entries[j] = e.entries[j]
            /\ store'.entries[id].exchanges = s
        <4>1. Dict(e, X) /\ (id \in Ids(e) \/ Cardinality(Ids(e)) < MaxConversations)
          BY <2>3
        <4>2. s \in Seq(X) /\ Len(s) \in 1 .. MaxTurns
          BY <2>4
        <4> QED BY <1>1, <1>5, <3>1, <4>1, <4>2, UsedKeeps
      <3> QED BY <2>4, <3>2
    <2>6. LiveContextKept'
      <3>1. ASSUME NEW j \in Sessions, lastUse'[j] # NotKept, j \notin Ids(store')
            PROVE  \/ clock' - lastUse'[j].at > TtlSeconds
                   \/ Cardinality(lastUse'[j].others) >= MaxConversations
        <4>1. j \in Sessions \ {id}
          BY <2>5, <3>1
        <4>2. CASE j \notin Ids(d)
          <5>1. j \notin Ids(store) \/ clock - lastUse[j].at > TtlSeconds
            BY <1>4, <4>2
          <5> QED BY <1>5, <3>1, <4>1, <5>1, LossKeepsReason
        <4>3. CASE j \in Ids(d)
          <5>1. PICK S : S = After(d, j)
            OBVIOUS
          <5>2. S \subseteq lastUse[j].others /\ S \subseteq Ids(d) /\ IsFiniteSet(S)
            BY <1>3, <4>3, <5>1, FS_Subset DEF Dict, Noted, After
          <5>3. id \notin S /\ Cardinality(S) >= MaxConversations - 1
            BY <1>8, <2>3, <2>5, <3>1, <4>3, <5>1, <5>2
          <5> QED BY <1>5, <3>1, <4>1, <5>2, <5>3, LossKeepsReason
        <4> QED BY <4>2, <4>3
      <3> QED BY <3>1 DEF LiveContextKept
    <2>7. \A j \in Ids(store') \ {id} : j \in Ids(store)
              /\ store'.entries[j].exchanges = store.entries[j].exchanges
      BY <1>3, <2>3, <2>5
    <2> QED BY <1>1, <1>6, <2>5, <2>6, <2>7 DEF StoreInv
  <1> QED BY <1>7, <1>8

LEMMA ClearKeeps ==
  ASSUME NEW X, StoreInv(X), NEW id \in Sessions, Clear(id), clock' = clock
  PROVE  /\ StoreInv(X)' /\ id \notin Ids(store')
         /\ \A j \in Ids(store') : j \in Ids(store) /\ store'.entries[j] = store.entries[j]
  <1>1. PICK d : d = Without(store, id)
    OBVIOUS
  <1>2. /\ Ids(d) = Ids(store) \ {id} /\ Dict(d, X)
        /\ \A j \in Ids(d) : d.entries[j] = store.entries[j]
    BY <1>1, OnlyShape, OnlyKeeps DEF Without, StoreInv
  <1>3. store' = d /\ lastUse' = [lastUse EXCEPT ![id] = NotKept]
    BY <1>1 DEF Clear
  <1>4. lastUse \in [Sessions -> [at : -1 .. clock, others : SUBSET Sessions]]
    BY DEF StoreInv, LastUses
  <1>5. lastUse'[id] = NotKept /\ \A j \in Sessions \ {id} : lastUse'[j] = lastUse[j]
    BY <1>3, <1>4
  <1>6. LastUses'
    <2>1. clock \in Nat
      BY DEF StoreInv
    <2>2. PICK U : U = [at : -1 .. clock, others : SUBSET Sessions]
      OBVIOUS
    <2>3. NotKept \in U /\ NotKept.others = {}
      <3>1. -1 \in -1 .. clock
        BY <2>1
      <3>2. PICK T, S : T = -1 .. clock /\ S = SUBSET Sessions
        OBVIOUS
      <3>3. NotKept \in [at : T, others : S]
        BY <3>1, <3>2 DEF NotKept
      <3> QED BY <2>2, <3>2, <3>3 DEF NotKept
    <2>4. lastUse' \in [Sessions -> U]
      BY <1>3, <1>4, <2>2, <2>3
    <2>5. \A j \in Sessions : IsFiniteSet(lastUse'[j].others)
      BY <1>5, <2>3, FS_EmptySet DEF StoreInv, LastUses
    <2> QED BY <2>2, <2>4, <2>5 DEF LastUses
  <1>7. Dict(store, X)'
    <2>1. Noted(d)'
      BY <1>2, <1>5 DEF Dict, Noted
    <2>2. Entries(d, X)'
      BY <1>2 DEF Dict, Entries
    <2>3. Dict(d, X)'
      BY <1>2, <2>1, <2>2 DEF Dict
    <2> QED BY <1>3, <2>3
  <1>8. LiveContextKept'
    BY <1>2, <1>3, <1>5 DEF StoreInv, LiveContextKept
  <1> QED BY <1>2, <1>3, <1>6, <1>7, <1>8 DEF StoreInv

LEMMA TickKeeps ==
  ASSUME NEW X, StoreInv(X), ClockTick
  PROVE  StoreInv(X)' /\ store' = store
  <1>1. clock \in Nat /\ clock' = clock + 1 /\ clock' \in 0 .. MaxClock /\ UNCHANGED <<store, lastUse>>
    BY StoreAssumption DEF StoreInv, ClockTick
  <1>2. LastUses'
    <2>1. PICK T, S : T = -1 .. clock /\ S = SUBSET Sessions
      OBVIOUS
    <2>2. PICK V : V = -1 .. clock'
      OBVIOUS
    <2>3. T \subseteq V
      BY <1>1, <2>1, <2>2
    <2>4. lastUse \in [Sessions -> [at : T, others : S]]
      BY <2>1 DEF StoreInv, LastUses
    <2>5. lastUse \in [Sessions -> [at : V, others : S]]
      BY <2>3, <2>4
    <2> QED BY <1>1, <2>1, <2>2, <2>5 DEF StoreInv, LastUses
  <1>3. Dict(store, X)'
    <2>1. Entries(store, X)'
      BY <1>1 DEF StoreInv, Dict, Entries
    <2> QED BY <1>1, <2>1 DEF StoreInv, Dict, Entries, Noted, Linear, ByUse
  <1>4. LiveContextKept'
    <2>1. \A id \in Sessions : lastUse[id].at \in Int
      BY DEF StoreInv, LastUses
    <2>2. \A id \in Sessions : clock - lastUse[id].at > TtlSeconds => clock' - lastUse[id].at > TtlSeconds
      BY <1>1, <2>1, StoreAssumption
    <2> QED BY <1>1, <2>2 DEF StoreInv, LiveContextKept
  <1> QED BY <1>1, <1>2, <1>3, <1>4 DEF StoreInv

LEMMA StoreUnchanged ==
  ASSUME NEW X, StoreInv(X), UNCHANGED storeVars
  PROVE  StoreInv(X)'
  BY DEF StoreInv, storeVars, LastUses, Dict, Linear, Entries, ByUse, Noted, LiveContextKept

LEMMA InitStore ==
  ASSUME NEW X, StoreInit
  PROVE  StoreInv(X) /\ Ids(store) = {}
  <1>1. Ids(store) = {} /\ store.before = {} /\ clock = 0
    BY DEF StoreInit, Ids
  <1>2. Dict(store, X)
    BY <1>1, FS_EmptySet, StoreAssumption DEF Dict, Linear, Entries, ByUse, Noted
  <1>3. LastUses
    <2>1. NotKept \in [at : -1 .. clock, others : SUBSET Sessions] /\ NotKept.others = {}
      <3>1. -1 \in -1 .. clock
        BY <1>1
      <3>2. PICK T, S : T = -1 .. clock /\ S = SUBSET Sessions
        OBVIOUS
      <3>3. NotKept \in [at : T, others : S]
        BY <3>1, <3>2 DEF NotKept
      <3> QED BY <3>2, <3>3 DEF NotKept
    <2> QED BY <2>1, FS_EmptySet DEF StoreInit, LastUses
  <1>4. LiveContextKept
    BY DEF StoreInit, LiveContextKept
  <1> QED BY <1>1, <1>2, <1>3, <1>4, StoreAssumption DEF StoreInv

LEMMA NextStore ==
  ASSUME StoreInv({"said"}), [StoreNext]_storeVars
  PROVE  StoreInv({"said"})'
  <1>1. PICK X : X = {"said"}
    OBVIOUS
  <1>2. StoreInv(X) /\ "said" \in X
    BY <1>1
  <1>3. ASSUME NEW id \in Sessions, History(id), UNCHANGED clock
        PROVE  StoreInv(X)'
    BY <1>2, <1>3, HistoryKeeps
  <1>4. ASSUME NEW id \in Sessions, AppendExchange(id, "said"), UNCHANGED clock
        PROVE  StoreInv(X)'
    BY <1>2, <1>4, AppendKeeps
  <1>5. ASSUME NEW id \in Sessions, Clear(id), UNCHANGED clock
        PROVE  StoreInv(X)'
    BY <1>2, <1>5, ClearKeeps
  <1>6. CASE ClockTick
    BY <1>1, <1>2, <1>6, TickKeeps
  <1>7. CASE UNCHANGED storeVars
    BY <1>1, <1>2, <1>7, StoreUnchanged
  <1>8. StoreInv(X)'
    BY <1>2, <1>3, <1>4, <1>5, <1>6, <1>7, TickKeeps, StoreUnchanged DEF StoreNext
  <1> QED BY <1>1, <1>8

LEMMA StoreInvHolds == StoreSpec => []StoreInv({"said"})
  <1>1. StoreInit => StoreInv({"said"})
    BY InitStore
  <1>2. StoreInv({"said"}) /\ [StoreNext]_storeVars => StoreInv({"said"})'
    BY NextStore
  <1> QED BY <1>1, <1>2, PTL DEF StoreSpec

LEMMA StoreTyped ==
  ASSUME NEW X, StoreInv(X)
  PROVE  StoreTypeOK /\ OldestUseFirst
  BY DEF StoreInv, LastUses, Dict, Linear, Entries, ByUse, StoreTypeOK, OldestUseFirst

(***************************************************************************)
(* The limits hold: no session has more than max_turns turns, there are    *)
(* never more than max_conversations sessions, and an entry that is there  *)
(* has a turn (ConversationContextStore, every operation).                 *)
(***************************************************************************)
THEOREM StoreWithinLimits == StoreSpec => []StoreTypeOK
  <1>1. StoreInv({"said"}) => StoreTypeOK
    BY StoreTyped
  <1> QED BY <1>1, StoreInvHolds, PTL

(***************************************************************************)
(* popitem(last=False) removes the session unused for longest: the place   *)
(* in the OrderedDict follows the time of the last use.                    *)
(***************************************************************************)
THEOREM EvictionTakesTheOldest == StoreSpec => []OldestUseFirst
  <1>1. StoreInv({"said"}) => OldestUseFirst
    BY StoreTyped
  <1> QED BY <1>1, StoreInvHolds, PTL

(***************************************************************************)
(* Purging, evicting and moving to the end together never cost a session   *)
(* its context before its time to live has passed or max_conversations     *)
(* others were used, whatever the limits and however many sessions.        *)
(***************************************************************************)
THEOREM LiveCallsKeepContext == StoreSpec => []LiveContextKept
  <1>1. StoreInv({"said"}) => LiveContextKept
    BY DEF StoreInv
  <1> QED BY <1>1, StoreInvHolds, PTL
=============================================================================
