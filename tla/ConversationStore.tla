------------------------- MODULE ConversationStore -------------------------
(***************************************************************************)
(* ConversationContextStore: the recent turns of each voice session, kept  *)
(* in memory in an OrderedDict, least recently used first, with a limit on *)
(* the turns of a session, on the sessions, and on the time a session may  *)
(* go unused.  Every operation runs under one lock, so it is one step.     *)
(* An expired session is only deleted by the next history or append.       *)
(***************************************************************************)
EXTENDS Integers, Sequences, FiniteSets

CONSTANTS Sessions,          \* conversation ids
          MaxTurns,          \* max_turns
          TtlSeconds,        \* ttl_seconds
          MaxConversations,  \* max_conversations
          MaxClock           \* bound: the last reading of the clock

ASSUME StoreAssumption ==
  /\ MaxTurns \in Nat \ {0}
  /\ TtlSeconds \in Nat \ {0}
  /\ MaxConversations \in Nat \ {0}
  /\ MaxClock \in Nat

VARIABLES store,    \* the OrderedDict: entries by id, and which id comes before which
          clock,    \* the monotonic clock
          lastUse   \* history: when a session was last used and which others since

storeVars == <<store, clock, lastUse>>

\* A session that has no turns yet, or was cleared.
NotKept == [at |-> -1, others |-> {}]

Ids(d) == DOMAIN d.entries
After(d, id) == {j \in Ids(d) : <<id, j>> \in d.before}
Only(d, ids) == [entries |-> [id \in ids |-> d.entries[id]],
                 before  |-> d.before \cap (ids \X ids)]

StoreTypeOK ==
  /\ \A id \in Ids(store) :
       /\ id \in Sessions
       /\ store.entries[id].updatedAt \in 0 .. clock
       /\ Len(store.entries[id].exchanges) \in 1 .. MaxTurns
  /\ store.before \subseteq Ids(store) \X Ids(store)
  /\ Cardinality(Ids(store)) <= MaxConversations
  /\ clock \in 0 .. MaxClock
  /\ lastUse \in [Sessions -> [at : -1 .. clock, others : SUBSET Sessions]]

StoreInit ==
  /\ store = [entries |-> <<>>, before |-> {}]
  /\ clock = 0
  /\ lastUse = [id \in Sessions |-> NotKept]

\* Mutant: a session expires when it reaches its time to live.
PurgedEarly(d) == Only(d, {id \in Ids(d) : clock - d.entries[id].updatedAt < TtlSeconds})

Purged(d) == Only(d, {id \in Ids(d) : clock - d.entries[id].updatedAt <= TtlSeconds})

Without(d, id) == Only(d, Ids(d) \ {id})

\* Mutant: room is made one session too late.
EvictedLate(d) == Only(d, {id \in Ids(d) : Cardinality(After(d, id)) < MaxConversations})

\* _evict_at_capacity: the first go until there is room for one more at the end.
Evicted(d) == Only(d, {id \in Ids(d) : Cardinality(After(d, id)) < MaxConversations - 1})

\* deque(maxlen = MaxTurns)
Latest(exchanges) ==
  IF Len(exchanges) <= MaxTurns THEN exchanges ELSE Tail(exchanges)

\* Mutant: a use does not move the session to the end.
UsedInPlace(d, id, exchanges) ==
  [entries |-> [j \in Ids(d) \cup {id} |->
                  IF j = id THEN [exchanges |-> exchanges, updatedAt |-> clock] ELSE d.entries[j]],
   before  |-> IF id \in Ids(d) THEN d.before ELSE d.before \cup (Ids(d) \X {id})]

\* updated_at = now and move_to_end.
Used(d, id, exchanges) ==
  [entries |-> [j \in Ids(d) \cup {id} |->
                  IF j = id THEN [exchanges |-> exchanges, updatedAt |-> clock] ELSE d.entries[j]],
   before  |-> Without(d, id).before \cup ((Ids(d) \ {id}) \X {id})]

UseNoted(id) ==
  [j \in Sessions |->
     IF j = id THEN [at |-> clock, others |-> {}]
     ELSE IF lastUse[j] = NotKept THEN NotKept
     ELSE [lastUse[j] EXCEPT !.others = @ \cup {id}]]

\* What history(id) returns.
HistoryOf(id) ==
  IF id \in Ids(Purged(store)) THEN store.entries[id].exchanges ELSE <<>>

History(id) ==
  IF id \in Ids(Purged(store))
  THEN /\ store' = Used(Purged(store), id, HistoryOf(id))
       /\ lastUse' = UseNoted(id)
  ELSE store' = Purged(store) /\ UNCHANGED lastUse

AppendExchange(id, exchange) ==
  /\ store' = IF id \in Ids(Purged(store))
              THEN Used(Purged(store), id, Latest(Append(HistoryOf(id), exchange)))
              ELSE Used(Evicted(Purged(store)), id, <<exchange>>)
  /\ lastUse' = UseNoted(id)

Clear(id) ==
  /\ store' = Without(store, id)
  /\ lastUse' = [lastUse EXCEPT ![id] = NotKept]

ClockTick ==
  /\ clock < MaxClock
  /\ clock' = clock + 1
  /\ UNCHANGED <<store, lastUse>>

StoreNext ==
  \/ \E id \in Sessions : History(id) /\ UNCHANGED clock
  \/ \E id \in Sessions : AppendExchange(id, "said") /\ UNCHANGED clock
  \/ \E id \in Sessions : Clear(id) /\ UNCHANGED clock
  \/ ClockTick

StoreSpec == StoreInit /\ [][StoreNext]_storeVars
-----------------------------------------------------------------------------
(***************************************************************************)
(* The dictionary stays ordered by last use, so the entry that makes room  *)
(* at the limit (popitem(last=False)) is the session unused for longest.   *)
(***************************************************************************)
OldestUseFirst ==
  \A i, j \in Ids(store) :
    <<i, j>> \in store.before => store.entries[i].updatedAt <= store.entries[j].updatedAt

(***************************************************************************)
(* A call in progress keeps its context: a session with recorded turns is  *)
(* lost only by a clear, after its time to live, or when at least          *)
(* max_conversations others were used since (history and append together). *)
(***************************************************************************)
LiveContextKept ==
  \A id \in Sessions :
    lastUse[id] # NotKept =>
      \/ id \in Ids(store)
      \/ clock - lastUse[id].at > TtlSeconds
      \/ Cardinality(lastUse[id].others) >= MaxConversations
=============================================================================
