-------------------------- MODULE VoiceTurnsProofs --------------------------
(***************************************************************************)
(* Proofs about voice turns and the context they are recorded in, for any  *)
(* pages, sessions and limits.  A page waits for one spoken and one typed  *)
(* turn at a time and for none spoken in a call that is over (Asked); a    *)
(* spoken turn that is not through the server is the last one of its call, *)
(* and given up only by hanging up (InProgress); what the store keeps are  *)
(* recorded turns of that session (Exchanges).  So a spoken turn recorded  *)
(* late, after the DELETE of its call or after a later turn, is the last   *)
(* of a call its caller hung up.                                           *)
(***************************************************************************)
EXTENDS VoiceTurns, ConversationStoreProofs, SequenceTheorems

PageOf(t) == turns[t].call[1]
Over(c) == c[2] < page[c[1]].calls \/ (c[2] = page[c[1]].calls /\ ~ page[c[1]].inCall)

PagesOK ==
  /\ page \in [Pages -> [session : Sessions, inCall : BOOLEAN, mode : Modes,
                         calls : 0 .. MaxCalls]]
  /\ \A p \in Pages : page[p].session \in {FirstOf[p], NextOf[p]}

Asked ==
  /\ turns \in Seq(Turn) /\ Len(turns) <= MaxAsked
  /\ \A t \in DOMAIN turns :
       /\ turns[t].session \in {FirstOf[PageOf(t)], NextOf[PageOf(t)]}
       /\ turns[t].call[2] <= page[PageOf(t)].calls
       /\ turns[t].answered => turns[t].stage \in {"recorded", "unrecorded"}
       /\ Spoken(t) /\ Over(turns[t].call) => ~ Waiting(t)
  /\ \A t, u \in DOMAIN turns :
       t < u /\ PageOf(t) = PageOf(u) /\ turns[t].by = turns[u].by => ~ Waiting(t)

Unfinished(t) == turns[t].stage \in {"asked", "evaluating"}

InProgress ==
  \A t \in DOMAIN turns : Spoken(t) /\ Unfinished(t) =>
    /\ turns[t].aborted => Over(turns[t].call)
    /\ LastSpoken(t)

HungUp ==
  /\ deletes \subseteq Sessions \X Calls \X {"hang up", "clear"}
  /\ ended \subseteq Sessions \X Calls
  /\ \A d \in deletes : d[3] = "hang up" => Over(d[2])
  /\ \A e \in ended : Over(e[2])

OfSession(x, id) ==
  /\ x.turn \in DOMAIN turns
  /\ turns[x.turn].session = id /\ turns[x.turn].call = x.call
  /\ turns[x.turn].stage = "recorded"

Exchanges ==
  \A id \in Ids(store) : \A j \in DOMAIN store.entries[id].exchanges :
    OfSession(store.entries[id].exchanges[j], id)

VoiceInv ==
  /\ StoreInv(Said)
  /\ PagesOK /\ Asked /\ InProgress /\ HungUp
  /\ Exchanges
  /\ OnlyAbandonedTurnsOutliveTheirCall
  /\ TurnsKeptInOrder

-----------------------------------------------------------------------------
(* Turns and pages *)

PageRecords == [session : Sessions, inCall : BOOLEAN, mode : Modes, calls : 0 .. MaxCalls]

\* What no step takes back from a turn.
Follows(t) ==
  /\ t \in DOMAIN turns'
  /\ turns'[t].session = turns[t].session /\ turns'[t].call = turns[t].call
  /\ turns'[t].by = turns[t].by
  /\ Unfinished(t)' => Unfinished(t)
  /\ turns[t].aborted => turns'[t].aborted
  /\ turns[t].answered => turns'[t].answered
  /\ turns[t].stage = "recorded" => turns'[t].stage = "recorded"

LEMMA TurnsShape ==
  ASSUME Asked
  PROVE  /\ DOMAIN turns = 1 .. Len(turns) /\ Len(turns) \in Nat
         /\ \A t \in DOMAIN turns :
              /\ turns[t] \in Turn /\ turns[t].call \in Calls /\ PageOf(t) \in Pages
              /\ turns[t].call[2] \in Nat /\ turns[t].by \in Sources
              /\ turns[t].aborted \in BOOLEAN /\ turns[t].answered \in BOOLEAN
  <1>1. PICK s \in Seq(Turn) : s = turns
    BY DEF Asked
  <1>2. DOMAIN s = 1 .. Len(s) /\ Len(s) \in Nat
    BY <1>1, LenProperties
  <1>3. \A t \in DOMAIN s : s[t] \in Turn
    BY <1>1, <1>2, ElementOfSeq
  <1>4. \A u \in Turn : u.call \in Calls /\ u.by \in Sources /\ u.aborted \in BOOLEAN /\ u.answered \in BOOLEAN
    BY DEF Turn
  <1>5. \A c \in Calls : c[1] \in Pages /\ c[2] \in Nat
    BY VoiceAssumption DEF Calls
  <1> QED BY <1>1, <1>2, <1>3, <1>4, <1>5 DEF PageOf

LEMMA TurnChanged ==
  ASSUME Asked, NEW t \in DOMAIN turns, NEW v \in Turn, turns' = [turns EXCEPT ![t] = v],
         v.session = turns[t].session, v.call = turns[t].call, v.by = turns[t].by,
         v.stage \in {"asked", "evaluating"} => Unfinished(t),
         turns[t].aborted => v.aborted, turns[t].answered => v.answered,
         turns[t].stage = "recorded" => v.stage = "recorded"
  PROVE  /\ turns' \in Seq(Turn) /\ Len(turns') = Len(turns) /\ DOMAIN turns' = DOMAIN turns
         /\ turns'[t] = v /\ \A u \in DOMAIN turns \ {t} : turns'[u] = turns[u]
         /\ \A u \in DOMAIN turns : Follows(u)
  <1>1. PICK s \in Seq(Turn) : s = turns
    BY DEF Asked
  <1>2. DOMAIN s = 1 .. Len(s) /\ Len(s) \in Nat
    BY <1>1, LenProperties
  <1>3. /\ turns' \in Seq(Turn) /\ Len(turns') = Len(turns)
        /\ \A u \in 1 .. Len(s) : turns'[u] = IF u = t THEN v ELSE s[u]
    BY <1>1, <1>2, ExceptSeq
  <1>4. DOMAIN turns' = DOMAIN turns
    BY <1>1
  <1> QED BY <1>1, <1>2, <1>3, <1>4 DEF Follows, Unfinished

LEMMA TurnsAborted ==
  ASSUME Asked, NEW ts, turns' = Aborted(ts)
  PROVE  /\ turns' \in Seq(Turn) /\ Len(turns') = Len(turns) /\ DOMAIN turns' = DOMAIN turns
         /\ \A t \in DOMAIN turns :
              /\ Follows(t) /\ turns'[t].stage = turns[t].stage
              /\ turns'[t].answered = turns[t].answered
              /\ turns'[t].aborted <=> turns[t].aborted \/ t \in ts
  <1>1. PICK s : s = turns'
    OBVIOUS
  <1>2. /\ DOMAIN s = DOMAIN turns
        /\ \A t \in DOMAIN turns :
             s[t] = IF t \in ts THEN [turns[t] EXCEPT !.aborted = TRUE] ELSE turns[t]
    BY <1>1 DEF Aborted
  <1>3. ASSUME NEW u \in Turn
        PROVE  /\ [u EXCEPT !.aborted = TRUE] \in Turn
               /\ [u EXCEPT !.aborted = TRUE].session = u.session
               /\ [u EXCEPT !.aborted = TRUE].call = u.call
               /\ [u EXCEPT !.aborted = TRUE].by = u.by
               /\ [u EXCEPT !.aborted = TRUE].stage = u.stage
               /\ [u EXCEPT !.aborted = TRUE].answered = u.answered
               /\ [u EXCEPT !.aborted = TRUE].aborted
    <2>1. PICK v : v = [u EXCEPT !.aborted = TRUE]
      OBVIOUS
    <2>2. /\ v \in Turn /\ v.session = u.session /\ v.call = u.call /\ v.by = u.by /\ v.stage = u.stage
          /\ v.answered = u.answered /\ v.aborted
      BY <2>1 DEF Turn
    <2> QED BY <2>1, <2>2
  <1>4. /\ DOMAIN turns = 1 .. Len(turns) /\ Len(turns) \in Nat
        /\ \A t \in DOMAIN turns : turns[t] \in Turn
    BY TurnsShape
  <1>5. ASSUME NEW t \in DOMAIN turns
        PROVE  /\ s[t] \in Turn /\ s[t].session = turns[t].session /\ s[t].call = turns[t].call
               /\ s[t].by = turns[t].by
               /\ s[t].stage = turns[t].stage /\ s[t].answered = turns[t].answered
               /\ s[t].aborted <=> turns[t].aborted \/ t \in ts
    BY <1>2, <1>3, <1>4
  <1>6. PICK n \in Nat : n = Len(turns)
    BY <1>4
  <1>7. s \in Seq(Turn) /\ Len(s) = n
    <2>1. s = [t \in 1 .. n |-> s[t]]
      BY <1>1, <1>4, <1>6 DEF Aborted
    <2>2. s \in [1 .. n -> Turn]
      BY <1>4, <1>5, <1>6, <2>1
    <2> QED BY <2>2
  <1> QED BY <1>1, <1>2, <1>5, <1>6, <1>7 DEF Follows, Unfinished

LEMMA PageShape ==
  ASSUME PagesOK, NEW p \in Pages
  PROVE  /\ page[p].session \in Sessions /\ page[p].inCall \in BOOLEAN /\ page[p].mode \in Modes
         /\ page[p].calls \in 0 .. MaxCalls /\ page[p].calls \in Nat
         /\ CallOf(p) \in Calls
         /\ CallOf(p)[1] = p /\ CallOf(p)[2] = page[p].calls
  <1>1. /\ page[p].session \in Sessions /\ page[p].inCall \in BOOLEAN /\ page[p].mode \in Modes
        /\ page[p].calls \in 0 .. MaxCalls
    BY DEF PagesOK
  <1>2. page[p].calls \in Nat
    BY <1>1, VoiceAssumption
  <1> QED BY <1>1, <1>2 DEF CallOf, Calls

LEMMA PageChanged ==
  ASSUME PagesOK, NEW p \in Pages, NEW r \in PageRecords, page' = [page EXCEPT ![p] = r],
         r.session \in {FirstOf[p], NextOf[p]}
  PROVE  PagesOK' /\ page'[p] = r /\ \A q \in Pages \ {p} : page'[q] = page[q]
  BY DEF PagesOK, PageRecords

LEMMA AskedKept ==
  ASSUME PagesOK, Asked, turns' \in Seq(Turn), Len(turns') = Len(turns), DOMAIN turns' = DOMAIN turns,
         \A t \in DOMAIN turns :
           /\ Follows(t)
           /\ turns'[t].answered => turns'[t].stage \in {"recorded", "unrecorded"},
         PagesOK', \A p \in Pages : page[p].calls <= page'[p].calls,
         \A t \in DOMAIN turns : Spoken(t) /\ Over(turns[t].call)' => ~ Waiting(t)'
  PROVE  Asked'
  <1>1. \A t \in DOMAIN turns : PageOf(t) \in Pages /\ turns[t].call[2] \in Nat
    BY TurnsShape
  <1>2. \A p \in Pages : page[p].calls \in Nat /\ page'[p].calls \in Nat
    BY VoiceAssumption DEF PagesOK
  <1>3. ASSUME NEW t \in DOMAIN turns
        PROVE  /\ PageOf(t)' = PageOf(t) /\ turns'[t].by = turns[t].by
               /\ Spoken(t)' <=> Spoken(t)
               /\ ~ Waiting(t) => ~ Waiting(t)'
               /\ turns'[t].session \in {FirstOf[PageOf(t)], NextOf[PageOf(t)]}
               /\ turns'[t].call[2] <= page'[PageOf(t)].calls
    <2>1. Follows(t) /\ turns[t].call[2] <= page[PageOf(t)].calls
      BY DEF Asked
    <2>2. turns[t].call[2] <= page'[PageOf(t)].calls
      BY <1>1, <1>2, <2>1
    <2> QED BY <2>1, <2>2 DEF Follows, PageOf, Waiting, Asked, Spoken
  <1>4. ASSUME NEW t \in DOMAIN turns', NEW u \in DOMAIN turns', t < u, PageOf(t)' = PageOf(u)',
               turns'[t].by = turns'[u].by
        PROVE  ~ Waiting(t)'
    BY <1>3, <1>4 DEF Asked
  <1> QED BY <1>3, <1>4 DEF Asked

LEMMA AskedKeptInPlace ==
  ASSUME PagesOK, Asked, turns' \in Seq(Turn), Len(turns') = Len(turns), DOMAIN turns' = DOMAIN turns,
         \A t \in DOMAIN turns :
           /\ Follows(t)
           /\ turns'[t].answered => turns'[t].stage \in {"recorded", "unrecorded"},
         page' = page
  PROVE  PagesOK' /\ Asked'
  <1>1. PagesOK' /\ \A p \in Pages : page[p].calls <= page'[p].calls
    <2>1. \A p \in Pages : page[p].calls \in Nat
      BY PageShape
    <2> QED BY <2>1 DEF PagesOK
  <1>2. ASSUME NEW t \in DOMAIN turns, Spoken(t), Over(turns[t].call)'
        PROVE  ~ Waiting(t)'
    <2>1. Over(turns[t].call)
      BY <1>2 DEF Over, Follows
    <2> QED BY <1>2, <2>1 DEF Asked, Follows, Waiting
  <1> QED BY <1>1, <1>2, AskedKept

\* No step gives up an unfinished spoken turn but hanging up.
Abandons ==
  \A t \in DOMAIN turns :
    turns'[t].aborted /\ Spoken(t) /\ Unfinished(t) => turns[t].aborted \/ Over(turns[t].call)'

LEMMA InProgressKept ==
  ASSUME Asked, InProgress, DOMAIN turns' = DOMAIN turns, \A t \in DOMAIN turns : Follows(t),
         \A c \in Calls : Over(c) => Over(c)', Abandons
  PROVE  InProgress'
  <1>1. ASSUME NEW t \in DOMAIN turns, Spoken(t)', Unfinished(t)'
        PROVE  (turns'[t].aborted => Over(turns[t].call)') /\ LastSpoken(t)'
    <2>1. Spoken(t) /\ Unfinished(t)
      BY <1>1 DEF Follows, Spoken
    <2>2. (turns[t].aborted => Over(turns[t].call)) /\ LastSpoken(t)
      BY <2>1 DEF InProgress
    <2>3. PICK c \in Calls : c = turns[t].call
      BY TurnsShape
    <2>4. turns[t].aborted => Over(turns[t].call)'
      <3>1. turns[t].aborted => Over(c)'
        BY <2>2, <2>3
      <3>2. turns'[t].call = c
        BY <2>3 DEF Follows
      <3> QED BY <2>3, <3>1, <3>2 DEF Follows, Over
    <2>5. turns'[t].aborted => Over(turns[t].call)'
      BY <2>1, <2>4 DEF Abandons
    <2>6. LastSpoken(t)'
      BY <2>2 DEF LastSpoken, Follows, Spoken
    <2> QED BY <2>5, <2>6
  <1> QED BY <1>1 DEF InProgress

LEMMA HungUpKept ==
  ASSUME HungUp, deletes' \subseteq deletes, ended' = ended,
         \A c \in Calls : Over(c) => Over(c)'
  PROVE  HungUp'
  BY DEF HungUp

\* What the store keeps of a session.
KeptOf(x, id) ==
  /\ OfSession(x, id)
  /\ <<id, x.call>> \in ended /\ Spoken(x.turn) => turns[x.turn].aborted /\ LastSpoken(x.turn)

LEMMA KeptExchanges ==
  ASSUME Exchanges, OnlyAbandonedTurnsOutliveTheirCall
  PROVE  \A id \in Ids(store) : \A j \in DOMAIN store.entries[id].exchanges :
           KeptOf(store.entries[id].exchanges[j], id)
  BY DEF Exchanges, OnlyAbandonedTurnsOutliveTheirCall, KeptOf

LEMMA KeptPairs ==
  ASSUME TurnsKeptInOrder, NEW id \in Ids(store), NEW j \in DOMAIN store.entries[id].exchanges,
         NEW k \in DOMAIN store.entries[id].exchanges, NEW x, NEW y,
         x = store.entries[id].exchanges[j], y = store.entries[id].exchanges[k],
         j < k, x.turn > y.turn, turns[x.turn].by = turns[y.turn].by
  PROVE  turns[y.turn].aborted /\ (Spoken(x.turn) => x.call # y.call)
  BY DEF TurnsKeptInOrder

\* What is kept of a session are turns of its own, none of them new.
LEMMA ExchangesKept ==
  ASSUME Exchanges, OnlyAbandonedTurnsOutliveTheirCall, TurnsKeptInOrder,
         \A t \in DOMAIN turns : Follows(t),
         \A u \in DOMAIN turns' :
           u \in DOMAIN turns \/ ~ Spoken(u)' \/ \A id : <<id, turns'[u].call>> \notin ended',
         \A id \in Ids(store') : /\ id \in Ids(store)
                                 /\ store'.entries[id].exchanges = store.entries[id].exchanges
                                 /\ \A c : <<id, c>> \in ended' => <<id, c>> \in ended
  PROVE  /\ Exchanges' /\ OnlyAbandonedTurnsOutliveTheirCall' /\ TurnsKeptInOrder'
  <1>1. ASSUME NEW id \in Ids(store'), NEW j \in DOMAIN store'.entries[id].exchanges,
               NEW x, x = store'.entries[id].exchanges[j]
        PROVE  /\ OfSession(x, id) /\ OfSession(x, id)' /\ Follows(x.turn)
               /\ <<id, x.call>> \in ended' /\ Spoken(x.turn) =>
                    turns[x.turn].aborted /\ LastSpoken(x.turn)
    <2>1. /\ id \in Ids(store) /\ j \in DOMAIN store.entries[id].exchanges
          /\ x = store.entries[id].exchanges[j]
          /\ <<id, x.call>> \in ended' => <<id, x.call>> \in ended
      BY <1>1
    <2>2. KeptOf(x, id)
      BY <2>1, KeptExchanges
    <2>3. /\ OfSession(x, id) /\ Follows(x.turn)
          /\ <<id, x.call>> \in ended' /\ Spoken(x.turn) =>
               turns[x.turn].aborted /\ LastSpoken(x.turn)
      BY <2>1, <2>2 DEF KeptOf, OfSession
    <2>4. OfSession(x, id)'
      BY <2>3 DEF OfSession, Follows
    <2> QED BY <2>3, <2>4
  <1>2. Exchanges'
    <2>1. ASSUME NEW id \in Ids(store'), NEW j \in DOMAIN store'.entries[id].exchanges,
                 NEW x, x = store'.entries[id].exchanges[j]
          PROVE  OfSession(x, id)'
      BY <1>1, <2>1
    <2>2. ASSUME NEW id \in Ids(store'), NEW j \in DOMAIN store'.entries[id].exchanges
          PROVE  LET x == store'.entries[id].exchanges[j]
                 IN  /\ x.turn \in DOMAIN turns'
                     /\ turns'[x.turn].session = id /\ turns'[x.turn].call = x.call
                     /\ turns'[x.turn].stage = "recorded"
      <3>1. PICK x : x = store'.entries[id].exchanges[j]
        OBVIOUS
      <3>2. OfSession(x, id)'
        BY <2>1, <3>1
      <3> QED BY <3>1, <3>2 DEF OfSession
    <2> QED BY <2>2, Zenon DEF Exchanges, OfSession
  <1>3. ASSUME NEW id \in Ids(store'), NEW j \in DOMAIN store'.entries[id].exchanges,
               NEW x, x = store'.entries[id].exchanges[j],
               <<id, x.call>> \in ended', Spoken(x.turn)'
        PROVE  turns'[x.turn].aborted /\ LastSpoken(x.turn)'
    <2>1. /\ OfSession(x, id)' /\ Follows(x.turn) /\ Spoken(x.turn)
          /\ turns[x.turn].aborted /\ LastSpoken(x.turn)
      <3>1. /\ OfSession(x, id)' /\ Follows(x.turn)
            /\ Spoken(x.turn) => turns[x.turn].aborted /\ LastSpoken(x.turn)
        BY <1>1, <1>3
      <3>2. Spoken(x.turn)
        BY <1>3, <3>1 DEF Follows, Spoken
      <3> QED BY <3>1, <3>2
    <2>2. ASSUME NEW u \in DOMAIN turns', Spoken(u)', turns'[u].call = turns'[x.turn].call
          PROVE  u <= x.turn
      <3>1. turns'[u].call = x.call
        BY <2>1, <2>2 DEF OfSession
      <3>2. u \in DOMAIN turns
        BY <1>3, <2>2, <3>1
      <3>3. Follows(u)
        BY <3>2
      <3>4. Spoken(u) /\ turns[u].call = turns[x.turn].call
        BY <2>1, <2>2, <3>3 DEF Follows, Spoken
      <3> QED BY <2>1, <3>2, <3>4 DEF LastSpoken
    <2> QED BY <2>1, <2>2 DEF Follows, LastSpoken
  <1>4. OnlyAbandonedTurnsOutliveTheirCall'
    BY <1>3 DEF OnlyAbandonedTurnsOutliveTheirCall
  <1>5. ASSUME NEW id \in Ids(store'), NEW j \in DOMAIN store'.entries[id].exchanges,
               NEW k \in DOMAIN store'.entries[id].exchanges, NEW x, NEW y,
               x = store'.entries[id].exchanges[j], y = store'.entries[id].exchanges[k],
               j < k, x.turn > y.turn, turns'[x.turn].by = turns'[y.turn].by
        PROVE  turns'[y.turn].aborted /\ (Spoken(x.turn)' => x.call # y.call)
    <2>1. Follows(x.turn) /\ Follows(y.turn)
      BY <1>1, <1>5
    <2>2. turns[y.turn].aborted /\ (Spoken(x.turn) => x.call # y.call)
      <3>1. turns[x.turn].by = turns[y.turn].by
        BY <1>5, <2>1 DEF Follows
      <3>2. /\ id \in Ids(store) /\ j \in DOMAIN store.entries[id].exchanges
            /\ k \in DOMAIN store.entries[id].exchanges
            /\ x = store.entries[id].exchanges[j] /\ y = store.entries[id].exchanges[k]
        BY <1>5
      <3> QED BY <1>5, <3>1, <3>2, KeptPairs
    <2> QED BY <2>1, <2>2 DEF Follows, Spoken
  <1>6. TurnsKeptInOrder'
    BY <1>5 DEF TurnsKeptInOrder
  <1> QED BY <1>2, <1>4, <1>6

LEMMA TurnsSame ==
  ASSUME Asked, turns' = turns
  PROVE  /\ turns' \in Seq(Turn) /\ Len(turns') = Len(turns) /\ DOMAIN turns' = DOMAIN turns
         /\ \A t \in DOMAIN turns :
              /\ Follows(t)
              /\ turns'[t].answered => turns'[t].stage \in {"recorded", "unrecorded"}
         /\ Abandons
  BY DEF Asked, Follows, Unfinished, Abandons

LEMMA StoreSame ==
  ASSUME StoreInv(Said), UNCHANGED storeVars
  PROVE  StoreInv(Said)' /\ store' = store
  <1>1. PICK X : X = Said
    OBVIOUS
  <1>2. StoreInv(X)'
    BY <1>1, StoreUnchanged
  <1> QED BY <1>1, <1>2 DEF storeVars

\* A step that asks nothing, records nothing and ends nothing.
LEMMA QuietStep ==
  ASSUME VoiceInv, page' = page, ended' = ended, deletes' \subseteq deletes,
         turns' \in Seq(Turn), Len(turns') = Len(turns), DOMAIN turns' = DOMAIN turns,
         \A t \in DOMAIN turns :
           /\ Follows(t)
           /\ turns'[t].answered => turns'[t].stage \in {"recorded", "unrecorded"},
         Abandons, StoreInv(Said)',
         \A id \in Ids(store') : /\ id \in Ids(store)
                                 /\ store'.entries[id].exchanges = store.entries[id].exchanges
  PROVE  VoiceInv'
  <1>1. PagesOK' /\ Asked'
    BY AskedKeptInPlace DEF VoiceInv
  <1>2. \A c \in Calls : Over(c) => Over(c)'
    BY DEF Over
  <1>3. HungUp'
    BY <1>2, HungUpKept DEF VoiceInv
  <1>4. InProgress'
    BY <1>2, InProgressKept DEF VoiceInv
  <1>5. /\ Exchanges' /\ OnlyAbandonedTurnsOutliveTheirCall' /\ TurnsKeptInOrder'
    BY ExchangesKept DEF VoiceInv
  <1> QED BY <1>1, <1>3, <1>4, <1>5 DEF VoiceInv

-----------------------------------------------------------------------------
(* The page *)

LEMMA StartCallKeeps ==
  ASSUME VoiceInv, NEW p \in Pages, NEW mode \in Modes, StartCall(p, mode)
  PROVE  VoiceInv'
  <1>1. /\ page[p].session \in Sessions /\ page[p].calls \in Nat /\ page[p].calls < MaxCalls
        /\ page[p].session \in {FirstOf[p], NextOf[p]}
        /\ ~ page[p].inCall /\ page \in [Pages -> PageRecords]
    BY PageShape DEF VoiceInv, StartCall, PagesOK, PageRecords
  <1>2. PICK old \in PageRecords : old = page[p]
    BY <1>1
  <1>3. PICK r : r = [old EXCEPT !.inCall = TRUE, !.mode = mode, !.calls = old.calls + 1]
    OBVIOUS
  <1>4. r \in PageRecords
    <2>1. old.calls + 1 \in 0 .. MaxCalls
      BY <1>1, <1>2, VoiceAssumption
    <2> QED BY <1>1, <1>2, <1>3, <2>1 DEF PageRecords
  <1>5. page' = [page EXCEPT ![p] = r]
    <2>1. PICK e1 : e1 = [page EXCEPT ![p].inCall = TRUE]
      OBVIOUS
    <2>2. e1 = [page EXCEPT ![p] = [old EXCEPT !.inCall = TRUE]]
      BY <1>1, <1>2, <2>1
    <2>3. PICK e2 : e2 = [e1 EXCEPT ![p].mode = mode]
      OBVIOUS
    <2>4. e2 = [page EXCEPT ![p] = [old EXCEPT !.inCall = TRUE, !.mode = mode]]
      BY <1>1, <2>2, <2>3
    <2>5. page' = [e2 EXCEPT ![p].calls = @ + 1]
      BY <2>1, <2>3 DEF StartCall
    <2>6. e2[p].calls = old.calls
      BY <1>1, <1>2, <2>4 DEF PageRecords
    <2>7. page' = [e2 EXCEPT ![p].calls = old.calls + 1]
      BY <2>5, <2>6
    <2>8. page' = [page EXCEPT ![p] = [old EXCEPT !.inCall = TRUE, !.mode = mode, !.calls = old.calls + 1]]
      BY <1>1, <2>4, <2>7
    <2> QED BY <1>3, <2>8
  <1>6. r.session = page[p].session /\ r.inCall /\ r.calls = page[p].calls + 1
    BY <1>2, <1>3 DEF PageRecords
  <1>7. PagesOK' /\ page'[p] = r /\ \A q \in Pages \ {p} : page'[q] = page[q]
    <2>1. PagesOK /\ r.session \in {FirstOf[p], NextOf[p]}
      BY <1>1, <1>6 DEF VoiceInv
    <2> QED BY <1>4, <1>5, <2>1, PageChanged
  <1>8. UNCHANGED <<storeVars, turns, deletes, ended>>
    BY DEF StartCall
  <1>9. ASSUME NEW c \in Calls
        PROVE  Over(c) => Over(c)'
    <2>1. c[1] \in Pages /\ c[2] \in Nat
      BY VoiceAssumption DEF Calls
    <2> QED BY <1>1, <1>6, <1>7, <2>1 DEF Over
  <1>10. Asked'
    <2>1. \A q \in Pages : page[q].calls <= page'[q].calls
      <3>1. \A q \in Pages : page[q].calls \in Nat
        BY PageShape DEF VoiceInv
      <3> QED BY <1>6, <1>7, <3>1
    <2>2. ASSUME NEW t \in DOMAIN turns, Spoken(t), Over(turns[t].call)'
          PROVE  ~ Waiting(t)'
      <3>1. PICK c : c = turns[t].call
        OBVIOUS
      <3>2. c[1] \in Pages /\ c[2] \in Nat /\ c[2] <= page[c[1]].calls
        BY <3>1, TurnsShape DEF VoiceInv, Asked, PageOf
      <3>3. Over(c)'
        BY <1>8, <2>2, <3>1 DEF Over
      <3>4. page[c[1]].calls \in Nat
        BY <3>2, PageShape DEF VoiceInv
      <3>5. Over(c)
        BY <1>1, <1>6, <1>7, <3>2, <3>3, <3>4 DEF Over
      <3> QED BY <1>8, <2>2, <3>1, <3>5 DEF VoiceInv, Asked, Waiting
    <2> QED BY <1>7, <1>8, <2>1, <2>2, TurnsSame, AskedKept DEF VoiceInv
  <1>11. HungUp'
    BY <1>8, <1>9, HungUpKept DEF VoiceInv
  <1>12. StoreInv(Said)' /\ store' = store
    BY <1>8, StoreSame DEF VoiceInv
  <1>13. /\ Exchanges' /\ OnlyAbandonedTurnsOutliveTheirCall' /\ TurnsKeptInOrder'
    BY <1>8, <1>12, TurnsSame, ExchangesKept DEF VoiceInv
  <1>14. InProgress'
    BY <1>8, <1>9, TurnsSame, InProgressKept DEF VoiceInv
  <1> QED BY <1>7, <1>10, <1>11, <1>12, <1>13, <1>14 DEF VoiceInv

LEMMA BargeInKeeps ==
  ASSUME VoiceInv, NEW p \in Pages, BargeIn(p)
  PROVE  VoiceInv'
  <1>1. turns' = Aborted(WaitingOn(p)) /\ UNCHANGED <<storeVars, page, deletes, ended>>
    BY DEF BargeIn
  <1>2. /\ turns' \in Seq(Turn) /\ Len(turns') = Len(turns) /\ DOMAIN turns' = DOMAIN turns
        /\ \A t \in DOMAIN turns :
             /\ Follows(t) /\ turns'[t].stage = turns[t].stage
             /\ turns'[t].answered = turns[t].answered
             /\ turns'[t].aborted <=> turns[t].aborted \/ t \in WaitingOn(p)
    BY <1>1, TurnsAborted DEF VoiceInv
  <1>3. \A t \in DOMAIN turns : turns'[t].answered => turns'[t].stage \in {"recorded", "unrecorded"}
    BY <1>2 DEF VoiceInv, Asked
  <1>4. StoreInv(Said)' /\ store' = store
    BY <1>1, StoreSame DEF VoiceInv
  <1>5. Abandons
    <2>1. \A t \in WaitingOn(p) : ~ Unfinished(t)
      BY DEF BargeIn, Unfinished
    <2> QED BY <1>2, <2>1 DEF Abandons
  <1> QED BY <1>1, <1>2, <1>3, <1>4, <1>5, QuietStep

\* A typed turn whose reply is lost.
LEMMA LoseReplyKeeps ==
  ASSUME VoiceInv, NEW t \in DOMAIN turns, LoseReply(t)
  PROVE  VoiceInv'
  <1>1. turns' = Aborted({t}) /\ ~ Spoken(t) /\ UNCHANGED <<storeVars, page, deletes, ended>>
    BY DEF LoseReply
  <1>2. /\ turns' \in Seq(Turn) /\ Len(turns') = Len(turns) /\ DOMAIN turns' = DOMAIN turns
        /\ \A u \in DOMAIN turns :
             /\ Follows(u) /\ turns'[u].stage = turns[u].stage
             /\ turns'[u].answered = turns[u].answered
             /\ turns'[u].aborted <=> turns[u].aborted \/ u \in {t}
    BY <1>1, TurnsAborted DEF VoiceInv
  <1>3. Abandons
    BY <1>1, <1>2 DEF Abandons
  <1>4. \A u \in DOMAIN turns : turns'[u].answered => turns'[u].stage \in {"recorded", "unrecorded"}
    BY <1>2 DEF VoiceInv, Asked
  <1>5. StoreInv(Said)' /\ store' = store
    BY <1>1, StoreSame DEF VoiceInv
  <1> QED BY <1>1, <1>2, <1>3, <1>4, <1>5, QuietStep

LEMMA NewTurnTyped ==
  ASSUME PagesOK, NEW p \in Pages, NEW by \in Sources, NEW mode \in Modes
  PROVE  /\ NewTurn(p, by, mode) \in Turn
         /\ NewTurn(p, by, mode).session = page[p].session /\ NewTurn(p, by, mode).call = CallOf(p)
         /\ NewTurn(p, by, mode).by = by
         /\ ~ NewTurn(p, by, mode).aborted /\ ~ NewTurn(p, by, mode).answered
  <1>1. page[p].session \in Sessions /\ CallOf(p) \in Calls
    BY PageShape
  <1>2. PICK stage \in TurnStages : stage = IF mode = "natural" THEN "asked" ELSE "evaluating"
    BY DEF TurnStages
  <1>3. PICK S : S = Seq(Said)
    OBVIOUS
  <1>4. <<>> \in S
    BY <1>3
  <1>5. PICK new : new = [session |-> page[p].session, call |-> CallOf(p), by |-> by, mode |-> mode,
                          stage |-> stage, aborted |-> FALSE, answered |-> FALSE, seen |-> <<>>]
    OBVIOUS
  <1>6. /\ new \in Turn /\ new.session = page[p].session /\ new.call = CallOf(p) /\ new.by = by
        /\ ~ new.aborted /\ ~ new.answered
    BY <1>1, <1>2, <1>3, <1>4, <1>5 DEF Turn
  <1>7. new = NewTurn(p, by, mode)
    BY <1>2, <1>5 DEF NewTurn
  <1> QED BY <1>6, <1>7

\* A new turn, spoken while none of the call is waited for or typed while the form is free.
LEMMA NewTurnKeeps ==
  ASSUME VoiceInv, NEW p \in Pages, NEW by \in Sources, NEW mode \in Modes,
         turns' = Append(turns, NewTurn(p, by, mode)), Len(turns) < MaxAsked,
         UNCHANGED <<storeVars, page, deletes, ended>>,
         by = "voice" => page[p].inCall,
         \A t \in DOMAIN turns : PageOf(t) = p /\ turns[t].by = by => ~ Waiting(t)
  PROVE  VoiceInv'
  <1>2. PICK new \in Turn : /\ turns' = Append(turns, new)
                            /\ new.session = page[p].session /\ new.call = CallOf(p) /\ new.by = by
                            /\ ~ new.aborted /\ ~ new.answered
    BY NewTurnTyped DEF VoiceInv
  <1>3. PICK n \in Nat : n = Len(turns) /\ DOMAIN turns = 1 .. n
    BY TurnsShape DEF VoiceInv
  <1>4. /\ turns' \in Seq(Turn) /\ Len(turns') = n + 1 /\ DOMAIN turns' = 1 .. n + 1
        /\ turns'[n + 1] = new /\ \A t \in 1 .. n : turns'[t] = turns[t]
    <2>1. PICK s \in Seq(Turn) : s = turns
      BY DEF VoiceInv, Asked
    <2>2. PICK s1 : s1 = Append(s, new)
      OBVIOUS
    <2>3. s1 \in Seq(Turn) /\ Len(s1) = Len(s) + 1
      BY <1>2, <2>1, <2>2
    <2>4. s1[Len(s) + 1] = new /\ \A t \in 1 .. Len(s) : s1[t] = s[t]
      BY <1>2, <2>1, <2>2
    <2>5. DOMAIN s1 = 1 .. Len(s1)
      BY <2>3, LenProperties
    <2> QED BY <1>2, <1>3, <2>1, <2>2, <2>3, <2>4, <2>5
  <1>5. \A t \in DOMAIN turns : Follows(t) /\ turns'[t] = turns[t]
    BY <1>3, <1>4 DEF Follows, Unfinished
  <1>6. CallOf(p)[1] = p /\ CallOf(p)[2] = page[p].calls /\ page[p].calls \in Nat
    BY PageShape DEF VoiceInv
  <1>7. \A t \in 1 .. n + 1 : t \in 1 .. n \/ t = n + 1
    BY <1>3
  <1>8. by = "voice" => ~ Over(CallOf(p))
    BY <1>6 DEF Over
  <1>9. Asked'
    <2>1. ASSUME NEW t \in 1 .. n + 1
          PROVE  /\ turns'[t].session \in {FirstOf[PageOf(t)'], NextOf[PageOf(t)']}
                 /\ turns'[t].call[2] <= page'[PageOf(t)'].calls
                 /\ turns'[t].answered => turns'[t].stage \in {"recorded", "unrecorded"}
                 /\ Spoken(t)' /\ Over(turns[t].call)' => ~ Waiting(t)'
      <3>1. CASE t \in 1 .. n
        <4>1. turns'[t] = turns[t] /\ t \in DOMAIN turns /\ page' = page
          BY <1>3, <1>4, <3>1
        <4> QED BY <4>1 DEF VoiceInv, Asked, PageOf, Over, Waiting, Spoken
      <3>2. CASE t = n + 1
        <4>1. turns'[t] = new /\ PageOf(t)' = p /\ page' = page
          BY <1>2, <1>4, <1>6, <3>2 DEF PageOf
        <4>2. Spoken(t)' => ~ Over(turns[t].call)'
          BY <1>2, <1>8, <4>1 DEF Over, Spoken
        <4>3. page[p].session \in {FirstOf[p], NextOf[p]}
          BY DEF VoiceInv, PagesOK
        <4> QED BY <1>2, <1>6, <4>1, <4>2, <4>3
      <3> QED BY <1>7, <3>1, <3>2
    <2>2. ASSUME NEW t \in 1 .. n + 1, NEW u \in 1 .. n + 1, t < u, PageOf(t)' = PageOf(u)',
                 turns'[t].by = turns'[u].by
          PROVE  ~ Waiting(t)'
      <3>1. t \in DOMAIN turns /\ turns'[t] = turns[t]
        BY <1>3, <1>4, <2>2
      <3>2. CASE u \in 1 .. n
        <4>1. u \in DOMAIN turns /\ turns'[u] = turns[u]
          BY <1>3, <1>4, <3>2
        <4> QED BY <2>2, <3>1, <4>1 DEF VoiceInv, Asked, PageOf, Waiting
      <3>3. CASE u = n + 1
        <4>1. PageOf(t) = p /\ turns[t].by = by
          BY <1>2, <1>4, <1>6, <2>2, <3>1, <3>3 DEF PageOf
        <4> QED BY <3>1, <4>1 DEF Waiting
      <3> QED BY <1>7, <3>2, <3>3
    <2>3. Len(turns') <= MaxAsked
      BY <1>3, <1>4, VoiceAssumption
    <2> QED BY <1>4, <2>1, <2>2, <2>3 DEF Asked
  <1>10. PagesOK'
    BY DEF VoiceInv, PagesOK
  <1>11. HungUp'
    BY DEF VoiceInv, HungUp, Over
  <1>12. InProgress'
    <2>1. ASSUME NEW t \in DOMAIN turns, Spoken(t)', Unfinished(t)'
          PROVE  (turns'[t].aborted => Over(turns[t].call)') /\ LastSpoken(t)'
      <3>1. Spoken(t) /\ Unfinished(t) /\ turns'[t] = turns[t] /\ page' = page
        BY <1>5, <2>1 DEF Spoken, Unfinished
      <3>2. (turns[t].aborted => Over(turns[t].call)) /\ LastSpoken(t)
        BY <3>1 DEF VoiceInv, InProgress
      <3>3. ASSUME by = "voice", turns[t].call = CallOf(p)
            PROVE  FALSE
        <4>1. ~ Waiting(t)
          BY <1>6, <3>1, <3>3 DEF PageOf, Spoken
        <4>2. turns[t].aborted
          BY <3>1, <4>1 DEF Waiting, Unfinished, VoiceInv, Asked
        <4> QED BY <1>8, <3>2, <3>3, <4>2
      <3>4. ASSUME NEW u \in 1 .. n + 1, Spoken(u)', turns'[u].call = turns'[t].call
            PROVE  u <= t
        <4>1. u \in 1 .. n
          BY <1>2, <1>4, <1>7, <3>1, <3>3, <3>4 DEF Spoken
        <4>2. u \in DOMAIN turns /\ turns'[u] = turns[u]
          BY <1>3, <1>4, <4>1
        <4> QED BY <3>1, <3>2, <3>4, <4>2 DEF LastSpoken, Spoken
      <3>5. turns'[t].aborted => Over(turns[t].call)'
        BY <3>1, <3>2 DEF Over
      <3> QED BY <1>4, <3>4, <3>5 DEF LastSpoken
    <2>2. LastSpoken(n + 1)' /\ ~ turns'[n + 1].aborted
      <3>1. \A u \in 1 .. n + 1 : u <= n + 1
        BY <1>3
      <3> QED BY <1>2, <1>4, <3>1 DEF LastSpoken
    <2>3. \A t \in DOMAIN turns' : t \in DOMAIN turns \/ t = n + 1
      BY <1>3, <1>4, <1>7
    <2> QED BY <2>1, <2>2, <2>3 DEF InProgress
  <1>13. StoreInv(Said)' /\ store' = store
    BY StoreSame DEF VoiceInv
  <1>14. ASSUME NEW u \in DOMAIN turns'
         PROVE  u \in DOMAIN turns \/ ~ Spoken(u)' \/ \A id : <<id, turns'[u].call>> \notin ended'
    <2>1. CASE u = n + 1 /\ by = "voice"
      <3>1. PICK c : c = CallOf(p) /\ turns'[u].call = c /\ ~ Over(c)
        BY <1>2, <1>4, <1>8, <2>1
      <3>2. \A e \in ended : e[2] # c
        BY <3>1 DEF VoiceInv, HungUp
      <3>3. \A id : <<id, c>> \notin ended
        BY <3>2
      <3> QED BY <3>1, <3>3
    <2>2. CASE u = n + 1 /\ by # "voice"
      BY <1>2, <1>4, <2>2 DEF Spoken
    <2> QED BY <1>3, <1>4, <1>7, <2>1, <2>2
  <1>15. /\ Exchanges' /\ OnlyAbandonedTurnsOutliveTheirCall' /\ TurnsKeptInOrder'
    BY <1>5, <1>13, <1>14, ExchangesKept DEF VoiceInv
  <1> QED BY <1>9, <1>10, <1>11, <1>12, <1>13, <1>15 DEF VoiceInv

LEMMA AskKeeps ==
  ASSUME VoiceInv, NEW p \in Pages, Ask(p)
  PROVE  VoiceInv'
  <1>1. /\ page[p].inCall /\ WaitingOn(p) = {} /\ Len(turns) < MaxAsked
        /\ turns' = Append(turns, NewTurn(p, "voice", page[p].mode))
        /\ UNCHANGED <<storeVars, page, deletes, ended>>
    BY DEF Ask
  <1>2. page[p].calls \in Nat /\ page[p].mode \in Modes /\ "voice" \in Sources
    BY PageShape DEF VoiceInv, Sources
  <1>3. ASSUME NEW t \in DOMAIN turns, PageOf(t) = p, turns[t].by = "voice"
        PROVE  ~ Waiting(t)
    <2>1. /\ turns[t].call \in Pages \X (0 .. MaxCalls) /\ turns[t].call[2] \in Nat
          /\ turns[t].call[2] <= page[p].calls
      BY <1>3, TurnsShape DEF VoiceInv, Asked, Calls
    <2>2. CASE turns[t].call[2] < page[p].calls
      BY <1>3, <2>2 DEF VoiceInv, Asked, Over, PageOf, Spoken
    <2>3. CASE turns[t].call[2] = page[p].calls
      <3>1. turns[t].call = CallOf(p)
        BY <1>3, <2>1, <2>3 DEF PageOf, CallOf
      <3> QED BY <1>1, <1>3, <3>1 DEF WaitingOn, Spoken
    <2> QED BY <1>2, <2>1, <2>2, <2>3
  <1> QED BY <1>1, <1>2, <1>3, NewTurnKeeps

LEMMA TypeKeeps ==
  ASSUME VoiceInv, NEW p \in Pages, NEW mode \in Modes, Type(p, mode)
  PROVE  VoiceInv'
  <1>1. /\ Len(turns) < MaxAsked /\ turns' = Append(turns, NewTurn(p, "keyboard", mode))
        /\ UNCHANGED <<storeVars, page, deletes, ended>>
        /\ \A t \in DOMAIN turns : turns[t].call[1] = p /\ ~ Spoken(t) => ~ Waiting(t)
    BY DEF Type
  <1>2. \A t \in DOMAIN turns : PageOf(t) = p /\ turns[t].by = "keyboard" => ~ Waiting(t)
    BY <1>1 DEF PageOf, Spoken
  <1> QED BY <1>1, <1>2, NewTurnKeeps DEF Sources

\* Hanging up leaves no turn of the call waited for.
LEMMA HangUpKeeps ==
  ASSUME VoiceInv, NEW p \in Pages, HangUp(p)
  PROVE  VoiceInv'
  <1>1. /\ page[p].inCall /\ page' = [page EXCEPT ![p].inCall = FALSE]
        /\ turns' = Aborted(WaitingOn(p))
        /\ deletes' = deletes \cup {<<page[p].session, CallOf(p), "hang up">>}
        /\ UNCHANGED <<storeVars, ended>>
    BY DEF HangUp
  <1>2. page \in [Pages -> PageRecords]
    BY DEF VoiceInv, PagesOK, PageRecords
  <1>3. PICK old \in PageRecords : old = page[p]
    BY <1>2
  <1>4. PICK r : r = [old EXCEPT !.inCall = FALSE]
    OBVIOUS
  <1>5. r \in PageRecords /\ ~ r.inCall /\ r.calls = page[p].calls /\ r.session = page[p].session
    BY <1>3, <1>4 DEF PageRecords
  <1>6. page' = [page EXCEPT ![p] = r]
    BY <1>1, <1>2, <1>3, <1>4
  <1>7. PagesOK' /\ page'[p] = r /\ \A q \in Pages \ {p} : page'[q] = page[q]
    <2>1. PagesOK /\ r.session \in {FirstOf[p], NextOf[p]}
      BY <1>5 DEF VoiceInv, PagesOK
    <2> QED BY <1>5, <1>6, <2>1, PageChanged
  <1>8. /\ turns' \in Seq(Turn) /\ Len(turns') = Len(turns) /\ DOMAIN turns' = DOMAIN turns
        /\ \A t \in DOMAIN turns :
             /\ Follows(t) /\ turns'[t].stage = turns[t].stage
             /\ turns'[t].answered = turns[t].answered
             /\ turns'[t].aborted <=> turns[t].aborted \/ t \in WaitingOn(p)
    BY <1>1, TurnsAborted DEF VoiceInv
  <1>9. /\ CallOf(p)[1] = p /\ CallOf(p)[2] = page[p].calls /\ CallOf(p) \in Calls
        /\ page[p].session \in Sessions
    BY <1>1, PageShape DEF VoiceInv
  <1>10. Asked'
    <2>1. \A q \in Pages : page[q].calls <= page'[q].calls
      <3>1. \A q \in Pages : page[q].calls \in Nat
        BY PageShape DEF VoiceInv
      <3> QED BY <1>5, <1>7, <3>1
    <2>2. \A t \in DOMAIN turns : turns'[t].answered => turns'[t].stage \in {"recorded", "unrecorded"}
      BY <1>8 DEF VoiceInv, Asked
    <2>3. ASSUME NEW t \in DOMAIN turns, Spoken(t), Over(turns[t].call)'
          PROVE  ~ Waiting(t)'
      <3>1. PICK c : c = turns[t].call
        OBVIOUS
      <3>2. c \in Pages \X (0 .. MaxCalls) /\ Over(c)'
        BY <1>8, <2>3, <3>1, TurnsShape DEF VoiceInv, Over, Follows, Calls
      <3>3. CASE Over(c)
        BY <1>8, <2>3, <3>1, <3>3 DEF VoiceInv, Asked, Waiting, Follows
      <3>4. CASE ~ Over(c)
        <4>1. c[1] = p /\ c[2] = page[p].calls
          BY <1>5, <1>7, <3>2, <3>4 DEF Over
        <4>2. turns[t].call = CallOf(p)
          BY <3>1, <3>2, <4>1 DEF CallOf
        <4> QED BY <1>8, <2>3, <4>2 DEF WaitingOn, Waiting, Follows
      <3> QED BY <3>3, <3>4
    <2> QED BY <1>7, <1>8, <2>1, <2>2, <2>3, AskedKept DEF VoiceInv
  <1>11. HungUp'
    <2>1. \A c \in Calls : Over(c) => Over(c)'
      BY <1>5, <1>7 DEF Over, Calls
    <2>3. PICK d : d = <<page[p].session, CallOf(p), "hang up">>
      OBVIOUS
    <2>4. d \in Sessions \X Calls \X {"hang up", "clear"} /\ d[2] = CallOf(p)
      BY <1>9, <2>3
    <2>5. PICK c : c = CallOf(p)
      OBVIOUS
    <2>6. Over(c)'
      BY <1>5, <1>7, <1>9, <2>5 DEF Over
    <2>7. deletes' = deletes \cup {d} /\ ended' = ended
      BY <1>1, <2>3
    <2>8. \A e \in deletes' : e[3] = "hang up" => Over(e[2])'
      <3>1. ASSUME NEW e \in deletes, e[3] = "hang up"
            PROVE  Over(e[2])'
        BY <2>1, <3>1 DEF VoiceInv, HungUp
      <3> QED BY <2>4, <2>5, <2>6, <2>7, <3>1
    <2>9. \A e \in ended' : Over(e[2])'
      BY <2>1, <2>7 DEF VoiceInv, HungUp
    <2> QED BY <2>4, <2>7, <2>8, <2>9 DEF VoiceInv, HungUp
  <1>12. StoreInv(Said)' /\ store' = store
    BY <1>1, StoreSame DEF VoiceInv
  <1>13. /\ Exchanges' /\ OnlyAbandonedTurnsOutliveTheirCall' /\ TurnsKeptInOrder'
    BY <1>1, <1>8, <1>12, ExchangesKept DEF VoiceInv
  <1>14. \A c \in Calls : Over(c) => Over(c)'
    BY <1>5, <1>7 DEF Over, Calls
  <1>15. Abandons
    <2>1. ASSUME NEW t \in WaitingOn(p)
          PROVE  Over(turns[t].call)'
      BY <1>5, <1>7, <1>8, <1>9, <2>1 DEF WaitingOn, Follows, Over
    <2> QED BY <1>8, <2>1 DEF Abandons
  <1>16. InProgress'
    BY <1>8, <1>14, <1>15, InProgressKept DEF VoiceInv
  <1> QED BY <1>7, <1>10, <1>11, <1>12, <1>13, <1>16 DEF VoiceInv

LEMMA RotateKeeps ==
  ASSUME VoiceInv, NEW p \in Pages, Rotate(p)
  PROVE  VoiceInv'
  <1>1. /\ page' = [page EXCEPT ![p].session = NextOf[p]]
        /\ deletes' = deletes \cup {<<page[p].session, CallOf(p), "clear">>}
        /\ UNCHANGED <<storeVars, turns, ended>>
    BY DEF Rotate
  <1>2. page \in [Pages -> PageRecords]
    BY DEF VoiceInv, PagesOK, PageRecords
  <1>3. PICK old \in PageRecords : old = page[p]
    BY <1>2
  <1>4. PICK r : r = [old EXCEPT !.session = NextOf[p]]
    OBVIOUS
  <1>5. /\ r \in PageRecords /\ r.inCall = page[p].inCall /\ r.calls = page[p].calls
        /\ r.session = NextOf[p]
    BY <1>3, <1>4, VoiceAssumption DEF PageRecords
  <1>6. page' = [page EXCEPT ![p] = r]
    BY <1>1, <1>2, <1>3, <1>4
  <1>7. PagesOK' /\ page'[p] = r /\ \A q \in Pages \ {p} : page'[q] = page[q]
    <2>1. PagesOK /\ r.session \in {FirstOf[p], NextOf[p]}
      BY <1>5 DEF VoiceInv, PagesOK
    <2> QED BY <1>5, <1>6, <2>1, PageChanged
  <1>8. \A c \in Calls : Over(c)' <=> Over(c)
    BY <1>5, <1>7 DEF Over, Calls
  <1>9. Asked'
    <2>1. \A q \in Pages : page[q].calls <= page'[q].calls
      <3>1. \A q \in Pages : page[q].calls \in Nat
        BY PageShape DEF VoiceInv
      <3> QED BY <1>5, <1>7, <3>1
    <2>2. ASSUME NEW t \in DOMAIN turns, Spoken(t), Over(turns[t].call)'
          PROVE  ~ Waiting(t)'
      <3>1. PICK c \in Calls : c = turns[t].call
        BY TurnsShape DEF VoiceInv
      <3>2. Over(c)'
        BY <1>1, <2>2, <3>1 DEF Over
      <3> QED BY <1>1, <1>8, <2>2, <3>1, <3>2 DEF VoiceInv, Asked, Waiting
    <2> QED BY <1>1, <1>7, <2>1, <2>2, TurnsSame, AskedKept DEF VoiceInv
  <1>10. HungUp'
    <2>1. PICK d : d = <<page[p].session, CallOf(p), "clear">>
      OBVIOUS
    <2>2. d \in Sessions \X Calls \X {"hang up", "clear"} /\ d[3] # "hang up"
      BY <2>1, PageShape DEF VoiceInv
    <2>3. deletes' = deletes \cup {d} /\ ended' = ended
      BY <1>1, <2>1
    <2>4. ASSUME NEW e \in deletes, e[3] = "hang up"
          PROVE  Over(e[2])'
      BY <1>8, <2>4 DEF VoiceInv, HungUp
    <2>5. \A e \in ended' : Over(e[2])'
      BY <1>8, <2>3 DEF VoiceInv, HungUp
    <2> QED BY <2>2, <2>3, <2>4, <2>5 DEF VoiceInv, HungUp
  <1>11. StoreInv(Said)' /\ store' = store
    BY <1>1, StoreSame DEF VoiceInv
  <1>12. /\ Exchanges' /\ OnlyAbandonedTurnsOutliveTheirCall' /\ TurnsKeptInOrder'
    BY <1>1, <1>11, TurnsSame, ExchangesKept DEF VoiceInv
  <1>13. InProgress'
    BY <1>1, <1>8, TurnsSame, InProgressKept DEF VoiceInv
  <1> QED BY <1>7, <1>9, <1>10, <1>11, <1>12, <1>13 DEF VoiceInv

LEMMA SessionOf ==
  ASSUME VoiceInv, NEW t \in DOMAIN turns
  PROVE  turns[t].session \in Sessions
  BY TurnsShape DEF VoiceInv, Turn

LEMMA SessionCleared ==
  ASSUME StoreInv(Said), NEW id \in Sessions, Clear(id), clock' = clock
  PROVE  /\ StoreInv(Said)' /\ id \notin Ids(store')
         /\ \A j \in Ids(store') : /\ j \in Ids(store)
                                   /\ store'.entries[j].exchanges = store.entries[j].exchanges
  <1>1. PICK X : X = Said
    OBVIOUS
  <1>2. /\ StoreInv(X)' /\ id \notin Ids(store')
        /\ \A j \in Ids(store') : j \in Ids(store) /\ store'.entries[j] = store.entries[j]
    BY <1>1, ClearKeeps
  <1> QED BY <1>1, <1>2

\* An utterance that ends the call.
LEMMA FarewellKeeps ==
  ASSUME VoiceInv, NEW p \in Pages, Farewell(p)
  PROVE  VoiceInv'
  <1>1. /\ Clear(page[p].session) /\ clock' = clock
        /\ UNCHANGED <<page, turns, deletes, ended>>
    BY DEF Farewell
  <1>2. page[p].session \in Sessions
    BY PageShape DEF VoiceInv
  <1>3. /\ StoreInv(Said)'
        /\ \A j \in Ids(store') : /\ j \in Ids(store)
                                  /\ store'.entries[j].exchanges = store.entries[j].exchanges
    BY <1>1, <1>2, SessionCleared DEF VoiceInv
  <1> QED BY <1>1, <1>3, TurnsSame, QuietStep DEF VoiceInv

-----------------------------------------------------------------------------
(* The server *)

LEMMA ReadHistoryKeeps ==
  ASSUME VoiceInv, NEW t \in DOMAIN turns, ReadHistory(t)
  PROVE  VoiceInv'
  <1>1. PICK id \in Sessions : id = turns[t].session
    BY SessionOf
  <1>2. PICK h : h = HistoryOf(id)
    OBVIOUS
  <1>3. /\ turns[t].stage = "asked"
        /\ turns' = [turns EXCEPT ![t].stage = "evaluating", ![t].seen = h]
        /\ History(id) /\ UNCHANGED <<clock, page, deletes, ended>>
    BY <1>1, <1>2 DEF ReadHistory
  <1>4. PICK X : X = Said
    OBVIOUS
  <1>5. h \in Seq(X)
    <2>1. CASE id \in Ids(Purged(store))
      BY <1>2, <1>4, <2>1, HistoryShape DEF VoiceInv
    <2>2. CASE id \notin Ids(Purged(store))
      BY <1>2, <2>2 DEF HistoryOf
    <2> QED BY <2>1, <2>2
  <1>6. PICK s \in Seq(Turn) : s = turns /\ DOMAIN s = 1 .. Len(s)
    BY LenProperties DEF VoiceInv, Asked
  <1>7. PICK old \in Turn : old = turns[t]
    BY TurnsShape DEF VoiceInv
  <1>8. PICK v : v = [old EXCEPT !.stage = "evaluating", !.seen = h]
    OBVIOUS
  <1>9. turns' = [turns EXCEPT ![t] = v]
    <2>1. s = [u \in DOMAIN s |-> s[u]]
      BY <1>6, LenProperties
    <2>2. PICK e1 : e1 = [s EXCEPT ![t].stage = "evaluating"]
      OBVIOUS
    <2>3. e1 = [s EXCEPT ![t] = [old EXCEPT !.stage = "evaluating"]]
      BY <1>6, <1>7, <2>1, <2>2
    <2>4. turns' = [e1 EXCEPT ![t].seen = h]
      BY <1>3, <1>6, <2>2
    <2>5. turns' = [s EXCEPT ![t] = [old EXCEPT !.stage = "evaluating", !.seen = h]]
      BY <1>6, <1>7, <2>1, <2>3, <2>4
    <2> QED BY <1>6, <1>8, <2>5
  <1>10. /\ v \in Turn /\ v.session = old.session /\ v.call = old.call /\ v.by = old.by
         /\ v.stage = "evaluating"
         /\ v.aborted = old.aborted /\ v.answered = old.answered
    <2>1. PICK S : S = Seq(Said)
      OBVIOUS
    <2>2. h \in S
      BY <1>4, <1>5, <2>1
    <2>3. "evaluating" \in TurnStages
      BY DEF TurnStages
    <2> QED BY <1>7, <1>8, <2>1, <2>2, <2>3 DEF Turn
  <1>11. /\ turns' \in Seq(Turn) /\ Len(turns') = Len(turns) /\ DOMAIN turns' = DOMAIN turns
         /\ turns'[t] = v /\ \A u \in DOMAIN turns \ {t} : turns'[u] = turns[u]
         /\ \A u \in DOMAIN turns : Follows(u)
    <2>1. /\ v \in Turn /\ v.session = turns[t].session /\ v.call = turns[t].call /\ v.by = turns[t].by
          /\ Unfinished(t)
          /\ (turns[t].aborted => v.aborted) /\ (turns[t].answered => v.answered)
          /\ turns[t].stage # "recorded"
      BY <1>3, <1>7, <1>10 DEF Unfinished
    <2>2. Asked
      BY DEF VoiceInv
    <2> QED BY <1>9, <1>10, <2>1, <2>2, TurnChanged
  <1>12. \A u \in DOMAIN turns : turns'[u].answered => turns'[u].stage \in {"recorded", "unrecorded"}
    BY <1>3, <1>7, <1>10, <1>11 DEF VoiceInv, Asked
  <1>13. /\ StoreInv(X)'
         /\ \A j \in Ids(store') : /\ j \in Ids(store)
                                   /\ store'.entries[j].exchanges = store.entries[j].exchanges
    BY <1>3, <1>4, HistoryKeeps DEF VoiceInv
  <1>14. Abandons
    BY <1>7, <1>10, <1>11 DEF Abandons
  <1> QED BY <1>3, <1>4, <1>11, <1>12, <1>13, <1>14, QuietStep

\* A step of one turn that only moves its flags.
LEMMA TurnMoves ==
  ASSUME VoiceInv, NEW t \in DOMAIN turns, NEW v \in Turn, turns' = [turns EXCEPT ![t] = v],
         v.session = turns[t].session, v.call = turns[t].call, v.by = turns[t].by,
         v.stage \in {"asked", "evaluating"} => Unfinished(t),
         turns[t].aborted => v.aborted, turns[t].answered => v.answered,
         turns[t].stage = "recorded" => v.stage = "recorded",
         v.aborted => turns[t].aborted,
         v.answered => v.stage \in {"recorded", "unrecorded"},
         UNCHANGED <<storeVars, page, deletes, ended>>
  PROVE  VoiceInv'
  <1>1. /\ turns' \in Seq(Turn) /\ Len(turns') = Len(turns) /\ DOMAIN turns' = DOMAIN turns
        /\ turns'[t] = v /\ \A u \in DOMAIN turns \ {t} : turns'[u] = turns[u]
        /\ \A u \in DOMAIN turns : Follows(u)
    BY TurnChanged DEF VoiceInv
  <1>2. \A u \in DOMAIN turns : turns'[u].answered => turns'[u].stage \in {"recorded", "unrecorded"}
    BY <1>1 DEF VoiceInv, Asked
  <1>3. StoreInv(Said)' /\ store' = store
    BY StoreSame DEF VoiceInv
  <1>4. Abandons
    BY <1>1 DEF Abandons
  <1> QED BY <1>1, <1>2, <1>3, <1>4, QuietStep

LEMMA FlagsKeep ==
  ASSUME VoiceInv, NEW t \in DOMAIN turns, LeaveUnrecorded(t) \/ Answer(t) \/ Cancel(t)
  PROVE  VoiceInv'
  <1>1. PICK s \in Seq(Turn) : s = turns /\ DOMAIN s = 1 .. Len(s)
    BY LenProperties DEF VoiceInv, Asked
  <1>2. PICK old \in Turn : old = turns[t]
    BY TurnsShape DEF VoiceInv
  <1>3. old.answered => old.stage \in {"recorded", "unrecorded"}
    BY <1>2 DEF VoiceInv, Asked
  <1>4. ASSUME NEW stage \in TurnStages, old.stage \in {"asked", "evaluating"},
               turns' = [turns EXCEPT ![t].stage = stage],
               UNCHANGED <<storeVars, page, deletes, ended>>
        PROVE  VoiceInv'
    <2>1. PICK v : v = [old EXCEPT !.stage = stage]
      OBVIOUS
    <2>2. /\ v \in Turn /\ v.session = old.session /\ v.call = old.call /\ v.by = old.by
          /\ v.aborted = old.aborted /\ v.answered = old.answered
      BY <1>2, <2>1 DEF Turn
    <2>3. turns' = [turns EXCEPT ![t] = v]
      BY <1>1, <1>2, <1>4, <2>1
    <2> QED BY <1>2, <1>3, <1>4, <2>2, <2>3, TurnMoves DEF Unfinished
  <1>5. CASE LeaveUnrecorded(t)
    <2>1. "unrecorded" \in TurnStages
      BY DEF TurnStages
    <2> QED BY <1>2, <1>4, <1>5, <2>1 DEF LeaveUnrecorded
  <1>6. CASE Cancel(t)
    <2>1. "cancelled" \in TurnStages
      BY DEF TurnStages
    <2> QED BY <1>2, <1>4, <1>6, <2>1 DEF Cancel
  <1>7. CASE Answer(t)
    <2>1. PICK v : v = [old EXCEPT !.answered = TRUE]
      OBVIOUS
    <2>2. /\ v \in Turn /\ v.session = old.session /\ v.call = old.call /\ v.by = old.by
          /\ v.aborted = old.aborted /\ v.answered /\ v.stage = old.stage
      BY <1>2, <2>1 DEF Turn
    <2>3. turns' = [turns EXCEPT ![t] = v]
      BY <1>1, <1>2, <1>7, <2>1 DEF Answer
    <2>4. /\ old.stage \in {"recorded", "unrecorded"}
          /\ UNCHANGED <<storeVars, page, deletes, ended>>
      BY <1>2, <1>7 DEF Answer
    <2>5. /\ v.session = turns[t].session /\ v.call = turns[t].call /\ v.by = turns[t].by
          /\ (v.stage \in {"asked", "evaluating"} => Unfinished(t))
          /\ (v.aborted => turns[t].aborted)
          /\ (turns[t].aborted => v.aborted) /\ (turns[t].answered => v.answered)
          /\ (turns[t].stage = "recorded" => v.stage = "recorded")
          /\ (v.answered => v.stage \in {"recorded", "unrecorded"})
      BY <1>2, <2>2, <2>4 DEF Unfinished
    <2> QED BY <2>2, <2>3, <2>4, <2>5, TurnMoves
  <1> QED BY <1>5, <1>6, <1>7

\* Recording puts the new exchange last; what is left of the others keeps its order.
LEMMA AppendedPlaces ==
  ASSUME NEW X, NEW old \in Seq(X), NEW x \in X, NEW new, new = Latest(Append(old, x))
  PROVE  /\ \A j \in DOMAIN new : new[j] = x \/ \E a \in DOMAIN old : new[j] = old[a]
         /\ \A j, k \in DOMAIN new : j < k =>
              \E a \in DOMAIN old :
                /\ new[j] = old[a]
                /\ new[k] = x \/ \E b \in DOMAIN old : a < b /\ new[k] = old[b]
  <1>1. PICK n \in Nat : n = Len(old) /\ DOMAIN old = 1 .. n
    BY LenProperties
  <1>2. PICK s : s = Append(old, x)
    OBVIOUS
  <1>3. s \in Seq(X) /\ Len(s) = n + 1 /\ s[n + 1] = x /\ \A j \in 1 .. n : s[j] = old[j]
    BY <1>1, <1>2
  <1>4. DOMAIN s = 1 .. n + 1
    BY <1>3, LenProperties
  <1>5. CASE Len(s) <= MaxTurns
    <2>1. new = s
      BY <1>2, <1>5 DEF Latest
    <2>2. \A j \in 1 .. n + 1 : j = n + 1 \/ j \in 1 .. n
      BY <1>1
    <2>3. \A j, k \in 1 .. n + 1 : j < k => j \in 1 .. n
      BY <1>1
    <2> QED BY <1>1, <1>3, <1>4, <2>1, <2>2, <2>3
  <1>6. CASE ~ (Len(s) <= MaxTurns)
    <2>1. new = Tail(s) /\ s # <<>>
      BY <1>2, <1>3, <1>6 DEF Latest
    <2>2. new \in Seq(X) /\ Len(new) = n /\ \A j \in 1 .. Len(new) : new[j] = s[j + 1]
      BY <1>1, <1>3, <2>1, HeadTailProperties
    <2>3. DOMAIN new = 1 .. n
      BY <2>2, LenProperties
    <2>4. ASSUME NEW j \in 1 .. n
          PROVE  /\ new[j] = IF j = n THEN x ELSE old[j + 1]
                 /\ j # n => j + 1 \in 1 .. n
      <3>1. new[j] = s[j + 1]
        BY <2>2
      <3>2. CASE j = n
        BY <1>3, <3>1, <3>2
      <3>3. CASE j # n
        <4>1. j + 1 \in 1 .. n
          BY <1>1, <3>3
        <4> QED BY <1>3, <3>1, <3>3, <4>1
      <3> QED BY <3>2, <3>3
    <2>5. \A j \in DOMAIN new : new[j] = x \/ \E a \in DOMAIN old : new[j] = old[a]
      BY <1>1, <2>3, <2>4
    <2>6. ASSUME NEW j \in DOMAIN new, NEW k \in DOMAIN new, j < k
          PROVE  \E a \in DOMAIN old :
                   /\ new[j] = old[a]
                   /\ new[k] = x \/ \E b \in DOMAIN old : a < b /\ new[k] = old[b]
      <3>1. j \in 1 .. n /\ k \in 1 .. n /\ j # n /\ j + 1 < k + 1
        BY <1>1, <2>3, <2>6
      <3>2. j + 1 \in DOMAIN old /\ new[j] = old[j + 1]
        BY <1>1, <2>4, <3>1
      <3>3. new[k] = x \/ (k + 1 \in DOMAIN old /\ new[k] = old[k + 1])
        BY <1>1, <2>4, <3>1
      <3> QED BY <3>1, <3>2, <3>3
    <2> QED BY <2>5, <2>6
  <1> QED BY <1>5, <1>6

\* Turns of one session were asked from one page.
LEMMA SamePage ==
  ASSUME VoiceInv, NEW t \in DOMAIN turns, NEW u \in DOMAIN turns, turns[t].session = turns[u].session
  PROVE  PageOf(t) = PageOf(u)
  <1>1. PageOf(t) \in Pages /\ PageOf(u) \in Pages
    BY TurnsShape DEF VoiceInv
  <1>2. /\ turns[t].session \in {FirstOf[PageOf(t)], NextOf[PageOf(t)]}
        /\ turns[u].session \in {FirstOf[PageOf(u)], NextOf[PageOf(u)]}
    BY DEF VoiceInv, Asked
  <1> QED BY <1>1, <1>2, VoiceAssumption

\* A turn that is recorded although it is no longer waited for was abandoned.
LEMMA RecordKeeps ==
  ASSUME VoiceInv, NEW t \in DOMAIN turns, Record(t)
  PROVE  VoiceInv'
  <1>1. PICK id \in Sessions : id = turns[t].session
    BY SessionOf
  <1>2. PICK x : x = [turn |-> t, call |-> turns[t].call]
    OBVIOUS
  <1>3. /\ turns[t].stage = "evaluating" /\ turns' = [turns EXCEPT ![t].stage = "recorded"]
        /\ AppendExchange(id, x) /\ UNCHANGED <<clock, page, deletes, ended>>
    BY <1>1, <1>2 DEF Record
  <1>4. PICK s \in Seq(Turn) : s = turns /\ DOMAIN s = 1 .. Len(s) /\ Len(s) \in Nat /\ Len(s) <= MaxAsked
    BY LenProperties DEF VoiceInv, Asked
  <1>5. PICK old \in Turn : old = turns[t] /\ old.call \in Calls
    BY TurnsShape DEF VoiceInv
  <1>6. PICK X : X = Said
    OBVIOUS
  <1>7. x \in X
    <2>1. t \in 1 .. MaxAsked
      BY <1>4, VoiceAssumption
    <2> QED BY <1>2, <1>5, <1>6, <2>1 DEF Said
  <1>8. PICK v : v = [old EXCEPT !.stage = "recorded"]
    OBVIOUS
  <1>9. /\ v \in Turn /\ v.session = old.session /\ v.call = old.call /\ v.by = old.by
        /\ v.stage = "recorded"
        /\ v.aborted = old.aborted /\ v.answered = old.answered
    BY <1>5, <1>8 DEF Turn, TurnStages
  <1>10. turns' = [turns EXCEPT ![t] = v]
    BY <1>3, <1>4, <1>5, <1>8
  <1>11. /\ turns' \in Seq(Turn) /\ Len(turns') = Len(turns) /\ DOMAIN turns' = DOMAIN turns
         /\ turns'[t] = v /\ \A u \in DOMAIN turns \ {t} : turns'[u] = turns[u]
         /\ \A u \in DOMAIN turns : Follows(u)
    <2>1. /\ v.session = turns[t].session /\ v.call = turns[t].call /\ v.by = turns[t].by
          /\ (turns[t].aborted => v.aborted) /\ (turns[t].answered => v.answered)
          /\ (turns[t].stage = "recorded" => v.stage = "recorded")
      BY <1>5, <1>9
    <2>2. Asked
      BY DEF VoiceInv
    <2> QED BY <1>9, <1>10, <2>1, <2>2, TurnChanged
  <1>12. PagesOK' /\ Asked'
    <2>1. \A u \in DOMAIN turns : turns'[u].answered => turns'[u].stage \in {"recorded", "unrecorded"}
      BY <1>9, <1>11 DEF VoiceInv, Asked
    <2> QED BY <1>3, <1>11, <2>1, AskedKeptInPlace DEF VoiceInv
  <1>13. HungUp'
    BY <1>3 DEF VoiceInv, HungUp, Over
  <1>14. PICK new : new = store'.entries[id].exchanges
    OBVIOUS
  <1>15. /\ StoreInv(X)'
         /\ \A j \in Ids(store') \ {id} : /\ j \in Ids(store)
                                          /\ store'.entries[j].exchanges = store.entries[j].exchanges
         /\ \/ new = <<x>>
            \/ id \in Ids(store) /\ new = Latest(Append(store.entries[id].exchanges, x))
    BY <1>3, <1>6, <1>7, <1>14, AppendKeeps DEF VoiceInv
  <1>16. ~ Waiting(t) => turns[t].aborted
    BY <1>3 DEF VoiceInv, Asked, Waiting
  <1>17. PICK kept : kept = store.entries[id].exchanges
    OBVIOUS
  <1>18. /\ \A j \in DOMAIN new : new[j] = x \/ (id \in Ids(store) /\ \E a \in DOMAIN kept : new[j] = kept[a])
         /\ \A j, k \in DOMAIN new : j < k =>
              /\ id \in Ids(store)
              /\ \E a \in DOMAIN kept :
                   /\ new[j] = kept[a]
                   /\ new[k] = x \/ \E b \in DOMAIN kept : a < b /\ new[k] = kept[b]
    <2>1. CASE new = <<x>>
      <3>1. DOMAIN new = {1} /\ new[1] = x
        BY <2>1
      <3> QED BY <3>1
    <2>2. CASE id \in Ids(store) /\ new = Latest(Append(kept, x))
      <3>1. kept \in Seq(X)
        BY <1>6, <1>17, <2>2 DEF VoiceInv, StoreInv, Dict, Entries
      <3> QED BY <1>7, <2>2, <3>1, AppendedPlaces
    <2> QED BY <1>15, <1>17, <2>1, <2>2
  <1>19. /\ x.turn = t /\ x.call = turns[t].call
    BY <1>2
  <1>20. ASSUME NEW a \in DOMAIN kept, id \in Ids(store)
         PROVE  /\ kept[a].turn \in DOMAIN turns
                /\ turns[kept[a].turn].session = id /\ turns[kept[a].turn].call = kept[a].call
                /\ turns[kept[a].turn].stage = "recorded"
                /\ <<id, kept[a].call>> \in ended /\ Spoken(kept[a].turn) =>
                     turns[kept[a].turn].aborted /\ LastSpoken(kept[a].turn)
    <2>1. PICK y : y = kept[a] /\ y = store.entries[id].exchanges[a] /\ a \in DOMAIN store.entries[id].exchanges
      BY <1>17
    <2>2. KeptOf(y, id)
      BY <1>20, <2>1, KeptExchanges DEF VoiceInv
    <2> QED BY <2>1, <2>2 DEF KeptOf, OfSession
  <1>21. ASSUME NEW a \in DOMAIN kept, NEW b \in DOMAIN kept, id \in Ids(store), a < b, kept[a].turn > kept[b].turn,
                turns[kept[a].turn].by = turns[kept[b].turn].by
         PROVE  /\ turns[kept[b].turn].aborted
                /\ Spoken(kept[a].turn) => kept[a].call # kept[b].call
    BY <1>17, <1>21 DEF VoiceInv, TurnsKeptInOrder
  <1>22. ASSUME <<id, x.call>> \in ended, Spoken(t)
         PROVE  turns[t].aborted /\ LastSpoken(t)
    <2>1. turns[t].aborted
      BY <1>16, <1>19, <1>22 DEF VoiceInv, HungUp, Asked
    <2> QED BY <1>3, <1>22, <2>1 DEF VoiceInv, InProgress, Unfinished
  <1>23. ASSUME NEW u \in DOMAIN turns, turns[u].session = id, turns[u].by = turns[t].by, u > t
         PROVE  turns[t].aborted /\ (Spoken(u) => turns[u].call # turns[t].call)
    <2>1. PageOf(t) = PageOf(u)
      BY <1>1, <1>23, SamePage
    <2>2. turns[t].aborted
      BY <1>16, <1>23, <2>1 DEF VoiceInv, Asked
    <2>3. ASSUME Spoken(u), turns[u].call = turns[t].call
          PROVE  FALSE
      <3>1. LastSpoken(t)
        BY <1>3, <1>23, <2>3 DEF VoiceInv, InProgress, Unfinished, Spoken
      <3>2. u <= t
        BY <2>3, <3>1 DEF LastSpoken
      <3> QED BY <1>4, <1>23, <3>2
    <2> QED BY <2>2, <2>3
  <1>29. \A u \in DOMAIN turns : LastSpoken(u) => LastSpoken(u)'
    BY <1>11 DEF LastSpoken, Follows, Spoken
  <1>24. ASSUME NEW i \in Ids(store'), NEW j \in DOMAIN store'.entries[i].exchanges,
                NEW y, y = store'.entries[i].exchanges[j]
         PROVE  /\ OfSession(y, i)'
                /\ <<i, y.call>> \in ended /\ Spoken(y.turn)' =>
                     turns'[y.turn].aborted /\ LastSpoken(y.turn)'
    <2>1. CASE i # id
      <3>1. i \in Ids(store) /\ y = store.entries[i].exchanges[j] /\ j \in DOMAIN store.entries[i].exchanges
        BY <1>15, <1>24, <2>1
      <3>2. /\ y.turn \in DOMAIN turns
            /\ turns[y.turn].session = i /\ turns[y.turn].call = y.call
            /\ turns[y.turn].stage = "recorded"
            /\ <<i, y.call>> \in ended /\ Spoken(y.turn) =>
                 turns[y.turn].aborted /\ LastSpoken(y.turn)
        <4>1. KeptOf(y, i)
          BY <3>1, KeptExchanges DEF VoiceInv
        <4> QED BY <4>1 DEF KeptOf, OfSession
      <3> QED BY <1>11, <1>29, <3>2 DEF Follows, OfSession, Spoken
    <2>2. CASE i = id
      <3>1. CASE y = x
        BY <1>1, <1>5, <1>9, <1>11, <1>19, <1>22, <1>29, <2>2, <3>1 DEF OfSession, Spoken, Follows
      <3>2. CASE y # x
        <4>1. PICK a \in DOMAIN kept : y = kept[a] /\ id \in Ids(store)
          BY <1>14, <1>18, <1>24, <2>2, <3>2
        <4> QED BY <1>11, <1>20, <1>29, <2>2, <4>1 DEF Follows, OfSession, Spoken
      <3> QED BY <3>1, <3>2
    <2> QED BY <2>1, <2>2
  <1>25. ASSUME NEW i \in Ids(store'), NEW j \in DOMAIN store'.entries[i].exchanges,
                NEW k \in DOMAIN store'.entries[i].exchanges, NEW y, NEW z,
                y = store'.entries[i].exchanges[j], z = store'.entries[i].exchanges[k],
                j < k, y.turn > z.turn, turns'[y.turn].by = turns'[z.turn].by
         PROVE  turns'[z.turn].aborted /\ (Spoken(y.turn)' => y.call # z.call)
    <2>1. CASE i # id
      <3>1. /\ i \in Ids(store) /\ j \in DOMAIN store.entries[i].exchanges
            /\ k \in DOMAIN store.entries[i].exchanges
            /\ y = store.entries[i].exchanges[j] /\ z = store.entries[i].exchanges[k]
        BY <1>15, <1>25, <2>1
      <3>2. Follows(y.turn) /\ Follows(z.turn)
        <4>1. KeptOf(y, i) /\ KeptOf(z, i)
          BY <3>1, KeptExchanges DEF VoiceInv
        <4> QED BY <1>11, <4>1 DEF KeptOf, OfSession
      <3>3. turns[z.turn].aborted /\ (Spoken(y.turn) => y.call # z.call)
        <4>1. turns[y.turn].by = turns[z.turn].by
          BY <1>25, <3>2 DEF Follows
        <4> QED BY <1>25, <3>1, <4>1, KeptPairs DEF VoiceInv
      <3> QED BY <3>2, <3>3 DEF Follows, Spoken
    <2>2. CASE i = id
      <3>1. PICK a \in DOMAIN kept : /\ y = kept[a] /\ id \in Ids(store)
                                     /\ z = x \/ \E b \in DOMAIN kept : a < b /\ z = kept[b]
        BY <1>14, <1>18, <1>25, <2>2
      <3>2. /\ y.turn \in DOMAIN turns /\ turns[y.turn].session = id
            /\ turns[y.turn].call = y.call /\ Follows(y.turn)
        BY <1>11, <1>20, <3>1
      <3>3. CASE z = x
        <4>1. Follows(t)
          BY <1>11
        <4>2. turns[t].aborted /\ (Spoken(y.turn) => turns[y.turn].call # turns[t].call)
          <5>1. turns[y.turn].by = turns[t].by /\ y.turn > t
            BY <1>19, <1>25, <3>2, <3>3, <4>1 DEF Follows
          <5> QED BY <1>23, <3>2, <5>1
        <4> QED BY <1>19, <3>2, <3>3, <4>1, <4>2 DEF Follows, Spoken
      <3>4. CASE \E b \in DOMAIN kept : a < b /\ z = kept[b]
        <4>1. PICK b \in DOMAIN kept : a < b /\ z = kept[b]
          BY <3>4
        <4>2. Follows(z.turn)
          BY <1>11, <1>20, <3>1, <4>1
        <4>3. turns[z.turn].aborted /\ (Spoken(y.turn) => y.call # z.call)
          BY <1>21, <1>25, <3>1, <3>2, <4>1, <4>2 DEF Follows
        <4> QED BY <3>2, <4>2, <4>3 DEF Follows, Spoken
      <3> QED BY <3>1, <3>3, <3>4
    <2> QED BY <2>1, <2>2
  <1>26. Exchanges'
    <2>1. ASSUME NEW i \in Ids(store'), NEW j \in DOMAIN store'.entries[i].exchanges
          PROVE  \E y : y = store'.entries[i].exchanges[j] /\ OfSession(y, i)'
      <3>1. PICK y : y = store'.entries[i].exchanges[j]
        OBVIOUS
      <3>2. OfSession(y, i)'
        BY <1>24, <3>1
      <3> QED BY <3>1, <3>2
    <2> QED BY <2>1 DEF Exchanges
  <1>27. OnlyAbandonedTurnsOutliveTheirCall'
    BY <1>3, <1>24 DEF OnlyAbandonedTurnsOutliveTheirCall
  <1>28. TurnsKeptInOrder'
    BY <1>25 DEF TurnsKeptInOrder
  <1>30. InProgress'
    <2>1. \A c \in Calls : Over(c) => Over(c)'
      BY <1>3 DEF Over
    <2>2. Abandons
      BY <1>5, <1>9, <1>11 DEF Abandons
    <2> QED BY <1>11, <2>1, <2>2, InProgressKept DEF VoiceInv
  <1> QED BY <1>6, <1>12, <1>13, <1>15, <1>26, <1>27, <1>28, <1>30 DEF VoiceInv

\* The DELETE of a call clears the session, so nothing of the call is kept.
LEMMA HandleDeleteKeeps ==
  ASSUME VoiceInv, NEW d \in deletes, HandleDelete(d)
  PROVE  VoiceInv'
  <1>1. /\ Clear(d[1]) /\ clock' = clock /\ page' = page /\ turns' = turns
        /\ deletes' = deletes \ {d}
        /\ ended' = IF d[3] = "hang up" THEN ended \cup {<<d[1], d[2]>>} ELSE ended
    BY DEF HandleDelete
  <1>2. d \in Sessions \X Calls \X {"hang up", "clear"}
    BY DEF VoiceInv, HungUp
  <1>3. PICK id \in Sessions, c \in Calls : id = d[1] /\ c = d[2]
    BY <1>2
  <1>4. /\ StoreInv(Said)' /\ id \notin Ids(store')
        /\ \A j \in Ids(store') : /\ j \in Ids(store)
                                  /\ store'.entries[j].exchanges = store.entries[j].exchanges
    BY <1>1, <1>3, SessionCleared DEF VoiceInv
  <1>5. PagesOK' /\ Asked'
    BY <1>1, TurnsSame, AskedKeptInPlace DEF VoiceInv
  <1>6. HungUp'
    <2>1. \A e \in ended' : e \in Sessions \X Calls /\ Over(e[2])
      <3>1. \A e \in ended : e \in Sessions \X Calls /\ Over(e[2])
        BY DEF VoiceInv, HungUp
      <3>2. CASE d[3] = "hang up"
        <4>1. Over(c)
          BY <1>3, <3>2 DEF VoiceInv, HungUp
        <4>2. PICK e : e = <<id, c>>
          OBVIOUS
        <4>3. e \in Sessions \X Calls /\ e[2] = c /\ ended' = ended \cup {e}
          BY <1>1, <1>3, <3>2, <4>2
        <4> QED BY <3>1, <4>1, <4>3
      <3>3. CASE d[3] # "hang up"
        BY <1>1, <3>1, <3>3
      <3> QED BY <3>2, <3>3
    <2>2. \A e \in ended' : Over(e[2])'
      BY <1>1, <2>1 DEF Over
    <2>3. \A e \in deletes' : e[3] = "hang up" => Over(e[2])'
      BY <1>1 DEF VoiceInv, HungUp, Over
    <2> QED BY <1>1, <2>1, <2>2, <2>3 DEF VoiceInv, HungUp
  <1>7. \A j \in Ids(store') : \A k : <<j, k>> \in ended' => <<j, k>> \in ended
    BY <1>1, <1>3, <1>4
  <1>8. /\ Exchanges' /\ OnlyAbandonedTurnsOutliveTheirCall' /\ TurnsKeptInOrder'
    BY <1>1, <1>4, <1>7, TurnsSame, ExchangesKept DEF VoiceInv
  <1>9. InProgress'
    <2>1. \A k \in Calls : Over(k) => Over(k)'
      BY <1>1 DEF Over
    <2> QED BY <1>1, <2>1, TurnsSame, InProgressKept DEF VoiceInv
  <1> QED BY <1>4, <1>5, <1>6, <1>8, <1>9 DEF VoiceInv

LEMMA VoiceUnchanged ==
  ASSUME VoiceInv, \/ \E d \in deletes : LoseDelete(d)
                   \/ ClockTick /\ UNCHANGED turnVars
                   \/ UNCHANGED vars
  PROVE  VoiceInv'
  <1>1. page' = page /\ ended' = ended /\ deletes' \subseteq deletes /\ turns' = turns
    BY DEF LoseDelete, turnVars, vars
  <1>2. PICK X : X = Said
    OBVIOUS
  <1>3. StoreInv(X)' /\ store' = store
    <2>1. CASE UNCHANGED storeVars
      BY <1>2, <2>1, StoreUnchanged DEF VoiceInv, storeVars
    <2>2. CASE ClockTick
      BY <1>2, <2>2, TickKeeps DEF VoiceInv
    <2> QED BY <2>1, <2>2 DEF LoseDelete, vars
  <1> QED BY <1>1, <1>2, <1>3, TurnsSame, QuietStep DEF VoiceInv

-----------------------------------------------------------------------------
(* The invariant and what it says *)

LEMMA InitVoice == Init => VoiceInv
  <1> SUFFICES ASSUME Init PROVE VoiceInv
    OBVIOUS
  <1>1. PICK X : X = Said
    OBVIOUS
  <1>2. StoreInv(X) /\ Ids(store) = {}
    BY InitStore DEF Init
  <1>3. PagesOK
    <2>1. \A p \in Pages : FirstOf[p] \in Sessions
      BY VoiceAssumption
    <2>2. PICK P : P = PageRecords
      OBVIOUS
    <2>3. ASSUME NEW p \in Pages
          PROVE  [session |-> FirstOf[p], inCall |-> FALSE, mode |-> "exact", calls |-> 0] \in P
      <3>1. 0 \in 0 .. MaxCalls /\ "exact" \in Modes
        BY VoiceAssumption DEF Modes
      <3>2. PICK N : N = 0 .. MaxCalls
        OBVIOUS
      <3> QED BY <2>1, <2>2, <3>1, <3>2 DEF PageRecords
    <2>4. page = [p \in Pages |-> [session |-> FirstOf[p], inCall |-> FALSE, mode |-> "exact", calls |-> 0]]
      BY DEF Init
    <2>5. page \in [Pages -> P]
      BY <2>3, <2>4
    <2>6. \A p \in Pages : page[p].session = FirstOf[p] /\ ~ page[p].inCall
      BY <2>4
    <2> QED BY <2>2, <2>5, <2>6 DEF PagesOK, PageRecords
  <1>4. Asked
    <2>1. turns = <<>> /\ turns \in Seq(Turn) /\ Len(turns) = 0 /\ DOMAIN turns = {}
      BY DEF Init
    <2> QED BY <2>1, VoiceAssumption DEF Asked
  <1>5. HungUp
    BY DEF Init, HungUp
  <1>6. Exchanges /\ OnlyAbandonedTurnsOutliveTheirCall /\ TurnsKeptInOrder
    BY <1>2 DEF Exchanges, OfSession, OnlyAbandonedTurnsOutliveTheirCall, TurnsKeptInOrder
  <1>7. InProgress
    BY DEF Init, InProgress
  <1> QED BY <1>1, <1>2, <1>3, <1>4, <1>5, <1>6, <1>7 DEF VoiceInv

LEMMA NextVoice == VoiceInv /\ [Next]_vars => VoiceInv'
  <1> SUFFICES ASSUME VoiceInv, [Next]_vars PROVE VoiceInv'
    OBVIOUS
  <1>1. ASSUME NEW p \in Pages, NEW mode \in Modes, StartCall(p, mode) \/ Type(p, mode)
        PROVE  VoiceInv'
    BY <1>1, StartCallKeeps, TypeKeeps
  <1>2. ASSUME NEW p \in Pages, Ask(p) \/ BargeIn(p) \/ HangUp(p) \/ Rotate(p) \/ Farewell(p)
        PROVE  VoiceInv'
    BY <1>2, AskKeeps, BargeInKeeps, HangUpKeeps, RotateKeeps, FarewellKeeps
  <1>3. ASSUME NEW t \in DOMAIN turns,
               \/ ReadHistory(t) \/ Record(t) \/ LeaveUnrecorded(t) \/ Answer(t) \/ Cancel(t)
               \/ LoseReply(t)
        PROVE  VoiceInv'
    BY <1>3, ReadHistoryKeeps, RecordKeeps, FlagsKeep, LoseReplyKeeps
  <1>4. ASSUME NEW d \in deletes, HandleDelete(d) \/ LoseDelete(d)
        PROVE  VoiceInv'
    BY <1>4, HandleDeleteKeeps, VoiceUnchanged
  <1>5. CASE (ClockTick /\ UNCHANGED turnVars) \/ UNCHANGED vars
    BY <1>5, VoiceUnchanged
  <1> QED BY <1>1, <1>2, <1>3, <1>4, <1>5 DEF Next

LEMMA VoiceInvHolds == Spec => []VoiceInv
  BY InitVoice, NextVoice, PTL DEF Spec

(***************************************************************************)
(* The pages, the turns and what the store keeps stay well formed, with    *)
(* the store within its limits while all pages share it                    *)
(* (ConversationContextStore used by respond-stream and record).           *)
(***************************************************************************)
THEOREM VoiceTypeCorrect == Spec => []TypeOK
  <1>1. VoiceInv => TypeOK
    <2>1. ASSUME VoiceInv
          PROVE  StoreTypeOK /\ \A id \in Ids(store) : store.entries[id].exchanges \in Seq(Said)
      <3>1. PICK X : X = Said
        OBVIOUS
      <3>2. StoreTypeOK /\ \A id \in Ids(store) : store.entries[id].exchanges \in Seq(X)
        BY <2>1, <3>1, StoreTyped DEF VoiceInv, StoreInv, Dict, Entries
      <3> QED BY <3>1, <3>2
    <2> QED BY <2>1 DEF VoiceInv, PagesOK, Asked, HungUp, TypeOK
  <1> QED BY <1>1, VoiceInvHolds, PTL

(***************************************************************************)
(* After the DELETE of a hang-up the session keeps nothing spoken in that  *)
(* call but at most its last turn, hung up on before the server was done   *)
(* with it, however many pages, calls and turns overlap, and whether       *)
(* requests are cancelled, lost or late (stopVoiceSession, clear,          *)
(* record_session_turn).                                                   *)
(***************************************************************************)
THEOREM HeardTurnsEndWithTheirCall == Spec => []OnlyAbandonedTurnsOutliveTheirCall
  <1>1. VoiceInv => OnlyAbandonedTurnsOutliveTheirCall
    BY DEF VoiceInv
  <1> QED BY <1>1, VoiceInvHolds, PTL

(***************************************************************************)
(* The turns spoken in one call are kept in the order they were spoken,    *)
(* also where replies are talked over; turns of different calls, and typed *)
(* ones, change places only where the earlier one was given up (bargeIn,   *)
(* stopVoiceSession and the form in the page, record_session_turn).        *)
(***************************************************************************)
THEOREM SpokenTurnsStayInOrder == Spec => []TurnsKeptInOrder
  <1>1. VoiceInv => TurnsKeptInOrder
    BY DEF VoiceInv
  <1> QED BY <1>1, VoiceInvHolds, PTL
=============================================================================
