--------------------- MODULE KnowledgeGovernanceProofs ---------------------
(***************************************************************************)
(* Proofs about the knowledge lifecycle, for any items, people, roles,     *)
(* contents and bounds: the types, and the audit trail behind every row    *)
(* that is in review, approved or published.                               *)
(*                                                                         *)
(* SignedTrail is not inductive alone.  It needs what an open transaction  *)
(* still knows about its locked row (TxHeld), that the last event carries  *)
(* the row's payload (LogMatches), and that a draft has no reviewer.       *)
(***************************************************************************)
EXTENDS KnowledgeGovernance, TLAPS

LogMatches ==
  \A k \in Items :
    /\ Len(log[k]) = item[k].rowVersion
    /\ item[k].rowVersion >= 1
    /\ log[k][Len(log[k])].payload = item[k].payload

DraftUnassigned ==
  \A k \in Items : item[k].status = "draft" => item[k].reviewer = NoActor

\* What the first step of a transaction checked still holds while it is open.
TxHeld ==
  \A k \in Items : tx[k] # NoTx =>
    /\ tx[k].page = item[k].rowVersion
    /\ tx[k].kind = "publish" =>
         /\ item[k].status = "approved"
         /\ tx[k].by \notin {AuthorOf[k], item[k].reviewer, item[k].approver}
    /\ tx[k].kind = "update_question_variants" => item[k].status = "draft"

\* The trail of one item, for n signatures.
Trail(k, n) ==
  /\ n < Len(log[k])
  /\ \A i \in 1 .. n :
       /\ LastEvent(k, n, i).action = Signatures[i]
       /\ LastEvent(k, n, i).seen = item[k].payload
       /\ \A j \in 1 .. n : j # i => LastEvent(k, n, i).by # LastEvent(k, n, j).by
  /\ n >= 1 => LastEvent(k, n, 1).by = AuthorOf[k]
  /\ n >= 2 => LastEvent(k, n, 2).by = item[k].reviewer
  /\ n >= 3 => LastEvent(k, n, 3).by = item[k].approver

Trails == \A k \in Items : Trail(k, Collected(item[k]))

IInv == TypeOK /\ LogMatches /\ DraftUnassigned /\ TxHeld /\ Trails

-----------------------------------------------------------------------------
(* Appending one event *)

LEMMA AppendEvent ==
  ASSUME NEW S, NEW s \in Seq(S), NEW e \in S
  PROVE  /\ Append(s, e) \in Seq(S)
         /\ Len(Append(s, e)) = Len(s) + 1
         /\ Append(s, e)[Len(s) + 1] = e
         /\ \A i \in 1 .. Len(s) : Append(s, e)[i] = s[i]
  OBVIOUS

LEMMA CollectedValues ==
  ASSUME NEW r
  PROVE  /\ Collected(r) \in 0 .. 4
         /\ r.status = "published" <=> Collected(r) = 4
         /\ r.status = "approved" <=> Collected(r) = 3
         /\ r.status = "review" => Collected(r) = IF r.reviewer = NoActor THEN 1 ELSE 2
         /\ r.status \notin {"review", "approved", "published"} => Collected(r) = 0
  BY DEF Collected

LEMMA BumpedRow ==
  ASSUME NEW row \in Row, NEW v \in Nat
  PROVE  [row EXCEPT !.rowVersion = v] \in Row
  BY DEF Row

\* What Save does to the rows when it is called on the current page.
LEMMA SaveItem ==
  ASSUME TypeOK, NEW a \in Actors, NEW k \in Items, NEW act \in ActionNames,
         NEW row \in Row, row.rowVersion = item[k].rowVersion,
         Save(a, k, item[k].rowVersion, act, row)
  PROVE  /\ item' \in [Items -> Row]
         /\ item'[k].rowVersion = item[k].rowVersion + 1
         /\ item'[k].status = row.status
         /\ item'[k].payload = row.payload
         /\ item'[k].reviewer = row.reviewer
         /\ item'[k].approver = row.approver
         /\ \A j \in Items \ {k} : item'[j] = item[j]
  <1> DEFINE new == [row EXCEPT !.rowVersion = item[k].rowVersion + 1]
  <1>1. item \in [Items -> Row]
    BY DEF TypeOK
  <1>2. new \in Row
    <2>1. item[k].rowVersion + 1 \in Nat
      BY <1>1 DEF Row
    <2> QED BY <2>1, BumpedRow
  <1>3. item' = [item EXCEPT ![k] = new]
    BY DEF Save
  <1>4. item' \in [Items -> Row] /\ item'[k] = new
    BY <1>1, <1>2, <1>3
  <1>5. \A j \in Items \ {k} : item'[j] = item[j]
    BY <1>1, <1>3
  <1>6. /\ new.rowVersion = item[k].rowVersion + 1 /\ new.status = row.status
        /\ new.payload = row.payload /\ new.reviewer = row.reviewer
        /\ new.approver = row.approver
    BY DEF Row
  <1> QED BY <1>4, <1>5, <1>6

\* What it does to the events, and that they keep up with the rows.
LEMMA SaveLog ==
  ASSUME TypeOK, LogMatches,
         NEW a \in Actors, NEW k \in Items, NEW act \in ActionNames,
         NEW row \in Row, row.rowVersion = item[k].rowVersion,
         Save(a, k, item[k].rowVersion, act, row)
  PROVE  /\ log' \in [Items -> Seq(Event)]
         /\ \A j \in Items \ {k} : log'[j] = log[j]
         /\ Len(log'[k]) = Len(log[k]) + 1
         /\ log'[k][Len(log[k]) + 1] =
              [action |-> act, by |-> a, to |-> row.status,
               payload |-> row.payload, seen |-> item[k].payload]
         /\ \A i \in 1 .. Len(log[k]) : log'[k][i] = log[k][i]
         /\ LogMatches'
  <1> DEFINE e == [action |-> act, by |-> a, to |-> row.status,
                   payload |-> row.payload, seen |-> item[k].payload]
  <1>1. log \in [Items -> Seq(Event)] /\ item[k] \in Row
    BY DEF TypeOK
  <1>2. log[k][item[k].rowVersion].payload = item[k].payload
    BY DEF LogMatches
  <1>3. e \in Event
    BY <1>1 DEF Event, Row
  <1>4. log' = [log EXCEPT ![k] = Append(log[k], e)]
    BY <1>2 DEF Save
  <1>5. log' \in [Items -> Seq(Event)] /\ log'[k] = Append(log[k], e)
    BY <1>1, <1>3, <1>4
  <1>6. \A j \in Items \ {k} : log'[j] = log[j]
    BY <1>1, <1>4
  <1>7. /\ Len(log'[k]) = Len(log[k]) + 1
        /\ log'[k][Len(log[k]) + 1] = e
        /\ \A i \in 1 .. Len(log[k]) : log'[k][i] = log[k][i]
    BY <1>1, <1>3, <1>5, AppendEvent
  <1>8. LogMatches'
    <2>1. ASSUME NEW j \in Items
          PROVE  /\ Len(log'[j]) = item'[j].rowVersion
                 /\ item'[j].rowVersion >= 1
                 /\ log'[j][Len(log'[j])].payload = item'[j].payload
      <3>1. CASE j = k
        <4>1. Len(log[k]) = item[k].rowVersion /\ item[k].rowVersion >= 1
          BY DEF LogMatches
        <4>2. item[k].rowVersion \in Nat /\ e.payload = row.payload
          BY <1>1 DEF Row
        <4> QED BY <3>1, <4>1, <4>2, <1>7, SaveItem
      <3>2. CASE j # k
        <4>1. item'[j] = item[j] /\ log'[j] = log[j]
          BY <3>2, <1>6, SaveItem
        <4> QED BY <4>1 DEF LogMatches
      <3> QED BY <3>1, <3>2
    <2> QED BY <2>1 DEF LogMatches
  <1> QED BY <1>5, <1>6, <1>7, <1>8

-----------------------------------------------------------------------------
(* The rows the operations write *)

LEMMA PayloadRow ==
  ASSUME NEW r \in Row, NEW p \in Payload
  PROVE  LET d == [r EXCEPT !.payload = p]
         IN  /\ d \in Row /\ d.status = r.status
             /\ d.reviewer = r.reviewer /\ d.rowVersion = r.rowVersion
  BY DEF Row

LEMMA ContentRow ==
  ASSUME NEW r \in Row, NEW c \in Contents
  PROVE  LET d == [r EXCEPT !.payload.content = c]
         IN  /\ d \in Row /\ d.status = r.status
             /\ d.reviewer = r.reviewer /\ d.rowVersion = r.rowVersion
  <1>1. [r.payload EXCEPT !.content = c] \in Payload
    BY DEF Row, Payload
  <1> QED BY <1>1, PayloadRow

LEMMA LexiconRow ==
  ASSUME NEW r \in Row, NEW l \in Lexicon
  PROVE  LET d == [r EXCEPT !.payload.lexicon = l]
         IN  /\ d \in Row /\ d.status = r.status
             /\ d.reviewer = r.reviewer /\ d.rowVersion = r.rowVersion
  <1>1. [r.payload EXCEPT !.lexicon = l] \in Payload
    BY DEF Row, Payload
  <1> QED BY <1>1, PayloadRow

LEMMA QuestionsRow ==
  ASSUME NEW r \in Row, NEW qs \in SUBSET Questions
  PROVE  LET d == [r EXCEPT !.payload.questions = qs]
         IN  /\ d \in Row /\ d.status = r.status
             /\ d.reviewer = r.reviewer /\ d.rowVersion = r.rowVersion
  <1>1. [r.payload EXCEPT !.questions = qs] \in Payload
    BY DEF Row, Payload
  <1> QED BY <1>1, PayloadRow

LEMMA UnassignedRow ==
  ASSUME NEW r \in Row
  PROVE  /\ Unassigned(r) \in Row
         /\ Unassigned(r).status = "draft"
         /\ Unassigned(r).reviewer = NoActor
         /\ Unassigned(r).rowVersion = r.rowVersion
         /\ Unassigned(r).payload = r.payload
         /\ Unassigned(r).version = r.version
  BY DEF Unassigned, Row, Statuses

LEMMA NextDraftTyped ==
  ASSUME NEW v \in Versions
  PROVE  NextDraftVersion(v) \in Versions
  <1>1. v.minor + 1 \in Nat
    BY DEF Versions
  <1>2. ASSUME NEW n \in Nat
        PROVE  [v EXCEPT !.minor = n, !.draft = TRUE] \in Versions
    BY DEF Versions
  <1> QED BY <1>1, <1>2 DEF NextDraftVersion

LEMMA RevisedRow ==
  ASSUME NEW r \in Row
  PROVE  LET d == [Unassigned(r) EXCEPT !.previous = r.version,
                                        !.version = NextDraftVersion(r.version)]
         IN  /\ d \in Row
             /\ d.status = "draft"
             /\ d.reviewer = NoActor
             /\ d.rowVersion = r.rowVersion
  <1>1. r.version \in Versions
    BY DEF Row
  <1>2. NextDraftVersion(r.version) \in Versions
    BY <1>1, NextDraftTyped
  <1>3. ASSUME NEW s \in Row, NEW v \in Versions, NEW w \in Versions
        PROVE  /\ [s EXCEPT !.previous = v, !.version = w] \in Row
               /\ [s EXCEPT !.previous = v, !.version = w].status = s.status
               /\ [s EXCEPT !.previous = v, !.version = w].reviewer = s.reviewer
               /\ [s EXCEPT !.previous = v, !.version = w].rowVersion = s.rowVersion
    BY DEF Row
  <1>4. /\ Unassigned(r) \in Row /\ Unassigned(r).status = "draft"
        /\ Unassigned(r).reviewer = NoActor /\ Unassigned(r).rowVersion = r.rowVersion
    BY UnassignedRow
  <1>5. PICK u \in Row : u = Unassigned(r)
    BY <1>4
  <1>6. PICK w \in Versions : w = NextDraftVersion(r.version)
    BY <1>2
  <1>7. /\ [u EXCEPT !.previous = r.version, !.version = w] \in Row
        /\ [u EXCEPT !.previous = r.version, !.version = w].status = u.status
        /\ [u EXCEPT !.previous = r.version, !.version = w].reviewer = u.reviewer
        /\ [u EXCEPT !.previous = r.version, !.version = w].rowVersion = u.rowVersion
    BY <1>1, <1>3
  <1> QED BY <1>4, <1>5, <1>6, <1>7

LEMMA ReleasedRow ==
  ASSUME NEW r \in Row
  PROVE  LET d == [Released(r) EXCEPT !.status = "published", !.public = TRUE]
         IN  /\ d \in Row
             /\ d.status = "published"
             /\ d.payload = r.payload
             /\ d.reviewer = r.reviewer
             /\ d.approver = r.approver
             /\ d.rowVersion = r.rowVersion
  <1>1. FirstRelease \in Versions /\ r.version \in Versions
    BY DEF FirstRelease, Versions, Row
  <1>2. [r.version EXCEPT !.draft = FALSE] \in Versions
    BY <1>1 DEF Versions
  <1>3. /\ Released(r) \in Row
        /\ Released(r).payload = r.payload
        /\ Released(r).reviewer = r.reviewer
        /\ Released(r).approver = r.approver
        /\ Released(r).rowVersion = r.rowVersion
    BY <1>1, <1>2 DEF Released, Row
  <1>4. ASSUME NEW q \in Row
        PROVE  LET d == [q EXCEPT !.status = "published", !.public = TRUE]
               IN  /\ d \in Row /\ d.status = "published"
                   /\ d.payload = q.payload /\ d.reviewer = q.reviewer
                   /\ d.approver = q.approver /\ d.rowVersion = q.rowVersion
    BY DEF Row, Statuses
  <1> QED BY <1>3, <1>4

-----------------------------------------------------------------------------
(* One saved operation keeps the invariant *)

\* The row either gives up its signatures or adds the actor's to those it has.
SignsOrResets(k, act, a, row) ==
  \/ Collected(row) = 0
  \/ /\ Collected(row) = Collected(item[k]) + 1
     /\ row.payload = item[k].payload
     /\ act = Signatures[Collected(row)]
     /\ \A i \in 1 .. Collected(item[k]) : LastEvent(k, Collected(item[k]), i).by # a
     /\ Collected(row) = 1 => a = AuthorOf[k]
     /\ Collected(row) = 2 => a = row.reviewer
     /\ Collected(row) = 3 => a = row.approver /\ row.reviewer = item[k].reviewer
     /\ Collected(row) = 4 => row.approver = item[k].approver /\ row.reviewer = item[k].reviewer

LEMMA SaveTrails ==
  ASSUME TypeOK, LogMatches, Trails,
         NEW a \in Actors, NEW k \in Items, NEW act \in ActionNames,
         NEW row \in Row, row.rowVersion = item[k].rowVersion,
         SignsOrResets(k, act, a, row),
         Save(a, k, item[k].rowVersion, act, row)
  PROVE  Trails'
  <1>1. PICK n \in 0 .. 4 : n = Collected(item[k])
    BY CollectedValues
  <1>2. PICK m \in 0 .. 4 : m = Collected(row)
    BY CollectedValues
  <1>3. PICK L \in Nat : L = Len(log[k])
    BY DEF TypeOK
  <1>4. PICK e : e = [action |-> act, by |-> a, to |-> row.status,
                      payload |-> row.payload, seen |-> item[k].payload]
    OBVIOUS
  <1>5. e.action = act /\ e.by = a /\ e.seen = item[k].payload
    BY <1>4
  <1>6. /\ \A j \in Items \ {k} : log'[j] = log[j]
        /\ Len(log'[k]) = L + 1
        /\ log'[k][L + 1] = e
        /\ \A i \in 1 .. L : log'[k][i] = log[k][i]
    BY SaveLog, <1>3, <1>4
  <1>7. /\ item'[k].status = row.status /\ item'[k].payload = row.payload
        /\ item'[k].reviewer = row.reviewer /\ item'[k].approver = row.approver
        /\ \A j \in Items \ {k} : item'[j] = item[j]
    BY SaveItem
  <1>8. Collected(item'[k]) = m
    BY <1>2, <1>7 DEF Collected
  <1>9. Trail(k, m)'
    <2>1. CASE m = 0
      <3>1. 0 < Len(log'[k])
        BY <1>6
      <3> QED BY <2>1, <3>1 DEF Trail
    <2>2. CASE m # 0
      <3>1. /\ m = n + 1 /\ row.payload = item[k].payload /\ act = Signatures[m]
            /\ \A i \in 1 .. n : LastEvent(k, n, i).by # a
            /\ m = 1 => a = AuthorOf[k]
            /\ m = 2 => a = row.reviewer
            /\ m = 3 => a = row.approver /\ row.reviewer = item[k].reviewer
            /\ m = 4 => row.approver = item[k].approver /\ row.reviewer = item[k].reviewer
        BY <2>2, <1>1, <1>2 DEF SignsOrResets
      <3>2. Trail(k, n)
        BY <1>1 DEF Trails
      <3>3. n < L
        BY <3>2, <1>3 DEF Trail
      <3>4. ASSUME NEW i \in 1 .. n
            PROVE  LastEvent(k, m, i)' = LastEvent(k, n, i)
        <4>1. LastEvent(k, m, i)' = log'[k][L + 1 - m + i]
          <5>1. PICK l : l = log'[k] /\ Len(l) = L + 1
            BY <1>6
          <5>2. LastEvent(k, m, i)' = l[Len(l) - m + i]
            BY <5>1 DEF LastEvent
          <5> QED BY <5>1, <5>2
        <4>2. LastEvent(k, n, i) = log[k][L - n + i]
          BY <1>3 DEF LastEvent
        <4>3. L + 1 - m + i = L - n + i /\ L - n + i \in 1 .. L
          BY <3>1, <3>3
        <4> QED BY <4>1, <4>2, <4>3, <1>6
      <3>5. LastEvent(k, m, m)' = e
        <4>1. LastEvent(k, m, m)' = log'[k][L + 1 - m + m]
          BY <1>6 DEF LastEvent
        <4>2. L + 1 - m + m = L + 1
          OBVIOUS
        <4> QED BY <4>1, <4>2, <1>6
      <3>6. 1 .. m = (1 .. n) \cup {m} /\ m \in 1 .. 4
        BY <3>1, <2>2
      <3>7. m < Len(log'[k])
        BY <1>6, <3>1, <3>3
      <3>8. ASSUME NEW i \in 1 .. m
            PROVE  /\ LastEvent(k, m, i)'.action = Signatures[i]
                   /\ LastEvent(k, m, i)'.seen = item'[k].payload
                   /\ \A j \in 1 .. m : j # i => LastEvent(k, m, i)'.by # LastEvent(k, m, j)'.by
        <4>1. CASE i \in 1 .. n
          <5>1. /\ LastEvent(k, n, i).action = Signatures[i]
                /\ LastEvent(k, n, i).seen = item[k].payload
                /\ \A j \in 1 .. n : j # i => LastEvent(k, n, i).by # LastEvent(k, n, j).by
            BY <4>1, <3>2 DEF Trail
          <5>2. LastEvent(k, n, i).by # a
            BY <4>1, <3>1
          <5> QED BY <4>1, <5>1, <5>2, <3>1, <3>4, <3>5, <3>6, <1>5, <1>7
        <4>2. CASE i = m
          BY <4>2, <3>1, <3>4, <3>5, <3>6, <1>5, <1>7
        <4> QED BY <4>1, <4>2, <3>6
      <3>9. /\ m >= 1 => LastEvent(k, m, 1)'.by = AuthorOf[k]
            /\ m >= 2 => LastEvent(k, m, 2)'.by = item'[k].reviewer
            /\ m >= 3 => LastEvent(k, m, 3)'.by = item'[k].approver
        <4>1. /\ n >= 1 => LastEvent(k, n, 1).by = AuthorOf[k]
              /\ n >= 2 => LastEvent(k, n, 2).by = item[k].reviewer
              /\ n >= 3 => LastEvent(k, n, 3).by = item[k].approver
          BY <3>2 DEF Trail
        <4>2. CASE m = 1
          BY <4>2, <3>1, <3>5, <1>5
        <4>3. CASE m = 2
          BY <4>3, <4>1, <3>1, <3>4, <3>5, <1>5, <1>7
        <4>4. CASE m = 3
          BY <4>4, <4>1, <3>1, <3>4, <3>5, <1>5, <1>7
        <4>5. CASE m = 4
          BY <4>5, <4>1, <3>1, <3>4, <3>5, <1>5, <1>7
        <4> QED BY <4>2, <4>3, <4>4, <4>5, <3>6
      <3> QED BY <3>7, <3>8, <3>9 DEF Trail
    <2> QED BY <2>1, <2>2
  <1>10. ASSUME NEW j \in Items \ {k}
         PROVE  Trail(j, Collected(item[j]))'
    <2>1. item'[j] = item[j] /\ log'[j] = log[j]
      BY <1>6, <1>7
    <2>2. PICK c \in 0 .. 4 : c = Collected(item[j])
      BY CollectedValues
    <2>3. Trail(j, c)
      BY <2>2 DEF Trails
    <2>4. Trail(j, c)'
      BY <2>1, <2>3 DEF Trail, LastEvent
    <2>5. c = Collected(item'[j])
      BY <2>1, <2>2
    <2> QED BY <2>4, <2>5
  <1> QED BY <1>8, <1>9, <1>10 DEF Trails

LEMMA SaveKeeps ==
  ASSUME IInv,
         NEW a \in Actors, NEW k \in Items, NEW act \in ActionNames,
         NEW row \in Row, row.rowVersion = item[k].rowVersion,
         row.status = "draft" => row.reviewer = NoActor,
         SignsOrResets(k, act, a, row),
         Save(a, k, item[k].rowVersion, act, row),
         tx' \in [Items -> Tx \cup {NoTx}], tx'[k] = NoTx,
         \A j \in Items \ {k} : tx'[j] = tx[j],
         archive' \in [Items -> SUBSET Row], now' \in Times,
         overlapped' \subseteq TxKinds \X SUBSET Items
  PROVE  IInv'
  <1>0. TypeOK /\ LogMatches /\ DraftUnassigned /\ TxHeld /\ Trails
    BY DEF IInv
  <1>1. log' \in [Items -> Seq(Event)] /\ LogMatches'
    BY <1>0, SaveLog
  <1>2. Trails'
    BY <1>0, SaveTrails
  <1>3. /\ item' \in [Items -> Row] /\ item'[k].status = row.status
        /\ item'[k].reviewer = row.reviewer /\ \A j \in Items \ {k} : item'[j] = item[j]
    BY <1>0, SaveItem
  <1>4. DraftUnassigned'
    BY <1>0, <1>1, <1>3 DEF DraftUnassigned
  <1>5. TxHeld'
    <2>1. ASSUME NEW j \in Items, tx'[j] # NoTx
          PROVE  tx'[j] = tx[j] /\ item'[j] = item[j]
      BY <2>1, <1>3
    <2> QED BY <1>0, <2>1 DEF TxHeld
  <1>6. TypeOK'
    BY <1>1, <1>3 DEF TypeOK
  <1> QED BY <1>1, <1>2, <1>4, <1>5, <1>6 DEF IInv

\* What Permitted tells of the row, action by action.
LEMMA PermittedRow ==
  ASSUME TypeOK, NEW a \in Actors, NEW k \in Items, NEW v, NEW act, Permitted(a, k, v, act)
  PROVE  /\ v = item[k].rowVersion /\ tx[k] = NoTx /\ item[k] \in Row
         /\ act \in {"update_content", "update_asr_terms", "update_question_variants",
                     "submit_review"} => item[k].status = "draft"
         /\ act = "submit_review" => a = AuthorOf[k]
         /\ act = "complete_review" => /\ item[k].status = "review"
                                       /\ item[k].reviewer = NoActor /\ a # AuthorOf[k]
         /\ act = "approve" => /\ item[k].status = "review" /\ item[k].reviewer # NoActor
                               /\ a \notin {AuthorOf[k], item[k].reviewer}
         /\ act = "publish" =>
              /\ item[k].status = "approved"
              /\ a \notin {AuthorOf[k], item[k].reviewer, item[k].approver}
  <1>1. v = item[k].rowVersion /\ tx[k] = NoTx /\ item[k] \in Row
    BY DEF Permitted, Current, TypeOK
  <1>2. \E s \in Statuses : <<item[k].status, act, s>> \in Transitions
    BY DEF Permitted
  <1>3. /\ act \in {"update_content", "update_asr_terms", "update_question_variants",
                    "submit_review"} => item[k].status = "draft"
        /\ act \in {"complete_review", "approve"} => item[k].status = "review"
        /\ act = "publish" => item[k].status = "approved"
    BY <1>2 DEF Transitions
  <1> QED BY <1>1, <1>3 DEF Permitted, SeparationOfDuties, AuthorOnly

-----------------------------------------------------------------------------
(* One step lemma per group of actions *)

LEMMA UpdateContentKeeps ==
  ASSUME IInv, NEW a \in Actors, NEW k \in Items, NEW v, NEW c \in Contents,
         UpdateContent(a, k, v, c)
  PROVE  IInv'
  <1> DEFINE row == [item[k] EXCEPT !.payload.content = c]
  <1>1. Permitted(a, k, v, "update_content")
    BY DEF UpdateContent
  <1>2. v = item[k].rowVersion /\ tx[k] = NoTx /\ item[k] \in Row /\ item[k].status = "draft"
    BY <1>1, PermittedRow DEF IInv
  <1>3. /\ row \in Row /\ row.status = item[k].status
        /\ row.reviewer = item[k].reviewer /\ row.rowVersion = item[k].rowVersion
    BY <1>2, ContentRow
  <1>4. SignsOrResets(k, "update_content", a, row)
    BY <1>2, <1>3, CollectedValues DEF SignsOrResets
  <1>5. row.reviewer = NoActor
    BY <1>2, <1>3 DEF IInv, DraftUnassigned
  <1>6. /\ Save(a, k, item[k].rowVersion, "update_content", row)
        /\ UNCHANGED <<archive, tx, now, overlapped>>
    BY <1>2 DEF UpdateContent
  <1>7. "update_content" \in ActionNames
    BY DEF ActionNames
  <1> QED BY <1>2, <1>3, <1>4, <1>5, <1>6, <1>7, SaveKeeps DEF IInv, TypeOK

LEMMA UpdateAsrTermsKeeps ==
  ASSUME IInv, NEW a \in Actors, NEW k \in Items, NEW v, NEW l \in Lexicon,
         UpdateAsrTerms(a, k, v, l)
  PROVE  IInv'
  <1> DEFINE row == [item[k] EXCEPT !.payload.lexicon = l]
  <1>1. Permitted(a, k, v, "update_asr_terms")
    BY DEF UpdateAsrTerms
  <1>2. v = item[k].rowVersion /\ tx[k] = NoTx /\ item[k] \in Row /\ item[k].status = "draft"
    BY <1>1, PermittedRow DEF IInv
  <1>3. /\ row \in Row /\ row.status = item[k].status
        /\ row.reviewer = item[k].reviewer /\ row.rowVersion = item[k].rowVersion
    BY <1>2, LexiconRow
  <1>4. SignsOrResets(k, "update_asr_terms", a, row)
    BY <1>2, <1>3, CollectedValues DEF SignsOrResets
  <1>5. row.reviewer = NoActor
    BY <1>2, <1>3 DEF IInv, DraftUnassigned
  <1>6. /\ Save(a, k, item[k].rowVersion, "update_asr_terms", row)
        /\ UNCHANGED <<archive, tx, now, overlapped>>
    BY <1>2 DEF UpdateAsrTerms
  <1>7. "update_asr_terms" \in ActionNames
    BY DEF ActionNames
  <1> QED BY <1>2, <1>3, <1>4, <1>5, <1>6, <1>7, SaveKeeps DEF IInv, TypeOK

LEMMA SubmitReviewKeeps ==
  ASSUME IInv, NEW a \in Actors, NEW k \in Items, NEW v, SubmitReview(a, k, v)
  PROVE  IInv'
  <1> DEFINE row == [item[k] EXCEPT !.status = "review"]
  <1>1. Permitted(a, k, v, "submit_review")
    BY DEF SubmitReview
  <1>2. /\ v = item[k].rowVersion /\ tx[k] = NoTx /\ item[k] \in Row
        /\ item[k].status = "draft" /\ a = AuthorOf[k]
    BY <1>1, PermittedRow DEF IInv
  <1>3. /\ row \in Row /\ row.status = "review" /\ row.payload = item[k].payload
        /\ row.reviewer = item[k].reviewer /\ row.rowVersion = item[k].rowVersion
    BY <1>2 DEF Row, Statuses
  <1>4. item[k].reviewer = NoActor
    BY <1>2 DEF IInv, DraftUnassigned
  <1>5. Collected(item[k]) = 0 /\ Collected(row) = 1
    BY <1>2, <1>3, <1>4, CollectedValues
  <1>6. SignsOrResets(k, "submit_review", a, row)
    BY <1>2, <1>3, <1>5 DEF SignsOrResets, Signatures
  <1>7. /\ Save(a, k, item[k].rowVersion, "submit_review", row)
        /\ UNCHANGED <<archive, tx, now, overlapped>>
    BY <1>2 DEF SubmitReview
  <1>8. "submit_review" \in ActionNames
    BY DEF ActionNames
  <1> QED BY <1>2, <1>3, <1>6, <1>7, <1>8, SaveKeeps DEF IInv, TypeOK

LEMMA CompleteReviewKeeps ==
  ASSUME IInv, NEW a \in Actors, NEW k \in Items, NEW v, CompleteReview(a, k, v)
  PROVE  IInv'
  <1> DEFINE row == [item[k] EXCEPT !.reviewer = a]
  <1>1. Permitted(a, k, v, "complete_review")
    BY DEF CompleteReview
  <1>2. /\ v = item[k].rowVersion /\ tx[k] = NoTx /\ item[k] \in Row
        /\ item[k].status = "review" /\ item[k].reviewer = NoActor /\ a # AuthorOf[k]
    BY <1>1, PermittedRow DEF IInv
  <1>3. /\ row \in Row /\ row.status = "review" /\ row.payload = item[k].payload
        /\ row.reviewer = a /\ row.rowVersion = item[k].rowVersion
    BY <1>2 DEF Row
  <1>4. a # NoActor
    BY GovernanceAssumption
  <1>5. Collected(item[k]) = 1 /\ Collected(row) = 2
    BY <1>2, <1>3, <1>4, CollectedValues
  <1>6. LastEvent(k, 1, 1).by = AuthorOf[k]
    BY <1>5 DEF IInv, Trails, Trail
  <1>7. SignsOrResets(k, "complete_review", a, row)
    BY <1>2, <1>3, <1>5, <1>6 DEF SignsOrResets, Signatures
  <1>8. /\ Save(a, k, item[k].rowVersion, "complete_review", row)
        /\ UNCHANGED <<archive, tx, now, overlapped>>
    BY <1>2 DEF CompleteReview
  <1>9. "complete_review" \in ActionNames
    BY DEF ActionNames
  <1> QED BY <1>2, <1>3, <1>7, <1>8, <1>9, SaveKeeps DEF IInv, TypeOK

LEMMA ApproveKeeps ==
  ASSUME IInv, NEW a \in Actors, NEW k \in Items, NEW v,
         NEW effective \in Times, NEW review \in Times, Approve(a, k, v, effective, review)
  PROVE  IInv'
  <1> DEFINE row == [item[k] EXCEPT !.status = "approved", !.approver = a,
                                    !.effective = effective, !.review = review]
  <1>1. Permitted(a, k, v, "approve")
    BY DEF Approve
  <1>2. /\ v = item[k].rowVersion /\ tx[k] = NoTx /\ item[k] \in Row
        /\ item[k].status = "review" /\ item[k].reviewer # NoActor
        /\ a \notin {AuthorOf[k], item[k].reviewer}
    BY <1>1, PermittedRow DEF IInv
  <1>3. /\ row \in Row /\ row.status = "approved" /\ row.payload = item[k].payload
        /\ row.reviewer = item[k].reviewer /\ row.approver = a
        /\ row.rowVersion = item[k].rowVersion
    BY <1>2 DEF Row, Statuses
  <1>4. Collected(item[k]) = 2 /\ Collected(row) = 3
    BY <1>2, <1>3, CollectedValues
  <1>5. LastEvent(k, 2, 1).by = AuthorOf[k] /\ LastEvent(k, 2, 2).by = item[k].reviewer
    BY <1>4 DEF IInv, Trails, Trail
  <1>6. SignsOrResets(k, "approve", a, row)
    BY <1>2, <1>3, <1>4, <1>5 DEF SignsOrResets, Signatures
  <1>7. /\ Save(a, k, item[k].rowVersion, "approve", row)
        /\ UNCHANGED <<archive, tx, now, overlapped>>
    BY <1>2 DEF Approve
  <1>8. "approve" \in ActionNames
    BY DEF ActionNames
  <1> QED BY <1>2, <1>3, <1>6, <1>7, <1>8, SaveKeeps DEF IInv, TypeOK

LEMMA TrailsUnchanged ==
  ASSUME Trails, UNCHANGED <<item, log>>
  PROVE  Trails'
  <1>1. ASSUME NEW k \in Items
        PROVE  Trail(k, Collected(item[k]))'
    <2>1. PICK c \in 0 .. 4 : c = Collected(item[k])
      BY CollectedValues
    <2>2. Trail(k, c)
      BY <2>1 DEF Trails
    <2>3. Trail(k, c)'
      BY <2>2 DEF Trail, LastEvent
    <2>4. c = Collected(item'[k])
      BY <2>1
    <2> QED BY <2>3, <2>4
  <1> QED BY <1>1 DEF Trails

\* Opening a transaction records the page and what the check has seen.
LEMMA OpenKeeps ==
  ASSUME IInv, NEW k \in Items, NEW t \in Tx,
         t.page = item[k].rowVersion,
         t.kind = "publish" =>
           /\ item[k].status = "approved"
           /\ t.by \notin {AuthorOf[k], item[k].reviewer, item[k].approver},
         t.kind = "update_question_variants" => item[k].status = "draft",
         tx' = [tx EXCEPT ![k] = t],
         UNCHANGED <<item, log, archive, now, overlapped>>
  PROVE  IInv'
  <1>1. tx \in [Items -> Tx \cup {NoTx}]
    BY DEF IInv, TypeOK
  <1>2. /\ tx' \in [Items -> Tx \cup {NoTx}] /\ tx'[k] = t
        /\ \A j \in Items \ {k} : tx'[j] = tx[j]
    BY <1>1
  <1>3. TypeOK'
    BY <1>2 DEF IInv, TypeOK
  <1>4. LogMatches' /\ DraftUnassigned'
    BY DEF IInv, LogMatches, DraftUnassigned
  <1>5. Trails'
    BY TrailsUnchanged DEF IInv
  <1>6. TxHeld'
    <2>1. ASSUME NEW j \in Items, tx'[j] # NoTx
          PROVE  /\ tx'[j].page = item[j].rowVersion
                 /\ tx'[j].kind = "publish" =>
                      /\ item[j].status = "approved"
                      /\ tx'[j].by \notin {AuthorOf[j], item[j].reviewer, item[j].approver}
                 /\ tx'[j].kind = "update_question_variants" => item[j].status = "draft"
      <3>1. CASE j = k
        BY <3>1, <1>2
      <3>2. CASE j # k
        <4>1. tx'[j] = tx[j]
          BY <3>2, <1>2
        <4> QED BY <4>1, <2>1 DEF IInv, TxHeld
      <3> QED BY <3>1, <3>2
    <2> QED BY <2>1 DEF TxHeld
  <1> QED BY <1>3, <1>4, <1>5, <1>6 DEF IInv

LEMMA CheckQuestionVariantsKeeps ==
  ASSUME IInv, NEW a \in Actors, NEW k \in Items, NEW v, NEW qs \in SUBSET Questions,
         CheckQuestionVariants(a, k, v, qs)
  PROVE  IInv'
  <1> DEFINE t == [kind |-> "update_question_variants", by |-> a, page |-> v, questions |-> qs]
  <1>1. Permitted(a, k, v, "update_question_variants")
    BY DEF CheckQuestionVariants
  <1>2. v = item[k].rowVersion /\ item[k] \in Row /\ item[k].status = "draft"
    BY <1>1, PermittedRow DEF IInv
  <1>3. t \in Tx
    BY <1>2 DEF Tx, TxKinds, Row
  <1>4. tx' = [tx EXCEPT ![k] = t] /\ UNCHANGED <<item, log, archive, now, overlapped>>
    BY DEF CheckQuestionVariants
  <1> QED BY <1>2, <1>3, <1>4, OpenKeeps

LEMMA CheckPublishKeeps ==
  ASSUME IInv, NEW a \in Actors, NEW k \in Items, NEW v, CheckPublish(a, k, v)
  PROVE  IInv'
  <1> DEFINE t == [kind |-> "publish", by |-> a, page |-> v, questions |-> {}]
  <1>1. Permitted(a, k, v, "publish")
    BY DEF CheckPublish
  <1>2. /\ v = item[k].rowVersion /\ item[k] \in Row /\ item[k].status = "approved"
        /\ a \notin {AuthorOf[k], item[k].reviewer, item[k].approver}
    BY <1>1, PermittedRow DEF IInv
  <1>3. t \in Tx
    BY <1>2 DEF Tx, TxKinds, Row
  <1>4. tx' = [tx EXCEPT ![k] = t] /\ UNCHANGED <<item, log, archive, now, overlapped>>
    BY DEF CheckPublish
  <1> QED BY <1>2, <1>3, <1>4, OpenKeeps

\* The open transaction is a typed record that closes with tx'[k] = NoTx.
LEMMA ClosedTx ==
  ASSUME IInv, NEW k \in Items, tx[k] # NoTx, tx' = [tx EXCEPT ![k] = NoTx]
  PROVE  /\ tx' \in [Items -> Tx \cup {NoTx}] /\ tx'[k] = NoTx
         /\ \A j \in Items \ {k} : tx'[j] = tx[j]
         /\ tx[k] \in Tx
         /\ OverlapsOf(k) \subseteq TxKinds \X SUBSET Items
  <1>1. tx \in [Items -> Tx \cup {NoTx}]
    BY DEF IInv, TypeOK
  <1>2. tx[k] \in Tx
    BY <1>1
  <1>3. OverlapsOf(k) \subseteq TxKinds \X SUBSET Items
    BY <1>2 DEF OverlapsOf, Tx
  <1> QED BY <1>1, <1>2, <1>3

LEMMA CommitPublishKeeps ==
  ASSUME IInv, NEW k \in Items, CommitPublish(k)
  PROVE  IInv'
  <1> DEFINE row == [Released(item[k]) EXCEPT !.status = "published", !.public = TRUE]
  <1> DEFINE a == tx[k].by
  <1>1. tx[k].kind = "publish" /\ tx' = [tx EXCEPT ![k] = NoTx] /\ tx[k] # NoTx
    BY DEF CommitPublish, NoTx
  <1>2. /\ tx' \in [Items -> Tx \cup {NoTx}] /\ tx'[k] = NoTx
        /\ \A j \in Items \ {k} : tx'[j] = tx[j]
        /\ a \in Actors
        /\ OverlapsOf(k) \subseteq TxKinds \X SUBSET Items
    BY <1>1, ClosedTx DEF Tx
  <1>3. /\ tx[k].page = item[k].rowVersion /\ item[k] \in Row /\ item[k].status = "approved"
        /\ a \notin {AuthorOf[k], item[k].reviewer, item[k].approver}
    BY <1>1 DEF IInv, TxHeld, TypeOK
  <1>4. /\ row \in Row /\ row.status = "published" /\ row.payload = item[k].payload
        /\ row.reviewer = item[k].reviewer /\ row.approver = item[k].approver
        /\ row.rowVersion = item[k].rowVersion
    BY <1>3, ReleasedRow
  <1>5. Collected(item[k]) = 3 /\ Collected(row) = 4
    BY <1>3, <1>4, CollectedValues
  <1>6. /\ LastEvent(k, 3, 1).by = AuthorOf[k] /\ LastEvent(k, 3, 2).by = item[k].reviewer
        /\ LastEvent(k, 3, 3).by = item[k].approver
    BY <1>5 DEF IInv, Trails, Trail
  <1>7. SignsOrResets(k, "publish", a, row)
    BY <1>3, <1>4, <1>5, <1>6 DEF SignsOrResets, Signatures
  <1>8. /\ Save(a, k, item[k].rowVersion, "publish", row)
        /\ archive' = archive /\ now' = now /\ overlapped' = overlapped \cup OverlapsOf(k)
    BY <1>3 DEF CommitPublish
  <1>9. "publish" \in ActionNames /\ row.status # "draft"
    BY <1>4 DEF ActionNames
  <1>10. /\ archive' \in [Items -> SUBSET Row] /\ now' \in Times
         /\ overlapped' \subseteq TxKinds \X SUBSET Items
    BY <1>2, <1>8 DEF IInv, TypeOK
  <1> QED BY <1>2, <1>4, <1>7, <1>8, <1>9, <1>10, SaveKeeps

LEMMA CommitQuestionVariantsKeeps ==
  ASSUME IInv, NEW k \in Items, CommitQuestionVariants(k)
  PROVE  IInv'
  <1> DEFINE row == [item[k] EXCEPT !.payload.questions = tx[k].questions]
  <1> DEFINE a == tx[k].by
  <1>1. /\ tx[k].kind = "update_question_variants" /\ tx' = [tx EXCEPT ![k] = NoTx]
        /\ tx[k] # NoTx
    BY DEF CommitQuestionVariants, NoTx
  <1>2. /\ tx' \in [Items -> Tx \cup {NoTx}] /\ tx'[k] = NoTx
        /\ \A j \in Items \ {k} : tx'[j] = tx[j]
        /\ a \in Actors /\ tx[k].questions \in SUBSET Questions
        /\ OverlapsOf(k) \subseteq TxKinds \X SUBSET Items
    BY <1>1, ClosedTx DEF Tx
  <1>3. tx[k].page = item[k].rowVersion /\ item[k] \in Row /\ item[k].status = "draft"
    BY <1>1 DEF IInv, TxHeld, TypeOK
  <1>4. /\ row \in Row /\ row.status = item[k].status
        /\ row.reviewer = item[k].reviewer /\ row.rowVersion = item[k].rowVersion
    BY <1>2, <1>3, QuestionsRow
  <1>5. SignsOrResets(k, "update_question_variants", a, row)
    BY <1>3, <1>4, CollectedValues DEF SignsOrResets
  <1>6. row.reviewer = NoActor
    BY <1>3, <1>4 DEF IInv, DraftUnassigned
  <1>7. /\ Save(a, k, item[k].rowVersion, "update_question_variants", row)
        /\ archive' = archive /\ now' = now /\ overlapped' = overlapped \cup OverlapsOf(k)
    BY <1>3 DEF CommitQuestionVariants
  <1>8. "update_question_variants" \in ActionNames
    BY DEF ActionNames
  <1>9. /\ archive' \in [Items -> SUBSET Row] /\ now' \in Times
        /\ overlapped' \subseteq TxKinds \X SUBSET Items
    BY <1>2, <1>7 DEF IInv, TypeOK
  <1> QED BY <1>2, <1>4, <1>5, <1>6, <1>7, <1>8, <1>9, SaveKeeps

LEMMA ReturnDraftKeeps ==
  ASSUME IInv, NEW a \in Actors, NEW k \in Items, NEW v, ReturnDraft(a, k, v)
  PROVE  IInv'
  <1> DEFINE row == Unassigned(item[k])
  <1>1. Permitted(a, k, v, "return_draft")
    BY DEF ReturnDraft
  <1>2. v = item[k].rowVersion /\ tx[k] = NoTx /\ item[k] \in Row
    BY <1>1, PermittedRow DEF IInv
  <1>3. /\ row \in Row /\ row.status = "draft" /\ row.reviewer = NoActor
        /\ row.rowVersion = item[k].rowVersion
    BY <1>2, UnassignedRow
  <1>4. SignsOrResets(k, "return_draft", a, row)
    BY <1>3, CollectedValues DEF SignsOrResets
  <1>5. /\ Save(a, k, item[k].rowVersion, "return_draft", row)
        /\ UNCHANGED <<archive, tx, now, overlapped>>
    BY <1>2 DEF ReturnDraft
  <1>6. "return_draft" \in ActionNames
    BY DEF ActionNames
  <1> QED BY <1>2, <1>3, <1>4, <1>5, <1>6, SaveKeeps DEF IInv, TypeOK

LEMMA RevokeKeeps ==
  ASSUME IInv, NEW a \in Actors, NEW k \in Items, NEW v, Revoke(a, k, v)
  PROVE  IInv'
  <1> DEFINE row == [item[k] EXCEPT !.status = "revoked", !.public = FALSE]
  <1>1. Permitted(a, k, v, "revoke")
    BY DEF Revoke
  <1>2. v = item[k].rowVersion /\ tx[k] = NoTx /\ item[k] \in Row
    BY <1>1, PermittedRow DEF IInv
  <1>3. row \in Row /\ row.status = "revoked" /\ row.rowVersion = item[k].rowVersion
    BY <1>2 DEF Row, Statuses
  <1>4. SignsOrResets(k, "revoke", a, row)
    BY <1>3, CollectedValues DEF SignsOrResets
  <1>5. /\ Save(a, k, item[k].rowVersion, "revoke", row)
        /\ UNCHANGED <<archive, tx, now, overlapped>>
    BY <1>2 DEF Revoke
  <1>6. "revoke" \in ActionNames
    BY DEF ActionNames
  <1> QED BY <1>2, <1>3, <1>4, <1>5, <1>6, SaveKeeps DEF IInv, TypeOK

LEMMA ReviseKeeps ==
  ASSUME IInv, NEW a \in Actors, NEW k \in Items, NEW v,
         NEW act \in {"start_revision", "start_revoked_revision"}, Revise(a, k, v, act)
  PROVE  IInv'
  <1> DEFINE row == [Unassigned(item[k]) EXCEPT !.previous = item[k].version,
                                                !.version = NextDraftVersion(item[k].version)]
  <1>1. Permitted(a, k, v, act)
    BY DEF Revise
  <1>2. v = item[k].rowVersion /\ tx[k] = NoTx /\ item[k] \in Row
    BY <1>1, PermittedRow DEF IInv
  <1>3. /\ row \in Row /\ row.status = "draft" /\ row.reviewer = NoActor
        /\ row.rowVersion = item[k].rowVersion
    BY <1>2, RevisedRow
  <1>4. SignsOrResets(k, act, a, row)
    BY <1>3, CollectedValues DEF SignsOrResets
  <1>5. /\ Save(a, k, item[k].rowVersion, act, row)
        /\ UNCHANGED <<tx, now, overlapped>>
        /\ archive' = [archive EXCEPT ![k] = @ \cup {item[k]}]
    BY <1>2 DEF Revise
  <1>6. act \in ActionNames
    BY DEF ActionNames
  <1>7. archive' \in [Items -> SUBSET Row]
    BY <1>2, <1>5 DEF IInv, TypeOK
  <1> QED BY <1>2, <1>3, <1>4, <1>5, <1>6, <1>7, SaveKeeps DEF IInv, TypeOK

LEMMA RollbackKeeps ==
  ASSUME IInv, NEW k \in Items, Rollback(k)
  PROVE  IInv'
  <1>1. /\ tx' \in [Items -> Tx \cup {NoTx}] /\ tx'[k] = NoTx
        /\ \A j \in Items \ {k} : tx'[j] = tx[j]
    BY ClosedTx DEF Rollback
  <1>2. UNCHANGED <<item, log, archive, now, overlapped>>
    BY DEF Rollback
  <1>3. TypeOK'
    BY <1>1, <1>2 DEF IInv, TypeOK
  <1>4. LogMatches' /\ DraftUnassigned'
    BY <1>2 DEF IInv, LogMatches, DraftUnassigned
  <1>5. Trails'
    BY <1>2, TrailsUnchanged DEF IInv
  <1>6. TxHeld'
    <2>1. ASSUME NEW j \in Items, tx'[j] # NoTx
          PROVE  tx'[j] = tx[j]
      BY <2>1, <1>1
    <2> QED BY <2>1, <1>2 DEF IInv, TxHeld
  <1> QED BY <1>3, <1>4, <1>5, <1>6 DEF IInv

\* The clock and stuttering touch nothing the invariant relates.
LEMMA TickKeeps ==
  ASSUME IInv, now' \in Times, UNCHANGED <<item, log, archive, tx, overlapped>>
  PROVE  IInv'
  <1>1. TypeOK'
    BY DEF IInv, TypeOK
  <1>2. LogMatches' /\ DraftUnassigned' /\ TxHeld'
    BY DEF IInv, LogMatches, DraftUnassigned, TxHeld
  <1>3. Trails'
    BY TrailsUnchanged DEF IInv
  <1> QED BY <1>1, <1>2, <1>3 DEF IInv

LEMMA InitIInv ==
  ASSUME Init
  PROVE  IInv
  <1> USE GovernanceAssumption
  <1>1. \A k \in Items : NewRow(k) \in Row
    <2>1. SeedVersions \subseteq Versions /\ NoVersion \in Versions
      BY DEF SeedVersions, Versions, NoVersion
    <2>2. \A k \in Items : SeedVersion[k] \in Versions /\ Seed[k] \in Payload
      BY <2>1
    <2> QED BY <2>1, <2>2 DEF NewRow, Row, Statuses
  <1>2. ASSUME NEW k \in Items
        PROVE  /\ Len(log[k]) = 1
               /\ log[k][1].payload = Seed[k]
               /\ log[k] \in Seq(Event)
    <2> DEFINE e == [action |-> "seed", by |-> AuthorOf[k], to |-> "draft",
                     payload |-> Seed[k], seen |-> Seed[k]]
    <2>1. e \in Event
      BY DEF Event, ActionNames, Statuses
    <2>2. log[k] = <<e>>
      BY DEF Init
    <2> QED BY <2>1, <2>2
  <1>3. \A k \in Items : /\ item[k] = NewRow(k) /\ item[k].rowVersion = 1
                         /\ item[k].payload = Seed[k] /\ item[k].status = "draft"
                         /\ item[k].reviewer = NoActor
    BY DEF Init, NewRow
  <1>4. TypeOK
    <2>1. item \in [Items -> Row]
      BY <1>1 DEF Init
    <2>2. log \in [Items -> Seq(Event)]
      BY <1>2 DEF Init
    <2>3. /\ archive \in [Items -> SUBSET Row] /\ tx \in [Items -> Tx \cup {NoTx}]
          /\ now \in Times /\ overlapped \subseteq TxKinds \X SUBSET Items
      BY DEF Init, Times
    <2> QED BY <2>1, <2>2, <2>3 DEF TypeOK
  <1>5. LogMatches /\ DraftUnassigned
    <2>1. ASSUME NEW k \in Items
          PROVE  /\ Len(log[k]) = item[k].rowVersion /\ item[k].rowVersion >= 1
                 /\ log[k][Len(log[k])].payload = item[k].payload
      BY <1>2, <1>3
    <2> QED BY <2>1, <1>3 DEF LogMatches, DraftUnassigned
  <1>6. TxHeld
    BY DEF Init, TxHeld
  <1>7. Trails
    <2>1. ASSUME NEW k \in Items
          PROVE  Trail(k, Collected(item[k]))
      <3>1. Collected(item[k]) = 0
        BY <1>3, CollectedValues
      <3> QED BY <3>1, <1>2 DEF Trail
    <2> QED BY <2>1 DEF Trails
  <1> QED BY <1>4, <1>5, <1>6, <1>7 DEF IInv

LEMMA NextKeeps ==
  ASSUME IInv, [Next]_vars
  PROVE  IInv'
  <1>1. CASE \E a \in Actors, k \in Items : \E v \in 1 .. Len(log[k]) : Submit(a, k, v)
    <2>1. PICK a \in Actors, k \in Items : \E v \in 1 .. Len(log[k]) : Submit(a, k, v)
      BY <1>1
    <2>2. PICK v \in 1 .. Len(log[k]) : Submit(a, k, v)
      BY <2>1
    <2>3. CASE \E c \in Contents : UpdateContent(a, k, v, c)
      BY <2>3, UpdateContentKeeps
    <2>4. CASE \E l \in Lexicon : UpdateAsrTerms(a, k, v, l)
      BY <2>4, UpdateAsrTermsKeeps
    <2>5. CASE \E qs \in SUBSET Questions : CheckQuestionVariants(a, k, v, qs)
      BY <2>5, CheckQuestionVariantsKeeps
    <2>6. CASE \E effective, review \in Times : Approve(a, k, v, effective, review)
      BY <2>6, ApproveKeeps
    <2>7. CASE SubmitReview(a, k, v) \/ CompleteReview(a, k, v) \/ CheckPublish(a, k, v)
      BY <2>7, SubmitReviewKeeps, CompleteReviewKeeps, CheckPublishKeeps
    <2>8. CASE ReturnDraft(a, k, v) \/ Revoke(a, k, v)
      BY <2>8, ReturnDraftKeeps, RevokeKeeps
    <2>9. CASE StartRevision(a, k, v) \/ StartRevokedRevision(a, k, v)
      BY <2>9, ReviseKeeps DEF StartRevision, StartRevokedRevision
    <2> QED BY <2>2, <2>3, <2>4, <2>5, <2>6, <2>7, <2>8, <2>9 DEF Submit
  <1>2. CASE \E k \in Items : CommitPublish(k) \/ CommitQuestionVariants(k) \/ Rollback(k)
    BY <1>2, CommitPublishKeeps, CommitQuestionVariantsKeeps, RollbackKeeps
  <1>3. CASE Tick
    <2>1. now' \in Times /\ UNCHANGED <<item, log, archive, tx, overlapped>>
      BY <1>3, GovernanceAssumption DEF Tick, Times, IInv, TypeOK
    <2> QED BY <2>1, TickKeeps
  <1>4. CASE UNCHANGED vars
    <2>1. now' \in Times /\ UNCHANGED <<item, log, archive, tx, overlapped>>
      BY <1>4 DEF vars, IInv, TypeOK
    <2> QED BY <2>1, TickKeeps
  <1> QED BY <1>1, <1>2, <1>3, <1>4 DEF Next

(***************************************************************************)
(* Rows, events, archive and open transactions keep their types, whatever  *)
(* the people, roles, contents and bounds (models.py, database.py).        *)
(***************************************************************************)
THEOREM TypeCorrect == Spec => []TypeOK
  <1>1. Init => IInv
    BY InitIInv
  <1>2. IInv /\ [Next]_vars => IInv'
    BY NextKeeps
  <1>3. IInv => TypeOK
    BY DEF IInv
  <1> QED BY <1>1, <1>2, <1>3, PTL DEF Spec

(***************************************************************************)
(* The audit trail always backs what a row claims: an item in review,      *)
(* approved or published ends its log with exactly the signatures its      *)
(* state needs, by different people, all given on the payload it holds     *)
(* (perform_action and GovernancePolicy.next_status).                      *)
(***************************************************************************)
THEOREM TrailBacksEveryRow == Spec => []SignedTrail
  <1>1. Init => IInv
    BY InitIInv
  <1>2. IInv /\ [Next]_vars => IInv'
    BY NextKeeps
  <1>3. IInv => SignedTrail
    <2>1. ASSUME IInv, NEW k \in Items
          PROVE  Len(log[k]) = item[k].rowVersion /\ Trail(k, Collected(item[k]))
      BY <2>1 DEF IInv, LogMatches, Trails
    <2> QED BY <2>1 DEF SignedTrail, Trail
  <1> QED BY <1>1, <1>2, <1>3, PTL DEF Spec
=============================================================================
