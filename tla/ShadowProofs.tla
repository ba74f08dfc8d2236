----------------------------- MODULE ShadowProofs -----------------------------
(***************************************************************************)
(* Proofs about the Shadow runner and its review table, for any evidence,  *)
(* models, reviewers, number of permits and of processes.  What makes the  *)
(* promises inductive: the work queue numbers jobs that wait, each once    *)
(* (QueueHolds), evidence whose job is under way is known (UnderWayKnown), *)
(* a job that succeeded has left a row (SuccessRecorded), a job is refused *)
(* only after the shutdown (RefusedAtShutdown), a row's text and status    *)
(* agree with its version (RowsAgree), and an open page shows the text its *)
(* row still has (PagesShow).                                              *)
(***************************************************************************)
EXTENDS ShadowRunner, FiniteSetTheorems, TLAPS

RowsAgree ==
  \A key \in Keys :
    /\ rows[key].status = "none" => rows[key] = NoRow
    /\ rows[key].status = "pending" => rows[key].version = 1 /\ rows[key].text # NoText

PagesShow ==
  \A r \in Reviewers :
    pages[r] # NoPage =>
      /\ rows[pages[r].key] # NoRow
      /\ pages[r].text = rows[pages[r].key].text

\* Jobs whose permit never came back to the semaphore, refused ones among them.
Unreturned == {i \in JobIds : jobs[i].stage # "released"}

UnreturnedAccounted == free + Cardinality(Unreturned) = MaxPending

RefusedAtShutdown == \A i \in JobIds : jobs[i].stage = "refused" => closing

QueueHolds ==
  \A n \in DOMAIN queue :
    /\ jobs[queue[n]].stage = "queued"
    /\ \A m \in DOMAIN queue : queue[m] = queue[n] => m = n

UnderWayKnown == \A i \in Outstanding : jobs[i].evidence \in known

SuccessRecorded ==
  \A i \in JobIds : jobs[i].ok => rows[<<jobs[i].evidence, model>>].status # "none"

ReviewInv == ReviewTypeOK /\ RowsAgree /\ PagesShow /\ VerdictOnShownText

RunnerInv ==
  /\ TypeOK /\ UnreturnedAccounted /\ QueueHolds
  /\ UnderWayKnown /\ OneJobPerEvidence
  /\ SuccessRecorded /\ CachedOnlyWithReason

ShadowInv == ReviewInv /\ RunnerInv

-----------------------------------------------------------------------------
(* The review table: what a record or a review does to it *)

\* No row of the table is ever lost.
RowsStay == \A key \in Keys : rows[key].status # "none" => rows'[key].status # "none"

\* A completed review is left alone.
JudgedStay == \A key \in Keys : rows[key].status \in Judged => rows'[key] = rows[key]

LEMMA RowTyped ==
  ASSUME ReviewInv, NEW key \in Keys
  PROVE  rows[key] \in ReviewRow
  BY DEF ReviewInv, ReviewTypeOK

LEMMA NewRowFacts ==
  ASSUME NEW text \in Texts \cup {NoText}
  PROVE  /\ NewReviewRow(text) \in ReviewRow
         /\ NewReviewRow(text) # NoRow
         /\ NewReviewRow(text).status \in {"pending", "not_reviewable"}
         /\ NewReviewRow(text).status = "pending" => text # NoText
         /\ NewReviewRow(text).text = text /\ NewReviewRow(text).version = 1
  <1>1. PICK status \in {"pending", "not_reviewable"} :
          status = IF text = NoText THEN "not_reviewable" ELSE "pending"
    OBVIOUS
  <1>2. NewReviewRow(text) = [status |-> status, text |-> text, version |-> 1, judged |-> NoText]
    BY <1>1 DEF NewReviewRow
  <1>3. NoRow.status = "none"
    BY DEF NoRow
  <1> QED BY <1>1, <1>2, <1>3 DEF ReviewRow, RowStatuses, Judged

\* Recording keeps what is there, and leaves a row in any case.
LEMMA RecordKeeps ==
  ASSUME ReviewInv, NEW k \in Keys, NEW text \in Texts \cup {NoText},
         rows' = Recorded(k, text), pages' = pages
  PROVE  ReviewInv' /\ RowsStay /\ JudgedStay /\ rows'[k].status # "none"
  <1>1. CASE rows[k] # NoRow
    <2>1. rows' = rows
      BY <1>1 DEF Recorded
    <2>2. rows[k].status # "none"
      BY <1>1 DEF ReviewInv, RowsAgree
    <2> QED BY <2>1, <2>2 DEF ReviewInv, ReviewTypeOK, RowsAgree, PagesShow, VerdictOnShownText,
                              RowsStay, JudgedStay
  <1>2. CASE rows[k] = NoRow
    <2>1. PICK new \in ReviewRow : new = NewReviewRow(text)
      BY NewRowFacts
    <2>2. /\ new # NoRow /\ new.status \in {"pending", "not_reviewable"}
          /\ new.status = "pending" => new.text # NoText
          /\ new.version = 1
      BY <2>1, NewRowFacts
    <2>3. rows \in [Keys -> ReviewRow] /\ rows' = [rows EXCEPT ![k] = new]
      BY <1>2, <2>1 DEF Recorded, ReviewInv, ReviewTypeOK
    <2>4. /\ rows' \in [Keys -> ReviewRow] /\ rows'[k] = new
          /\ \A key \in Keys \ {k} : rows'[key] = rows[key]
      BY <2>3
    <2>5. ReviewTypeOK'
      BY <2>4 DEF ReviewInv, ReviewTypeOK
    <2>6. RowsAgree'
      BY <2>2, <2>4 DEF ReviewInv, RowsAgree
    <2>7. PagesShow'
      <3>1. ASSUME NEW r \in Reviewers, pages[r] # NoPage
            PROVE  rows'[pages[r].key] # NoRow /\ pages[r].text = rows'[pages[r].key].text
        <4>1. pages[r] \in Page
          BY <3>1 DEF ReviewInv, ReviewTypeOK
        <4>2. pages[r].key \in Keys
          BY <4>1 DEF Page
        <4>3. rows[pages[r].key] # NoRow /\ pages[r].text = rows[pages[r].key].text
          BY <3>1 DEF ReviewInv, PagesShow
        <4> QED BY <1>2, <2>4, <4>2, <4>3
      <3> QED BY <3>1 DEF PagesShow
    <2>8. VerdictOnShownText'
      BY <2>2, <2>4 DEF ReviewInv, VerdictOnShownText, Judged
    <2>9. RowsStay
      BY <2>2, <2>4 DEF RowsStay
    <2>10. JudgedStay
      BY <1>2, <2>4 DEF JudgedStay, Judged, NoRow
    <2> QED BY <2>2, <2>4, <2>5, <2>6, <2>7, <2>8, <2>9, <2>10 DEF ReviewInv
  <1> QED BY <1>1, <1>2

LEMMA OpenPageKeeps ==
  ASSUME ReviewInv, NEW r \in Reviewers, NEW key \in Keys, OpenPage(r, key)
  PROVE  ReviewInv' /\ RowsStay /\ JudgedStay
  <1>1. PICK page : page = [key |-> key, text |-> rows[key].text, version |-> rows[key].version]
    OBVIOUS
  <1>2. rows[key] # NoRow /\ pages' = [pages EXCEPT ![r] = page] /\ rows' = rows
    BY <1>1 DEF OpenPage
  <1>3. page \in Page
    BY <1>1, RowTyped DEF Page, ReviewRow
  <1>4. ReviewTypeOK'
    BY <1>2, <1>3 DEF ReviewInv, ReviewTypeOK
  <1>5. PagesShow'
    <2>1. ASSUME NEW o \in Reviewers, pages'[o] # NoPage
          PROVE  rows[pages'[o].key] # NoRow /\ pages'[o].text = rows[pages'[o].key].text
      <3>1. CASE o = r
        BY <1>1, <1>2, <3>1 DEF ReviewInv, ReviewTypeOK
      <3>2. CASE o # r
        BY <1>2, <2>1, <3>2 DEF ReviewInv, ReviewTypeOK, PagesShow
      <3> QED BY <3>1, <3>2
    <2> QED BY <1>2, <2>1 DEF PagesShow
  <1> QED BY <1>2, <1>4, <1>5 DEF ReviewInv, RowsAgree, VerdictOnShownText, RowsStay, JudgedStay

LEMMA ReviewKeeps ==
  ASSUME ReviewInv, NEW r \in Reviewers, NEW verdict \in Judged, Review(r, verdict)
  PROVE  ReviewInv' /\ RowsStay /\ JudgedStay
  <1>1. PICK page \in Page : page = pages[r]
    BY DEF Review, ReviewInv, ReviewTypeOK
  <1>2. PICK k \in Keys : k = page.key
    BY DEF Page
  <1>3. PICK old \in ReviewRow : old = rows[k]
    BY RowTyped
  <1>4. /\ old.status = "pending" /\ old.version = 1 /\ old.text # NoText /\ page.text = old.text
        /\ old # NoRow
    BY <1>1, <1>2, <1>3 DEF Review, ReviewInv, RowsAgree, PagesShow
  <1>5. PICK new : new = [old EXCEPT !.status = verdict, !.judged = page.text, !.version = 2]
    OBVIOUS
  <1>6. rows \in [Keys -> ReviewRow]
    BY DEF ReviewInv, ReviewTypeOK
  <1>7. rows' = [rows EXCEPT ![k] = new]
    <2>1. rows' = [rows EXCEPT ![k].status = verdict, ![k].judged = page.text, ![k].version = @ + 1]
      BY <1>1, <1>2 DEF Review
    <2>2. PICK e1 : e1 = [rows EXCEPT ![k].status = verdict]
      OBVIOUS
    <2>3. e1 = [rows EXCEPT ![k] = [old EXCEPT !.status = verdict]]
      BY <1>3, <1>6, <2>2
    <2>4. PICK e2 : e2 = [e1 EXCEPT ![k].judged = page.text]
      OBVIOUS
    <2>5. e2 = [rows EXCEPT ![k] = [old EXCEPT !.status = verdict, !.judged = page.text]]
      BY <1>6, <2>3, <2>4
    <2>6. rows' = [e2 EXCEPT ![k].version = @ + 1]
      BY <2>1, <2>2, <2>4
    <2>7. e2[k].version = 1
      BY <1>4, <1>6, <2>5 DEF ReviewRow
    <2>8. rows' = [e2 EXCEPT ![k].version = 2]
      BY <2>6, <2>7
    <2> QED BY <1>5, <1>6, <2>5, <2>8
  <1>8. /\ new \in ReviewRow /\ new.status = verdict /\ new.text = old.text
        /\ new.judged = page.text /\ verdict \notin {"none", "pending"}
    <2>1. page.text \in Texts \cup {NoText}
      BY DEF Page
    <2>2. PICK T : T = Texts \cup {NoText}
      OBVIOUS
    <2>3. PICK S : S = RowStatuses
      OBVIOUS
    <2>4. ReviewRow = [status : S, text : T, version : 0 .. 2, judged : T]
      BY <2>2, <2>3 DEF ReviewRow
    <2>5. verdict \in S /\ verdict \notin {"none", "pending"}
      BY <2>3 DEF RowStatuses, Judged
    <2>6. old \in ReviewRow /\ page.text \in T
      BY <1>3, <2>1, <2>2
    <2>7. old.text \in T /\ new = [status |-> verdict, text |-> old.text, version |-> 2,
                                  judged |-> page.text]
      BY <1>5, <2>4, <2>6
    <2>8. new \in ReviewRow
      BY <2>4, <2>5, <2>6, <2>7
    <2> QED BY <2>5, <2>7, <2>8
  <1>9. /\ rows' \in [Keys -> ReviewRow] /\ rows'[k] = new
        /\ \A key \in Keys \ {k} : rows'[key] = rows[key]
    BY <1>6, <1>7, <1>8
  <1>10. pages' = pages
    BY DEF Review
  <1>11. ReviewTypeOK'
    BY <1>9, <1>10 DEF ReviewInv, ReviewTypeOK
  <1>12. RowsAgree'
    BY <1>8, <1>9 DEF ReviewInv, RowsAgree
  <1>13. PagesShow'
    <2>1. new # NoRow
      BY <1>8 DEF NoRow
    <2>2. ASSUME NEW o \in Reviewers, pages[o] # NoPage
          PROVE  rows'[pages[o].key] # NoRow /\ pages[o].text = rows'[pages[o].key].text
      <3>1. pages[o].key \in Keys
        BY <2>2 DEF ReviewInv, ReviewTypeOK, Page
      <3>2. rows[pages[o].key] # NoRow /\ pages[o].text = rows[pages[o].key].text
        BY <2>2 DEF ReviewInv, PagesShow
      <3> QED BY <1>3, <1>8, <1>9, <2>1, <3>1, <3>2
    <2> QED BY <1>10, <2>2 DEF PagesShow
  <1>14. VerdictOnShownText'
    BY <1>4, <1>8, <1>9 DEF ReviewInv, VerdictOnShownText
  <1>15. RowsStay
    BY <1>8, <1>9 DEF RowsStay
  <1>16. JudgedStay
    BY <1>3, <1>4, <1>9 DEF JudgedStay, Judged
  <1> QED BY <1>11, <1>12, <1>13, <1>14, <1>15, <1>16 DEF ReviewInv

LEMMA ReviewsUnchanged ==
  ASSUME ReviewInv, UNCHANGED reviewVars
  PROVE  ReviewInv' /\ RowsStay /\ JudgedStay
  BY DEF reviewVars, ReviewInv, ReviewTypeOK, RowsAgree, PagesShow, VerdictOnShownText,
         RowsStay, JudgedStay

-----------------------------------------------------------------------------
(* Jobs and permits *)

LEMMA UnreturnedIsFinite ==
  ASSUME RunnerInv
  PROVE  /\ Len(jobs) \in Nat /\ DOMAIN jobs = JobIds /\ IsFiniteSet(Unreturned)
         /\ Cardinality(Unreturned) \in Nat
         /\ \A i \in JobIds : jobs[i] \in Job
  <1>1. jobs \in Seq(Job) /\ Len(jobs) \in Nat /\ DOMAIN jobs = JobIds
    BY DEF RunnerInv, TypeOK, JobIds
  <1>2. IsFiniteSet(Unreturned)
    <2>1. IsFiniteSet(JobIds)
      BY <1>1, FS_Interval DEF JobIds
    <2> QED BY <2>1, FS_Subset DEF Unreturned
  <1>3. \A i \in JobIds : jobs[i] \in Job
    BY <1>1
  <1> QED BY <1>1, <1>2, <1>3, FS_CardinalityType

\* A job that was under way moves on and keeps its permit.
LEMMA JobMoves ==
  ASSUME RunnerInv, ReviewInv', RowsStay,
         NEW i \in Outstanding, NEW job \in Job, jobs' = [jobs EXCEPT ![i] = job],
         job.evidence = jobs[i].evidence, job.stage # "released",
         QueueHolds', queue' \in Seq(JobIds),
         \A e \in known' : e \in known,
         \A e \in known : e \in known' \/ (e = job.evidence /\ job.stage = "returning"),
         job.ok => rows'[<<job.evidence, model>>].status # "none",
         job.stage = "returning" /\ job.evidence \in known' => job.ok,
         UNCHANGED <<free, closing, model, restarts>>
  PROVE  RunnerInv'
  <1>1. /\ Len(jobs) \in Nat /\ DOMAIN jobs = JobIds /\ jobs \in Seq(Job)
        /\ \A j \in JobIds : jobs[j] \in Job
        /\ i \in JobIds /\ jobs[i].stage \notin {"released", "refused"}
    BY UnreturnedIsFinite DEF RunnerInv, TypeOK, Outstanding, Holding, Unreturned
  <1>2. /\ Len(jobs') = Len(jobs) /\ jobs'[i] = job /\ jobs' \in Seq(Job)
        /\ \A j \in JobIds \ {i} : jobs'[j] = jobs[j]
    BY <1>1
  <1>3. JobIds' = JobIds
    BY <1>2 DEF JobIds
  <1>4. Unreturned' = Unreturned
    <2>1. \A j \in JobIds : jobs'[j].stage # "released" <=> jobs[j].stage # "released"
      BY <1>1, <1>2
    <2> QED BY <1>3, <2>1 DEF Unreturned
  <1>5. Outstanding' = IF job.stage \in {"refused", "returning"} THEN Outstanding \ {i} ELSE Outstanding
    BY <1>2, <1>3, <1>4 DEF Outstanding, Holding, Unreturned
  <1>6. TypeOK'
    <2>1. known' \subseteq Evidence
      BY DEF RunnerInv, TypeOK
    <2>2. queue' \in Seq(1 .. Len(jobs'))
      BY <1>2 DEF JobIds
    <2>3. ReviewTypeOK'
      BY DEF ReviewInv
    <2> QED BY <1>2, <2>1, <2>2, <2>3 DEF RunnerInv, TypeOK
  <1>7. UnreturnedAccounted'
    BY <1>4 DEF RunnerInv, UnreturnedAccounted
  <1>8. OneJobPerEvidence'
    <2>1. \A j \in Outstanding' : j \in Outstanding /\ jobs'[j].evidence = jobs[j].evidence
      BY <1>2, <1>5 DEF Outstanding, Holding, Unreturned
    <2> QED BY <2>1 DEF RunnerInv, OneJobPerEvidence
  <1>9. UnderWayKnown'
    <2>1. ASSUME NEW j \in Outstanding'
          PROVE  jobs'[j].evidence \in known'
      <3>1. j \in Outstanding /\ jobs'[j].evidence = jobs[j].evidence /\ j \in JobIds
        BY <1>2, <1>5 DEF Outstanding, Holding, Unreturned
      <3>2. jobs[j].evidence \in known
        BY <3>1 DEF RunnerInv, UnderWayKnown
      <3>3. ASSUME job.stage = "returning", jobs[j].evidence = job.evidence
            PROVE  FALSE
        <4>1. j # i
          BY <1>5, <3>3
        <4> QED BY <3>1, <3>3, <4>1 DEF RunnerInv, OneJobPerEvidence
      <3> QED BY <3>1, <3>2, <3>3
    <2> QED BY <2>1 DEF UnderWayKnown
  <1>10. SuccessRecorded'
    <2>1. ASSUME NEW j \in JobIds, jobs'[j].ok
          PROVE  rows'[<<jobs'[j].evidence, model>>].status # "none"
      <3>1. CASE j = i
        BY <1>2, <2>1, <3>1
      <3>2. CASE j # i
        <4>1. jobs'[j] = jobs[j] /\ rows[<<jobs[j].evidence, model>>].status # "none"
          BY <1>2, <2>1, <3>2 DEF RunnerInv, SuccessRecorded
        <4>2. <<jobs[j].evidence, model>> \in Keys
          <5>1. jobs[j].evidence \in Evidence
            BY <1>1 DEF Job
          <5>2. model \in Models
            BY DEF RunnerInv, TypeOK
          <5> QED BY <5>1, <5>2 DEF Keys
        <4> QED BY <4>1, <4>2 DEF RowsStay
      <3> QED BY <3>1, <3>2
    <2> QED BY <1>3, <2>1 DEF SuccessRecorded
  <1>11. CachedOnlyWithReason'
    <2>1. ASSUME NEW e \in known'
          PROVE  \/ \E j \in Outstanding' : jobs'[j].evidence = e
                 \/ rows'[<<e, model>>].status # "none"
                 \/ \E j \in JobIds : jobs'[j].evidence = e /\ jobs'[j].stage = "refused"
      <3>1. e \in known /\ e \in Evidence /\ <<e, model>> \in Keys
        BY DEF RunnerInv, TypeOK, Keys
      <3>2. CASE \E j \in Outstanding : jobs[j].evidence = e
        <4>1. PICK j \in Outstanding : jobs[j].evidence = e
          BY <3>2
        <4>2. j \in JobIds /\ jobs'[j].evidence = e
          BY <1>2, <4>1 DEF Outstanding, Holding, Unreturned
        <4>3. CASE j \in Outstanding'
          BY <4>2, <4>3
        <4>4. CASE j \notin Outstanding'
          <5>1. j = i /\ job.stage \in {"refused", "returning"} /\ e = job.evidence
            BY <1>5, <4>1, <4>4
          <5>2. job.stage = "refused" \/ job.ok
            BY <5>1
          <5> QED BY <1>2, <4>2, <5>1, <5>2
        <4> QED BY <4>3, <4>4
      <3>3. CASE rows[<<e, model>>].status # "none"
        BY <3>1, <3>3 DEF RowsStay
      <3>4. CASE \E j \in JobIds : jobs[j].evidence = e /\ jobs[j].stage = "refused"
        <4>1. PICK j \in JobIds : jobs[j].evidence = e /\ jobs[j].stage = "refused"
          BY <3>4
        <4>2. j # i
          BY <1>1, <4>1
        <4>3. jobs'[j] = jobs[j]
          BY <1>2, <4>2
        <4> QED BY <4>1, <4>3
      <3> QED BY <3>1, <3>2, <3>3, <3>4 DEF RunnerInv, CachedOnlyWithReason
    <2> QED BY <1>3, <2>1 DEF CachedOnlyWithReason
  <1> QED BY <1>6, <1>7, <1>8, <1>9, <1>10, <1>11 DEF RunnerInv

\* The queue of waiting jobs does not notice a step of a job that does not wait.
LEMMA QueueUntouched ==
  ASSUME RunnerInv, NEW i \in JobIds, NEW job \in Job, jobs' = [jobs EXCEPT ![i] = job],
         queue' = queue, jobs[i].stage = "queued" => job.stage = "queued"
  PROVE  QueueHolds' /\ queue' \in Seq(JobIds)
  <1>1. jobs \in Seq(Job) /\ DOMAIN jobs = JobIds
    BY UnreturnedIsFinite DEF RunnerInv, TypeOK
  <1>2. jobs'[i] = job /\ \A j \in JobIds \ {i} : jobs'[j] = jobs[j]
    BY <1>1
  <1>3. queue \in Seq(JobIds)
    BY DEF RunnerInv, TypeOK, JobIds
  <1>4. \A n \in DOMAIN queue : queue[n] \in JobIds
    BY <1>3
  <1> QED BY <1>2, <1>3, <1>4 DEF RunnerInv, QueueHolds

LEMMA SubmitKeeps ==
  ASSUME ShadowInv, NEW e \in Evidence, Submit(e)
  PROVE  ShadowInv'
  <1>1. RunnerInv /\ ReviewInv' /\ RowsStay
    BY ReviewsUnchanged DEF ShadowInv, Submit
  <1>2. PICK n \in Nat : n = Len(jobs) /\ DOMAIN jobs = 1 .. n /\ JobIds = 1 .. n
    BY <1>1, UnreturnedIsFinite DEF JobIds
  <1>3. PICK job : job = [evidence |-> e, stage |-> "reserved", attached |-> FALSE,
                          ok |-> FALSE, onWorker |-> FALSE]
    OBVIOUS
  <1>4. job \in Job
    BY <1>3 DEF Job, Stages
  <1>5. /\ e \notin known /\ free > 0 /\ free' = free - 1 /\ known' = known \cup {e}
        /\ jobs' = Append(jobs, job)
        /\ UNCHANGED <<rows, pages, queue, closing, model, restarts>>
    BY <1>3 DEF Submit, reviewVars
  <1>6. jobs \in Seq(Job) /\ \A i \in JobIds : jobs[i] \in Job
    BY <1>1, UnreturnedIsFinite DEF RunnerInv, TypeOK
  <1>7. /\ jobs' \in Seq(Job) /\ Len(jobs') = n + 1 /\ jobs'[n + 1] = job
        /\ \A i \in JobIds : jobs'[i] = jobs[i]
    BY <1>2, <1>4, <1>5, <1>6
  <1>8. JobIds' = JobIds \cup {n + 1} /\ n + 1 \notin JobIds
    BY <1>2, <1>7 DEF JobIds
  <1>9. Unreturned' = Unreturned \cup {n + 1} /\ n + 1 \notin Unreturned
    BY <1>3, <1>7, <1>8 DEF Unreturned
  <1>10. Outstanding' = Outstanding \cup {n + 1}
    BY <1>3, <1>7, <1>8, <1>9 DEF Outstanding, Holding, Unreturned
  <1>11. \A i \in Outstanding : i \in JobIds /\ jobs[i].evidence \in known
    BY <1>1 DEF RunnerInv, UnderWayKnown, Outstanding, Holding, Unreturned
  <1>12. TypeOK'
    <2>1. queue' \in Seq(1 .. Len(jobs'))
      <3>1. queue \in Seq(1 .. n) /\ 1 .. n \subseteq 1 .. n + 1
        BY <1>1, <1>2 DEF RunnerInv, TypeOK
      <3>2. PICK J : J = 1 .. n + 1
        OBVIOUS
      <3>3. queue \in Seq(J)
        BY <3>1, <3>2
      <3> QED BY <1>5, <1>7, <3>2, <3>3
    <2>2. free' \in 0 .. MaxPending
      BY <1>1, <1>5, RunnerAssumption DEF RunnerInv, TypeOK
    <2> QED BY <1>1, <1>5, <1>7, <2>1, <2>2 DEF RunnerInv, TypeOK, ReviewInv
  <1>13. UnreturnedAccounted'
    <2>1. Cardinality(Unreturned') = Cardinality(Unreturned) + 1 /\ Cardinality(Unreturned) \in Nat
      BY <1>1, <1>9, UnreturnedIsFinite, FS_AddElement
    <2> QED BY <1>1, <1>5, <2>1, RunnerAssumption DEF RunnerInv, TypeOK, UnreturnedAccounted
  <1>14. QueueHolds'
    <2>1. \A m \in DOMAIN queue : queue[m] \in JobIds
      BY <1>1 DEF RunnerInv, TypeOK, JobIds
    <2> QED BY <1>1, <1>5, <1>7, <2>1 DEF RunnerInv, QueueHolds
  <1>15. UnderWayKnown'
    <2>1. \A i \in Outstanding : jobs'[i].evidence \in known'
      BY <1>5, <1>7, <1>11
    <2>2. jobs'[n + 1].evidence \in known'
      BY <1>3, <1>5, <1>7
    <2> QED BY <1>10, <2>1, <2>2 DEF UnderWayKnown
  <1>16. OneJobPerEvidence'
    <2>1. \A i \in Outstanding : jobs'[i].evidence = jobs[i].evidence /\ jobs[i].evidence # e
      BY <1>5, <1>7, <1>11
    <2>2. jobs'[n + 1].evidence = e
      BY <1>3, <1>7
    <2> QED BY <1>1, <1>10, <2>1, <2>2 DEF RunnerInv, OneJobPerEvidence
  <1>17. SuccessRecorded'
    <2>1. \A i \in JobIds : jobs'[i].ok => rows'[<<jobs'[i].evidence, model'>>].status # "none"
      BY <1>1, <1>5, <1>7 DEF RunnerInv, SuccessRecorded
    <2>2. ~ jobs'[n + 1].ok
      BY <1>3, <1>7
    <2> QED BY <1>8, <2>1, <2>2 DEF SuccessRecorded
  <1>18. CachedOnlyWithReason'
    <2>1. ASSUME NEW k \in known'
          PROVE  \/ \E i \in Outstanding' : jobs'[i].evidence = k
                 \/ rows'[<<k, model'>>].status # "none"
                 \/ \E i \in JobIds' : jobs'[i].evidence = k /\ jobs'[i].stage = "refused"
      <3>1. CASE k = e
        BY <1>3, <1>7, <1>10, <3>1
      <3>2. CASE k # e
        <4>1. k \in known
          BY <1>5, <3>2
        <4>2. CASE \E i \in Outstanding : jobs[i].evidence = k
          BY <1>7, <1>10, <1>11, <4>2
        <4>3. CASE rows[<<k, model>>].status # "none"
          BY <1>5, <4>3
        <4>4. CASE \E i \in JobIds : jobs[i].evidence = k /\ jobs[i].stage = "refused"
          BY <1>7, <1>8, <4>4
        <4> QED BY <1>1, <4>1, <4>2, <4>3, <4>4 DEF RunnerInv, CachedOnlyWithReason
      <3> QED BY <3>1, <3>2
    <2> QED BY <2>1 DEF CachedOnlyWithReason
  <1> QED BY <1>1, <1>12, <1>13, <1>14, <1>15, <1>16, <1>17, <1>18 DEF ShadowInv, RunnerInv

LEMMA ReturnPermitKeeps ==
  ASSUME ShadowInv, NEW i \in JobIds, ReturnPermit(i)
  PROVE  ShadowInv'
  <1>1. RunnerInv /\ ReviewInv' /\ RowsStay
    BY ReviewsUnchanged DEF ShadowInv, ReturnPermit
  <1>2. /\ Len(jobs) \in Nat /\ DOMAIN jobs = JobIds /\ jobs \in Seq(Job)
        /\ \A j \in JobIds : jobs[j] \in Job
    BY <1>1, UnreturnedIsFinite DEF RunnerInv, TypeOK
  <1>3. PICK old \in Job : old = jobs[i]
    BY <1>2
  <1>4. PICK job : job = [old EXCEPT !.stage = "released"]
    OBVIOUS
  <1>5. job \in Job /\ job.stage = "released" /\ job.evidence = old.evidence /\ job.ok = old.ok
    BY <1>3, <1>4 DEF Job, Stages
  <1>6. /\ jobs' = [jobs EXCEPT ![i] = job] /\ old.stage = "returning" /\ free' = free + 1
        /\ UNCHANGED <<rows, pages, known, queue, closing, model, restarts>>
    BY <1>2, <1>3, <1>4 DEF ReturnPermit, reviewVars
  <1>7. /\ Len(jobs') = Len(jobs) /\ jobs'[i] = job /\ jobs' \in Seq(Job)
        /\ \A j \in JobIds \ {i} : jobs'[j] = jobs[j]
    BY <1>2, <1>5, <1>6
  <1>8. JobIds' = JobIds
    BY <1>7 DEF JobIds
  <1>9. Unreturned' = Unreturned \ {i} /\ i \in Unreturned
    BY <1>3, <1>5, <1>6, <1>7, <1>8 DEF Unreturned
  <1>10. Outstanding' = Outstanding /\ i \notin Outstanding
    BY <1>3, <1>6, <1>7, <1>8, <1>9 DEF Outstanding, Holding, Unreturned
  <1>11. UnreturnedAccounted' /\ free' \in 0 .. MaxPending
    <2>1. Cardinality(Unreturned') = Cardinality(Unreturned) - 1 /\ Cardinality(Unreturned) \in Nat
          /\ Cardinality(Unreturned') \in Nat
      <3>1. IsFiniteSet(Unreturned) /\ IsFiniteSet(Unreturned')
        BY <1>1, <1>9, UnreturnedIsFinite, FS_RemoveElement
      <3> QED BY <1>9, <3>1, FS_RemoveElement, FS_CardinalityType
    <2> QED BY <1>1, <1>6, <2>1, RunnerAssumption DEF RunnerInv, TypeOK, UnreturnedAccounted
  <1>12. TypeOK'
    BY <1>1, <1>6, <1>7, <1>11 DEF RunnerInv, TypeOK, ReviewInv
  <1>13. QueueHolds'
    BY <1>1, <1>3, <1>5, <1>6, QueueUntouched
  <1>14. \A j \in Outstanding : j \in JobIds /\ jobs'[j] = jobs[j]
    BY <1>7, <1>10 DEF Outstanding, Holding, Unreturned
  <1>15. UnderWayKnown' /\ OneJobPerEvidence'
    BY <1>1, <1>6, <1>10, <1>14 DEF RunnerInv, UnderWayKnown, OneJobPerEvidence
  <1>16. SuccessRecorded'
    BY <1>1, <1>3, <1>5, <1>6, <1>7, <1>8 DEF RunnerInv, SuccessRecorded
  <1>17. CachedOnlyWithReason'
    <2>1. \A j \in JobIds : jobs[j].stage = "refused" => jobs'[j] = jobs[j]
      BY <1>3, <1>6, <1>7
    <2> QED BY <1>1, <1>6, <1>8, <1>10, <1>14, <2>1 DEF RunnerInv, CachedOnlyWithReason
  <1> QED BY <1>1, <1>11, <1>12, <1>13, <1>15, <1>16, <1>17 DEF ShadowInv, RunnerInv

LEMMA EnqueueKeeps ==
  ASSUME ShadowInv, NEW i \in JobIds, Enqueue(i)
  PROVE  ShadowInv'
  <1>1. RunnerInv /\ ReviewInv' /\ RowsStay
    BY ReviewsUnchanged DEF ShadowInv, Enqueue
  <1>2. /\ DOMAIN jobs = JobIds /\ jobs \in Seq(Job) /\ \A j \in JobIds : jobs[j] \in Job
    BY <1>1, UnreturnedIsFinite DEF RunnerInv, TypeOK
  <1>3. PICK old \in Job : old = jobs[i]
    BY <1>2
  <1>4. PICK stage \in {"refused", "queued"} : stage = IF closing THEN "refused" ELSE "queued"
    OBVIOUS
  <1>5. PICK job : job = [old EXCEPT !.stage = stage]
    OBVIOUS
  <1>6. job \in Job /\ job.stage = stage /\ job.evidence = old.evidence /\ job.ok = old.ok
    BY <1>3, <1>4, <1>5 DEF Job, Stages
  <1>7. /\ jobs' = [jobs EXCEPT ![i] = job] /\ old.stage = "reserved"
        /\ queue' = IF closing THEN queue ELSE Append(queue, i)
        /\ UNCHANGED <<rows, pages, known, free, closing, model, restarts>>
    BY <1>2, <1>3, <1>4, <1>5 DEF Enqueue, reviewVars
  <1>8. i \in Outstanding
    BY <1>3, <1>7 DEF Outstanding, Holding, Unreturned
  <1>9. jobs'[i] = job /\ \A j \in JobIds \ {i} : jobs'[j] = jobs[j]
    BY <1>2, <1>7
  <1>10. queue \in Seq(JobIds) /\ \A n \in DOMAIN queue : queue[n] \in JobIds
    <2>1. PICK J : J = JobIds
      OBVIOUS
    <2>2. queue \in Seq(J)
      BY <1>1, <2>1 DEF RunnerInv, TypeOK, JobIds
    <2>3. \A n \in DOMAIN queue : queue[n] \in J
      BY <2>2
    <2> QED BY <2>1, <2>2, <2>3
  <1>11. /\ \A n \in DOMAIN queue : jobs'[queue[n]].stage = "queued" /\ queue[n] # i
    BY <1>1, <1>3, <1>7, <1>9, <1>10 DEF RunnerInv, QueueHolds
  <1>12. QueueHolds' /\ queue' \in Seq(JobIds)
    <2>1. CASE closing
      BY <1>1, <1>7, <1>10, <1>11, <2>1 DEF RunnerInv, QueueHolds
    <2>2. CASE ~ closing
      <3>1. PICK n \in Nat : n = Len(queue) /\ DOMAIN queue = 1 .. n
        BY <1>10
      <3>2. /\ queue' = Append(queue, i) /\ DOMAIN queue' = 1 .. n + 1 /\ queue'[n + 1] = i
            /\ \A m \in 1 .. n : queue'[m] = queue[m]
        BY <1>7, <1>10, <2>2, <3>1
      <3>3. jobs'[i].stage = "queued"
        BY <1>4, <1>6, <1>9, <2>2
      <3>4. \A m \in 1 .. n + 1 : m \in 1 .. n \/ m = n + 1
        BY <3>1
      <3>5. queue' \in Seq(JobIds)
        BY <1>10, <3>2
      <3>6. \A m \in 1 .. n, o \in 1 .. n : queue[m] = queue[o] => m = o
        BY <1>1, <3>1 DEF RunnerInv, QueueHolds
      <3>7. \A m \in 1 .. n : jobs'[queue[m]].stage = "queued" /\ queue[m] # i
        BY <1>11, <3>1
      <3> QED BY <3>2, <3>3, <3>4, <3>5, <3>6, <3>7 DEF QueueHolds
    <2> QED BY <2>1, <2>2
  <1>13. job.ok => rows'[<<job.evidence, model>>].status # "none"
    BY <1>1, <1>3, <1>6, <1>7 DEF RunnerInv, SuccessRecorded
  <1>14. RunnerInv'
    BY <1>1, <1>3, <1>4, <1>6, <1>7, <1>8, <1>12, <1>13, JobMoves
  <1> QED BY <1>1, <1>14 DEF ShadowInv

LEMMA AttachKeeps ==
  ASSUME ShadowInv, NEW i \in JobIds, Attach(i)
  PROVE  ShadowInv'
  <1>1. RunnerInv /\ ReviewInv' /\ RowsStay
    BY ReviewsUnchanged DEF ShadowInv, Attach
  <1>2. /\ DOMAIN jobs = JobIds /\ jobs \in Seq(Job) /\ \A j \in JobIds : jobs[j] \in Job
    BY <1>1, UnreturnedIsFinite DEF RunnerInv, TypeOK
  <1>3. PICK old \in Job : old = jobs[i]
    BY <1>2
  <1>4. PICK stage : stage = IF old.stage = "done" THEN "releasing" ELSE old.stage
    OBVIOUS
  <1>5. PICK job : job = [old EXCEPT !.attached = TRUE, !.stage = stage]
    OBVIOUS
  <1>6. old.stage \in {"queued", "running", "done"} /\ stage \in {"queued", "running", "releasing"}
    BY <1>3, <1>4 DEF Attach
  <1>7. job \in Job /\ job.stage = stage /\ job.evidence = old.evidence /\ job.ok = old.ok
    <2>1. stage \in Stages
      BY <1>6 DEF Stages
    <2>2. PICK S : S = Stages
      OBVIOUS
    <2> QED BY <1>3, <1>5, <2>1, <2>2 DEF Job
  <1>8. /\ jobs' = [jobs EXCEPT ![i] = job]
        /\ UNCHANGED <<rows, pages, known, free, queue, closing, model, restarts>>
    <2>1. PICK e1 : e1 = [jobs EXCEPT ![i].attached = TRUE]
      OBVIOUS
    <2>2. e1 = [jobs EXCEPT ![i] = [old EXCEPT !.attached = TRUE]]
      BY <1>2, <1>3, <2>1
    <2>3. e1[i].stage = old.stage
      BY <1>2, <1>3, <2>2 DEF Job
    <2>4. jobs' = [e1 EXCEPT ![i].stage = stage]
      BY <1>4, <2>1, <2>3 DEF Attach
    <2>5. jobs' = [jobs EXCEPT ![i] = job]
      BY <1>2, <1>5, <2>2, <2>4
    <2> QED BY <2>5 DEF Attach, reviewVars
  <1>9. i \in Outstanding
    BY <1>3, <1>6 DEF Outstanding, Holding, Unreturned
  <1>10. QueueHolds' /\ queue' \in Seq(JobIds)
    BY <1>1, <1>3, <1>4, <1>7, <1>8, QueueUntouched
  <1>11. job.ok => rows'[<<job.evidence, model>>].status # "none"
    BY <1>1, <1>3, <1>7, <1>8 DEF RunnerInv, SuccessRecorded
  <1>12. RunnerInv'
    BY <1>1, <1>3, <1>6, <1>7, <1>8, <1>9, <1>10, <1>11, JobMoves
  <1> QED BY <1>1, <1>12 DEF ShadowInv

LEMMA StartKeeps ==
  ASSUME ShadowInv, Start
  PROVE  ShadowInv'
  <1>1. RunnerInv /\ ReviewInv' /\ RowsStay
    BY ReviewsUnchanged DEF ShadowInv, Start
  <1>2. /\ DOMAIN jobs = JobIds /\ jobs \in Seq(Job) /\ \A j \in JobIds : jobs[j] \in Job
    BY <1>1, UnreturnedIsFinite DEF RunnerInv, TypeOK
  <1>3. PICK J : J = JobIds
    OBVIOUS
  <1>4. queue \in Seq(J) /\ queue # <<>>
    BY <1>1, <1>3 DEF Start, RunnerInv, TypeOK, JobIds
  <1>5. PICK n \in Nat \ {0} : n = Len(queue) /\ DOMAIN queue = 1 .. n
    BY <1>4
  <1>6. PICK i \in J : i = Head(queue) /\ i = queue[1]
    BY <1>4
  <1>7. PICK old \in Job : old = jobs[i]
    BY <1>2, <1>3, <1>6
  <1>8. old.stage = "queued"
    BY <1>1, <1>5, <1>6, <1>7 DEF RunnerInv, QueueHolds
  <1>9. PICK job : job = [old EXCEPT !.stage = "running"]
    OBVIOUS
  <1>10. job \in Job /\ job.stage = "running" /\ job.evidence = old.evidence /\ job.ok = old.ok
    BY <1>7, <1>9 DEF Job, Stages
  <1>11. /\ jobs' = [jobs EXCEPT ![i] = job] /\ queue' = Tail(queue)
         /\ UNCHANGED <<rows, pages, known, free, closing, model, restarts>>
    BY <1>2, <1>6, <1>7, <1>9 DEF Start, reviewVars
  <1>12. i \in Outstanding
    BY <1>3, <1>6, <1>7, <1>8 DEF Outstanding, Holding, Unreturned
  <1>13. \A j \in J \ {i} : jobs'[j] = jobs[j]
    BY <1>2, <1>3, <1>11
  <1>14. QueueHolds' /\ queue' \in Seq(JobIds)
    <2>1. /\ queue' \in Seq(J) /\ DOMAIN queue' = 1 .. n - 1
          /\ \A m \in 1 .. n - 1 : queue'[m] = queue[m + 1] /\ m + 1 \in 1 .. n /\ m + 1 # 1
      BY <1>4, <1>5, <1>11
    <2>2. \A m \in 1 .. n, o \in 1 .. n : queue[m] = queue[o] => m = o
      BY <1>1, <1>5 DEF RunnerInv, QueueHolds
    <2>3. 1 \in 1 .. n /\ \A m \in 1 .. n : queue[m] \in J /\ jobs[queue[m]].stage = "queued"
      BY <1>1, <1>4, <1>5 DEF RunnerInv, QueueHolds
    <2>4. \A m \in 1 .. n - 1 : queue'[m] # i /\ queue'[m] \in J
      BY <1>6, <2>1, <2>2, <2>3
    <2>5. \A m \in 1 .. n - 1 : jobs'[queue'[m]].stage = "queued"
      BY <1>13, <2>1, <2>3, <2>4
    <2>6. \A m \in 1 .. n - 1, o \in 1 .. n - 1 : queue'[m] = queue'[o] => m = o
      <3>1. ASSUME NEW m \in 1 .. n - 1, NEW o \in 1 .. n - 1, queue'[m] = queue'[o]
            PROVE  m = o
        <4>1. m + 1 = o + 1
          BY <2>1, <2>2, <3>1
        <4> QED BY <4>1
      <3> QED BY <3>1
    <2> QED BY <1>3, <2>1, <2>5, <2>6 DEF QueueHolds
  <1>15. job.ok => rows'[<<job.evidence, model>>].status # "none"
    BY <1>1, <1>3, <1>6, <1>7, <1>10, <1>11 DEF RunnerInv, SuccessRecorded
  <1>16. RunnerInv'
    BY <1>1, <1>7, <1>10, <1>11, <1>12, <1>14, <1>15, JobMoves
  <1> QED BY <1>1, <1>16 DEF ShadowInv

\* The end of a generation, whatever was recorded.
LEMMA FinishKeeps ==
  ASSUME ShadowInv, NEW i \in JobIds, NEW ok \in BOOLEAN, Finish(i, ok),
         ReviewInv', RowsStay, ok => rows'[<<jobs[i].evidence, model>>].status # "none"
  PROVE  ShadowInv'
  <1>1. RunnerInv
    BY DEF ShadowInv
  <1>2. /\ DOMAIN jobs = JobIds /\ jobs \in Seq(Job) /\ \A j \in JobIds : jobs[j] \in Job
    BY <1>1, UnreturnedIsFinite DEF RunnerInv, TypeOK
  <1>3. PICK old \in Job : old = jobs[i]
    BY <1>2
  <1>4. PICK stage \in {"releasing", "done"} : stage = IF old.attached THEN "releasing" ELSE "done"
    OBVIOUS
  <1>5. PICK onWorker \in BOOLEAN : onWorker = old.attached
    BY <1>3 DEF Job
  <1>6. PICK job : job = [old EXCEPT !.stage = stage, !.onWorker = onWorker, !.ok = ok]
    OBVIOUS
  <1>7. job \in Job /\ job.stage = stage /\ job.evidence = old.evidence /\ job.ok = ok
    BY <1>3, <1>4, <1>5, <1>6 DEF Job, Stages
  <1>8. jobs' = [jobs EXCEPT ![i] = job]
    <2>1. PICK e1 : e1 = [jobs EXCEPT ![i].stage = stage]
      OBVIOUS
    <2>2. e1 = [jobs EXCEPT ![i] = [old EXCEPT !.stage = stage]]
      BY <1>2, <1>3, <2>1
    <2>3. PICK e2 : e2 = [e1 EXCEPT ![i].onWorker = onWorker]
      OBVIOUS
    <2>4. e2 = [jobs EXCEPT ![i] = [old EXCEPT !.stage = stage, !.onWorker = onWorker]]
      BY <1>2, <2>2, <2>3
    <2>5. jobs' = [e2 EXCEPT ![i].ok = ok]
      BY <1>3, <1>4, <1>5, <2>1, <2>3 DEF Finish
    <2> QED BY <1>2, <1>6, <2>4, <2>5
  <1>9. old.stage = "running" /\ UNCHANGED <<known, free, queue, closing, model, restarts>>
    BY <1>3 DEF Finish
  <1>10. i \in Outstanding
    BY <1>3, <1>9 DEF Outstanding, Holding, Unreturned
  <1>11. QueueHolds' /\ queue' \in Seq(JobIds)
    BY <1>1, <1>3, <1>7, <1>8, <1>9, QueueUntouched
  <1>12. job.ok => rows'[<<job.evidence, model>>].status # "none"
    BY <1>3, <1>7
  <1>13. RunnerInv'
    BY <1>1, <1>3, <1>4, <1>7, <1>8, <1>9, <1>10, <1>11, <1>12, JobMoves
  <1> QED BY <1>13 DEF ShadowInv

LEMMA WorkerKeeps ==
  ASSUME ShadowInv, NEW i \in JobIds, WorkerStep(i)
  PROVE  ShadowInv' /\ JudgedStay
  <1>1. ReviewInv /\ jobs[i].evidence \in Evidence /\ model \in Models
    <2>1. jobs[i] \in Job
      BY UnreturnedIsFinite DEF ShadowInv
    <2> QED BY <2>1 DEF ShadowInv, RunnerInv, TypeOK, Job
  <1>2. /\ <<jobs[i].evidence, model>> \in Keys
        /\ <<jobs[i].evidence, NoModel>> \in Keys
    BY <1>1 DEF Keys
  <1>3. CASE FinishGenerated(i)
    <2>1. PICK text \in Texts : rows' = Recorded(<<jobs[i].evidence, model>>, text)
      BY <1>3 DEF FinishGenerated
    <2>2. Finish(i, TRUE) /\ pages' = pages
      BY <1>3 DEF FinishGenerated, Finish
    <2>3. ReviewInv' /\ RowsStay /\ JudgedStay /\ rows'[<<jobs[i].evidence, model>>].status # "none"
      BY <1>1, <1>2, <2>1, <2>2, RecordKeeps
    <2> QED BY <2>2, <2>3, FinishKeeps
  <1>4. CASE FinishFailed(i)
    <2>1. /\ rows' = Recorded(<<jobs[i].evidence, NoModel>>, NoText)
          /\ Finish(i, FALSE) /\ pages' = pages
      BY <1>4 DEF FinishFailed, Finish
    <2>2. ReviewInv' /\ RowsStay /\ JudgedStay
      BY <1>1, <1>2, <2>1, RecordKeeps
    <2> QED BY <2>1, <2>2, FinishKeeps
  <1>5. CASE FinishUnrecorded(i)
    <2>1. Finish(i, FALSE) /\ UNCHANGED reviewVars
      BY <1>5 DEF FinishUnrecorded, Finish, reviewVars
    <2>2. ReviewInv' /\ RowsStay /\ JudgedStay
      BY <1>1, <2>1, ReviewsUnchanged
    <2> QED BY <2>1, <2>2, FinishKeeps
  <1> QED BY <1>3, <1>4, <1>5 DEF WorkerStep

LEMMA ForgetKeeps ==
  ASSUME ShadowInv, NEW i \in JobIds, Forget(i)
  PROVE  ShadowInv'
  <1>1. RunnerInv /\ ReviewInv' /\ RowsStay
    BY ReviewsUnchanged DEF ShadowInv, Forget
  <1>2. /\ DOMAIN jobs = JobIds /\ jobs \in Seq(Job) /\ \A j \in JobIds : jobs[j] \in Job
    BY <1>1, UnreturnedIsFinite DEF RunnerInv, TypeOK
  <1>3. PICK old \in Job : old = jobs[i]
    BY <1>2
  <1>4. PICK job : job = [old EXCEPT !.stage = "returning"]
    OBVIOUS
  <1>5. job \in Job /\ job.stage = "returning" /\ job.evidence = old.evidence /\ job.ok = old.ok
    BY <1>3, <1>4 DEF Job, Stages
  <1>6. /\ jobs' = [jobs EXCEPT ![i] = job] /\ old.stage = "releasing"
        /\ known' = IF job.ok THEN known ELSE known \ {job.evidence}
        /\ UNCHANGED <<rows, pages, free, queue, closing, model, restarts>>
    BY <1>2, <1>3, <1>4, <1>5 DEF Forget, reviewVars
  <1>7. i \in Outstanding
    BY <1>3, <1>6 DEF Outstanding, Holding, Unreturned
  <1>8. QueueHolds' /\ queue' \in Seq(JobIds)
    BY <1>1, <1>3, <1>5, <1>6, QueueUntouched
  <1>9. job.ok => rows'[<<job.evidence, model>>].status # "none"
    BY <1>1, <1>3, <1>5, <1>6 DEF RunnerInv, SuccessRecorded
  <1>10. RunnerInv'
    BY <1>1, <1>3, <1>5, <1>6, <1>7, <1>8, <1>9, JobMoves
  <1> QED BY <1>1, <1>10 DEF ShadowInv

LEMMA EmptyRunner ==
  ASSUME ReviewInv', known' = {}, free' = MaxPending, jobs' = <<>>, queue' = <<>>,
         closing' \in BOOLEAN, model' \in Models, restarts' \in 0 .. MaxRestarts
  PROVE  ShadowInv'
  <1>1. JobIds' = {} /\ Unreturned' = {} /\ Outstanding' = {} /\ DOMAIN queue' = {}
    BY DEF JobIds, Holding, Unreturned, Outstanding
  <1>2. TypeOK'
    BY RunnerAssumption DEF ReviewInv, TypeOK
  <1>3. UnreturnedAccounted'
    BY <1>1, FS_EmptySet, RunnerAssumption DEF UnreturnedAccounted
  <1>4. QueueHolds' /\ UnderWayKnown' /\ OneJobPerEvidence' /\ SuccessRecorded' /\ CachedOnlyWithReason'
    BY <1>1 DEF QueueHolds, UnderWayKnown, OneJobPerEvidence, SuccessRecorded, CachedOnlyWithReason
  <1> QED BY <1>2, <1>3, <1>4 DEF ShadowInv, RunnerInv

LEMMA RestartKeeps ==
  ASSUME ShadowInv, Restart
  PROVE  ShadowInv'
  <1>1. ReviewInv'
    BY ReviewsUnchanged DEF ShadowInv, Restart
  <1>2. restarts' \in 0 .. MaxRestarts
    BY RunnerAssumption DEF ShadowInv, RunnerInv, TypeOK, Restart
  <1> QED BY <1>1, <1>2, EmptyRunner DEF Restart

\* Reviewers, close and stuttering leave the jobs alone.
LEMMA JobsUnchanged ==
  ASSUME ShadowInv, ReviewInv', RowsStay, UNCHANGED <<known, free, jobs, queue, model, restarts>>,
         closing' \in BOOLEAN
  PROVE  ShadowInv'
  <1>1. JobIds' = JobIds /\ Unreturned' = Unreturned /\ Outstanding' = Outstanding
    BY DEF JobIds, Holding, Unreturned, Outstanding
  <1>2. TypeOK'
    BY DEF ShadowInv, RunnerInv, TypeOK, ReviewInv
  <1>3. UnreturnedAccounted' /\ QueueHolds' /\ UnderWayKnown' /\ OneJobPerEvidence'
    BY <1>1 DEF ShadowInv, RunnerInv, UnreturnedAccounted, QueueHolds, UnderWayKnown, OneJobPerEvidence
  <1>4. \A e \in Evidence : rows[<<e, model>>].status # "none" => rows'[<<e, model>>].status # "none"
    BY DEF ShadowInv, RunnerInv, TypeOK, Keys, RowsStay
  <1>5. SuccessRecorded'
    <2>1. \A i \in JobIds : jobs[i].evidence \in Evidence
      BY UnreturnedIsFinite DEF ShadowInv, Job
    <2> QED BY <1>1, <1>4, <2>1 DEF ShadowInv, RunnerInv, SuccessRecorded
  <1>6. CachedOnlyWithReason'
    <2>1. known \subseteq Evidence
      BY DEF ShadowInv, RunnerInv, TypeOK
    <2>2. CachedOnlyWithReason
      BY DEF ShadowInv, RunnerInv
    <2> QED BY <1>1, <1>4, <2>1, <2>2 DEF CachedOnlyWithReason
  <1> QED BY <1>2, <1>3, <1>5, <1>6 DEF ShadowInv, RunnerInv

LEMMA InitShadow == Init => ShadowInv
  <1> SUFFICES ASSUME Init PROVE ShadowInv
    OBVIOUS
  <1>1. NoRow \in ReviewRow /\ NoRow.status = "none"
    BY DEF NoRow, ReviewRow, RowStatuses
  <1>2. \A key \in Keys : rows[key] = NoRow
    BY DEF Init, ReviewInit
  <1>3. ReviewTypeOK
    BY <1>1 DEF Init, ReviewInit, ReviewTypeOK
  <1>4. RowsAgree /\ VerdictOnShownText
    BY <1>1, <1>2 DEF RowsAgree, VerdictOnShownText, Judged
  <1>5. PagesShow
    BY DEF Init, ReviewInit, PagesShow
  <1>6. JobIds = {} /\ Unreturned = {} /\ Outstanding = {} /\ DOMAIN queue = {}
    BY DEF Init, JobIds, Holding, Unreturned, Outstanding
  <1>7. TypeOK
    <2>1. jobs \in Seq(Job) /\ queue \in Seq(1 .. Len(jobs))
      BY DEF Init
    <2>2. free \in 0 .. MaxPending /\ restarts \in 0 .. MaxRestarts
      BY RunnerAssumption DEF Init
    <2> QED BY <1>3, <2>1, <2>2 DEF Init, TypeOK
  <1>8. UnreturnedAccounted
    BY <1>6, FS_EmptySet, RunnerAssumption DEF Init, UnreturnedAccounted
  <1>9. QueueHolds /\ UnderWayKnown /\ OneJobPerEvidence /\ SuccessRecorded /\ CachedOnlyWithReason
    BY <1>6 DEF Init, QueueHolds, UnderWayKnown, OneJobPerEvidence, SuccessRecorded,
                CachedOnlyWithReason
  <1> QED BY <1>3, <1>4, <1>5, <1>7, <1>8, <1>9 DEF ShadowInv, ReviewInv, RunnerInv

LEMMA NextShadow == ShadowInv /\ [Next]_vars => ShadowInv' /\ JudgedStay
  <1> SUFFICES ASSUME ShadowInv, [Next]_vars PROVE ShadowInv' /\ JudgedStay
    OBVIOUS
  <1>1. UNCHANGED reviewVars => JudgedStay /\ ReviewInv' /\ RowsStay
    BY ReviewsUnchanged DEF ShadowInv
  <1>2. ASSUME NEW e \in Evidence, Submit(e)
        PROVE  ShadowInv' /\ JudgedStay
    BY <1>1, <1>2, SubmitKeeps DEF Submit
  <1>3. ASSUME NEW i \in JobIds, RequestStep(i)
        PROVE  ShadowInv' /\ JudgedStay
    BY <1>1, <1>3, EnqueueKeeps, AttachKeeps DEF RequestStep, Enqueue, Attach
  <1>4. ASSUME NEW i \in JobIds, WorkerStep(i)
        PROVE  ShadowInv' /\ JudgedStay
    BY <1>4, WorkerKeeps
  <1>5. ASSUME NEW i \in JobIds, CallbackStep(i)
        PROVE  ShadowInv' /\ JudgedStay
    BY <1>1, <1>5, ForgetKeeps, ReturnPermitKeeps DEF CallbackStep, Forget, ReturnPermit
  <1>6. CASE Start
    BY <1>1, <1>6, StartKeeps DEF Start
  <1>7. CASE Close
    BY <1>1, <1>7, JobsUnchanged DEF Close
  <1>8. CASE Restart
    BY <1>1, <1>8, RestartKeeps DEF Restart
  <1>9. CASE ReviewNext /\ UNCHANGED runnerVars
    <2>1. ReviewInv' /\ RowsStay /\ JudgedStay
      BY <1>9, OpenPageKeeps, ReviewKeeps DEF ReviewNext, ShadowInv
    <2>2. closing' \in BOOLEAN
      BY <1>9 DEF runnerVars, ShadowInv, RunnerInv, TypeOK
    <2> QED BY <1>9, <2>1, <2>2, JobsUnchanged DEF runnerVars
  <1>10. CASE UNCHANGED vars
    <2>1. closing' \in BOOLEAN
      BY <1>10 DEF vars, runnerVars, ShadowInv, RunnerInv, TypeOK
    <2> QED BY <1>1, <1>10, <2>1, JobsUnchanged DEF vars, runnerVars
  <1> QED BY <1>2, <1>3, <1>4, <1>5, <1>6, <1>7, <1>8, <1>9, <1>10 DEF Next

LEMMA AlwaysShadowInv == Spec => []ShadowInv
  BY InitShadow, NextShadow, PTL DEF Spec

-----------------------------------------------------------------------------
(* Submissions refused by a shutdown *)

\* closing is never taken back within a process, and only Enqueue refuses.
LEMMA RefusalNeedsShutdown ==
  ASSUME ShadowInv, RefusedAtShutdown, [Next]_vars
  PROVE  RefusedAtShutdown'
  <1>1. /\ DOMAIN jobs = JobIds /\ jobs \in Seq(Job) /\ \A j \in JobIds : jobs[j] \in Job
    BY UnreturnedIsFinite DEF ShadowInv, RunnerInv, TypeOK
  <1>2. ASSUME NEW i \in JobIds, NEW job, jobs' = [jobs EXCEPT ![i] = job],
               job.stage = "refused" => closing, closing' = closing
        PROVE  RefusedAtShutdown'
    <2>1. JobIds' = JobIds /\ \A j \in JobIds \ {i} : jobs'[j] = jobs[j]
      BY <1>1, <1>2 DEF JobIds
    <2>2. jobs'[i] = job
      BY <1>1, <1>2
    <2> QED BY <1>2, <2>1, <2>2 DEF RefusedAtShutdown
  <1>3. ASSUME NEW e \in Evidence, Submit(e)
        PROVE  RefusedAtShutdown'
    <2>1. PICK job : /\ job = [evidence |-> e, stage |-> "reserved", attached |-> FALSE,
                                ok |-> FALSE, onWorker |-> FALSE]
                     /\ jobs' = Append(jobs, job) /\ closing' = closing
      BY <1>3 DEF Submit
    <2>2. job.stage = "reserved"
      BY <2>1
    <2>3. PICK n \in Nat : n = Len(jobs) /\ JobIds = 1 .. n
      BY UnreturnedIsFinite DEF ShadowInv, JobIds
    <2>4. JobIds' = 1 .. n + 1 /\ jobs'[n + 1] = job /\ \A j \in JobIds : jobs'[j] = jobs[j]
      BY <1>1, <2>1, <2>3 DEF JobIds
    <2>5. \A j \in JobIds' : j \in JobIds \/ j = n + 1
      BY <2>3, <2>4
    <2>6. \A j \in JobIds' : jobs'[j].stage = "refused" => j \in JobIds /\ jobs[j].stage = "refused"
      BY <2>2, <2>4, <2>5
    <2> QED BY <2>1, <2>6 DEF RefusedAtShutdown
  <1>4. ASSUME NEW i \in JobIds, Enqueue(i)
        PROVE  RefusedAtShutdown'
    <2>1. PICK stage : stage = IF closing THEN "refused" ELSE "queued"
      OBVIOUS
    <2>2. PICK old \in Job : old = jobs[i]
      BY <1>1
    <2>3. PICK job : job = [old EXCEPT !.stage = stage]
      OBVIOUS
    <2>4. job.stage = stage /\ jobs' = [jobs EXCEPT ![i] = job] /\ closing' = closing
      BY <1>1, <1>4, <2>1, <2>2, <2>3 DEF Enqueue, Job
    <2> QED BY <1>2, <2>1, <2>4
  <1>5. ASSUME NEW i \in JobIds, Attach(i)
        PROVE  RefusedAtShutdown'
    <2>1. PICK old \in Job : old = jobs[i]
      BY <1>1
    <2>2. PICK job : job = [old EXCEPT !.attached = TRUE,
                                       !.stage = IF @ = "done" THEN "releasing" ELSE @]
      OBVIOUS
    <2>3. /\ job.stage = "refused" => old.stage = "refused"
          /\ jobs' = [jobs EXCEPT ![i] = job] /\ closing' = closing
      BY <1>1, <1>5, <2>1, <2>2 DEF Attach, Job
    <2> QED BY <1>2, <2>1, <2>3 DEF RefusedAtShutdown
  <1>6. ASSUME NEW i \in JobIds, NEW ok \in BOOLEAN, Finish(i, ok)
        PROVE  RefusedAtShutdown'
    <2>1. PICK old \in Job : old = jobs[i]
      BY <1>1
    <2>2. PICK job : job = [old EXCEPT !.stage = IF old.attached THEN "releasing" ELSE "done",
                                       !.onWorker = old.attached, !.ok = ok]
      OBVIOUS
    <2>3. /\ job.stage # "refused"
          /\ jobs' = [jobs EXCEPT ![i] = job] /\ closing' = closing
      BY <1>1, <1>6, <2>1, <2>2 DEF Finish, Job
    <2> QED BY <1>2, <2>3
  <1>7. ASSUME NEW i \in JobIds, Forget(i) \/ ReturnPermit(i)
        PROVE  RefusedAtShutdown'
    <2>1. PICK stage \in {"returning", "released"} :
             jobs' = [jobs EXCEPT ![i].stage = stage] /\ closing' = closing
      BY <1>7 DEF Forget, ReturnPermit
    <2>2. PICK old \in Job : old = jobs[i]
      BY <1>1
    <2>3. PICK job : job = [old EXCEPT !.stage = stage]
      OBVIOUS
    <2>4. job.stage # "refused" /\ jobs' = [jobs EXCEPT ![i] = job]
      BY <1>1, <2>1, <2>2, <2>3 DEF Job
    <2> QED BY <1>2, <2>1, <2>4
  <1>8. ASSUME Start
        PROVE  RefusedAtShutdown'
    <2>1. PICK i \in JobIds : i = Head(queue)
      <3>1. queue \in Seq(1 .. Len(jobs)) /\ queue # <<>>
        BY <1>8 DEF Start, ShadowInv, RunnerInv, TypeOK
      <3> QED BY <3>1 DEF JobIds
    <2>2. PICK old \in Job : old = jobs[i]
      BY <1>1
    <2>3. PICK job : job = [old EXCEPT !.stage = "running"]
      OBVIOUS
    <2>4. job.stage # "refused" /\ jobs' = [jobs EXCEPT ![i] = job] /\ closing' = closing
      BY <1>1, <1>8, <2>1, <2>2, <2>3 DEF Start, Job
    <2> QED BY <1>2, <2>4
  <1>9. Close => RefusedAtShutdown'
    BY DEF Close, RefusedAtShutdown
  <1>10. Restart => RefusedAtShutdown'
    <2>1. Restart => JobIds' = {}
      BY DEF Restart, JobIds
    <2> QED BY <2>1 DEF RefusedAtShutdown
  <1>11. UNCHANGED <<jobs, closing>> => RefusedAtShutdown'
    BY DEF RefusedAtShutdown, JobIds
  <1>12. ReviewNext /\ UNCHANGED runnerVars => UNCHANGED <<jobs, closing>>
    BY DEF runnerVars
  <1>13. UNCHANGED vars => UNCHANGED <<jobs, closing>>
    BY DEF vars, runnerVars
  <1>14. ASSUME NEW i \in JobIds, WorkerStep(i)
         PROVE  RefusedAtShutdown'
    BY <1>6, <1>14 DEF WorkerStep, FinishGenerated, FinishFailed, FinishUnrecorded
  <1> QED
    BY <1>3, <1>4, <1>5, <1>7, <1>8, <1>9, <1>10, <1>11, <1>12, <1>13, <1>14
    DEF Next, RequestStep, CallbackStep

LEMMA AlwaysRefusedAtShutdown == Spec => []RefusedAtShutdown
  <1>1. Init => RefusedAtShutdown
    BY DEF Init, RefusedAtShutdown, JobIds
  <1>2. ShadowInv /\ RefusedAtShutdown /\ [Next]_vars => RefusedAtShutdown'
    BY RefusalNeedsShutdown
  <1> QED BY <1>1, <1>2, AlwaysShadowInv, PTL DEF Spec

\* A permit that is not free belongs to one job, accepted or refused.
LEMMA EachPermitHasOnePlace ==
  ASSUME ShadowInv, RefusedAtShutdown
  PROVE  PermitsLostOnlyToShutdown
  <1>1. Unreturned = Holding \cup Refused /\ Holding \cap Refused = {}
    BY DEF Unreturned, Holding, Refused
  <1>2. RunnerInv
    BY DEF ShadowInv
  <1>3. IsFiniteSet(Holding) /\ IsFiniteSet(Refused)
    BY <1>1, <1>2, UnreturnedIsFinite, FS_Subset
  <1>4. /\ Cardinality(Unreturned) = Cardinality(Holding) + Cardinality(Refused)
        /\ Cardinality(Holding) \in Nat /\ Cardinality(Refused) \in Nat
    <2>1. Cardinality(Holding \cap Refused) = 0
      BY <1>1, FS_EmptySet
    <2>2. Cardinality(Holding) \in Nat /\ Cardinality(Refused) \in Nat
      BY <1>3, FS_CardinalityType
    <2>3. Cardinality(Holding \cup Refused)
            = Cardinality(Holding) + Cardinality(Refused) - Cardinality(Holding \cap Refused)
      BY <1>3, FS_Union
    <2> QED BY <1>1, <2>1, <2>2, <2>3
  <1>5. free \in Nat /\ free + Cardinality(Unreturned) = MaxPending
    BY <1>2, RunnerAssumption DEF RunnerInv, TypeOK, UnreturnedAccounted
  <1>6. Refused # {} => closing
    BY DEF Refused, RefusedAtShutdown
  <1> QED BY <1>4, <1>5, <1>6 DEF PermitsLostOnlyToShutdown

-----------------------------------------------------------------------------
(* The theorems *)

(***************************************************************************)
(* The runner and the review table keep their types: _capacity stays       *)
(* between zero and its bound, and the executor's queue names jobs of this *)
(* process.                                                                *)
(***************************************************************************)
THEOREM ShadowTypeCorrect == Spec => []TypeOK
  <1>1. ShadowInv => TypeOK
    BY DEF ShadowInv, RunnerInv
  <1> QED BY <1>1, AlwaysShadowInv, PTL

(***************************************************************************)
(* Wherever a shutdown falls between the steps of a request thread, and    *)
(* for any number of permits, _release returns each permit of a job that   *)
(* ran exactly once: a permit is gone for good only where executor.submit  *)
(* raised, which it does only once close has been called.                  *)
(***************************************************************************)
THEOREM PermitsAreAccounted == Spec => []PermitsLostOnlyToShutdown
  <1>1. ShadowInv /\ RefusedAtShutdown => PermitsLostOnlyToShutdown
    BY EachPermitHasOnePlace
  <1> QED BY <1>1, AlwaysShadowInv, AlwaysRefusedAtShutdown, PTL

(***************************************************************************)
(* _known_evidence keeps the same evidence out of two jobs at once, even   *)
(* though _release forgets failed evidence before it returns the permit.   *)
(***************************************************************************)
THEOREM EvidenceRunsOnce == Spec => []OneJobPerEvidence
  <1>1. ShadowInv => OneJobPerEvidence
    BY DEF ShadowInv, RunnerInv
  <1> QED BY <1>1, AlwaysShadowInv, PTL

(***************************************************************************)
(* A hit is told shadow_cached only while its job is under way, after its  *)
(* candidate was recorded under this process's model, or when its job was  *)
(* refused by a shutdown.                                                  *)
(***************************************************************************)
THEOREM CachedHasReason == Spec => []CachedOnlyWithReason
  <1>1. ShadowInv => CachedOnlyWithReason
    BY DEF ShadowInv, RunnerInv
  <1> QED BY <1>1, AlwaysShadowInv, PTL

(***************************************************************************)
(* review judges the text its page showed, since the row with that version *)
(* still has it, across any number of processes, models and reviewers.     *)
(***************************************************************************)
THEOREM VerdictsOnShownText == Spec => []VerdictOnShownText
  <1>1. ShadowInv => VerdictOnShownText
    BY DEF ShadowInv, ReviewInv
  <1> QED BY <1>1, AlwaysShadowInv, PTL

(***************************************************************************)
(* Neither record nor a second review changes a completed review.          *)
(***************************************************************************)
THEOREM VerdictsAreFinal == Spec => VerdictIsFinal
  <1>1. ShadowInv /\ [Next]_vars =>
          [\A key \in Keys : rows[key].status \in Judged => rows'[key] = rows[key]]_reviewVars
    BY NextShadow DEF JudgedStay
  <1> QED BY <1>1, AlwaysShadowInv, PTL DEF Spec, VerdictIsFinal
=============================================================================
