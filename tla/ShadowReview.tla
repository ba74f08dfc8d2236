---------------------------- MODULE ShadowReview ----------------------------
(***************************************************************************)
(* The review workbench for Shadow rewrites: one database row per result   *)
(* key, written by the background runner, judged once by a person who      *)
(* works from a page rendered earlier.  The table outlives every process.  *)
(*                                                                         *)
(* The result key is knowledge id, version and source (evidence), model    *)
(* and prompt; a failed generation has neither and is keyed by NoModel.    *)
(* Label, note and metrics are left out: they do not decide anything.      *)
(***************************************************************************)
EXTENDS Integers

CONSTANTS Evidence,   \* (knowledge id, version, source) triples
          Models,     \* model and prompt a deployment generates with
          NoModel,    \* the "generation-error" part of a key
          Texts,      \* what a model may write
          NoText,     \* no generated answer, no verdict yet
          Reviewers,
          NoPage

ASSUME ReviewAssumption ==
  NoModel \notin Models /\ NoText \notin Texts /\ NoPage \notin Evidence

VARIABLES rows,   \* shadow_review_results by result key
          pages   \* the detail page each reviewer has open

reviewVars == <<rows, pages>>

Keys == Evidence \X (Models \cup {NoModel})
Judged == {"accepted", "rejected"}
RowStatuses == {"none", "pending", "not_reviewable"} \cup Judged

\* judged is the text the reviewer had on the page (history, not a column).
ReviewRow == [status : RowStatuses, text : Texts \cup {NoText},
              version : 0 .. 2, judged : Texts \cup {NoText}]
NoRow == [status |-> "none", text |-> NoText, version |-> 0, judged |-> NoText]

Page == [key : Keys, text : Texts \cup {NoText}, version : 0 .. 2]

ReviewTypeOK ==
  /\ rows \in [Keys -> ReviewRow]
  /\ pages \in [Reviewers -> Page \cup {NoPage}]

ReviewInit ==
  /\ rows = [key \in Keys |-> NoRow]
  /\ pages = [r \in Reviewers |-> NoPage]

NewReviewRow(text) ==
  [status |-> IF text = NoText THEN "not_reviewable" ELSE "pending",
   text |-> text, version |-> 1, judged |-> NoText]

\* Mutant: an insert that meets an existing key refreshes its text.
RecordedUpsert(key, text) ==
  IF rows[key] = NoRow
  THEN [rows EXCEPT ![key] = NewReviewRow(text)]
  ELSE [rows EXCEPT ![key].text = text]

\* Mutant: it starts the row over.
RecordedReplace(key, text) == [rows EXCEPT ![key] = NewReviewRow(text)]

\* record: insert, or keep the row that already has this key.
Recorded(key, text) ==
  IF rows[key] = NoRow THEN [rows EXCEPT ![key] = NewReviewRow(text)] ELSE rows

OpenPage(r, key) ==
  /\ rows[key] # NoRow
  /\ pages' = [pages EXCEPT ![r] = [key |-> key, text |-> rows[key].text,
                                    version |-> rows[key].version]]
  /\ UNCHANGED rows

\* The form posted from the open page; the page stays open, stale.
Review(r, verdict) ==
  /\ pages[r] # NoPage
  /\ LET p == pages[r] IN
     /\ rows[p.key].version = p.version
     /\ rows[p.key].status = "pending"
     /\ rows' = [rows EXCEPT ![p.key].status = verdict, ![p.key].judged = p.text,
                             ![p.key].version = @ + 1]
  /\ UNCHANGED pages

ReviewNext ==
  \E r \in Reviewers :
    \/ \E key \in Keys : OpenPage(r, key)
    \/ \E verdict \in Judged : Review(r, verdict)

-----------------------------------------------------------------------------
(***************************************************************************)
(* A verdict is about the text that the row still shows, and never about a *)
(* failed generation, although the runner may generate the same evidence   *)
(* again in a later process while the page is open (ADR 0007, record).     *)
(***************************************************************************)
VerdictOnShownText ==
  \A key \in Keys :
    rows[key].status \in Judged =>
      rows[key].judged = rows[key].text /\ rows[key].text # NoText

(***************************************************************************)
(* ADR 0007: a completed review is never overwritten, neither by a second  *)
(* reviewer nor by a new generation of the same candidate.                 *)
(***************************************************************************)
VerdictIsFinal ==
  [][\A key \in Keys : rows[key].status \in Judged => rows'[key] = rows[key]]_reviewVars
=============================================================================
