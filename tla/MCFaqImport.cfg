SPECIFICATION Spec
CONSTANTS
  f1 = f1
  f2 = f2
  f3 = f3
  a1 = a1
  a1v = a1v
  a2 = a2
  a3 = a3
  q1 = q1
  q1v = q1v
  q2 = q2
  q3 = q3
  wl = wl
  u1 = u1
  ana = ana
  bob = bob
  guest = guest
  none = none
  req1 = req1
  req2 = req2
  Actors = {ana, bob, guest}
  Authors = {ana, bob}
  Files = {f1, f2, f3}
  Workbook <- WorkbookDef
  Urls = {u1}
  Answers = {a1, a1v, a2, a3}
  NoAnswer = none
  AnswerKey <- AnswerKeyDef
  Questions = {q1, q1v, q2, q3, wl}
  QuestionKey <- QuestionKeyDef
  Wordless = {wl}
  Sensitive = {q3}
  Risky = {q2}
  Seeded <- SeededDef
  MaxImportRows = 5
  MaxQuestions = 2
  Requests = {req1, req2}
  MaxBatches = 2
  Edits <- EditsDef
  MaxEdits = 1
INVARIANTS FaqTypeOK SharedAnswerNeedsRaceOrEdit BatchAccountsForDrafts SharedQuestionWasShown OnlyCleanTextsImported
SYMMETRY Symmetry
CHECK_DEADLOCK FALSE
