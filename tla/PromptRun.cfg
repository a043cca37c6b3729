SPECIFICATION FairSpec
CONSTANTS
  q1 = q1  q2 = q2  t1 = t1  t2 = t2
  Prompts = {q1, q2}
  Tools = {t1, t2}
  Nobody = Nobody
  Threshold = 2
  Retries = 1
INVARIANTS TypeOK AbortIsFresh ReportTellsLastAttempt
PROPERTY ReportedUnlessHung
CHECK_DEADLOCK FALSE
