\* Two sessions and their reports; three calls, two tokens, 3 ms a token; replies of
\* up to five bytes, chunks of two, a buffer of four characters.
SPECIFICATION Spec
CONSTANTS
  Session = {s1, s2}
  Report = {r1, r2}
  Caller = {1, 2, 3}
  Cost = 3
  Burst = 2
  MaxTime = 10
  Text <- SomeText
  MaxLines = 3
  MaxChunk = 2
  Cap = 4
INVARIANTS TypeOK QuietReportSurvives ConfirmedNotResent DebtBounded RateBounded LinesIntact NoEarlyOverflow
CHECK_DEADLOCK FALSE
