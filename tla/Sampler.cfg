SPECIFICATION FairSpec
CONSTANTS
  HistorySize = 2
  Interval = 2
  MaxTime = 2
  None = None
  Failure = Failure
  Kinds = {wan}
  Scheduled = {wan}
  Manual = {m1, m2}
  Rounds = {r1, r2, r3}
INVARIANTS SingleFlight FreshAnswer AnswerInHistory HistoryOrdered
PROPERTIES ScheduledSpacing EveryCallReturns DueIsServed
