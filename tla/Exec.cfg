CONSTANTS
  Procs = {sh, worker, helper}
  Leader = sh
  OutputLimit = 1
  PipeSize = 1
  MaxSeconds = 2
  MaxFrame = 16
  Envelope = 1
  None = None
SPECIFICATION FairSpec
INVARIANTS NothingSurvives ResultIsTrue
PROPERTY Ends
