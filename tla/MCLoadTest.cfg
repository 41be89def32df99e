SPECIFICATION FairLoadSpec
CONSTANTS
  Label = {"register", "Post201", "Post202", "Post400"}
  NoScrape = NoScrape
  Scrape = {s1, s2}
  Users = 1
  Job = {j1, j2}
  Concurrency = 2
  WaitConcurrency = 1
  WaitProcessing = TRUE
  MaxFaults = 1
INVARIANTS LoadTypeOK ScrapesAgree AnsweredIsCounted ResultsComplete CleanRunIsProcessed
PROPERTIES LoadEnds HandledIsCounted
CHECK_DEADLOCK FALSE
