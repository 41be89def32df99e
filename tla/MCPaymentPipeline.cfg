SPECIFICATION PipelineSpec
CONSTANTS
  client = client
  banker = banker
  NoUser = NoUser
  NoPayment = NoPayment
  Payment = {p1, p2}
  User = {client, banker}
  Banker = {banker}
  Blocked = {banker}
  Balance <- MCBalance
  Amount = {1}
  Worker = {w1, w2}
  Verdict = {"COMPLETED", "FAILED", "OTHER"}
  MaxFaults = 2
  PublishMayVanish = FALSE
SYMMETRY Symmetry
INVARIANTS PipelineTypeOK JobHasPayment AckedIsProcessed CreatedIsQueuedOrProcessed VerdictIsOutcome
PROPERTY FinalIsFinal
CHECK_DEADLOCK FALSE
