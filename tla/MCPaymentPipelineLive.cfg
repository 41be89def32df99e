SPECIFICATION OperatedSpec
CONSTANTS
  client = client
  banker = banker
  NoUser = NoUser
  NoPayment = NoPayment
  Payment = {p1, p2}
  User = {client, banker}
  Banker = {banker}
  Blocked = {banker}
  Balance <- MCBalance
  Amount = {1}
  Worker = {w1, w2}
  Verdict = {"COMPLETED"}
  MaxFaults = 1
  PublishMayVanish = TRUE
PROPERTY QueuedIsAcked
CHECK_DEADLOCK FALSE
