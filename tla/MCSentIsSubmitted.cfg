SPECIFICATION UnattendedSpec
CONSTANTS
  client = client
  banker = banker
  NoUser = NoUser
  NoPayment = NoPayment
  Payment = {p1}
  User = {client, banker}
  Banker = {banker}
  Blocked = {banker}
  Balance <- MCBalance
  Amount = {1}
  Worker = {w1}
  Verdict = {"COMPLETED"}
  MaxFaults = 1
  PublishMayVanish = FALSE
PROPERTY SentIsSubmitted
CHECK_DEADLOCK FALSE
