SPECIFICATION FairTxSpec
CONSTANTS
  client = client
  banker = banker
  NoUser = NoUser
  Payment = {p1, p2}
  User = {client, banker}
  Banker = {banker}
  Blocked = {}
  Balance <- MCBalance
  Amount = {1, 2}
  Session = {s1, s2, s3}
  NoSession = NoSession
  MayFail = TRUE
  Stored = {"COMPLETED"}
INVARIANTS TxTypeOK AnswersStand
PROPERTIES StoreSpec CallsEnd
CHECK_DEADLOCK FALSE
