SPECIFICATION WorkedSpec
CONSTANTS
  client = client
  banker = banker
  admin = admin
  NoUser = NoUser
  Payment = {p1, p2}
  User = {client, banker, admin}
  Banker = {banker, admin}
  Admin = {admin}
  Blocked = {admin}
  Balance <- MCBalance
  Amount = {1}
  Reader = {r1}
  Ask = {1, 5}
  MaxAsk = 4
  MaxList = 3
  ListLimit = 3
  QueueLimit = 1
INVARIANTS ReportingTypeOK StatsAccountForDecisions ProfileAgrees HistoryIsExplained
  AuditExplainsStatus StatsMatchAudit
PROPERTY PendingIsSettled
CHECK_DEADLOCK FALSE
