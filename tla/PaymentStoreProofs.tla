------------------------- MODULE PaymentStoreProofs -------------------------
(***************************************************************************)
(* Theorems about PaymentStore, for every set of payments and users:       *)
(* typing, the audit correspondence and the finality of settled payments.  *)
(* AuditExplainsStatus is inductive on its own once the types are known.   *)
(***************************************************************************)
EXTENDS PaymentStore, SequenceTheorems, FiniteSetTheorems,
        TLAPS

\* The rows and entries that the inserts write are rows and entries of the
\* schema, whoever asks.
LEMMA WrittenValuesTyped ==
  /\ Absent \in Row
  /\ \A s \in User, r \in User, a \in Amount : NewRow(s, r, a) \in Row
  /\ \A row \in Row, b \in Banker, st \in Decision : Decided(row, b, st) \in Row
  /\ \A row \in Row, st \in ResultStatus : Processed(row, st) \in Row
  /\ \A st \in Decision : BankerAction(st) \in Action
<1>1. Absent \in Row
  BY DEF Absent, Row, ResultStatus
<1>2. \A s \in User, r \in User, a \in Amount : NewRow(s, r, a) \in Row
  BY StoreAssumption DEF StoreAssumption, NewRow, Row, ResultStatus
<1>3. \A row \in Row, b \in Banker, st \in Decision : Decided(row, b, st) \in Row
  BY StoreAssumption DEF StoreAssumption, Decided, Row, Decision, ResultStatus
<1>4. \A st \in Decision : BankerAction(st) \in Action
  BY DEF BankerAction, Action, Decision
<1>5. \A row \in Row, st \in ResultStatus : Processed(row, st) \in Row
  BY DEF Processed, Row
<1> QED
  BY <1>1, <1>2, <1>3, <1>4, <1>5

\* No call takes the tables out of their domains: one step per exported
\* function of store.go that writes them.
LEMMA StoreTypeStep ==
  ASSUME StoreTypeOK, [StoreNext]_storeVars
  PROVE  StoreTypeOK'
<1> USE DEF StoreTypeOK
<1>1. ASSUME NEW p \in Payment, NEW s \in User, NEW r \in User, NEW a \in Amount,
             CreatePayment(p, s, r, a)
      PROVE  StoreTypeOK'
  <2>1. payments' \in [Payment -> Row]
    BY <1>1, WrittenValuesTyped DEF CreatePayment
  <2>2. [user |-> s, action |-> "CREATE_PAYMENT"] \in Entry
    BY DEF Entry, Action
  <2> QED
    BY <1>1, <2>1, <2>2 DEF CreatePayment
<1>2. ASSUME NEW p \in Payment, NEW st \in ResultStatus,
             ApplyProcessingResult(p, st)
      PROVE  StoreTypeOK'
  BY <1>2, WrittenValuesTyped DEF ApplyProcessingResult
<1>3. ASSUME NEW p \in Payment, NEW b \in Banker, NEW st \in Decision,
             DecidePayment(p, b, st)
      PROVE  StoreTypeOK'
  <2>1. payments' \in [Payment -> Row]
    BY <1>3, WrittenValuesTyped DEF DecidePayment
  <2>2. [user |-> b, action |-> BankerAction(st)] \in Entry
    BY StoreAssumption, WrittenValuesTyped DEF StoreAssumption, Entry
  <2> QED
    BY <1>3, <2>1, <2>2 DEF DecidePayment
<1>4. ASSUME UNCHANGED storeVars
      PROVE  StoreTypeOK'
  BY <1>4 DEF storeVars
<1> QED
  BY <1>1, <1>2, <1>3, <1>4 DEF StoreNext

\* The tables of a running system always match the schema.
THEOREM StoreTypeCorrect == StoreSpec => []StoreTypeOK
<1>1. StoreInit => StoreTypeOK
  BY WrittenValuesTyped DEF StoreInit, StoreTypeOK
<1> QED
  BY <1>1, StoreTypeStep, PTL DEF StoreSpec

-----------------------------------------------------------------------------
\* What AuditExplainsStatus says of one payment.
Explained(p) ==
  LET row == payments[p]
      created == [user |-> row.sender, action |-> "CREATE_PAYMENT"]
      decided == [user |-> row.approved_by, action |-> BankerAction(row.status)]
  IN /\ row.status = "ABSENT" => audit_log[p] = <<>>
     /\ row.status # "ABSENT" /\ row.approved_by = NoUser =>
          audit_log[p] = <<created>>
     /\ row.status # "ABSENT" /\ row.approved_by # NoUser =>
          /\ row.status \in Decision
          /\ audit_log[p] = <<created, decided>>
     /\ row.status \in {"ABSENT", "PENDING", "COMPLETED"} =>
          row.approved_by = NoUser

\* The named form of the property and the one above agree on typed tables.
LEMMA ExplainedIsAuditExplainsStatus ==
  ASSUME StoreTypeOK, \A p \in Payment : Explained(p)
  PROVE  AuditExplainsStatus
BY DEF AuditExplainsStatus, Explained, StoreTypeOK

\* The second entry of an audit trail comes after the first.
LEMMA SecondEntry ==
  ASSUME NEW x \in Entry, NEW y \in Entry
  PROVE  Append(<<x>>, y) = <<x, y>>
<1>1. <<x>> \in Seq(Entry) /\ Len(<<x>>) = 1
  OBVIOUS
<1>2. Append(<<x>>, y) \in Seq(Entry) /\ Len(Append(<<x>>, y)) = 2
  BY <1>1
<1>3. <<x, y>> \in Seq(Entry) /\ Len(<<x, y>>) = 2
  OBVIOUS
<1>4. \A i \in 1 .. 2 : Append(<<x>>, y)[i] = <<x, y>>[i]
  <2> TAKE i \in 1 .. 2
  <2>1. CASE i = 1
    BY <1>1, <2>1
  <2>2. CASE i = 2
    BY <1>1, <2>2
  <2> QED
    BY <2>1, <2>2
<1> QED
  BY <1>2, <1>3, <1>4, SeqEqual

\* Every step keeps the audit log of every payment in step with its row.
LEMMA ExplainedStep ==
  ASSUME StoreTypeOK, \A p \in Payment : Explained(p), [StoreNext]_storeVars,
         NEW q \in Payment
  PROVE  Explained(q)'
<1> USE DEF StoreTypeOK
<1>0. Explained(q) /\ payments[q] \in Row /\ audit_log[q] \in Seq(Entry)
  OBVIOUS
<1>1. ASSUME NEW p \in Payment, NEW s \in User, NEW r \in User, NEW a \in Amount,
             CreatePayment(p, s, r, a)
      PROVE  Explained(q)'
  <2>1. CASE q = p
    <3>1. audit_log[p] = <<>>
      BY <1>0, <1>1, <2>1 DEF CreatePayment, Explained, Absent
    <3>2. /\ payments'[p] = NewRow(s, r, a)
          /\ audit_log'[p] = <<[user |-> s, action |-> "CREATE_PAYMENT"]>>
      BY <1>1, <3>1 DEF CreatePayment
    <3> QED
      BY <2>1, <3>2 DEF Explained, NewRow
  <2>2. CASE q # p
    <3>1. payments'[q] = payments[q] /\ audit_log'[q] = audit_log[q]
      BY <1>1, <2>2 DEF CreatePayment
    <3> QED
      BY <1>0, <3>1 DEF Explained
  <2> QED
    BY <2>1, <2>2
<1>2. ASSUME NEW p \in Payment, NEW st \in ResultStatus,
             ApplyProcessingResult(p, st)
      PROVE  Explained(q)'
  <2>1. audit_log'[q] = audit_log[q]
    BY <1>2 DEF ApplyProcessingResult
  <2>2. CASE q = p /\ payments[p].status = "PENDING"
    <3>1. payments'[q] = Processed(payments[q], st)
      BY <1>2, <2>2 DEF ApplyProcessingResult
    <3>2. payments[q].approved_by = NoUser
      BY <1>0, <2>2 DEF Explained
    <3>3. /\ payments'[q].status = st /\ payments'[q].approved_by = NoUser
          /\ payments'[q].sender = payments[q].sender
      BY <1>0, <3>1, <3>2 DEF Row, Processed
    <3>4. st # "ABSENT"
      BY DEF ResultStatus
    <3> QED
      BY <1>0, <2>1, <2>2, <3>2, <3>3, <3>4 DEF Explained
  <2>3. CASE ~ (q = p /\ payments[p].status = "PENDING")
    <3>1. payments'[q] = payments[q]
      BY <1>2, <2>3 DEF ApplyProcessingResult
    <3> QED
      BY <1>0, <2>1, <3>1 DEF Explained
  <2> QED
    BY <2>2, <2>3
<1>3. ASSUME NEW p \in Payment, NEW b \in Banker, NEW st \in Decision,
             DecidePayment(p, b, st)
      PROVE  Explained(q)'
  <2>1. CASE q = p
    <3>1. /\ payments'[q].status = st /\ payments'[q].approved_by = b
          /\ payments'[q].sender = payments[q].sender
      BY <1>0, <1>3, <2>1 DEF DecidePayment, Decided, Row
    <3>2. audit_log[q] =
            <<[user |-> payments[q].sender, action |-> "CREATE_PAYMENT"]>>
      BY <1>0, <1>3, <2>1 DEF DecidePayment, Explained
    <3>3. audit_log'[q] =
            <<[user |-> payments[q].sender, action |-> "CREATE_PAYMENT"],
              [user |-> b, action |-> BankerAction(st)]>>
      <4>1. audit_log'[q] = Append(audit_log[q],
              [user |-> b, action |-> BankerAction(st)])
        BY <1>3, <2>1 DEF DecidePayment
      <4>2. /\ [user |-> b, action |-> BankerAction(st)] \in Entry
            /\ [user |-> payments[q].sender, action |-> "CREATE_PAYMENT"] \in Entry
        <5>1. b \in User /\ BankerAction(st) \in Action
          BY StoreAssumption, WrittenValuesTyped DEF StoreAssumption
        <5>2. audit_log[q][1] =
                [user |-> payments[q].sender, action |-> "CREATE_PAYMENT"]
          BY <3>2
        <5>3. audit_log[q][1] \in Entry
          BY <1>0, <3>2, ElementOfSeq, 1 \in 1 .. Len(audit_log[q])
        <5> QED
          BY <5>1, <5>2, <5>3 DEF Entry
      <4> QED
        BY <3>2, <4>1, <4>2, SecondEntry
    <3>4. b # NoUser /\ st \notin {"ABSENT", "PENDING", "COMPLETED"}
      BY StoreAssumption DEF StoreAssumption, Decision
    <3> QED
      BY <3>1, <3>3, <3>4 DEF Explained
  <2>2. CASE q # p
    <3>1. payments'[q] = payments[q] /\ audit_log'[q] = audit_log[q]
      BY <1>3, <2>2 DEF DecidePayment
    <3> QED
      BY <1>0, <3>1 DEF Explained
  <2> QED
    BY <2>1, <2>2
<1>4. ASSUME UNCHANGED storeVars
      PROVE  Explained(q)'
  BY <1>0, <1>4 DEF storeVars, Explained
<1> QED
  BY <1>1, <1>2, <1>3, <1>4 DEF StoreNext

\* An audit trail of one or two entries mentions a banker's decision exactly
\* when the row of the payment carries it.
LEMMA AuditedIsDecided ==
  ASSUME StoreTypeOK, \A p \in Payment : Explained(p),
         NEW b \in Banker, NEW st \in Decision
  PROVE  Audited(b, st) = {p \in DecidedBy(b) : payments[p].status = st}
<1> DEFINE e == [user |-> b, action |-> BankerAction(st)]
<1>0. b # NoUser /\ st # "ABSENT"
  BY StoreAssumption DEF StoreAssumption, Decision
<1>1. ASSUME NEW p \in Payment, payments[p].approved_by = b,
             payments[p].status = st
      PROVE  p \in Audited(b, st)
  <2> DEFINE created == [user |-> payments[p].sender, action |-> "CREATE_PAYMENT"]
  <2>0. audit_log[p] = <<created, e>>
    BY <1>0, <1>1, Explained(p) DEF Explained
  <2> HIDE DEF created, e
  <2>1. Len(audit_log[p]) = 2 /\ audit_log[p][2] = e
    BY <2>0
  <2> QED
    BY <2>1 DEF Audited, e
<1>2. ASSUME NEW p \in Payment, NEW i \in 1 .. Len(audit_log[p]),
             audit_log[p][i] = e
      PROVE  payments[p].approved_by = b /\ payments[p].status = st
  <2> DEFINE row == payments[p]
  <2> DEFINE created == [user |-> row.sender, action |-> "CREATE_PAYMENT"]
  <2>0. e # created
    BY DEF BankerAction
  <2>1. CASE row.status = "ABSENT"
    <3>1. audit_log[p] = <<>>
      BY <2>1, Explained(p) DEF Explained
    <3> QED
      BY <1>2, <3>1
  <2>2. CASE row.status # "ABSENT" /\ row.approved_by = NoUser
    <3>1. audit_log[p] = <<created>>
      BY <2>2 DEF Explained
    <3> QED
      BY <1>2, <2>0, <3>1
  <2>3. CASE row.status # "ABSENT" /\ row.approved_by # NoUser
    <3> DEFINE decided == [user |-> row.approved_by,
                           action |-> BankerAction(row.status)]
    <3>1. row.status \in Decision /\ audit_log[p] = <<created, decided>>
      BY <2>3 DEF Explained
    <3>2. e = decided
      <4>1. i = 1 \/ i = 2
        BY <1>2, <3>1
      <4> QED
        BY <1>2, <2>0, <3>1, <4>1
    <3>3. b = row.approved_by /\ BankerAction(st) = BankerAction(row.status)
      BY <3>2
    <3>4. st = row.status
      BY <3>1, <3>3 DEF BankerAction, Decision
    <3> QED
      BY <3>3, <3>4
  <2> QED
    BY <2>1, <2>2, <2>3
<1> QED
  BY <1>1, <1>2 DEF Audited, DecidedBy

\* For any number of payments and bankers the audit log explains every row.
THEOREM AuditAlwaysExplains == StoreSpec => []AuditExplainsStatus
<1> DEFINE IInv == StoreTypeOK /\ \A p \in Payment : Explained(p)
<1>1. StoreInit => IInv
  BY WrittenValuesTyped DEF StoreInit, StoreTypeOK, Explained, Absent
<1>2. IInv /\ [StoreNext]_storeVars => IInv'
  BY StoreTypeStep, ExplainedStep
<1>3. IInv => AuditExplainsStatus
  BY ExplainedIsAuditExplainsStatus
<1> QED
  BY <1>1, <1>2, <1>3, PTL DEF StoreSpec

\* The statistics of every banker agree with the audit log and add up.
THEOREM StatsAlwaysMatch == StoreSpec => []StatsMatchAudit
<1> DEFINE IInv == StoreTypeOK /\ \A p \in Payment : Explained(p)
<1>1. StoreInit => IInv
  BY WrittenValuesTyped DEF StoreInit, StoreTypeOK, Explained, Absent
<1>2. IInv /\ [StoreNext]_storeVars => IInv'
  BY StoreTypeStep, ExplainedStep
<1>3. IInv => StatsMatchAudit
  <2> SUFFICES ASSUME IInv, NEW b \in Banker
               PROVE  /\ \A st \in Decision :
                           CountDecided(b, st) = Cardinality(Audited(b, st))
                      /\ Cardinality(DecidedBy(b)) =
                           CountDecided(b, "APPROVED") + CountDecided(b, "REJECTED")
    BY DEF StatsMatchAudit
  <2>1. \A st \in Decision : CountDecided(b, st) = Cardinality(Audited(b, st))
    BY AuditedIsDecided DEF CountDecided
  <2> DEFINE A == {p \in DecidedBy(b) : payments[p].status = "APPROVED"}
             R == {p \in DecidedBy(b) : payments[p].status = "REJECTED"}
  <2>2. IsFiniteSet(A) /\ IsFiniteSet(R)
    BY StoreAssumption, FS_Subset DEF StoreAssumption, DecidedBy
  <2>3. DecidedBy(b) = A \cup R
    <3>1. \A p \in DecidedBy(b) : payments[p].status \in Decision
      BY StoreAssumption DEF StoreAssumption, DecidedBy, Explained
    <3> QED
      BY <3>1 DEF Decision
  <2>4. A \cap R = {}
    OBVIOUS
  <2>5. Cardinality(DecidedBy(b)) = Cardinality(A) + Cardinality(R)
    <3>1. Cardinality(A \cap R) = 0
      BY <2>4, FS_EmptySet
    <3>2. Cardinality(A) \in Nat /\ Cardinality(R) \in Nat
      BY <2>2, FS_CardinalityType
    <3>3. Cardinality(A \cup R) =
            Cardinality(A) + Cardinality(R) - Cardinality(A \cap R)
      BY <2>2, FS_Union
    <3> HIDE DEF A, R
    <3> QED
      BY <2>3, <3>1, <3>2, <3>3
  <2> QED
    BY <2>1, <2>5 DEF CountDecided
<1> QED
  BY <1>1, <1>2, <1>3, PTL DEF StoreSpec

-----------------------------------------------------------------------------
\* What FinalIsFinal says of one payment in one step.
Kept(p) ==
  /\ payments[p].status \in Final => payments'[p] = payments[p]
  /\ payments[p].status # "ABSENT" =>
       /\ payments'[p].status # "ABSENT"
       /\ \A col \in {"sender", "recipient", "amount"} :
            payments'[p][col] = payments[p][col]

\* Neither the worker's update nor a banker's touches a settled payment.
LEMMA KeptStep ==
  ASSUME StoreTypeOK, [StoreNext]_storeVars, NEW q \in Payment
  PROVE  Kept(q)
<1> USE DEF StoreTypeOK
<1>0. payments[q] \in Row
  OBVIOUS
<1>1. ASSUME NEW p \in Payment, NEW s \in User, NEW r \in User,
             NEW a \in Amount, CreatePayment(p, s, r, a)
      PROVE  Kept(q)
  BY <1>1 DEF CreatePayment, Kept, Absent, Final
<1>2. ASSUME NEW p \in Payment, NEW st \in ResultStatus,
             ApplyProcessingResult(p, st)
      PROVE  Kept(q)
  <2>1. CASE q = p /\ payments[p].status = "PENDING"
    <3>1. payments'[q] = Processed(payments[q], st)
      BY <1>2, <2>1 DEF ApplyProcessingResult
    <3>2. /\ payments'[q].status = st /\ st # "ABSENT"
          /\ payments'[q].sender = payments[q].sender
          /\ payments'[q].recipient = payments[q].recipient
          /\ payments'[q].amount = payments[q].amount
      BY <1>0, <3>1 DEF Processed, Row, ResultStatus
    <3> QED
      BY <2>1, <3>2 DEF Kept, Final
  <2>2. CASE ~ (q = p /\ payments[p].status = "PENDING")
    <3>1. payments'[q] = payments[q]
      BY <1>2, <2>2 DEF ApplyProcessingResult
    <3> QED
      BY <3>1 DEF Kept
  <2> QED
    BY <2>1, <2>2
<1>3. ASSUME NEW p \in Payment, NEW b \in Banker, NEW st \in Decision,
             DecidePayment(p, b, st)
      PROVE  Kept(q)
  <2>1. CASE q = p
    BY <1>0, <1>3, <2>1
    DEF DecidePayment, Decided, Kept, Row, Final, Decision
  <2>2. CASE q # p
    BY <1>3, <2>2 DEF DecidePayment, Kept
  <2> QED
    BY <2>1, <2>2
<1>4. ASSUME UNCHANGED storeVars
      PROVE  Kept(q)
  BY <1>4 DEF storeVars, Kept
<1> QED
  BY <1>1, <1>2, <1>3, <1>4 DEF StoreNext

\* A settled payment is settled for good, and rows stay what they are about.
THEOREM SettledIsSettled == StoreSpec => FinalIsFinal
<1>1. StoreTypeOK /\ [StoreNext]_storeVars =>
        [\A p \in Payment :
           /\ payments[p].status \in Final => payments'[p] = payments[p]
           /\ payments[p].status # "ABSENT" =>
                /\ payments'[p].status # "ABSENT"
                /\ \A col \in {"sender", "recipient", "amount"} :
                     payments'[p][col] = payments[p][col]]_storeVars
  BY KeptStep DEF Kept
<1> QED
  BY <1>1, StoreTypeCorrect, PTL DEF StoreSpec, FinalIsFinal

-----------------------------------------------------------------------------
\* A row is settled only by a statement that also sets processed_at, and a row
\* that is not there has no columns.
RowsOK ==
  \A p \in Payment :
    /\ payments[p].status \in Final => payments[p].processed
    /\ payments[p].status = "ABSENT" => payments[p] = Absent

\* In every step a row that exists stays, and a processed row stays processed.
LEMMA RowsStep ==
  ASSUME StoreTypeOK, RowsOK, [StoreNext]_storeVars, NEW q \in Payment
  PROVE  /\ payments'[q].status \in Final => payments'[q].processed
         /\ payments'[q].status = "ABSENT" => payments'[q] = Absent
         /\ payments[q].processed => payments'[q].processed
         /\ payments[q].status # "ABSENT" => payments'[q].status # "ABSENT"
<1> DEFINE Goal == /\ payments'[q].status \in Final => payments'[q].processed
                   /\ payments'[q].status = "ABSENT" => payments'[q] = Absent
                   /\ payments[q].processed => payments'[q].processed
                   /\ payments[q].status # "ABSENT" => payments'[q].status # "ABSENT"
<1>0. /\ payments[q] \in Row /\ payments \in [Payment -> Row]
      /\ payments[q].status \in Final => payments[q].processed
      /\ payments[q].status = "ABSENT" => payments[q] = Absent
  BY DEF StoreTypeOK, RowsOK
<1>1. ASSUME payments'[q] = payments[q]
      PROVE  Goal
  BY <1>0, <1>1
<1>2. ASSUME NEW s \in User, NEW r \in User, NEW a \in Amount,
             CreatePayment(q, s, r, a)
      PROVE  Goal
  BY <1>0, <1>2 DEF CreatePayment, NewRow, Absent, Final
<1>3. ASSUME NEW st \in ResultStatus, ApplyProcessingResult(q, st)
      PROVE  Goal
  <2>1. CASE payments[q].status = "PENDING"
    <3>0. payments'[q] = Processed(payments[q], st)
      BY <1>0, <1>3, <2>1 DEF ApplyProcessingResult
    <3>1. payments'[q].processed = TRUE /\ payments'[q].status = st
      BY <1>0, <3>0 DEF Processed, Row
    <3> QED
      BY <3>1 DEF ResultStatus
  <2>2. CASE payments[q].status # "PENDING"
    BY <1>1, <1>3, <2>2 DEF ApplyProcessingResult
  <2> QED
    BY <2>1, <2>2
<1>4. ASSUME NEW b \in Banker, NEW st \in Decision, DecidePayment(q, b, st)
      PROVE  Goal
  <2>0. payments'[q] = Decided(payments[q], b, st)
    BY <1>0, <1>4 DEF DecidePayment
  <2>1. payments'[q].processed = TRUE /\ payments'[q].status = st
    BY <1>0, <2>0 DEF Decided, Row
  <2> QED
    BY <2>1 DEF Decision
<1>5. ASSUME NEW p \in Payment, p # q,
             \/ \E s \in User, r \in User, a \in Amount : CreatePayment(p, s, r, a)
             \/ \E st \in ResultStatus : ApplyProcessingResult(p, st)
             \/ \E b \in Banker, st \in Decision : DecidePayment(p, b, st)
      PROVE  Goal
  <2>1. payments'[q] = payments[q]
    BY <1>0, <1>5 DEF CreatePayment, ApplyProcessingResult, DecidePayment
  <2> QED
    BY <1>1, <2>1
<1>6. CASE UNCHANGED storeVars
  BY <1>1, <1>6 DEF storeVars
<1> QED
  BY <1>2, <1>3, <1>4, <1>5, <1>6 DEF StoreNext

\* The rows of every run of the store.
LEMMA RowsAlwaysOK == StoreSpec => [](StoreTypeOK /\ RowsOK)
<1>1. StoreInit => StoreTypeOK /\ RowsOK
  BY WrittenValuesTyped DEF StoreInit, StoreTypeOK, RowsOK, Absent, Final
<1>2. StoreTypeOK /\ RowsOK /\ [StoreNext]_storeVars => StoreTypeOK' /\ RowsOK'
  BY StoreTypeStep, RowsStep DEF RowsOK
<1> QED
  BY <1>1, <1>2, PTL DEF StoreSpec
=============================================================================
