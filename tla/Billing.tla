--------------------------------- MODULE Billing ---------------------------------
(***************************************************************************)
(* BillingService: the billing record of a completed case, its amounts,    *)
(* and the settlements claimed against it.                                 *)
(*                                                                         *)
(* The amounts of a request are checked against the row it read, and the   *)
(* UPDATE coalesces the columns it brings into the row as it is by then;   *)
(* only the total is written each time.                                    *)
(*                                                                         *)
(* A body brings any decimal, and what is checked and added up is what it  *)
(* brings; the columns are numeric(12,2), and each is rounded to whole     *)
(* cents on its own.  Amounts are counted in units of 1/Cent of a cent.    *)
(* The doubles the code adds are off by far less than a unit, which only   *)
(* matters where a sum lies half way between two cents.                    *)
(***************************************************************************)
EXTENDS CaseStore, Integers

CONSTANTS Settlements,       \* ids of table settlement_records
          Cent,              \* units of a cent: 1 if bodies bring whole cents
          BillingInputs,     \* [status, amounts, total] of POST and PATCH
          SettlementInputs   \* [amount, status] of POST and PATCH

VARIABLES billing,           \* the committed billing row of each case
          settlement         \* the committed row of each settlement id

BillingStatuses == {"draft", "pending_review", "approved", "submitted", "settled", "cancelled"}
SettlementStatuses == {"pending", "submitted", "completed", "rejected"}
OpenSettlement == {"pending", "submitted"}

(* The columns a total is the sum of, and those it must cover.             *)
BaseColumns == {"labor", "parts", "transport", "additional"}
SourceColumns == {"warranty", "charge", "claim"}
Columns == BaseColumns \cup SourceColumns
Base(a) == a["labor"] + a["parts"] + a["transport"] + a["additional"]
Sources(a) == a["warranty"] + a["charge"] + a["claim"]

(* moneySchema has a minimum of 0, so no amount is Omitted.                *)
Omitted == -1
InputAmounts == Nat \cup {Omitted}
Or(amount, default) == IF amount = Omitted THEN default ELSE amount

ASSUME BillingAssumption ==
  /\ Cent \in Nat \ {0}
  /\ BillingInputs \subseteq
       [status : BillingStatuses \cup {"null"}, amounts : [Columns -> InputAmounts],
        total : InputAmounts]
  /\ SettlementInputs \subseteq
       [amount : InputAmounts, status : SettlementStatuses \cup {"null"}]

(* An amount of a body is stored as the nearest number of whole cents, the *)
(* higher one if it lies half way.  A sum that lies half way is a double   *)
(* that may print a little below or above, and is stored as either.        *)
Half == Cent \div 2
Round(x) == x + Half - ((x + Half) % Cent)
Nearest(x) == {y \in (x - Half .. x + Half) \cap Nat : y % Cent = 0}

BillingRows == [status : BillingStatuses, amounts : [Columns -> Nat], total : Nat]
SettlementRows == [case : Cases, amount : Nat, status : SettlementStatuses]
NoBilling == [status |-> "absent"]
NoSettlement == [status |-> "absent"]

billingVars == <<billing, settlement>>
billingSpecVars == <<caseRow, tx, billingVars>>

BillingReadyStatuses == {"completed", "closed"}

(* calculateTotal, on amounts that are all given but the total, and what   *)
(* total_amount is from it.                                                *)
CalculateTotal(in) == Or(in.total, Base(in.amounts))
StoredTotals(in) ==
  IF in.total = Omitted THEN Nearest(CalculateTotal(in)) ELSE {Round(CalculateTotal(in))}

(* The comparison of validateBillingAmounts; a slip drops it.              *)
AnyCharge(in) == TRUE
AmountsValid(in) == Sources(in.amounts) <= CalculateTotal(in)

(* What a POST or a PATCH is checked with: the body, with its gaps filled  *)
(* from 0 or from the row it read; never its total.                        *)
Zeros == [status |-> "draft", amounts |-> [k \in Columns |-> 0], total |-> 0]
Merged(in, row) ==
  [in EXCEPT !.amounts = [k \in Columns |-> Or(in.amounts[k], row.amounts[k])]]

(* updateBillingRecord: coalesce of each column into the current row; the  *)
(* slip leaves the total out.                                              *)
StoredAmount(amount, old) == IF amount = Omitted THEN old ELSE Round(amount)
KeepTotal(row, set) ==
  [status |-> Coalesce(set.status, row.status),
   amounts |-> [k \in Columns |-> StoredAmount(set.amounts[k], row.amounts[k])],
   total |-> row.total]
UpdatedBilling(row, set) ==
  [status |-> Coalesce(set.status, row.status),
   amounts |-> [k \in Columns |-> StoredAmount(set.amounts[k], row.amounts[k])],
   total |-> set.total]

BillingRequests ==
  [op : {"createBilling", "updateBilling"}, case : Cases,
   set : [status : BillingStatuses \cup {"null"}, amounts : [Columns -> InputAmounts],
          total : Nat]]
  \cup [op : {"createSettlement"}, case : Cases, amount : Nat, status : SettlementStatuses]
  \cup [op : {"updateSettlement"}, id : Settlements, amount : InputAmounts,
        status : SettlementStatuses]
-------------------------------------------------------------------------------
BillingInit ==
  /\ InitCases
  /\ billing = [c \in Cases |-> NoBilling]
  /\ settlement = [x \in Settlements |-> NoSettlement]

(* createBillingRecord: ensureCaseReadyForBilling, the read of an existing *)
(* record and the amounts.  The slip bills a case in any status.           *)
ReadAnyCaseForBilling(s, c, in) ==
  /\ tx[s] = Idle
  /\ billing[c] = NoBilling
  /\ AmountsValid(Merged(in, Zeros))
  /\ \E total \in StoredTotals(Merged(in, Zeros)) :
       Continue(s, [op |-> "createBilling", case |-> c, set |-> [in EXCEPT !.total = total]])
  /\ UNCHANGED <<caseRow, billingVars>>
ReadCaseForBilling(s, c, in) ==
  /\ tx[s] = Idle
  /\ caseRow[c].status \in BillingReadyStatuses
  /\ billing[c] = NoBilling
  /\ AmountsValid(Merged(in, Zeros))
  /\ \E total \in StoredTotals(Merged(in, Zeros)) :
       Continue(s, [op |-> "createBilling", case |-> c, set |-> [in EXCEPT !.total = total]])
  /\ UNCHANGED <<caseRow, billingVars>>

(* The INSERT; the unique index refuses a second record of the case.       *)
CommitCreateBilling(s) ==
  LET c == tx[s].case IN
  /\ tx[s].op = "createBilling"
  /\ billing[c] = NoBilling
  /\ billing' = [billing EXCEPT ![c] = UpdatedBilling(Zeros, tx[s].set)]
  /\ Release(s)
  /\ UNCHANGED <<caseRow, settlement>>

(* updateBillingAmounts: a total the body does not give is the sum of the  *)
(* amounts it read, even when the stored one was given.                    *)
ReadBilling(s, c, in) ==
  /\ tx[s] = Idle
  /\ billing[c] # NoBilling
  /\ AmountsValid(Merged(in, billing[c]))
  /\ \E total \in StoredTotals(Merged(in, billing[c])) :
       Continue(s, [op |-> "updateBilling", case |-> c, set |-> [in EXCEPT !.total = total]])
  /\ UNCHANGED <<caseRow, billingVars>>

CommitUpdateBilling(s) ==
  LET c == tx[s].case IN
  /\ tx[s].op = "updateBilling"
  /\ billing' = [billing EXCEPT ![c] = UpdatedBilling(@, tx[s].set)]
  /\ Release(s)
  /\ UNCHANGED <<caseRow, settlement>>

(* submitSettlement: validateSettlementAmount against the total it read.   *)
ReadForSettlement(s, c, in) ==
  /\ tx[s] = Idle
  /\ billing[c] # NoBilling
  /\ in.amount \in 0 .. billing[c].total
  /\ Continue(s, [op |-> "createSettlement", case |-> c, amount |-> in.amount,
                  status |-> IF in.status = "null" THEN "submitted" ELSE in.status])
  /\ UNCHANGED <<caseRow, billingVars>>

(* The INSERT, then the billing record becomes submitted, whatever it was  *)
(* and whatever the settlement's status is.                                *)
CommitSettlement(s) ==
  LET c == tx[s].case IN
  /\ tx[s].op = "createSettlement"
  /\ \E x \in Settlements :
       /\ settlement[x] = NoSettlement
       /\ settlement' = [settlement EXCEPT ![x] =
            [case |-> c, amount |-> Round(tx[s].amount), status |-> tx[s].status]]
  /\ billing' = [billing EXCEPT ![c].status = "submitted"]
  /\ Release(s)
  /\ UNCHANGED caseRow

(* markSettlementCompleted, which serves every PATCH of a settlement: a    *)
(* body without a status completes it.                                     *)
ReadSettlement(s, x, in) ==
  /\ tx[s] = Idle
  /\ settlement[x] # NoSettlement
  /\ in.amount <= billing[settlement[x].case].total
  /\ Continue(s, [op |-> "updateSettlement", id |-> x, amount |-> in.amount,
                  status |-> IF in.status = "null" THEN "completed" ELSE in.status])
  /\ UNCHANGED <<caseRow, billingVars>>

CommitUpdateSettlement(s) ==
  LET x == tx[s].id IN
  /\ tx[s].op = "updateSettlement"
  /\ settlement' = [settlement EXCEPT ![x].amount = StoredAmount(tx[s].amount, @),
                                      ![x].status = tx[s].status]
  /\ billing' = IF tx[s].status = "completed"
                  THEN [billing EXCEPT ![settlement[x].case].status = "settled"]
                  ELSE billing
  /\ Release(s)
  /\ UNCHANGED caseRow

RollbackBilling(s) ==
  /\ tx[s].op \in {"createBilling", "updateBilling", "createSettlement", "updateSettlement"}
  /\ Release(s)
  /\ UNCHANGED <<caseRow, billingVars>>

BillingStep(s) ==
  \/ \E c \in Cases, in \in BillingInputs :
       ReadCaseForBilling(s, c, in) \/ ReadBilling(s, c, in)
  \/ CommitCreateBilling(s)
  \/ CommitUpdateBilling(s)
  \/ \E c \in Cases, in \in SettlementInputs : ReadForSettlement(s, c, in)
  \/ CommitSettlement(s)
  \/ \E x \in Settlements, in \in SettlementInputs : ReadSettlement(s, x, in)
  \/ CommitUpdateSettlement(s)
  \/ RollbackBilling(s)

BillingNext == \E s \in Sessions : BillingStep(s)
BillingSpec == BillingInit /\ [][BillingNext]_billingSpecVars
-------------------------------------------------------------------------------
(* The error of validateBillingAmounts on stored rows: the source amounts  *)
(* exceed the total by no more than three columns rounded up and a total   *)
(* rounded down, two cents; not at all if bodies bring whole cents.  True  *)
(* of one session.                                                         *)
ChargeNearTotal ==
  \A c \in Cases : billing[c] # NoBilling =>
    Sources(billing[c].amounts) <= billing[c].total + 4 * Half

(* docs/task-039: the total is calculated from the component amounts, and  *)
(* is their sum but for what rounding four columns and a total makes of it.*)
(* True of one session whose bodies, like the panel's, give no total.      *)
NearSum(row) == row.total \in Base(row.amounts) - 5 * Half .. Base(row.amounts) + 5 * Half
TotalNearSum == \A c \in Cases : billing[c] # NoBilling => NearSum(billing[c])

(* What makes both inductive with one session: the amounts a request was   *)
(* checked with are, but for their rounding, the ones its row will have.   *)
Storing(s) ==
  UpdatedBilling(IF tx[s].op = "createBilling" THEN Zeros ELSE billing[tx[s].case], tx[s].set)
BillingSerial ==
  /\ ChargeNearTotal
  /\ \A s \in Sessions : tx[s].op \in {"createBilling", "updateBilling"} =>
       Sources(Storing(s).amounts) <= Storing(s).total + 4 * Half
SumSerial ==
  /\ TotalNearSum
  /\ \A s \in Sessions : tx[s].op \in {"createBilling", "updateBilling"} => NearSum(Storing(s))
===============================================================================
