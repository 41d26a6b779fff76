----------------------------- MODULE RentPayments -----------------------------
(***************************************************************************)
(* Rent invoices, the payments made on them and the income they post:      *)
(* apps/api/src/modules/diocese/accommodation.service.ts, createInvoice    *)
(* and recordPayment.  The database keeps amounts in whole coins, 0.01;    *)
(* what a caller pays may be any number of at least a coin.                *)
(***************************************************************************)
EXTENDS AccommodationCalls, Integers, Functions

CONSTANTS
  Totals,       \* what an invoice may come to
  Amounts,      \* what a payment may be
  NoInvoice, NoPayment

\* An amount a caller names, with any number of decimals: the coins the database rounds it
\* to, half a coin upwards, and on which side of them it lies.
Money    == [coins: Nat, side: {"below", "at", "above"}]
Invoices == [total: Nat, paid: Nat, status: {"ISSUED", "PARTIAL", "PAID"}]
Payments == [of: Requests, amount: Nat, posted: BOOLEAN]

ASSUME RentAmounts ==
  Totals \subseteq Nat /\ Amounts \subseteq Money /\ \A a \in Amounts : a.coins > 0
ASSUME RentNulls   == NoInvoice \notin Invoices /\ NoPayment \notin Payments

VARIABLES
  invoice,   \* AccommodationRentInvoice
  payment,   \* AccommodationRentPayment
  income,    \* FinanceTransaction: the amount a request posted, 0 for none
  about,     \* the invoice a payment is for, and the amount the caller named
  read,      \* the paid amount the request found
  lost       \* history: the invoices with a payment recorded over another

rentLocals == <<about, read>>
rentVars   == <<invoice, payment, income, pc, rentLocals, lost>>

PaymentsOf(i) == {p \in Requests : payment[p] # NoPayment /\ payment[p].of = i}
Received(i)   ==
  FoldFunctionOnSet(+, 0, [p \in PaymentsOf(i) |-> payment[p].amount], PaymentsOf(i))

-----------------------------------------------------------------------------
(* POST /accommodation/rent/invoices *)

\* The sum of its charges, in the coins it is stored and read back in.
CreateInvoice(r) ==
  /\ pc[r] = "idle"
  /\ \E t \in Totals : invoice' = [invoice EXCEPT ![r] = [total |-> t, paid |-> 0, status |-> "ISSUED"]]
  /\ Goto(r, "done")
  /\ UNCHANGED <<payment, income, rentLocals, lost>>

-----------------------------------------------------------------------------
(* POST /accommodation/rent/payments *)

\* What is held and compared is the amount itself; what is stored is its coins.
Sum(paid, a)     == [coins |-> paid + a.coins, side |-> a.side]
AtMost(a, limit) == IF a.side = "above" THEN a.coins < limit ELSE a.coins <= limit
Reaches(a, goal) == IF a.side = "below" THEN a.coins > goal ELSE a.coins >= goal

\* A payment may be a coin more than what is left.
Accepted(inv, a) == AtMost(a, inv.total - inv.paid + 1)

CheckBalance(r) ==
  /\ pc[r] = "idle"
  /\ \E i \in Requests, a \in Amounts :
       /\ invoice[i] # NoInvoice
       /\ about' = [about EXCEPT ![r] = <<i, a>>]
       /\ read' = [read EXCEPT ![r] = invoice[i].paid]
       /\ Goto(r, IF Accepted(invoice[i], a) THEN "post" ELSE "failed")
  /\ UNCHANGED <<invoice, payment, income, lost>>

\* The income is posted when the invoice has a parish and an account is named or
\* found; this query is outside the transaction that follows.
PostIncome(r) ==
  /\ pc[r] = "post"
  /\ \/ income' = [income EXCEPT ![r] = about[r][2].coins]
     \/ UNCHANGED income
  /\ Goto(r, "record")
  /\ UNCHANGED <<invoice, payment, rentLocals, lost>>

\* Mutant: the coin of rounding settles an invoice too.
StatusNear(newPaid, total) == IF Reaches(newPaid, total - 1) THEN "PAID" ELSE "PARTIAL"

\* The status is decided on the sum before it is rounded.
StatusOf(newPaid, total) == IF Reaches(newPaid, total) THEN "PAID" ELSE "PARTIAL"

\* Mutant: the payment is written, and the amount alone becomes the paid amount.
RecordAmount(r) ==
  LET i == about[r][1]  a == about[r][2]  newPaid == Sum(0, a) IN
  /\ pc[r] = "record"
  /\ payment' = [payment EXCEPT ![r] = [of |-> i, amount |-> a.coins, posted |-> income[r] # 0]]
  /\ invoice' = [invoice EXCEPT ![i].paid = newPaid.coins,
                                ![i].status = StatusOf(newPaid, invoice[i].total)]
  /\ lost' = IF invoice[i].paid = read[r] THEN lost ELSE lost \cup {i}
  /\ Goto(r, "done")
  /\ UNCHANGED <<income, rentLocals>>

\* Mutant: every payment claims to be posted.
RecordPosted(r) ==
  LET i == about[r][1]  a == about[r][2]  newPaid == Sum(read[r], a) IN
  /\ pc[r] = "record"
  /\ payment' = [payment EXCEPT ![r] = [of |-> i, amount |-> a.coins, posted |-> TRUE]]
  /\ invoice' = [invoice EXCEPT ![i].paid = newPaid.coins,
                                ![i].status = StatusOf(newPaid, invoice[i].total)]
  /\ lost' = IF invoice[i].paid = read[r] THEN lost ELSE lost \cup {i}
  /\ Goto(r, "done")
  /\ UNCHANGED <<income, rentLocals>>

\* The transaction: the payment, and the invoice from the amount found earlier.
RecordPayment(r) ==
  LET i == about[r][1]  a == about[r][2]  newPaid == Sum(read[r], a) IN
  /\ pc[r] = "record"
  /\ payment' = [payment EXCEPT ![r] = [of |-> i, amount |-> a.coins, posted |-> income[r] # 0]]
  /\ invoice' = [invoice EXCEPT ![i].paid = newPaid.coins,
                                ![i].status = StatusOf(newPaid, invoice[i].total)]
  /\ lost' = IF invoice[i].paid = read[r] THEN lost ELSE lost \cup {i}
  /\ Goto(r, "done")
  /\ UNCHANGED <<income, rentLocals>>

-----------------------------------------------------------------------------
\* A query that fails (a number drawn from the clock twice breaks a unique index),
\* a restart or a lost connection ends a request.
AbortRent(r) ==
  /\ r \in Abortable
  /\ pc[r] \in {"post", "record"}
  /\ Goto(r, "failed")
  /\ UNCHANGED <<invoice, payment, income, rentLocals, lost>>

RentInit ==
  /\ invoice = [i \in Requests |-> NoInvoice]
  /\ payment = [p \in Requests |-> NoPayment]
  /\ income = [r \in Requests |-> 0]
  /\ pc = [r \in Requests |-> "idle"]
  /\ about = [r \in Requests |-> <<r, [coins |-> 0, side |-> "at"]>>]
  /\ read = [r \in Requests |-> 0]
  /\ lost = {}

RentNext == \E r \in Requests :
  CreateInvoice(r) \/ CheckBalance(r) \/ PostIncome(r) \/ RecordPayment(r) \/ AbortRent(r)

RentSpec == RentInit /\ [][RentNext]_rentVars

-----------------------------------------------------------------------------
(* Properties *)

\* Every table, and what each request holds, has the type the code gives it.
RentTypeOK ==
  /\ invoice \in [Requests -> Invoices \cup {NoInvoice}]
  /\ payment \in [Requests -> Payments \cup {NoPayment}]
  /\ income \in [Requests -> Nat]
  /\ pc \in [Requests -> {"idle", "post", "record", "done", "failed"}]
  /\ about \in [Requests -> Requests \X Money]
  /\ read \in [Requests -> Nat]
  /\ lost \subseteq Requests

\* recordPayment (768-791): however payments race, an invoice claims at most what was
\* received, is ISSUED exactly when nothing was, and PAID only when all of it was.
PaidIsReceived ==
  \A i \in Requests : invoice[i] # NoInvoice =>
    /\ invoice[i].paid <= Received(i)
    /\ invoice[i].status = "ISSUED" <=> PaymentsOf(i) = {}
    /\ invoice[i].status = "PAID" => Received(i) >= invoice[i].total

\* While no two payments on an invoice overlap, its paid amount is what was received, at
\* most a coin over the total, and its status says whether it is settled (720-724,
\* 782-790).  The one exception is in the code, which compares before the database rounds:
\* a last payment of 99.995 leaves an invoice PARTIAL that received its whole 100.00.
RoundedUpTo(i, n) ==
  \E p \in PaymentsOf(i) : about[p][2].side = "below" /\ read[p] + about[p][2].coins = n
SettledExactly ==
  \A i \in Requests \ lost : invoice[i] # NoInvoice =>
    /\ invoice[i].paid = Received(i)
    /\ invoice[i].paid <= invoice[i].total + 1
    /\ invoice[i].status = "PAID" => Received(i) >= invoice[i].total
    /\ invoice[i].status = "PARTIAL" =>
         \/ Received(i) < invoice[i].total
         \/ Received(i) = invoice[i].total /\ RoundedUpTo(i, Received(i))

\* The accounts never miss a rent receipt that names an income entry (729-766); the
\* entries without a receipt are those of requests that did not get to it.
ReceiptsPosted ==
  \A r \in Requests :
    /\ payment[r] # NoPayment => income[r] = IF payment[r].posted THEN payment[r].amount ELSE 0
    /\ payment[r] = NoPayment /\ income[r] # 0 => pc[r] \in {"record", "failed"}
===============================================================================
