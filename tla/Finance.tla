------------------------------ MODULE Finance ------------------------------
(***************************************************************************)
(* Expenses and the financial ledger (finance.service.ts).  The ledger is  *)
(* written here for expenses and other income, and by the documents for    *)
(* what they collect and refund; the summary reads the ledger alone.  An   *)
(* entry is its amount, filed under what it refers to.                     *)
(***************************************************************************)
EXTENDS Integers, Sequences, FiniteSets

CONSTANTS
  Expense,
  Clerk,        \* sessions that edit or remove expenses
  Source,       \* documents that collect or refund money
  OtherIncome,  \* what entries without a document are filed under
  MaxMoney,     \* bound on an amount of money
  MaxEntries    \* bound on the entries of other income

ASSUME FinanceAssumption ==
  /\ MaxMoney \in Nat /\ MaxEntries \in Nat
  /\ Expense \cap Source = {} /\ OtherIncome \notin Expense \cup Source

VARIABLES
  expenses,  \* Expense rows
  entries,   \* FinancialTransaction amounts, per reference
  reading    \* what a clerk's request has read of the expense it will write

financeVars == <<expenses, entries, reading>>

Reference == Expense \cup Source \cup {OtherIncome}

NoExpense == [status |-> "NONE", amount |-> 0]
NotReading == [expense |-> OtherIncome, amount |-> 0]

FinanceInit ==
  /\ expenses = [e \in Expense |-> NoExpense]
  /\ entries = [x \in Reference |-> <<>>]
  /\ reading = [c \in Clerk |-> NotReading]

(* financialTransaction.create, in the transaction that moves the money.   *)
Book(x, amount) == entries' = [entries EXCEPT ![x] = Append(@, amount)]

CreateExpense(e, amount) ==
  /\ expenses[e].status = "NONE"
  /\ expenses' = [expenses EXCEPT ![e] = [status |-> "RECORDED", amount |-> amount]]
  /\ Book(e, amount)
  /\ UNCHANGED reading

(* updateExpense and removeExpense read the expense before they open their *)
(* transaction.                                                            *)
ReadExpense(c, e) ==
  /\ reading[c] = NotReading
  /\ expenses[e].status = "RECORDED"
  /\ reading' = [reading EXCEPT ![c] = [expense |-> e, amount |-> expenses[e].amount]]
  /\ UNCHANGED <<expenses, entries>>

StopReading(c) == reading' = [reading EXCEPT ![c] = NotReading]

(* An edit that names an amount writes it to the row and to its entries;   *)
(* one that does not leaves the row's and writes the one it read.          *)
WriteExpense(c, rowAmount, entryAmount) ==
  LET e == reading[c].expense
  IN /\ expenses' = [expenses EXCEPT ![e].amount = rowAmount]
     /\ entries' = [entries EXCEPT ![e] = [i \in DOMAIN @ |-> entryAmount]]
     /\ StopReading(c)

StillThere(c) ==
  reading[c] # NotReading /\ expenses[reading[c].expense].status = "RECORDED"

CorrectAmount(c, amount) == StillThere(c) /\ WriteExpense(c, amount, amount)

CorrectTheRest(c) ==
  /\ StillThere(c)
  /\ WriteExpense(c, expenses[reading[c].expense].amount, reading[c].amount)

(* Mutant: the entry outlives its expense.                                 *)
RemoveRowOnly(c) ==
  /\ StillThere(c)
  /\ expenses' = [expenses EXCEPT ![reading[c].expense] = [status |-> "REMOVED", amount |-> 0]]
  /\ StopReading(c)
  /\ UNCHANGED entries

RemoveExpense(c) ==
  /\ StillThere(c)
  /\ expenses' = [expenses EXCEPT ![reading[c].expense] = [status |-> "REMOVED", amount |-> 0]]
  /\ entries' = [entries EXCEPT ![reading[c].expense] = <<>>]
  /\ StopReading(c)

(* Somebody removed it since: the UPDATE or DELETE finds no row and the    *)
(* transaction rolls back.  So does a crash, and a deadlock between an     *)
(* edit and a removal, which lock row and entries in opposite orders.      *)
AbandonExpense(c) ==
  /\ reading[c] # NotReading
  /\ StopReading(c)
  /\ UNCHANGED <<expenses, entries>>

RecordOtherIncome(amount) ==
  /\ Len(entries[OtherIncome]) < MaxEntries
  /\ Book(OtherIncome, amount)
  /\ UNCHANGED <<expenses, reading>>

FinanceNext ==
  \/ \E amount \in 1..MaxMoney :
       \/ \E e \in Expense : CreateExpense(e, amount)
       \/ \E c \in Clerk : CorrectAmount(c, amount)
       \/ RecordOtherIncome(amount)
  \/ \E c \in Clerk :
       \/ \E e \in Expense : ReadExpense(c, e)
       \/ CorrectTheRest(c)
       \/ RemoveExpense(c)
       \/ AbandonExpense(c)

ExpensesSpec == FinanceInit /\ [][FinanceNext]_financeVars

(* What the summary adds up, cent by cent: the entries filed under some    *)
(* references.                                                             *)
Cents(x) == UNION {{i} \X (1..entries[x][i]) : i \in DOMAIN entries[x]}

Summed(X) == Cardinality(UNION {{x} \X Cents(x) : x \in X})

----------------------------------------------------------------------------
(* Properties.                                                             *)

(* An expense that stands has exactly one ledger entry, and one that was   *)
(* removed "leaves no trace of either", however edits and removals that    *)
(* read it beforehand interleave: the summary never counts an expense      *)
(* twice, or one that was taken back.  It counts entries and looks at no   *)
(* amount, which EntryDescribesExpense does.                               *)
ExpenseHasOneEntry ==
  \A e \in Expense :
    Len(entries[e]) = IF expenses[e].status = "RECORDED" THEN 1 ELSE 0

(* What the comment on updateExpense says: it "keeps its ledger entry      *)
(* describing the same thing".                                             *)
EntryDescribesExpense ==
  \A e \in Expense :
    expenses[e].status = "RECORDED" => entries[e] = <<expenses[e].amount>>

=============================================================================
