------------------------------ MODULE Billing -------------------------------
(***************************************************************************)
(* The constants of PaymentRequests, BankAccounts, Invoices and            *)
(* Counterparties.                                                         *)
(***************************************************************************)
EXTENDS Naturals, Sequences, FiniteSets

CONSTANTS
    Worker,    \* request handlers that can be in flight at one time
    None       \* SQL NULL

\* Payment requests
CONSTANTS
    Request,   \* payment request ids
    Content,   \* what a request may be about: amount, payee, account
    LastNo,    \* the greatest number of the width of a number (9999)
    MaxTries   \* attempts to insert under a generated number (8)

ASSUME PaymentRequestConstants ==
    /\ None \notin Request \cup Content
    /\ IsFiniteSet(Request)
    /\ LastNo \in Nat \ {0}
    /\ MaxTries \in Nat \ {0}

\* Bank accounts
CONSTANT
    Account    \* bank account ids

ASSUME BankAccountConstants == IsFiniteSet(Worker) /\ None \notin Account \cup BOOLEAN

\* Invoices
CONSTANTS
    Invoice,   \* invoice ids
    Contract,  \* contracts
    No,        \* numbers printed on invoices
    Amounts,   \* amounts of an invoice
    ContractAmounts,   \* what amountWithTax of a contract may be
    File,      \* files that can be stored (uuids)
    Batches    \* the rows of the imports that clients send

\* A row to be imported; upload: does it come with a file to be kept?
ImportRow == [contract : Contract, no : No, amount : Amounts, upload : BOOLEAN]

ASSUME InvoiceConstants ==
    /\ None \notin Invoice \cup File
    /\ IsFiniteSet(Worker) /\ IsFiniteSet(Invoice)
    /\ Amounts \subseteq Nat \ {0}
    /\ ContractAmounts \subseteq Nat
    /\ Batches \subseteq Seq(ImportRow)

\* Customers, suppliers and the contracts with them
CONSTANTS
    Party,           \* customer and supplier ids
    Name,            \* names of companies
    Credit,          \* unified social credit codes
    Verdicts,        \* how an approver may judge a customer: APPROVED, REJECTED
    Foreign,         \* a code that is no number under the prefix and sorts last
    PartyBatches,    \* the rows of the imports of customers and of suppliers
    ContractBatches  \* the rows of the imports of contracts

Unsent == "unsent"   \* a column that an update does not send

Code == 1 .. LastNo + 1 \cup {Foreign}
Brought == 1 .. LastNo \cup {Foreign}   \* a longer number is none, or sorts in between
PartyInput == [name : Name, code : Brought \cup {None}, credit : Credit \cup {None}]
ContractInput == [no : Contract, name : Name, sales : BOOLEAN]

ASSUME CounterpartyConstants ==
    /\ None \notin Party \cup Name \cup Credit \cup Contract \cup {Foreign} \cup BOOLEAN
    /\ Foreign \notin Nat
    /\ Unsent \notin Credit \cup {None}
    /\ PartyBatches \subseteq Seq(PartyInput)
    /\ ContractBatches \subseteq Seq(ContractInput)

=============================================================================
