------------------------------ MODULE MCBilling -----------------------------
(***************************************************************************)
(* What the company is billed and what it bills: payment requests, the     *)
(* accounts they are paid from, invoices, and with whom.  The services     *)
(* write different tables, so a behaviour of them together is one of each, *)
(* and TLC explores them one at a time: `part' says which.  Customers and  *)
(* suppliers are explored twice, by themselves and with contracts.         *)
(***************************************************************************)
EXTENDS PaymentRequests, TLC

VARIABLES
    part,
    account, used, accountReq,
    invoice, disk, lost, invoiceReq, amountWithTax, highest,
    party, contract, unchecked, contested, partyReq

Accounts == INSTANCE BankAccounts WITH req <- accountReq
Invoicing == INSTANCE Invoices WITH req <- invoiceReq
Parties == INSTANCE Counterparties
               WITH req <- partyReq, Contract <- {}, ContractBatches <- {},
                    ContractAmounts <- {}, Batches <- {}
Sides == INSTANCE Counterparties
             WITH req <- partyReq, Credit <- {}, PartyBatches <- {}, Verdicts <- {}

accountVars == <<account, used, accountReq>>
invoiceVars == <<invoice, disk, lost, invoiceReq, amountWithTax, highest>>
partyVars == <<party, contract, unchecked, contested, partyReq>>
allVars == <<part, vars, accountVars, invoiceVars, partyVars>>

\* Two rows of which a contract of 1 takes one; each comes with a file, or the second
\* without.
CONSTANTS n1, n2
RowOf(no, amount, upload) ==
    [contract |-> CHOOSE c \in Contract : TRUE, no |-> no, amount |-> amount, upload |-> upload]
SentBatches ==
    {<<RowOf(n1, 1, TRUE), RowOf(n2, 1, TRUE)>>, <<RowOf(n2, 1, TRUE), RowOf(n1, 1, FALSE)>>}

\* A row that has everything; and a purchase that a second row turns into a sale.
SentParties == {<<[name |-> n1, code |-> 1, credit |-> n2]>>}
SentContracts ==
    {<<[no |-> CHOOSE c \in Contract : TRUE, name |-> n1, sales |-> FALSE],
       [no |-> CHOOSE c \in Contract : TRUE, name |-> n1, sales |-> TRUE]>>}

\* Ids carry no order; handlers are alike.
Symmetry == Permutations(Worker) \cup Permutations(Request) \cup Permutations(Content)

-----------------------------------------------------------------------------
InitAll ==
    /\ part \in {"payment requests", "bank accounts", "invoices", "parties", "sides"}
    /\ Init
    /\ Accounts!Init
    /\ Invoicing!Init
    /\ part # "invoices" =>
          \A c \in Contract : amountWithTax[c] = CHOOSE amount \in ContractAmounts : TRUE
    /\ Parties!Init

NextOfOne ==
    \/ /\ part = "payment requests"
       /\ Next
       /\ UNCHANGED <<part, accountVars, invoiceVars, partyVars>>
    \/ /\ part = "bank accounts"
       /\ Accounts!Next
       /\ UNCHANGED <<part, vars, invoiceVars, partyVars>>
    \/ /\ part = "invoices"
       /\ Invoicing!Next
       /\ UNCHANGED <<part, vars, accountVars, partyVars>>
    \/ /\ part = "parties"
       /\ Parties!Next
       /\ UNCHANGED <<part, vars, accountVars, invoiceVars>>
    \/ /\ part = "sides"
       /\ Sides!Next
       /\ UNCHANGED <<part, vars, accountVars, invoiceVars>>

SpecAll == InitAll /\ [][NextOfOne]_allVars

-----------------------------------------------------------------------------
\* Every table and every handler is as its module says; the other properties
\* of PaymentRequests are checked as they stand.
TypesOK ==
    /\ TypeOK
    /\ Accounts!TypeOK
    /\ Invoicing!TypeOK
    /\ IF part = "sides" THEN Sides!TypeOK ELSE Parties!TypeOK

\* What overlapping requests exceed, they exceed by no more than their number
\* allows: the default accounts (see BankAccounts) and what is invoiced on a
\* contract (see Invoices).
ExcessBounded == Accounts!DefaultsBounded /\ Invoicing!InvoicedBounded

\* See Invoices.
AttachmentsExist == Invoicing!AttachmentsExist

\* See Counterparties.
CustomerKnown == Sides!CustomerKnown
CreditUnlessContested == Parties!CreditUnlessContested

=============================================================================
