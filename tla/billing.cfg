CONSTANTS
    None = None
    Worker = {w1, w2}
    Request = {i1, i2}
    Content = {x1, x2}
    LastNo = 2
    MaxTries = 3
    Account = {i1, i2, i3}
    Invoice = {i1, i2, i3}
    Contract = {c1}
    No = {n1, n2}
    Amounts = {1}
    ContractAmounts = {1, 2}
    File = {f1}
    n1 = n1
    n2 = n2
    Batches <- SentBatches
    Party = {i1, i2}
    Name = {n1}
    Credit = {n2}
    Verdicts = {"APPROVED", "REJECTED"}
    Foreign = Foreign
    PartyBatches <- SentParties
    ContractBatches <- SentContracts
SPECIFICATION SpecAll
SYMMETRY Symmetry
INVARIANTS TypesOK RetriesAreLosses OutdatedIsDropped ExcessBounded AttachmentsExist CustomerKnown CreditUnlessContested
PROPERTIES FlowKept
