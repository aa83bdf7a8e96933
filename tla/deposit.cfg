SPECIFICATION FairSpec
CONSTANTS
  h1 = h1
  h2 = h2
  t1 = t1
  a1 = a1
  Handlers = {h1, h2}
  Txs = {t1}
  Deposits <- OneOutput
  TxOf <- TxIs
  First <- FirstIs
  After <- NoMore
  Addresses = {a1}
  AddressOf <- OwnAddress
  AmountOf <- Amounts
  Watchable = {a1}
  Refs <- OneOutput
  WalletRef <- TrueRef
  ZmqRef <- TrueRef
  Ids = {1, 2, 3}
  MaxCrashes = 1
  MaxFailures = 1
  MaxExpiries = 0
  None = None
INVARIANTS CreditsBoundedByFaults ConfirmedIsMined
PROPERTY SweepsConfirm
