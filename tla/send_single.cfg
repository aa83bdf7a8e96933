SPECIFICATION FairSpec
CONSTANTS
  a1 = a1
  a2 = a2
  inv = inv
  Attempts = {a1}
  Invoices = {inv}
  InvoiceOf <- SameInvoice
  Fallback = {a1}
  RetryFor <- RetryMixed
  CheckAge = 2
  Sweep = Sweep
  None = None
  MaxCrashes = 2
  MaxDrops = 1
  MaxStoreFails = 2
INVARIANTS
  TypeOK
  RefundsBoundedByFaults
  FeeRefundedOnce
  PaidOnce
PROPERTIES
  Escrowed
  TrackedResolves
