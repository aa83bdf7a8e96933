SPECIFICATION Spec
CONSTANTS
  a1 = a1
  a2 = a2
  inv = inv
  Attempts = {a1, a2}
  Invoices = {inv}
  InvoiceOf <- SameInvoice
  Fallback = {}
  RetryFor <- RetryMixed
  CheckAge = 2
  Sweep = Sweep
  None = None
  MaxCrashes = 1
  MaxDrops = 0
  MaxStoreFails = 0
INVARIANT NoFreeDelivery
