SPECIFICATION Spec
CONSTANTS
  Handlers = {h1, h2}
  Ids = {i1, i2}
  Payloads = {p1, p2}
  TxCap = 1
  TxTTL = 1
  StartupLease = 2
  NoHandler = NoHandler
  NoTx = NoTx
  NoReceipt = NoReceipt
INVARIANTS PreflightHoldsGate SlotReserved
PROPERTIES ReceiptKept ReplayNeverLaunches ImplementsGate GateOpens
