SPECIFICATION Spec
CONSTANTS
  Cid = {o1, o2}
  None = None
  ReadsAccount = {o1}
  Qty = 2
  MaxRetries = 2
  MaxOrders = 1
  ReconcileEvery = 2
  Broker = "alpaca"
  Faults = {"lost_request", "lost_response", "lookup", "positions", "account"}
  MaxRuns = 1
  MaxCrashes = 1
INVARIANTS TypeOK WriteBeforeNetwork LedgerNeverAhead NoOrphan SnapshotExplained FillsAccounted
PROPERTIES SwitchStopsOrders FinalRowsStay
