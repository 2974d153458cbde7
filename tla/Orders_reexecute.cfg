SPECIFICATION LiveSpec
CONSTANTS
  Cid = {o1}
  None = None
  ReadsAccount = {o1}
  Qty = 2
  MaxRetries = 2
  MaxOrders = 1
  ReconcileEvery = 2
  Broker = "fake"
  Faults = {"lost_request", "lost_response", "lookup", "positions", "account"}
  MaxRuns = 3
  MaxCrashes = 2
INVARIANTS LoggedOnce
PROPERTIES ImplementsContract OpenRowsClose
