SPECIFICATION LiveSpec
CONSTANTS
  Cid = {o1, o2}
  None = None
  ReadsAccount = {o1}
  Qty = 1
  MaxRetries = 2
  MaxOrders = 1
  ReconcileEvery = 2
  Broker = "alpaca"
  Faults = {"lost_response"}
  MaxRuns = 1
  MaxCrashes = 0
PROPERTIES BrokerFillsReachTheLedger
