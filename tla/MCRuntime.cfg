SPECIFICATION RuntimeSpec
CONSTANTS
  MaxTxs = 6
  PageSize = 2
  MaxFailures = 2
  safe1 = safe1  safe2 = safe2  grpc = grpc
  Safes = {safe1, safe2}
  Handlers = {grpc}
  PoolSizes = {2, 3, 4}
  MaxTimeouts = 2
  scan_ledger = scan_ledger  http_server = http_server
  get_block_audit_data = get_block_audit_data
  Procs = {scan_ledger, http_server, get_block_audit_data}
  Scanners = {scan_ledger}
  MaxBlocks = 2
  MaxCrashes = 2
INVARIANT
  FetchCoversListing
  PoolSuffices
  CountersSurviveStarts
PROPERTY
  ListedTxsAreRecorded
  RoundsEnd
  EveryoneOpensInTheEnd
CHECK_DEADLOCK FALSE
