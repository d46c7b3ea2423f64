SPECIFICATION TablePageSpec
CONSTANTS
  tk1 = tk1  tk2 = tk2
  safe1 = safe1  safe2 = safe2  usd = usd  eur = eur  junk = junk
  h1 = h1  h2 = h2  h3 = h3  h4 = h4
  k1 = k1  k2 = k2
  s1 = s1  s2 = s2
  Tokens = {tk1, tk2}
  EthAddrs = {safe1, usd, junk}
  EthTxHashes = {h1, h2, h3}
  PublicKeys = {k1, k2}
  Signers = {s1}
  MaxU64 = 15
  Config <- OneSafe
  Procs = {1}
  MaxFailures = 0
  Blocks <- PageBlocks
  MaxBlocks = 2
  AuditsGnosis = TRUE
  ApiTxs <- PageApi
  PageLimit = 1
  PageToken = tk1
INVARIANTS
  MintsAreListedOnce
  BurnsAreListedOnce
  PagesFitTogether
