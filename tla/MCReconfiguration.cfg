SPECIFICATION ReconfSpec
CONSTANTS
  tk1 = tk1  tk2 = tk2
  safe1 = safe1  safe2 = safe2  usd = usd  eur = eur
  h1 = h1  h2 = h2  h3 = h3  h4 = h4
  k1 = k1  k2 = k2
  Tokens = {tk1}
  EthAddrs = {safe1, safe2, usd, eur}
  EthTxHashes = {h1, h2, h3, h4}
  PublicKeys = {k1}
  Signers = {}
  MaxU64 = 15
  OldConfig <- Before
  NewConfig <- After
  OldApiTxs <- BeforeApi
  NewApiTxs <- AfterApi
  Procs = {1}
  MaxFailures = 0
  Blocks <- ReconfBlocks
  MaxBlocks = 2
  AuditsGnosis = TRUE
INVARIANT
  AccountingSurvives
PROPERTY
  MatchesFollowConfig
