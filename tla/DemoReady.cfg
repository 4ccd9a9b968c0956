SPECIFICATION DemoSpec
CHECK_DEADLOCK FALSE
CONSTANTS
  NRuns = 2
  RoleOrder <- MCRoleOrder
  MinBuyerBalanceCents = 2
  MinProviderLiquidityCents = 1
  BuyerTopUpAmount = 2
  RawMinimumSweep = 1
  FaucetPays = 1
  WalletOrder <- MCWalletOrder
  Required <- MCRequired
  USDIWallets <- MCUSDIWallets
  demoFaucetMaxAttempts = 2
  demoUSDIFaucetRequestAttempts = 1
  MaxFaucetRounds = 1
  MaxIncidents = 1
  MaxDeposits = 2

  
PROPERTIES
  
  
  EveryRunReturns
