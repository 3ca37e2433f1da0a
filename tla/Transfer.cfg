SPECIFICATION Spec
CONSTANTS
  Coin <- MCCoin
  Sats <- MCSats
  Asset <- MCAsset
  Index = {0}
  Amounts <- MCAmounts
  Fees = {0, 1, 30}
  Giveaways = {2}
  Word = 32
  MaxTransfers = 1
INVARIANTS
  BitcoinConserved
  AssetChangeIsSealed
  FewestCoins
CHECK_DEADLOCK FALSE
