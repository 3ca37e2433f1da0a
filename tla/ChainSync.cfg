SPECIFICATION Spec
CONSTANTS
  Outpoint <- MCOutpoint
  TxOf <- MCTxOf
  ScriptOf <- MCScriptOf
  Value <- MCValue
  Asset = {1, 2}
  Amount <- MCAmount
  Tweaks <- MCTweaks
  Largest = 2
  Depths = {0, 3}
  MaxHeight = 2
  MaxReorgs = 0
INVARIANTS
  TypeOK
  SearchIsComplete
  NoSpentCoins
  AssetTotal
  CoinsAreLocated
  ZeroDepthNeverUpdates
PROPERTY
  ImplementsCoinSearch
