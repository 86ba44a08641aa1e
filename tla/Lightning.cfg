SPECIFICATION FairSpec
CONSTANTS
  alice = alice
  bob = bob
  aliceWallet = aliceWallet
  bobWallet = bobWallet
  Pubkeys = {alice, bob}
  Names = {a, b}
  Wallets = {aliceWallet, bobWallet}
  Keeper <- SmallKeeper
  Choices <- SmallChoices
  Slots = {s1, s2}
  Nobody = Nobody
  NoName = NoName
  NoWallet = NoWallet
  MaxWrites = 3
  MaxCalls = 1
  MaxMoves = 1
INVARIANTS
  TypeOK
  WalletsOfTheLineage
  ErrorsOfThisWallet
PROPERTIES
  CallbackEnds
CHECK_DEADLOCK FALSE
