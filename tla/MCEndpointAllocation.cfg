SPECIFICATION MeasureSpec
CONSTANTS
  Recipes <- MCRecipes
  MaxNodes = 9
  None = None
  WatchesOf <- MCWatchesOf
INVARIANTS
  PlacementSound
  EnginesSound
  AddressesApart
  ReadOnce
  ClientPlaced
  ProfiledAsAsked
CHECK_DEADLOCK FALSE
