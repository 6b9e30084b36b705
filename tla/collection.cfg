CONSTANTS
  Scenarios <- AllOfThem
  Unavailable <- NeverThere
  Objects <- SomeObjects
  Late <- LateThings
  None = None
  ItemsOf <- TreeItems
  HasHole <- LacksValue
  MaxFaults = 2
SPECIFICATION FairSpec
INVARIANTS TypeOK Complete SharedIsTheData Repeatable GivesUpOnlyForGood
PROPERTIES EventuallyCollects
