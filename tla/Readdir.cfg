SPECIFICATION Spec
CONSTANTS
  Name = {a, b, c}
  Self = self
  Parent = parent
  NoName = none
  MaxSlots = 5
INVARIANTS TypeOK ListedOnce
PROPERTY ListingEnds
