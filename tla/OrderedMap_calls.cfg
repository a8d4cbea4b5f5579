\* Two maps of up to three keys and four nodes together.
CONSTANTS
  Nothing = Nothing
  Maps = {a, b}
  Keys = {1, 2, 3}
  Data = {d, e}
  MaxNodes = 4
SPECIFICATION FairSpec
INVARIANTS SavedIsRight SearchIsRight
PROPERTIES ImplementsKeyedStore SearchesEnd
