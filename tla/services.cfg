SPECIFICATION ServicesSpec
CONSTANTS
  Full = 3
  Margin = 1
  InUse = 2
  Earlier <- MCEarlier
  Numbers = {"5", "78"}
  Lines <- MCLines
  MaxPending = 2
INVARIANTS
  ServicesTypeOK
  SavedOnlyWhenAsked
  SavedIsCurrent
  NoStrangePattern
  SentAsTyped
PROPERTIES
  PlaceIsKept
  RequestIsServed
  LastingPatternMoves
  PatternIsShown
