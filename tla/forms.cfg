\* Every kind of CV of every catalogue.
SPECIFICATION Spec
CONSTANTS
  None = None
  Unread = Unread
  Wrong = Wrong
  Items <- Representatives
  Samples <- Ends
  Radios <- EndRadios
  Held <- SomeHeld
  Texts <- SomeTexts
  Percents <- SomePercents
INVARIANTS
  CatalogueSound
  ListStagesAcceptable
  ShownIsPending
PROPERTIES
  OneRadioOneBit
  VolumeNeverLouder
