CONSTANTS
  Types <- MCTypes
  Scalars <- MCScalars
  Message <- MCMessage
  Messages <- MCMessages
  Fragments <- MCFragments
  MaxSent = 2
  MaxKinds = 1
  MaxStray = 1
  MaxFlight = 2
  QueueLimit = 2
SPECIFICATION Spec
INVARIANTS TypeOK ValuesUnderTheirNames RecordingIsTheStream
