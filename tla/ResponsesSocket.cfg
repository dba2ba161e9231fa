SPECIFICATION FairSpec
CONSTANTS
  Formats <- MCFormats
  Serials = 2
  MaxEvents = 3
  ProbeLimit = 2
  RestoreLimit = 1
  TeeLimit = 1
  MaxBeats = 1
INVARIANTS
  OneAnswer
  EndsOnce
PROPERTY
  StreamEnds
