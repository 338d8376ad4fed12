\* Two chunk streams; messages of none, one chunk or several; times that fit
\* into the field and times that need the extended one.
SPECIFICATION FairSpec
CONSTANTS
  CsId = {3, 4}
  StreamId = {0, 1}
  Type = {"media"}
  Length = {1, 3}
  Size = {1, 2}
  FirstSize = 1
  Marker = 2
  MaxTime = 2
INVARIANTS
  TypeOK
  DecodedAsSent
  InStep
PROPERTY
  EveryMessageDelivered
