CONSTANTS
  Text <- MCText
  Empty = ""
  Substr <- MCSubstr
  Slashed <- MCSlashed
  Bookings <- MCBookings
  MaxObjects = 4
  Characters <- MCCharacters
  FieldTexts <- MCFieldTexts
SPECIFICATION Spec
INVARIANTS
  TypeOK
  OneDayPerDate
  FiledUnderItsDate
  OrderedObjects
  LoopReadsLiveObjects
  RemovesOldestOfEachKey
  FileMatchesMemory
  FileIsPrefix
  FileIsLoadable
