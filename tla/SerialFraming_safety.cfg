SPECIFICATION Spec
CONSTANTS
  Messages <- MCMessages
  Names <- MCNames
  Need <- MCNeed
  Digits <- MCDigits
  MaxLine = 13
  MaxRx = 14
  MaxSent = 3
  None = None
INVARIANTS
  TypeOK
  ValueIsOwn
PROPERTIES
  MessagesAreDelivered
  
  WholeMessageIsHandled
