SPECIFICATION McFairSpec
CONSTANTS
  Task <- McTask
  Sound <- McSound
  Reader <- McReader
  Prio <- McPrio
  Command <- McCommand
  Helper = "spi_pump"
  Itask = "data_pump"
INVARIANTS
  TypeOK
  ReplyIsMine
  
PROPERTIES
  GetReturns
