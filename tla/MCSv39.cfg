SPECIFICATION Spec

CONSTANTS
  Width = 2
  Frames <- MCFrames
  Root = 4
  TableFrames <- MCTableFrames
  Vaddrs = {0, 6}
  Ppages = {1, 3}
  Perms <- MCPerms
  MaxCalls = 3
  None = None

INVARIANTS
  TypeOK
  NoTableLost
  UnmapFreesOnce


  
  
