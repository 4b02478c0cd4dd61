SPECIFICATION Spec
CONSTANTS
  LastTime = 3
  MaxChannels = 30
  Bounds <- MCBounds
INVARIANTS
  NoneMissed
  ViewsAgree
  SleepersMissNothing
  ChannelsAreApart
  MaxChannelIsExact
