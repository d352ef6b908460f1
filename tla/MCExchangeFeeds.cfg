SPECIFICATION Spec
CONSTANTS
  Markets <- MCMarkets
  ChannelList <- MCChannelList
  BookChannel = "books15"
  MaxBreaks = 2
  MaxIgnored = 1
  MaxWire = 2
  PrivateChannels <- MCPrivateChannels
  MaxPrivateBreaks = 2
  MaxAuthTimeouts = 1
INVARIANTS NoStaleDepth DeadLinkNoticed
PROPERTIES MirrorsExchange FeedSettles PrivateFeedSettles
CHECK_DEADLOCK FALSE
