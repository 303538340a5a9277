SPECIFICATION FairSpec
CONSTANTS
  n1 = n1
  n2 = n2
  c1 = c1
  c2 = c2
  h1 = h1
  topic = topic
  NoOne = NoOne
  Nodes <- MCNodes
  Conns <- MCConns
  Handlers <- MCHandlers
  NodeOf <- MCNodeOf
  Channels <- MCChannels
  BusChannels <- MCChannels
  MaxPipe = 2
  MaxPublications = 1
  MaxFailures = 1
INVARIANTS
  TypeOK
  SubscriptionTracksInterest
  AtMostOnce
  OwedIsDelivered
  AckedAndQuietIsLive
PROPERTIES
  BrokerFollowsInterest
  JoinIsAnswered
