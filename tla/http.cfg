CONSTANTS
  MAXLINE = 7
  RIO_BUFSIZE = 4
  MAX_OBJECT_SIZE = 10
  StackSize = 8
  Requests <- MCRequests
  UriText <- MCUriText
  Means <- MCMeans
  Servers <- MCServers
  Files <- MCFiles
SPECIFICATION FairSpec
INVARIANT ExchangeExact
PROPERTY WorkerReturns
CHECK_DEADLOCK FALSE
