\* Two threads and a coroutine, four events altogether; queues and ring of two.
SPECIFICATION FairSpec
CONSTANTS
  stream = stream
  orders = orders
  api = api
  portal = portal
  stalled = stalled
  Threads <- MCThreads
  Coroutines <- MCCoroutines
  Clients <- MCClients
  Readers <- MCReaders
  QueueSize = 2
  ActivitySize = 2
  MaxIssued = 4
INVARIANTS
  TypeOK
  PublisherOrder
PROPERTIES
  EventsArrive
  FeedDelivered
CHECK_DEADLOCK FALSE
