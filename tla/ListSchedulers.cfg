SPECIFICATION EitherSpec
CONSTANTS
  data = data  order = order
  Nodes = {1, 2, 3}
  Kinds = {data, order}
  Latencies = {0, 2}
  MaxStalls = 1
INVARIANTS LatenciesRespected DepthKept PostRAQueueExact
PROPERTY Completes
