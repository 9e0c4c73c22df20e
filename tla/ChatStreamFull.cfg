\* Repeated requests and their telemetry, under the fairness of the publisher.
SPECIFICATION FairSpec
CONSTANTS
  Requests = {s1, s2, s3, q}
  Streams = {s1, s2, s3}
  Ids = {i}
  IdOf <- MCIdOf
  Keys = {"CHAT_TURN", "SECURITY"}
  Anonymous = {s3}
  MaxQueue = 3
  BatchSize = 2
  TTL = 1
  Faults = {"abandon"}
INVARIANTS OneStreamPerId NothingVanishes InOrder OncePerRequest
PROPERTIES BatchesKeepGoing
CHECK_DEADLOCK FALSE
