CONSTANTS
  main = main
  child = child
  agent = agent
  service = service
  Devices = {main, child}
  Main = main
  Endpoints = {agent, service}
  Agent <- TestAgent
  Sync = sync
  Payloads = {main, child, sync}
  Duration <- TestDuration
  Capacity = 2
  MaxLate = 1
  MaxUpdates = 1
SPECIFICATION FairSpec
INVARIANTS
  Monitored
PROPERTY HeartbeatsGoOn
