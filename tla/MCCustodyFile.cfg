CONSTANTS
  api = api
  worker = worker
  report = report
  ingest = ingest
  job = job
  Writers = {api, worker, report}
  Bodies = {ingest, job}
  MaxEntries = 3
SPECIFICATION Spec
INVARIANTS
  SerialChainVerifies
  EveryLinkKnown
PROPERTIES
  BrokenStaysBroken
  SerialAppendsImplementChain
