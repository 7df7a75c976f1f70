\* Requests and deliveries on one provider of one org, while two clients poll the video.
CONSTANTS
  h1 = h1
  h2 = h2
  h3 = h3
  video = video
  audience = audience
  p1 = p1
  p2 = p2
  e1 = e1
  e2 = e2
  job1 = job1
  box = box
  acme = acme
  Handlers = {h1, h2, h3}
  Jobs <- MCJobs
  Async <- MCAsync
  Pollers <- MCPollers
  Polled <- MCPolled
  Accounts = {box, acme}
  Sandbox = box
  Events = {e1, e2}
  ExtOf <- MCExtOf
  MaxCrashes = 1
  NoConn = NoConn
  None = None
SPECIFICATION JobSpec
INVARIANTS
  JobTypeOK
  VaultReadableUnlessRaced
  EventRecordedOnce
  JobsLeaveATrace
PROPERTY EveryJobSettles
CHECK_DEADLOCK FALSE
