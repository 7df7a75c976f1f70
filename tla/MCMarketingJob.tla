--------------------------- MODULE MCMarketingJob ---------------------------
(* Constants of MarketingJob for TLC: a video that two clients poll and an   *)
(* audience, over a sandbox or an account, and two events of one external id *)
(* as Higgsfield sends them for one job.                                     *)
EXTENDS MarketingJob, TLC

CONSTANTS h1, h2, h3, box, acme, video, audience, p1, p2, e1, e2, job1

MCJobs == {video, audience}
MCAsync == {video}
MCPollers == {p1, p2}
MCPolled == p1 :> video @@ p2 :> video
MCExtOf == e1 :> job1 @@ e2 :> job1
=============================================================================
