----------------------------- MODULE MCCampaigns -----------------------------
EXTENDS Campaigns

CONSTANTS i1, r1, r2, a, b, c

\* One invoice due by one step of the rule; one customer in the area.
MCDue == {<<i1, "first">>}
MCCustomers == {1}
MCJobs == CollectionJobs \union NoticeJobs
MCRuns == {r1, r2}
MCCalls == {a, b, c}
MCRequests == (MCRuns \X MCJobs) \union (MCCalls \X {NoticeJob(1, "opened")})

MCOperated == NoticeJobs

\* The notice of an incident's begin uses up both its attempts; that of its end
\* goes out, unless workers die with it.
MCAttempts == [j \in MCJobs |-> IF j \in NoticeJobs THEN 2 ELSE 1]
MCFailures == [j \in MCJobs |-> IF j = NoticeJob(1, "opened") THEN 2 ELSE 0]
=============================================================================
