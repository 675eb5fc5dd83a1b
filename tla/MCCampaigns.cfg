SPECIFICATION CampaignSpec
CONSTANTS
    i1 = i1
    r1 = r1
    r2 = r2
    a = a
    b = b
    c = c
    Jobs <- MCJobs
    Requests <- MCRequests
    Attempts <- MCAttempts
    Failures <- MCFailures
    MaxFaults = 2
    Runs <- MCRuns
    Due <- MCDue
    Customers <- MCCustomers
    MaxNotices = 1
    MaxVersions = 1
    Operated <- MCOperated
INVARIANTS
    DispatchTypeOK
    JobsAreKept
    ContactsAreTold
PROPERTIES
    AcceptedEnds
CHECK_DEADLOCK FALSE
