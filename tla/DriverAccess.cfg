\* Three tenants and a user created at the same time, with two faults, and an
\* ingest that uses what is reported.
CONSTANTS
    first = first
    second = second
    again = again
    add = add
    red = red
    blue = blue
    ann = ann
    bob = bob
    rig = rig
    Ingests <- OneIngest
    Unset = Unset
    TenantJobs <- ThreeTenants
    UserJobs <- OneUser
    OrgName <- OrgNames
    Username <- UserNames
    TenantID <- FirstTenant
    MaxFaults = 2
SPECIFICATION AccessSpec
INVARIANTS
    AccessTypeOK
    ReportedAccessWorks
    MuteOnlyWithoutTenant
    DashboardsShowTheirOwn
    DivergenceCostsAFault
    ReportedIsComplete
    SourcesCanLogIn
PROPERTIES ImplementsRegistry JobsEnd
\* All jobs may have ended.
CHECK_DEADLOCK FALSE
