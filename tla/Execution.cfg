\* Both paths in two processes: two manual decisions under concurrent requests,
\* or an ordinary or a retired automated one; errors, crashes, duplicates,
\* retries, redeliveries and jobs lost in the buffer of a process.
CONSTANTS
    Manual = {d1, d2}
    Automated = {d3, d4}
    Retired = {d4}
    Requests = {r1, r2}
    Processes = {p1, p2}
    Messages = {m1, m2, m3}
    Together = {{d1, d2}, {d3}, {d4}}
    None = None
    MaxTries = 1
    MaxErrors = 2
    MaxCrashes = 1
SPECIFICATION FairSpec
INVARIANTS OutcomeIsRecorded JobsAreKept
PROPERTIES CommandsClose AutomatedSettles
