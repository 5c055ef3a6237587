\* Two hosts that may make any of three streams depend on any, itself included, under
\* fairness.  The system really may stop: crossed calls deadlock.
CONSTANTS
    s1 = s1  s2 = s2  s3 = s3  h1 = h1  h2 = h2  b1 = b1
    Hosts = {h1, h2}
    Streams = {s1, s2, s3}
    Buffers = {b1}
    HostMemory = {}
    Descriptors = {}
    Dependencies <- AnyCalls
    MaxTasks <- ThreeStreams
SPECIFICATION FairSpec
INVARIANTS TypeOK KnownDone OnlyCrossedDeadlock
PROPERTY CallsReturn
CHECK_DEADLOCK FALSE
