\* Two hosts, two streams, two buffers, one piece of host memory and one descriptor.
CONSTANTS
    s1 = s1  s2 = s2  s3 = s3  h1 = h1  h2 = h2  b1 = b1  b2 = b2  m1 = m1  d1 = d1
    Hosts = {h1, h2}
    Streams = {s1, s2}
    Buffers = {b1, b2}
    HostMemory = {m1}
    Descriptors = {d1}
    Dependencies <- OneWay
    MaxTasks <- TwoStreams
SPECIFICATION Spec
INVARIANT NoUseAfterFree
SYMMETRY BufferSymmetry
