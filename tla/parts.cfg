SPECIFICATION Spec
CONSTANTS
    Callers = {a, b}
    PoolSize = 3
    StatsAlone = TRUE
    Nobody = Nobody
    CacheThreads = {t1}
    ShardKeys = {s1, s2, s3}
    MaxEntries = 2
    MaxStamp = 6
    Files = {f1, f2, f3}
    Sizes = {1, 2, 5}
    MaxBytes = 4
    MaxCount = 8
    Registrars = {r1}
    Devices = {d1, d2, d3}
    Torn = Torn
    Rows = {1, 2, 3}
    BatchSize = 2
    Alphabet = {"a", "A", "han", " "}
    MaxQuery = 3
    MaxText = 3
    MessageCount = 2
    InScope = {1, 2}
    Wanted = {2}
    Limit = 2
    MaxChanges = 1
    MaxSlow = 1
    Binding = "uniffi"
    TimelineIds = {1, 2, 3}
    Times = {1, 2, 3}
    PageSize = 2
    Distinct = TRUE
    MediaIds = {p1, p2}
    HostAlone = TRUE
    SigningKeys = {k1, k2}
    Bodies = {b1, b2}
    MaxManifests = 3
    MaxProcesses = 2
    MaxLength = 5
    ChunkSizes = {0, 2, 4}
    DefaultSize = 3
    MaxFrame = 4
    IdBytes <- MCIdBytes
    Hosts = {h1}
    Cadence = 0
    MaxTime = 7
    EpochMax = 3
INVARIANTS
    TypeOK
    FilesAreKept
    StreamsAll
    SearchFinds
    TimelineIsWhole
    ManifestsTell
    ObjectsOpen
    KeysSeparate
PROPERTIES
    CallsReturn
    DropsLeastRecent
    ColumnsAdvance
