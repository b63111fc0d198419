CONSTANTS
    r1 = r1
    r2 = r2
    r3 = r3
    h1 = h1
    h2 = h2
    NoRow = NoRow
    NoBody = NoBody
    MaxPolls = 2
    Requests <- MCRequests
    Hashes <- MCHashes
    HashOf <- MCHashOf
    Parts = {"path"}
    Writes = {"r1", "r2", "r3"}
    Contents <- MCContents
    Short = {"s"}
    Sensitive = {"p"}
    Masked <- MCMasked
    StorageCap = 1
    Worlds <- MCIngestWorlds
SPECIFICATION WritesSpec
INVARIANTS IngestAnswersTrue
