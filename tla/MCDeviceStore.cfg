\* One caller at a time, as the command line uses the store: crashes and
\* failing file operations at every step of `persist`, restarts with and
\* without a seeded admin.
SPECIFICATION Spec
CONSTANTS
    Threads = {t1}
    Devices = {d1, d2}
    Pubs = {k1, k2}
    NodeIds = {n1}
    Seeds = {d1}
    SeedPub = k1
    Inodes <- MCInodes
    None = None
INVARIANT TypeOK
PROPERTY AdminRemains
PROPERTY AdminKeyFixed
PROPERTY OperatorSurvives
PROPERTY AckedIsDurable
