\* Two threads of one process persist at the same time.
SPECIFICATION Spec
CONSTANTS
    Threads = {t1, t2}
    Devices = {d1, d2}
    Pubs = {k1}
    NodeIds = {}
    Seeds = {}
    SeedPub = k1
    Inodes <- MCInodes
    None = None
PROPERTY OperatorSurvives
