SPECIFICATION MCSpec
CONSTANTS
    c1 = c1
    c2 = c2
    Clients = {c1, c2}
    Want <- MCWant
    Systems <- MCSystems
    Lines = {"l1", "l2"}
    NoLine = NoLine
    NoFd = NoFd
    FifoClients = {"f1", "f2", "f3"}
    SeqLens = {2}
    MaxEnds = 1
    MaxIn = 2
    MaxOut = 3
    Openers = {p1, p2, p3}
    Oflags = {{}, {"O_CREAT"}, {"O_TRUNC"}, {"O_CREAT", "O_TRUNC"}}
    Jobs = {"j1", "j2", "j3"}
    Searchers = {"t1"}
    NLOOPS = 6
    Blocks = 3
    argc = 4
INVARIANT LineExclusive LocksOwned StaysUp UniqueNumbers Initialised
INVARIANT NoJobLost TakesTurns Alternates
PROPERTY DialAnswers Answered FindsExactly BothEnd EofEnds
PROPERTY Completes TransferEnds JoinsAll
CHECK_DEADLOCK FALSE
