SPECIFICATION Spec
CONSTANTS
    w1 = w1
    w2 = w2
    Withdrawals = {w1}
    Amount <- OneAmount
    Threshold = 1
    Opening = 5
    MaxAttempts = 2
    MaxSends = 2
    DailyCountLimit = 2
    MaxCrashes = 1
    Workers = {r1, r2, r3}
INVARIANT AuthorisedPayout
INVARIANT BookedOnlyIfPaid
INVARIANT GuessesBounded
INVARIANT ResentOnlyAfterRollback
PROPERTY ClosedStaysClosed
PROPERTY OnlyStaleReadsUnbalance
