SPECIFICATION Spec
CONSTANTS
    w1 = w1
    w2 = w2
    Withdrawals = {w1, w2}
    Amount <- TwoAmounts
    Threshold = 2
    Opening = 5
    MaxAttempts = 1
    MaxSends = 1
    DailyCountLimit = 2
    MaxCrashes = 0
    Workers = {r1, r2}
INVARIANT BooksBalance
