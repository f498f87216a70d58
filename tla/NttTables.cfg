CONSTANTS
    q1 = q1
    q2 = q2
    Threads = {t1, t2}
    Moduli = {q1, q2}
    Dims <- MCDims
    Roots = {"r1", "r2"}
    Chains <- MCChains
    Jobs <- MCJobs
    NoOne = NoOne
    MaxCalls = 3
SPECIFICATION Spec
INVARIANTS TablesAgree MisuseExplained
PROPERTIES RefillKeepsTables EveryCallReturns
CHECK_DEADLOCK FALSE
