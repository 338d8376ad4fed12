SPECIFICATION FairSpec
CONSTANT Goroutine = {g1, g2, g3}
INVARIANTS TypeOK NoDoubleClose NobodyUnreachable WaitGroupCounts
PROPERTIES WaitSeesCheckers ToldStops ImplementsTaskGroup
