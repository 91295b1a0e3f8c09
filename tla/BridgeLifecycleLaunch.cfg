CONSTANT MaxCalls = 0
SPECIFICATION FairSpec
PROPERTIES LaunchReturns
