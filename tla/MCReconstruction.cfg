SPECIFICATION Spec
CONSTANTS
    Videos = {"a", "b"}
    MaxRuns = 3
    MaxCrashes = 2
    MaxErrors = 2
INVARIANT TypeOK CloudIsOfTheRun ActiveMeansRunning
PROPERTY ResultStays
CHECK_DEADLOCK FALSE
