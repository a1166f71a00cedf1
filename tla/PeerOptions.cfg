SPECIFICATION Spec
CONSTANT MaxSteps = 5
INVARIANTS HostFollowsOptions PasswordByConsent UpdatesKept
CHECK_DEADLOCK FALSE
