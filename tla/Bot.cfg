SPECIFICATION BotFairSpec
CONSTANTS
    r1 = r1
    r2 = r2
    alice = alice
    bob = bob
    Runners = {r1}
    Users = {alice, bob}
    MaxEvents = 5
    MaxRefusals = 4
    MaxRetries = 1
INVARIANTS RepliedOnce WizardConsistent TalliesMatchVotes
PROPERTIES CancelEndsRun
CHECK_DEADLOCK FALSE
