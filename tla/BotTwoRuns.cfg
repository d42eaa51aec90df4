SPECIFICATION BotSpec
CONSTANTS
    r1 = r1
    r2 = r2
    alice = alice
    bob = bob
    Runners = {r1, r2}
    Users = {alice}
    MaxEvents = 6
    MaxRefusals = 0
    MaxRetries = 1
INVARIANT WizardConsistent
CHECK_DEADLOCK FALSE
