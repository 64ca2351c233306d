\* A HEAD that could not be saved.
SPECIFICATION CommitsSpec
CONSTANTS
    Pollers = {p1}
    MaxCommits = 2
    LogLimit = 2
INVARIANTS
    NeverToldTwice
