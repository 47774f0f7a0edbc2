CONSTANTS
    Intervals <- MCIntervals
    Deltas <- MCDeltas
SPECIFICATION Spec
INVARIANT AgeCheckMatchesReference
