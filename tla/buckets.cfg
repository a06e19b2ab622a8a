SPECIFICATION MCSpec
CONSTANTS
    Passes = {loop}
    Routes = {unlock}
    Cost = 2
    Burst = 4
    Rate = 3
    Chunk = 2
    Starts = {0, 1, 3}
    MaxTime = 7
    MaxUploads = 3
INVARIANTS TypeOK GuessesAreSlow UploadsAreSlow
PROPERTY NeverShutOut
