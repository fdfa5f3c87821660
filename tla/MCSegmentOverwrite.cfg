SPECIFICATION CommandSpec
CONSTANTS
    Models <- SmallModels
    Targets <- ZeroAndThree
    Sizes <- TwoOrFive
    Top = 3
    UsizeMax = 50
INVARIANT EveryFunctionWritten
CHECK_DEADLOCK FALSE
