SPECIFICATION CommandSpec
CONSTANTS
    Models <- SmallAndFlat
    Targets <- ZeroAndThree
    Sizes <- Uneven
    Top = 3
    UsizeMax = 50
INVARIANT LargestPrefix
INVARIANT RoutesWhenAligned
CHECK_DEADLOCK FALSE
