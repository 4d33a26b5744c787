SPECIFICATION Spec
CONSTANTS
    Week = 2
    Horizon = 4
    VoidGap = 1
    LastDay = 12
INVARIANT LateQuestionIsVoid
