SPECIFICATION Spec
CONSTANTS
    AMVP_RETRY_TIME_MIN = 5
    AMVP_RETRY_TIME_MAX = 20
    AMVP_MAX_WAIT_TIME = 120
    AMVP_RETRY_MODIFIER_MAX = 10
    AMVP_RETRY_TIME = 8
    UINT_MOD = 65536
    Periods <- ScaledPeriods
    Modifiers = {1}
INVARIANT SleepsSumToMaximum
