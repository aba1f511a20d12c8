SPECIFICATION TimerSpec
CONSTANTS
    Callback <- DemoCallback
    Interval <- MCInterval
    Outcome <- MCOutcome
    Resets <- MCResets
    NoTimer = NoTimer
    Wrap = 36
    Pre = 1
    Post = 5
    MAX_TIMER_NUM = 4
    Late = 4
    MaxStarts = 4
PROPERTIES
    ServiceSafety
