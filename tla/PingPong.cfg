\* The two threads of test_thread counting to six.
SPECIFICATION Spec
CONSTANTS
    Threads = {"foo", "bar"}
    Conditions = {"foo", "bar"}
    WakeAll = FALSE
    MaxSpurious = 2
    Nobody = Nobody
    Limit = 6
INVARIANTS
    Outcome
    NoLostWakeup
PROPERTIES
    NoLostIncrement
    Termination
