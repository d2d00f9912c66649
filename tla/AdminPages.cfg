\* Two tabs, two accounts that share a browser, and up to two artists each.
CONSTANTS
    None = None
    Artists = {1, 2}
    Users = {u1, u2}
    Songs = {s1}
    Tabs = {t1, t2}
    SessionLifetime = 1
    MaxTime = 2
SPECIFICATION Spec
SYMMETRY PageSymmetry
PROPERTIES
    StrayWritesHaveACause
    WritesFollowOnesOwnChoice
\* The clock is bounded.
CHECK_DEADLOCK FALSE
