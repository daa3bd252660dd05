SPECIFICATION Spec
CONSTANTS
    t1 = t1
    t2 = t2
    Threads = {t1, t2}
    Calls <- CallsOf
    Click = Click
    Content = Content
    Nil = Nil
    MaxEvents = 3
    MaxId = 5
    MaxMessages = 6
INVARIANTS TypeOK UpdatesArrive InOrder SilentAfterUnsubscribe
PROPERTY ConnectionEnds
CHECK_DEADLOCK FALSE
