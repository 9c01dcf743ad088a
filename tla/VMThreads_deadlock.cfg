CONSTANTS
    Main = Main
    SubThreads = {t1, t2}
    Vars = {x1}
    Nobody = Nobody
    MaxMainOps = 1
    MaxOps = 1
    Programs = {"rebuild"}
SPECIFICATION Spec
CHECK_DEADLOCK FALSE
INVARIANTS
    NoCircularWait
