CONSTANT Timers = {t1, t2}
SPECIFICATION FairSpec
INVARIANTS Sound
PROPERTIES ImplementsTimerAbs
