\* Three modules: a first, a middle and a last one to start, roll back and stop.
CONSTANT NumModules = 3
SPECIFICATION FairSpec
INVARIANTS
    TypeOK
    DependenciesReady
    ListenerToldOnce
    ReverseShutdown

    
    
\* init and close both come to an end.
CHECK_DEADLOCK FALSE
