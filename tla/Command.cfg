SPECIFICATION Spec
CONSTANT Parts = {"config", "path", "run", "mounts", "rewrite"}
INVARIANTS
    
    PathIsKept
    
    
    
CHECK_DEADLOCK FALSE
