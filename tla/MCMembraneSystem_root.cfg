CONSTANTS
    Depth = 3
    MaxObjects = 3
    InjectTypes <- FilterInjectTypes
    InjectTargets <- FilterInjectTargets
    ObjCharge <- MCObjCharge
    ObjMob <- MCObjMob
SPECIFICATION Spec
INVARIANT RootOnlyReach
