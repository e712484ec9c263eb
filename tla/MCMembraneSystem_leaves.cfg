CONSTANTS
    Depth = 3
    MaxObjects = 2
    InjectTypes <- FilterInjectTypes
    InjectTargets <- FilterInjectTargets
    ObjCharge <- MCObjCharge
    ObjMob <- MCObjMob
SPECIFICATION FairSpec
PROPERTY SignalsReachLeaves
