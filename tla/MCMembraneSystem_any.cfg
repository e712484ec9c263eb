CONSTANTS
    Depth = 3
    MaxObjects = 3
    InjectTypes = {"token", "negative_signal", "positive_signal", "emotion_signal"}
    InjectTargets <- AnyInjectTargets
    ObjCharge <- MCObjCharge
    ObjMob <- MCObjMob
SPECIFICATION Spec
INVARIANT TypeOK
PROPERTIES NoDownflow StepConservesSignals
