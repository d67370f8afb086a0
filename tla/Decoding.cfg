CONSTANT Schema <- MCSchema
SPECIFICATION Spec
INVARIANTS SentArrives RecoversToOmission
PROPERTIES VariantIsKept
CHECK_DEADLOCK FALSE
