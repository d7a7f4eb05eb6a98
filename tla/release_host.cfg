SPECIFICATION Spec
CONSTANTS
    v1 = v1
    v2 = v2
    v3 = v3
    Release = {v1, v2, v3}
    Migration <- Migrations
    Nothing = nothing
    Itself = itself
INVARIANTS
    SchemaCoversCode
    ServicesAgree
    PromotedStaysServed
