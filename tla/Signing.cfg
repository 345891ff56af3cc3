\* Two verity images and a signature, two bundles.
SPECIFICATION Spec
CONSTANTS
    Uri <- Tokens
    Configs <- SomeConfigs
INVARIANTS
    SignsItsTree
    SignedAsAsked
    BundleExact
CHECK_DEADLOCK FALSE
