SPECIFICATION Spec
CONSTANTS
    Messages <- MCMessages
    StringLike <- MCStringLike
    Structured <- MCStructured
    MaxQueryDepth = 2
    Protos <- MCProtos
INVARIANTS OpenedOnce Closed ClaimedOnce NothingLost NeverServerOwned RefusedForCause ReadsOnlyRead
