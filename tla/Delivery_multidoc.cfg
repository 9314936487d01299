SPECIFICATION Spec
CONSTANTS
    Hosts <- MCHosts
    Unset = Unset
    OperatorEnv <- MCOperatorEnv
    Secrets <- MCSecrets
    NoPolicy = NoPolicy
    NoSpec = NoSpec
    Refused = {"refused"}
    Keys <- MCKeys
    InitialSpecs <- MCInitialSpecs
    FieldValues <- MCFieldValues
    InitialRegistry <- MCRegistry
    Pushes <- MCPushes
    NoPod = NoPod
    Down = Down
    MaxEvents = 1
PROPERTIES AllDocumentsDelivered
