CONSTANTS
    c1 = c1
    c2 = c2
    w1 = w1
    w2 = w2
    Caller <- Two
    Worker <- Workers
    MaxRequests = 3
    Client <- Two
    RoomWorker <- Workers
    MinClients = 2
    MaxClients = 2
    MaxObjects = 2
    MaxRooms = 2
    StatWorker <- Workers
    MaxReports = 5
    User <- Two
    UserWorker <- Workers
    MaxUuid = 8
    MaxLogins = 4
    RegistryCaller = {"a", "b", "c"}
    AppCommand = {"a", "b", "c"}
    Holder <- Two
    Reading = {1}
    HasDefault = FALSE
    OmitEmpty = TRUE
    ConfField = {"min_clients_to_start", "game_time"}
    Default <- Parameters
    AdminText <- Changes
    Letter = 11
    Comma = 12
    Dash = 13
    Numbers = {0, 1}
    MaxText = 3
    MaxTexts = 2
    W8 = 3
    W16 = 3
    NameSize = 2
SPECIFICATION MCSpec
SYMMETRY Symmetric
INVARIANTS AllTypesOK TakenOnce IdsUnique OwnAnswer SameUser RoundTrip FieldsGiven
    NoLostStart RunningEnds RowFollowsRoom
CHECK_DEADLOCK FALSE
