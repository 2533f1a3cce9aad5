CONSTANTS
    Half = 4
    HistorySize = 2
    MaxWrites = 3
    Clients <- MCClients
    ParticipantIds = {"P"}
    TopicIds = {"T"}
    PublisherIds = {"pub"}
    SubscriberIds = {"sub"}
    DataWriterIds = {"dw"}
    DataReaderIds = {"dr"}
    IdsOf <- MCIdsOf
    Domains = {0, 1}
    DomainsOf <- MCDomainsOf
    Names = {"t"}
    Participants = {1, 2, 3, 4, 5}
    Topics = {1, 2, 3, 4}
    Source <- MCInternal
    WriteAccess <- MCComplete
    ReadAccess <- MCComplete
    Null = Null
    Reconnecting = {"w"}
    Overrun = FALSE
SPECIFICATION EntitiesSpec
VIEW View
INVARIANTS
    InStep
    Connected
    SamplesInOrder
PROPERTIES
    StatusTrue
