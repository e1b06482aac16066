SPECIFICATION LibrarySpec
CHECK_DEADLOCK FALSE
CONSTANTS
    Parts = {"schemas", "crd", "streams", "broadcaster", "summary", "options", "calls", "webhook"}
    Trim <- MCTrim
    Lower <- MCLower
    Number <- MCNumber
    Decimal <- MCDecimal
    Sprint <- MCSprint
    Index <- MCIndex
    GoTypes <- MCGoTypes
    LowerTitle <- MCLowerTitle
    Plural <- MCPlural
    DefaultMapper <- MCDefaultMapper
    DefaultPostMapper <- MCDefaultPostMapper
    FieldMappers <- MCFieldMappers
    EndsInMap = {}
    Length <- MCLength
    Runes <- MCRunes
    Chars <- MCChars
    Class <- MCClass
    Dns <- MCDns
    Packages <- MCPackages
    Mapped <- MCMapped
    Imported <- MCImported
    Added <- MCAdded
    Removed <- MCRemoved
    Docs <- MCDocs
    FieldValues <- MCFieldValues
    Builders <- MCBuilders
    Criteria <- MCCriteria
    Handlers <- MCHandlers
    Reviews <- MCReviews
    MaxCalls = 3
    MaxDerived = 2
    MaxEvents = 2
    Subs = {p, q}
    Conns = {1, 2}
    Cap = 2
    MaxItems = 4
    APIs <- MCAPIs
    GVKSeq <- MCGVKSeq
    Informers <- MCInformers
    Factory <- MCFactory
    Injectors <- MCInjectors
    Injected <- MCInjected
    OptionKinds <- MCOptionKinds
    Applies <- MCApplies
    ObjectSets <- MCObjectSets
    OwnerKeys <- MCOwnerKeys
    Shape <- MCShape
    LowerState <- MCLowerState
    Inputs <- MCInputs
INVARIANTS
    ImportComplete
    RoundTrip
    PropsComplete
    ValidImpliesProps
    ColumnsInSchema
    FlagsAgree
    AppliedStays
    PurgeSpares
    AdmittedByFirst
    BroadcasterTypeOK
    NoPanic
    OneStream
    NothingMissed
PROPERTIES
    OptionsStay
    StreamsEnd
    EventuallyClosed
