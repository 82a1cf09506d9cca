SPECIFICATION AllSpec
CONSTANTS
    None = None
    NoGroupKey = NoGroupKey
    Metric = {"m", "n"}
    GroupKey = {"g", "h"}
    MaxRecalculations = 2
    MaxLoops = 1
    MaxRegistrations = 2
    FactKeys <- MCFactKeys
    FactPatterns <- MCFactPatterns
    Partial <- MCPartial
    PartialCovers <- MCPartialCovers
    MaxVersion = 2
    MaxMethodCalls = 6
    StoredKinds <- MCStoredKinds
    RecordedKinds <- MCRecordedKinds
    MaxMemory = 2
    BatchSize = 2
    Hour = 1
    Retention = 0
    MaxStoredIds = 3
    MaxRecordedIds = 4
    MaxFlushes = 2
    MaxAuditTime = 2
    EventFilters <- MCEventFilters
    EntryFilters <- MCEntryFilters
    Topics <- MCTopics
    Entries <- MCEntries
    MaxConnections = 2
    MaxItems = 2
    SubPatterns <- MCSubPatterns
    SubTopics <- MCTopics
    MaxSubscriptions = 2
    MaxSets = 4
    MaxEmits = 2
    HookPatterns <- MCHookPatterns
    HookTopics <- MCTopics
    HookCovers <- MCOfPattern
    OfPattern <- MCOfPattern
    MaxRetries = 3
    RetryBaseDelay = 1
    RequestTimeout = 1
    MaxHooks = 1
    MaxHookEvents = 2
    MaxHookTime = 5
    EventKinds <- MCEventKinds
    LimitKinds <- MCLimitKinds
    MaxEvents = 10
    MaxStoredKinds = 4
    MaxStoredLimit = 12
    MaxEventTime = 1
    Lookup <- MCLookup
    LookupOf <- MCLookupOf
    RuleLookups <- MCRuleLookups
    MaxResolutions = 2
    MaxCalls = 3
    MaxLookupTime = 2
INVARIANT EntriesKept
INVARIANT QueriesExact
INVARIANT HistoriesExact
INVARIANT ListenersServed
INVARIANT ObservationsExact
INVARIANT ReadsCurrent
INVARIANT ActionsRun
INVARIANT WhatIsBuilt
CHECK_DEADLOCK FALSE
