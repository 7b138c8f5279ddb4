SPECIFICATION MCSpec
CONSTANTS
    DayLength = 2
    Moment = {0, 2, 3, 6, 9, 16}
    Country = {"", "us", "de", "jp", "xx"}
    Continent <- MCContinent
    Quarters <- MCQuarters
    ReadMoment = {1, 2, 3, 4}
    Limits = {0, 1, 9}
    DefaultLimit = 2
    MaxLimit = 3
    PageItems = 2
    Type = {"link", "strange"}
    CountedTypes = {"link"}
    MaxWrites = 2
    PostTime <- MCPostTime
    Score = {0, 3}
    BatchSize = 3
    MaxRuns = 2
    MaxLeft = 1
    first_archive = first_archive
    second_archive = second_archive
    late_archive = late_archive
    Archive = {first_archive, second_archive, late_archive}
    CreatedAt <- MCCreatedAt
    Entry = {1}
    ExportFaults = {"mkdir", "call", "close"}
    one_parse = one_parse
    other_parse = other_parse
    Parse = {one_parse, other_parse}
    FriendTime <- MCFriendTime
    Ranges <- MCRanges
    Entries <- MCEntries
    MediaFiles <- MCMediaFiles
    Nested = {"nested"}
    ImportFaults = {"call", "invalid", "open"}
INVARIANTS
    PartsTypeOK
    QuarterInTable
    DaysExact
    ListExact
    CountsCover
    SentimentExact
    ExportComplete
    ItemsHaveRows
    TagsExact
    MediaKept
    MediaHasObject
PROPERTIES
    ImplementsJob
CHECK_DEADLOCK FALSE
