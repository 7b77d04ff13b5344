CONSTANTS
    Mime <- KnownMime
    JunkName <- Junk
    ArtName <- Covers
    PageCap = 2
    KindOf <- Kinds
    LinkTo <- Links
    Top = 0
    TreePaths <- Paths
    Layouts <- Trees
    Sources <- Given
    Spare = {20, 21, 30}
    Lengths = {0, 3}
    Chunk = 2
    RangeHeader <- Headers
    MaxSwaps = 2
    MaxRequests = 1
    Counts = {0, 1, 3}
    Criteria <- Questions
SPECIFICATION Spec
INVARIANTS EachFileInOneFolder SubtitleOfLongestStem
    PagesMakeTheList MetadataAgrees SearchFindsTheSubtree
    RangeIsTheOneAsked PartialBodyFits NoLinkFollowed UrlLeadsBack
CHECK_DEADLOCK FALSE
