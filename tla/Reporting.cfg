CONSTANTS
    Reports <- MCReports
    Preambles <- MCPreambles
    Heading <- MCHeading
    Trailer <- MCTrailer
    Marker <- MCMarker
    Powers = {3}
    Notice = 3
    Limit = 26
    None = None
SPECIFICATION Spec
INVARIANTS
    SummaryFits
    OmittedForWantOfRoom
    OneStory
CHECK_DEADLOCK FALSE
