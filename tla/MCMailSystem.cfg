\* Two messages; the cursor and the read set hold one id each.
SPECIFICATION SysSpec
CONSTANTS
    bot1 = bot1
    bot2 = bot2
    None = None
    Bot = {bot1, bot2}
    Msg = {m1, m2}
    Valid = {m1, m2}
    Author <- MCAuthor
    To <- MCTo
    RouteFiles <- MCRouteFiles
    Listing <- MCListing
    Readable <- MCReadable
    PerMinute = 1
    LiveReadDays = 0
    MaxUnreadDays = 1
    MaxReadIds = 1
    MaxCursor = 1
    MaxFaults = 1
INVARIANTS
    ReadSetIsTrue
PROPERTIES
    UnseenStays
