\* One message, which two faults may put back or strip of its receipt.
SPECIFICATION SysSpec
CONSTANTS
    bot1 = bot1
    bot2 = bot2
    None = None
    Bot = {bot1, bot2}
    Msg = {m1}
    Valid = {m1}
    Author <- MCAuthor
    To <- MCTo
    RouteFiles <- MCRouteFiles
    Listing <- MCListing
    Readable <- MCReadable
    PerMinute = 1
    LiveReadDays = 0
    MaxUnreadDays = 1
    MaxReadIds = 1
    MaxCursor = 1
    MaxFaults = 2
PROPERTIES
    EventuallyFiled
    EventuallyArchived
