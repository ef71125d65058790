SPECIFICATION Spec
CONSTANTS
    bot1 = bot1
    bot2 = bot2
    bot3 = bot3
    m1 = m1
    m2 = m2
    None = None
    Bot <- MCBot
    Msg <- MCMsg
    Author <- MCAuthor
    To <- MCTo
    Valid <- MCValid
    RouteFiles <- MCRouteFiles
    Listing <- MCListing
    Readable <- MCReadable
    PerMinute = 1
    LiveReadDays = 0
    MaxUnreadDays = 0
    MaxReadIds = 1
    MaxFaults = 1
INVARIANTS
    TypeOK
    FiledOnce
    FilingIsTrue
    
    LiveOrArchived
PROPERTIES
    DeliverySpec
