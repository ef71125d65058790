SPECIFICATION Spec
CONSTANTS
    b1 = b1
    b2 = b2
    Bot = {b1, b2}
    BotOrder <- MCBotOrder
    Host = {h1, h2}
    Ip = {ip1}
    Conn = {}
    NoBot = NoBot
    None = None
    MaxWrites = 2
    MaxFaults = 1
PROPERTIES
    EventuallyInForce
