CONSTANTS
    MaxArticle = 3
    NewsWorlds <- Worlds
    None = None
SPECIFICATION NewsSpec

    
PROPERTIES
    
    UnreadKept
