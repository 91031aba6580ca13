\* Names, hiding and the language of the usage page, every way to open it.
SPECIFICATION Spec
CONSTANTS
    Sessions = {"s1", "s2"}
    Names <- MCNames
    Prices <- MCPrices
    MaxClicks = 6
INVARIANTS OneLanguage NamesKept CatalogueSound
PROPERTIES InputKept
CHECK_DEADLOCK FALSE
