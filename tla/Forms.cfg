SPECIFICATION ConsoleSpec
CONSTANTS
    Stored <- Inventory
    Texts <- InventoryTexts
    MaxEdits = 3
    MaxTries = 2
    WorkedIn = {{"ban", "maintenance"}, {"errors", "llm"}, {"site"}, {"smtp"}}
    MaxCardEdits = 3
    MaxCardRequests = 2
    MaxSetFaults = 1
INVARIANTS FormsTypeOK  SentAsEntered SecretsAsEntered CleanCardIsStored
PROPERTIES ErrorIsShown FormsSettle
CHECK_DEADLOCK FALSE
