SPECIFICATION Spec
CONSTANTS
    Irqs = {5, 46}
    Values = {0, 7}
    MaxHellos = 5
INVARIANTS
    StaleHelloCaughtAtGreeting
    HandlersAgree
PROPERTIES
    NobodyWaitsForEver
