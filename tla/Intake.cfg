\* Requests over three days and four zones, of which three change their clock.
CONSTANTS
    Zone <- MCZone
    Dealership <- MCDealership
    OpeningHours <- MCOpeningHours
    ServiceType <- MCServiceType
    Customer = {"ada", "ben"}
    Vehicle <- MCVehicle
    Technician <- MCTechnician
    Request <- MCRequest
    Clock = {0, 60000}
SPECIFICATION Spec
INVARIANTS
    TypeOK
    OnlyValidIsReserved
    JobInOpeningHours
    CeilingKeepsShift
CHECK_DEADLOCK FALSE
