\* A shop that closes at midnight.
CONSTANTS
    Zone <- MCZone
    Dealership <- MCDealership
    OpeningHours <- MidnightHours
    ServiceType <- MCServiceType
    Customer = {"ada", "ben"}
    Vehicle <- MCVehicle
    Technician <- MCTechnician
    Request <- MidnightRequest
    Clock = {0}
SPECIFICATION Spec
INVARIANTS
    ShiftCoversJob
CHECK_DEADLOCK FALSE
