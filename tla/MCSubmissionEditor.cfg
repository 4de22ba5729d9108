SPECIFICATION Spec
CONSTANTS
    Dtos <- MCDtos
    Grants <- MCGrants
INVARIANTS
    RoundsInOrder
    TrackerAgreesWithEditor
CHECK_DEADLOCK FALSE
