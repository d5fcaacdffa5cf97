SPECIFICATION Spec
CONSTANTS
    Slots = 5
    MaxId = 8
INVARIANTS
    SearchBounded
    DropsOlder
    QueueNotReleased
