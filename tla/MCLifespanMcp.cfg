SPECIFICATION Spec
CONSTANTS
    MaxEvents = 2
    MaxStarts = 2
    MaxCalls = 1
INVARIANTS
    McpServedWhileUp
CHECK_DEADLOCK FALSE
