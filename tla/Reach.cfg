SPECIFICATION Spec
CONSTANT Components = {"turn", "mdns", "stun", "candidates"}
INVARIANTS GrantsHeld TransactionsEnd ChecklistsMirror
PROPERTY AnsweredOnce
CHECK_DEADLOCK FALSE
