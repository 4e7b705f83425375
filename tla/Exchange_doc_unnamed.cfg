SPECIFICATION Spec
CONSTANTS
    Patience = 2
    Contact = 2
    Margin = 1
    MaxAge = 7
    Recipient = {anna, ben}
INVARIANT NothingLeavesUnnamed
