SPECIFICATION PriorityFairSpec
CONSTANTS
    Entities = {1, 2}
    SizeOf <- EntitySizes
    BasePriorities = {3}
    Modifiers = {1, 3}
    Neutral = 3
    BudgetBytes = 2
    MaxWait = 5
PROPERTY EverySent
