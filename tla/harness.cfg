SPECIFICATION Spec
CONSTANTS
    c1 = c1
    c2 = c2
    kept = kept
    new = new
    Commissions = {c1, c2}
    Selected <- MCSelected
    DependsOn <- MCDependsOn
    AutoPolicy = {c1, c2}
    Files = {kept, new}
    NewFiles = {new}
    Scope <- MCScope
    Operator = Operator
    NoOne = NoOne
    MaxActs = 2
CHECK_DEADLOCK FALSE
INVARIANT StaysInScope
INVARIANT OkMeansDelivered
PROPERTY OperatorEditsKept
