\* A mapping rule edited, written to and read from the store, with cutovers
\* in any order, policies with an unsupported resolution, and every order
\* of the resolution table's init().
CONSTANTS
    Names = {"r1", "r2"}
    CutoverTimes = {0, 1, 2}
    QueryTimes = {0, 1, 2, 3}
    PolicyChoices <- MCPolicyChoices
    InitialSchema <- MCInitialSchema
    NoSchema = NoSchema
    NoSnapshot = NoSnapshot
    MaxSnapshots = 4
SPECIFICATION Spec
INVARIANTS TypeOK ActiveRuleAgrees
