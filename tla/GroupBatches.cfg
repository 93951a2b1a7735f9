SPECIFICATION Spec
CHECK_DEADLOCK FALSE
SYMMETRY Symmetry
CONSTANTS
    Handlers = {h1, h2, h3}
    Groups = {"g1", "g2"}
    Clients = {"c1", "c2"}
    Rules <- MCRules
    Requests <- MCRequests
    None = None
 
INVARIANT CountsExact
INVARIANT FailedBatchChangesNothing
 
