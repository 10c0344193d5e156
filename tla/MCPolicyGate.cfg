SPECIFICATION Spec
CONSTANTS
    Types <- MCTypes
    Policy <- MCPolicy
    EvidenceTypes = {"policy_evidence"}
    People = {"ana"}
    NoOne = NoOne
    Unset = Unset
    Payloads <- MCPayloads
    Handlers = {h1, h2}
    MaxActions = 1
    MaxDecisions = 2
SYMMETRY Symmetric
INVARIANT TypeOK RunsOnlyIfLogged AuditExplainsStatus
CHECK_DEADLOCK FALSE
