CONSTANTS
    Request = {q1, q2}
    NoRequest = NoRequest
    Source <- MCSource
    Model = {"a", "b"}
    Decision = {"table"}
    NoDecision = "no table"
    BpmnFile = {"demo.bpmn", "second.bpmn", "other.bpmn"}
    DmnOf <- MCDmnOf
    AsRead <- MCAsRead
    NoFile = "no file"
    Torn = "torn"
    Garbled = "garbled"
    Tenant = {"own", "other"}
    Own = "own"
    Value = {"old key", "new key"}
    Missing = "missing"
    Placeholder = "placeholder"
    Process = {"one", "main", "sub", "leaf", "far", "other"}
    NoElement = "none"
    File = {"plain", "windows", "service", "caller", "subs", "others", "fars", "broken"}
    Calls <- MCCalls
    Upload <- MCUpload
    WithService = {"service"}
    Scenarios <- MCScenarios
SPECIFICATION Spec
INVARIANTS VersionsAreKept CatalogIsWhole LoadedIsClosed SecretsAreFresh AdvanceMeansEffect
PROPERTY RequestEnds
CHECK_DEADLOCK FALSE
