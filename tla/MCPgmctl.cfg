SPECIFICATION Spec
CONSTANTS
    n1 = n1
    n2 = n2
    n3 = n3
    A = A
    B = B
    eA = eA
    eB = eB
    prod = prod
    test = test
    None = None
    Nil = Nil
    NoWindow = NoWindow
    NoAuth = NoAuth
    Node = {n1, n2, n3}
    MaxPolls = 1
    Edits <- MCEdits
    Scenarios <- MCScenarios
INVARIANTS VerdictsAgree SteadyVerdict   
PROPERTIES FailHasCause WaitVerdict
