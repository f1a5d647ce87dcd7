CONSTANTS
    r1 = r1
    r2 = r2
    q1 = q1
    q2 = q2
    x = x
    y = y
    E1 = E1
    E2 = E2
    NoRun = NoRun
    NoValue = NoValue
    Moved = Moved
    Default = Default
    Yes = Yes
    No = No
    Runs = {r1, r2}
    Runners = {q1, q2}
    Tasks <- TaskNames
    Kind <- MCKind
    Sub <- MCSub
    Home <- MCHome
    Returns <- MCReturns
    Throws <- MCThrows
    Catches <- MCCatches
    Roots <- MCRoots
    Inputs <- MCInputs
    Movable = {y}
    MaxSteps = 4
SPECIFICATION Spec
INVARIANTS
    SerializedByRunner
