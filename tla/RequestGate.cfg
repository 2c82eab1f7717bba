SPECIFICATION Spec
CONSTANTS
    Request = {r1, r2}
    Client = {"c1", "c2"}
    Forgery <- MCForgery
    Route = {"health", "ready", "vote"}
    Deployment <- MCDeployment
    MaxBalance = 2
    Blank = Blank
    Malformed = Malformed
    Refused = Refused
    Unlimited = Unlimited
INVARIANTS
    PermitsAreConserved
PROPERTIES
    ChargedToItsClient
    OverloadPasses
CHECK_DEADLOCK FALSE
