\* Two calls on a host that is empty or has the gateway, and one death of the agent
\* or uninstall; of the secrets no more than two are in use at a time.
SPECIFICATION Spec
CONSTANTS
    gateway = gateway
    chat = chat
    a = a
    b = b
    Runs = {r1, r2}
    Secrets = {k1, k2}
    Services <- MCServices
    Gateway <- gateway
    Chat <- chat
    Before <- MCBefore
    Headers <- MCHeaders
    None = None
    MaxEvents = 1
CHECK_DEADLOCK FALSE
SYMMETRY InstallsSymmetry
INVARIANTS
    SecretsAgree
    SurfaceKnowsAll
    NoNameTwice
