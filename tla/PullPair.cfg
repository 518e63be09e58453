\* Two models on a volume that may hold both, one or neither.
CONSTANTS
    p1 = p1
    p2 = p2
    llama = llama
    qwen = qwen
    Pulls = {p1, p2}
    NameOf <- TwoModels
    Slow = {p1}
    Size = 1
    Margin = 1
    Disk = 2
SPECIFICATION Spec
INVARIANTS
    SucceededMeansWhole
    OnlyOthersFillTheDisk
PROPERTIES
    StopIsObeyed
CHECK_DEADLOCK FALSE
