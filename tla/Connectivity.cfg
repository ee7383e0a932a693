SPECIFICATION Spec
CONSTANTS
    a = a
    Groups = {a}
    Nodes <- ThreeNodes
    Local <- Here
    Port <- ThreePorts
    None = None
    GroupChoices <- Choices
    MaxFaults = 2
INVARIANT
    ClientsSeeWanted
