SPECIFICATION Spec
CONSTANTS
    c1 = c1
    c2 = c2
    a1 = a1
    a2 = a2
    Main = Main
    NoAgent = NoAgent
    NoSession = NoSession
    Children <- MCChildren
    AgentIds <- MCAgents
SYMMETRY Sym
INVARIANTS
    WorktreeCustody
    CompletedMeansQuiet
PROPERTIES
    KeepsCustody
    DisposalIsQuiet
CHECK_DEADLOCK FALSE
