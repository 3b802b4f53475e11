CONSTANTS
    T = T
    n1 = n1
    n2 = n2
    Names = {n1, n2}
    Template = T
    TemplateDisks <- TwoDisks
    TemplateCid = tc
    Tasks = {b1, b2}
    Proxies = {p1}
    MaxFaults = 1
    NoVm = NoVm
    NoTask = NoTask
SPECIFICATION Spec
CHECK_DEADLOCK FALSE
INVARIANT TemplateIntact
INVARIANT RunsWithItsCid
 
 
SYMMETRY Symmetry
