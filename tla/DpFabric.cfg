CONSTANTS
    p1 = p1
    p2 = p2
    p3 = p3
    dpin0 = dpin0
    dpin1 = dpin1
    None = None
    Hdmi = Hdmi
    Ports <- MCPorts
    Pipes <- MCPipes
    FixedPipes <- MCFixedPipes
    Dpins <- MCDpins
SPECIFICATION Spec
SYMMETRY Alike
INVARIANTS
    TypeOK
    Exclusive
    OneOutput
    CallbackFits
    HdmiComesBack
    RecordedIsDone
PROPERTIES
    SwitchesOutputs
