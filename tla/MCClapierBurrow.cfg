SPECIFICATION Spec
CONSTANTS
    Handlers = {h1, h2}
    Blocks = 2
    MaxDeploys = 2
SYMMETRY Requests
INVARIANTS TypeOK WholeWhileAlone NoVain404
