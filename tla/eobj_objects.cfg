CONSTANTS
    root = root
    widget = widget
    None = None
    Root = root
    Classes <- TwoClasses
    Objects = {1, 2}
    Signals = {"destroyed", "clicked"}
    Own <- OwnSignals
    Late = FALSE
    MaxNodes = 2
    MaxDepth = 2
    Handled = {"clicked"}
    Names = {"a"}
    Locations = {}
    MaxNotes = 1
    Destroyed = "destroyed"
    Rules = {"keep next", "no nested loop", "unnamed first", "quiet names", "weak on living"}
SPECIFICATION Spec
INVARIANTS TypeOK NoFault EmissionKnows SaysDestroyedOnce
