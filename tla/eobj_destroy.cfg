CONSTANTS
    root = root
    widget = widget
    None = None
    Root = root
    Classes <- TwoClasses
    Objects = {1, 2}
    Signals = {"destroyed", "clicked"}
    Own <- OwnSignals
    Late = FALSE
    MaxNodes = 1
    MaxDepth = 2
    Handled = {}
    Names = {"a"}
    Locations = {"l"}
    MaxNotes = 1
    Destroyed = "destroyed"
    Rules = {"keep next", "no nested loop", "unnamed first", "quiet names", "weak on living"}
SPECIFICATION Spec
INVARIANTS NamesAgree WeakSafe SafeInv
PROPERTY DestroyedIsFreed
