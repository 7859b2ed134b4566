CONSTANTS
    root = root
    box = box
    label = label
    None = None
    Root = root
    Classes <- ThreeClasses
    Objects = {1}
    Signals <- SignalNames
    Own <- OwnSignals
    Late = FALSE
    Props = {"name", "size"}
    PropType <- PropertyTypes
    Default <- DefaultOf
    Constructed = {"size"}
    Values <- ValuesOf
    Answers <- AnswersOf
SPECIFICATION Spec
CHECK_DEADLOCK FALSE
INVARIANTS ClassTypeOK CodesAreInherited CodesAreCurrent ListsForAllSignals ReadsWhatWasSet
