CONSTANTS
    s1 = s1
    s2 = s2
    c1 = c1
    c2 = c2
    p1 = p1
    t1 = t1
    t2 = t2
    NewResearchChat = NewResearchChat
    DefaultTitle = NewResearchChat
    Titles = {NewResearchChat, t1, t2}
    TitleFrom <- MCTitleFrom
    NewTitle <- MCNewTitle
    NoSession = NoSession
    Sessions = {s1}
    Chats = {c1}
    Renames = {p1}
    Window = 1
    Faults = {}
SPECIFICATION Spec
PROPERTY
    RenameStays
CHECK_DEADLOCK FALSE
