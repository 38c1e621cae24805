CONSTANTS
    s1 = s1
    s2 = s2
    c1 = c1
    c2 = c2
    p1 = p1
    t1 = t1
    t2 = t2
    NewResearchChat = NewResearchChat
    DefaultTitle = NewResearchChat
    Titles = {NewResearchChat, t1, t2}
    TitleFrom <- MCTitleFrom
    NewTitle <- MCNewTitle
    NoSession = NoSession
    Sessions = {s1, s2}
    Chats = {c1, c2}
    Renames = {p1}
    Window = 2
    Faults = {"disconnect", "db", "crash"}
SPECIFICATION Spec
INVARIANTS
    TypeOK
    AnswerAfterQuestion
    NoOrphanMessages
    HistoryBeforeQuestion
PROPERTIES
    TitleSettles
    EveryQuestionAnswered
    ImplementsConversation
CHECK_DEADLOCK FALSE
