SPECIFICATION Spec
CONSTANTS
    t1 = t1
    t2 = t2
    Threads = {t1, t2}
    MaxChannels = 3
    MaxObjects = 2
    Names = {"general", "other"}
    RenameIds = {1}
    MaxDisturbances = 1
    MaxMessages = 3
    Limit = 2
    RetainCount = 2
    MessageFaults = TRUE
CONSTRAINT Undoubted
SYMMETRY Symmetry
INVARIANTS ChannelsConsistent MessagesConsistent
PROPERTIES DownloadedPageComplete
CHECK_DEADLOCK FALSE
