SPECIFICATION FoldersSpec
CONSTANTS
    f1 = f1
    f2 = f2
    Files = {f1, f2}
    Folders <- MCFolders
    Ops = {o1, o2}
    Home <- MCHome
    None = None
    MaxActs = 2
INVARIANTS
    PiecesFollowFiles
    EveryFolderDrawn
    MembersFollowFiles
CHECK_DEADLOCK FALSE
