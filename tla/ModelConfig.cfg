\* Two or three servers of up to three models; settings reloaded before and after a request is made.
SPECIFICATION ConfigSpec
CONSTANTS
    Models = {"big", "small", "other"}
    Lists <- MCLists
    RoutedRequests <- MCRequests
    Absent = Absent
    Malformed = Malformed
    model_ = "big"
    mock_mode_ = FALSE
    Bodies <- MCBodies
    Actions = {"", "code", "chat"}
    Metas <- MCMetas
    Runtimes <- MCRuntimes
INVARIANTS LostOnlyToBarred FilledChainReachesAll OwnModelFirst
