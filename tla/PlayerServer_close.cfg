\* The comment at MusicPlayerAPI.cc 648 against the code.
SPECIFICATION FairSpec
CONSTANTS
    Conn = {c1, c2}
    Nobody = nobody
PROPERTIES CloseReturns
