SPECIFICATION CbufSpec
CONSTANTS
    Byte <- MCByte
    Zero = 0
    Sizes <- MCSizes
    Requests <- MCRequests
INVARIANT CbufTypeOK
PROPERTY ImplementsFifo
