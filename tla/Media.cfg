SPECIFICATION MediaSpec
CONSTANTS
    Components = {"srtp", "srtcp", "files", "samples", "datagrams", "sdp"}
    Window = 3
    WordBits = 5
    Cycle = 16
    Starts = {4, 13}
    Delay = 3
    Last = 10
    IndexCycle = 16
    RtcpDelay = 3
    RtcpLast = 17
INVARIANTS OpenedOnce FreshOpens FreshReads Recorded SamplesWhole RoundTrip 
CHECK_DEADLOCK FALSE
