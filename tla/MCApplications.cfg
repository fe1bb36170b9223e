\* A downlink stream and data, uplink CBR and VoIP, on one UE.
SPECIFICATION Spec
CONSTANTS
    cbr = cbr
    voip = voip
    ftp = ftp
    video = video
    Apps <- MCApps
    Type <- MCType
    Downlink = {ftp, video}
    StartTimes = {0, 1, 9}
    Duration <- MCDuration
    Packets = 2
    GetInterval <- MCInterval
    PacketInterval = 2
    Draws = {0, 2, 5}
    Frames <- MCFrames
    RaDelays = {1, 3}
    m_activityTimeout = 4
    MaxReports = 12
INVARIANTS
    PacketsWake
    StreamIsHeard
    PlaybackKeepsPace
CHECK_DEADLOCK FALSE
