---------------------------- MODULE MCApplications ----------------------------
(* TLC instance of Applications: a stream, telephony and two data sources. *)
EXTENDS Applications

CONSTANTS cbr, voip, ftp, video

MCApps == {cbr, voip, ftp, video}
MCType == cbr :> "CBR" @@ voip :> "VOIP" @@ ftp :> "FTP2" @@ video :> "TRACE_BASED"
MCDuration == cbr :> 13 @@ voip :> 9 @@ ftp :> 6 @@ video :> 12
MCInterval == cbr :> 6
Frame(type, time, packets) == [type |-> type, time |-> time, packets |-> packets]
MCFrames == video :> <<Frame("I", 0, 2), Frame("P", 3, 1), Frame("B", 1, 1), Frame("P", 5, 1)>>
=============================================================================
