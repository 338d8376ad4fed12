------------------------------- MODULE MCParts -------------------------------
(***************************************************************************)
(* Small instances of the parts, for TLC.                                  *)
(***************************************************************************)
EXTENDS Parts, TLC

\* YoutubeRecorder
MCMaxLine  == "streamlink" :> 1 @@ "youtube-dl" :> 2
Option(noStreamlink, noYoutubeDl, chat) ==
  [noStreamlink |-> noStreamlink, noYoutubeDl |-> noYoutubeDl, chat |-> chat]
MCOpts == {Option(FALSE, FALSE, "none"), Option(TRUE, FALSE, "live"),
           Option(TRUE, TRUE, "replay")}

\* YoutubeComments: two comments of one time.
MCTime == <<1, 1, 2>>

\* TimeshiftComments: an answer may end between two comments of one second, and
\* the answers to two requests may be under way.
MCDate == <<1, 2, 2, 3>>
=============================================================================
