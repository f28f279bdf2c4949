------------------------------- MODULE MCLibrary -------------------------------
EXTENDS MediaLibrary

Stream(kind, codec) ==
    [kind |-> kind, codec |-> codec, tag |-> None, transfer |-> SDR, lang |-> None,
     default |-> FALSE, forced |-> FALSE, picture |-> FALSE]
Sound == Stream("audio", "aac")
Text(lang, forced) == [Stream("subtitle", "subrip") EXCEPT !.lang = lang, !.forced = forced]
Pgs(lang) == [Stream("subtitle", "hdmv_pgs_subtitle") EXCEPT !.lang = lang, !.forced = TRUE]
Cover == [Stream("video", "mjpeg") EXCEPT !.picture = TRUE]
Hevc(tag, transfer) == [Stream("video", "hevc") EXCEPT !.tag = tag, !.transfer = transfer]

\* A download in HDR with cover art first and a forced narrative in English, a disc
\* with one in French, as a bitmap and as text, and a Dolby Vision profile 5 file.
MCContent ==
    [web  |-> [container |-> "mp4", length |-> 30000,
               streams |-> <<Cover, Hevc("hvc1", "pq"), Sound, Text("eng", TRUE), Text("eng", FALSE)>>],
     disc |-> [container |-> "mkv", length |-> 24000,
               streams |-> <<Stream("video", "h264"), Sound, Pgs("fre"), Text("fre", TRUE)>>],
     dv   |-> [container |-> "mp4", length |-> 30000,
               streams |-> <<Cover, Hevc("dvh1", "pq"), Sound>>]]
MCFiles == DOMAIN MCContent

Transcode(codec, burns, hdr) ==
    [mode |-> "transcode", codec |-> codec, requires |-> None, burns |-> burns, hdr |-> hdr]

\* What burns French in tone-maps the download and burns nothing into it, what burns
\* English in burns text; a copy burns nothing in, whatever it is set to.
MCSettings ==
    [french  |-> Transcode("libx264", "fre", FALSE),
     english |-> Transcode("libx265", "eng", TRUE),
     hdr     |-> Transcode("libx265", None, TRUE),
     stray   |-> [mode |-> "copy", codec |-> None, requires |-> "hevc", burns |-> "eng", hdr |-> TRUE]]

Burning == [shipped |-> "french", mine |-> "french"]
NoLadder == <<>>
================================================================================
