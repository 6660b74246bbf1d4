--------------------------- MODULE MCVideoEditing ---------------------------
EXTENDS VideoEditing

MCItem(id, type) ==
    [id |-> id, type |-> type, media |-> type, start |-> 0, duration |-> 2 * One,
     in |-> None, out |-> None, speed |-> None, group |-> None, layer |-> None,
     muted |-> FALSE, volume |-> None, scale |-> One, crop |-> 0, anim |-> <<>>,
     style |-> {}, words |-> {type}]

MCTrack(kind, hidden, muted, items) ==
    [kind |-> kind, hidden |-> hidden, muted |-> muted, items |-> items]

(* A video and its sound, which may be linked; an overlay whose scale may  *)
(* dip below 0 between two keyframes; and a text.                          *)
MCDocuments ==
    LET video(start, speed, g) ==
            [MCItem(1, "video") EXCEPT !.start = start, !.speed = speed, !.in = One,
                !.out = One + 2 * speed, !.group = g, !.layer = 1]
        audio(g, muted) ==
            [MCItem(2, "audio") EXCEPT !.in = One, !.out = 3 * One, !.group = g,
                !.muted = muted]
        overlay(start, anim) ==
            [MCItem(3, "overlay") EXCEPT !.start = start, !.anim = anim]
        dip(time) == << [time |-> 0, value |-> One], [time |-> time, value |-> 0],
                        [time |-> 2 * time, value |-> One] >>
        tracks(vmuted, v, a, ahidden, amuted, o) ==
            << MCTrack("video", FALSE, vmuted, <<v>>), MCTrack("audio", ahidden, amuted, <<a>>),
               MCTrack("overlay", FALSE, FALSE, <<o, MCItem(4, "text")>>) >>
        timelines ==
            {tracks(vmuted, video(0, One, "g"), audio("g", off = "item"),
                    off = "hidden", off = "muted", overlay(0, <<>>)) :
                vmuted \in BOOLEAN, off \in {"nothing", "item", "hidden", "muted"}}
            \cup
            {tracks(FALSE, video(s, speed, None), audio(None, FALSE), FALSE, FALSE,
                    overlay(s, dip(time))) :
                s \in {0, Grain \div 2, Grain, FrameTicks}, speed \in {One, 2 * One},
                time \in {FrameTicks \div 2, 2 * FrameTicks}}
    IN  {[transitions |-> FALSE, effects |-> FALSE, width |-> None, height |-> None,
          tracks |-> t] : t \in timelines}

Source(kind, width, height) ==
    [kind |-> kind, stored |-> TRUE, width |-> width, height |-> height]

MCSources ==
    [video |-> Source("video", 1920, 1080),
     audio |-> Source("audio", None, None),
     overlay |-> Source("image", 640, 480)]
=============================================================================
