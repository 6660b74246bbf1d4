--------------------------- MODULE RenderManifest ---------------------------
(***************************************************************************)
(* build_manifest and the frame loop that composes what it describes       *)
(* (src/kuvox_ai/modules/rendering/service.py, with the schema of          *)
(* schemas/render_manifest.py and the controls of adjustments.py).         *)
(*                                                                         *)
(* A document is a record of its transitions and effects (whether it has   *)
(* any), its settings and its tracks, whose items are those of Planning.   *)
(* job.settings are what the export asks for; job.sources maps the media   *)
(* the API resolved to records of kind, stored (bucket and key are there), *)
(* and their width and height.                                             *)
(*                                                                         *)
(* An item's style is the set of the controls it uses that are not at      *)
(* their default; its scale and crop are numbers, and anim is a sequence   *)
(* of keyframes of the scale or << >>.  Easing, colours and text layout    *)
(* are left out: no property tells them apart.                             *)
(***************************************************************************)
EXTENDS Planning

CONSTANT FrameTicks  \* the time between two frames: One / frame rate

ASSUME FrameAssumption == FrameTicks \in Nat \ {0}

Ceiling(n, d) == -((-n) \div d)
Larger(a, b) == IF a >= b THEN a ELSE b
Smaller(a, b) == IF a <= b THEN a ELSE b

Default(value, default) == IF value = None THEN default ELSE value

Pictures == {"video", "image", "overlay"}

-----------------------------------------------------------------------------
(* What blocks the export of an item (_unsupported_advanced_state and      *)
(* _unsupported_property_state).  "keyframes" is the advanced state that   *)
(* is supported; "advanced" is one that has none.                          *)
AdvancedBlockers(type) ==
    {"tracking", "auto reframe", "freeze frame", "time remap", "advanced color",
     "anchor", "advanced"} \cup IF type = "text" THEN {"crop keyframes"} ELSE {}

PropertyBlockers(type) ==
    {"item effect", "animated color"}
    \cup (IF type \in Pictures
          THEN {"unknown filter", "tonal detail", "vignette", "grain", "mask",
                "reverse", "speed curve", "fixed pitch off", "entrance"} ELSE {})
    \cup (IF type = "video" THEN {"audio processing"} ELSE {})
    \cup (IF type = "audio" THEN {"audio processing", "fixed pitch off"} ELSE {})
    \cup (IF type = "text" THEN {"entrance"} ELSE {})

Blocked(item) ==
    item.style \cap (AdvancedBlockers(item.type) \cup PropertyBlockers(item.type)) # {}

(* _transform and _crop: numbers that are missing take their default.      *)
ValidCrop(crop) == 0 <= crop /\ crop <= One

(* What the branch of a media item raises for.  A media item that is not   *)
(* audio needs the dimensions the optimization of its media reported.      *)
BadSource(item, job) ==
    \/ item.media \notin DOMAIN job.sources
    \/ LET source == job.sources[item.media]
       IN  \/ ~source.stored
           \/ /\ item.type # "audio"
              /\ \/ source.width = None \/ source.height = None
                 \/ source.width <= 0 \/ source.height <= 0
           \* VideoRenderMediaSource.require_visual_dimensions
           \/ /\ source.kind # "audio"
              /\ source.width = None \/ source.height = None

BadTiming(item) ==
    \/ item.start < 0
    \/ /\ item.type \in {"audio", "video"}
       /\ \/ item.in = None \/ item.in < 0
          \/ item.out = None \/ item.out <= 0
    \/ item.type = "audio" /\ Default(item.speed, One) <= 0
    \/ item.type = "video" /\ (item.speed = None \/ item.speed <= 0)

BadItem(item, job) ==
    \/ Blocked(item)
    \/ item.duration <= 0
    \/ item.type # "text" /\ BadSource(item, job)
    \/ ~(item.type = "audio" /\ item.muted) /\ BadTiming(item)
    \/ item.type # "audio" /\ item.scale <= 0
    \/ item.type \in Pictures /\ ~ValidCrop(item.crop)

-----------------------------------------------------------------------------
(* _settings_for_manifest: what the export asks for, then what the         *)
(* document has, then 1920 by 1080.                                        *)
OutputSize(job) ==
    [width |-> Default(job.settings.width, Default(job.document.width, 1920)),
     height |-> Default(job.settings.height, Default(job.document.height, 1080))]

Canvas(job) ==
    [width |-> Default(job.document.width, 1920),
     height |-> Default(job.document.height, 1080)]

PreservesAspect(size, canvas) ==
    LET error == size.width * canvas.height - size.height * canvas.width
    IN  /\ canvas.width > 0 /\ canvas.height > 0
        /\ Larger(error, -error) <= Larger(canvas.width, canvas.height)

ValidSettings(job) ==
    /\ OutputSize(job).width > 0 /\ OutputSize(job).width % 2 = 0
    /\ OutputSize(job).height > 0 /\ OutputSize(job).height % 2 = 0
    /\ PreservesAspect(OutputSize(job), Canvas(job))

-----------------------------------------------------------------------------
(* The items the main loop reaches, and those that _stack_orders and the   *)
(* search for audio owners look at: a muted audio track is skipped by the  *)
(* loop only.                                                              *)
Shown(tracks) == {p \in Positions(tracks) : ~tracks[p[1]].hidden}

Entered(tracks) ==
    {p \in Shown(tracks) : ~(tracks[p[1]].kind = "audio" /\ tracks[p[1]].muted)}

(* Mutant: a hidden audio track owns the sound of its group, too. *)
OwnerGroupsOfAll(tracks) ==
    {ItemAt(tracks, p).group :
        p \in {q \in Positions(tracks) : ItemAt(tracks, q).type = "audio"}} \ {None}

ExplicitAudioOwnerGroups(tracks) ==
    {ItemAt(tracks, p).group :
        p \in {q \in Shown(tracks) : ItemAt(tracks, q).type = "audio"}} \ {None}

(* Mutant: one order for all tracks, the layer first. *)
StackKeyByLayer(tracks, p) ==
    <<Default(ItemAt(tracks, p).layer, 0), p[1], p[2], ItemAt(tracks, p).id>>

(* _stack_orders: what is on video tracks is below the overlays and texts; *)
(* the first video track is above the others.                              *)
StackKey(tracks, p) ==
    LET item == ItemAt(tracks, p)
        layer == Default(item.layer, 0)
    IN  IF tracks[p[1]].kind = "video" /\ item.type \in {"video", "image"}
        THEN <<0, -p[1], layer, p[2], item.id>>
        ELSE <<1, layer, p[1], p[2], item.id>>

(* Tuples of one length compare like Python's.                             *)
Before(a, b) ==
    \E k \in DOMAIN a : a[k] < b[k] /\ \A j \in 1..(k - 1) : a[j] = b[j]

(* The number an item gets; items with one id share that of the last one.  *)
StackOrder(tracks, id) ==
    LET seen == {p \in Shown(tracks) : ItemAt(tracks, p).type # "audio"}
        rank(p) == Cardinality({q \in seen : Before(StackKey(tracks, q), StackKey(tracks, p))})
        same == {p \in seen : ItemAt(tracks, p).id = id}
    IN  rank(CHOOSE p \in same : \A q \in same : rank(p) >= rank(q))

-----------------------------------------------------------------------------
VisualItem(tracks, it) ==
    [id |-> it.id, type |-> it.type, media |-> it.media, start |-> it.start,
     duration |-> it.duration, in |-> it.in, out |-> it.out, speed |-> it.speed,
     scale |-> it.scale, crop |-> it.crop, anim |-> it.anim, group |-> it.group,
     stack |-> StackOrder(tracks, it.id)]

TextOverlay(tracks, it) ==
    [id |-> it.id, type |-> "text", start |-> it.start, duration |-> it.duration,
     scale |-> it.scale, anim |-> it.anim, stack |-> StackOrder(tracks, it.id)]

EnteredOf(tracks, types) == {p \in Entered(tracks) : ItemAt(tracks, p).type \in types}

VisualItems(tracks) ==
    {VisualItem(tracks, ItemAt(tracks, p)) : p \in EnteredOf(tracks, Pictures)}

TextOverlays(tracks) ==
    {TextOverlay(tracks, ItemAt(tracks, p)) : p \in EnteredOf(tracks, {"text"})}

(* An explicit audio item is heard unless it is muted; the sound of a      *)
(* video unless its track is muted or its group has an explicit owner.     *)
Heard(tracks, p, owner) ==
    LET it == ItemAt(tracks, p)
    IN  CASE owner = "audio-item" -> it.type = "audio" /\ ~it.muted
          [] owner = "embedded-video" ->
                 /\ it.type = "video"
                 /\ ~tracks[p[1]].muted
                 /\ it.group \notin ExplicitAudioOwnerGroups(tracks)

AudioItem(it, owner) ==
    [id |-> it.id, owner |-> owner, media |-> it.media, start |-> it.start,
     duration |-> it.duration, in |-> it.in, out |-> it.out,
     speed |-> Default(it.speed, One),
     volume |-> IF owner = "embedded-video" THEN One
                ELSE Smaller(One, Larger(0, Default(it.volume, One))),
     group |-> it.group]

AudioItems(tracks) ==
    {AudioItem(ItemAt(tracks, r[1]), r[2]) :
        r \in {q \in Entered(tracks) \X {"audio-item", "embedded-video"} :
                  Heard(tracks, q[1], q[2])}}

(* One tenth of a second at least, up to the end of the last item.         *)
DurationOf(items) ==
    RoundTime(CHOOSE d \in {Ceiling(One, 10)} \cup {it.start + it.duration : it \in items} :
                 \A it \in items : d >= Ceiling(One, 10) /\ d >= it.start + it.duration)

-----------------------------------------------------------------------------
(* evaluate_animation_track without easing, as a fraction <<n, d>>.        *)
Evaluate(anim, time, fallback) ==
    LET last == Len(anim)
        right == CHOOSE k \in 2..last : anim[k].time >= time /\ anim[k - 1].time < time
        span == anim[right].time - anim[right - 1].time
    IN  CASE anim = <<>> -> <<fallback, 1>>
          [] anim # <<>> /\ time <= anim[1].time -> <<anim[1].value, 1>>
          [] anim # <<>> /\ time > anim[1].time /\ time >= anim[last].time ->
                 <<anim[last].value, 1>>
          [] OTHER -> <<anim[right - 1].value * span
                          + (anim[right].value - anim[right - 1].value)
                              * (time - anim[right - 1].time), span>>

(* The scale at a time of the item is one that can be rendered.            *)
ValidAt(item, time) == Evaluate(item.anim, time, item.scale)[1] > 0

(* Mutant: only the ends of the item are validated. *)
ValidatedEnds(item) == {0, item.duration}

(* _validate_manifest_animation_frames: the times are counted from the     *)
(* start of the item.                                                      *)
ValidatedTimes(item) ==
    {Smaller(item.duration, k * FrameTicks) :
        k \in 0..Larger(1, Ceiling(item.duration, FrameTicks))}

ValidFrames(item) == \A time \in ValidatedTimes(item) : ValidAt(item, time)

Rejected(job) ==
    LET tracks == job.document.tracks
        drawn == VisualItems(tracks) \cup TextOverlays(tracks)
    IN  \/ job.document.transitions \/ job.document.effects
        \/ ~ValidSettings(job)
        \/ \E p \in Entered(tracks) : BadItem(ItemAt(tracks, p), job)
        \/ \E it \in drawn : ~ValidFrames(it)
        \/ drawn = {}

BuildManifest(job) ==
    LET tracks == job.document.tracks
        visual == VisualItems(tracks)
        texts == TextOverlays(tracks)
        audio == AudioItems(tracks)
    IN  [size |-> OutputSize(job),
         canvas |-> Canvas(job),
         visual |-> visual, texts |-> texts, audio |-> audio,
         media |-> {ItemAt(tracks, p).media :
                       p \in {q \in Entered(tracks) : ItemAt(tracks, q).type # "text"}},
         duration |-> DurationOf(visual \cup texts \cup audio)]

-----------------------------------------------------------------------------
(* _compose_and_encode_video: the frames of the output, the layers of a    *)
(* frame, and their order from the lowest one up.                          *)
FrameCount(manifest) ==
    Larger(1, Ceiling(Larger(Ceiling(One, 10), manifest.duration), FrameTicks))

ActiveAt(item, time) == item.start <= time /\ time < item.start + item.duration

Layers(manifest, frame) ==
    {it \in manifest.visual \cup manifest.texts : ActiveAt(it, frame * FrameTicks)}

IsBelow(a, b) == Before(<<a.stack, a.id>>, <<b.stack, b.id>>)

ItemTime(item, frame) == frame * FrameTicks - item.start

FirstFrame(item) == Larger(0, Ceiling(item.start, FrameTicks))

(* The decoder of a video starts where its first frame is and steps by     *)
(* speed / frame rate: the source position shown, times One.               *)
SourcePosition(item, frame) ==
    item.in * One + ItemTime(item, FirstFrame(item)) * item.speed
        + (frame - FirstFrame(item)) * FrameTicks * item.speed

(* _render_audio_track: what is heard of an audio item, times its speed.   *)
AudioLength(item) == Smaller(item.duration * item.speed, (item.out - item.in) * One)
=============================================================================
