---------------------------- MODULE VideoEditing ----------------------------
(***************************************************************************)
(* An editing session over one document: commands are planned by           *)
(* PlanningService, the plans are applied, and the document can be         *)
(* exported at any time, by the manifest that RenderingService builds.     *)
(*                                                                         *)
(* The editor that applies the plans is not part of the repository: it is  *)
(* modelled from the fields of the actions and from how build_manifest     *)
(* reads the items that come of them.                                      *)
(***************************************************************************)
EXTENDS RenderManifest

CONSTANTS
    Documents, \* documents an editor may begin with
    LastId,    \* bound on the ids of their items
    Sources,   \* the media of the project, as the API resolved them
    Times,     \* times in commands
    Rates,     \* speeds in commands
    MaxPlans   \* bound on the plans that are applied

Maybe(S) == S \cup {None}

Item ==
    [id : Nat, type : ItemTypes, media : Maybe(STRING), start : Int, duration : Int,
     in : Maybe(Int), out : Maybe(Int), speed : Maybe(Int), group : Maybe(STRING),
     layer : Maybe(Int), muted : BOOLEAN, volume : Maybe(Int), scale : Int, crop : Int,
     anim : Seq([time : Int, value : Int]), style : SUBSET STRING, words : SUBSET ItemTypes]

Track == [kind : STRING, hidden : BOOLEAN, muted : BOOLEAN, items : Seq(Item)]

Speed(item) == Default(item.speed, One)

(* The items of an editor have times and a speed the renderer accepts, and *)
(* as much of their source as they show, beyond a rounding; their ids      *)
(* differ, and videos are on video tracks.                                 *)
ASSUME DocumentAssumption ==
    \A d \in Documents :
        /\ DOMAIN d = {"tracks", "transitions", "effects", "width", "height"}
        /\ d.tracks \in Seq(Track) /\ d.tracks # <<>>
        /\ \A p \in Positions(d.tracks) :
              LET item == ItemAt(d.tracks, p) IN
              /\ item.id <= LastId
              /\ item.duration > 0 /\ ~BadTiming(item)
              /\ HasSource(item) =>
                    2 * (item.in * One + item.duration * Speed(item))
                        <= (2 * item.out + Grain) * One
              /\ item.type = "video" => d.tracks[p[1]].kind = "video"
              /\ \A q \in Positions(d.tracks) : ItemAt(d.tracks, q).id = item.id => q = p

ASSUME EditingAssumption ==
    LastId \in Nat /\ Times \subseteq Nat /\ Rates \subseteq Nat /\ MaxPlans \in Nat

VARIABLES
    document,  \* the document of the editor
    sources,   \* the media that a job for it names
    applied,   \* the number of plans that were applied
    reach,     \* history: the part of its source each item had at first
    even,      \* history: all times of the document were multiples of Grain at first
    exact,     \* history: and so were all numbers of the commands
    sped       \* history: ids whose speed was changed by a plan, and the parts
               \* they were split into

editing == <<document, sources, applied, reach, even, exact, sped>>

EditedJob == [document |-> document, sources |-> sources,
              settings |-> [width |-> None, height |-> None]]

Timeline == document.tracks
AllItems == {ItemAt(Timeline, p) : p \in Positions(Timeline)}

-----------------------------------------------------------------------------
EditInit ==
    /\ document \in Documents
    /\ sources = Sources
    /\ applied = 0
    /\ reach = [id \in {it.id : it \in AllItems} |->
                    LET item == CHOOSE it \in AllItems : it.id = id
                    IN  [in |-> item.in, out |-> item.out]]
    /\ even = \A it \in AllItems :
                 \A t \in {it.start, it.duration, it.speed, it.out} \ {None} : t % Grain = 0
    /\ exact = even
    /\ sped = {}

-----------------------------------------------------------------------------
Targets ==
    {[by |-> "default"], [by |-> "word", word |-> "text"],
     [by |-> "ordinal", word |-> "clip", n |-> 1]}

Commands ==
    {[verb |-> "trim_from", target |-> t, from |-> a, to |-> b] :
        t \in Targets, a \in Times, b \in Times}
    \cup {[verb |-> v, target |-> t, time |-> a] :
             v \in {"trim_to", "split_at", "move"}, t \in Targets, a \in Times}
    \cup {[verb |-> "delete", target |-> t] : t \in Targets}
    \cup {[verb |-> "speed", target |-> t, rate |-> r] : t \in Targets, r \in Rates}
    \cup {[verb |-> "volume", target |-> t, volume |-> r] : t \in Targets, r \in Rates}
    \cup {[verb |-> "add_text_at", time |-> a] : a \in Times}
    \cup {[verb |-> v] : v \in {"split_here", "add_text"}}

(* The playhead is where the second frame begins.                          *)
Numbers(command) ==
    {command[f] : f \in DOMAIN command \cap {"time", "from", "to", "rate", "volume"}}
    \cup IF command.verb = "split_here" THEN {FrameTicks} ELSE {}

(* What the request says is selected: nothing, one item or all.            *)
Selections ==
    LET ids == {it.id : it \in AllItems} IN {{}, ids} \cup {{id} : id \in ids}

Request(command, selected) ==
    [command |-> command, timeline |-> Timeline, selected |-> selected,
     active |-> None, playback |-> None, playhead |-> FrameTicks]

FreshId == LastId + 1 + applied

TextAt(start) ==
    [id |-> FreshId, type |-> "text", media |-> None, start |-> start, duration |-> 2 * One,
     in |-> None, out |-> None, speed |-> None, group |-> None, layer |-> None,
     muted |-> FALSE, volume |-> None, scale |-> One, crop |-> 0, anim |-> <<>>,
     style |-> {}, words |-> {"text"}]

(* The place in its source that an item shows after offset.                *)
SourceAt(item, offset) ==
    IF item.in = None THEN None ELSE item.in + (offset * Speed(item)) \div One

FirstPart(item, time) ==
    [item EXCEPT !.duration = time - item.start,
                 !.out = IF @ = None THEN None ELSE SourceAt(item, time - item.start)]

SecondPart(item, time) ==
    [item EXCEPT !.id = FreshId, !.start = time, !.duration = @ - (time - item.start),
                 !.in = SourceAt(item, time - item.start)]

Changed(plan, item) ==
    CASE plan.type = "trim" -> [item EXCEPT !.start = plan.start, !.duration = plan.duration,
                                            !.in = plan.in, !.out = plan.out]
      [] plan.type = "move" -> [item EXCEPT !.start = plan.start]
      [] plan.type = "volume" -> [item EXCEPT !.volume = plan.volume, !.muted = FALSE]
      [] plan.type = "speed" -> [item EXCEPT !.speed = plan.speed]

Without(items, ids) ==
    LET kept == {i \in DOMAIN items : items[i].id \notin ids}
        order == Sorted(kept, {p \in kept \X kept : p[1] < p[2]}, Len(items))
    IN  [k \in DOMAIN order |-> items[order[k]]]

(* The tracks after a plan.                                                *)
Applied(plan) ==
    LET p == CHOOSE q \in Positions(Timeline) : ItemAt(Timeline, q).id = plan.id
        item == ItemAt(Timeline, p)
        items == Timeline[p[1]].items
    IN  CASE plan.type = "text" ->
                 [Timeline EXCEPT ![Len(Timeline)].items = Append(@, TextAt(plan.start))]
          [] plan.type = "delete" ->
                 [t \in DOMAIN Timeline |->
                     [Timeline[t] EXCEPT !.items = Without(@, plan.ids)]]
          [] plan.type = "split" ->
                 [Timeline EXCEPT ![p[1]].items =
                     InsertAt([items EXCEPT ![p[2]] = FirstPart(item, plan.time)], p[2] + 1,
                              SecondPart(item, plan.time))]
          [] OTHER ->
                 [Timeline EXCEPT ![p[1]].items = [items EXCEPT ![p[2]] = Changed(plan, item)]]

(* One request to the planner, and the editor's step with its plan; a      *)
(* refusal changes nothing.                                                *)
Edit(command, selected) ==
    LET plan == PlanVideoEditor(Request(command, selected))
        action == plan.action
    IN  /\ applied < MaxPlans
        /\ plan.ok
        /\ document' = [document EXCEPT !.tracks = Applied(action)]
        /\ reach' = IF action.type = "split" /\ action.id \in DOMAIN reach
                    THEN [id \in DOMAIN reach \cup {FreshId} |->
                             reach[IF id = FreshId THEN action.id ELSE id]]
                    ELSE reach
        /\ sped' = sped \cup (IF action.type = "speed" THEN {action.id} ELSE {})
                        \cup (IF action.type = "split" /\ action.id \in sped THEN {FreshId} ELSE {})
        /\ exact' = (exact /\ \A n \in Numbers(command) : n % Grain = 0)
        /\ applied' = applied + 1
        /\ UNCHANGED <<sources, even>>

EditNext == \E command \in Commands, selected \in Selections : Edit(command, selected)

EditSpec == EditInit /\ [][EditNext]_editing

-----------------------------------------------------------------------------
(* Plans that were applied one after the other leave every item with times *)
(* and a speed the renderer accepts, if the times of the document and the  *)
(* numbers of the commands have no more than three decimals (_round_time   *)
(* of the planner, BadTiming and _positive_float of the renderer).  With   *)
(* finer numbers a speed or a duration can be rounded to 0, and a split to *)
(* the end of the item.                                                    *)
PlansKeepRenderable ==
    exact => \A it \in AllItems : it.duration > 0 /\ ~BadTiming(it)

(* However often clips are trimmed, split and moved, by whatever numbers,  *)
(* no frame of the export shows what was not in the clip at first, and no  *)
(* sound is over before its picture, beyond a rounding: the video decoder  *)
(* is given no end, so the range is kept by the planner alone.  What is    *)
(* shown after a changed speed is excepted: the action says nothing of the *)
(* duration; and so are documents whose times have more than three         *)
(* decimals, in which a split may be rounded beyond the end of an item.    *)
ShowsItsRange ==
    LET manifest == BuildManifest(EditedJob) IN
    even =>
        /\ \A it \in manifest.visual :
              it.type = "video" /\ it.id \notin sped =>
                  \A f \in 0..FrameCount(manifest) :
                      ActiveAt(it, f * FrameTicks) =>
                          /\ SourcePosition(it, f) >= reach[it.id].in * One
                          /\ SourcePosition(it, f) < (reach[it.id].out + Grain) * One
        /\ \A x \in manifest.audio :
              x.id \notin sped => AudioLength(x) + Grain * One >= x.duration * x.speed

(* However a linked pair is hidden, muted, split or deleted, nothing of it *)
(* is heard twice, and a video is silent only if its track is muted or an  *)
(* audio item that is not on a hidden track owns its sound                 *)
(* (explicit_audio_owner_groups of build_manifest).                        *)
SoundHasOneOwner ==
    LET audio == AudioItems(Timeline)
    IN  /\ \A x, y \in audio : x.group = y.group /\ x.group # None => x.owner = y.owner
        /\ \A p \in Entered(Timeline) :
              ItemAt(Timeline, p).type = "video" /\ ~Timeline[p[1]].muted =>
                  \/ \E x \in audio : x.id = ItemAt(Timeline, p).id
                  \/ \E q \in Positions(Timeline) :
                        /\ ~Timeline[q[1]].hidden /\ ItemAt(Timeline, q).type = "audio"
                        /\ ItemAt(Timeline, q).group = ItemAt(Timeline, p).group

(* What the export shows of an item at a frame is a state the validation   *)
(* accepted, if the item starts on a frame: the validation counts frames   *)
(* from the item's start, the frame loop from the start of the timeline.   *)
RenderedStatesAreValid ==
    ~Rejected(EditedJob) =>
        LET manifest == BuildManifest(EditedJob)
        IN  \A it \in manifest.visual \cup manifest.texts :
                it.start % FrameTicks = 0 =>
                    \A f \in 0..FrameCount(manifest) :
                        ActiveAt(it, f * FrameTicks) => ValidAt(it, ItemTime(it, f))

(* The layers of a frame: whatever was split, moved or added, overlays and *)
(* texts are above every video, and no two layers share their place        *)
(* (_stack_orders, and the sort of the frame loop).                        *)
LayersAreOrdered ==
    LET manifest == BuildManifest(EditedJob)
    IN  \A f \in 0..FrameCount(manifest) : \A x, y \in Layers(manifest, f) :
            /\ x.id # y.id => x.stack # y.stack
            /\ x.type = "video" /\ y.type \in {"text", "overlay"} => IsBelow(x, y)
=============================================================================
