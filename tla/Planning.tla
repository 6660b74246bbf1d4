------------------------------ MODULE Planning ------------------------------
(***************************************************************************)
(* PlanningService.plan_video_editor                                       *)
(* (src/kuvox_ai/modules/planning/service.py): the plan of one editing     *)
(* command over a timeline.  A plan is one action, or a refusal.           *)
(*                                                                         *)
(* Times, speeds and volumes are integers.  One is the number 1, and       *)
(* _round_time rounds to multiples of Grain: the code's Grain is a         *)
(* thousandth of One, and numbers may lie between its multiples.           *)
(*                                                                         *)
(* A timeline is a sequence of tracks with sequences of items.  A command  *)
(* is what the regular expressions take from the text: a verb, a target    *)
(* and numbers; None is a part that is missing or does not parse.          *)
(***************************************************************************)
EXTENDS Integers, Sequences, FiniteSets, SequencesExt, Ordering

CONSTANTS One, Grain, None

(* A product of two multiples of Grain is at least a unit.                 *)
ASSUME NumberAssumption ==
    /\ One \in Nat \ {0} /\ Grain \in Nat \ {0}
    /\ One % Grain = 0 /\ Grain * Grain >= One
    /\ None \notin Int

ItemTypes == {"video", "audio", "text", "image", "overlay"}

(* _round_time of n / d: the nearest multiple of Grain, and the even one   *)
(* of two.                                                                 *)
RoundRatio(n, d) ==
    LET unit == d * Grain
        low == n \div unit
        rest == 2 * (n % unit)
    IN  Grain * IF rest < unit \/ (rest = unit /\ low % 2 = 0) THEN low ELSE low + 1

RoundTime(t) == RoundRatio(t, 1)

-----------------------------------------------------------------------------
(* Where the items are: the number of the track and that of the item.      *)
Positions(tracks) ==
    UNION {{<<t, i>> : i \in DOMAIN tracks[t].items} : t \in DOMAIN tracks}

ItemAt(tracks, p) == tracks[p[1]].items[p[2]]

Earlier(p, q) == p[1] < q[1] \/ (p[1] = q[1] /\ p[2] < q[2])

CompatibleTypes(kind) ==
    CASE kind = "clip" -> {"video"}
      [] kind = "audio" -> {"audio"}
      [] kind = "any" -> ItemTypes

IsCompatible(item, kind) == item.type \in CompatibleTypes(kind)

(* No target in the command: the active item, if it fits and exists, or    *)
(* the selected ones that fit.                                             *)
DefaultTargets(request, kind) ==
    LET item(p) == ItemAt(request.timeline, p)
        named == {p \in Positions(request.timeline) : item(p).id = request.active}
        active == {p \in named : \A q \in named : ~Earlier(q, p)}
    IN  IF \E p \in active : IsCompatible(item(p), kind)
        THEN active
        ELSE {p \in Positions(request.timeline) :
                 item(p).id \in request.selected /\ IsCompatible(item(p), kind)}

(* What "clip 2", "audio 1", "text 1" or "item 3" counts.                  *)
CountedTypes(word) ==
    CASE word = "item" -> ItemTypes
      [] word \in {"clip", "video"} -> {"video"}
      [] word \in {"audio", "text"} -> {word}

(* An id wins over an ordinal, and an ordinal over a part of ids and texts:*)
(* words are the parts of its id and its text an item can be found by.     *)
TextTargets(request, target, kind) ==
    LET item(p) == ItemAt(request.timeline, p)
        places == {p \in Positions(request.timeline) : IsCompatible(item(p), kind)}
    IN  CASE target.by = "id" -> {p \in places : item(p).id = target.id}
          [] target.by = "ordinal" ->
                 LET counted == {p \in places : item(p).type \in CountedTypes(target.word)}
                 IN  {p \in counted :
                         Cardinality({q \in counted : Earlier(q, p)}) + 1 = target.n}
          [] target.by = "word" -> {p \in places : target.word \in item(p).words}

(* _resolve_single_target: its one match, or None when there are none or   *)
(* several.                                                                *)
SingleTarget(request, target, kind) ==
    LET matches == IF target.by = "default" THEN DefaultTargets(request, kind)
                   ELSE TextTargets(request, target, kind)
    IN  IF \E p \in matches : matches = {p}
        THEN ItemAt(request.timeline, CHOOSE p \in matches : TRUE) ELSE None

SelectedTargets(request) ==
    {ItemAt(request.timeline, p).id : p \in Positions(request.timeline)} \cap request.selected

-----------------------------------------------------------------------------
Refused == [ok |-> FALSE]
Planned(action) == [ok |-> TRUE, action |-> action]

(* Mutant: the range may begin before that of the item. *)
MediaRangeBefore(item, start, duration) ==
    LET speed == IF item.speed \in {None, 0} THEN One ELSE item.speed
        in == RoundRatio(item.in * One + (start - item.start) * speed, One)
        out == RoundRatio(in * One + duration * speed, One)
    IN  IF in >= 0 /\ out <= item.out /\ out > in
        THEN [in |-> in, out |-> out] ELSE None

(* _media_range_for_timeline_range: the part of the source that is played  *)
(* when the item is shown from start for duration; None if the item does   *)
(* not have it.  Speed 0, like a missing one, counts as 1.                 *)
MediaRange(item, start, duration) ==
    LET speed == IF item.speed \in {None, 0} THEN One ELSE item.speed
        in == RoundRatio(item.in * One + (start - item.start) * speed, One)
        out == RoundRatio(in * One + duration * speed, One)
    IN  IF in >= item.in /\ out <= item.out /\ out > in
        THEN [in |-> in, out |-> out] ELSE None

HasSource(item) == item.type \in {"video", "audio"}

TrimPlan(request, target, start, end) ==
    LET item == SingleTarget(request, target, "any")
        duration == RoundTime(end - start)
        trim(range) == Planned([type |-> "trim", id |-> item.id, start |-> RoundTime(start),
                                duration |-> duration, in |-> range.in, out |-> range.out])
    IN  IF end <= start \/ item = None THEN Refused
        ELSE IF ~HasSource(item) THEN trim([in |-> None, out |-> None])
        ELSE IF None \in {item.in, item.out} THEN Refused
        ELSE LET range == MediaRange(item, start, duration)
             IN  IF range = None THEN Refused ELSE trim(range)

(* Mutant: an item can be split at its ends. *)
SplitAtEnds(request, target, time) ==
    LET item == SingleTarget(request, target, "any")
        offset == RoundTime(time - item.start)
    IN  IF item = None THEN Refused
        ELSE IF offset < 0 \/ offset > item.duration THEN Refused
        ELSE Planned([type |-> "split", id |-> item.id, time |-> RoundTime(time)])

SplitPlan(request, target, time) ==
    LET item == SingleTarget(request, target, "any")
        offset == RoundTime(time - item.start)
    IN  IF item = None THEN Refused
        ELSE IF offset <= 0 \/ offset >= item.duration THEN Refused
        ELSE Planned([type |-> "split", id |-> item.id, time |-> RoundTime(time)])

DeletePlan(request, target) ==
    LET item == SingleTarget(request, target, "any")
        ids == IF target.by = "default" THEN SelectedTargets(request)
               ELSE IF item = None THEN {} ELSE {item.id}
    IN  IF ids = {} THEN Refused ELSE Planned([type |-> "delete", ids |-> ids])

MovePlan(request, target, time) ==
    LET item == SingleTarget(request, target, "any")
    IN  IF item = None THEN Refused
        ELSE Planned([type |-> "move", id |-> item.id, start |-> RoundTime(time)])

(* volume is a fraction of One, as the code has divided the percentage.    *)
VolumePlan(request, target, volume) ==
    LET item == SingleTarget(request, target, "audio")
    IN  IF volume > One \/ item = None THEN Refused
        ELSE Planned([type |-> "volume", id |-> item.id, volume |-> RoundTime(volume)])

SpeedPlan(request, target, rate) ==
    LET item == SingleTarget(request, target, "clip")
    IN  IF rate <= 0 \/ item = None THEN Refused
        ELSE Planned([type |-> "speed", id |-> item.id, speed |-> RoundTime(rate)])

Playhead(request) == IF request.playback = None THEN request.playhead ELSE request.playback

(* plan_video_editor: the first pattern the command matches.  A number     *)
(* that does not parse, and a command no pattern matches, are refused.     *)
PlanVideoEditor(request) ==
    LET c == request.command
    IN  CASE c.verb = "split_here" -> SplitPlan(request, [by |-> "default"], Playhead(request))
          [] c.verb = "add_text" ->
                 Planned([type |-> "text", start |-> RoundTime(Playhead(request))])
          [] c.verb = "add_text_at" /\ c.time # None ->
                 Planned([type |-> "text", start |-> RoundTime(c.time)])
          [] c.verb = "trim_from" /\ None \notin {c.from, c.to} ->
                 TrimPlan(request, c.target, c.from, c.to)
          [] c.verb = "trim_to" /\ c.time # None ->
                 LET item == SingleTarget(request, c.target, "any")
                 IN  IF item = None THEN Refused
                     ELSE TrimPlan(request, c.target, item.start, item.start + c.time)
          [] c.verb = "split_at" /\ c.time # None -> SplitPlan(request, c.target, c.time)
          [] c.verb = "delete" -> DeletePlan(request, c.target)
          [] c.verb = "move" /\ c.time # None -> MovePlan(request, c.target, c.time)
          [] c.verb = "volume" -> VolumePlan(request, c.target, c.volume)
          [] c.verb = "speed" -> SpeedPlan(request, c.target, c.rate)
          [] OTHER -> Refused
=============================================================================
