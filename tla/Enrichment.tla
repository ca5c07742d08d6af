----------------------------- MODULE Enrichment -----------------------------
(***************************************************************************)
(* What is looked up for a recording elsewhere: where it was made, which   *)
(* photos were taken, what the place is called.                            *)
(*                                                                         *)
(*   enrich-locations, enrich-photos     jobs/enrich.py, jobs/retry.py     *)
(*   geocode-locations                                 jobs/geocode.py     *)
(*   the refresh buttons, and PATCH of date and location    app/api.py     *)
(*                                                                         *)
(* A lookup is two steps: what is asked is read, and after the slow call   *)
(* the answer is stored and committed.  Requests come in between.  A       *)
(* track, a photo and a name are known by the date or the position they    *)
(* were asked for.                                                         *)
(***************************************************************************)
EXTENDS Integers, FiniteSets

CONSTANTS
    Resources,
    Dates,
    Positions,
    Near,           \* pairs of positions within PLACE_MOVED_METRES
    Pin,            \* the position the provider finds for a date, or None
    Nameless,       \* positions the geocoder finds no name for
    Threshold,      \* EXTERNAL_CIRCUIT_THRESHOLD
    Batch,          \* PLACE_BATCH
    MaxEdits,       \* bound: requests that change something
    MaxOutages,     \* bound: calls that fail, and kills
    None, Typed

Kinds == {"location", "photos", "place"}

VARIABLES
    date,           \* captured_at
    exact,          \* captured_at_precision is "exact"
    active,         \* status is pending-review or filed
    checked,        \* dawarich_checked_at, immich_checked_at
    track,          \* the date whose track points are stored
    photos,         \* the dates whose photos are stored
    place,          \* the locations row
    job,            \* each sweeping job
    request,        \* a refresh request waiting for its answer
    edits, outages, \* so far
    made,           \* locations rows made so far
    overtaken,      \* history: dates changed while they were looked up
    displaced       \* history: places changed while their name was asked

vars == <<date, exact, active, checked, track, photos, place, job, request,
          edits, outages, made, overtaken, displaced>>
recording == <<date, exact, active>>
places == <<place, made, displaced>>

-----------------------------------------------------------------------------
Location == [id : Nat, at : Positions, manual : BOOLEAN,
             name : Positions \cup {Typed, None}, checked : BOOLEAN]

(* A call in progress: for which recording, and what was asked.            *)
Call == [kind : Kinds, of : Resources, id : Nat, asked : Dates \cup Positions]

EnrichmentAssumption ==
    /\ Near \subseteq Positions \X Positions
    /\ \A p \in Positions : <<p, p>> \in Near
    /\ Pin \in [Dates -> Positions \cup {None}]
    /\ Nameless \subseteq Positions
    /\ {Threshold, Batch} \subseteq Nat \ {0}
    /\ {MaxEdits, MaxOutages} \subseteq Nat
    /\ {None, Typed} \cap (Positions \cup Dates \cup Resources) = {} /\ None # Typed
    /\ None \notin Location /\ None \notin Call

(* todo: what a job has still to ask, with the id of the locations row.    *)
Job == [on : BOOLEAN, todo : SUBSET (Resources \X Nat), call : Call \cup {None},
        failures : 0 .. Threshold]

TypeOK ==
    /\ date \in [Resources -> Dates \cup {None}]
    /\ exact \in [Resources -> BOOLEAN] /\ active \in [Resources -> BOOLEAN]
    /\ checked \in [{"location", "photos"} -> SUBSET Resources]
    /\ track \in [Resources -> Dates \cup {None}]
    /\ photos \in [Resources -> SUBSET Dates]
    /\ place \in [Resources -> Location \cup {None}]
    /\ job \in [Kinds -> Job]
    /\ request \in Call \cup {None}
    /\ edits \in 0 .. MaxEdits /\ outages \in 0 .. MaxOutages /\ made \in Nat
    /\ overtaken \subseteq Resources /\ displaced \subseteq Resources

Resting == [on |-> FALSE, todo |-> {}, call |-> None, failures |-> 0]

Edit == edits < MaxEdits /\ edits' = edits + 1

Outage == outages < MaxOutages /\ outages' = outages + 1

Calls == {request, job["location"].call, job["photos"].call, job["place"].call} \ {None}

-----------------------------------------------------------------------------
(* What is stored                                                          *)

Moved(loc, p) == loc = None \/ <<loc.at, p>> \notin Near

(* Mutant: the old name stays when the place moves.                        *)
PlacedKeepsName(loc, p, manual) ==
    IF loc = None
    THEN [id |-> made + 1, at |-> p, manual |-> manual, name |-> None, checked |-> FALSE]
    ELSE [loc EXCEPT !.at = p, !.manual = manual]

(* Mutant: the name is forgotten, but not that it was looked up.           *)
PlacedChecked(loc, p, manual) ==
    IF Moved(loc, p)
    THEN [id |-> IF loc = None THEN made + 1 ELSE loc.id, at |-> p, manual |-> manual,
          name |-> None, checked |-> loc # None /\ loc.checked]
    ELSE [loc EXCEPT !.at = p, !.manual = manual]

(* A row for position p; a name survives only if the place has not moved.  *)
Placed(loc, p, manual) ==
    IF Moved(loc, p)
    THEN [id |-> IF loc = None THEN made + 1 ELSE loc.id, at |-> p, manual |-> manual,
          name |-> None, checked |-> FALSE]
    ELSE [loc EXCEPT !.at = p, !.manual = manual]

Note(set, r, now) == IF now THEN set \cup {r} ELSE set \ {r}

InNaming(r) == \E c \in Calls : c.of = r /\ c.kind = "place"

Store(r, loc) ==
    /\ place' = [place EXCEPT ![r] = loc]
    /\ made' = IF loc # None /\ place[r] = None THEN made + 1 ELSE made
    /\ displaced' = IF loc # None /\ place[r] # None /\ <<place[r].at, loc.at>> \in Near
                    THEN displaced
                    ELSE Note(displaced, r, loc # None /\ place[r] # None /\ InNaming(r))

(* Mutant: an automatic pin replaces any location.                         *)
ApplyLocationOver(r, d) ==
    /\ track' = [track EXCEPT ![r] = d]
    /\ IF Pin[d] = None
       THEN UNCHANGED places
       ELSE Store(r, Placed(place[r], Pin[d], FALSE))

(* apply_location_result: the track is replaced, a pin set by hand stays.  *)
ApplyLocation(r, d) ==
    /\ track' = [track EXCEPT ![r] = d]
    /\ IF Pin[d] = None \/ (place[r] # None /\ place[r].manual)
       THEN UNCHANGED places
       ELSE Store(r, Placed(place[r], Pin[d], FALSE))

(* apply_lookup                                                            *)
Named(loc, p) == [loc EXCEPT !.name = IF p \in Nameless THEN None ELSE p, !.checked = TRUE]

(* What the answer to call c changes.                                      *)
Apply(c) ==
    CASE c.kind = "location" ->
            /\ ApplyLocation(c.of, c.asked)
            /\ checked' = [checked EXCEPT !["location"] = @ \cup {c.of}]
            /\ UNCHANGED photos
      [] c.kind = "photos" ->
            /\ photos' = [photos EXCEPT ![c.of] = @ \cup {c.asked}]
            /\ checked' = [checked EXCEPT !["photos"] = @ \cup {c.of}]
            /\ UNCHANGED <<track, places>>
      [] c.kind = "place" ->
            /\ Store(c.of, Named(place[c.of], c.asked))
            /\ UNCHANGED <<track, photos, checked>>

Unstored == UNCHANGED <<track, photos, places, checked>>

-----------------------------------------------------------------------------
(* The sweeping jobs                                                       *)

Queued(k, r) ==
    IF k = "place" THEN place[r] # None /\ ~place[r].checked
    ELSE date[r] # None /\ exact[r] /\ active[r] /\ r \notin checked[k]

RowId(k, r) == IF k = "place" THEN place[r].id ELSE 0

Candidates(k) == {<<r, RowId(k, r)>> : r \in {x \in Resources : Queued(k, x)}}

(* The geocoder takes a batch of the rows, in the order of their random id.*)
Taken(k) ==
    IF k = "place"
    THEN {S \in SUBSET Candidates(k) :
              \/ Cardinality(S) = Batch
              \/ Cardinality(S) < Batch /\ S = Candidates(k)}
    ELSE {Candidates(k)}

Begin(k) ==
    /\ ~job[k].on
    /\ \E S \in Taken(k) : job' = [job EXCEPT ![k] = [Resting EXCEPT !.on = TRUE, !.todo = S]]
    /\ UNCHANGED <<recording, request, edits, outages, overtaken>> /\ Unstored

Tripped(k) == job[k].failures >= Threshold

(* The row is as it is now, which need not be why it was chosen; only the  *)
(* geocoder looks whether there is still something to ask.                 *)
Current(k, c) ==
    k = "place" => /\ place[c[1]] # None /\ place[c[1]].id = c[2]
                   /\ ~place[c[1]].checked

Sought(k, r) == IF k = "place" THEN place[r].at ELSE date[r]

Ask(k, c) ==
    /\ job[k].call = None /\ c \in job[k].todo /\ ~Tripped(k)
    /\ Current(k, c) /\ Sought(k, c[1]) # None
    /\ job' = [job EXCEPT ![k].todo = @ \ {c},
                          ![k].call = [kind |-> k, of |-> c[1], id |-> c[2],
                                       asked |-> Sought(k, c[1])]]
    /\ UNCHANGED <<recording, request, edits, outages, overtaken>> /\ Unstored

Skip(k, c) ==
    /\ job[k].call = None /\ c \in job[k].todo /\ ~Tripped(k) /\ ~Current(k, c)
    /\ job' = [job EXCEPT ![k].todo = @ \ {c}]
    /\ UNCHANGED <<recording, request, edits, outages, overtaken>> /\ Unstored

(* The date of a candidate was removed meanwhile: the run dies of it.      *)
AskNothing(k, c) ==
    /\ job[k].call = None /\ c \in job[k].todo /\ ~Tripped(k)
    /\ Current(k, c) /\ Sought(k, c[1]) = None
    /\ job' = [job EXCEPT ![k] = Resting]
    /\ UNCHANGED <<recording, request, edits, outages, overtaken>> /\ Unstored

(* Only the geocoder reads its row again before it writes: typed or        *)
(* answered meanwhile, it is left alone.                                   *)
StillWanted(c) == c.kind = "place" => ~place[c.of].checked

Gone(c) == ~(c.kind = "place" => place[c.of] # None /\ place[c.of].id = c.id)

Answer(k) ==
    LET c == job[k].call
    IN  /\ c # None /\ ~Gone(c)
        /\ job' = [job EXCEPT ![k].call = None, ![k].failures = 0]
        /\ IF StillWanted(c) THEN Apply(c) ELSE Unstored
        /\ UNCHANGED <<recording, request, edits, outages, overtaken>>

(* The row was deleted meanwhile: reading it again raises, the run dies.   *)
AnswerGone(k) ==
    /\ job[k].call # None /\ Gone(job[k].call)
    /\ job' = [job EXCEPT ![k] = Resting]
    /\ UNCHANGED <<recording, request, edits, outages, overtaken>> /\ Unstored

(* Mutant: every attempt of a call counts as a failure of its own.         *)
UnavailableCountsTries(k) ==
    /\ job[k].call # None /\ Outage
    /\ job' = [job EXCEPT ![k].call = None, ![k].failures = @ + 2]
    /\ UNCHANGED <<recording, request, edits, overtaken>> /\ Unstored

(* All attempts failed: nothing is marked, the next run asks again.        *)
Unavailable(k) ==
    /\ job[k].call # None /\ Outage
    /\ job' = [job EXCEPT ![k].call = None, ![k].failures = @ + 1]
    /\ UNCHANGED <<recording, request, edits, overtaken>> /\ Unstored

End(k) ==
    /\ job[k].on /\ job[k].call = None /\ (job[k].todo = {} \/ Tripped(k))
    /\ job' = [job EXCEPT ![k] = Resting]
    /\ UNCHANGED <<recording, request, edits, outages, overtaken>> /\ Unstored

Kill(k) ==
    /\ job[k].on /\ Outage
    /\ job' = [job EXCEPT ![k] = Resting]
    /\ UNCHANGED <<recording, request, edits, overtaken>> /\ Unstored

-----------------------------------------------------------------------------
(* The refresh buttons: one call, no second try.                           *)

Refresh(k, r) ==
    /\ request = None /\ Edit
    /\ IF k = "place" THEN place[r] # None ELSE date[r] # None /\ exact[r]
    /\ request' = [kind |-> k, of |-> r, id |-> RowId(k, r), asked |-> Sought(k, r)]
    /\ UNCHANGED <<recording, job, outages, overtaken>> /\ Unstored

RefreshAnswer ==
    /\ request # None /\ request' = None
    /\ IF Gone(request) THEN Unstored ELSE Apply(request)
    /\ UNCHANGED <<recording, job, edits, outages, overtaken>>

RefreshFails ==
    /\ request # None /\ request' = None
    /\ Outage
    /\ UNCHANGED <<recording, job, edits, overtaken>> /\ Unstored

-----------------------------------------------------------------------------
(* PATCH /resources/<id>, one field of it at a time.                       *)

(* Is r in some lookup by date, or about to be?                            *)
InLookup(r) ==
    \/ \E c \in Calls : c.of = r /\ c.kind # "place"
    \/ \E k \in {"location", "photos"} : <<r, 0>> \in job[k].todo

(* Mutant: the automatic pin is left where the old date put it.            *)
ClearDerivedKeepsPin(r) ==
    /\ track' = [track EXCEPT ![r] = None]
    /\ photos' = [photos EXCEPT ![r] = {}]
    /\ checked' = [k \in DOMAIN checked |-> checked[k] \ {r}]
    /\ UNCHANGED places

(* _clear_derived_by_time                                                  *)
ClearDerived(r) ==
    /\ track' = [track EXCEPT ![r] = None]
    /\ photos' = [photos EXCEPT ![r] = {}]
    /\ checked' = [k \in DOMAIN checked |-> checked[k] \ {r}]
    /\ IF place[r] # None /\ ~place[r].manual THEN Store(r, None) ELSE UNCHANGED places

SetDate(r, d, precise) ==
    /\ Edit /\ <<d, precise>> # <<date[r], exact[r]>>
    /\ d = None => ~precise
    /\ date' = [date EXCEPT ![r] = d] /\ exact' = [exact EXCEPT ![r] = precise]
    /\ ClearDerived(r)
    /\ overtaken' = Note(overtaken, r, InLookup(r))
    /\ UNCHANGED <<active, job, request, outages>>

SetActive(r) ==
    /\ Edit
    /\ active' = [active EXCEPT ![r] = ~@]
    /\ UNCHANGED <<date, exact, job, request, outages, overtaken>> /\ Unstored

SetLocation(r, p) ==
    /\ Edit
    /\ Store(r, Placed(place[r], p, TRUE))
    /\ UNCHANGED <<recording, track, photos, checked, job, request, outages, overtaken>>

(* set_manual_place; an empty name queues a lookup.                        *)
SetName(r, name) ==
    /\ Edit /\ place[r] # None
    /\ Store(r, [place[r] EXCEPT !.name = name, !.checked = (name # None)])
    /\ UNCHANGED <<recording, track, photos, checked, job, request, outages, overtaken>>

-----------------------------------------------------------------------------
Init ==
    /\ date \in [Resources -> Dates \cup {None}]
    /\ exact = [r \in Resources |-> date[r] # None]
    /\ active = [r \in Resources |-> TRUE]
    /\ checked = [k \in {"location", "photos"} |-> {}]
    /\ track = [r \in Resources |-> None] /\ photos = [r \in Resources |-> {}]
    /\ place = [r \in Resources |-> None]
    /\ job = [k \in Kinds |-> Resting] /\ request = None
    /\ edits = 0 /\ outages = 0 /\ made = 0
    /\ overtaken = {} /\ displaced = {}

JobStep(k) ==
    \/ Begin(k) \/ End(k) \/ Answer(k) \/ AnswerGone(k) \/ Unavailable(k)
    \/ \E c \in job[k].todo : Ask(k, c) \/ Skip(k, c) \/ AskNothing(k, c)

Patch(r) ==
    \/ \E d \in Dates \cup {None}, precise \in BOOLEAN : SetDate(r, d, precise)
    \/ \E p \in Positions : SetLocation(r, p)
    \/ \E name \in {Typed, None} : SetName(r, name)
    \/ SetActive(r)

Next ==
    \/ \E k \in Kinds : JobStep(k) \/ Kill(k) \/ \E r \in Resources : Refresh(k, r)
    \/ RefreshAnswer \/ RefreshFails
    \/ \E r \in Resources : Patch(r)

Spec == Init /\ [][Next]_vars

(* The jobs are on timers, and every call has a timeout.                   *)
FairSpec ==
    /\ Spec /\ WF_vars(RefreshAnswer)
    /\ \A k \in Kinds : WF_vars(JobStep(k))

-----------------------------------------------------------------------------
(* A track, photos and an automatic pin are those of the date the          *)
(* recording has now, nothing is kept for a date that is not exact, and    *)
(* what is marked as checked was asked for this date; unless the date was  *)
(* changed while a lookup for it was under way.                            *)
DerivedFitsDate ==
    \A r \in Resources \ overtaken :
        /\ track[r] \in {None, date[r]}
        /\ photos[r] \subseteq {date[r]}
        /\ place[r] # None /\ ~place[r].manual => exact[r] /\ place[r].at = Pin[date[r]]
        /\ r \in checked["location"] => exact[r] /\ track[r] = date[r]
        /\ r \in checked["photos"] => exact[r] /\ photos[r] = {date[r]}

(* Can a pin get from p to q by moves within PLACE_MOVED_METRES each.      *)
Drifts(p, q) ==
    \A S \in SUBSET Positions :
        p \in S /\ (\A move \in Near : move[1] \in S => move[2] \in S) => q \in S

(* A looked-up name is that of a place from which the pin has only moved   *)
(* by less than PLACE_MOVED_METRES at a time, unless the recording was     *)
(* moved while its name was asked.                                         *)
NameFitsPlace ==
    \A r \in Resources \ displaced :
        place[r] # None /\ place[r].name \in Positions
            => Drifts(place[r].name, place[r].at)

(* Without a request, nothing entered by hand changes: no job moves a      *)
(* location set on the map, or replaces a typed name where it is; to move  *)
(* the location away from under a typed name is to forget it.              *)
KeepsByHand ==
    edits' = edits => \A r \in Resources : place[r] # None =>
        /\ place[r].manual =>
               place'[r] # None /\ place'[r].at = place[r].at /\ place'[r].manual
        /\ place[r].name = Typed =>
               /\ place'[r] # None
               /\ \/ place'[r].name = Typed \/ request # request'
                  \/ Moved(place[r], place'[r].at)

ByHandStays == [][KeepsByHand]_vars

(* Every queued lookup is made in the end, however many runs are cut short *)
(* by an outage, a dead run or a kill, and every place that has a name     *)
(* gets one.                                                               *)
HasName(r) ==
    \/ place[r] = None \/ place[r].name # None
    \/ place[r].at \in Nameless \/ r \in displaced

CatchesUp ==
    \A r \in Resources : []<>HasName(r) /\ \A k \in Kinds : []<>~Queued(k, r)

=============================================================================
