------------------------------ MODULE Grouping ------------------------------
(***************************************************************************)
(* Which recordings belong together, and what is made of them.             *)
(*                                                                         *)
(*   suggest-groupings, join-groups                     jobs/grouping.py   *)
(*   POST /groups/<id>/confirm, /dismiss                      app/api.py   *)
(*                                                                         *)
(* A group is known by its members, since no file is ever grouped twice.   *)
(* A step is a commit, or what happens between two of them: ffprobe and    *)
(* ffmpeg take minutes, and requests, filing, a kill or the loss of the    *)
(* NAS mount come in.  The same parts joined again give the same bytes and *)
(* checksum.                                                               *)
(***************************************************************************)
EXTENDS Integers, FiniteSetsExt

CONSTANTS
    Files,          \* originals, each with a duration
    Late,           \* which of them may be ingested only later: a choice of sets
    Metas,          \* what may be known of them, from their names and ffprobe
    Order,          \* of the rows of a query that are alike to what it sorts by
    SplitSeconds,   \* of each recorder profile; 0 = it does not split
    GapMin, GapMax, \* SPLIT_GAP_MIN_SECONDS, SPLIT_GAP_MAX_SECONDS
    Tolerance,      \* how far a duration may be off
    StartTolerance, \* MULTITRACK_START_TOLERANCE_SECONDS
    MaxSpan,        \* MULTITRACK_MAX_SPAN_SECONDS
    BatchWindow,    \* MULTITRACK_BATCH_WINDOW_SECONDS
    Budget,         \* bytes staging may hold
    MaxRequests,    \* bound: confirms and dismisses
    MaxFaults,      \* bound: kills, failed ffmpeg calls, losses of the mount
    None

VARIABLES
    meta,           \* of each file: Meta; fixed
    at,             \* where each file is
    group,          \* group_id: the members, {} for NULL
    type, state,    \* group_type, group_status of each file
    results,        \* joined Resources: the group each is made of, and where it is
    left,           \* the files in staging/joins/<group>: joined, or half written
    suggest,        \* suggest_groupings: the groups still to be stamped
    join,           \* join_pending_groups
    request,        \* a confirm or dismiss between its query and its commit
    mounted,        \* is the NAS there
    requests, faults,   \* so far
    overtaken       \* history: was join.cur dismissed since its members were read

vars == <<meta, at, group, type, state, results, left, suggest, join, request,
          mounted, requests, faults, overtaken>>
labels == <<group, type, state>>
work == <<suggest, join, request>>
disk == <<at, results, left>>
bounds == <<requests, faults, overtaken>>

-----------------------------------------------------------------------------
Meta == [start : Int \cup {None}, exact : BOOLEAN, len : Nat,
         profile : DOMAIN SplitSeconds \cup {None},
         stem : STRING, label : Int,        \* the name: what tracks share, what varies
         folder : STRING \cup {None}, arrived : Nat, format : STRING]

Groups == SUBSET Files

States == {"suggested", "joining", "joined", "join-failed", "confirmed", "dismissed"}

Join == [pc : {"idle", "next", "probe", "encode", "save"}, todo : SUBSET Groups, cur : Groups,
         from : [Files -> {"away", "staging", "nas"}]]

GroupingAssumption ==
    /\ IsFiniteSet(Files) /\ Late \subseteq Groups
    /\ Metas \subseteq [Files -> Meta]
    /\ \A f, g, h \in Files :
           /\ <<f, f>> \notin Order /\ (f # g => <<f, g>> \in Order \/ <<g, f>> \in Order)
           /\ <<f, g>> \in Order /\ <<g, h>> \in Order => <<f, h>> \in Order
    /\ SplitSeconds \in [DOMAIN SplitSeconds -> Nat]
    /\ {GapMin, GapMax, Tolerance, StartTolerance, MaxSpan, BatchWindow} \subseteq Int
    /\ {MaxRequests, MaxFaults} \subseteq Nat
    /\ None \notin Int \cup DOMAIN SplitSeconds \cup States \cup {"split", "multitrack"}
    /\ \A S \in SUBSET (Groups \X {"split", "multitrack"}) : S # None
    /\ None \notin [verb : {"confirm", "dismiss"}, of : Groups, saw : States]

TypeOK ==
    /\ meta \in [Files -> Meta]
    /\ at \in [Files -> {"away", "staging", "nas"}]
    /\ group \in [Files -> Groups]
    /\ type \in [Files -> {"split", "multitrack", None}]
    /\ state \in [Files -> States \cup {None}]
    /\ results \subseteq [of : Groups, at : {"staging", "nas"}]
    /\ left \subseteq Groups \X {"joined", "part"}
    /\ suggest \in {None} \cup SUBSET (Groups \X {"split", "multitrack"})
    /\ join \in Join
    /\ request \in [verb : {"confirm", "dismiss"}, of : Groups, saw : States] \cup {None}
    /\ mounted \in BOOLEAN
    /\ requests \in 0 .. MaxRequests /\ faults \in 0 .. MaxFaults
    /\ overtaken \in BOOLEAN

Fault == faults < MaxFaults /\ faults' = faults + 1

Near(a, b, t) == a - b <= t /\ b - a <= t

-----------------------------------------------------------------------------
(* Detection                                                               *)

Before(key, f, g) == key[f] < key[g] \/ (key[f] = key[g] /\ <<f, g>> \in Order)

(* Which come one right after the other when S is sorted.                  *)
Successive(S, key) ==
    {p \in S \X S : Before(key, p[1], p[2])
                     /\ ~\E h \in S : Before(key, p[1], h) /\ Before(key, h, p[2])}

(* What links put together, directly or not: two files at least.           *)
Linked(S, links) ==
    {{g \in S : \A C \in SUBSET S :
          f \in C /\ (\A p \in links : p[1] \in C <=> p[2] \in C) => g \in C} : f \in S}
    \ {{f} : f \in S}

Starts == [f \in Files |-> meta[f].start]

Arrivals == [f \in Files |-> meta[f].arrived]

IsFull(f) == Near(meta[f].len, SplitSeconds[meta[f].profile], Tolerance)

Gap(f, g) == Starts[g] - (Starts[f] + meta[f].len)

Follows(f, g) == GapMin <= Gap(f, g) /\ Gap(f, g) <= GapMax

(* Mutant: a short part does not end the chain.                            *)
ContinuesPastShort(f, g) == Follows(f, g)

(* A chain goes on from a full part; a short one is its last.              *)
Continues(f, g) == IsFull(f) /\ Follows(f, g)

Continued(S) == {p \in Successive(S, Starts) : Continues(p[1], p[2])}

(* Mutant: the search stops at the first file that is not a full part.     *)
ChainsStop(S) ==
    LET T == {f \in S : \A g \in S : Starts[g] < Starts[f] => IsFull(g)}
    IN  Linked(T, Continued(T))

(* Of the files of one recorder.  The loop begins a chain at each full part *)
(* that no earlier one has taken in, so chains are as long as they can be. *)
Chains(S) == Linked(S, Continued(S))

FindSplitChains(S) ==
    UNION {Chains({f \in S : meta[f].profile = p}) : p \in DOMAIN SplitSeconds}

(* Single linkage: a file joins the cluster of the one just before it.     *)
Clusters(S, key, t) == Linked(S, {p \in Successive(S, key) : key[p[2]] - key[p[1]] <= t})

(* The names of tracks agree but for a label that differs.                 *)
SharedLabel(C) ==
    \A f, g \in C : meta[f].stem = meta[g].stem /\ (f # g => meta[f].label # meta[g].label)

(* And durations agree with the (upper) median.                            *)
OneTake(C) ==
    /\ SharedLabel(C)
    /\ \E m \in C :
           /\ 2 * Cardinality({f \in C : meta[f].len < meta[m].len}) <= Cardinality(C)
           /\ Cardinality(C) < 2 * Cardinality({f \in C : meta[f].len <= meta[m].len})
           /\ \A f \in C : Near(meta[f].len, meta[m].len, Tolerance)

FindMultitrackByTime(S) ==
    {C \in Clusters(S, Starts, StartTolerance) :
        OneTake(C) /\ \A f, g \in C : Near(Starts[f], Starts[g], MaxSpan)}

FindMultitrackByBatch(S) ==
    {C \in UNION {Clusters({f \in S : meta[f].folder = d}, Arrivals, BatchWindow) :
                  d \in {meta[f].folder : f \in S}} : OneTake(C)}

Splitting(f) ==
    Starts[f] # None /\ meta[f].profile # None /\ SplitSeconds[meta[f].profile] # 0

(* The three patterns, each over the files it can judge.                   *)
Split(S) == FindSplitChains({f \in S : Splitting(f)})

Timed(S) == FindMultitrackByTime({f \in S : meta[f].exact /\ Starts[f] # None})

Batched(S) == FindMultitrackByBatch({f \in S : ~meta[f].exact /\ meta[f].folder # None})

(* suggest_groupings: what is claimed by a surer pattern is out of reach   *)
(* of the next.  (A set of one element has each pattern evaluated once.)   *)
Tracks(S) == UNION {timed \cup Batched(S \ UNION timed) : timed \in {Timed(S)}}

Detected(S) ==
    UNION {(split \X {"split"}) \cup (Tracks(S \ UNION split) \X {"multitrack"}) :
           split \in {Split(S)}}

(* Mutant: files that have a group are considered again.                   *)
CandidatesAgain == {f \in Files : at[f] # "away"}

Candidates == {f \in Files : at[f] # "away" /\ group[f] = {}}

-----------------------------------------------------------------------------
(* suggest-groupings                                                       *)

SuggestBegin ==
    /\ suggest = None
    /\ suggest' = Detected(Candidates)
    /\ UNCHANGED <<meta, disk, labels, join, request, mounted, bounds>>

(* One group is stamped and committed.                                     *)
Stamp(g) ==
    LET free == {f \in g[1] : group[f] = {}}
    IN  /\ suggest' = suggest \ {g}
        /\ group' = [f \in Files |-> IF f \in free THEN g[1] ELSE group[f]]
        /\ type' = [f \in Files |-> IF f \in free THEN g[2] ELSE type[f]]
        /\ state' = [f \in Files |-> IF f \in free THEN "suggested" ELSE state[f]]
        /\ UNCHANGED <<meta, disk, join, request, mounted, bounds>>

SuggestEnd ==
    /\ suggest = {} /\ suggest' = None
    /\ UNCHANGED <<meta, disk, labels, join, request, mounted, bounds>>

SuggestKill ==
    /\ suggest # None /\ Fault /\ suggest' = None
    /\ UNCHANGED <<meta, disk, labels, join, request, mounted, requests, overtaken>>

-----------------------------------------------------------------------------
(* Requests                                                                *)

Members(g) == {f \in Files : group[f] = g}

SetState(g, s) == state' = [f \in Files |-> IF f \in Members(g) THEN s ELSE state[f]]

AskFor(verb, f) ==
    /\ request = None /\ requests < MaxRequests /\ requests' = requests + 1
    /\ group[f] # {}
    /\ request' = [verb |-> verb, of |-> group[f], saw |-> state[f]]
    /\ UNCHANGED <<meta, disk, labels, suggest, join, mounted, faults, overtaken>>

(* Mutant: the verb is stored for the status.                              *)
TargetVerb(g, verb) ==
    CASE verb = "dismiss" -> "dismiss"
      [] verb = "confirm" -> IF \A f \in Members(g) : type[f] = "split" THEN "joining" ELSE "confirmed"

Target(g, verb) ==
    CASE verb = "dismiss" -> "dismissed"
      [] verb = "confirm" -> IF \A f \in Members(g) : type[f] = "split" THEN "joining" ELSE "confirmed"

(* A row is written only if its value differs from the one that was read.  *)
Commit ==
    LET t == Target(request.of, request.verb)
    IN  /\ request # None /\ request' = None
        /\ IF t = request.saw THEN UNCHANGED state ELSE SetState(request.of, t)
        /\ overtaken' = (overtaken \/ (t = "dismissed" /\ join.cur = request.of))
        /\ UNCHANGED <<meta, disk, group, type, suggest, join, mounted, requests, faults>>

-----------------------------------------------------------------------------
(* join-groups                                                             *)

NoJoin == [pc |-> "idle", todo |-> {}, cur |-> {}, from |-> [f \in Files |-> "away"]]

(* Mutant: a group that was joined already is not looked at again.         *)
JoinBeginNew ==
    /\ join.pc = "idle"
    /\ join' = [NoJoin EXCEPT !.pc = "next",
           !.todo = {group[f] : f \in {x \in Files : type[x] = "split" /\ state[x] = "joining"}}
                    \ {x.of : x \in results}]
    /\ UNCHANGED <<meta, disk, labels, suggest, request, mounted, bounds>>

JoinBegin ==
    /\ join.pc = "idle"
    /\ join' = [NoJoin EXCEPT !.pc = "next",
           !.todo = {group[f] : f \in {x \in Files : type[x] = "split" /\ state[x] = "joining"}}]
    /\ UNCHANGED <<meta, disk, labels, suggest, request, mounted, bounds>>

(* A file of n parts is n bytes.                                           *)
StagedBytes ==
    Cardinality({f \in Files : at[f] = "staging"}) + MapThenSumSet(LAMBDA x : Cardinality(x[1]), left)

OffNas(g) == ~mounted /\ \E f \in g : at[f] = "nas"

Unjoinable(g) == Cardinality({meta[f].format : f \in g}) > 1 \/ Cardinality(g) > Budget

NoRoom(g) == StagedBytes + Cardinality(g) > Budget

Take(g) == join.pc = "next" /\ g \in join.todo

(* Mutant: the members are not asked again whether they are to be joined.  *)
JoiningAll(g) == Members(g)

Joining(g) == {f \in Members(g) : state[f] = "joining"}

Pass(g) ==
    /\ Take(g) /\ Cardinality(Joining(g)) < 2
    /\ join' = [join EXCEPT !.todo = @ \ {g}]
    /\ UNCHANGED <<meta, disk, labels, suggest, request, mounted, bounds>>

(* NasUnavailable ends the run; the groups stay `joining`.                 *)
StopOffNas(g) ==
    /\ Take(g) /\ Cardinality(Joining(g)) >= 2 /\ OffNas(g)
    /\ join' = NoJoin
    /\ UNCHANGED <<meta, disk, labels, suggest, request, mounted, bounds>>

(* The members are read, with the paths they have, and ffprobe begins.     *)
Probe(g) ==
    /\ Take(g) /\ Cardinality(Joining(g)) >= 2 /\ ~OffNas(g)
    /\ join' = [join EXCEPT !.pc = "probe", !.cur = g, !.from = at] /\ overtaken' = FALSE
    /\ UNCHANGED <<meta, disk, labels, suggest, request, mounted, requests, faults>>

Readable(g) == \A f \in g : join.from[f] = at[f] /\ (at[f] = "nas" => mounted)

JoinFails(g) ==
    /\ SetState(g, "join-failed")
    /\ join' = [NoJoin EXCEPT !.pc = "next", !.todo = join.todo \ {g}]
    /\ UNCHANGED <<meta, group, type, suggest, request, mounted>>

(* The parts are unlike, too much for any budget, or cannot be read.       *)
Refuse ==
    LET g == join.cur
    IN  /\ join.pc = "probe"
        /\ IF Unjoinable(g) \/ ~Readable(g) THEN UNCHANGED faults ELSE Fault
        /\ JoinFails(g)
        /\ UNCHANGED <<disk, requests, overtaken>>

(* No room yet: the group stays `joining`.                                 *)
Wait ==
    LET g == join.cur
    IN  /\ join.pc = "probe" /\ ~Unjoinable(g) /\ NoRoom(g)
        /\ join' = [NoJoin EXCEPT !.pc = "next", !.todo = join.todo \ {g}]
        /\ UNCHANGED <<meta, disk, labels, suggest, request, mounted, bounds>>

(* ffmpeg is started, on the paths the rows had.                           *)
Encode ==
    LET g == join.cur
    IN  /\ join.pc = "probe" /\ ~Unjoinable(g) /\ ~NoRoom(g)
        /\ join' = [join EXCEPT !.pc = "encode"]
        /\ left' = left \cup {<<g, "part">>}
        /\ UNCHANGED <<meta, at, results, labels, suggest, request, mounted, bounds>>

(* It is done and checked, and moved to its name.                          *)
Encoded ==
    LET g == join.cur
    IN  /\ join.pc = "encode" /\ Readable(g)
        /\ left' = (left \ {<<g, "part">>}) \cup {<<g, "joined">>}
        /\ join' = [join EXCEPT !.pc = "save"]
        /\ UNCHANGED <<meta, at, results, labels, suggest, request, mounted, bounds>>

(* A part was filed, the mount went, or ffmpeg failed or ran out of time.  *)
EncodeFails ==
    LET g == join.cur
    IN  /\ join.pc = "encode"
        /\ IF Readable(g) THEN Fault ELSE UNCHANGED faults
        /\ left' = left \ {<<g, "part">>}
        /\ JoinFails(g)
        /\ UNCHANGED <<at, results, requests, overtaken>>

(* Mutant: only recordings still in staging count as joined before.        *)
ExistsStaged(g) == \E x \in results : x.of = g /\ x.at = "staging"

Exists(g) == \E x \in results : x.of = g

(* The new Resource and the parts are committed together; its checksum is  *)
(* refused if the group was joined before.                                 *)
Save ==
    LET g == join.cur
    IN  /\ join.pc = "save"
        /\ IF Exists(g)
           THEN JoinFails(g) /\ UNCHANGED disk
           ELSE /\ results' = results \cup {[of |-> g, at |-> "staging"]}
                /\ SetState(g, "joined")
                /\ join' = [NoJoin EXCEPT !.pc = "next", !.todo = join.todo \ {g}]
                /\ UNCHANGED <<meta, at, left, group, type, suggest, request, mounted>>
        /\ UNCHANGED bounds

JoinEnd ==
    /\ join.pc = "next" /\ join.todo = {} /\ join' = NoJoin
    /\ UNCHANGED <<meta, disk, labels, suggest, request, mounted, bounds>>

JoinKill ==
    /\ join.pc # "idle" /\ Fault /\ join' = NoJoin
    /\ UNCHANGED <<meta, disk, labels, suggest, request, mounted, requests, overtaken>>

-----------------------------------------------------------------------------
(* Elsewhere: ingest, filing, the mount                                    *)

Arrive(f) ==
    /\ at[f] = "away" /\ at' = [at EXCEPT ![f] = "staging"]
    /\ UNCHANGED <<meta, results, left, labels, work, mounted, bounds>>

FilePart(f) ==
    /\ at[f] = "staging" /\ mounted /\ at' = [at EXCEPT ![f] = "nas"]
    /\ UNCHANGED <<meta, results, left, labels, work, mounted, bounds>>

FileJoined(x) ==
    /\ x.at = "staging" /\ mounted
    /\ results' = (results \ {x}) \cup {[x EXCEPT !.at = "nas"]}
    /\ left' = left \ {<<x.of, "joined">>}
    /\ UNCHANGED <<meta, at, labels, work, mounted, bounds>>

Unmount ==
    /\ mounted /\ Fault /\ mounted' = FALSE
    /\ UNCHANGED <<meta, disk, labels, work, requests, overtaken>>

Mount ==
    /\ ~mounted /\ mounted' = TRUE
    /\ UNCHANGED <<meta, disk, labels, work, bounds>>

-----------------------------------------------------------------------------
Init ==
    /\ meta \in Metas
    /\ \E late \in Late : at = [f \in Files |-> IF f \in late THEN "away" ELSE "staging"]
    /\ group = [f \in Files |-> {}]
    /\ type = [f \in Files |-> None] /\ state = [f \in Files |-> None]
    /\ results = {} /\ left = {}
    /\ suggest = None /\ join = NoJoin /\ request = None
    /\ mounted = TRUE /\ requests = 0 /\ faults = 0 /\ overtaken = FALSE

SuggestStep == SuggestBegin \/ SuggestEnd \/ (suggest # None /\ \E g \in suggest : Stamp(g))

JoinStep ==
    \/ JoinBegin \/ JoinEnd \/ Refuse \/ Wait \/ Encode \/ Encoded \/ EncodeFails \/ Save
    \/ \E g \in join.todo : Pass(g) \/ StopOffNas(g) \/ Probe(g)

Next ==
    \/ SuggestStep \/ SuggestKill
    \/ JoinStep \/ JoinKill
    \/ \E f \in Files : AskFor("confirm", f) \/ AskFor("dismiss", f) \/ Arrive(f) \/ FilePart(f)
    \/ Commit
    \/ \E x \in results : FileJoined(x)
    \/ Unmount \/ Mount

Spec == Init /\ [][Next]_vars

(* The jobs are on timers, ffmpeg has a timeout, the NAS comes back.       *)
FairSpec == Spec /\ WF_vars(SuggestStep) /\ WF_vars(JoinStep) /\ WF_vars(Mount)

-----------------------------------------------------------------------------
(* A group is one unit: no two of its members differ in type or status,    *)
(* and every group has two members at least.                               *)
OneUnit ==
    \A f \in Files : group[f] # {} =>
        /\ Members(group[f]) = group[f] /\ Cardinality(group[f]) >= 2
        /\ \A g \in group[f] : type[g] = type[f] /\ state[g] = state[f]

(* A group is joined once, however often it is confirmed; the joined       *)
(* recording has its file until it is filed, and a group whose status says *)
(* `joined` has one.                                                       *)
JoinedOnce ==
    /\ \A x, y \in results : x.of = y.of => x = y
    /\ \A x \in results : x.at = "staging" => <<x.of, "joined">> \in left
    /\ \A f \in Files : state[f] = "joined" => Exists(group[f])

(* Groups are units, and what is suggested as parts of one recording is    *)
(* that: one recorder, each part but the last of full length, each the     *)
(* start of the next.  Tracks of one take share a name, not a label, agree *)
(* in length, and, timed, start together.                                  *)
SuggestionsFit ==
    /\ OneUnit
    /\ \A f \in Files : type[f] = "split" =>
           /\ \A g \in group[f] : meta[g].profile = meta[f].profile
           /\ LET last == CHOOSE g \in group[f] : \A h \in group[f] \ {g} : Before(Starts, h, g)
              IN  \A g \in group[f] \ {last} : IsFull(g) /\ \E h \in group[f] : Follows(g, h)
    /\ \A f \in Files : type[f] = "multitrack" => \A g \in group[f] \ {f} :
           /\ meta[g].stem = meta[f].stem /\ meta[g].label # meta[f].label
           /\ Near(meta[f].len, meta[g].len, 2 * Tolerance)
           /\ meta[f].exact <=> meta[g].exact
           /\ meta[f].exact => Near(Starts[f], Starts[g], MaxSpan)

(* A dismissed group stays dismissed until a request confirms it, unless a *)
(* join had read its members and not yet committed: its probes, ffmpeg and *)
(* the commit do not look at the status again.                             *)
KeepsDismissed ==
    \A f \in Files : state[f] = "dismissed" =>
        state'[f] = "dismissed" \/ request # request' \/ (overtaken /\ group[f] = join.cur)

DismissedStays == [][KeepsDismissed]_vars

(* No suggestion is missed, whatever was killed: in the end no file        *)
(* without a group directly follows a full one without a group.            *)
NoneMissed ==
    \A f, g \in Candidates :
        ~(/\ Splitting(f) /\ Splitting(g) /\ meta[f].profile = meta[g].profile
          /\ IsFull(f) /\ Follows(f, g)
          /\ \A h \in Candidates \ {f, g} : Splitting(h) /\ meta[h].profile = meta[f].profile
                => Starts[h] < Starts[f] \/ Starts[h] > Starts[g])

SuggestsAll == []<>NoneMissed

(* A confirmed group does not stay `joining`, unless staging has no room   *)
(* for it for ever.                                                        *)
NoneJoining == \A f \in Files : state[f] # "joining"

Crowded == \E f \in Files : state[f] = "joining" /\ NoRoom(group[f])

JoinEnds == []<>NoneJoining \/ <>[]Crowded

=============================================================================
