--------------------------- MODULE EnrichmentProofs ---------------------------
(***************************************************************************)
(* Safety of Enrichment, for any recordings, dates and positions, any      *)
(* distances between them, any edits and any outages: the types, that what *)
(* was looked up fits the date and the place it is kept for, and that no   *)
(* job overrides what was entered by hand.                                 *)
(***************************************************************************)
EXTENDS Enrichment, TLAPS

(* A call is about what its kind asks; that of a job is of the job's kind, *)
(* and its circuit breaker has not tripped.                                *)
CallShape ==
    /\ \A c \in Calls : c.asked \in IF c.kind = "place" THEN Positions ELSE Dates
    /\ \A k \in Kinds : job[k].call # None =>
           job[k].call.kind = k /\ job[k].failures < Threshold
    /\ \A k \in Kinds \ {"place"} : job[k].todo \subseteq Resources \X {0}

(* The ids that are in use have been given out.                            *)
Numbered ==
    /\ \A r \in Resources : place[r] # None => place[r].id <= made
    /\ \A c \in Calls : c.id <= made

(* A lookup by date is for the date the recording has, and that is exact,  *)
(* unless it was overtaken; the same of one that is still to be made.      *)
DateCurrent ==
    /\ \A c \in Calls : c.kind # "place" /\ c.of \notin overtaken =>
           c.asked = date[c.of] /\ exact[c.of]
    /\ \A k \in Kinds \ {"place"} : \A c \in job[k].todo :
           c[1] \notin overtaken => exact[c[1]]

(* A name that is being asked is for a place from which the pin has only   *)
(* drifted.                                                                *)
PlaceCurrent ==
    \A c \in Calls :
        c.kind = "place" /\ c.of \notin displaced /\ ~Gone(c) => Drifts(c.asked, place[c.of].at)

(* A typed name counts as looked up: no job asks for another.              *)
TypedIsChecked ==
    \A r \in Resources : place[r] # None /\ place[r].name = Typed => place[r].checked

IInv ==
    /\ TypeOK /\ CallShape /\ Numbered /\ TypedIsChecked
    /\ DateCurrent /\ DerivedFitsDate
    /\ PlaceCurrent /\ NameFitsPlace

-----------------------------------------------------------------------------
(* What every kind of step comes to                                        *)

(* The runs go on: nothing is on their lists but what was, or is queued.   *)
Onward ==
    /\ UNCHANGED <<date, exact, overtaken>>
    /\ \A k \in Kinds : job'[k].todo \subseteq job[k].todo \cup Candidates(k)

(* Nothing new is asked; at most one answer is stored, of a call whose row *)
(* is there, and by a job only if the answer is still wanted.              *)
Storing ==
    /\ Onward /\ Calls' \subseteq Calls
    /\ \/ Unstored
       \/ \E c \in Calls : ~Gone(c) /\ (StillWanted(c) \/ request # request') /\ Apply(c)

(* Call n is made: it asks about what is there now.                        *)
Asking(n) ==
    /\ Onward /\ Unstored /\ Calls' \subseteq Calls \cup {n}
    /\ n.asked = Sought(n.kind, n.of) /\ n.asked # None
    /\ n.kind = "place" => place[n.of] # None /\ n.id = place[n.of].id
    /\ n.kind # "place" =>
           n.id = 0 /\ (exact[n.of] \/ \E c \in job[n.kind].todo : c[1] = n.of)

-----------------------------------------------------------------------------
(* What the operators of the model return                                  *)

LEMMA CallsFact ==
    /\ \A c : c \in Calls <=> c # None /\ (c = request \/ \E k \in Kinds : c = job[k].call)
    /\ \A c : c \in Calls' <=> c # None /\ (c = request' \/ \E k \in Kinds : c = job'[k].call)
  BY DEF Calls, Kinds

LEMMA CallTypes ==
    ASSUME TypeOK
    PROVE  Calls \subseteq Call
<1>1. \A k \in Kinds : job[k].call \in Call \cup {None}
  BY DEF TypeOK, Job
<1>2. QED
  BY <1>1, CallsFact DEF TypeOK

LEMMA CandidatesFact ==
    ASSUME TypeOK, NEW k \in Kinds
    PROVE  /\ Candidates(k) \subseteq Resources \X Nat
           /\ \A c \in Candidates(k) : Queued(k, c[1])
           /\ k # "place" => Candidates(k) \subseteq Resources \X {0}
<1>1. \A r \in Resources : Queued(k, r) => RowId(k, r) \in Nat
  BY DEF Queued, RowId, TypeOK, Location
<1>2. k # "place" => \A r \in Resources : RowId(k, r) = 0
  BY DEF RowId
<1>3. QED
  BY <1>1, <1>2 DEF Candidates

LEMMA ConstantsFact ==
    ASSUME EnrichmentAssumption
    PROVE  /\ Threshold \in Nat \ {0} /\ MaxEdits \in Nat /\ MaxOutages \in Nat
           /\ None \notin Positions /\ None \notin Dates /\ Typed \notin Positions
           /\ None # Typed /\ None \notin Location /\ None \notin Call
           /\ \A d \in Dates : Pin[d] \in Positions \cup {None}
           /\ \A q \in Positions : <<q, q>> \in Near
  BY DEF EnrichmentAssumption

LEMMA RestingFact ==
    ASSUME EnrichmentAssumption
    PROVE  Resting \in Job /\ Resting.todo = {} /\ Resting.call = None
  BY ConstantsFact DEF Resting, Job

LEMMA BoundFact ==
    ASSUME EnrichmentAssumption, TypeOK
    PROVE  /\ Edit => edits' \in 0 .. MaxEdits /\ edits' # edits
           /\ Outage => outages' \in 0 .. MaxOutages
  BY ConstantsFact DEF TypeOK, Edit, Outage

(* A row that is placed is new, moved and nameless, or as it was.          *)
LEMMA PlacedFact ==
    ASSUME EnrichmentAssumption, TypeOK, NEW r \in Resources, NEW q \in Positions,
           NEW m \in BOOLEAN
    PROVE  LET new == Placed(place[r], q, m)
           IN  /\ new \in Location /\ new.at = q /\ new.manual = m
               /\ new.id = IF place[r] = None THEN made + 1 ELSE place[r].id
               /\ Moved(place[r], q) => new.name = None
               /\ ~Moved(place[r], q) =>
                      new.name = place[r].name /\ new.checked = place[r].checked
<1>1. place[r] \in Location \cup {None} /\ made \in Nat
  BY DEF TypeOK
<1>2. CASE Moved(place[r], q)
  BY <1>1, <1>2 DEF Placed, Location
<1>3. CASE ~Moved(place[r], q)
  <2>1. place[r] \in Location /\ place[r] # None
    BY <1>1, <1>3 DEF Moved
  <2>2. Placed(place[r], q, m) = [place[r] EXCEPT !.at = q, !.manual = m]
    BY <1>3 DEF Placed
  <2>3. QED
    BY <1>3, <2>1, <2>2 DEF Location
<1>4. QED
  BY <1>2, <1>3

LEMMA NamedFact ==
    ASSUME NEW loc \in Location, NEW q \in Positions
    PROVE  LET new == Named(loc, q)
           IN  /\ new \in Location /\ new.at = loc.at /\ new.manual = loc.manual
               /\ new.id = loc.id /\ new.checked = TRUE /\ new.name \in {None, q}
  BY DEF Named, Location

(* Only the row of r is stored; what is known of the others stays.         *)
LEMMA StoreFact ==
    ASSUME EnrichmentAssumption, TypeOK, NEW r \in Resources,
           NEW loc \in Location \cup {None}, Store(r, loc)
    PROVE  /\ place' \in [Resources -> Location \cup {None}]
           /\ place'[r] = loc /\ \A s \in Resources \ {r} : place'[s] = place[s]
           /\ made' \in Nat /\ made' >= made
           /\ loc # None /\ place[r] = None => made' = made + 1
           /\ displaced' \subseteq Resources
           /\ \A s \in Resources \ {r} : s \in displaced' <=> s \in displaced
           /\ r \notin displaced' =>
                  \/ /\ loc # None /\ place[r] # None /\ <<place[r].at, loc.at>> \in Near
                     /\ r \notin displaced
                  \/ /\ loc = None \/ place[r] = None \/ ~InNaming(r)
                     /\ loc # None /\ place[r] # None => <<place[r].at, loc.at>> \notin Near
<1>1. made \in Nat /\ displaced \subseteq Resources /\ place \in [Resources -> Location \cup {None}]
  BY DEF TypeOK
<1>2. place' \in [Resources -> Location \cup {None}]
  BY <1>1 DEF Store
<1>3. place'[r] = loc /\ \A s \in Resources \ {r} : place'[s] = place[s]
  BY <1>1 DEF Store
<1>4. made' \in Nat /\ made' >= made /\ (loc # None /\ place[r] = None => made' = made + 1)
  BY <1>1 DEF Store
<1>5. displaced' = displaced \/ displaced' = displaced \cup {r} \/ displaced' = displaced \ {r}
  BY DEF Store, Note
<1>6. r \notin displaced' =>
          \/ /\ loc # None /\ place[r] # None /\ <<place[r].at, loc.at>> \in Near
             /\ r \notin displaced
          \/ /\ loc = None \/ place[r] = None \/ ~InNaming(r)
             /\ loc # None /\ place[r] # None => <<place[r].at, loc.at>> \notin Near
  BY DEF Store, Note
<1>7. QED
  BY <1>1, <1>2, <1>3, <1>4, <1>5, <1>6

LEMMA DriftFact ==
    ASSUME NEW q \in Positions
    PROVE  /\ Drifts(q, q)
           /\ \A o \in Positions, to \in Positions :
                  Drifts(o, q) /\ <<q, to>> \in Near => Drifts(o, to)
  BY DEF Drifts

(* What the answer to each kind of call changes.                           *)
LEMMA ApplyFact ==
    ASSUME TypeOK, CallShape, NEW c \in Calls, Apply(c)
    PROVE  /\ c.of \in Resources /\ c.kind \in Kinds
           /\ c.kind = "location" =>
                  /\ c.asked \in Dates /\ track' = [track EXCEPT ![c.of] = c.asked]
                  /\ checked' = [checked EXCEPT !["location"] = @ \cup {c.of}]
                  /\ photos' = photos
                  /\ IF Pin[c.asked] = None \/ (place[c.of] # None /\ place[c.of].manual)
                     THEN UNCHANGED places
                     ELSE Store(c.of, Placed(place[c.of], Pin[c.asked], FALSE))
           /\ c.kind = "photos" =>
                  /\ c.asked \in Dates
                  /\ photos' = [photos EXCEPT ![c.of] = @ \cup {c.asked}]
                  /\ checked' = [checked EXCEPT !["photos"] = @ \cup {c.of}]
                  /\ track' = track /\ UNCHANGED places
           /\ c.kind = "place" =>
                  /\ c.asked \in Positions /\ UNCHANGED <<track, photos, checked>>
                  /\ Store(c.of, Named(place[c.of], c.asked))
<1>1. c.of \in Resources /\ c.kind \in Kinds
  BY CallTypes DEF Call
<1>2. IF c.kind = "place" THEN c.asked \in Positions ELSE c.asked \in Dates
  BY DEF CallShape
<1>3. CASE c.kind = "location"
  BY <1>1, <1>2, <1>3 DEF Apply, ApplyLocation
<1>4. CASE c.kind = "photos"
  BY <1>1, <1>2, <1>4 DEF Apply
<1>5. CASE c.kind = "place"
  BY <1>1, <1>2, <1>5 DEF Apply
<1>6. QED
  BY <1>1, <1>3, <1>4, <1>5 DEF Kinds

-----------------------------------------------------------------------------
(* The types                                                               *)

(* The jobs, the request and the bounds.                                   *)
LEMMA ControlTypeStep ==
    ASSUME EnrichmentAssumption, TypeOK, CallShape, [Next]_vars
    PROVE  /\ job' \in [Kinds -> Job] /\ request' \in Call \cup {None}
           /\ edits' \in 0 .. MaxEdits /\ outages' \in 0 .. MaxOutages
<1> DEFINE Goal == /\ job' \in [Kinds -> Job] /\ request' \in Call \cup {None}
                   /\ edits' \in 0 .. MaxEdits /\ outages' \in 0 .. MaxOutages
<1>0. /\ job \in [Kinds -> Job] /\ request \in Call \cup {None}
      /\ edits \in 0 .. MaxEdits /\ outages \in 0 .. MaxOutages
  BY DEF TypeOK
<1>1. ASSUME NEW k \in Kinds, Begin(k)
      PROVE  Goal
  <2>1. PICK S \in SUBSET Candidates(k) :
            job' = [job EXCEPT ![k] = [Resting EXCEPT !.on = TRUE, !.todo = S]]
    BY <1>1 DEF Begin, Taken
  <2> DEFINE on == [Resting EXCEPT !.on = TRUE]
  <2>2. on \in Job
    BY RestingFact DEF Job
  <2> HIDE DEF on
  <2>3. [on EXCEPT !.todo = S] \in Job
    BY <2>2, CandidatesFact DEF Job
  <2>4. job' = [job EXCEPT ![k] = [on EXCEPT !.todo = S]]
    BY <2>1 DEF on
  <2>5. QED
    BY <1>0, <1>1, <2>3, <2>4 DEF Begin
<1>2. ASSUME NEW k \in Kinds, NEW c \in job[k].todo, Ask(k, c)
      PROVE  Goal
  <2> DEFINE n == [kind |-> k, of |-> c[1], id |-> c[2], asked |-> Sought(k, c[1])]
  <2>1. c[1] \in Resources /\ c[2] \in Nat
    BY <1>0 DEF Job
  <2>2. Sought(k, c[1]) \in Dates \cup Positions
    BY <1>2, <2>1 DEF Ask, Sought, Current, TypeOK, Location
  <2>3. n \in Call
    BY <2>1, <2>2 DEF Call
  <2>4. job' = [job EXCEPT ![k].todo = @ \ {c}, ![k].call = n]
    BY <1>2 DEF Ask
  <2> HIDE DEF n
  <2>5. job' \in [Kinds -> Job]
    BY <1>0, <2>3, <2>4 DEF Job
  <2>6. QED
    BY <1>0, <1>2, <2>5 DEF Ask
<1>3. ASSUME NEW k \in Kinds, NEW c \in job[k].todo, Skip(k, c)
      PROVE  Goal
  BY <1>0, <1>3 DEF Skip, Job
<1>4. ASSUME NEW k \in Kinds, Answer(k)
      PROVE  Goal
  <2>1. job' = [job EXCEPT ![k].call = None, ![k].failures = 0]
    BY <1>4 DEF Answer
  <2>2. 0 \in 0 .. Threshold
    BY ConstantsFact
  <2>3. job' \in [Kinds -> Job]
    BY <1>0, <2>1, <2>2 DEF Job
  <2>4. QED
    BY <1>0, <1>4, <2>3 DEF Answer
<1>5. ASSUME NEW k \in Kinds, Unavailable(k)
      PROVE  Goal
  <2>1. job[k].failures + 1 \in 0 .. Threshold
    BY <1>0, <1>5, ConstantsFact DEF Unavailable, CallShape, Job
  <2>2. job' \in [Kinds -> Job]
    BY <1>0, <1>5, <2>1 DEF Unavailable, Job
  <2>3. QED
    BY <1>0, <1>5, <2>2, BoundFact DEF Unavailable
<1>6. ASSUME NEW k \in Kinds, AnswerGone(k) \/ End(k) \/ Kill(k) \/ \E c \in job[k].todo : AskNothing(k, c)
      PROVE  Goal
  <2>1. job' = [job EXCEPT ![k] = Resting] /\ request' = request /\ edits' = edits
    BY <1>6 DEF AnswerGone, End, Kill, AskNothing
  <2>2. outages' \in 0 .. MaxOutages
    BY <1>0, <1>6, BoundFact DEF AnswerGone, End, Kill, AskNothing
  <2>3. QED
    BY <1>0, <2>1, <2>2, RestingFact
<1>7. ASSUME NEW k \in Kinds, NEW r \in Resources, Refresh(k, r)
      PROVE  Goal
  <2>1. Sought(k, r) \in Dates \cup Positions /\ RowId(k, r) \in Nat
    BY <1>7 DEF Refresh, Sought, RowId, TypeOK, Location
  <2>2. request' \in Call
    BY <1>7, <2>1 DEF Refresh, Call
  <2>3. QED
    BY <1>0, <1>7, <2>2, BoundFact DEF Refresh
<1>8. CASE RefreshAnswer \/ RefreshFails
  BY <1>0, <1>8, BoundFact DEF RefreshAnswer, RefreshFails
<1>9. ASSUME NEW r \in Resources, Patch(r)
      PROVE  Goal
  BY <1>0, <1>9, BoundFact DEF Patch, SetDate, SetLocation, SetName, SetActive
<1>10. CASE UNCHANGED vars
  BY <1>0, <1>10 DEF vars
<1>11. QED
  BY <1>1, <1>2, <1>3, <1>4, <1>5, <1>6, <1>7, <1>8, <1>9, <1>10 DEF Next, JobStep

-----------------------------------------------------------------------------
(* The five kinds of steps                                                 *)

(* When only job k changes, by less or by what is queued.                  *)
LEMMA RunFact ==
    ASSUME NEW k \in Kinds, job'[k].todo \subseteq job[k].todo \cup Candidates(k),
           \A j \in Kinds \ {k} : job'[j] = job[j],
           UNCHANGED <<recording, request, overtaken>>
    PROVE  Onward /\ Calls' \subseteq Calls \cup ({job'[k].call} \ {None})
<1>1. Onward
  BY DEF Onward, recording
<1>2. \A c : c \in Calls' => c \in Calls \cup ({job'[k].call} \ {None})
  BY CallsFact
<1>3. QED
  BY <1>1, <1>2

LEMMA Steps ==
    ASSUME EnrichmentAssumption, TypeOK, CallShape, [Next]_vars
    PROVE  \/ Storing
           \/ \E n \in Call : Asking(n)
           \/ \E r \in Resources, d \in Dates \cup {None}, precise \in BOOLEAN :
                  SetDate(r, d, precise)
           \/ \E r \in Resources, q \in Positions : SetLocation(r, q)
           \/ \E r \in Resources, name \in {Typed, None} : SetName(r, name)
<1>0. job \in [Kinds -> Job]
  BY DEF TypeOK
<1>1. ASSUME NEW k \in Kinds, Begin(k)
      PROVE  Storing
  <2>1. PICK S \in SUBSET Candidates(k) :
            job' = [job EXCEPT ![k] = [Resting EXCEPT !.on = TRUE, !.todo = S]]
    BY <1>1 DEF Begin, Taken
  <2>2. job'[k].todo = S /\ job'[k].call = None /\ \A j \in Kinds \ {k} : job'[j] = job[j]
    BY <1>0, <2>1 DEF Resting
  <2>3. UNCHANGED <<recording, request, overtaken>> /\ Unstored
    BY <1>1 DEF Begin
  <2>4. Onward /\ Calls' \subseteq Calls
    BY <2>2, <2>3, RunFact
  <2>5. QED
    BY <2>3, <2>4 DEF Storing
<1>2. ASSUME NEW k \in Kinds, NEW c \in job[k].todo, Ask(k, c)
      PROVE  \E n \in Call : Asking(n)
  <2> DEFINE n == [kind |-> k, of |-> c[1], id |-> c[2], asked |-> Sought(k, c[1])]
  <2>1. c[1] \in Resources /\ c[2] \in Nat /\ (k # "place" => c[2] = 0)
    BY <1>0 DEF Job, CallShape
  <2>2. Sought(k, c[1]) \in Dates \cup Positions /\ Sought(k, c[1]) # None
    BY <1>2, <2>1 DEF Ask, Sought, Current, TypeOK, Location
  <2>3. n \in Call
    BY <2>1, <2>2 DEF Call
  <2>4. n.kind = k /\ n.of = c[1] /\ n.id = c[2] /\ n.asked = Sought(k, c[1])
    OBVIOUS
  <2>5. job' = [job EXCEPT ![k].todo = @ \ {c}, ![k].call = n]
    BY <1>2 DEF Ask
  <2> HIDE DEF n
  <2>6. /\ job'[k].todo \subseteq job[k].todo /\ job'[k].call = n
        /\ \A j \in Kinds \ {k} : job'[j] = job[j]
    BY <1>0, <2>5 DEF Job
  <2>7. UNCHANGED <<recording, request, overtaken>> /\ Unstored /\ Current(k, c)
    BY <1>2 DEF Ask
  <2>8. Onward /\ Calls' \subseteq Calls \cup {n}
    BY <2>6, <2>7, RunFact
  <2>9. Asking(n)
    BY <2>1, <2>2, <2>4, <2>7, <2>8 DEF Asking, Current
  <2>10. QED
    BY <2>3, <2>9
<1>3. ASSUME NEW k \in Kinds, NEW c \in job[k].todo, Skip(k, c)
      PROVE  Storing
  <2>1. /\ job'[k].todo \subseteq job[k].todo /\ job'[k].call = None
        /\ \A j \in Kinds \ {k} : job'[j] = job[j]
    BY <1>0, <1>3 DEF Skip, Job
  <2>2. UNCHANGED <<recording, request, overtaken>> /\ Unstored
    BY <1>3 DEF Skip
  <2>3. Onward /\ Calls' \subseteq Calls
    BY <2>1, <2>2, RunFact
  <2>4. QED
    BY <2>2, <2>3 DEF Storing
<1>4. ASSUME NEW k \in Kinds, Answer(k)
      PROVE  Storing
  <2>1. job' = [job EXCEPT ![k].call = None, ![k].failures = 0]
    BY <1>4 DEF Answer
  <2>2. /\ job'[k].todo = job[k].todo /\ job'[k].call = None
        /\ \A j \in Kinds \ {k} : job'[j] = job[j]
    BY <1>0, <2>1 DEF Job
  <2>3. UNCHANGED <<recording, request, overtaken>>
    BY <1>4 DEF Answer
  <2>4. Onward /\ Calls' \subseteq Calls
    BY <2>2, <2>3, RunFact
  <2>5. job[k].call \in Calls
    BY <1>4, CallsFact DEF Answer
  <2>6. QED
    BY <1>4, <2>4, <2>5 DEF Answer, Storing
<1>5. ASSUME NEW k \in Kinds, Unavailable(k)
      PROVE  Storing
  <2>1. /\ job'[k].todo = job[k].todo /\ job'[k].call = None
        /\ \A j \in Kinds \ {k} : job'[j] = job[j]
    BY <1>0, <1>5 DEF Unavailable, Job
  <2>2. UNCHANGED <<recording, request, overtaken>> /\ Unstored
    BY <1>5 DEF Unavailable
  <2>3. Onward /\ Calls' \subseteq Calls
    BY <2>1, <2>2, RunFact
  <2>4. QED
    BY <2>2, <2>3 DEF Storing
<1>6. ASSUME NEW k \in Kinds,
             AnswerGone(k) \/ End(k) \/ Kill(k) \/ \E c \in job[k].todo : AskNothing(k, c)
      PROVE  Storing
  <2>1. /\ job' = [job EXCEPT ![k] = Resting]
        /\ UNCHANGED <<recording, request, overtaken>> /\ Unstored
    BY <1>6 DEF AnswerGone, End, Kill, AskNothing
  <2>2. /\ job'[k].todo = {} /\ job'[k].call = None
        /\ \A j \in Kinds \ {k} : job'[j] = job[j]
    BY <1>0, <2>1, RestingFact
  <2>3. Onward /\ Calls' \subseteq Calls
    BY <2>1, <2>2, RunFact
  <2>4. QED
    BY <2>1, <2>3 DEF Storing
<1>7. ASSUME NEW k \in Kinds, NEW r \in Resources, Refresh(k, r)
      PROVE  \E n \in Call : Asking(n)
  <2> DEFINE n == [kind |-> k, of |-> r, id |-> RowId(k, r), asked |-> Sought(k, r)]
  <2>1. /\ Sought(k, r) \in Dates \cup Positions /\ Sought(k, r) # None
        /\ RowId(k, r) \in Nat
    BY <1>7, ConstantsFact DEF Refresh, Sought, RowId, TypeOK, Location
  <2>2. n \in Call /\ n.kind = k /\ n.of = r /\ n.id = RowId(k, r) /\ n.asked = Sought(k, r)
    BY <2>1 DEF Call
  <2>3. request' = n /\ job' = job
    BY <1>7 DEF Refresh
  <2> HIDE DEF n
  <2>4. Onward /\ Calls' \subseteq Calls \cup {n}
    BY <1>7, <2>3, CallsFact DEF Refresh, Onward, recording
  <2>5. Asking(n)
    BY <1>7, <2>1, <2>2, <2>4 DEF Refresh, Asking, RowId
  <2>6. QED
    BY <2>2, <2>5
<1>8. CASE RefreshAnswer
  <2>1. Onward /\ Calls' \subseteq Calls
    BY <1>8, CallsFact DEF RefreshAnswer, Onward, recording
  <2>2. request \in Calls /\ request # request'
    BY <1>8, CallsFact DEF RefreshAnswer
  <2>3. QED
    BY <1>8, <2>1, <2>2 DEF RefreshAnswer, Storing
<1>9. CASE RefreshFails
  <2>1. Onward /\ Calls' \subseteq Calls
    BY <1>9, CallsFact DEF RefreshFails, Onward, recording
  <2>2. QED
    BY <1>9, <2>1 DEF RefreshFails, Storing
<1>10. ASSUME NEW r \in Resources, SetActive(r)
       PROVE  Storing
  <2>1. Onward /\ Calls' \subseteq Calls
    BY <1>10, CallsFact DEF SetActive, Onward
  <2>2. QED
    BY <1>10, <2>1 DEF SetActive, Storing
<1>11. CASE UNCHANGED vars
  <2>1. Onward /\ Calls' \subseteq Calls
    BY <1>11, CallsFact DEF vars, Onward
  <2>2. QED
    BY <1>11, <2>1 DEF vars, Storing, Unstored, places
<1>12. QED
  BY <1>1, <1>2, <1>3, <1>4, <1>5, <1>6, <1>7, <1>8, <1>9, <1>10, <1>11
     DEF Next, JobStep, Patch

(* What becomes of a locations row that is stored: removed, placed, named  *)
(* by the answer to a call for it, or named by hand.                       *)
RowBecomes(r, loc) ==
    \/ loc = None
    \/ \E q \in Positions, m \in BOOLEAN : loc = Placed(place[r], q, m)
    \/ /\ place[r] # None
       /\ \E c \in Calls : /\ c.kind = "place" /\ c.of = r /\ c.id = place[r].id
                          /\ loc = Named(place[r], c.asked)
    \/ /\ place[r] # None
       /\ \E name \in {Typed, None} :
              loc = [place[r] EXCEPT !.name = name, !.checked = (name # None)]

LEMMA RowFact ==
    ASSUME EnrichmentAssumption, TypeOK, CallShape, NEW r \in Resources, NEW loc,
           RowBecomes(r, loc), loc # None
    PROVE  /\ loc \in Location
           /\ loc.id = IF place[r] = None THEN made + 1 ELSE place[r].id
           /\ \/ Moved(place[r], loc.at) /\ loc.name = None
              \/ /\ ~Moved(place[r], loc.at)
                 /\ loc.name = place[r].name /\ loc.checked = place[r].checked
              \/ /\ place[r] # None /\ loc.at = place[r].at /\ loc.checked = TRUE
                 /\ \E c \in Calls : /\ c.kind = "place" /\ c.of = r /\ c.id = place[r].id
                                    /\ loc.name \in {None, c.asked}
              \/ /\ place[r] # None /\ loc.at = place[r].at
                 /\ loc.name \in {Typed, None} /\ loc.checked = (loc.name # None)
<1>1. place[r] \in Location \cup {None}
  BY DEF TypeOK
<1>2. ASSUME NEW q \in Positions, NEW m \in BOOLEAN, loc = Placed(place[r], q, m)
      PROVE  /\ loc \in Location
             /\ loc.id = IF place[r] = None THEN made + 1 ELSE place[r].id
             /\ \/ Moved(place[r], loc.at) /\ loc.name = None
                \/ /\ ~Moved(place[r], loc.at)
                   /\ loc.name = place[r].name /\ loc.checked = place[r].checked
  BY <1>2, PlacedFact
<1>3. ASSUME place[r] # None, NEW c \in Calls, c.kind = "place", loc = Named(place[r], c.asked)
      PROVE  /\ loc \in Location /\ loc.id = place[r].id /\ loc.at = place[r].at
             /\ loc.checked = TRUE /\ loc.name \in {None, c.asked}
  BY <1>1, <1>3, NamedFact DEF CallShape
<1>4. ASSUME place[r] # None, NEW name \in {Typed, None},
             loc = [place[r] EXCEPT !.name = name, !.checked = (name # None)]
      PROVE  /\ loc \in Location /\ loc.id = place[r].id /\ loc.at = place[r].at
             /\ loc.name = name /\ loc.checked = (name # None)
  BY <1>1, <1>4 DEF Location
<1>5. QED
  BY <1>2, <1>3, <1>4 DEF RowBecomes

LEMMA RowSteps ==
    ASSUME EnrichmentAssumption, TypeOK, CallShape, [Next]_vars
    PROVE  \/ UNCHANGED places /\ (Calls' \subseteq Calls \/ \E n \in Call : Asking(n))
           \/ /\ Calls' \subseteq Calls
              /\ \E r \in Resources, loc \in Location \cup {None} :
                     Store(r, loc) /\ RowBecomes(r, loc)
<1> DEFINE Kept == UNCHANGED places /\ (Calls' \subseteq Calls \/ \E n \in Call : Asking(n))
           Stored == /\ Calls' \subseteq Calls
                     /\ \E r \in Resources, loc \in Location \cup {None} :
                            Store(r, loc) /\ RowBecomes(r, loc)
<1>1. CASE Storing
  <2>1. Calls' \subseteq Calls
    BY <1>1 DEF Storing
  <2>2. CASE Unstored
    BY <2>1, <2>2 DEF Unstored
  <2>3. ASSUME NEW c \in Calls, ~Gone(c), Apply(c)
        PROVE  Kept \/ Stored
    <3>2. c.of \in Resources /\ c.kind \in Kinds
      BY <2>3, ApplyFact
    <3>3. CASE c.kind = "photos"
      BY <2>1, <2>3, <3>3, ApplyFact
    <3>4. CASE c.kind = "location"
      <4>1. c.asked \in Dates
        BY <2>3, <3>4, ApplyFact
      <4>2. CASE UNCHANGED places
        BY <2>1, <4>2
      <4>3. CASE Pin[c.asked] \in Positions /\ Store(c.of, Placed(place[c.of], Pin[c.asked], FALSE))
        <5>1. RowBecomes(c.of, Placed(place[c.of], Pin[c.asked], FALSE))
          BY <4>3 DEF RowBecomes
        <5>2. QED
          BY <2>1, <3>2, <4>3, <5>1, RowFact
      <4>4. QED
        BY <2>3, <3>4, <4>1, <4>2, <4>3, ApplyFact, ConstantsFact
    <3>5. CASE c.kind = "place"
      <4>1. Store(c.of, Named(place[c.of], c.asked))
        BY <2>3, <3>5, ApplyFact
      <4>2. RowBecomes(c.of, Named(place[c.of], c.asked))
        BY <2>3, <3>5 DEF RowBecomes, Gone
      <4>3. QED
        BY <2>1, <3>2, <4>1, <4>2, RowFact
    <3>6. QED
      BY <3>2, <3>3, <3>4, <3>5 DEF Kinds
  <2>4. QED
    BY <1>1, <2>2, <2>3 DEF Storing
<1>2. ASSUME NEW n \in Call, Asking(n)
      PROVE  Kept
  BY <1>2 DEF Asking, Unstored
<1>3. ASSUME NEW r \in Resources, NEW d \in Dates \cup {None}, NEW precise \in BOOLEAN,
             SetDate(r, d, precise)
      PROVE  Kept \/ Stored
  <2>1. Calls' \subseteq Calls
    BY <1>3, CallsFact DEF SetDate
  <2>2. QED
    BY <1>3, <2>1 DEF SetDate, ClearDerived, RowBecomes
<1>4. ASSUME NEW r \in Resources, NEW q \in Positions, SetLocation(r, q)
      PROVE  Stored
  <2>1. Calls' \subseteq Calls
    BY <1>4, CallsFact DEF SetLocation
  <2>2. RowBecomes(r, Placed(place[r], q, TRUE))
    BY DEF RowBecomes
  <2>3. QED
    BY <1>4, <2>1, <2>2, RowFact DEF SetLocation
<1>5. ASSUME NEW r \in Resources, NEW name \in {Typed, None}, SetName(r, name)
      PROVE  Stored
  <2>1. Calls' \subseteq Calls
    BY <1>5, CallsFact DEF SetName
  <2>2. RowBecomes(r, [place[r] EXCEPT !.name = name, !.checked = (name # None)])
    BY <1>5 DEF RowBecomes, SetName
  <2>3. QED
    BY <1>5, <2>1, <2>2, RowFact DEF SetName
<1>6. QED
  BY <1>1, <1>2, <1>3, <1>4, <1>5, Steps

(* The rows and what is stored beside them.                                *)
LEMMA TypeStep ==
    ASSUME EnrichmentAssumption, TypeOK, CallShape, [Next]_vars
    PROVE  TypeOK'
<1>1. /\ place' \in [Resources -> Location \cup {None}] /\ made' \in Nat
      /\ displaced' \subseteq Resources
  <2>1. CASE UNCHANGED places
    BY <2>1 DEF places, TypeOK
  <2>2. ASSUME NEW r \in Resources, NEW loc \in Location \cup {None}, Store(r, loc)
        PROVE  /\ place' \in [Resources -> Location \cup {None}] /\ made' \in Nat
               /\ displaced' \subseteq Resources
    BY <2>2, StoreFact
  <2>3. QED
    BY <2>1, <2>2, RowSteps
<1> DEFINE Rest == /\ date' \in [Resources -> Dates \cup {None}]
                   /\ exact' \in [Resources -> BOOLEAN]
                   /\ checked' \in [{"location", "photos"} -> SUBSET Resources]
                   /\ track' \in [Resources -> Dates \cup {None}]
                   /\ photos' \in [Resources -> SUBSET Dates]
                   /\ overtaken' \subseteq Resources
<1>2. Rest
  <2>1. CASE Unstored /\ UNCHANGED <<date, exact, overtaken>>
    BY <2>1 DEF Unstored, TypeOK
  <2>2. ASSUME NEW c \in Calls, Apply(c), UNCHANGED <<date, exact, overtaken>>
        PROVE  Rest
    <3>1. CASE c.kind = "location"
      <4>1. /\ c.of \in Resources /\ c.asked \in Dates /\ photos' = photos
            /\ track' = [track EXCEPT ![c.of] = c.asked]
            /\ checked' = [checked EXCEPT !["location"] = @ \cup {c.of}]
        BY <2>2, <3>1, ApplyFact
      <4>2. QED
        BY <2>2, <4>1 DEF TypeOK
    <3>2. CASE c.kind = "photos"
      <4>1. /\ c.of \in Resources /\ c.asked \in Dates /\ track' = track
            /\ photos' = [photos EXCEPT ![c.of] = @ \cup {c.asked}]
            /\ checked' = [checked EXCEPT !["photos"] = @ \cup {c.of}]
        BY <2>2, <3>2, ApplyFact
      <4>2. QED
        BY <2>2, <4>1 DEF TypeOK
    <3>3. CASE c.kind = "place"
      BY <2>2, <3>3, ApplyFact DEF TypeOK
    <3>4. QED
      BY <2>2, <3>1, <3>2, <3>3, ApplyFact DEF Kinds
  <2>3. ASSUME NEW r \in Resources, NEW d \in Dates \cup {None}, NEW precise \in BOOLEAN,
               SetDate(r, d, precise)
        PROVE  Rest
    BY <2>3 DEF SetDate, ClearDerived, Note, TypeOK
  <2>4. CASE UNCHANGED <<recording, track, photos, checked, overtaken>>
    BY <2>4 DEF recording, TypeOK
  <2>5. QED
    BY <2>1, <2>2, <2>3, <2>4, Steps DEF Storing, Asking, Onward, SetLocation, SetName
<1>3. active' \in [Resources -> BOOLEAN]
  <2>1. active' = active \/ \E r \in Resources : active' = [active EXCEPT ![r] = ~@]
    BY DEF Next, JobStep, Patch, Begin, End, Answer, AnswerGone, Unavailable, Ask, Skip,
           AskNothing, Kill, Refresh, RefreshAnswer, RefreshFails, SetDate, SetLocation,
           SetName, SetActive, vars, recording
  <2>2. QED
    BY <2>1 DEF TypeOK
<1>4. QED
  BY <1>1, <1>2, <1>3, ControlTypeStep DEF TypeOK

-----------------------------------------------------------------------------
(* Calls and rows                                                          *)

LEMMA CallShapeStep ==
    ASSUME EnrichmentAssumption, TypeOK, CallShape, [Next]_vars
    PROVE  CallShape'
<1>0. job \in [Kinds -> Job]
  BY DEF TypeOK
<1>1. \A c \in Calls' : c.asked \in IF c.kind = "place" THEN Positions ELSE Dates
  <2>1. ASSUME NEW n \in Call, Asking(n)
        PROVE  n.asked \in IF n.kind = "place" THEN Positions ELSE Dates
    <3>1. n.of \in Resources /\ n.asked = Sought(n.kind, n.of) /\ n.asked # None
      BY <2>1 DEF Asking, Call
    <3>2. n.kind = "place" => place[n.of] \in Location
      BY <2>1, <3>1 DEF Asking, TypeOK
    <3>3. QED
      BY <3>1, <3>2 DEF Sought, TypeOK, Location
  <2>2. Calls' \subseteq Calls \/ \E n \in Call : Asking(n)
    BY RowSteps
  <2>3. QED
    BY <2>1, <2>2 DEF Asking, CallShape
<1>2. \A k \in Kinds : job'[k].call # None =>
          job'[k].call.kind = k /\ job'[k].failures < Threshold
  <2> DEFINE Fit(k) == job'[k].call # None =>
                           job'[k].call.kind = k /\ job'[k].failures < Threshold
  <2>1. ASSUME NEW k \in Kinds, job'[k] = job[k]
        PROVE  Fit(k)
    BY <2>1 DEF CallShape
  <2>2. ASSUME NEW k \in Kinds, job'[k].call = None
        PROVE  Fit(k)
    BY <2>2
  <2> DEFINE AllFit == \A k \in Kinds : Fit(k)
  <2> HIDE DEF Fit
  <2>3. ASSUME NEW k \in Kinds, Begin(k)
        PROVE  AllFit
    <3>1. PICK S : job' = [job EXCEPT ![k] = [Resting EXCEPT !.on = TRUE, !.todo = S]]
      BY <2>3 DEF Begin
    <3>2. job'[k].call = None /\ \A j \in Kinds \ {k} : job'[j] = job[j]
      BY <1>0, <3>1 DEF Resting
    <3>3. QED
      BY <2>1, <2>2, <3>2
  <2>4. ASSUME NEW k \in Kinds, NEW c \in job[k].todo, Ask(k, c)
        PROVE  AllFit
    <3> DEFINE n == [kind |-> k, of |-> c[1], id |-> c[2], asked |-> Sought(k, c[1])]
    <3>1. n.kind = k
      OBVIOUS
    <3>2. job' = [job EXCEPT ![k].todo = @ \ {c}, ![k].call = n]
      BY <2>4 DEF Ask
    <3> HIDE DEF n
    <3>3. /\ job'[k].call = n /\ job'[k].failures = job[k].failures
          /\ \A j \in Kinds \ {k} : job'[j] = job[j]
      BY <1>0, <3>2 DEF Job
    <3>4. job[k].failures < Threshold
      BY <1>0, <2>4, ConstantsFact DEF Ask, Tripped, Job
    <3>5. Fit(k)
      BY <3>1, <3>3, <3>4 DEF Fit
    <3>6. QED
      BY <2>1, <3>3, <3>5
  <2>5. ASSUME NEW k \in Kinds, NEW c \in job[k].todo, Skip(k, c)
        PROVE  AllFit
    <3>1. job'[k].call = None /\ \A j \in Kinds \ {k} : job'[j] = job[j]
      BY <1>0, <2>5 DEF Skip, Job
    <3>2. QED
      BY <2>1, <2>2, <3>1
  <2>6. ASSUME NEW k \in Kinds, Answer(k) \/ Unavailable(k)
        PROVE  AllFit
    <3>1. \E f : job' = [job EXCEPT ![k].call = None, ![k].failures = f]
      BY <2>6 DEF Answer, Unavailable
    <3>2. job'[k].call = None /\ \A j \in Kinds \ {k} : job'[j] = job[j]
      BY <1>0, <3>1 DEF Job
    <3>3. QED
      BY <2>1, <2>2, <3>2
  <2>7. ASSUME NEW k \in Kinds,
               AnswerGone(k) \/ End(k) \/ Kill(k) \/ \E c \in job[k].todo : AskNothing(k, c)
        PROVE  AllFit
    <3>1. job' = [job EXCEPT ![k] = Resting]
      BY <2>7 DEF AnswerGone, End, Kill, AskNothing
    <3>2. job'[k].call = None /\ \A j \in Kinds \ {k} : job'[j] = job[j]
      BY <1>0, <3>1, RestingFact
    <3>3. QED
      BY <2>1, <2>2, <3>2
  <2>8. ASSUME job' = job
        PROVE  AllFit
    <3>1. \A k \in Kinds : job'[k] = job[k]
      BY <2>8
    <3>2. QED
      BY <2>1, <3>1
  <2>9. \/ \E k \in Kinds : JobStep(k) \/ Kill(k)
        \/ job' = job
    BY DEF Next, Patch, Refresh, RefreshAnswer, RefreshFails, SetDate, SetLocation, SetName,
           SetActive, vars
  <2> HIDE DEF AllFit
  <2>10. AllFit
    BY <2>3, <2>4, <2>5, <2>6, <2>7, <2>8, <2>9 DEF JobStep
  <2>11. QED
    BY <2>10 DEF AllFit, Fit
<1>3. \A k \in Kinds \ {"place"} : job'[k].todo \subseteq Resources \X {0}
  <2>1. ASSUME Onward
        PROVE  \A k \in Kinds \ {"place"} : job'[k].todo \subseteq Resources \X {0}
    BY <2>1, CandidatesFact DEF Onward, CallShape
  <2>2. QED
    BY <2>1, Steps DEF Storing, Asking, SetDate, SetLocation, SetName, CallShape
<1>4. QED
  BY <1>1, <1>2, <1>3 DEF CallShape

LEMMA NumberedStep ==
    ASSUME EnrichmentAssumption, TypeOK, CallShape, Numbered, [Next]_vars
    PROVE  Numbered'
<1>0. made \in Nat /\ Calls \subseteq Call /\ \A c \in Call : c.id \in Nat
  BY CallTypes DEF TypeOK, Call
<1>1. \A r \in Resources : place[r] # None => place[r].id \in Nat
  BY DEF TypeOK, Location
<1>2. CASE UNCHANGED places
  <2>1. ASSUME NEW n \in Call, Asking(n)
        PROVE  n.id <= made
    <3>1. n.of \in Resources
      BY DEF Call
    <3>2. QED
      BY <1>0, <2>1, <3>1 DEF Asking, Numbered
  <2>2. \A c \in Calls' : c.id <= made
    <3>1. Calls' \subseteq Calls \/ \E n \in Call : Asking(n)
      BY RowSteps
    <3>2. QED
      BY <2>1, <3>1 DEF Asking, Numbered
  <2>3. QED
    BY <1>2, <2>2 DEF Numbered, places
<1>3. ASSUME NEW r \in Resources, NEW loc \in Location \cup {None}, Store(r, loc),
             RowBecomes(r, loc), Calls' \subseteq Calls
      PROVE  Numbered'
  <2>1. made' \in Nat /\ made' >= made
    BY <1>3, StoreFact
  <2>2. loc # None => loc.id <= made'
    <3>1. loc # None => loc.id = IF place[r] = None THEN made + 1 ELSE place[r].id
      BY <1>3, RowFact
    <3>2. loc # None /\ place[r] = None => made' = made + 1
      BY <1>3, StoreFact
    <3>3. QED
      BY <1>0, <1>1, <2>1, <3>1, <3>2 DEF Numbered
  <2>3. /\ \A s \in Resources \ {r} : place'[s] = place[s]
        /\ place'[r] = loc
    BY <1>3, StoreFact
  <2>4. \A s \in Resources : place'[s] # None => place'[s].id <= made'
    BY <1>0, <1>1, <2>1, <2>2, <2>3 DEF Numbered
  <2>5. \A c \in Calls' : c.id <= made'
    BY <1>0, <1>3, <2>1 DEF Numbered
  <2>6. QED
    BY <2>4, <2>5 DEF Numbered
<1>4. QED
  BY <1>2, <1>3, RowSteps

LEMMA TypedIsCheckedStep ==
    ASSUME EnrichmentAssumption, TypeOK, CallShape, TypedIsChecked, [Next]_vars
    PROVE  TypedIsChecked'
<1>1. CASE UNCHANGED places
  BY <1>1 DEF TypedIsChecked, places
<1>2. ASSUME NEW r \in Resources, NEW loc \in Location \cup {None}, Store(r, loc),
             RowBecomes(r, loc)
      PROVE  TypedIsChecked'
  <2>1. \A c \in Calls : c.kind = "place" => c.asked # Typed
    BY ConstantsFact DEF CallShape
  <2>2. ASSUME loc # None, loc.name = Typed
        PROVE  loc.checked
    <3>1. \/ loc.name = None
          \/ /\ ~Moved(place[r], loc.at)
             /\ loc.name = place[r].name /\ loc.checked = place[r].checked
          \/ \E c \in Calls : c.kind = "place" /\ loc.name \in {None, c.asked}
          \/ loc.checked = (loc.name # None)
      BY <1>2, <2>2, RowFact
    <3>2. QED
      BY <2>1, <2>2, <3>1, ConstantsFact DEF TypedIsChecked, Moved
  <2>3. QED
    BY <1>2, <2>2, StoreFact DEF TypedIsChecked
<1>3. QED
  BY <1>1, <1>2, RowSteps

-----------------------------------------------------------------------------
(* What is kept for a place                                                *)

LEMMA PlaceCurrentStep ==
    ASSUME EnrichmentAssumption, TypeOK, CallShape, Numbered, PlaceCurrent, [Next]_vars
    PROVE  PlaceCurrent'
<1>0. Calls \subseteq Call
  BY CallTypes
<1>1. CASE UNCHANGED places
  <2>1. ASSUME NEW n \in Call, Asking(n), n.kind = "place"
        PROVE  Drifts(n.asked, place[n.of].at)
    <3>1. n.of \in Resources /\ place[n.of] # None /\ n.asked = place[n.of].at
      BY <2>1 DEF Asking, Sought, Call
    <3>2. place[n.of].at \in Positions
      BY <3>1 DEF TypeOK, Location
    <3>3. QED
      BY <3>1, <3>2, DriftFact
  <2>2. \A c \in Calls' : c.kind = "place" /\ c.of \notin displaced /\ ~Gone(c) =>
                                Drifts(c.asked, place[c.of].at)
    <3>1. Calls' \subseteq Calls \/ \E n \in Call : Asking(n)
      BY RowSteps
    <3>2. QED
      BY <2>1, <3>1 DEF Asking, PlaceCurrent
  <2>3. QED
    BY <1>1, <2>2 DEF PlaceCurrent, Gone, places
<1>2. ASSUME NEW r \in Resources, NEW loc \in Location \cup {None}, Store(r, loc),
             RowBecomes(r, loc), Calls' \subseteq Calls
      PROVE  PlaceCurrent'
  <2> SUFFICES ASSUME NEW c \in Calls, c.kind = "place", c.of \notin displaced',
                      place'[c.of] # None, place'[c.of].id = c.id
               PROVE  Drifts(c.asked, place'[c.of].at)
    BY <1>2 DEF PlaceCurrent, Gone
  <2>1. c.of \in Resources /\ c.asked \in Positions /\ c.id \in Nat /\ c.id <= made
    BY <1>0 DEF Call, CallShape, Numbered
  <2>2. CASE c.of # r
    <3>1. place'[c.of] = place[c.of] /\ c.of \notin displaced
      BY <1>2, <2>1, <2>2, StoreFact
    <3>2. QED
      BY <2>1, <3>1 DEF PlaceCurrent, Gone
  <2>3. CASE c.of = r
    <3>1. place'[r] = loc /\ loc # None /\ loc.id = c.id
      BY <1>2, <2>3, StoreFact
    <3>2. place[r] # None /\ loc.id = place[r].id
      <4>1. made \in Nat
        BY DEF TypeOK
      <4>2. loc.id = IF place[r] = None THEN made + 1 ELSE place[r].id
        BY <1>2, <3>1, RowFact
      <4>3. QED
        BY <2>1, <3>1, <4>1, <4>2
    <3>3. InNaming(r)
      BY <2>3 DEF InNaming
    <3>4. <<place[r].at, loc.at>> \in Near /\ r \notin displaced
      BY <1>2, <2>3, <3>1, <3>2, <3>3, StoreFact
    <3>5. Drifts(c.asked, place[r].at)
      BY <2>3, <3>1, <3>2, <3>4 DEF PlaceCurrent, Gone
    <3>6. place[r].at \in Positions /\ loc.at \in Positions
      BY <3>1, <3>2 DEF TypeOK, Location
    <3>7. QED
      BY <2>1, <2>3, <3>1, <3>4, <3>5, <3>6, DriftFact
  <2>4. QED
    BY <2>2, <2>3
<1>3. QED
  BY <1>1, <1>2, RowSteps

LEMMA NameFitsPlaceStep ==
    ASSUME EnrichmentAssumption, TypeOK, CallShape, PlaceCurrent, NameFitsPlace, [Next]_vars
    PROVE  NameFitsPlace'
<1>1. CASE UNCHANGED places
  BY <1>1 DEF NameFitsPlace, places
<1>2. ASSUME NEW r \in Resources, NEW loc \in Location \cup {None}, Store(r, loc),
             RowBecomes(r, loc)
      PROVE  NameFitsPlace'
  <2>1. ASSUME r \notin displaced', loc # None, loc.name \in Positions
        PROVE  Drifts(loc.name, loc.at)
    <3>0. loc.at \in Positions /\ (place[r] # None => place[r].at \in Positions)
      BY <2>1 DEF TypeOK, Location
    <3>1. CASE ~Moved(place[r], loc.at) /\ loc.name = place[r].name
      <4>1. place[r] # None /\ <<place[r].at, loc.at>> \in Near
        BY <3>1 DEF Moved
      <4>2. r \notin displaced
        BY <1>2, <2>1, <4>1, StoreFact
      <4>3. Drifts(loc.name, place[r].at)
        BY <2>1, <3>1, <4>1, <4>2 DEF NameFitsPlace
      <4>4. QED
        BY <2>1, <3>0, <4>1, <4>3, DriftFact
    <3>2. ASSUME place[r] # None, loc.at = place[r].at,
                 NEW c \in Calls, c.kind = "place", c.of = r, c.id = place[r].id,
                 loc.name \in {None, c.asked}
          PROVE  Drifts(loc.name, loc.at)
      <4>1. <<place[r].at, loc.at>> \in Near
        BY <3>0, <3>2, ConstantsFact
      <4>2. r \notin displaced
        BY <1>2, <2>1, <3>2, <4>1, StoreFact
      <4>3. loc.name = c.asked
        BY <2>1, <3>2, ConstantsFact
      <4>4. QED
        BY <3>2, <4>2, <4>3 DEF PlaceCurrent, Gone
    <3>3. loc.name # None /\ loc.name # Typed
      BY <2>1, ConstantsFact
    <3>4. QED
      BY <1>2, <2>1, <3>1, <3>2, <3>3, RowFact
  <2>2. QED
    BY <1>2, <2>1, StoreFact DEF NameFitsPlace
<1>3. QED
  BY <1>1, <1>2, RowSteps

-----------------------------------------------------------------------------
(* What is kept for a date                                                 *)

LEMMA DateCurrentStep ==
    ASSUME EnrichmentAssumption, TypeOK, CallShape, DateCurrent, [Next]_vars
    PROVE  DateCurrent'
<1>1. ASSUME Onward
      PROVE  \A k \in Kinds \ {"place"} : \A c \in job'[k].todo :
                 c[1] \notin overtaken' => exact'[c[1]]
  <2>1. \A k \in Kinds \ {"place"} : \A c \in Candidates(k) : exact[c[1]]
    BY CandidatesFact DEF Queued
  <2>2. QED
    BY <1>1, <2>1 DEF Onward, DateCurrent
<1>2. CASE Storing
  BY <1>1, <1>2 DEF Storing, Onward, DateCurrent
<1>3. ASSUME NEW n \in Call, Asking(n)
      PROVE  DateCurrent'
  <2>1. n.kind # "place" => n.asked = date[n.of]
    BY <1>3 DEF Asking, Sought
  <2>2. n.kind # "place" /\ n.of \notin overtaken => exact[n.of]
    BY <1>3 DEF Asking, DateCurrent, Call
  <2>3. QED
    BY <1>1, <1>3, <2>1, <2>2 DEF Asking, Onward, DateCurrent
<1>4. ASSUME NEW r \in Resources, NEW d \in Dates \cup {None}, NEW precise \in BOOLEAN,
             SetDate(r, d, precise)
      PROVE  DateCurrent'
  <2>1. /\ \A s \in Resources \ {r} : date'[s] = date[s] /\ exact'[s] = exact[s]
        /\ \A s \in Resources \ {r} : s \in overtaken' <=> s \in overtaken
        /\ r \notin overtaken' => ~InLookup(r)
        /\ job' = job
    BY <1>4 DEF SetDate, Note, TypeOK
  <2>2. Calls' = Calls /\ Calls \subseteq Call
    BY <1>4, CallsFact, CallTypes DEF SetDate
  <2>3. \A c \in Calls : c.kind # "place" /\ c.of \notin overtaken' =>
                              c.of # r /\ c.of \in Resources
    BY <2>1, <2>2 DEF InLookup, Call
  <2>4. ASSUME NEW k \in Kinds \ {"place"}, NEW c \in job[k].todo, c[1] \notin overtaken'
        PROVE  c[1] # r /\ c[1] \in Resources
    <3>1. c[1] \in Resources /\ c = <<c[1], 0>>
      BY DEF CallShape
    <3>2. k \in {"location", "photos"}
      BY DEF Kinds
    <3>3. QED
      BY <2>1, <2>4, <3>1, <3>2 DEF InLookup
  <2>5. QED
    BY <2>1, <2>2, <2>3, <2>4 DEF DateCurrent
<1>5. CASE UNCHANGED <<recording, job, request, overtaken>>
  <2>1. Calls' = Calls
    BY <1>5, CallsFact
  <2>2. QED
    BY <1>5, <2>1 DEF DateCurrent, recording
<1>6. QED
  BY <1>2, <1>3, <1>4, <1>5, Steps DEF SetLocation, SetName

(* A row that is stored for another reason than its date still fits it, if *)
(* it is set by hand or stays where it is.                                 *)
LEMMA StillFits ==
    ASSUME EnrichmentAssumption, TypeOK, DerivedFitsDate,
           NEW r \in Resources, NEW loc \in Location \cup {None}, Store(r, loc),
           UNCHANGED <<date, exact, overtaken, track, photos, checked>>,
           loc # None /\ ~loc.manual =>
               place[r] # None /\ ~place[r].manual /\ loc.at = place[r].at
    PROVE  DerivedFitsDate'
<1>1. place'[r] = loc /\ \A s \in Resources \ {r} : place'[s] = place[s]
  BY StoreFact
<1>2. \A s \in Resources : place'[s] # None /\ ~place'[s].manual =>
          place[s] # None /\ ~place[s].manual /\ place'[s].at = place[s].at
  BY <1>1
<1>3. QED
  BY <1>2 DEF DerivedFitsDate

LEMMA DerivedFitsDateStep ==
    ASSUME EnrichmentAssumption, TypeOK, CallShape, DateCurrent, DerivedFitsDate, [Next]_vars
    PROVE  DerivedFitsDate'
<1>1. CASE Unstored /\ UNCHANGED <<date, exact, overtaken>>
  BY <1>1 DEF Unstored, places, DerivedFitsDate
<1>2. ASSUME NEW c \in Calls, ~Gone(c), Apply(c), UNCHANGED <<date, exact, overtaken>>
      PROVE  DerivedFitsDate'
  <2>1. c.kind # "place" /\ c.of \notin overtaken => c.asked = date[c.of] /\ exact[c.of]
    BY DEF DateCurrent
  <2>2. CASE c.kind = "location"
    <3>1. /\ c.of \in Resources /\ c.asked \in Dates /\ photos' = photos
          /\ track' = [track EXCEPT ![c.of] = c.asked]
          /\ checked' = [checked EXCEPT !["location"] = @ \cup {c.of}]
          /\ IF Pin[c.asked] = None \/ (place[c.of] # None /\ place[c.of].manual)
             THEN UNCHANGED places
             ELSE Store(c.of, Placed(place[c.of], Pin[c.asked], FALSE))
      BY <1>2, <2>2, ApplyFact
    <3>2. /\ track'[c.of] = c.asked
          /\ \A s \in Resources \ {c.of} : track'[s] = track[s]
          /\ \A s \in Resources \ {c.of} : s \in checked'["location"] <=> s \in checked["location"]
          /\ checked'["photos"] = checked["photos"]
      BY <3>1 DEF TypeOK
    <3>3. /\ \A s \in Resources \ {c.of} : place'[s] = place[s]
          /\ place'[c.of] # None /\ ~place'[c.of].manual =>
                 place'[c.of] = place[c.of] \/ place'[c.of].at = Pin[c.asked]
      <4>1. CASE UNCHANGED places
        BY <4>1 DEF places
      <4>2. CASE Pin[c.asked] # None /\ Store(c.of, Placed(place[c.of], Pin[c.asked], FALSE))
        <5> DEFINE loc == Placed(place[c.of], Pin[c.asked], FALSE)
        <5>1. Pin[c.asked] \in Positions
          BY <3>1, <4>2, ConstantsFact
        <5>2. loc \in Location /\ loc.at = Pin[c.asked]
          BY <3>1, <5>1, PlacedFact
        <5>3. Store(c.of, loc)
          BY <4>2
        <5> HIDE DEF loc
        <5>4. place'[c.of] = loc /\ \A s \in Resources \ {c.of} : place'[s] = place[s]
          BY <3>1, <5>2, <5>3, StoreFact
        <5>5. QED
          BY <5>2, <5>4
      <4>3. QED
        BY <3>1, <4>1, <4>2
    <3>4. QED
      BY <1>2, <2>1, <2>2, <3>1, <3>2, <3>3 DEF DerivedFitsDate
  <2>3. CASE c.kind = "photos"
    <3>1. /\ c.of \in Resources /\ c.asked \in Dates /\ track' = track /\ place' = place
          /\ photos' = [photos EXCEPT ![c.of] = @ \cup {c.asked}]
          /\ checked' = [checked EXCEPT !["photos"] = @ \cup {c.of}]
      BY <1>2, <2>3, ApplyFact DEF places
    <3>2. /\ photos'[c.of] = photos[c.of] \cup {c.asked}
          /\ \A s \in Resources \ {c.of} : photos'[s] = photos[s]
          /\ \A s \in Resources \ {c.of} : s \in checked'["photos"] <=> s \in checked["photos"]
          /\ checked'["location"] = checked["location"]
      BY <3>1 DEF TypeOK
    <3>3. QED
      BY <1>2, <2>1, <2>3, <3>1, <3>2 DEF DerivedFitsDate
  <2>4. CASE c.kind = "place"
    <3>1. /\ c.of \in Resources /\ c.asked \in Positions /\ UNCHANGED <<track, photos, checked>>
          /\ Store(c.of, Named(place[c.of], c.asked))
      BY <1>2, <2>4, ApplyFact
    <3>2. place[c.of] \in Location
      BY <1>2, <2>4, <3>1 DEF Gone, TypeOK
    <3> DEFINE loc == Named(place[c.of], c.asked)
    <3>3. loc \in Location /\ loc.at = place[c.of].at /\ loc.manual = place[c.of].manual
      BY <3>1, <3>2, NamedFact
    <3>4. Store(c.of, loc)
      BY <3>1
    <3> HIDE DEF loc
    <3>5. place[c.of] # None
      BY <1>2, <2>4 DEF Gone
    <3>6. QED
      BY <1>2, <3>1, <3>3, <3>4, <3>5, StillFits
  <2>5. QED
    BY <1>2, <2>2, <2>3, <2>4, ApplyFact DEF Kinds
<1>3. ASSUME NEW r \in Resources, NEW d \in Dates \cup {None}, NEW precise \in BOOLEAN,
             SetDate(r, d, precise)
      PROVE  DerivedFitsDate'
  <2>1. /\ \A t \in Resources \ {r} : date'[t] = date[t] /\ exact'[t] = exact[t]
        /\ \A t \in Resources \ {r} : t \in overtaken' <=> t \in overtaken
    BY <1>3 DEF SetDate, Note, TypeOK
  <2>2. /\ track'[r] = None /\ \A t \in Resources \ {r} : track'[t] = track[t]
        /\ photos'[r] = {} /\ \A t \in Resources \ {r} : photos'[t] = photos[t]
    BY <1>3 DEF SetDate, ClearDerived, TypeOK
  <2>3. /\ r \notin checked'["location"] /\ checked'["location"] \subseteq checked["location"]
        /\ r \notin checked'["photos"] /\ checked'["photos"] \subseteq checked["photos"]
    BY <1>3 DEF SetDate, ClearDerived, TypeOK
  <2>4. /\ \A t \in Resources \ {r} : place'[t] = place[t]
        /\ place'[r] = None \/ place'[r].manual
    <3>1. CASE place[r] # None /\ ~place[r].manual
      <4>1. Store(r, None)
        BY <1>3, <3>1 DEF SetDate, ClearDerived
      <4>2. QED
        BY <4>1, StoreFact
    <3>2. CASE place[r] = None \/ place[r].manual
      BY <1>3, <3>2 DEF SetDate, ClearDerived, places
    <3>3. QED
      BY <3>1, <3>2
  <2>5. QED
    BY <2>1, <2>2, <2>3, <2>4 DEF DerivedFitsDate
<1>4. ASSUME NEW r \in Resources, NEW q \in Positions, SetLocation(r, q)
      PROVE  DerivedFitsDate'
  <2> DEFINE loc == Placed(place[r], q, TRUE)
  <2>1. loc \in Location /\ loc.manual = TRUE
    BY PlacedFact
  <2>2. Store(r, loc) /\ UNCHANGED <<date, exact, overtaken, track, photos, checked>>
    BY <1>4 DEF SetLocation, recording
  <2> HIDE DEF loc
  <2>3. QED
    BY <2>1, <2>2, StillFits
<1>5. ASSUME NEW r \in Resources, NEW name \in {Typed, None}, SetName(r, name)
      PROVE  DerivedFitsDate'
  <2> DEFINE loc == [place[r] EXCEPT !.name = name, !.checked = (name # None)]
  <2>1. place[r] \in Location /\ place[r] # None
    BY <1>5 DEF SetName, TypeOK
  <2>2. loc \in Location /\ loc.at = place[r].at /\ loc.manual = place[r].manual
    BY <2>1 DEF Location
  <2>3. Store(r, loc) /\ UNCHANGED <<date, exact, overtaken, track, photos, checked>>
    BY <1>5 DEF SetName, recording
  <2> HIDE DEF loc
  <2>4. QED
    BY <2>1, <2>2, <2>3, StillFits
<1>6. QED
  BY <1>1, <1>2, <1>3, <1>4, <1>5, Steps DEF Storing, Asking, Onward

-----------------------------------------------------------------------------
(* The invariant                                                           *)

LEMMA InitInvariant ==
    ASSUME EnrichmentAssumption, Init
    PROVE  IInv
<1>1. TypeOK
  <2>1. /\ exact \in [Resources -> BOOLEAN] /\ active \in [Resources -> BOOLEAN]
        /\ checked \in [{"location", "photos"} -> SUBSET Resources]
        /\ track \in [Resources -> Dates \cup {None}]
        /\ photos \in [Resources -> SUBSET Dates]
        /\ place \in [Resources -> Location \cup {None}]
    BY DEF Init
  <2>2. job \in [Kinds -> Job]
    BY RestingFact DEF Init
  <2>3. QED
    BY <2>1, <2>2, ConstantsFact DEF Init, TypeOK
<1>2. Calls = {}
  <2>1. \A k \in Kinds : job[k].call = None
    BY RestingFact DEF Init
  <2>2. QED
    BY <2>1, CallsFact DEF Init
<1>3. CallShape
  <2>1. \A k \in Kinds : job[k].call = None /\ job[k].todo = {}
    BY RestingFact DEF Init
  <2>2. QED
    BY <1>2, <2>1 DEF CallShape
<1>4. DateCurrent
  <2>1. \A k \in Kinds : job[k].todo = {}
    BY RestingFact DEF Init
  <2>2. QED
    BY <1>2, <2>1 DEF DateCurrent
<1>5. Numbered /\ TypedIsChecked /\ PlaceCurrent /\ NameFitsPlace
  BY <1>2 DEF Init, Numbered, TypedIsChecked, PlaceCurrent, NameFitsPlace
<1>6. DerivedFitsDate
  BY DEF Init, DerivedFitsDate
<1>7. QED
  BY <1>1, <1>3, <1>4, <1>5, <1>6 DEF IInv

LEMMA StepInvariant ==
    ASSUME EnrichmentAssumption, IInv, [Next]_vars
    PROVE  IInv'
<1>1. TypeOK' /\ CallShape' /\ Numbered' /\ TypedIsChecked'
  BY TypeStep, CallShapeStep, NumberedStep, TypedIsCheckedStep DEF IInv
<1>2. DateCurrent' /\ DerivedFitsDate'
  BY DateCurrentStep, DerivedFitsDateStep DEF IInv
<1>3. PlaceCurrent' /\ NameFitsPlace'
  BY PlaceCurrentStep, NameFitsPlaceStep DEF IInv
<1>4. QED
  BY <1>1, <1>2, <1>3 DEF IInv

(* A step that is not an edit leaves what was entered by hand.             *)
LEMMA HandsOff ==
    ASSUME EnrichmentAssumption, TypeOK, CallShape, TypedIsChecked, [Next]_vars
    PROVE  KeepsByHand
<1>1. CASE Unstored
  BY <1>1 DEF Unstored, places, KeepsByHand
<1>2. ASSUME NEW c \in Calls, ~Gone(c), StillWanted(c) \/ request # request', Apply(c)
      PROVE  KeepsByHand
  <2>1. CASE UNCHANGED places
    BY <2>1 DEF places, KeepsByHand
  <2>2. CASE /\ c.kind = "location" /\ ~(place[c.of] # None /\ place[c.of].manual)
             /\ Pin[c.asked] # None /\ Store(c.of, Placed(place[c.of], Pin[c.asked], FALSE))
    <3> DEFINE loc == Placed(place[c.of], Pin[c.asked], FALSE)
    <3>1. c.of \in Resources /\ Pin[c.asked] \in Positions
      BY <1>2, <2>2, ApplyFact, ConstantsFact
    <3>2. /\ loc \in Location /\ loc.at = Pin[c.asked]
          /\ ~Moved(place[c.of], loc.at) => loc.name = place[c.of].name
      BY <3>1, PlacedFact
    <3>3. Store(c.of, loc)
      BY <2>2
    <3> HIDE DEF loc
    <3>4. place'[c.of] = loc /\ \A s \in Resources \ {c.of} : place'[s] = place[s]
      BY <3>1, <3>2, <3>3, StoreFact
    <3>5. QED
      BY <2>2, <3>2, <3>4, ConstantsFact DEF KeepsByHand
  <2>3. CASE c.kind = "place"
    <3> DEFINE loc == Named(place[c.of], c.asked)
    <3>1. /\ c.of \in Resources /\ c.asked \in Positions
          /\ Store(c.of, loc)
      BY <1>2, <2>3, ApplyFact
    <3>2. place[c.of] \in Location /\ place[c.of] # None
      BY <1>2, <2>3, <3>1 DEF Gone, TypeOK
    <3>3. loc \in Location /\ loc.at = place[c.of].at /\ loc.manual = place[c.of].manual
      BY <3>1, <3>2, NamedFact
    <3> HIDE DEF loc
    <3>4. place'[c.of] = loc /\ \A s \in Resources \ {c.of} : place'[s] = place[s]
      BY <3>1, <3>3, StoreFact
    <3>5. place[c.of].name = Typed => request # request'
      BY <1>2, <2>3, <3>1, <3>2 DEF StillWanted, TypedIsChecked
    <3>6. QED
      BY <3>3, <3>4, <3>5, ConstantsFact DEF KeepsByHand
  <2>4. QED
    BY <1>2, <2>1, <2>2, <2>3, ApplyFact DEF Kinds
<1>3. CASE edits' # edits
  BY <1>3 DEF KeepsByHand
<1>4. QED
  BY <1>1, <1>2, <1>3, Steps, BoundFact DEF Storing, Asking, SetDate, SetLocation, SetName

-----------------------------------------------------------------------------
(* Rows, jobs and calls keep their types; a circuit breaker never counts   *)
(* more than EXTERNAL_CIRCUIT_THRESHOLD failures.                          *)
THEOREM EnrichmentTypeCorrect ==
    ASSUME EnrichmentAssumption
    PROVE  Spec => []TypeOK
<1>1. Init => IInv
  BY InitInvariant
<1>2. IInv /\ [Next]_vars => IInv'
  BY StepInvariant
<1>3. IInv => TypeOK
  BY DEF IInv
<1>4. QED
  BY <1>1, <1>2, <1>3, PTL DEF Spec

(* Whatever answers come late, whatever runs die: tracks, photos, pins and *)
(* checked-at stamps are those of the date a recording has, unless it was  *)
(* changed while a lookup for it was under way or listed.                  *)
THEOREM LookupsFitDate ==
    ASSUME EnrichmentAssumption
    PROVE  Spec => []DerivedFitsDate
<1>1. Init => IInv
  BY InitInvariant
<1>2. IInv /\ [Next]_vars => IInv'
  BY StepInvariant
<1>3. IInv => DerivedFitsDate
  BY DEF IInv
<1>4. QED
  BY <1>1, <1>2, <1>3, PTL DEF Spec

(* A looked-up name and the pin it stands at are apart only by moves of    *)
(* less than PLACE_MOVED_METRES each, unless the pin was moved while its   *)
(* name was asked; for any distances, however many rows come and go.       *)
THEOREM NamesFitPlaces ==
    ASSUME EnrichmentAssumption
    PROVE  Spec => []NameFitsPlace
<1>1. Init => IInv
  BY InitInvariant
<1>2. IInv /\ [Next]_vars => IInv'
  BY StepInvariant
<1>3. IInv => NameFitsPlace
  BY DEF IInv
<1>4. QED
  BY <1>1, <1>2, <1>3, PTL DEF Spec

(* No job and no kill moves a location that was set on the map or replaces *)
(* a typed name where it is; only a request does.                          *)
THEOREM EnteredByHandStays ==
    ASSUME EnrichmentAssumption
    PROVE  Spec => ByHandStays
<1>1. Init => IInv
  BY InitInvariant
<1>2. IInv /\ [Next]_vars => IInv'
  BY StepInvariant
<1>3. IInv /\ [Next]_vars => [KeepsByHand]_vars
  BY HandsOff DEF IInv
<1>4. QED
  BY <1>1, <1>2, <1>3, PTL DEF Spec, ByHandStays

=============================================================================
