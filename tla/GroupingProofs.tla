---------------------------- MODULE GroupingProofs ----------------------------
(***************************************************************************)
(* Safety of Grouping, for any files, whatever is known of them, and any   *)
(* requests and faults: the types, that groups are whole and what is       *)
(* suggested fits, that a group is joined once, and that a dismissed one   *)
(* stays dismissed.                                                        *)
(***************************************************************************)
EXTENDS Grouping, FiniteSetTheorems, TLAPS

(* Parts of one recording: of one recorder, and each but the last is full  *)
(* and the start of another.                                               *)
PartsFit(C) ==
    /\ \A f, g \in C : meta[f].profile = meta[g].profile
    /\ \A f \in C : Starts[f] \in Int
    /\ \A g \in C : \/ IsFull(g) /\ \E h \in C : Follows(g, h)
                    \/ \A h \in C \ {g} : Before(Starts, h, g)

TracksFit(C) ==
    \A f, g \in C : f # g =>
        /\ meta[g].stem = meta[f].stem /\ meta[g].label # meta[f].label
        /\ Near(meta[f].len, meta[g].len, 2 * Tolerance)
        /\ meta[f].exact <=> meta[g].exact
        /\ meta[f].exact => Near(Starts[f], Starts[g], MaxSpan)

Sound(C, t) ==
    /\ C \subseteq Files /\ \E f, g \in C : f # g
    /\ \/ t = "split" /\ PartsFit(C)
       \/ t = "multitrack" /\ TracksFit(C)

Units == {u \in Groups \X {"split", "multitrack"} : Sound(u[1], u[2])}

(* Each group is sound, and one unit; who has none has no label either.    *)
Grouped ==
    \A f \in Files :
        IF group[f] = {} THEN type[f] = None /\ state[f] = None
        ELSE /\ f \in group[f] /\ <<group[f], type[f]>> \in Units /\ state[f] \in States
             /\ \A g \in group[f] : group[g] = group[f] /\ type[g] = type[f] /\ state[g] = state[f]

(* What a run has still to stamp is sound and apart, and nobody has stamped *)
(* any of it.                                                              *)
Planned ==
    suggest # None =>
        /\ suggest \subseteq Units /\ \A u \in suggest : \A f \in u[1] : group[f] = {}
        /\ \A u, w \in suggest : u # w => u[1] \cap w[1] = {}

(* What a request is about is a group.                                     *)
AskedOf == request # None => request.of # {}

(* What is being joined was not dismissed when its members were read; what *)
(* was joined and is not committed is there, or was joined before.         *)
Working ==
    /\ join.pc \in {"probe", "encode", "save"} =>
           /\ join.cur # {}
           /\ \A f \in Files : group[f] = join.cur /\ state[f] = "dismissed" => overtaken
    /\ join.pc = "save" => <<join.cur, "joined">> \in left \/ Exists(join.cur)

IInv == TypeOK /\ Grouped /\ Planned /\ AskedOf /\ Working /\ JoinedOnce

-----------------------------------------------------------------------------
(* What links put together: the least sets that no link leaves.            *)
Kept(links, C) == \A p \in links : p[1] \in C <=> p[2] \in C

Around(S, links, f) == {g \in S : \A C \in SUBSET S : f \in C /\ Kept(links, C) => g \in C}

LEMMA AroundFact ==
    ASSUME NEW S, NEW links \in SUBSET (S \X S), NEW f \in S
    PROVE  /\ f \in Around(S, links, f) /\ Around(S, links, f) \subseteq S
           /\ Kept(links, Around(S, links, f))
           /\ \A D \in SUBSET S, g \in Around(S, links, f) :
                  g \in D /\ Kept(links, D) => Around(S, links, f) \subseteq D
<1> DEFINE A == Around(S, links, f)
<1>1. f \in A /\ A \subseteq S
    BY DEF Around
<1>2. \A p \in links : p[1] \in S /\ p[2] \in S
    OBVIOUS
<1>3. \A D \in SUBSET S : f \in D /\ Kept(links, D) => A \subseteq D
    BY DEF Around
<1>4. Kept(links, A)
    <2> SUFFICES ASSUME NEW p \in links PROVE p[1] \in A <=> p[2] \in A
        BY DEF Kept
    <2>1. \A C \in SUBSET S : f \in C /\ Kept(links, C) => (p[1] \in C <=> p[2] \in C)
        BY DEF Kept
    <2> QED BY <1>2, <2>1 DEF Around
<1>5. ASSUME NEW D \in SUBSET S, NEW g \in A, g \in D, Kept(links, D)
      PROVE  A \subseteq D
    <2>1. CASE f \in D
        BY <1>3, <1>5, <2>1
    <2>2. CASE f \notin D
        <3>1. Kept(links, S \ D)
            BY <1>2, <1>5 DEF Kept
        <3>2. A \subseteq S \ D
            BY <1>3, <2>2, <3>1
        <3> QED BY <1>5, <3>2
    <2> QED BY <2>1, <2>2
<1> QED BY <1>1, <1>4, <1>5

LEMMA LinkedFact ==
    ASSUME NEW S, NEW links \in SUBSET (S \X S)
    PROVE  /\ \A C \in Linked(S, links) :
                  /\ C \subseteq S /\ Kept(links, C) /\ \E f, g \in C : f # g
                  /\ \A D \in SUBSET S, g \in C : g \in D /\ Kept(links, D) => C \subseteq D
           /\ \A C, D \in Linked(S, links) : C # D => C \cap D = {}
<1>1. Linked(S, links) = {Around(S, links, f) : f \in S} \ {{f} : f \in S}
    BY DEF Linked, Around, Kept
<1>2. ASSUME NEW C \in Linked(S, links)
      PROVE  /\ C \subseteq S /\ Kept(links, C) /\ \E f, g \in C : f # g
             /\ \A D \in SUBSET S, g \in C : g \in D /\ Kept(links, D) => C \subseteq D
    <2>1. PICK f \in S : C = Around(S, links, f)
        BY <1>1
    <2>2. C # {f} /\ f \in C
        BY <1>1, <2>1, AroundFact
    <2> QED BY <2>1, <2>2, AroundFact
<1>3. ASSUME NEW C \in Linked(S, links), NEW D \in Linked(S, links), NEW g \in C, g \in D
      PROVE  C = D
    <2>1. C \subseteq D
        BY <1>2, <1>3
    <2>2. D \subseteq C
        BY <1>2, <1>3
    <2> QED BY <2>1, <2>2
<1> QED BY <1>2, <1>3

(* Sorted by a number, with Order for equals: a total order.               *)
LEMMA BeforeFact ==
    ASSUME GroupingAssumption, NEW key, NEW f \in Files, NEW g \in Files, NEW h \in Files,
           key[f] \in Int, key[g] \in Int, key[h] \in Int
    PROVE  /\ ~(Before(key, f, g) /\ Before(key, g, f))
           /\ f = g \/ Before(key, f, g) \/ Before(key, g, f)
           /\ Before(key, f, g) /\ Before(key, g, h) => Before(key, f, h)
<1>1. /\ <<f, f>> \notin Order
      /\ <<f, g>> \in Order /\ <<g, f>> \in Order => <<f, f>> \in Order
      /\ f # g => <<f, g>> \in Order \/ <<g, f>> \in Order
      /\ <<f, g>> \in Order /\ <<g, h>> \in Order => <<f, h>> \in Order
    BY DEF GroupingAssumption
<1> QED BY <1>1 DEF Before

LEMMA MetaFact ==
    ASSUME GroupingAssumption, meta \in [Files -> Meta], NEW f \in Files
    PROVE  /\ meta[f].len \in Int /\ meta[f].arrived \in Int
           /\ Starts[f] = meta[f].start /\ Arrivals[f] = meta[f].arrived
           /\ Starts[f] # None => Starts[f] \in Int
           /\ meta[f].profile # None => meta[f].profile \in DOMAIN SplitSeconds
           /\ Tolerance \in Int /\ MaxSpan \in Int
  BY DEF GroupingAssumption, Meta, Starts, Arrivals

-----------------------------------------------------------------------------
(* Detection                                                               *)
LEMMA ChainsFact ==
    ASSUME GroupingAssumption, meta \in [Files -> Meta], NEW S \in SUBSET Files,
           \A f \in S : Starts[f] \in Int,
           \A f, g \in S : meta[f].profile = meta[g].profile
    PROVE  /\ \A C \in Chains(S) : C \subseteq S /\ Sound(C, "split")
           /\ \A C, D \in Chains(S) : C # D => C \cap D = {}
<1> DEFINE L == Continued(S)
<1>1. L \in SUBSET (S \X S)
    BY DEF Continued, Successive
<1>2. Chains(S) = Linked(S, L)
    BY DEF Chains
<1>3. \A p \in L : /\ p = <<p[1], p[2]>> /\ p[1] \in S /\ p[2] \in S
                   /\ Continues(p[1], p[2]) /\ Before(Starts, p[1], p[2])
                   /\ \A h \in S : ~(Before(Starts, p[1], h) /\ Before(Starts, h, p[2]))
    BY DEF Continued, Successive
<1> HIDE DEF L
<1>4. ASSUME NEW C \in Chains(S)
      PROVE  C \subseteq S /\ Sound(C, "split")
    <2>1. C \subseteq S /\ \E f, g \in C : f # g
        BY <1>1, <1>2, LinkedFact
    <2>2. ASSUME NEW g \in C, \A h \in C : ~Continues(g, h)
          PROVE  \A h \in C \ {g} : Before(Starts, h, g)
        <3> DEFINE D == {h \in S : h = g \/ Before(Starts, h, g)}
        <3>1. \A p \in L : p[1] \in C <=> p[2] \in C
            BY <1>1, <1>2, LinkedFact DEF Kept
        <3>2. ASSUME NEW p \in L
              PROVE  p[1] \in D <=> p[2] \in D
            <4>1. p[1] # g
                BY <1>3, <2>2, <3>1
            <4>2. /\ p[1] \in Files /\ p[2] \in Files /\ g \in Files
                  /\ Starts[p[1]] \in Int /\ Starts[p[2]] \in Int /\ Starts[g] \in Int /\ g \in S
                BY <1>3, <2>1
            <4>3. p[2] = g \/ Before(Starts, p[2], g) \/ Before(Starts, g, p[2])
                BY <4>2, BeforeFact
            <4>4. Before(Starts, p[1], p[2]) /\ Before(Starts, p[2], g) => Before(Starts, p[1], g)
                BY <4>2, BeforeFact
            <4> QED BY <1>3, <4>1, <4>2, <4>3, <4>4
        <3>3. Kept(L, D)
            BY <3>2 DEF Kept
        <3>4. D \in SUBSET S /\ g \in D
            BY <2>1
        <3> HIDE DEF D
        <3>5. C \subseteq D
            BY <1>1, <1>2, <3>3, <3>4, LinkedFact
        <3> QED BY <3>5 DEF D
    <2>3. PartsFit(C)
        BY <2>1, <2>2 DEF PartsFit, Continues
    <2> QED BY <2>1, <2>3 DEF Sound
<1> QED BY <1>1, <1>2, <1>4, LinkedFact

LEMMA SplitsFact ==
    ASSUME GroupingAssumption, meta \in [Files -> Meta], NEW S \in SUBSET Files,
           \A f \in S : Splitting(f)
    PROVE  /\ \A C \in FindSplitChains(S) : C \subseteq S /\ Sound(C, "split")
           /\ \A C, D \in FindSplitChains(S) : C # D => C \cap D = {}
<1> DEFINE Of(p) == {f \in S : meta[f].profile = p}
<1>1. ASSUME NEW p
      PROVE  /\ \A C \in Chains(Of(p)) : C \subseteq Of(p) /\ Sound(C, "split")
             /\ \A C, D \in Chains(Of(p)) : C # D => C \cap D = {}
    <2>1. Of(p) \in SUBSET Files
        OBVIOUS
    <2>2. \A f \in Of(p) : Starts[f] \in Int
        BY MetaFact DEF Splitting
    <2> QED BY <2>1, <2>2, ChainsFact
<1>2. \A C \in FindSplitChains(S) : \E p \in DOMAIN SplitSeconds : C \in Chains(Of(p))
    BY DEF FindSplitChains
<1>3. \A p, q : p # q => Of(p) \cap Of(q) = {}
    OBVIOUS
<1>4. \A p : Of(p) \subseteq S
    OBVIOUS
<1> HIDE DEF Of
<1> QED BY <1>1, <1>2, <1>3, <1>4

(* A cluster that is one take fits.                                        *)
LEMMA ClustersFact ==
    ASSUME NEW S, NEW key, NEW t
    PROVE  /\ \A C \in Clusters(S, key, t) : C \subseteq S /\ \E f, g \in C : f # g
           /\ \A C, D \in Clusters(S, key, t) : C # D => C \cap D = {}
<1> DEFINE L == {p \in Successive(S, key) : key[p[2]] - key[p[1]] <= t}
<1>1. L \in SUBSET (S \X S)
    BY DEF Successive
<1>2. Clusters(S, key, t) = Linked(S, L)
    BY DEF Clusters
<1> HIDE DEF L
<1> QED BY <1>1, <1>2, LinkedFact

LEMMA TakeFact ==
    ASSUME GroupingAssumption, meta \in [Files -> Meta], NEW C \in SUBSET Files, OneTake(C)
    PROVE  \A f, g \in C : f # g =>
               /\ meta[g].stem = meta[f].stem /\ meta[g].label # meta[f].label
               /\ Near(meta[f].len, meta[g].len, 2 * Tolerance)
<1>1. PICK m \in C : \A f \in C : Near(meta[f].len, meta[m].len, Tolerance)
    BY DEF OneTake
<1>2. ASSUME NEW f \in C, NEW g \in C
      PROVE  Near(meta[f].len, meta[g].len, 2 * Tolerance)
    <2> DEFINE a == meta[f].len
               b == meta[g].len
               c == meta[m].len
    <2>1. a \in Int /\ b \in Int /\ c \in Int /\ Tolerance \in Int
        BY MetaFact
    <2>2. Near(a, c, Tolerance) /\ Near(b, c, Tolerance)
        BY <1>1
    <2> HIDE DEF a, b, c
    <2>3. Near(a, b, 2 * Tolerance)
        BY <2>1, <2>2 DEF Near
    <2> QED BY <2>3 DEF a, b
<1>3. SharedLabel(C)
    BY DEF OneTake
<1> QED BY <1>2, <1>3 DEF SharedLabel

LEMMA TimedFact ==
    ASSUME GroupingAssumption, meta \in [Files -> Meta], NEW S \in SUBSET Files,
           \A f \in S : meta[f].exact
    PROVE  /\ \A C \in FindMultitrackByTime(S) : C \subseteq S /\ Sound(C, "multitrack")
           /\ \A C, D \in FindMultitrackByTime(S) : C # D => C \cap D = {}
<1>1. ASSUME NEW C \in FindMultitrackByTime(S)
      PROVE  C \subseteq S /\ Sound(C, "multitrack")
    <2>1. /\ C \in Clusters(S, Starts, StartTolerance) /\ OneTake(C)
          /\ \A f, g \in C : Near(Starts[f], Starts[g], MaxSpan)
        BY DEF FindMultitrackByTime
    <2>2. C \subseteq S /\ \E f, g \in C : f # g
        BY <2>1, ClustersFact
    <2>3. TracksFit(C)
        BY <2>1, <2>2, TakeFact DEF TracksFit
    <2> QED BY <2>2, <2>3 DEF Sound
<1>2. FindMultitrackByTime(S) \subseteq Clusters(S, Starts, StartTolerance)
    BY DEF FindMultitrackByTime
<1> QED BY <1>1, <1>2, ClustersFact

LEMMA BatchFact ==
    ASSUME GroupingAssumption, meta \in [Files -> Meta], NEW S \in SUBSET Files,
           \A f \in S : ~meta[f].exact
    PROVE  /\ \A C \in FindMultitrackByBatch(S) : C \subseteq S /\ Sound(C, "multitrack")
           /\ \A C, D \in FindMultitrackByBatch(S) : C # D => C \cap D = {}
<1> DEFINE In(d) == {f \in S : meta[f].folder = d}
<1>1. \A C \in FindMultitrackByBatch(S) :
          OneTake(C) /\ \E d : C \in Clusters(In(d), Arrivals, BatchWindow)
    BY DEF FindMultitrackByBatch
<1>2. \A d, e : d # e => In(d) \cap In(e) = {}
    OBVIOUS
<1>3. \A d : In(d) \subseteq S
    OBVIOUS
<1> HIDE DEF In
<1>4. ASSUME NEW C \in FindMultitrackByBatch(S)
      PROVE  C \subseteq S /\ Sound(C, "multitrack")
    <2>1. C \subseteq S /\ OneTake(C) /\ \E f, g \in C : f # g
        BY <1>1, <1>3, ClustersFact
    <2>2. TracksFit(C)
        BY <2>1, TakeFact DEF TracksFit
    <2> QED BY <2>1, <2>2 DEF Sound
<1> QED BY <1>1, <1>2, <1>4, ClustersFact

(* What is detected in S is sound, apart, and of S.                        *)
LEMMA DetectedFact ==
    ASSUME GroupingAssumption, meta \in [Files -> Meta], NEW S \in SUBSET Files
    PROVE  /\ Detected(S) \subseteq Units /\ \A u \in Detected(S) : u[1] \subseteq S
           /\ \A u, w \in Detected(S) : u # w => u[1] \cap w[1] = {}
<1> DEFINE P == {f \in S : Splitting(f)}
           split == FindSplitChains(P)
           rest == S \ UNION split
           T == {f \in rest : meta[f].exact /\ Starts[f] # None}
           timed == FindMultitrackByTime(T)
           B == {f \in rest \ UNION timed : ~meta[f].exact /\ meta[f].folder # None}
           batch == FindMultitrackByBatch(B)
<1>1. Detected(S) = (split \X {"split"}) \cup ((timed \cup batch) \X {"multitrack"})
    <2>1. Tracks(rest) = timed \cup batch
        <3> HIDE DEF rest
        <3>1. Timed(rest) = timed /\ Batched(rest \ UNION timed) = batch
            BY DEF Timed, Batched
        <3> HIDE DEF timed, batch
        <3>2. Tracks(rest) = UNION {t \cup Batched(rest \ UNION t) : t \in {timed}}
            BY <3>1 DEF Tracks
        <3> QED BY <3>1, <3>2
    <2>2. Split(S) = split
        BY DEF Split
    <2> HIDE DEF split, timed, batch
    <2> QED BY <2>1, <2>2 DEF Detected
<1>2. /\ \A C \in split : C \subseteq S /\ Sound(C, "split")
      /\ \A C, D \in split : C # D => C \cap D = {}
    <2>1. P \in SUBSET Files /\ \A f \in P : Splitting(f)
        OBVIOUS
    <2> HIDE DEF P
    <2>2. P \subseteq S
        BY DEF P
    <2> QED BY <2>1, <2>2, SplitsFact
<1> HIDE DEF split
<1>3. T \in SUBSET Files /\ T \subseteq S \ UNION split /\ \A f \in T : meta[f].exact
    OBVIOUS
<1> HIDE DEF T
<1>4. /\ \A C \in timed : C \subseteq S \ UNION split /\ Sound(C, "multitrack")
      /\ \A C, D \in timed : C # D => C \cap D = {}
    BY <1>3, TimedFact
<1> HIDE DEF timed
<1>5. /\ B \in SUBSET Files /\ B \subseteq (S \ UNION split) \ UNION timed
      /\ \A f \in B : ~meta[f].exact
    OBVIOUS
<1> HIDE DEF B
<1>6. /\ \A C \in batch : C \subseteq (S \ UNION split) \ UNION timed /\ Sound(C, "multitrack")
      /\ \A C, D \in batch : C # D => C \cap D = {}
    BY <1>5, BatchFact
<1> HIDE DEF batch
<1>7. \A u \in Detected(S) :
          \/ u[1] \in split /\ u[2] = "split" /\ u = <<u[1], u[2]>>
          \/ u[1] \in timed \cup batch /\ u[2] = "multitrack" /\ u = <<u[1], u[2]>>
    BY <1>1
<1>8. \A u \in Detected(S) : u[1] \subseteq S /\ Sound(u[1], u[2])
    BY <1>2, <1>4, <1>6, <1>7
<1>9. Detected(S) \subseteq Units
    BY <1>7, <1>8 DEF Groups, Units
<1>10. ASSUME NEW u \in Detected(S), NEW w \in Detected(S), u # w
       PROVE  u[1] \cap w[1] = {}
    <2>1. u[1] # w[1] \/ u[2] # w[2]
        BY <1>7, <1>10
    <2>2. CASE u[1] \in split /\ w[1] \in split
        <3>1. \A C \in split : C \notin timed \cup batch
            <4>1. \A C \in split : C # {} /\ C \subseteq UNION split
                BY <1>2 DEF Sound
            <4> QED BY <1>4, <1>6, <4>1
        <3>2. u[2] = "split" /\ w[2] = "split"
            BY <1>7, <2>2, <3>1
        <3> QED BY <1>2, <2>1, <2>2, <3>2
    <2>3. CASE u[1] \notin split \/ w[1] \notin split
        <3>1. \A C \in split, D \in timed \cup batch : C \cap D = {}
            BY <1>4, <1>6
        <3>2. \A C \in timed, D \in batch : C \cap D = {}
            BY <1>6
        <3> QED BY <1>4, <1>6, <1>7, <2>1, <2>3, <3>1, <3>2
    <2> QED BY <2>2, <2>3
<1> QED BY <1>8, <1>9, <1>10

-----------------------------------------------------------------------------
(* Steps                                                                   *)
LEMMA UnitsFact ==
    ASSUME meta' = meta
    PROVE  Units' = Units
  BY DEF Units, Sound, PartsFit, TracksFit, Starts, IsFull, Follows, Gap, Before

LEMMA UnitFact ==
    ASSUME NEW u \in Units
    PROVE  /\ u[1] \in Groups /\ u[1] \subseteq Files /\ u[1] # {} /\ \E f, g \in u[1] : f # g
           /\ u[2] \in {"split", "multitrack"} /\ u = <<u[1], u[2]>>
  BY DEF Units, Sound, Groups

(* If two of a group are to be joined, all are, and it is a group.         *)
LEMMA JoiningFact ==
    ASSUME GroupingAssumption, Grouped, NEW g, Cardinality(Joining(g)) >= 2
    PROVE  g # {} /\ \A f \in Files : group[f] = g => state[f] = "joining"
<1>1. Joining(g) # {}
    BY FS_EmptySet
<1>2. PICK f \in Files : group[f] = g /\ state[f] = "joining"
    BY <1>1 DEF Joining, Members
<1>3. g # {}
    BY <1>2 DEF Grouped, GroupingAssumption, States
<1>4. ASSUME NEW h \in Files, group[h] = g
      PROVE  state[h] = "joining"
    BY <1>2, <1>3, <1>4 DEF Grouped
<1> QED BY <1>3, <1>4

(* What a step does to the labels: it stamps a unit, gives a group another *)
(* status, or nothing.                                                     *)
Stamping == suggest # None /\ \E u \in suggest : Stamp(u)

Relabelling ==
    /\ UNCHANGED <<meta, group, type, suggest>>
    /\ \E g \in Groups \ {{}}, s \in States : SetState(g, s)

LEMMA LabelKinds ==
    ASSUME GroupingAssumption, TypeOK, Grouped, AskedOf, Working, [Next]_vars
    PROVE  Stamping \/ Relabelling \/ UNCHANGED <<meta, labels>>
<1>1. CASE Commit
    <2>1. request.of \in Groups \ {{}} /\ request.verb \in {"confirm", "dismiss"}
        BY <1>1 DEF Commit, AskedOf, TypeOK
    <2>2. Target(request.of, request.verb) \in States
        BY <2>1 DEF Target, States
    <2> QED BY <1>1, <2>1, <2>2 DEF Commit, Relabelling, labels
<1>2. CASE Refuse \/ EncodeFails \/ Save
    <2>1. join.cur \in Groups \ {{}}
        BY <1>2 DEF Refuse, EncodeFails, Save, Working, TypeOK, Join
    <2> QED BY <1>2, <2>1 DEF Refuse, EncodeFails, Save, JoinFails, Relabelling, States
<1>3. CASE Wait \/ Encode
    BY <1>3 DEF Wait, Encode, labels
<1>4. CASE \E g \in join.todo : Pass(g) \/ StopOffNas(g) \/ Probe(g)
    BY <1>4 DEF Pass, StopOffNas, Probe, labels
<1>5. CASE SuggestBegin \/ SuggestEnd \/ SuggestKill \/ JoinBegin \/ JoinEnd \/ Encoded \/ JoinKill
    BY <1>5 DEF SuggestBegin, SuggestEnd, SuggestKill, JoinBegin, JoinEnd, Encoded, JoinKill, labels
<1>6. CASE \E f \in Files : AskFor("confirm", f) \/ AskFor("dismiss", f) \/ Arrive(f) \/ FilePart(f)
    BY <1>6 DEF AskFor, Arrive, FilePart, labels
<1>7. CASE (\E x \in results : FileJoined(x)) \/ Unmount \/ Mount \/ UNCHANGED vars
    BY <1>7 DEF FileJoined, Unmount, Mount, vars, labels
<1> QED BY <1>1, <1>2, <1>3, <1>4, <1>5, <1>6, <1>7 DEF Next, SuggestStep, JoinStep, Stamping

(* A run stamps a unit whole.                                              *)
LEMMA StampFact ==
    ASSUME TypeOK, Planned, suggest # None, NEW u \in suggest, Stamp(u)
    PROVE  /\ u \in Units /\ UNCHANGED meta /\ suggest' = suggest \ {u}
           /\ group' = [f \in Files |-> IF f \in u[1] THEN u[1] ELSE group[f]]
           /\ type' = [f \in Files |-> IF f \in u[1] THEN u[2] ELSE type[f]]
           /\ state' = [f \in Files |-> IF f \in u[1] THEN "suggested" ELSE state[f]]
<1>1. u \in Units /\ {f \in u[1] : group[f] = {}} = u[1]
    BY DEF Planned
<1> QED BY <1>1 DEF Stamp

LEMMA GroupedStep ==
    ASSUME GroupingAssumption, TypeOK, Grouped, Planned, AskedOf, Working, [Next]_vars
    PROVE  Grouped'
<1>1. ASSUME NEW u \in suggest, suggest # None, Stamp(u)
      PROVE  Grouped'
    <2>1. Units' = Units /\ u \in Units
        BY <1>1, StampFact, UnitsFact
    <2>2. u[1] # {} /\ u[1] \subseteq Files /\ u = <<u[1], u[2]>>
        BY <2>1, UnitFact
    <2>3. \A f \in Files : group[f] # {} => u[1] \cap group[f] = {} /\ group[f] \subseteq Files
        <3> SUFFICES ASSUME NEW f \in Files, group[f] # {}
                     PROVE  u[1] \cap group[f] = {} /\ group[f] \subseteq Files
            OBVIOUS
        <3>1. \A g \in group[f] : group[g] = group[f]
            BY DEF Grouped
        <3>2. \A g \in u[1] : group[g] = {}
            BY <1>1 DEF Planned
        <3>3. group[f] \subseteq Files
            BY DEF TypeOK, Groups
        <3> QED BY <3>1, <3>2, <3>3
    <2> SUFFICES ASSUME NEW f \in Files
                 PROVE  IF group'[f] = {} THEN type'[f] = None /\ state'[f] = None
                        ELSE /\ f \in group'[f] /\ <<group'[f], type'[f]>> \in Units'
                             /\ state'[f] \in States
                             /\ \A g \in group'[f] : /\ group'[g] = group'[f] /\ type'[g] = type'[f]
                                                     /\ state'[g] = state'[f]
        BY DEF Grouped
    <2>4. CASE f \in u[1]
        BY <1>1, <2>1, <2>2, <2>4, StampFact DEF States
    <2>5. CASE f \notin u[1]
        BY <1>1, <2>1, <2>2, <2>3, <2>5, StampFact DEF Grouped
    <2> QED BY <2>4, <2>5
<1>2. CASE Relabelling
    <2>1. PICK h \in Groups \ {{}}, s \in States :
              state' = [f \in Files |-> IF group[f] = h THEN s ELSE state[f]]
        BY <1>2 DEF Relabelling, SetState, Members
    <2>2. group' = group /\ type' = type /\ Units' = Units
        BY <1>2, UnitsFact DEF Relabelling
    <2>3. \A f \in Files : group[f] \subseteq Files
        BY DEF TypeOK, Groups
    <2> QED BY <2>1, <2>2, <2>3 DEF Grouped
<1>3. CASE UNCHANGED <<meta, labels>>
    BY <1>3, UnitsFact DEF Grouped, labels
<1> QED BY <1>1, <1>2, <1>3, LabelKinds DEF Stamping

LEMMA PlannedStep ==
    ASSUME GroupingAssumption, TypeOK, Grouped, Planned, AskedOf, Working, [Next]_vars
    PROVE  Planned'
<1>1. CASE SuggestBegin
    <2>1. suggest' = Detected(Candidates) /\ Candidates \subseteq Files /\ UNCHANGED <<meta, group>>
        BY <1>1 DEF SuggestBegin, labels, Candidates
    <2>2. \A f \in Candidates : group[f] = {}
        BY DEF Candidates
    <2>3. Units' = Units
        BY <2>1, UnitsFact
    <2> QED BY <2>1, <2>2, <2>3, DetectedFact DEF Planned, TypeOK
<1>2. ASSUME NEW u \in suggest, suggest # None, Stamp(u)
      PROVE  Planned'
    <2>1. Units' = Units /\ u[1] \subseteq Files
        BY <1>2, StampFact, UnitsFact, UnitFact
    <2>2. \A w \in suggest \ {u} : w[1] \cap u[1] = {} /\ w[1] \subseteq Files
        BY <1>2, UnitFact DEF Planned
    <2> QED BY <1>2, <2>1, <2>2, StampFact DEF Planned
<1>3. CASE SuggestEnd \/ SuggestKill
    BY <1>3 DEF SuggestEnd, SuggestKill, Planned
<1>4. CASE UNCHANGED <<meta, group, suggest>>
    BY <1>4, UnitsFact DEF Planned
<1>5. Relabelling => UNCHANGED <<meta, group, suggest>>
    BY DEF Relabelling
<1>6. ASSUME UNCHANGED <<meta, labels>>
      PROVE  UNCHANGED suggest \/ SuggestBegin \/ SuggestEnd \/ SuggestKill \/ Stamping
    <2>1. CASE SuggestStep
        BY <2>1 DEF SuggestStep, Stamping
    <2>2. CASE JoinStep \/ JoinKill
        BY <2>2 DEF JoinStep, JoinBegin, JoinEnd, Encoded, EncodeFails, Save, Pass, StopOffNas,
                    Probe, Refuse, Wait, Encode, JoinFails, JoinKill
    <2>3. CASE Commit \/ Unmount \/ Mount \/ UNCHANGED vars
        BY <2>3 DEF Commit, Unmount, Mount, work, vars
    <2>4. CASE \/ \E f \in Files : \/ AskFor("confirm", f) \/ AskFor("dismiss", f)
                                 \/ Arrive(f) \/ FilePart(f)
               \/ \E x \in results : FileJoined(x)
        BY <2>4 DEF AskFor, Arrive, FilePart, FileJoined, work
    <2> QED BY <2>1, <2>2, <2>3, <2>4 DEF Next
<1>7. CASE UNCHANGED <<meta, labels>>
    BY <1>1, <1>2, <1>3, <1>4, <1>6, <1>7 DEF labels, Stamping
<1> QED BY <1>2, <1>4, <1>5, <1>7, LabelKinds DEF Stamping

LEMMA BoundFact ==
    ASSUME GroupingAssumption, TypeOK
    PROVE  /\ Fault => faults' \in 0 .. MaxFaults
           /\ requests < MaxRequests => requests + 1 \in 0 .. MaxRequests
<1>1. MaxFaults \in Nat /\ MaxRequests \in Nat
    BY DEF GroupingAssumption
<1> QED BY <1>1 DEF TypeOK, Fault

LEMMA NoJoinFact ==
    /\ NoJoin \in Join /\ NoJoin.pc = "idle"
    /\ \A S \in SUBSET Groups : /\ [NoJoin EXCEPT !.pc = "next", !.todo = S] \in Join
                                /\ [NoJoin EXCEPT !.pc = "next", !.todo = S].pc = "next"
<1>1. /\ NoJoin \in Join /\ NoJoin.pc = "idle"
    BY DEF NoJoin, Join, Groups
<1> QED BY <1>1 DEF Join

(* Types of what the labels and the suggestions become.                    *)
LEMMA LabelTypes ==
    ASSUME GroupingAssumption, TypeOK, Grouped, Planned, AskedOf, Working, [Next]_vars
    PROVE  /\ group' \in [Files -> Groups]
           /\ type' \in [Files -> {"split", "multitrack", None}]
           /\ state' \in [Files -> States \cup {None}]
<1> USE DEF TypeOK
<1>1. ASSUME NEW u \in suggest, suggest # None, Stamp(u)
      PROVE  /\ group' \in [Files -> Groups]
             /\ type' \in [Files -> {"split", "multitrack", None}]
             /\ state' \in [Files -> States \cup {None}]
    <2>1. u[1] \in Groups /\ u[2] \in {"split", "multitrack"}
        BY <1>1, StampFact, UnitFact
    <2> QED BY <1>1, <2>1, StampFact DEF States
<1>2. CASE Relabelling
    BY <1>2 DEF Relabelling, SetState
<1>3. CASE UNCHANGED <<meta, labels>>
    BY <1>3 DEF labels
<1> QED BY <1>1, <1>2, <1>3, LabelKinds DEF Stamping

LEMMA SuggestTypes ==
    ASSUME TypeOK, Planned'
    PROVE  suggest' \in {None} \cup SUBSET (Groups \X {"split", "multitrack"})
<1>1. Units' \subseteq Groups \X {"split", "multitrack"}
    BY DEF Units
<1>2. suggest' # None => suggest' \subseteq Units'
    BY DEF Planned
<1> QED BY <1>1, <1>2

LEMMA JoinTypes ==
    ASSUME GroupingAssumption, TypeOK, [Next]_vars
    PROVE  join' \in Join
<1>1. join \in Join /\ at \in [Files -> {"away", "staging", "nas"}] /\ group \in [Files -> Groups]
    BY DEF TypeOK
<1>2. CASE JoinBegin
    <2>1. {group[f] : f \in {x \in Files : type[x] = "split" /\ state[x] = "joining"}} \in SUBSET Groups
        BY <1>1
    <2> QED BY <1>2, <2>1, NoJoinFact DEF JoinBegin
<1>3. ASSUME NEW g \in join.todo, Pass(g) \/ StopOffNas(g) \/ Probe(g)
      PROVE  join' \in Join
    <2>1. g \in Groups /\ join.todo \ {g} \in SUBSET Groups
        BY <1>1 DEF Join
    <2>2. CASE Pass(g)
        BY <1>1, <2>1, <2>2 DEF Pass, Join
    <2>3. CASE StopOffNas(g)
        BY <2>3, NoJoinFact DEF StopOffNas
    <2>4. CASE Probe(g)
        BY <1>1, <2>1, <2>4 DEF Probe, Join
    <2> QED BY <1>3, <2>2, <2>3, <2>4
<1>4. CASE Encode \/ Encoded
    BY <1>1, <1>4 DEF Encode, Encoded, Join
<1>5. CASE Refuse \/ Wait \/ EncodeFails \/ Save
    <2>1. join.todo \ {join.cur} \in SUBSET Groups
        BY <1>1 DEF Join
    <2> QED BY <1>5, <2>1, NoJoinFact DEF Refuse, Wait, EncodeFails, Save, JoinFails
<1>6. CASE JoinEnd \/ JoinKill
    BY <1>6, NoJoinFact DEF JoinEnd, JoinKill
<1>7. CASE UNCHANGED join
    BY <1>1, <1>7
<1>8. CASE SuggestStep \/ SuggestKill
    BY <1>7, <1>8 DEF SuggestStep, SuggestBegin, SuggestEnd, Stamp, SuggestKill
<1>9. CASE \E f \in Files : AskFor("confirm", f) \/ AskFor("dismiss", f) \/ Arrive(f) \/ FilePart(f)
    BY <1>7, <1>9 DEF AskFor, Arrive, FilePart, work
<1>10. CASE Commit \/ (\E x \in results : FileJoined(x)) \/ Unmount \/ Mount \/ UNCHANGED vars
    BY <1>7, <1>10 DEF Commit, FileJoined, Unmount, Mount, work, vars
<1> QED BY <1>2, <1>3, <1>4, <1>5, <1>6, <1>8, <1>9, <1>10 DEF Next, JoinStep

(* What is joined, and what lies in staging.                               *)
LEMMA DiskTypes ==
    ASSUME GroupingAssumption, TypeOK, [Next]_vars
    PROVE  /\ at' \in [Files -> {"away", "staging", "nas"}]
           /\ results' \subseteq [of : Groups, at : {"staging", "nas"}]
           /\ left' \subseteq Groups \X {"joined", "part"}
<1> USE DEF TypeOK
<1>1. join.cur \in Groups /\ join.todo \subseteq Groups
    BY DEF Join
<1>2. CASE Encode
    BY <1>1, <1>2 DEF Encode
<1>3. CASE Encoded \/ EncodeFails \/ Save
    BY <1>1, <1>3 DEF Encoded, EncodeFails, Save, JoinFails, disk
<1>4. CASE \E f \in Files : Arrive(f) \/ FilePart(f)
    BY <1>4 DEF Arrive, FilePart
<1>5. CASE \E x \in results : FileJoined(x)
    BY <1>5 DEF FileJoined
<1>6. CASE UNCHANGED disk
    BY <1>6 DEF disk
<1>7. CASE SuggestStep \/ SuggestKill \/ Commit \/ Unmount \/ Mount \/ UNCHANGED vars
    BY <1>6, <1>7 DEF SuggestStep, SuggestBegin, SuggestEnd, Stamp, SuggestKill, Commit, Unmount,
                      Mount, vars, disk
<1>8. CASE \/ JoinBegin \/ JoinEnd \/ JoinKill \/ Refuse \/ Wait
           \/ \E g \in join.todo : Pass(g) \/ StopOffNas(g) \/ Probe(g)
           \/ \E f \in Files : AskFor("confirm", f) \/ AskFor("dismiss", f)
    BY <1>6, <1>8 DEF JoinBegin, JoinEnd, JoinKill, Pass, StopOffNas, Probe, Refuse, Wait, AskFor
<1> QED BY <1>2, <1>3, <1>4, <1>5, <1>7, <1>8 DEF Next, JoinStep

LEMMA RestTypes ==
    ASSUME GroupingAssumption, TypeOK, Grouped, [Next]_vars
    PROVE  /\ meta' = meta /\ mounted' \in BOOLEAN
           /\ request' \in [verb : {"confirm", "dismiss"}, of : Groups, saw : States] \cup {None}
           /\ requests' \in 0 .. MaxRequests /\ faults' \in 0 .. MaxFaults
           /\ overtaken' \in BOOLEAN
<1> USE DEF TypeOK
<1>1. ASSUME NEW f \in Files, NEW v \in {"confirm", "dismiss"}, AskFor(v, f)
      PROVE  /\ request' \in [verb : {"confirm", "dismiss"}, of : Groups, saw : States] \cup {None}
             /\ requests' \in 0 .. MaxRequests
    <2>1. group[f] \in Groups /\ state[f] \in States
        BY <1>1 DEF AskFor, Grouped
    <2> QED BY <1>1, <2>1, BoundFact DEF AskFor
<1>2. CASE \E f \in Files : AskFor("confirm", f) \/ AskFor("dismiss", f)
    BY <1>1, <1>2 DEF AskFor
<1>3. CASE Commit
    BY <1>3 DEF Commit
<1>4. CASE SuggestStep \/ SuggestKill
    BY <1>4, BoundFact DEF SuggestStep, SuggestBegin, SuggestEnd, Stamp, SuggestKill, bounds
<1>5. CASE JoinStep \/ JoinKill
    BY <1>5, BoundFact DEF JoinStep, JoinBegin, JoinEnd, Encoded, EncodeFails, Save, Pass,
                           StopOffNas, Probe, Refuse, Wait, Encode, JoinFails, JoinKill, bounds
<1>6. CASE \/ \E f \in Files : Arrive(f) \/ FilePart(f)
           \/ \E x \in results : FileJoined(x)
           \/ Unmount \/ Mount \/ UNCHANGED vars
    BY <1>6, BoundFact DEF Arrive, FilePart, FileJoined, Unmount, Mount, vars, work, bounds
<1> QED BY <1>2, <1>3, <1>4, <1>5, <1>6 DEF Next

LEMMA TypeStep ==
    ASSUME GroupingAssumption, TypeOK, Grouped, Planned, AskedOf, Working, [Next]_vars
    PROVE  TypeOK'
<1>1. meta' \in [Files -> Meta]
    BY RestTypes DEF TypeOK
<1>2. suggest' \in {None} \cup SUBSET (Groups \X {"split", "multitrack"})
    BY PlannedStep, SuggestTypes
<1> QED BY <1>1, <1>2, LabelTypes, JoinTypes, DiskTypes, RestTypes DEF TypeOK

-----------------------------------------------------------------------------
LEMMA AskedOfStep ==
    ASSUME AskedOf, [Next]_vars
    PROVE  AskedOf'
<1> USE DEF AskedOf
<1>1. CASE \E f \in Files : AskFor("confirm", f) \/ AskFor("dismiss", f)
    BY <1>1 DEF AskFor
<1>2. CASE Commit
    BY <1>2 DEF Commit
<1>3. CASE UNCHANGED request
    BY <1>3
<1>4. CASE SuggestStep \/ SuggestKill
    BY <1>3, <1>4 DEF SuggestStep, SuggestBegin, SuggestEnd, Stamp, SuggestKill
<1>5. CASE JoinStep \/ JoinKill
    BY <1>3, <1>5 DEF JoinStep, JoinBegin, JoinEnd, Encoded, EncodeFails, Save, Pass,
                      StopOffNas, Probe, Refuse, Wait, Encode, JoinFails, JoinKill
<1>6. CASE \/ \E f \in Files : Arrive(f) \/ FilePart(f)
           \/ \E x \in results : FileJoined(x)
           \/ Unmount \/ Mount \/ UNCHANGED vars
    BY <1>3, <1>6 DEF Arrive, FilePart, FileJoined, Unmount, Mount, vars, work
<1> QED BY <1>1, <1>2, <1>4, <1>5, <1>6 DEF Next

(* What was joined stays joined: filing moves it, and nothing deletes it.  *)
LEMMA ExistsStays ==
    ASSUME TypeOK, [Next]_vars, NEW g, Exists(g)
    PROVE  \E x \in results' : x.of = g
<1> USE DEF Exists
<1>1. ASSUME NEW x \in results, FileJoined(x)
      PROVE  \E y \in results' : y.of = g
    <2>1. PICK y \in results : y.of = g
        OBVIOUS
    <2>2. CASE y = x
        <3>1. [x EXCEPT !.at = "nas"] \in results' /\ [x EXCEPT !.at = "nas"].of = x.of
            BY <1>1 DEF FileJoined, TypeOK
        <3> QED BY <2>1, <2>2, <3>1
    <2>3. CASE y # x
        BY <1>1, <2>1, <2>3 DEF FileJoined
    <2> QED BY <2>2, <2>3
<1>2. CASE results \subseteq results'
    BY <1>2
<1>3. CASE SuggestStep \/ SuggestKill
    BY <1>2, <1>3 DEF SuggestStep, SuggestBegin, SuggestEnd, Stamp, SuggestKill, disk
<1>4. CASE JoinStep \/ JoinKill
    BY <1>2, <1>4 DEF JoinStep, JoinBegin, JoinEnd, Encoded, EncodeFails, Save, Pass,
                      StopOffNas, Probe, Refuse, Wait, Encode, JoinFails, JoinKill, disk
<1>5. CASE \/ \E f \in Files : \/ AskFor("confirm", f) \/ AskFor("dismiss", f)
                            \/ Arrive(f) \/ FilePart(f)
           \/ Commit \/ Unmount \/ Mount \/ UNCHANGED vars
    BY <1>2, <1>5 DEF Arrive, FilePart, AskFor, Commit, Unmount, Mount, vars, disk
<1> QED BY <1>1, <1>3, <1>4, <1>5 DEF Next

LEMMA WorkingStep ==
    ASSUME GroupingAssumption, TypeOK, Grouped, Planned, Working, [Next]_vars
    PROVE  Working'
<1> USE DEF Working
<1>1. ASSUME NEW g \in join.todo, Probe(g)
      PROVE  Working'
    <2>1. join'.pc = "probe" /\ join'.cur = g /\ UNCHANGED labels
        BY <1>1 DEF Probe, TypeOK, Join
    <2>2. g # {} /\ \A f \in Files : group[f] = g => state[f] = "joining"
        BY <1>1, JoiningFact DEF Probe
    <2> QED BY <2>1, <2>2 DEF labels
<1>2. CASE Encode \/ Encoded
    <2>1. /\ join'.cur = join.cur /\ join.pc \in {"probe", "encode"}
          /\ join'.pc = "encode" \/ (join'.pc = "save" /\ <<join.cur, "joined">> \in left')
          /\ UNCHANGED <<labels, overtaken>>
        BY <1>2 DEF Encode, Encoded, TypeOK, Join, bounds
    <2> QED BY <2>1 DEF labels
<1>3. ASSUME join'.pc \in {"idle", "next"}
      PROVE  Working'
    BY <1>3
<1>4. ASSUME UNCHANGED join,
             \A g : <<g, "joined">> \in left => <<g, "joined">> \in left' \/ Exists(g),
             overtaken => overtaken',
             \A f \in Files : join.cur # {} /\ group'[f] = join.cur /\ state'[f] = "dismissed" =>
                 (group[f] = join.cur /\ state[f] = "dismissed") \/ overtaken'
      PROVE  Working'
    <2>1. \A g : Exists(g) => \E x \in results' : x.of = g
        BY ExistsStays
    <2> QED BY <1>4, <2>1 DEF Exists
<1>5. ASSUME NEW u \in suggest, suggest # None, Stamp(u)
      PROVE  Working'
    <2>1. UNCHANGED <<join, left, overtaken>>
        BY <1>5 DEF Stamp, disk, bounds
    <2>2. \A f \in Files : state'[f] = "dismissed" => group'[f] = group[f] /\ state[f] = "dismissed"
        BY <1>5, StampFact
    <2> QED BY <1>4, <2>1, <2>2
<1>6. CASE Commit
    <2>1. UNCHANGED <<join, left, group>> /\ (overtaken => overtaken')
        BY <1>6 DEF Commit, disk
    <2>2. \A f \in Files : join.cur # {} /\ group[f] = join.cur /\ state'[f] = "dismissed" =>
              state[f] = "dismissed" \/ overtaken'
        BY <1>6 DEF Commit, SetState, Members
    <2> QED BY <1>4, <2>1, <2>2
<1>7. ASSUME NEW x \in results, FileJoined(x)
      PROVE  Working'
    <2>1. \A g : <<g, "joined">> \in left => <<g, "joined">> \in left' \/ Exists(g)
        BY <1>7 DEF FileJoined, Exists
    <2>2. UNCHANGED <<join, labels, overtaken>>
        BY <1>7 DEF FileJoined, work, bounds
    <2> QED BY <1>4, <2>1, <2>2 DEF labels
<1>8. CASE UNCHANGED <<join, labels, left, overtaken>>
    BY <1>4, <1>8 DEF labels
<1>9. CASE SuggestBegin \/ SuggestEnd \/ SuggestKill
    BY <1>8, <1>9 DEF SuggestBegin, SuggestEnd, SuggestKill, disk, bounds
<1>10. CASE \/ \E f \in Files : \/ AskFor("confirm", f) \/ AskFor("dismiss", f)
                             \/ Arrive(f) \/ FilePart(f)
            \/ Unmount \/ Mount \/ UNCHANGED vars
    BY <1>8, <1>10 DEF Arrive, FilePart, AskFor, Unmount, Mount, vars, labels, work, disk, bounds
<1>11. CASE JoinBegin \/ Refuse \/ Wait \/ EncodeFails \/ Save \/ JoinEnd \/ JoinKill
    <2>1. join'.pc \in {"idle", "next"}
        BY <1>11, NoJoinFact DEF JoinBegin, Refuse, Wait, EncodeFails, Save, JoinEnd, JoinKill,
                                 JoinFails, NoJoin
    <2> QED BY <1>3, <2>1
<1>12. ASSUME NEW g \in join.todo, Pass(g) \/ StopOffNas(g)
       PROVE  Working'
    <2>1. join'.pc \in {"idle", "next"}
        <3>1. join \in Join /\ join.todo \ {g} \in SUBSET Groups
            BY DEF TypeOK, Join
        <3>2. CASE Pass(g)
            BY <3>1, <3>2 DEF Pass, Take, Join
        <3>3. CASE StopOffNas(g)
            BY <3>3, NoJoinFact DEF StopOffNas
        <3> QED BY <1>12, <3>2, <3>3
    <2> QED BY <1>3, <2>1
<1> QED BY <1>1, <1>2, <1>5, <1>6, <1>7, <1>9, <1>10, <1>11, <1>12 DEF Next, SuggestStep, JoinStep

LEMMA JoinedOnceStep ==
    ASSUME GroupingAssumption, TypeOK, Grouped, Planned, Working, JoinedOnce, [Next]_vars
    PROVE  JoinedOnce'
<1> DEFINE Once(R) == \A x, y \in R : x.of = y.of => x = y
           There(R, L) == \A x \in R : x.at = "staging" => <<x.of, "joined">> \in L
<1>1. Once(results) /\ There(results, left)
    BY DEF JoinedOnce
<1>2. ASSUME Once(results'), There(results', left'),
             \A f \in Files : state'[f] = "joined" =>
                 \/ group'[f] = group[f] /\ state[f] = "joined"
                 \/ \E x \in results' : x.of = group'[f]
      PROVE  JoinedOnce'
    <2>1. \A f \in Files : state[f] = "joined" => \E x \in results' : x.of = group[f]
        BY ExistsStays DEF JoinedOnce
    <2> QED BY <1>2, <2>1 DEF JoinedOnce, Exists
<1>3. ASSUME NEW x \in results, FileJoined(x)
      PROVE  JoinedOnce'
    <2> DEFINE y == [x EXCEPT !.at = "nas"]
    <2>1. y.of = x.of /\ y.at = "nas"
        BY DEF TypeOK
    <2>2. results' = (results \ {x}) \cup {y} /\ left' = left \ {<<x.of, "joined">>} /\ UNCHANGED labels
        BY <1>3 DEF FileJoined
    <2> HIDE DEF y
    <2>3. Once(results')
        BY <1>1, <2>1, <2>2
    <2>4. There(results', left')
        BY <1>1, <2>1, <2>2
    <2> HIDE DEF Once, There
    <2> QED BY <1>2, <2>2, <2>3, <2>4 DEF labels
<1>4. CASE Save
    <2> DEFINE g == join.cur
    <2>1. CASE Exists(g)
        <3>1. /\ UNCHANGED <<results, left, group>>
              /\ state' = [f \in Files |-> IF group[f] = g THEN "join-failed" ELSE state[f]]
            BY <1>4, <2>1 DEF Save, JoinFails, SetState, Members, disk
        <3> HIDE DEF Once, There, g
        <3> QED BY <1>1, <1>2, <3>1
    <2>2. CASE ~Exists(g)
        <3> DEFINE y == [of |-> g, at |-> "staging"]
        <3>1. /\ results' = results \cup {y} /\ left' = left /\ group' = group
              /\ state' = [f \in Files |-> IF group[f] = g THEN "joined" ELSE state[f]]
            BY <1>4, <2>2 DEF Save, SetState, Members
        <3>2. <<g, "joined">> \in left /\ y.of = g /\ \A x \in results : x.of # g
            BY <1>4, <2>2 DEF Save, Working, Exists
        <3> HIDE DEF y, g
        <3>3. Once(results') /\ There(results', left')
            BY <1>1, <3>1, <3>2
        <3> HIDE DEF Once, There
        <3> QED BY <1>2, <3>1, <3>2, <3>3
    <2> QED BY <2>1, <2>2
<1>5. ASSUME UNCHANGED results, There(results, left'),
             \A f \in Files : state'[f] = "joined" => group'[f] = group[f] /\ state[f] = "joined"
      PROVE  JoinedOnce'
    <2>1. Once(results') /\ There(results', left')
        BY <1>1, <1>5
    <2> HIDE DEF Once, There
    <2> QED BY <1>2, <1>5, <2>1
<1>6. ASSUME NEW u \in suggest, suggest # None, Stamp(u)
      PROVE  JoinedOnce'
    <2>1. UNCHANGED <<results, left>>
        BY <1>6 DEF Stamp, disk
    <2>2. \A f \in Files : state'[f] = "joined" => group'[f] = group[f] /\ state[f] = "joined"
        BY <1>6, StampFact
    <2> QED BY <1>1, <1>5, <2>1, <2>2
<1>7. CASE Commit
    <2>1. UNCHANGED <<results, left, group>>
        BY <1>7 DEF Commit, disk
    <2>2. \A f \in Files : state'[f] = "joined" => state[f] = "joined"
        <3>1. request.verb \in {"confirm", "dismiss"}
            BY <1>7 DEF Commit, TypeOK
        <3>2. Target(request.of, request.verb) # "joined"
            BY <3>1 DEF Target
        <3> QED BY <1>7, <3>2 DEF Commit, SetState
    <2> QED BY <1>1, <1>5, <2>1, <2>2
<1>8. CASE Encode
    BY <1>1, <1>5, <1>8 DEF Encode, labels
<1>9. CASE Refuse
    BY <1>1, <1>5, <1>9 DEF Refuse, JoinFails, SetState, disk
<1>10. CASE Encoded
    BY <1>1, <1>5, <1>10 DEF Encoded, labels
<1>11. CASE EncodeFails
    BY <1>1, <1>5, <1>11 DEF EncodeFails, JoinFails, SetState
<1>12. CASE UNCHANGED <<results, left, labels>>
    BY <1>1, <1>5, <1>12 DEF labels
<1>13. CASE SuggestBegin \/ SuggestEnd \/ SuggestKill \/ JoinBegin \/ JoinEnd \/ JoinKill
    BY <1>12, <1>13 DEF SuggestBegin, SuggestEnd, SuggestKill, JoinBegin, JoinEnd, JoinKill, disk
<1>14. CASE Wait \/ \E g \in join.todo : Pass(g) \/ StopOffNas(g) \/ Probe(g)
    BY <1>12, <1>14 DEF Wait, Pass, StopOffNas, Probe, disk
<1>15. CASE \/ \E f \in Files : \/ AskFor("confirm", f) \/ AskFor("dismiss", f)
                             \/ Arrive(f) \/ FilePart(f)
            \/ Unmount \/ Mount \/ UNCHANGED vars
    BY <1>12, <1>15 DEF Arrive, FilePart, AskFor, Unmount, Mount, vars, labels, disk
<1> QED BY <1>3, <1>4, <1>6, <1>7, <1>8, <1>9, <1>10, <1>11, <1>13, <1>14, <1>15
           DEF Next, SuggestStep, JoinStep

LEMMA Start ==
    ASSUME GroupingAssumption, Init
    PROVE  IInv
<1>1. TypeOK
    <2>1. MaxRequests \in Nat /\ MaxFaults \in Nat /\ Metas \subseteq [Files -> Meta]
        BY DEF GroupingAssumption
    <2>2. requests \in 0 .. MaxRequests /\ faults \in 0 .. MaxFaults
        BY <2>1 DEF Init
    <2>3. /\ meta \in [Files -> Meta] /\ at \in [Files -> {"away", "staging", "nas"}]
          /\ group \in [Files -> Groups]
          /\ type \in [Files -> {"split", "multitrack", None}] /\ state \in [Files -> States \cup {None}]
        BY <2>1 DEF Init, Groups
    <2>4. join \in Join
        BY NoJoinFact DEF Init
    <2> QED BY <2>2, <2>3, <2>4 DEF Init, TypeOK
<1>2. Grouped /\ Planned /\ AskedOf /\ Working
    BY NoJoinFact DEF Init, Grouped, Planned, AskedOf, Working
<1>3. JoinedOnce
    BY DEF Init, JoinedOnce, GroupingAssumption, States
<1> QED BY <1>1, <1>2, <1>3 DEF IInv

LEMMA Invariance ==
    ASSUME GroupingAssumption
    PROVE  Spec => []IInv
<1>1. Init => IInv
    BY Start
<1>2. IInv /\ [Next]_vars => IInv'
    BY TypeStep, GroupedStep, PlannedStep, AskedOfStep, WorkingStep, JoinedOnceStep DEF IInv
<1> QED BY <1>1, <1>2, PTL DEF Spec

-----------------------------------------------------------------------------
(* What the invariant says of groups is what is asked of them.             *)
LEMMA WholeAndFit ==
    ASSUME GroupingAssumption, TypeOK, Grouped
    PROVE  SuggestionsFit
<1>1. ASSUME NEW f \in Files, group[f] # {}
      PROVE  /\ f \in group[f] /\ group[f] \subseteq Files /\ Sound(group[f], type[f])
             /\ \A g \in group[f] : group[g] = group[f] /\ type[g] = type[f] /\ state[g] = state[f]
    BY <1>1 DEF Grouped, Units, Groups
<1>2. OneUnit
    <2> SUFFICES ASSUME NEW f \in Files, group[f] # {}
                 PROVE  /\ Members(group[f]) = group[f] /\ Cardinality(group[f]) >= 2
                        /\ \A g \in group[f] : type[g] = type[f] /\ state[g] = state[f]
        BY DEF OneUnit
    <2>1. Members(group[f]) = group[f]
        BY <1>1 DEF Members
    <2>2. Cardinality(group[f]) >= 2
        <3>1. PICK a \in group[f], b \in group[f] : a # b
            BY <1>1 DEF Sound
        <3>2. IsFiniteSet(group[f])
            BY <1>1, FS_Subset DEF GroupingAssumption
        <3>3. IsFiniteSet({a}) /\ Cardinality({a}) = 1
            BY FS_Singleton
        <3>4. IsFiniteSet({a} \cup {b}) /\ Cardinality({a} \cup {b}) = 2
            BY <3>1, <3>3, FS_AddElement
        <3>5. Cardinality({a} \cup {b}) <= Cardinality(group[f])
            BY <3>1, <3>2, <3>4, FS_Subset
        <3>6. Cardinality(group[f]) \in Nat
            BY <3>2, FS_CardinalityType
        <3> QED BY <3>4, <3>5, <3>6
    <2> QED BY <1>1, <2>1, <2>2
<1>3. ASSUME NEW f \in Files, type[f] # None
      PROVE  /\ type[f] = "split" =>
                 /\ \A g \in group[f] : meta[g].profile = meta[f].profile
                 /\ LET last == CHOOSE g \in group[f] :
                                    \A h \in group[f] \ {g} : Before(Starts, h, g)
                    IN  \A g \in group[f] \ {last} :
                            IsFull(g) /\ \E h \in group[f] : Follows(g, h)
             /\ type[f] = "multitrack" => \A g \in group[f] \ {f} :
                 /\ meta[g].stem = meta[f].stem /\ meta[g].label # meta[f].label
                 /\ Near(meta[f].len, meta[g].len, 2 * Tolerance)
                 /\ meta[f].exact <=> meta[g].exact
                 /\ meta[f].exact => Near(Starts[f], Starts[g], MaxSpan)
    <2>1. group[f] # {}
        BY <1>3 DEF Grouped
    <2>2. CASE type[f] = "multitrack"
        BY <1>1, <2>1, <2>2 DEF Sound, TracksFit
    <2>3. CASE type[f] = "split"
        <3>1. PartsFit(group[f])
            BY <1>1, <2>1, <2>3 DEF Sound
        <3> DEFINE Last(g) == \A h \in group[f] \ {g} : Before(Starts, h, g)
                   last == CHOOSE g \in group[f] : Last(g)
        <3>2. ASSUME NEW g \in group[f], g # last
              PROVE  IsFull(g) /\ \E h \in group[f] : Follows(g, h)
            <4>1. CASE Last(g)
                <5>1. last \in group[f] /\ Last(last)
                    BY <4>1
                <5>2. Before(Starts, g, last) /\ Before(Starts, last, g)
                    BY <3>2, <4>1, <5>1
                <5>3. last \in Files /\ g \in Files /\ Starts[last] \in Int /\ Starts[g] \in Int
                    BY <1>1, <2>1, <3>1, <5>1 DEF PartsFit
                <5> QED BY <5>2, <5>3, BeforeFact
            <4>2. CASE ~Last(g)
                BY <3>1, <4>2 DEF PartsFit
            <4> QED BY <4>1, <4>2
        <3>3. \A g \in group[f] : meta[g].profile = meta[f].profile
            BY <1>1, <2>1, <3>1 DEF PartsFit
        <3> QED BY <2>3, <3>2, <3>3
    <2> QED BY <1>3, <2>2, <2>3 DEF TypeOK
<1>4. None \notin {"split", "multitrack"}
    BY DEF GroupingAssumption
<1> QED BY <1>2, <1>3, <1>4 DEF SuggestionsFit

(* A step that takes a dismissed group out of that is a request.           *)
LEMMA DismissedStep ==
    ASSUME GroupingAssumption, IInv, [Next]_vars
    PROVE  KeepsDismissed
<1> USE DEF IInv
<1> SUFFICES ASSUME NEW f \in Files, state[f] = "dismissed", request' = request,
                    ~(overtaken /\ group[f] = join.cur), state'[f] # "dismissed"
             PROVE  FALSE
    BY DEF KeepsDismissed
<1>1. group[f] # {}
    BY DEF Grouped, GroupingAssumption, States
<1>2. CASE Stamping
    <2>1. PICK u \in suggest : suggest # None /\ Stamp(u)
        BY <1>2 DEF Stamping
    <2> QED BY <1>1, <2>1, StampFact DEF Planned
<1>3. CASE Wait \/ Encode
    BY <1>3 DEF Wait, Encode, labels, TypeOK
<1>4. CASE Refuse \/ EncodeFails \/ Save
    <2>1. group[f] # join.cur
        BY <1>4 DEF Refuse, EncodeFails, Save, Working
    <2> QED BY <1>4, <2>1 DEF Refuse, EncodeFails, Save, JoinFails, SetState, Members, TypeOK
<1>5. CASE UNCHANGED state
    BY <1>5
<1>6. CASE Commit
    BY <1>6 DEF Commit
<1>7. CASE SuggestBegin \/ SuggestEnd \/ SuggestKill \/ JoinBegin \/ JoinEnd \/ Encoded \/ JoinKill
    BY <1>5, <1>7 DEF SuggestBegin, SuggestEnd, SuggestKill, JoinBegin, JoinEnd, Encoded, JoinKill, labels
<1>8. CASE \E g \in join.todo : Pass(g) \/ StopOffNas(g) \/ Probe(g)
    BY <1>5, <1>8 DEF Pass, StopOffNas, Probe, labels
<1>9. CASE \/ \E h \in Files : \/ AskFor("confirm", h) \/ AskFor("dismiss", h)
                            \/ Arrive(h) \/ FilePart(h)
           \/ \E x \in results : FileJoined(x)
           \/ Unmount \/ Mount \/ UNCHANGED vars
    BY <1>5, <1>9 DEF Arrive, FilePart, AskFor, FileJoined, Unmount, Mount, vars, labels
<1> QED BY <1>2, <1>3, <1>4, <1>6, <1>7, <1>8, <1>9 DEF Next, SuggestStep, JoinStep, Stamping

-----------------------------------------------------------------------------
(* Groups, labels, jobs and requests keep their types: what is detected    *)
(* are sets of the candidates (suggest_groupings, join_pending_groups).    *)
THEOREM GroupingTypeCorrect ==
    ASSUME GroupingAssumption
    PROVE  Spec => []TypeOK
<1>1. IInv => TypeOK
    BY DEF IInv
<1> QED BY <1>1, Invariance, PTL

(* Groups never overlap and are always whole, with one type and status;    *)
(* parts suggested as one recording follow each other, tracks suggested as *)
(* one take fit together (find_split_chains, find_multitrack_by_time,      *)
(* find_multitrack_by_batch, suggest_groupings).                           *)
THEOREM SuggestionsWholeAndFit ==
    ASSUME GroupingAssumption
    PROVE  Spec => []SuggestionsFit
<1>1. IInv => SuggestionsFit
    BY WholeAndFit DEF IInv
<1> QED BY <1>1, Invariance, PTL

(* Whatever is confirmed again, killed or filed, a group has one joined    *)
(* recording at most, whose file is there until it is filed, and a status  *)
(* of `joined` means that it has one (join_pending_groups).                *)
THEOREM GroupsJoinedOnce ==
    ASSUME GroupingAssumption
    PROVE  Spec => []JoinedOnce
<1>1. IInv => JoinedOnce
    BY DEF IInv
<1> QED BY <1>1, Invariance, PTL

(* A dismissed group stays dismissed until someone confirms it, unless a   *)
(* join had read its members before it was dismissed, and has not yet      *)
(* committed what came of it (join_pending_groups).                        *)
THEOREM DismissedGroupsStay ==
    ASSUME GroupingAssumption
    PROVE  Spec => DismissedStays
<1>1. IInv /\ [Next]_vars => [KeepsDismissed]_vars
    BY DismissedStep
<1> QED BY <1>1, Invariance, PTL DEF Spec, DismissedStays

=============================================================================
