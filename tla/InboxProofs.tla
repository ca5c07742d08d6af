----------------------------- MODULE InboxProofs ------------------------------
(***************************************************************************)
(* Safety of the Inbox, for any files, names and contents, any budget and  *)
(* number of faults: the types, that what a row names in staging is there, *)
(* that nothing moved to _processed is unknown, that sidecars follow their *)
(* audio, and that the Inbox keeps to its budget.                          *)
(***************************************************************************)
EXTENDS Inbox, FiniteSetTheorems, WellFoundedInduction, TLAPS

-----------------------------------------------------------------------------
(* Sums and maxima of finite sets.  A claim about every finite set is      *)
(* proved on a smallest set of which it is false: Smallest stands in for   *)
(* induction.                                                              *)

(* The element a fold takes out of a set first, and what it leaves.        *)
First(S) == CHOOSE x \in S : TRUE

Rest(S) == S \ {First(S)}

(* h is the table of the sums of w over the subsets of S.                  *)
Tabulates(h, w, S) ==
    h = [T \in SUBSET S |-> IF T = {} THEN 0 ELSE w[First(T)] + h[Rest(T)]]

Table(w, S) == CHOOSE h : Tabulates(h, w, S)

LEMMA SumOfTable ==
    ASSUME NEW w, NEW S
    PROVE  SumFunctionOnSet(w, S) = Table(w, S)[S]
  BY DEF SumFunctionOnSet, FoldFunctionOnSet, MapThenFoldSet, Table, Tabulates, First, Rest

(* Of sets of finite sets.                                               *)
LEMMA Smallest ==
    ASSUME NEW S, IsFiniteSet(S), NEW Bad, Bad \subseteq SUBSET S, Bad # {}
    PROVE  \E T \in Bad : \A U \in Bad : U \subseteq T => U = T
<1>1. IsWellFoundedOn(StrictSubsetOrdering(S), SUBSET S)
  BY FS_StrictSubsetOrderingWellFounded, FS_FiniteSubsetsOfFinite
<1>2. PICK T \in Bad : \A U \in Bad : <<U, T>> \notin StrictSubsetOrdering(S)
  BY <1>1, WFMin
<1>3. ASSUME NEW U \in Bad, U \subseteq T, U # T
      PROVE  FALSE
  <2>1. <<U, T>> \in (SUBSET S) \X (SUBSET S)
    OBVIOUS
  <2>2. <<U, T>> \in StrictSubsetOrdering(S)
    BY <1>3, <2>1 DEF StrictSubsetOrdering
  <2>3. QED
    BY <1>2, <2>2
<1>4. QED
  BY <1>3

LEMMA RestIsLess ==
    ASSUME NEW T, T # {}
    PROVE  First(T) \in T /\ Rest(T) \subseteq T /\ Rest(T) # T
  BY DEF First, Rest

LEMMA TablesAgree ==
    ASSUME NEW w, NEW S, IsFiniteSet(S), NEW T \in SUBSET S, NEW U \in SUBSET S,
           NEW g, NEW h, Tabulates(g, w, T), Tabulates(h, w, U)
    PROVE  \A V \in SUBSET (T \cap U) : g[V] = h[V]
<1> DEFINE Bad == {V \in SUBSET (T \cap U) : g[V] # h[V]}
<1>1. SUFFICES ASSUME Bad # {}
               PROVE  FALSE
  OBVIOUS
<1>2. Bad \subseteq SUBSET S
  OBVIOUS
<1>3. PICK V \in Bad : \A W \in Bad : W \subseteq V => W = V
  <2> HIDE DEF Bad
  <2> QED
    BY <1>1, <1>2, Smallest
<1>4. V \in SUBSET T /\ V \in SUBSET U /\ g[V] # h[V]
  OBVIOUS
<1>5. g[V] = IF V = {} THEN 0 ELSE w[First(V)] + g[Rest(V)]
  BY <1>4 DEF Tabulates
<1>6. h[V] = IF V = {} THEN 0 ELSE w[First(V)] + h[Rest(V)]
  BY <1>4 DEF Tabulates
<1>7. V # {}
  BY <1>4, <1>5, <1>6
<1>8. Rest(V) \in SUBSET (T \cap U) /\ Rest(V) \notin Bad
  BY <1>3, <1>4, <1>7, RestIsLess
<1>9. g[Rest(V)] = h[Rest(V)]
  BY <1>8
<1>10. QED
  BY <1>4, <1>5, <1>6, <1>7, <1>9

LEMMA TableThere ==
    ASSUME NEW w, NEW S, IsFiniteSet(S)
    PROVE  Tabulates(Table(w, S), w, S)
<1> DEFINE Bad == {T \in SUBSET S : ~ \E h : Tabulates(h, w, T)}
<1>1. SUFFICES ASSUME Bad # {}
               PROVE  FALSE
  BY DEF Table
<1>2. PICK T \in Bad : \A U \in Bad : U \subseteq T => U = T
  <2>1. Bad \subseteq SUBSET S
    OBVIOUS
  <2> HIDE DEF Bad
  <2> QED
    BY <1>1, <2>1, Smallest
<1> DEFINE h == [U \in SUBSET T |->
                    IF U = {} THEN 0 ELSE w[First(U)] + Table(w, Rest(U))[Rest(U)]]
<1>3. T \in SUBSET S
  OBVIOUS
<1>4. ASSUME NEW U \in SUBSET T, U # T
      PROVE  Tabulates(Table(w, U), w, U)
  <2>1. \E g : Tabulates(g, w, U)
    BY <1>2, <1>4
  <2>2. QED
    BY <2>1 DEF Table
<1> HIDE DEF Bad
<1>5. ASSUME NEW U \in SUBSET T, U # {}
      PROVE  h[U] = w[First(U)] + h[Rest(U)]
  <2> DEFINE R == Rest(U)
  <2>1. R \in SUBSET T /\ R # T /\ R \in SUBSET S
    BY <1>3, <1>5, RestIsLess
  <2>2. Tabulates(Table(w, R), w, R)
    BY <1>4, <2>1
  <2>3. Table(w, R)[R] = IF R = {} THEN 0 ELSE w[First(R)] + Table(w, R)[Rest(R)]
    BY <2>2 DEF Tabulates
  <2>4. CASE R = {}
    BY <1>5, <2>1, <2>3, <2>4
  <2>5. CASE R # {}
    <3> DEFINE Q == Rest(R)
    <3>1. Q \in SUBSET T /\ Q # T /\ Q \in SUBSET S /\ Q \in SUBSET R
      BY <2>1, <2>5, RestIsLess
    <3>2. Tabulates(Table(w, Q), w, Q)
      BY <1>4, <3>1
    <3>3. \A V \in SUBSET (R \cap Q) : Table(w, R)[V] = Table(w, Q)[V]
      <4> HIDE DEF R, Q
      <4> QED
        BY <2>1, <2>2, <3>1, <3>2, TablesAgree
    <3>4. Table(w, R)[Q] = Table(w, Q)[Q]
      BY <3>1, <3>3
    <3>5. h[R] = w[First(R)] + Table(w, Q)[Q]
      BY <2>1, <2>5
    <3>6. QED
      BY <1>5, <2>3, <2>5, <3>4, <3>5
  <2>6. QED
    BY <2>4, <2>5
<1>6. h = [U \in SUBSET T |-> IF U = {} THEN 0 ELSE w[First(U)] + h[Rest(U)]]
  <2>1. h[{}] = 0
    OBVIOUS
  <2>2. DOMAIN h = SUBSET T
    OBVIOUS
  <2>3. h = [U \in SUBSET T |-> h[U]]
    OBVIOUS
  <2> HIDE DEF h
  <2>4. QED
    BY <1>5, <2>1, <2>3
<1>7. Tabulates(h, w, T)
  <2> HIDE DEF h
  <2> QED
    BY <1>6 DEF Tabulates
<1>8. QED
  BY <1>7 DEF Bad

LEMMA SumStep ==
    ASSUME NEW w, NEW S, IsFiniteSet(S)
    PROVE  SumFunctionOnSet(w, S) =
               IF S = {} THEN 0 ELSE w[First(S)] + SumFunctionOnSet(w, Rest(S))
<1>1. Tabulates(Table(w, S), w, S)
  BY TableThere
<1>2. Table(w, S)[S] = IF S = {} THEN 0 ELSE w[First(S)] + Table(w, S)[Rest(S)]
  BY <1>1 DEF Tabulates
<1>3. ASSUME S # {}
      PROVE  Table(w, S)[Rest(S)] = Table(w, Rest(S))[Rest(S)]
  <2> DEFINE R == Rest(S)
  <2>1. R \in SUBSET S /\ S \in SUBSET S /\ S \cap R = R
    BY <1>3, RestIsLess
  <2>2. Tabulates(Table(w, R), w, R)
    BY <2>1, FS_Subset, TableThere
  <2> HIDE DEF R
  <2>3. \A V \in SUBSET (S \cap R) : Table(w, S)[V] = Table(w, R)[V]
    BY <1>1, <2>1, <2>2, TablesAgree
  <2>4. Table(w, S)[R] = Table(w, R)[R]
    BY <2>1, <2>3
  <2>5. QED
    BY <2>4 DEF R
<1>4. QED
  BY <1>2, <1>3, SumOfTable

LEMMA SumOfNone ==
    ASSUME NEW w
    PROVE  SumFunctionOnSet(w, {}) = 0
<1>1. IsFiniteSet({})
  BY FS_EmptySet
<1>2. QED
  BY <1>1, SumStep

LEMMA SumOfZeroes ==
    ASSUME NEW w, NEW S, IsFiniteSet(S), \A x \in S : w[x] = 0
    PROVE  SumFunctionOnSet(w, S) = 0
<1> DEFINE Bad == {T \in SUBSET S : SumFunctionOnSet(w, T) # 0}
<1>1. SUFFICES ASSUME Bad # {}
               PROVE  FALSE
  OBVIOUS
<1>2. PICK T \in Bad : \A U \in Bad : U \subseteq T => U = T
  <2>1. Bad \subseteq SUBSET S
    OBVIOUS
  <2> HIDE DEF Bad
  <2> QED
    BY <1>1, <2>1, Smallest
<1>3. T \in SUBSET S /\ SumFunctionOnSet(w, T) # 0 /\ IsFiniteSet(T)
  BY FS_Subset
<1>4. T # {}
  BY <1>3, SumOfNone
<1>5. Rest(T) \in SUBSET S /\ Rest(T) \notin Bad /\ First(T) \in S
  BY <1>2, <1>3, <1>4, RestIsLess
<1>6. SumFunctionOnSet(w, Rest(T)) = 0 /\ w[First(T)] = 0
  BY <1>5
<1>7. SumFunctionOnSet(w, T) = w[First(T)] + SumFunctionOnSet(w, Rest(T))
  BY <1>3, <1>4, SumStep
<1>8. QED
  BY <1>3, <1>6, <1>7

LEMMA SumIsNat ==
    ASSUME NEW w, NEW S, IsFiniteSet(S), \A x \in S : w[x] \in Nat
    PROVE  SumFunctionOnSet(w, S) \in Nat
<1> DEFINE Bad == {T \in SUBSET S : SumFunctionOnSet(w, T) \notin Nat}
<1>1. SUFFICES ASSUME Bad # {}
               PROVE  FALSE
  OBVIOUS
<1>2. PICK T \in Bad : \A U \in Bad : U \subseteq T => U = T
  <2>1. Bad \subseteq SUBSET S
    OBVIOUS
  <2> HIDE DEF Bad
  <2> QED
    BY <1>1, <2>1, Smallest
<1>3. T \in SUBSET S /\ SumFunctionOnSet(w, T) \notin Nat /\ IsFiniteSet(T)
  BY FS_Subset
<1>4. T # {}
  BY <1>3, SumOfNone
<1>5. Rest(T) \in SUBSET S /\ Rest(T) \notin Bad /\ First(T) \in S
  BY <1>2, <1>3, <1>4, RestIsLess
<1>6. SumFunctionOnSet(w, Rest(T)) \in Nat /\ w[First(T)] \in Nat
  BY <1>5
<1>7. SumFunctionOnSet(w, T) = w[First(T)] + SumFunctionOnSet(w, Rest(T))
  BY <1>3, <1>4, SumStep
<1>8. QED
  BY <1>3, <1>6, <1>7

(* Whichever element is taken out first.                                   *)
LEMMA SumWithout ==
    ASSUME NEW w, NEW S, IsFiniteSet(S), \A x \in S : w[x] \in Nat, NEW a \in S
    PROVE  SumFunctionOnSet(w, S) = w[a] + SumFunctionOnSet(w, S \ {a})
<1> DEFINE Sum(T) == SumFunctionOnSet(w, T)
           Bad == {T \in SUBSET S : \E x \in T : Sum(T) # w[x] + Sum(T \ {x})}
<1>1. SUFFICES ASSUME Bad # {}
               PROVE  FALSE
  OBVIOUS
<1>2. PICK T \in Bad : \A U \in Bad : U \subseteq T => U = T
  <2>1. Bad \subseteq SUBSET S
    OBVIOUS
  <2> HIDE DEF Bad
  <2> QED
    BY <1>1, <2>1, Smallest
<1>3. PICK x \in T : Sum(T) # w[x] + Sum(T \ {x})
  OBVIOUS
<1> DEFINE c == First(T)
           R == Rest(T)
           D == T \ {x}
           E == R \ {x}
<1>4. T \in SUBSET S /\ c \in T /\ R = T \ {c} /\ x \in T /\ T # {}
  BY RestIsLess DEF Rest
<1>5. \A U \in SUBSET S : Sum(U) \in Nat
  BY FS_Subset, SumIsNat
<1>6. Sum(T) = w[c] + Sum(R)
  BY <1>4, FS_Subset, SumStep
<1> HIDE DEF c, R
<1>7. x # c
  BY <1>3, <1>4, <1>6
<1>8. R \notin Bad /\ D \notin Bad
  BY <1>2, <1>4
<1>9. Sum(R) = w[x] + Sum(E)
  BY <1>4, <1>7, <1>8
<1>10. Sum(D) = w[c] + Sum(E)
  <2>1. D \ {c} = E
    BY <1>4
  <2>2. D \in SUBSET S /\ c \in D
    BY <1>4, <1>7
  <2> HIDE DEF D, E
  <2>3. QED
    BY <1>8, <2>1, <2>2
<1>11. w[c] \in Nat /\ w[x] \in Nat /\ Sum(E) \in Nat
  BY <1>4, <1>5
<1> HIDE DEF Sum
<1>12. QED
  BY <1>3, <1>6, <1>9, <1>10, <1>11

LEMMA SumNoMore ==
    ASSUME NEW v, NEW w, NEW S, IsFiniteSet(S),
           \A x \in S : v[x] \in Nat /\ w[x] \in Nat /\ v[x] <= w[x]
    PROVE  SumFunctionOnSet(v, S) <= SumFunctionOnSet(w, S)
<1> DEFINE Sum(f, T) == SumFunctionOnSet(f, T)
           Bad == {T \in SUBSET S : ~ (Sum(v, T) <= Sum(w, T))}
<1>1. SUFFICES ASSUME Bad # {}
               PROVE  FALSE
  OBVIOUS
<1>2. PICK T \in Bad : \A U \in Bad : U \subseteq T => U = T
  <2>1. Bad \subseteq SUBSET S
    OBVIOUS
  <2> HIDE DEF Bad
  <2> QED
    BY <1>1, <2>1, Smallest
<1>3. T \in SUBSET S /\ ~ (Sum(v, T) <= Sum(w, T)) /\ IsFiniteSet(T)
  BY FS_Subset
<1>4. T # {}
  BY <1>3, SumOfNone
<1> DEFINE R == Rest(T)
           c == First(T)
<1>5. R \in SUBSET S /\ R \notin Bad /\ c \in S
  BY <1>2, <1>3, <1>4, RestIsLess
<1>6. Sum(v, R) <= Sum(w, R) /\ v[c] <= w[c] /\ v[c] \in Nat /\ w[c] \in Nat
  BY <1>5
<1>7. Sum(v, T) = v[c] + Sum(v, R) /\ Sum(w, T) = w[c] + Sum(w, R)
  BY <1>3, <1>4, SumStep
<1>8. Sum(v, R) \in Nat /\ Sum(w, R) \in Nat
  BY <1>5, FS_Subset, SumIsNat
<1> HIDE DEF Sum, R, c
<1>9. QED
  BY <1>3, <1>6, <1>7, <1>8

LEMMA SumOfPart ==
    ASSUME NEW w, NEW S, IsFiniteSet(S), \A x \in S : w[x] \in Nat, NEW P \in SUBSET S
    PROVE  SumFunctionOnSet(w, P) <= SumFunctionOnSet(w, S)
<1> DEFINE Sum(T) == SumFunctionOnSet(w, T)
           Bad == {T \in SUBSET S : P \subseteq T /\ ~ (Sum(P) <= Sum(T))}
<1>1. SUFFICES ASSUME Bad # {}
               PROVE  FALSE
  OBVIOUS
<1>2. PICK T \in Bad : \A U \in Bad : U \subseteq T => U = T
  <2>1. Bad \subseteq SUBSET S
    OBVIOUS
  <2> HIDE DEF Bad
  <2> QED
    BY <1>1, <2>1, Smallest
<1>3. T \in SUBSET S /\ P \subseteq T /\ ~ (Sum(P) <= Sum(T)) /\ IsFiniteSet(T)
  BY FS_Subset
<1>4. \A U \in SUBSET S : Sum(U) \in Nat
  BY FS_Subset, SumIsNat
<1>5. P # T
  BY <1>3, <1>4
<1>6. PICK x \in T : x \notin P
  BY <1>3, <1>5
<1> DEFINE R == T \ {x}
<1>7. R \in SUBSET S /\ P \subseteq R /\ R \notin Bad
  BY <1>2, <1>3, <1>6
<1>8. Sum(P) <= Sum(R)
  BY <1>7
<1>9. Sum(T) = w[x] + Sum(R) /\ w[x] \in Nat
  BY <1>3, SumWithout
<1>10. Sum(P) \in Nat /\ Sum(R) \in Nat
  BY <1>4, <1>7
<1> HIDE DEF Sum, R
<1>11. QED
  BY <1>3, <1>8, <1>9, <1>10

LEMMA GreatestThere ==
    ASSUME NEW w, NEW S, IsFiniteSet(S), S # {}, \A x \in S : w[x] \in Nat
    PROVE  \E m \in S : \A x \in S : w[x] <= w[m]
<1> DEFINE Bad == {T \in SUBSET S : T # {} /\ ~ \E m \in T : \A x \in T : w[x] <= w[m]}
<1>1. SUFFICES ASSUME Bad # {}
               PROVE  FALSE
  OBVIOUS
<1>2. PICK T \in Bad : \A U \in Bad : U \subseteq T => U = T
  <2>1. Bad \subseteq SUBSET S
    OBVIOUS
  <2> HIDE DEF Bad
  <2> QED
    BY <1>1, <2>1, Smallest
<1>3. PICK a \in T : TRUE
  OBVIOUS
<1> DEFINE R == T \ {a}
<1>4. R \in SUBSET S /\ R \notin Bad /\ w[a] \in Nat
  BY <1>2
<1>5. R # {}
  BY <1>4
<1>6. PICK m \in R : \A x \in R : w[x] <= w[m]
  BY <1>4, <1>5
<1>7. \A x \in R : w[x] \in Nat
  OBVIOUS
<1>8. CASE w[a] <= w[m]
  BY <1>6, <1>8
<1>9. CASE ~ (w[a] <= w[m])
  <2>1. \A x \in T : w[x] <= w[a]
    BY <1>4, <1>6, <1>7, <1>9
  <2>2. QED
    BY <2>1
<1>10. QED
  BY <1>8, <1>9

LEMMA ImageIsFinite ==
    ASSUME NEW f, NEW S, IsFiniteSet(S)
    PROVE  IsFiniteSet({f[x] : x \in S})
<1> DEFINE Image(T) == {f[x] : x \in T}
           Bad == {T \in SUBSET S : ~ IsFiniteSet(Image(T))}
<1>1. SUFFICES ASSUME Bad # {}
               PROVE  FALSE
  OBVIOUS
<1>2. PICK T \in Bad : \A U \in Bad : U \subseteq T => U = T
  <2>1. Bad \subseteq SUBSET S
    OBVIOUS
  <2> HIDE DEF Bad
  <2> QED
    BY <1>1, <2>1, Smallest
<1>3. ~ IsFiniteSet(Image(T)) /\ T \in SUBSET S
  OBVIOUS
<1>4. T # {}
  <2>1. Image({}) = {}
    OBVIOUS
  <2> HIDE DEF Image
  <2>2. QED
    BY <1>3, <2>1, FS_EmptySet
<1>5. PICK a \in T : TRUE
  BY <1>4
<1> DEFINE R == T \ {a}
<1>6. R \in SUBSET S /\ R \notin Bad
  BY <1>2, <1>3
<1>7. IsFiniteSet(Image(R))
  BY <1>6
<1>8. Image(T) = Image(R) \cup {f[a]}
  OBVIOUS
<1>9. QED
  <2> HIDE DEF Image, R
  <2> QED
    BY <1>3, <1>7, <1>8, FS_AddElement

LEMMA MaxThere ==
    ASSUME NEW S, IsFiniteSet(S), S \in SUBSET Nat, S # {}
    PROVE  Max(S) \in Nat /\ \A x \in S : x <= Max(S)
<1> DEFINE w == [x \in S |-> x]
<1>1. \A x \in S : w[x] = x /\ w[x] \in Nat
  OBVIOUS
<1>2. \E m \in S : \A x \in S : w[x] <= w[m]
  <2> HIDE DEF w
  <2>1. \A x \in S : w[x] \in Nat
    BY <1>1
  <2>2. QED
    BY <2>1, GreatestThere, Zenon
<1>3. \E m \in S : \A x \in S : m >= x
  BY <1>1, <1>2
<1>4. Max(S) \in S /\ \A x \in S : Max(S) >= x
  BY <1>3 DEF Max
<1>5. QED
  BY <1>4

-----------------------------------------------------------------------------
(* The inductive invariant.                                                *)

Fetching == {"copy", "copied", "ingest"}

Kind(s) == IF s \in Sidecars THEN Companions ELSE Recordings

Unfiled(c) == c \in Rows /\ resource[c].status # "filed"

(* The pull and the ingest inside it go together; a web upload is never    *)
(* one of a sidecar.                                                       *)
InStep ==
    /\ pull.pc \in Fetching => pull.cur \in Listed
    /\ pull.pc \in {"copy", "copied"} => pull.n < PerRun
    /\ ingest["pull"].pc # "none" <=> pull.pc = "ingest"
    /\ ingest["pull"].pc # "none" =>
           ingest["pull"].slot = pull.cur /\ ingest["pull"].parent = pull.parent
    /\ ingest["upload"].pc \in {"none", "check", "insert"}
    /\ ingest["upload"].pc # "none" =>
           ingest["upload"].slot \in Names /\ ingest["upload"].parent = None

(* Under a name that classify() takes for a sidecar there is one, and      *)
(* under any other there is a recording.                                   *)
OfKind ==
    /\ \A p \in Paths : inbox[p] \in Kind(p) \cup {None}
    /\ \A s \in Slots : stage[s] \in Kind(s) \cup {None}
    /\ \A t \in Threads : ingest[t].pc = "insert" => ingest[t].sum \in Kind(ingest[t].slot)

(* A row that is not filed names a place something was ingested from.      *)
Named == \A c \in Contents : Unfiled(c) => resource[c].at \in Slots /\ came[resource[c].at] >= 1

(* The first file that comes to a place is no row's yet while it is        *)
(* ingested, and it is still there at the INSERT.                          *)
FreshAt(t) ==
    LET s == ingest[t].slot
    IN  /\ came[s] >= 1
        /\ came[s] < 2 => \A c \in Contents : Unfiled(c) => resource[c].at # s
        /\ came[s] < 2 /\ ingest[t].pc = "insert" => stage[s] = ingest[t].sum

Fresh ==
    /\ pull.pc = "copied" => came[pull.cur] # 1
    /\ \A t \in Threads : ingest[t].pc \in {"check", "insert"} => FreshAt(t)

(* If senders use no path again, what the pull ingests is what lies in the *)
(* Inbox, and in the end it is known.                                      *)
Arrived ==
    ~Reuse /\ pull.pc \in Fetching =>
        LET p == pull.cur
            pc == ingest["pull"].pc
        IN  /\ pull.pc = "copied" \/ pc = "check" => stage[p] \in {inbox[p], None}
            /\ pc = "insert" => ingest["pull"].sum = inbox[p]
            /\ pc \in {"attach", "done"} => inbox[p] \in Rows \/ p \in unresolved

(* A sidecar's parent was found by its name, has a row, and was filed if   *)
(* the sidecar goes beside it.                                             *)
Hangs ==
    /\ pull.pc \in Fetching =>
           /\ pull.parent # None => pull.parent \in Rows
           /\ pull.cur \in Sidecars => pull.parent \in FindParent(pull.cur)
    /\ ingest["pull"].pc = "attach" =>
           pull.parent # None /\ resource[pull.parent].status = "filed"
    /\ \A c \in Rows \cap Companions :
           /\ resource[c].inboxPath \in Sidecars
           /\ resource[c].parent \in FindParent(resource[c].inboxPath)
           /\ resource[c].status = "filed" => resource[resource[c].parent].status = "filed"

(* During a run the Inbox's files take no more than the run has counted,   *)
(* and the one that was copied and not counted yet fits too.               *)
Counted ==
    LET next == pull.staged + Size[pull.list[pull.cur]]
    IN  /\ pull.pc # "idle" => \A p \in Listed : inbox[p] = pull.list[p]
        /\ pull.pc \in {"scan", "copy", "ingest"} => InboxBytes <= pull.staged
        /\ pull.pc \in {"copy", "copied"} => next <= Budget
        /\ pull.pc = "copied" => InboxBytes <= next

Budgeted == ~Reuse => InboxBytes <= Budget /\ Counted

Typed == TypeOK /\ IsFiniteSet(quarantine)

IInv ==
    /\ Typed /\ InStep /\ OfKind /\ Named /\ Fresh /\ Kept
    /\ Arrived /\ Accounted /\ Hangs /\ Budgeted

-----------------------------------------------------------------------------
(* What the steps make of the pull and of an ingest.                       *)

PullIs(pc, cur, parent, list, staged, n) ==
    /\ pull' \in Pull
    /\ pull'.pc = pc /\ pull'.cur = cur /\ pull'.parent = parent
    /\ pull'.list = list /\ pull'.staged = staged /\ pull'.n = n

IngestIs(t, pc, slot, sum, parent) ==
    /\ ingest' \in [Threads -> Ingest]
    /\ ingest'[t].pc = pc /\ ingest'[t].slot = slot
    /\ ingest'[t].sum = sum /\ ingest'[t].parent = parent
    /\ \A u \in Threads \ {t} : ingest'[u] = ingest[u]

Passed(p) ==
    PullIs("scan", pull.cur, pull.parent, [pull.list EXCEPT ![p] = None], pull.staged, pull.n)

Admitted(p, c) ==
    /\ PullIs("copy", p, c, pull.list, pull.staged, pull.n)
    /\ pull.n < PerRun /\ pull.staged + Size[pull.list[p]] <= Budget

Resumed(p) == PullIs("scan", None, None, [pull.list EXCEPT ![p] = None], pull.staged, pull.n)

LEMMA BytesFact ==
    ASSUME InboxAssumption, Typed
    PROVE  /\ Load \in [Slots -> Nat] /\ Weight \in [Contents \X Slots -> Nat]
           /\ StagedBytes \in Nat /\ InboxBytes \in Nat /\ InboxBytes <= StagedBytes
           /\ IsFiniteSet(Slots) /\ IsFiniteSet(Paths) /\ Paths \subseteq Slots
<1> DEFINE part == quarantine \cap (Contents \X Paths)
<1>1. Load \in [Slots -> Nat] /\ Weight \in [Contents \X Slots -> Nat]
  BY DEF InboxAssumption, Typed, TypeOK, Load, Weight, File
<1>2. IsFiniteSet(Slots) /\ IsFiniteSet(Paths) /\ Paths \subseteq Slots
  <2>1. IsFiniteSet(Slots) /\ Paths \subseteq Slots
    BY DEF InboxAssumption, Slots
  <2>2. QED
    BY <2>1, FS_Subset
<1>3. IsFiniteSet(quarantine) /\ IsFiniteSet(part) /\ quarantine \subseteq Contents \X Slots
  <2>1. IsFiniteSet(quarantine) /\ part \subseteq quarantine /\ quarantine \subseteq Contents \X Slots
    BY DEF Typed, TypeOK
  <2> HIDE DEF part
  <2>2. QED
    BY <2>1, FS_Subset
<1>4. \A s \in Slots : Load[s] \in Nat
  BY <1>1
<1>5. \A s \in Paths : Load[s] \in Nat
  BY <1>2, <1>4
<1>6. \A d \in quarantine : Weight[d] \in Nat
  BY <1>1, <1>3
<1>7. \A d \in part : Weight[d] \in Nat
  BY <1>6
<1>8. /\ SumFunctionOnSet(Load, Slots) \in Nat
      /\ SumFunctionOnSet(Load, Paths) \in Nat
      /\ SumFunctionOnSet(Load, Paths) <= SumFunctionOnSet(Load, Slots)
  <2> DEFINE w == Load
  <2> HIDE DEF w
  <2>1. Paths \in SUBSET Slots
    BY <1>2
  <2>2. /\ SumFunctionOnSet(w, Slots) \in Nat
        /\ SumFunctionOnSet(w, Paths) \in Nat
        /\ SumFunctionOnSet(w, Paths) <= SumFunctionOnSet(w, Slots)
    BY <1>2, <1>4, <1>5, <2>1, SumIsNat, SumOfPart DEF w
  <2>3. QED
    BY <2>2 DEF w
<1>9. /\ SumFunctionOnSet(Weight, quarantine) \in Nat
      /\ SumFunctionOnSet(Weight, part) \in Nat
      /\ SumFunctionOnSet(Weight, part) <= SumFunctionOnSet(Weight, quarantine)
  <2>1. part \in SUBSET quarantine
    OBVIOUS
  <2> HIDE DEF part
  <2>2. QED
    BY <1>3, <1>6, <1>7, <2>1, SumIsNat, SumOfPart
<1>10. QED
  BY <1>1, <1>2, <1>8, <1>9 DEF StagedBytes, InboxBytes

LEMMA EmptyFacts ==
    /\ Empty \in [Paths -> File]
    /\ NoIngest \in Ingest /\ NoIngest.pc = "none"
    /\ InboxAssumption =>
           /\ NoPull \in Pull /\ NoPull.pc = "idle" /\ NoPull.list = Empty /\ NoPull.n = 0
           /\ NoPull.cur = None /\ NoPull.parent = None
<1>1. Empty \in [Paths -> File] /\ Empty \in [Paths -> PendingUpload \cup {None}]
  BY DEF Empty, File
<1>2. NoIngest \in Ingest /\ NoIngest.pc = "none"
  BY DEF NoIngest, Ingest, File
<1>3. ASSUME InboxAssumption
      PROVE  0 \in 0 .. PerRun
  BY <1>3 DEF InboxAssumption
<1>4. QED
  BY <1>1, <1>2, <1>3 DEF NoPull, Pull

LEMMA BeginFact ==
    ASSUME InboxAssumption, Typed, PollBegin
    PROVE  PullIs("scan", None, None, inbox, StagedBytes, 0)
<1> DEFINE ranks == {pending[p].seen : p \in {x \in Paths : pending[x] # None}} \cup {0}
           now == 1 + Max(ranks)
           staged == StagedBytes
<1>1. ranks \in SUBSET Nat /\ ranks # {} /\ IsFiniteSet(ranks)
  <2> DEFINE seen == {x \in Paths : pending[x] # None}
             image == {pending[p].seen : p \in seen}
  <2>1. IsFiniteSet(seen)
    BY BytesFact, FS_Subset
  <2>2. IsFiniteSet(image)
    <3> DEFINE f == [p \in seen |-> pending[p].seen]
    <3> HIDE DEF seen
    <3>1. image = {f[p] : p \in seen}
      OBVIOUS
    <3> HIDE DEF f, image
    <3>2. QED
      BY <2>1, <3>1, ImageIsFinite
  <2>3. image \in SUBSET Nat
    BY DEF Typed, TypeOK, PendingUpload
  <2>4. IsFiniteSet(image \cup {0})
    <3> HIDE DEF image
    <3> QED
      BY <2>2, FS_AddElement
  <2>5. QED
    BY <2>3, <2>4
<1>2. now \in Nat
  <2>1. Max(ranks) \in Nat
    <3> HIDE DEF ranks
    <3> QED
      BY <1>1, MaxThere
  <2> HIDE DEF ranks
  <2>2. QED
    BY <2>1
<1>3. staged \in Nat /\ inbox \in [Paths -> File]
  BY BytesFact DEF Typed, TypeOK
<1>4. pull' = [NoPull EXCEPT !.pc = "scan", !.list = inbox, !.staged = staged, !.now = now]
  BY DEF PollBegin
<1> HIDE DEF now, staged
<1> DEFINE q == NoPull
<1>5. q \in Pull /\ q.n = 0 /\ q.cur = None /\ q.parent = None
  BY EmptyFacts
<1> HIDE DEF q
<1>6. pull' = [q EXCEPT !.pc = "scan", !.list = inbox, !.staged = staged, !.now = now]
  BY <1>4 DEF q
<1>7. QED
  BY <1>2, <1>3, <1>5, <1>6 DEF PullIs, Pull, staged

LEMMA TurnFact ==
    ASSUME TypeOK, pull.pc = "scan", NEW p \in Listed, NEW parents,
           Notice(p) \/ Defer(p, parents)
    PROVE  Passed(p)
<1> DEFINE list == [pull.list EXCEPT ![p] = None]
           m == [content |-> pull.list[p],
                 seen |-> IF Unchanged(p) THEN pending[p].seen ELSE pull.now,
                 old |-> Unchanged(p) /\ pending[p].old]
           merges == [pull.merges EXCEPT ![p] = m]
<1>1. /\ pull \in Pull /\ p \in Paths /\ pull.list \in [Paths -> File] /\ pull.list[p] \in Contents
      /\ pull.now \in Nat /\ pull.merges \in [Paths -> PendingUpload \cup {None}]
  BY DEF TypeOK, Listed, Pull, File
<1>2. list \in [Paths -> File]
  BY <1>1 DEF File
<1>3. CASE Notice(p)
  <2>1. Unchanged(p) => pending[p] \in PendingUpload
    BY <1>1 DEF Unchanged, TypeOK
  <2>2. m \in PendingUpload
    <3>1. (IF Unchanged(p) THEN pending[p].seen ELSE pull.now) \in Nat
      BY <1>1, <2>1 DEF PendingUpload
    <3>2. (Unchanged(p) /\ pending[p].old) \in BOOLEAN
      OBVIOUS
    <3>3. QED
      BY <1>1, <3>1, <3>2 DEF PendingUpload
  <2>3. merges \in [Paths -> PendingUpload \cup {None}]
    <3> HIDE DEF m
    <3> QED
      BY <1>1, <2>2
  <2>4. pull' = [pull EXCEPT !.list = list, !.merges = merges]
    BY <1>1, <1>3 DEF Notice, Pull
  <2> HIDE DEF merges, list
  <2>5. pull' \in Pull /\ pull'.list = list
    BY <1>1, <1>2, <2>3, <2>4 DEF Pull
  <2>6. QED
    BY <1>1, <2>4, <2>5 DEF Passed, PullIs, Pull, list
<1>4. CASE Defer(p, parents)
  <2>1. PICK held \in BOOLEAN : Pass(p, held)
    <3>1. pull.held \in BOOLEAN
      BY <1>1 DEF Pull
    <3>2. QED
      BY <1>4, <3>1 DEF Defer
  <2>2. pull' = [pull EXCEPT !.list = list, !.held = held]
    BY <1>1, <2>1 DEF Pass, Pull
  <2> HIDE DEF list
  <2>3. pull' \in Pull /\ pull'.list = list
    BY <1>1, <1>2, <2>2 DEF Pull
  <2>4. QED
    BY <1>1, <2>2, <2>3 DEF Passed, PullIs, Pull, list
<1>5. QED
  BY <1>3, <1>4

(* A file that is admitted fits, and a sidecar has a parent.               *)
LEMMA AdmitFact ==
    ASSUME InboxAssumption, TypeOK, NEW p \in Listed,
           NEW parents, parents \subseteq Recordings, Admit(p, parents)
    PROVE  \E c \in IF p \in Sidecars THEN parents ELSE {None} : Admitted(p, c)
<1>1. PICK c \in IF p \in Sidecars THEN parents ELSE {None} :
          pull' = [pull EXCEPT !.pc = "copy", !.cur = p, !.parent = c]
  BY DEF Admit
<1>2. pull \in Pull /\ p \in Paths /\ c \in Recordings \cup {None}
  BY DEF TypeOK, Listed
<1>3. PullIs("copy", p, c, pull.list, pull.staged, pull.n)
  BY <1>1, <1>2 DEF PullIs, Pull
<1>4. /\ pull.staged \in Nat /\ pull.n \in 0 .. PerRun
      /\ Size[pull.list[p]] \in Nat /\ PerRun \in Nat /\ Budget \in Nat
  BY <1>2 DEF Pull, Listed, File, InboxAssumption
<1>5. pull.n < PerRun
  BY DEF Admit
<1>6. pull.staged + Size[pull.list[p]] <= Budget
  <2> DEFINE size == Size[pull.list[p]]
  <2>1. Verdict(size) = "ok"
    BY DEF Admit
  <2>2. ~ (pull.staged + size > Budget)
    BY <2>1 DEF Verdict
  <2>3. QED
    BY <1>4, <2>2
<1>7. QED
  BY <1>1, <1>3, <1>5, <1>6 DEF Admitted

LEMMA LookFact ==
    ASSUME InboxAssumption, TypeOK, Look
    PROVE  /\ pull.pc = "scan"
           /\ UNCHANGED <<drive, pending, disk, table, ingest, bounds, history>>
           /\ \E p \in Listed :
                 \/ Passed(p)
                 \/ \E c \in IF p \in Sidecars THEN FindParent(p) ELSE {None} : Admitted(p, c)
<1>1. pull.pc = "scan" /\ UNCHANGED <<drive, pending, disk, table, ingest, bounds, history>>
  BY DEF Look
<1>2. PICK p \in Listed :
          LET parents == IF p \in Sidecars THEN FindParent(p) ELSE {}
          IN  Notice(p) \/ Defer(p, parents) \/ Admit(p, parents)
  BY DEF Look
<1> DEFINE parents == IF p \in Sidecars THEN FindParent(p) ELSE {}
<1>3. parents \subseteq Recordings
  BY DEF FindParent
<1>4. CASE Notice(p) \/ Defer(p, parents)
  <2> HIDE DEF parents
  <2> QED
    BY <1>1, <1>4, TurnFact
<1>5. CASE Admit(p, parents)
  <2>1. \E c \in IF p \in Sidecars THEN parents ELSE {None} : Admitted(p, c)
    <3> HIDE DEF parents
    <3> QED
      BY <1>3, <1>5, AdmitFact
  <2>2. QED
    BY <1>1, <2>1
<1>6. QED
  BY <1>2, <1>4, <1>5

LEMMA ResumeFact ==
    ASSUME TypeOK, pull.cur \in Listed, pull' = Resume(pull.cur)
    PROVE  Resumed(pull.cur)
<1> DEFINE list == [pull.list EXCEPT ![pull.cur] = None]
<1>1. pull \in Pull /\ pull.list \in [Paths -> File] /\ pull.cur \in Paths
  BY DEF TypeOK, Pull, Listed
<1>2. list \in [Paths -> File]
  BY <1>1 DEF File
<1>3. Empty \in [Paths -> PendingUpload \cup {None}]
  BY DEF Empty
<1>4. pull' = [pull EXCEPT !.pc = "scan", !.list = list, !.cur = None, !.parent = None,
                           !.merges = Empty]
  BY <1>1 DEF Resume, Pull
<1> HIDE DEF list
<1>5. QED
  BY <1>1, <1>2, <1>3, <1>4 DEF Resumed, PullIs, Pull, list

LEMMA StopFact ==
    ASSUME InboxAssumption, pull' = NoPull
    PROVE  pull' \in Pull /\ pull'.pc = "idle"
  BY EmptyFacts

LEMMA GoesFact ==
    ASSUME TypeOK, NEW t \in Threads, NEW pc \in {"check", "insert", "attach", "done"}, Goes(t, pc)
    PROVE  IngestIs(t, pc, ingest[t].slot, ingest[t].sum, ingest[t].parent)
<1>1. ingest \in [Threads -> Ingest] /\ ingest[t] \in Ingest
  BY DEF TypeOK
<1> DEFINE i == [ingest[t] EXCEPT !.pc = pc]
<1>2. /\ i \in Ingest /\ i.pc = pc /\ i.slot = ingest[t].slot /\ i.sum = ingest[t].sum
      /\ i.parent = ingest[t].parent
  BY <1>1 DEF Ingest
<1>3. ingest' = [ingest EXCEPT ![t] = i]
  BY DEF Goes
<1> HIDE DEF i
<1>4. QED
  BY <1>1, <1>2, <1>3 DEF IngestIs

LEMMA ClearFact ==
    ASSUME TypeOK, NEW t \in Threads, ingest' = [ingest EXCEPT ![t] = NoIngest]
    PROVE  /\ ingest' \in [Threads -> Ingest] /\ ingest'[t].pc = "none"
           /\ \A u \in Threads \ {t} : ingest'[u] = ingest[u]
  BY EmptyFacts DEF TypeOK

(* The end of an ingest.                                                   *)
Ended(t) ==
    /\ ingest' \in [Threads -> Ingest]
    /\ \A u \in Threads \ {t} : ingest'[u] = ingest[u]
    /\ t = "upload" => ingest'[t].pc = "none"
    /\ t = "pull" => /\ ingest'[t].pc = "done"
                     /\ ingest'[t].slot = ingest[t].slot
                     /\ ingest'[t].parent = ingest[t].parent

LEMMA EndsFact ==
    ASSUME TypeOK, NEW t \in Threads, Ends(t)
    PROVE  Ended(t)
<1>1. CASE t = "pull"
  BY <1>1, GoesFact DEF Ends, Ended, IngestIs
<1>2. CASE t = "upload"
  BY <1>2, ClearFact DEF Ends, Ended
<1>3. QED
  BY <1>1, <1>2 DEF Threads

(* The place an ingest reads.                                              *)
LEMMA SlotFact ==
    ASSUME InboxAssumption, TypeOK, InStep, NEW t \in Threads, ingest[t].pc # "none"
    PROVE  /\ ingest[t].slot \in Slots /\ ingest[t] \in Ingest
           /\ t = "pull" => /\ pull.pc = "ingest" /\ ingest[t].slot = pull.cur
                            /\ ingest[t].parent = pull.parent /\ pull.cur \in Paths
           /\ t = "upload" => /\ ingest[t].slot \in Names \ Paths
                              /\ ingest[t].parent = None /\ ingest[t].pc \in {"check", "insert"}
<1>1. ingest[t] \in Ingest /\ t \in {"pull", "upload"}
  BY DEF TypeOK, Threads
<1>2. CASE t = "pull"
  BY <1>1, <1>2 DEF InStep, Fetching, Listed, Slots
<1>3. CASE t = "upload"
  BY <1>1, <1>3 DEF InStep, Slots, InboxAssumption
<1>4. QED
  BY <1>1, <1>2, <1>3

LEMMA CommittedFact ==
    ASSUME TypeOK
    PROVE  Committed \in [Paths -> PendingUpload \cup {None}]
  BY DEF TypeOK, Committed, Pull

LEMMA TakeFact ==
    ASSUME InboxAssumption, TypeOK, InStep, Take
    PROVE  /\ PullIs("ingest", pull.cur, pull.parent, pull.list,
                     pull.staged + Size[pull.list[pull.cur]], pull.n + 1)
           /\ IngestIs("pull", "check", pull.cur, None, pull.parent)
<1> DEFINE staged == pull.staged + Size[pull.list[pull.cur]]
           i == [pc |-> "check", slot |-> pull.cur, sum |-> None, parent |-> pull.parent]
<1>1. /\ pull \in Pull /\ pull.cur \in Paths /\ pull.list[pull.cur] \in Contents
      /\ pull.n < PerRun /\ pull.parent \in Recordings \cup {None}
  BY DEF Take, InStep, Fetching, TypeOK, Listed, Pull, File
<1>2. staged \in Nat /\ pull.n + 1 \in 0 .. PerRun
  BY <1>1 DEF Pull, InboxAssumption
<1>3. pull' = [pull EXCEPT !.pc = "ingest", !.merges = Empty, !.n = pull.n + 1,
                           !.staged = staged]
  BY <1>1 DEF Take, Pull
<1>4. Empty \in [Paths -> PendingUpload \cup {None}]
  BY DEF Empty
<1>5. PullIs("ingest", pull.cur, pull.parent, pull.list, staged, pull.n + 1)
  <2> HIDE DEF staged
  <2> QED
    BY <1>1, <1>2, <1>3, <1>4 DEF PullIs, Pull
<1>6. ingest' = [ingest EXCEPT !["pull"] = i]
  BY DEF Take, StageDir
<1>7. i \in Ingest
  BY <1>1 DEF Ingest, Slots, File
<1>8. IngestIs("pull", "check", pull.cur, None, pull.parent)
  BY <1>6, <1>7 DEF IngestIs, TypeOK, Threads
<1>9. QED
  BY <1>5, <1>8

LEMMA SaveFact ==
    ASSUME TypeOK, NEW n \in Names, NEW c, UploadSave(n, c)
    PROVE  IngestIs("upload", "check", n, None, None)
<1> DEFINE i == [NoIngest EXCEPT !.pc = "check", !.slot = n]
<1>1. /\ i \in Ingest /\ i.pc = "check" /\ i.slot = n /\ i.sum = None /\ i.parent = None
  BY DEF NoIngest, Ingest, Slots, File
<1>2. ingest' = [ingest EXCEPT !["upload"] = i]
  BY DEF UploadSave
<1> HIDE DEF i
<1>3. QED
  BY <1>1, <1>2 DEF IngestIs, TypeOK, Threads

LEMMA ChecksumFact ==
    ASSUME TypeOK, NEW t \in Threads, Checksum(t)
    PROVE  IngestIs(t, "insert", ingest[t].slot, stage[ingest[t].slot], ingest[t].parent)
<1> DEFINE c == stage[ingest[t].slot]
           i == [ingest[t] EXCEPT !.pc = "insert", !.sum = c]
<1>1. ingest[t] \in Ingest /\ c \in File
  BY DEF TypeOK, Checksum, File
<1> HIDE DEF c
<1>2. /\ i \in Ingest /\ i.pc = "insert" /\ i.slot = ingest[t].slot /\ i.sum = c
      /\ i.parent = ingest[t].parent
  BY <1>1 DEF Ingest
<1>3. ingest' = [ingest EXCEPT ![t] = i]
  BY <1>1 DEF Checksum, TypeOK, c
<1> HIDE DEF i
<1>4. QED
  BY <1>2, <1>3 DEF IngestIs, TypeOK, c

(* The row an ingest inserts.                                              *)
LEMMA MadeFact ==
    ASSUME InboxAssumption, TypeOK, InStep, NEW t \in Threads, ingest[t].pc = "insert"
    PROVE  /\ Made(t) \in Resource /\ Made(t).status # "filed"
           /\ Made(t).at = ingest[t].slot /\ Made(t).parent = ingest[t].parent
           /\ ingest[t].sum \notin Corrupt /\ ingest[t].slot \in Paths =>
                  Made(t).inboxPath = ingest[t].slot
<1>1. ingest[t] \in Ingest /\ ingest[t].slot \in Slots
  BY SlotFact
<1>2. QED
  BY <1>1 DEF Made, Ingest, Resource

(* Rows that are filed.                                                    *)
LEMMA FiledFact ==
    ASSUME InboxAssumption, TypeOK, NEW S, S \subseteq Rows, NEW c \in Contents
    PROVE  /\ FiledAt(S, c) \in Resource \cup {None}
           /\ FiledAt(S, c) = None <=> resource[c] = None
           /\ c \in S => FiledAt(S, c).status = "filed"
           /\ c \notin S => FiledAt(S, c) = resource[c]
           /\ c \in Rows => /\ FiledAt(S, c).parent = resource[c].parent
                            /\ FiledAt(S, c).inboxPath = resource[c].inboxPath
<1>1. CASE c \in S
  <2>1. resource[c] \in Resource /\ FiledAt(S, c) = [resource[c] EXCEPT !.status = "filed", !.at = None]
    BY <1>1 DEF TypeOK, Rows, FiledAt
  <2>2. resource[c] # None /\ FiledAt(S, c) # None
    BY <1>1, <2>1 DEF Resource, Rows, InboxAssumption
  <2>3. QED
    BY <1>1, <2>1, <2>2 DEF Resource
<1>2. CASE c \notin S
  BY <1>2 DEF FiledAt, TypeOK
<1>3. QED
  BY <1>1, <1>2

LEMMA BoundFact ==
    ASSUME InboxAssumption, TypeOK
    PROVE  /\ Fault => faults' \in 0 .. MaxFaults
           /\ sent < MaxDrops => sent + 1 \in 0 .. MaxDrops
<1>1. MaxFaults \in Nat /\ MaxDrops \in Nat
  BY DEF InboxAssumption
<1>2. QED
  BY <1>1 DEF TypeOK, Fault

(* What is filed, by a review or beside audio that was, has a row.         *)
LEMMA FilingFact ==
    ASSUME InboxAssumption, TypeOK, NEW S, S \subseteq Rows
    PROVE  /\ [c \in Contents |-> FiledAt(S, c)] \in [Contents -> Resource \cup {None}]
           /\ Emptied(S) \in [Slots -> File]
           /\ \A s \in Slots : Emptied(S)[s] \in {stage[s], None}
<1>1. \A c \in Contents : FiledAt(S, c) \in Resource \cup {None}
  BY FiledFact
<1>2. QED
  BY <1>1 DEF Emptied, TypeOK, File

LEMMA UnresolvedFact ==
    ASSUME InboxAssumption, TypeOK, InStep, NEW t \in Threads, ingest[t].pc # "none", Unexpected(t)
    PROVE  /\ unresolved' \subseteq Slots /\ unresolved \subseteq unresolved'
           /\ t = "pull" => pull.cur \in unresolved'
           /\ Ended(t)
<1>1. ingest[t].slot \in Slots /\ t = "pull" => ingest[t].slot = pull.cur
  BY SlotFact
<1>2. Ended(t)
  BY EndsFact DEF Unexpected
<1>3. QED
  BY <1>1, <1>2, SlotFact DEF Unexpected, TypeOK

(* How often something came from a place: a copy over what came from there *)
(* before counts as a second time.                                         *)
CameIs(s, k) ==
    /\ came' \in [Slots -> 0 .. 2] /\ came'[s] = k
    /\ \A r \in Slots \ {s} : came'[r] = came[r]

LEMMA CameFact ==
    ASSUME TypeOK
    PROVE  \A s \in Slots :
             /\ s = pull.cur /\ Copy => CameIs(s, IF came[s] = 0 THEN 0 ELSE 2)
             /\ s = pull.cur /\ Take => CameIs(s, IF came[s] = 0 THEN 1 ELSE came[s])
             /\ Comes(s) => CameIs(s, IF came[s] = 2 THEN 2 ELSE came[s] + 1)
<1>1. came \in [Slots -> 0 .. 2]
  BY DEF TypeOK
<1>2. ASSUME NEW s \in Slots, NEW k \in 0 .. 2, came' = [came EXCEPT ![s] = k]
      PROVE  CameIs(s, k)
  BY <1>1, <1>2 DEF CameIs
<1>3. ASSUME NEW p \in Slots, p = pull.cur, Copy
      PROVE  CameIs(p, IF came[p] = 0 THEN 0 ELSE 2)
  <2>1. CASE came[p] = 0
    BY <1>1, <1>3, <2>1 DEF Copy, CameIs
  <2>2. CASE came[p] # 0
    <3>1. came' = [came EXCEPT ![p] = 2] /\ 2 \in 0 .. 2
      BY <1>3, <2>2 DEF Copy
    <3>2. CameIs(p, 2)
      BY <1>2, <3>1
    <3>3. QED
      BY <2>2, <3>2
  <2>3. QED
    BY <2>1, <2>2
<1>4. ASSUME NEW p \in Slots, p = pull.cur, Take
      PROVE  CameIs(p, IF came[p] = 0 THEN 1 ELSE came[p])
  <2> DEFINE k == IF came[p] = 0 THEN 1 ELSE came[p]
  <2>1. k \in 0 .. 2 /\ came' = [came EXCEPT ![p] = k]
    BY <1>1, <1>4 DEF Take
  <2> HIDE DEF k
  <2>2. CameIs(p, k)
    BY <1>2, <2>1
  <2>3. QED
    BY <2>2 DEF k
<1>5. ASSUME NEW n \in Slots, Comes(n)
      PROVE  CameIs(n, IF came[n] = 2 THEN 2 ELSE came[n] + 1)
  <2> DEFINE k == IF came[n] = 2 THEN 2 ELSE came[n] + 1
  <2>1. k \in 0 .. 2 /\ came' = [came EXCEPT ![n] = k]
    BY <1>1, <1>5 DEF Comes
  <2> HIDE DEF k
  <2>2. CameIs(n, k)
    BY <1>2, <2>1
  <2>3. QED
    BY <2>2 DEF k
<1>6. QED
  BY <1>3, <1>4, <1>5

LEMMA TypedStep ==
    ASSUME InboxAssumption, Typed, InStep, [Next]_vars
    PROVE  Typed'
<1> USE DEF Typed, TypeOK, drive, table, disk, bounds, history
<1>1. ASSUME NEW p \in Paths, NEW c \in Sent[p], Drop(p, c)
      PROVE  Typed'
  <2>1. c \in Contents /\ sent' \in 0 .. MaxDrops
    BY <1>1, BoundFact DEF Drop, InboxAssumption, Slots
  <2>2. QED
    BY <1>1, <2>1 DEF Drop, File
<1>2. ASSUME NEW p \in Paths, Age(p)
      PROVE  Typed'
  <2>1. pending[p] \in PendingUpload
    BY <1>2 DEF Age
  <2>2. pending' \in [Paths -> PendingUpload \cup {None}]
    BY <1>2, <2>1 DEF Age, PendingUpload
  <2>3. QED
    BY <1>2, <2>2 DEF Age
<1>3. CASE PollBegin
  BY <1>3, BeginFact DEF PollBegin, PullIs
<1>4. CASE Look
  BY <1>4, LookFact DEF Passed, Admitted, PullIs
<1>5. CASE Copy
  <2>1. pull' \in Pull
    BY <1>5 DEF Copy, Pull
  <2>2. stage' \in [Slots -> File]
    BY <1>5 DEF Copy, InStep, Listed, Fetching, StageDir
  <2>3. came' \in [Slots -> 0 .. 2]
    BY <1>5, CameFact DEF Copy, InStep, Listed, Fetching, Slots, CameIs
  <2>4. QED
    BY <1>5, <2>1, <2>2, <2>3 DEF Copy
<1>6. CASE CopyFails
  <2>1. Resumed(pull.cur)
    BY <1>6, ResumeFact DEF CopyFails, InStep, Fetching
  <2>2. QED
    BY <1>6, <2>1, CommittedFact, BoundFact DEF CopyFails, Resumed, PullIs
<1>7. CASE Take
  <2>1. pull' \in Pull /\ ingest' \in [Threads -> Ingest]
    BY <1>7, TakeFact DEF PullIs, IngestIs
  <2>2. pending' \in [Paths -> PendingUpload \cup {None}]
    BY <1>7, CommittedFact DEF Take
  <2>3. came' \in [Slots -> 0 .. 2]
    BY <1>7, CameFact DEF Take, InStep, Listed, Fetching, Slots, CameIs
  <2>4. QED
    BY <1>7, <2>1, <2>2, <2>3 DEF Take
<1>8. ASSUME NEW t \in Threads, IngestStep(t)
      PROVE  Typed'
  <2>0. ingest[t].pc # "none"
    BY <1>8 DEF IngestStep, ChecksumFails, Duplicate, Checksum, Insert, InsertRefused,
                Attach, AttachFails
  <2>1. CASE ChecksumFails(t)
    BY <2>0, <2>1, SlotFact, EndsFact DEF ChecksumFails, Ended
  <2>2. CASE Duplicate(t)
    <3>1. ingest[t].slot \in Slots /\ stage[ingest[t].slot] \in Contents
      BY <2>0, <2>2, SlotFact DEF Duplicate, Rows
    <3>2. IsFiniteSet(quarantine')
      BY <2>2, FS_AddElement DEF Duplicate
    <3>3. quarantine' \subseteq Contents \X Slots /\ stage' \in [Slots -> File]
      BY <2>2, <3>1 DEF Duplicate, File
    <3>4. QED
      BY <2>2, <3>2, <3>3, EndsFact DEF Duplicate, Ended
  <2>3. CASE Checksum(t)
    BY <2>3, ChecksumFact DEF Checksum, IngestIs
  <2>4. CASE Insert(t)
    <3>1. resource' \in [Contents -> Resource \cup {None}]
      BY <2>4, MadeFact DEF Insert
    <3>2. ingest' \in [Threads -> Ingest]
      BY <2>4, GoesFact, EndsFact DEF Insert, IngestIs, Ended
    <3>3. QED
      BY <2>4, <3>1, <3>2 DEF Insert
  <2>5. CASE InsertRefused(t)
    BY <2>0, <2>5, UnresolvedFact DEF InsertRefused, Ended
  <2>6. CASE Attach(t)
    <3> DEFINE kids == {c \in Beside(ingest[t].parent) : stage[resource[c].at] = c}
    <3>1. kids \subseteq Rows
      BY DEF Beside
    <3>2. resource' = [c \in Contents |-> FiledAt(kids, c)] /\ stage' = Emptied(kids)
      BY <2>6 DEF Attach
    <3> HIDE DEF kids
    <3>3. resource' \in [Contents -> Resource \cup {None}] /\ stage' \in [Slots -> File]
      BY <3>1, <3>2, FilingFact
    <3>4. QED
      BY <2>6, <3>3, EndsFact DEF Attach, Ended
  <2>7. CASE AttachFails(t)
    BY <2>0, <2>7, UnresolvedFact, BoundFact DEF AttachFails, Ended
  <2>8. QED
    BY <1>8, <2>1, <2>2, <2>3, <2>4, <2>5, <2>6, <2>7 DEF IngestStep
<1>9. CASE MoveTo
  <2>1. Resumed(pull.cur) /\ pull.cur \in Paths
    BY <1>9, ResumeFact DEF MoveTo, InStep, Fetching, Listed
  <2>2. ingest' \in [Threads -> Ingest]
    BY <1>9, ClearFact DEF MoveTo, Threads
  <2>3. inbox' \in [Paths -> File] /\ processed' \in [Paths -> File]
    BY <1>9, <2>1 DEF MoveTo, File
  <2>4. QED
    BY <1>9, <2>1, <2>2, <2>3 DEF MoveTo, Resumed, PullIs
<1>10. CASE MoveToFails
  <2>1. Resumed(pull.cur)
    BY <1>10, ResumeFact DEF MoveToFails, InStep, Fetching
  <2>2. ingest' \in [Threads -> Ingest]
    BY <1>10, ClearFact DEF MoveToFails, Threads
  <2>3. QED
    BY <1>10, <2>1, <2>2, BoundFact DEF MoveToFails, Resumed, PullIs
<1>11. CASE PollEnd
  BY <1>11, CommittedFact, StopFact DEF PollEnd
<1>12. ASSUME NEW n \in Names, NEW c \in Sent[n], UploadSave(n, c)
       PROVE  Typed'
  <2>1. n \in Slots /\ c \in Contents
    BY <1>12 DEF InboxAssumption, Slots
  <2>2. ingest' \in [Threads -> Ingest]
    BY <1>12, SaveFact DEF IngestIs
  <2>3. stage' \in [Slots -> File] /\ came' \in [Slots -> 0 .. 2]
    BY <1>12, <2>1 DEF UploadSave, Comes, File
  <2>4. sent' \in 0 .. MaxDrops
    BY <1>12, BoundFact DEF UploadSave
  <2>5. QED
    BY <1>12, <2>2, <2>3, <2>4 DEF UploadSave
<1>13. ASSUME NEW c \in Recordings, FileAway(c)
       PROVE  Typed'
  <2> DEFINE kids == {k \in Beside(c) : stage[resource[k].at] = k}
             gone == {c} \cup kids
  <2>1. c \in Rows /\ gone \subseteq Rows
    BY <1>13 DEF FileAway, Beside
  <2>2. CASE stage[resource[c].at] = c
    <3>1. resource' = [d \in Contents |-> FiledAt(gone, d)] /\ stage' = Emptied(gone)
      BY <1>13, <2>2 DEF FileAway
    <3> HIDE DEF gone
    <3>2. QED
      BY <1>13, <2>1, <3>1, FilingFact DEF FileAway
  <2>3. CASE stage[resource[c].at] # c
    <3>1. resource' = [resource EXCEPT ![c].status = "failed"] /\ UNCHANGED stage
      BY <1>13, <2>3 DEF FileAway
    <3>2. resource[c] \in Resource
      BY <2>1 DEF Rows
    <3>3. resource' \in [Contents -> Resource \cup {None}]
      BY <2>1, <3>1, <3>2 DEF Resource, Rows
    <3>4. QED
      BY <1>13, <3>1, <3>3 DEF FileAway
  <2>4. QED
    BY <2>2, <2>3
<1>14. CASE KillPull
  <2>1. ingest' \in [Threads -> Ingest]
    BY <1>14, ClearFact DEF KillPull, Threads
  <2>2. QED
    BY <1>14, <2>1, StopFact, BoundFact DEF KillPull
<1>15. CASE KillUpload
  <2>1. ingest' \in [Threads -> Ingest]
    BY <1>15, ClearFact DEF KillUpload, Threads
  <2>2. QED
    BY <1>15, <2>1, BoundFact DEF KillUpload
<1>16. CASE UNCHANGED vars
  BY <1>16 DEF vars
<1>17. QED
  BY <1>1, <1>2, <1>3, <1>4, <1>5, <1>6, <1>7, <1>8, <1>9, <1>10, <1>11, <1>12, <1>13, <1>14,
     <1>15, <1>16 DEF Next, PullStep, UploadStep, Threads

-----------------------------------------------------------------------------
(* The pull and its ingest.                                                *)

LEMMA IngestKinds ==
    ASSUME InboxAssumption, TypeOK, InStep, NEW t \in Threads, IngestStep(t)
    PROVE  /\ UNCHANGED pull /\ ingest[t].pc # "none"
           /\ \/ Ended(t)
              \/ /\ ingest' \in [Threads -> Ingest]
                 /\ \A u \in Threads \ {t} : ingest'[u] = ingest[u]
                 /\ ingest'[t].slot = ingest[t].slot /\ ingest'[t].parent = ingest[t].parent
                 /\ \/ ingest'[t].pc = "insert"
                    \/ ingest'[t].pc = "attach" /\ ingest[t].parent # None
<1>1. UNCHANGED pull /\ ingest[t].pc # "none"
  BY DEF IngestStep, ChecksumFails, Duplicate, Checksum, Insert, InsertRefused, Attach, AttachFails
<1>2. CASE Ends(t)
  BY <1>1, <1>2, EndsFact
<1>3. CASE Unexpected(t)
  BY <1>1, <1>3, EndsFact DEF Unexpected
<1>4. CASE Checksum(t)
  BY <1>1, <1>4, ChecksumFact DEF IngestIs
<1>5. CASE Goes(t, "attach") /\ ingest[t].parent # None
  BY <1>1, <1>5, GoesFact DEF IngestIs
<1>6. QED
  BY <1>1, <1>2, <1>3, <1>4, <1>5 DEF IngestStep, ChecksumFails, Duplicate, Insert,
     InsertRefused, Attach, AttachFails

LEMMA InStepStep ==
    ASSUME InboxAssumption, Typed, InStep, [Next]_vars
    PROVE  InStep'
<1> USE DEF Fetching, Listed, Threads, drive, table, disk, bounds, history
<1>0. TypeOK /\ "pull" \in Threads /\ "upload" \in Threads
  BY DEF Typed
<1>1. CASE UNCHANGED <<pull, ingest>>
  BY <1>1 DEF InStep
<1>2. CASE PollBegin
  BY <1>2, BeginFact DEF PollBegin, PullIs, InStep
<1>3. CASE Look
  <2>1. UNCHANGED ingest /\ pull.pc = "scan"
    BY <1>0, <1>3, LookFact
  <2>2. ASSUME NEW p \in Listed, Passed(p)
        PROVE  InStep'
    BY <2>1, <2>2 DEF Passed, PullIs, InStep
  <2>3. ASSUME NEW p \in Listed, NEW c, Admitted(p, c)
        PROVE  InStep'
    BY <2>1, <2>3 DEF Admitted, PullIs, InStep
  <2>4. QED
    BY <1>0, <1>3, <2>2, <2>3, LookFact
<1>4. CASE Copy
  <2>1. pull' = [pull EXCEPT !.pc = "copied"] /\ UNCHANGED ingest /\ pull.pc = "copy"
    BY <1>4 DEF Copy
  <2>2. pull \in Pull
    BY <1>0 DEF TypeOK
  <2>3. QED
    BY <2>1, <2>2 DEF InStep, Pull
<1>5. CASE CopyFails
  <2>1. Resumed(pull.cur) /\ UNCHANGED ingest /\ pull.pc = "copy"
    BY <1>0, <1>5, ResumeFact DEF CopyFails, InStep
  <2>2. QED
    BY <2>1 DEF Resumed, PullIs, InStep
<1>6. CASE Take
  <2>1. ingest'["upload"] = ingest["upload"]
    BY <1>0, <1>6, TakeFact DEF IngestIs
  <2>2. pull.pc = "copied"
    BY <1>6 DEF Take
  <2>3. QED
    BY <1>0, <1>6, <2>1, <2>2, TakeFact DEF PullIs, IngestIs, InStep
<1>7. ASSUME NEW t \in Threads, IngestStep(t)
      PROVE  InStep'
  <2>1. CASE t = "pull"
    BY <1>0, <1>7, <2>1, IngestKinds DEF InStep, Ended
  <2>2. CASE t = "upload"
    BY <1>0, <1>7, <2>2, IngestKinds DEF InStep, Ended
  <2>3. QED
    BY <2>1, <2>2
<1>8. CASE MoveTo \/ MoveToFails
  <2>1. Resumed(pull.cur)
    BY <1>0, <1>8, ResumeFact DEF MoveTo, MoveToFails, InStep
  <2>2. ingest'["pull"].pc = "none" /\ ingest'["upload"] = ingest["upload"]
    BY <1>0, <1>8, ClearFact DEF MoveTo, MoveToFails
  <2>3. QED
    BY <2>1, <2>2 DEF Resumed, PullIs, InStep
<1>9. CASE PollEnd
  BY <1>9, StopFact DEF PollEnd, InStep
<1>10. ASSUME NEW n \in Names, NEW c \in Sent[n], UploadSave(n, c)
       PROVE  InStep'
  BY <1>0, <1>10, SaveFact DEF UploadSave, IngestIs, InStep
<1>11. CASE KillPull
  BY <1>0, <1>11, ClearFact, StopFact DEF KillPull, InStep
<1>12. CASE KillUpload
  BY <1>0, <1>12, ClearFact DEF KillUpload, InStep
<1>13. ASSUME NEW c \in Recordings, FileAway(c)
       PROVE  UNCHANGED <<pull, ingest>>
  BY <1>13 DEF FileAway
<1>14. QED
  BY <1>1, <1>2, <1>3, <1>4, <1>5, <1>6, <1>7, <1>8, <1>9, <1>10, <1>11, <1>12, <1>13
     DEF Next, PullStep, UploadStep, Drop, Age, vars

(* Who changes an ingest.                                                  *)
LEMMA IngestMoves ==
    ASSUME InboxAssumption, Typed, InStep, [Next]_vars, NEW t \in Threads
    PROVE  \/ ingest'[t] = ingest[t] \/ ingest'[t].pc = "none"
           \/ t = "pull" /\ Take
           \/ t = "upload" /\ \E n \in Names : \E c \in Sent[n] : UploadSave(n, c)
           \/ IngestStep(t)
<1> USE DEF Threads, drive, table, disk, bounds, history
<1>0. TypeOK /\ "pull" \in Threads /\ "upload" \in Threads
  BY DEF Typed
<1>1. CASE UNCHANGED ingest
  BY <1>1
<1>2. CASE Take
  BY <1>0, <1>2, TakeFact DEF IngestIs
<1>3. ASSUME NEW u \in Threads, IngestStep(u)
      PROVE  u = t \/ ingest'[t] = ingest[t]
  BY <1>0, <1>3, IngestKinds DEF Ended
<1>4. CASE MoveTo \/ MoveToFails \/ KillPull
  BY <1>0, <1>4, ClearFact DEF MoveTo, MoveToFails, KillPull
<1>5. CASE KillUpload
  BY <1>0, <1>5, ClearFact DEF KillUpload
<1>6. ASSUME NEW n \in Names, NEW c \in Sent[n], UploadSave(n, c)
      PROVE  t = "upload" \/ ingest'[t] = ingest[t]
  BY <1>0, <1>6, SaveFact DEF IngestIs
<1>7. Look => UNCHANGED ingest
  BY <1>0, LookFact
<1>8. QED
  BY <1>1, <1>2, <1>3, <1>4, <1>5, <1>6, <1>7
     DEF Next, PullStep, UploadStep, Drop, Age, PollBegin, Copy, CopyFails, PollEnd, FileAway, vars

(* Where the files come from.                                              *)
LEMMA FilesMove ==
    ASSUME InboxAssumption, Typed, InStep, [Next]_vars
    PROVE  /\ \A p \in Paths : inbox'[p] \in {inbox[p], None} \cup Sent[p]
           /\ \A s \in Slots : \/ stage'[s] \in {stage[s], None} \cup Sent[s]
                               \/ s \in Paths /\ stage'[s] = inbox[s]
<1> USE DEF drive, table, disk, bounds, history
<1>0. TypeOK
  BY DEF Typed
<1>1. CASE UNCHANGED <<inbox, stage>>
  BY <1>1
<1>2. ASSUME NEW p \in Paths, NEW c \in Sent[p], Drop(p, c)
      PROVE  UNCHANGED stage /\ \A q \in Paths : inbox'[q] \in {inbox[q]} \cup Sent[q]
  BY <1>0, <1>2 DEF Drop, TypeOK
<1>3. CASE Copy
  BY <1>0, <1>3 DEF Copy, StageDir, InStep, Fetching, Listed, TypeOK
<1>4. CASE MoveTo
  BY <1>0, <1>4 DEF MoveTo, TypeOK
<1>5. ASSUME NEW n \in Names, NEW c \in Sent[n], UploadSave(n, c)
      PROVE  UNCHANGED inbox /\ \A s \in Slots : stage'[s] \in {stage[s]} \cup Sent[s]
  BY <1>0, <1>5 DEF UploadSave, TypeOK
<1>6. ASSUME NEW t \in Threads, IngestStep(t)
      PROVE  UNCHANGED inbox /\ \A s \in Slots : stage'[s] \in {stage[s], None}
  <2>1. CASE Duplicate(t)
    BY <1>0, <2>1 DEF Duplicate, TypeOK
  <2>2. CASE Attach(t)
    <3> DEFINE kids == {c \in Beside(ingest[t].parent) : stage[resource[c].at] = c}
    <3>1. stage' = Emptied(kids) /\ UNCHANGED inbox
      BY <2>2 DEF Attach
    <3>2. QED
      BY <3>1 DEF Emptied
  <2>3. CASE ~ (Duplicate(t) \/ Attach(t))
    BY <1>6, <2>3 DEF IngestStep, ChecksumFails, Checksum, Insert, InsertRefused, AttachFails
  <2>4. QED
    BY <2>1, <2>2, <2>3
<1>7. ASSUME NEW c \in Recordings, FileAway(c)
      PROVE  UNCHANGED inbox /\ \A s \in Slots : stage'[s] \in {stage[s], None}
  <2> DEFINE gone == {c} \cup {k \in Beside(c) : stage[resource[k].at] = k}
  <2>1. UNCHANGED inbox /\ (UNCHANGED stage \/ stage' = Emptied(gone))
    BY <1>7 DEF FileAway
  <2>2. QED
    BY <2>1 DEF Emptied
<1>8. Look => UNCHANGED <<inbox, stage>>
  BY <1>0, LookFact
<1>9. QED
  BY <1>1, <1>2, <1>3, <1>4, <1>5, <1>6, <1>7, <1>8
     DEF Next, PullStep, UploadStep, Threads, Age, PollBegin, CopyFails, Take, MoveToFails, PollEnd,
         KillPull, KillUpload, vars

(* A checksum comes from Checksum only, and an ingest starts in Take or    *)
(* UploadSave.                                                             *)
LEMMA InsertFrom ==
    ASSUME InboxAssumption, Typed, InStep, [Next]_vars, NEW t \in Threads
    PROVE  /\ ingest'[t].pc = "insert" => ingest'[t] = ingest[t] \/ Checksum(t)
           /\ ingest'[t].pc = "check" =>
                 \/ ingest'[t] = ingest[t]
                 \/ t = "pull" /\ Take
                 \/ t = "upload" /\ \E n \in Names : \E c \in Sent[n] : UploadSave(n, c)
<1>0. TypeOK
  BY DEF Typed
<1>1. CASE IngestStep(t) /\ ~ Checksum(t)
  <2>1. Ended(t) \/ Goes(t, "attach")
    BY <1>0, <1>1, EndsFact DEF IngestStep, ChecksumFails, Duplicate, Insert, InsertRefused,
       Attach, AttachFails, Unexpected
  <2>2. CASE Ended(t)
    BY <2>2 DEF Ended, Threads
  <2>3. CASE Goes(t, "attach")
    BY <1>0, <2>3, GoesFact DEF IngestIs
  <2>4. QED
    BY <2>1, <2>2, <2>3
<1>2. CASE Checksum(t)
  BY <1>0, <1>2, ChecksumFact DEF IngestIs
<1>3. CASE t = "pull" /\ Take
  BY <1>0, <1>3, TakeFact DEF IngestIs
<1>4. CASE t = "upload" /\ \E n \in Names : \E c \in Sent[n] : UploadSave(n, c)
  BY <1>0, <1>4, SaveFact DEF IngestIs
<1>5. QED
  BY <1>1, <1>2, <1>3, <1>4, IngestMoves

LEMMA OfKindStep ==
    ASSUME InboxAssumption, Typed, InStep, OfKind, [Next]_vars
    PROVE  OfKind'
<1>0. /\ TypeOK /\ \A s \in Slots : Sent[s] \subseteq Kind(s)
      /\ None \notin Contents /\ Paths \subseteq Slots
  BY DEF Typed, InboxAssumption, Kind, Slots
<1>1. \A p \in Paths : inbox'[p] \in Kind(p) \cup {None}
  BY <1>0, FilesMove DEF OfKind
<1>2. \A s \in Slots : stage'[s] \in Kind(s) \cup {None}
  BY <1>0, FilesMove DEF OfKind
<1>3. ASSUME NEW t \in Threads, ingest'[t].pc = "insert"
      PROVE  ingest'[t].sum \in Kind(ingest'[t].slot)
  <2>1. CASE ingest'[t] = ingest[t]
    BY <1>3, <2>1 DEF OfKind
  <2>2. CASE Checksum(t)
    <3>1. ingest'[t].sum = stage[ingest[t].slot] /\ ingest'[t].slot = ingest[t].slot
      BY <1>0, <2>2, ChecksumFact DEF IngestIs
    <3>2. ingest[t].slot \in Slots /\ stage[ingest[t].slot] \in Contents
      BY <1>0, <2>2, SlotFact DEF Checksum
    <3>3. QED
      BY <1>0, <3>1, <3>2 DEF OfKind
  <2>3. QED
    BY <1>3, <2>1, <2>2, InsertFrom
<1>4. QED
  BY <1>1, <1>2, <1>3 DEF OfKind, Kind

-----------------------------------------------------------------------------
(* How a row, a staging place and the count of a place can change.         *)

GotFiled(c) ==
    /\ c \in Rows /\ resource'[c] # None /\ resource'[c].status = "filed"
    /\ resource'[c].parent = resource[c].parent /\ resource'[c].inboxPath = resource[c].inboxPath

GotFailed(c) ==
    /\ Unfiled(c) /\ resource'[c] # None /\ resource'[c].status = "failed"
    /\ resource'[c].at = resource[c].at
    /\ resource'[c].parent = resource[c].parent /\ resource'[c].inboxPath = resource[c].inboxPath

Born(c, t) == Insert(t) /\ ingest[t].sum = c /\ c \notin Rows /\ resource'[c] = Made(t)

(* A file left staging for the library, with its row.                      *)
Left(s) ==
    /\ stage'[s] = None /\ stage[s] \in Contents
    /\ Unfiled(stage[s]) /\ resource[stage[s]].at = s /\ GotFiled(stage[s])

LEMMA FiledTogether ==
    ASSUME InboxAssumption, TypeOK, NEW S, S \subseteq Rows,
           \A c \in S : Unfiled(c) /\ stage[resource[c].at] = c,
           resource' = [c \in Contents |-> FiledAt(S, c)], stage' = Emptied(S)
    PROVE  /\ \A c \in Contents : resource'[c] = resource[c] \/ GotFiled(c)
           /\ \A s \in Slots : stage'[s] = stage[s] \/ Left(s)
           /\ \A c \in S : GotFiled(c)
<1>1. ASSUME NEW c \in Contents
      PROVE  resource'[c] = FiledAt(S, c)
  BY <1>1
<1>2. \A c \in S : c \in Contents /\ GotFiled(c)
  BY <1>1, FiledFact DEF GotFiled, Rows
<1>3. \A c \in Contents \ S : resource'[c] = resource[c]
  BY <1>1, FiledFact
<1>4. ASSUME NEW s \in Slots, stage'[s] # stage[s]
      PROVE  Left(s)
  <2>1. stage'[s] = None /\ \E c \in S : resource[c].at = s
    BY <1>4 DEF Emptied
  <2>2. PICK c \in S : resource[c].at = s
    BY <2>1
  <2>3. c = stage[s] /\ Unfiled(c)
    BY <2>2
  <2>4. QED
    BY <1>2, <2>1, <2>2, <2>3 DEF Left
<1>5. QED
  BY <1>2, <1>3, <1>4

LEMMA AttachMoves ==
    ASSUME InboxAssumption, TypeOK, NEW t \in Threads, Attach(t)
    PROVE  /\ \A c \in Contents :
                 resource'[c] = resource[c] \/ (GotFiled(c) /\ resource[c].parent = ingest[t].parent)
           /\ \A s \in Slots : stage'[s] = stage[s] \/ Left(s)
<1> DEFINE kids == {c \in Beside(ingest[t].parent) : stage[resource[c].at] = c}
<1>1. kids \subseteq Rows /\ \A c \in kids : Unfiled(c) /\ stage[resource[c].at] = c
  BY DEF Beside, Unfiled
<1>2. resource' = [c \in Contents |-> FiledAt(kids, c)] /\ stage' = Emptied(kids)
  BY DEF Attach
<1>3. \A c \in kids : resource[c].parent = ingest[t].parent
  BY DEF Beside
<1> HIDE DEF kids
<1>4. \A c \in Contents \ kids : resource'[c] = resource[c]
  BY <1>1, <1>2, FiledFact
<1>5. QED
  BY <1>1, <1>2, <1>3, <1>4, FiledTogether

LEMMA FileAwayMoves ==
    ASSUME InboxAssumption, TypeOK, NEW d \in Recordings, FileAway(d)
    PROVE  /\ \A c \in Contents : resource'[c] = resource[c] \/ GotFiled(c) \/ GotFailed(c)
           /\ \A s \in Slots : stage'[s] = stage[s] \/ Left(s)
           /\ \A c \in Contents :
                 GotFiled(c) => \/ resource[c].status = "filed"
                                \/ GotFiled(d) /\ (c = d \/ resource[c].parent = d)
<1> DEFINE kids == {k \in Beside(d) : stage[resource[k].at] = k}
           gone == {d} \cup kids
<1>0. d \in Contents /\ Unfiled(d) /\ d \in Rows /\ resource[d] \in Resource
  BY DEF FileAway, Unfiled, Contents, TypeOK, Rows
<1>1. CASE stage[resource[d].at] = d
  <2>1. resource' = [c \in Contents |-> FiledAt(gone, c)] /\ stage' = Emptied(gone)
    BY <1>1 DEF FileAway
  <2>2. gone \subseteq Rows /\ \A c \in gone : Unfiled(c) /\ stage[resource[c].at] = c
    BY <1>0, <1>1 DEF Beside, Unfiled
  <2>3. \A c \in gone : c = d \/ resource[c].parent = d
    BY DEF Beside
  <2>4. d \in gone
    OBVIOUS
  <2> HIDE DEF gone
  <2>5. /\ \A c \in Contents : resource'[c] = resource[c] \/ GotFiled(c)
        /\ \A s \in Slots : stage'[s] = stage[s] \/ Left(s)
        /\ \A c \in gone : GotFiled(c)
    BY <2>1, <2>2, FiledTogether
  <2>6. ASSUME NEW c \in Contents, c \notin gone
        PROVE  resource'[c] = resource[c]
    BY <2>1, <2>2, <2>6, FiledFact
  <2>7. QED
    BY <2>3, <2>4, <2>5, <2>6 DEF GotFiled
<1>2. CASE stage[resource[d].at] # d
  <2>1. resource' = [resource EXCEPT ![d].status = "failed"] /\ UNCHANGED stage
    BY <1>2 DEF FileAway
  <2> DEFINE r == [resource[d] EXCEPT !.status = "failed"]
  <2>2. /\ r \in Resource /\ r.status = "failed" /\ r.at = resource[d].at
        /\ r.parent = resource[d].parent /\ r.inboxPath = resource[d].inboxPath
    BY <1>0 DEF Resource
  <2>3. resource' = [resource EXCEPT ![d] = r]
    BY <2>1
  <2> HIDE DEF r
  <2>4. resource'[d] = r /\ \A c \in Contents \ {d} : resource'[c] = resource[c]
    BY <1>0, <2>3 DEF TypeOK
  <2>5. r # None
    BY <2>2 DEF InboxAssumption
  <2>6. GotFailed(d)
    BY <1>0, <2>2, <2>4, <2>5 DEF GotFailed
  <2>7. \A c \in Contents : GotFiled(c) => resource[c].status = "filed"
    BY <2>2, <2>4 DEF GotFiled
  <2>8. QED
    BY <2>1, <2>4, <2>6, <2>7
<1>3. QED
  BY <1>1, <1>2

LEMMA InsertMoves ==
    ASSUME InboxAssumption, TypeOK, InStep, NEW t \in Threads, Insert(t), NEW c \in Contents
    PROVE  resource'[c] = resource[c] \/ Born(c, t)
  BY DEF Insert, Born, TypeOK

LEMMA RowMoves ==
    ASSUME InboxAssumption, Typed, InStep, [Next]_vars, NEW c \in Contents
    PROVE  \/ resource'[c] = resource[c] \/ GotFiled(c) \/ GotFailed(c)
           \/ \E t \in Threads : Born(c, t)
<1> USE DEF drive, table, disk, bounds, history
<1>0. TypeOK
  BY DEF Typed
<1>1. CASE UNCHANGED resource
  BY <1>1
<1>2. ASSUME NEW t \in Threads, IngestStep(t)
      PROVE  resource'[c] = resource[c] \/ GotFiled(c) \/ Born(c, t)
  <2>1. CASE Insert(t)
    BY <1>0, <2>1, InsertMoves
  <2>2. CASE Attach(t)
    BY <1>0, <2>2, AttachMoves
  <2>3. CASE ~ (Insert(t) \/ Attach(t))
    BY <1>2, <2>3 DEF IngestStep, ChecksumFails, Duplicate, Checksum, InsertRefused, AttachFails
  <2>4. QED
    BY <2>1, <2>2, <2>3
<1>3. ASSUME NEW d \in Recordings, FileAway(d)
      PROVE  resource'[c] = resource[c] \/ GotFiled(c) \/ GotFailed(c)
  BY <1>0, <1>3, FileAwayMoves
<1>4. Look => UNCHANGED resource
  BY <1>0, LookFact
<1>5. QED
  BY <1>1, <1>2, <1>3, <1>4
     DEF Next, PullStep, UploadStep, Threads, Drop, Age, PollBegin, Copy, CopyFails, Take, MoveTo,
         MoveToFails, PollEnd, UploadSave, KillPull, KillUpload, vars

LEMMA StageMoves ==
    ASSUME InboxAssumption, Typed, InStep, [Next]_vars, NEW s \in Slots
    PROVE  \/ stage'[s] = stage[s] \/ Left(s)
           \/ Copy /\ s = pull.cur
           \/ \E c \in Sent[s] : s \in Names /\ UploadSave(s, c)
           \/ \E t \in Threads : Duplicate(t) /\ s = ingest[t].slot
<1> USE DEF drive, table, disk, bounds, history
<1>0. TypeOK
  BY DEF Typed
<1>1. CASE UNCHANGED stage
  BY <1>1
<1>2. CASE Copy
  BY <1>0, <1>2 DEF Copy, StageDir, TypeOK
<1>3. ASSUME NEW n \in Names, NEW c \in Sent[n], UploadSave(n, c)
      PROVE  stage'[s] = stage[s] \/ s = n
  BY <1>0, <1>3 DEF UploadSave, TypeOK
<1>4. ASSUME NEW t \in Threads, IngestStep(t)
      PROVE  stage'[s] = stage[s] \/ Left(s) \/ (Duplicate(t) /\ s = ingest[t].slot)
  <2>1. CASE Duplicate(t)
    BY <1>0, <2>1 DEF Duplicate, TypeOK
  <2>2. CASE Attach(t)
    BY <1>0, <2>2, AttachMoves
  <2>3. CASE ~ (Duplicate(t) \/ Attach(t))
    BY <1>4, <2>3 DEF IngestStep, ChecksumFails, Checksum, Insert, InsertRefused, AttachFails
  <2>4. QED
    BY <2>1, <2>2, <2>3
<1>5. ASSUME NEW d \in Recordings, FileAway(d)
      PROVE  stage'[s] = stage[s] \/ Left(s)
  BY <1>0, <1>5, FileAwayMoves
<1>6. Look => UNCHANGED stage
  BY <1>0, LookFact
<1>7. QED
  BY <1>1, <1>2, <1>3, <1>4, <1>5, <1>6
     DEF Next, PullStep, UploadStep, Threads, Drop, Age, PollBegin, CopyFails, Take, MoveTo,
         MoveToFails, PollEnd, KillPull, KillUpload, vars

LEMMA CameMoves ==
    ASSUME InboxAssumption, Typed, InStep, [Next]_vars, NEW s \in Slots
    PROVE  /\ came[s] \in 0 .. 2 /\ came'[s] \in 0 .. 2 /\ came[s] <= came'[s]
           /\ \/ came'[s] = came[s]
              \/ Copy /\ s = pull.cur
              \/ Take /\ s = pull.cur
              \/ \E c \in Sent[s] : s \in Names /\ UploadSave(s, c)
<1> USE DEF drive, table, disk, bounds, history
<1>0. TypeOK /\ came \in [Slots -> 0 .. 2] /\ Names \subseteq Slots
  BY DEF Typed, TypeOK, Slots
<1>1. CASE UNCHANGED came
  BY <1>0, <1>1
<1>2. CASE Copy \/ Take
  <2>1. pull.cur \in Slots
    BY <1>2 DEF Copy, Take, InStep, Fetching, Listed, Slots
  <2>2. \/ Copy /\ CameIs(pull.cur, IF came[pull.cur] = 0 THEN 0 ELSE 2)
        \/ Take /\ CameIs(pull.cur, IF came[pull.cur] = 0 THEN 1 ELSE came[pull.cur])
    BY <1>0, <1>2, <2>1, CameFact
  <2>3. QED
    BY <1>0, <2>1, <2>2 DEF CameIs
<1>3. ASSUME NEW n \in Names, NEW c \in Sent[n], UploadSave(n, c)
      PROVE  /\ came'[s] \in 0 .. 2 /\ came[s] <= came'[s]
             /\ came'[s] = came[s] \/ \E d \in Sent[s] : s \in Names /\ UploadSave(s, d)
  <2>1. CameIs(n, IF came[n] = 2 THEN 2 ELSE came[n] + 1)
    BY <1>0, <1>3, CameFact DEF UploadSave
  <2>2. CASE s = n
    BY <1>0, <1>3, <2>1, <2>2 DEF CameIs
  <2>3. CASE s # n
    BY <1>0, <2>1, <2>3 DEF CameIs
  <2>4. QED
    BY <2>2, <2>3
<1>4. ASSUME NEW t \in Threads, IngestStep(t)
      PROVE  UNCHANGED came
  BY <1>4 DEF IngestStep, ChecksumFails, Duplicate, Checksum, Insert, InsertRefused, Attach,
     AttachFails
<1>5. Look => UNCHANGED came
  BY <1>0, LookFact
<1>6. \/ UNCHANGED came \/ Copy \/ Take
      \/ \E n \in Names : \E c \in Sent[n] : UploadSave(n, c)
  BY <1>4, <1>5 DEF Next, PullStep, UploadStep, Threads, Drop, Age, PollBegin, CopyFails, MoveTo,
     MoveToFails, PollEnd, FileAway, KillPull, KillUpload, vars
<1>7. CASE \E n \in Names : \E c \in Sent[n] : UploadSave(n, c)
  BY <1>0, <1>3, <1>7
<1>8. QED
  BY <1>1, <1>2, <1>6, <1>7

-----------------------------------------------------------------------------
(* A row that is not filed keeps its place, or is new.                     *)
LEMMA UnfiledBefore ==
    ASSUME InboxAssumption, Typed, InStep, [Next]_vars, NEW c \in Contents, Unfiled(c)'
    PROVE  \/ Unfiled(c) /\ resource'[c].at = resource[c].at
           \/ \E t \in Threads : Born(c, t) /\ resource'[c].at = ingest[t].slot
<1>0. TypeOK
  BY DEF Typed
<1>1. resource'[c] # None /\ resource'[c].status # "filed"
  BY DEF Unfiled, Rows
<1>2. CASE resource'[c] = resource[c]
  BY <1>1, <1>2 DEF Unfiled, Rows
<1>3. CASE GotFiled(c)
  BY <1>1, <1>3 DEF GotFiled
<1>4. CASE GotFailed(c)
  BY <1>4 DEF GotFailed
<1>5. ASSUME NEW t \in Threads, Born(c, t)
      PROVE  resource'[c].at = ingest[t].slot
  BY <1>0, <1>5, MadeFact DEF Born, Insert
<1>6. QED
  BY <1>2, <1>3, <1>4, <1>5, RowMoves

LEMMA NamedStep ==
    ASSUME InboxAssumption, Typed, InStep, Named, Fresh, [Next]_vars
    PROVE  Named'
<1>1. ASSUME NEW c \in Contents, Unfiled(c)'
      PROVE  resource'[c].at \in Slots /\ came'[resource'[c].at] >= 1
  <2>1. CASE Unfiled(c) /\ resource'[c].at = resource[c].at
    <3>1. resource[c].at \in Slots /\ came[resource[c].at] >= 1
      BY <2>1 DEF Named
    <3>2. QED
      BY <2>1, <3>1, CameMoves
  <2>2. ASSUME NEW t \in Threads, Born(c, t), resource'[c].at = ingest[t].slot
        PROVE  resource'[c].at \in Slots /\ came'[resource'[c].at] >= 1
    <3>1. ingest[t].pc = "insert" /\ ingest[t].slot \in Slots
      BY <2>2, SlotFact DEF Born, Insert, Typed
    <3>2. came[ingest[t].slot] >= 1
      BY <3>1 DEF Fresh, FreshAt
    <3>3. QED
      BY <2>2, <3>1, <3>2, CameMoves
  <2>3. QED
    BY <1>1, <2>1, <2>2, UnfiledBefore
<1>2. QED
  BY <1>1 DEF Named, Unfiled, Rows

LEMMA KeptStep ==
    ASSUME InboxAssumption, Typed, InStep, Named, Fresh, Kept, [Next]_vars
    PROVE  Kept'
<1>0. TypeOK
  BY DEF Typed
<1>1. ASSUME NEW c \in Contents, Unfiled(c)', NEW s, s = resource'[c].at, came'[s] < 2
      PROVE  stage'[s] = c
  <2>1. CASE Unfiled(c) /\ s = resource[c].at
    <3>1. s \in Slots /\ came[s] >= 1 /\ came[s] < 2
      BY <1>1, <2>1, CameMoves DEF Named
    <3>2. stage[s] = c
      BY <2>1, <3>1 DEF Kept, Unfiled
    <3>3. ~ Left(s)
      BY <1>1, <3>2 DEF Left, GotFiled, Unfiled
    <3>4. ASSUME Copy, s = pull.cur
          PROVE  FALSE
      <4>1. CameIs(s, IF came[s] = 0 THEN 0 ELSE 2)
        BY <1>0, <3>1, <3>4, CameFact
      <4>2. QED
        BY <1>1, <3>1, <4>1 DEF CameIs
    <3>5. ASSUME NEW d \in Sent[s], UploadSave(s, d)
          PROVE  FALSE
      <4>1. CameIs(s, IF came[s] = 2 THEN 2 ELSE came[s] + 1)
        BY <1>0, <3>1, <3>5, CameFact DEF UploadSave
      <4>2. QED
        BY <1>1, <3>1, <4>1, CameMoves DEF CameIs
    <3>6. ASSUME NEW t \in Threads, Duplicate(t), s = ingest[t].slot
          PROVE  FALSE
      <4>1. FreshAt(t)
        BY <3>6 DEF Fresh, Duplicate
      <4>2. QED
        BY <2>1, <3>1, <3>6, <4>1 DEF FreshAt
    <3>7. QED
      BY <3>1, <3>2, <3>3, <3>4, <3>5, <3>6, StageMoves
  <2>2. ASSUME NEW t \in Threads, Born(c, t), s = ingest[t].slot
        PROVE  stage'[s] = c
    <3>1. ingest[t].pc = "insert" /\ s \in Slots /\ UNCHANGED <<stage, came>>
      BY <1>0, <2>2, SlotFact DEF Born, Insert, disk, history
    <3>2. stage[s] = ingest[t].sum
      BY <1>1, <2>2, <3>1 DEF Fresh, FreshAt
    <3>3. QED
      BY <2>2, <3>1, <3>2 DEF Born
  <2>3. QED
    BY <1>1, <2>1, <2>2, UnfiledBefore
<1>2. QED
  BY <1>1 DEF Kept, Unfiled, Rows

(* Two ingests at once are of different places.                            *)
LEMMA Apart ==
    ASSUME InboxAssumption, TypeOK, InStep, NEW t \in Threads, NEW u \in Threads, t # u,
           ingest[t].pc # "none", ingest[u].pc # "none"
    PROVE  ingest[t].slot # ingest[u].slot
  BY SlotFact DEF Threads

LEMMA FreshStep ==
    ASSUME InboxAssumption, Typed, InStep, Named, Fresh, [Next]_vars
    PROVE  Fresh'
<1>0. TypeOK /\ \A p \in Paths : p \in Slots
  BY DEF Typed, Slots
<1>1. ASSUME pull'.pc = "copied"
      PROVE  came'[pull'.cur] # 1
  <2>1. CASE Copy
    <3>1. pull.cur \in Slots /\ pull'.cur = pull.cur
      BY <1>0, <2>1 DEF Copy, InStep, Fetching, Listed, TypeOK, Pull
    <3>2. CameIs(pull.cur, IF came[pull.cur] = 0 THEN 0 ELSE 2)
      BY <1>0, <2>1, <3>1, CameFact
    <3>3. QED
      BY <3>1, <3>2 DEF CameIs
  <2>2. CASE UNCHANGED pull /\ ~ Copy
    <3>1. pull.pc = "copied" /\ pull.cur \in Paths
      BY <1>1, <2>2 DEF InStep, Fetching, Listed
    <3>2. pull.cur \notin Names /\ ~ Take
      BY <1>1, <2>2, <3>1, TakeFact, <1>0 DEF InboxAssumption, PullIs
    <3>3. came'[pull.cur] = came[pull.cur]
      BY <1>0, <2>2, <3>1, <3>2, CameMoves
    <3>4. QED
      BY <2>2, <3>1, <3>3 DEF Fresh
  <2>3. ASSUME Resumed(pull.cur) \/ PollEnd \/ KillPull \/ PollBegin \/ Take \/ Look
        PROVE  FALSE
    <3>1. Resumed(pull.cur) => pull'.pc = "scan"
      BY DEF Resumed, PullIs
    <3>2. PollEnd \/ KillPull => pull'.pc = "idle"
      BY StopFact DEF PollEnd, KillPull
    <3>3. PollBegin => pull'.pc = "scan"
      BY BeginFact DEF PullIs
    <3>4. Take => pull'.pc = "ingest"
      BY <1>0, TakeFact DEF PullIs
    <3>5. Look => pull'.pc \in {"scan", "copy"}
      BY <1>0, LookFact DEF Passed, Admitted, PullIs
    <3>6. QED
      BY <1>1, <2>3, <3>1, <3>2, <3>3, <3>4, <3>5
  <2>4. CopyFails \/ MoveTo \/ MoveToFails => Resumed(pull.cur)
    BY <1>0, ResumeFact DEF CopyFails, MoveTo, MoveToFails, InStep, Fetching
  <2>5. \A t \in Threads : IngestStep(t) => UNCHANGED pull
    BY <1>0, IngestKinds
  <2>6. QED
    BY <2>1, <2>2, <2>3, <2>4, <2>5
       DEF Next, PullStep, UploadStep, Threads, Drop, Age, UploadSave, FileAway, KillUpload, vars
<1>2. ASSUME NEW t \in Threads, ingest'[t].pc \in {"check", "insert"}
      PROVE  FreshAt(t)'
  <2> DEFINE s == ingest'[t].slot
  <2>1. CASE ingest'[t] = ingest[t]
    <3>1. s \in Slots /\ FreshAt(t) /\ s = ingest[t].slot /\ ingest[t].pc \in {"check", "insert"}
      BY <1>0, <1>2, <2>1, SlotFact DEF Fresh
    <3>2. came'[s] >= 1 /\ came[s] <= came'[s] /\ came[s] \in 0 .. 2 /\ came'[s] \in 0 .. 2
      BY <3>1, CameMoves DEF FreshAt
    <3>3. ASSUME came'[s] < 2, NEW c \in Contents, Unfiled(c)', resource'[c].at = s
          PROVE  FALSE
      <4>1. ~ Unfiled(c) \/ resource[c].at # s
        BY <3>1, <3>2, <3>3 DEF FreshAt
      <4>2. PICK u \in Threads : Born(c, u) /\ ingest[u].slot = s
        BY <3>3, <4>1, UnfiledBefore
      <4>3. u # t
        <5>1. Insert(t) => ingest'[t].pc \notin {"check", "insert"}
          BY <1>0, GoesFact, EndsFact DEF Insert, IngestIs, Ended, Threads
        <5>2. QED
          BY <1>2, <4>2, <5>1 DEF Born
      <4>4. ingest[u].pc = "insert"
        BY <4>2 DEF Born, Insert
      <4>5. QED
        BY <1>0, <3>1, <4>2, <4>3, <4>4, Apart
    <3>4. ASSUME came'[s] < 2, ingest'[t].pc = "insert"
          PROVE  stage'[s] = ingest'[t].sum
      <4>1. came[s] < 2 /\ stage[s] = ingest[t].sum
        BY <2>1, <3>1, <3>2, <3>4 DEF FreshAt
      <4>2. ~ Left(s)
        BY <3>1, <4>1 DEF Left, FreshAt
      <4>3. ~ (Copy /\ s = pull.cur)
        <5>1. Copy => pull.pc = "copy" /\ pull.cur \in Paths
          BY DEF Copy, InStep, Fetching, Listed
        <5>2. QED
          BY <1>0, <2>1, <3>1, <3>4, <5>1, SlotFact DEF Threads
      <4>4. ASSUME NEW d \in Sent[s], s \in Names, UploadSave(s, d)
            PROVE  FALSE
        <5>1. ingest["upload"].pc = "none"
          BY <4>4 DEF UploadSave
        <5>2. t = "pull"
          BY <3>1, <5>1 DEF Threads
        <5>3. QED
          BY <1>0, <3>1, <4>4, <5>2, SlotFact DEF InboxAssumption
      <4>5. ASSUME NEW u \in Threads, Duplicate(u), s = ingest[u].slot
            PROVE  FALSE
        <5>1. u # t /\ ingest[u].pc # "none"
          BY <2>1, <3>4, <4>5 DEF Duplicate
        <5>2. QED
          BY <1>0, <3>1, <4>5, <5>1, Apart
      <4>6. stage'[s] = stage[s]
        BY <3>1, <4>2, <4>3, <4>4, <4>5, StageMoves
      <4>7. QED
        BY <2>1, <4>1, <4>6
    <3>5. QED
      BY <3>2, <3>3, <3>4 DEF FreshAt, Unfiled, Rows
  <2>2. CASE Checksum(t)
    <3>1. /\ ingest'[t].sum = stage[ingest[t].slot] /\ s = ingest[t].slot
          /\ UNCHANGED <<stage, came, resource>> /\ ingest[t].pc = "check"
      BY <1>0, <2>2, ChecksumFact DEF IngestIs, Checksum, disk, table, history
    <3>2. FreshAt(t)
      BY <3>1 DEF Fresh
    <3>3. QED
      BY <3>1, <3>2 DEF FreshAt, Unfiled, Rows
  <2>3. ASSUME s \in Slots, UNCHANGED resource, ingest'[t].pc = "check",
               came[s] = 0 => came'[s] = 1, came[s] = 1 => came'[s] = 2, came'[s] >= 1
        PROVE  FreshAt(t)'
    <3>1. came'[s] < 2 => came[s] = 0
      BY <2>3, CameMoves
    <3>2. came[s] = 0 => \A c \in Contents : Unfiled(c) => resource[c].at # s
      BY DEF Named
    <3>3. QED
      BY <2>3, <3>1, <3>2 DEF FreshAt, Unfiled, Rows
  <2>4. CASE t = "pull" /\ Take
    <3>1. s = pull.cur /\ ingest'[t].pc = "check"
      BY <1>0, <2>4, TakeFact DEF IngestIs
    <3>2. s \in Slots /\ came[s] # 1 /\ UNCHANGED resource
      BY <1>0, <2>4, <3>1 DEF Take, InStep, Fetching, Listed, Fresh, table
    <3>3. CameIs(s, IF came[s] = 0 THEN 1 ELSE came[s])
      BY <1>0, <2>4, <3>1, <3>2, CameFact
    <3>4. came[s] \in 0 .. 2
      BY <3>2, CameMoves
    <3>5. QED
      BY <2>3, <3>1, <3>2, <3>3, <3>4 DEF CameIs
  <2>5. ASSUME t = "upload", NEW n \in Names, NEW c \in Sent[n], UploadSave(n, c)
        PROVE  FreshAt(t)'
    <3>1. s = n /\ ingest'[t].pc = "check"
      BY <1>0, <2>5, SaveFact DEF IngestIs
    <3>2. s \in Slots /\ UNCHANGED resource
      BY <2>5, <3>1 DEF UploadSave, Slots, table
    <3>3. CameIs(s, IF came[s] = 2 THEN 2 ELSE came[s] + 1)
      BY <1>0, <2>5, <3>1, <3>2, CameFact DEF UploadSave
    <3>4. came[s] \in 0 .. 2
      BY <3>2, CameMoves
    <3>5. QED
      BY <2>3, <3>1, <3>2, <3>3, <3>4 DEF CameIs
  <2>6. QED
    BY <1>2, <2>1, <2>2, <2>4, <2>5, InsertFrom
<1>3. QED
  BY <1>1, <1>2 DEF Fresh

-----------------------------------------------------------------------------
(* What there is of a row, and of an unresolved place, stays.              *)
LEMMA TableGrows ==
    ASSUME InboxAssumption, Typed, InStep, [Next]_vars
    PROVE  /\ unresolved \subseteq unresolved'
           /\ \A c \in Rows :
                 /\ c \in Rows' /\ resource'[c].parent = resource[c].parent
                 /\ resource'[c].inboxPath = resource[c].inboxPath
                 /\ resource[c].status = "filed" => resource'[c].status = "filed"
<1> USE DEF drive, table, disk, bounds, history
<1>0. TypeOK
  BY DEF Typed
<1>1. unresolved \subseteq unresolved'
  <2>1. ASSUME NEW t \in Threads, IngestStep(t)
        PROVE  unresolved \subseteq unresolved'
    BY <2>1 DEF IngestStep, ChecksumFails, Duplicate, Checksum, Insert, InsertRefused, Attach,
       AttachFails, Unexpected
  <2>2. Look => UNCHANGED unresolved
    BY <1>0, LookFact
  <2>3. QED
    BY <2>1, <2>2 DEF Next, PullStep, UploadStep, Threads, Drop, Age, PollBegin, Copy, CopyFails,
       Take, MoveTo, MoveToFails, PollEnd, UploadSave, FileAway, KillPull, KillUpload, vars
<1>2. ASSUME NEW c \in Rows
      PROVE  /\ c \in Rows' /\ resource'[c].parent = resource[c].parent
             /\ resource'[c].inboxPath = resource[c].inboxPath
             /\ resource[c].status = "filed" => resource'[c].status = "filed"
  <2>1. c \in Contents /\ resource[c] # None
    BY DEF Rows
  <2>2. resource'[c] = resource[c] \/ GotFiled(c) \/ GotFailed(c)
    BY <2>1, RowMoves DEF Born
  <2>3. QED
    BY <2>1, <2>2 DEF GotFiled, GotFailed, Unfiled, Rows
<1>3. QED
  BY <1>1, <1>2

(* A file in the Inbox stays there until the pull moves it, or a sender    *)
(* puts another in its place.                                              *)
LEMMA DriveMoves ==
    ASSUME InboxAssumption, Typed, InStep, [Next]_vars, NEW p \in Paths
    PROVE  \/ inbox'[p] = inbox[p] /\ processed'[p] = processed[p]
           \/ MoveTo /\ p = pull.cur /\ inbox[p] # None /\ processed'[p] = inbox[p]
           \/ (\E c \in Sent[p] : Drop(p, c)) /\ processed'[p] = processed[p]
<1> USE DEF drive, table, disk, bounds, history
<1>0. TypeOK
  BY DEF Typed
<1>1. ASSUME NEW q \in Paths, NEW c \in Sent[q], Drop(q, c)
      PROVE  processed' = processed /\ (inbox'[p] = inbox[p] \/ q = p)
  BY <1>0, <1>1 DEF Drop, TypeOK
<1>2. MoveTo => \/ inbox'[p] = inbox[p] /\ processed'[p] = processed[p]
                \/ p = pull.cur /\ inbox[p] # None /\ processed'[p] = inbox[p]
  BY <1>0 DEF MoveTo, TypeOK
<1>3. ASSUME NEW t \in Threads, IngestStep(t)
      PROVE  UNCHANGED <<inbox, processed>>
  BY <1>3 DEF IngestStep, ChecksumFails, Duplicate, Checksum, Insert, InsertRefused, Attach,
     AttachFails
<1>4. Look => UNCHANGED <<inbox, processed>>
  BY <1>0, LookFact
<1>5. \/ UNCHANGED <<inbox, processed>> \/ MoveTo
      \/ \E q \in Paths : \E c \in Sent[q] : Drop(q, c)
  BY <1>3, <1>4 DEF Next, PullStep, UploadStep, Threads, Age, PollBegin, Copy, CopyFails, Take,
     MoveToFails, PollEnd, UploadSave, FileAway, KillPull, KillUpload, vars
<1>6. QED
  BY <1>1, <1>2, <1>5

LEMMA CopyFact ==
    ASSUME TypeOK, Copy
    PROVE  PullIs("copied", pull.cur, pull.parent, pull.list, pull.staged, pull.n)
  BY DEF Copy, TypeOK, PullIs, Pull

LEMMA PullMoves ==
    ASSUME InboxAssumption, Typed, InStep, [Next]_vars
    PROVE  \/ UNCHANGED pull \/ pull'.pc = "idle"
           \/ PollBegin
           \/ Look
           \/ Copy \/ Take
           \/ (CopyFails \/ MoveTo \/ MoveToFails) /\ Resumed(pull.cur)
<1> USE DEF drive, table, disk, bounds, history
<1>0. TypeOK
  BY DEF Typed
<1>1. CASE CopyFails \/ MoveTo \/ MoveToFails
  BY <1>0, <1>1, ResumeFact DEF CopyFails, MoveTo, MoveToFails, InStep, Fetching
<1>2. CASE PollEnd \/ KillPull
  BY <1>2, StopFact DEF PollEnd, KillPull
<1>3. ASSUME NEW t \in Threads, IngestStep(t)
      PROVE  UNCHANGED pull
  BY <1>3 DEF IngestStep, ChecksumFails, Duplicate, Checksum, Insert, InsertRefused, Attach,
     AttachFails
<1>4. QED
  BY <1>1, <1>2, <1>3 DEF Next, PullStep, UploadStep, Threads, Age, Drop, UploadSave, FileAway,
     KillUpload, vars

(* While the pull stays as it is, what it fetches stays in the Inbox.      *)
LEMMA StaysInInbox ==
    ASSUME InboxAssumption, Typed, InStep, [Next]_vars, ~Reuse, UNCHANGED pull,
           NEW p \in Paths, p = pull.cur \/ inbox[p] # None
    PROVE  inbox'[p] = inbox[p]
<1>1. ASSUME MoveTo
      PROVE  FALSE
  <2>1. pull.pc = "ingest" /\ Resumed(pull.cur)
    BY <1>1, ResumeFact DEF MoveTo, InStep, Fetching, Typed
  <2>2. QED
    BY <2>1 DEF Resumed, PullIs
<1>2. ASSUME NEW c \in Sent[p], Drop(p, c)
      PROVE  FALSE
  BY <1>2 DEF Drop, Used
<1>3. QED
  BY <1>1, <1>2, DriveMoves

LEMMA SumThere ==
    ASSUME InboxAssumption, Typed, InStep, OfKind, NEW t \in Threads, ingest[t].pc = "insert"
    PROVE  /\ ingest[t] \in Ingest /\ ingest[t].slot \in Slots
           /\ ingest[t].sum \in Kind(ingest[t].slot) /\ ingest[t].sum \in Contents
<1>1. ingest[t] \in Ingest /\ ingest[t].slot \in Slots
  BY SlotFact DEF Typed
<1>2. ingest[t].sum \in Kind(ingest[t].slot)
  BY DEF OfKind
<1>3. QED
  BY <1>1, <1>2 DEF Kind, Contents

LEMMA ArrivedStep ==
    ASSUME InboxAssumption, Typed, InStep, OfKind, Arrived, [Next]_vars
    PROVE  Arrived'
<1> DEFINE i == ingest["pull"]
           p == pull.cur
<1>0. TypeOK /\ "pull" \in Threads
  BY DEF Typed, Threads
<1>1. SUFFICES ASSUME ~Reuse, pull'.pc \in Fetching
               PROVE  /\ pull'.pc = "copied" \/ i'.pc = "check" => stage'[p'] \in {inbox'[p'], None}
                      /\ i'.pc = "insert" => i'.sum = inbox'[p']
                      /\ i'.pc \in {"attach", "done"} => inbox'[p'] \in Rows' \/ p' \in unresolved'
  BY DEF Arrived
<1>2. CASE UNCHANGED pull
  <2>1. p' = p /\ p \in Paths /\ p \in Slots /\ pull.pc \in Fetching /\ p \notin Names
    BY <1>1, <1>2 DEF InStep, Listed, Slots, InboxAssumption
  <2>2. inbox'[p] = inbox[p]
    BY <1>1, <1>2, <2>1, StaysInInbox
  <2>3. ~Take /\ ~Copy
    BY <1>0, <1>2, TakeFact, CopyFact DEF PullIs, Take, Copy
  <2>4. stage'[p] \in {stage[p], None}
    <3>1. ASSUME NEW t \in Threads, Duplicate(t), p = ingest[t].slot
          PROVE  stage'[p] = None
      BY <1>0, <2>1, <3>1 DEF Duplicate, TypeOK
    <3>2. QED
      BY <2>1, <2>3, <3>1, StageMoves DEF Left
  <2>5. pull.pc = "copied" \/ i'.pc = "check" => stage'[p] \in {inbox[p], None}
    <3>1. i'.pc = "check" => i' = i
      BY <1>0, <2>3, InsertFrom
    <3>2. QED
      BY <1>1, <2>1, <2>4, <3>1 DEF Arrived
  <2>6. i'.pc = "insert" => i'.sum = inbox[p]
    <3>1. CASE i' = i
      BY <1>1, <2>1, <3>1 DEF Arrived
    <3>2. CASE Checksum("pull")
      <4>1. i'.sum = stage[i.slot] /\ i.slot = p /\ i.pc = "check" /\ stage[i.slot] \in Contents
        BY <1>0, <3>2, ChecksumFact DEF IngestIs, InStep, Checksum
      <4>2. stage[p] \in {inbox[p], None}
        BY <1>1, <2>1, <4>1 DEF Arrived
      <4>3. QED
        BY <4>1, <4>2 DEF InboxAssumption
    <3>3. QED
      BY <1>0, <3>1, <3>2, InsertFrom
  <2>7. i'.pc \in {"attach", "done"} => inbox[p] \in Rows' \/ p \in unresolved'
    <3>1. i.pc \in {"attach", "done"} => inbox[p] \in Rows' \/ p \in unresolved'
      BY <1>1, <2>1, TableGrows DEF Arrived
    <3>2. i.slot = p \/ i.pc = "none"
      BY DEF InStep
    <3>3. CASE ChecksumFails("pull")
      BY <3>2, <3>3 DEF ChecksumFails
    <3>4. CASE Duplicate("pull")
      <4>1. stage[p] \in Rows /\ i.pc = "check"
        BY <3>2, <3>4 DEF Duplicate
      <4>2. stage[p] \in {inbox[p], None}
        BY <1>1, <2>1, <4>1 DEF Arrived
      <4>3. inbox[p] \in Rows
        BY <4>1, <4>2 DEF Rows, InboxAssumption
      <4>4. QED
        BY <4>3, TableGrows
    <3>5. CASE Checksum("pull")
      BY <1>0, <3>5, ChecksumFact DEF IngestIs
    <3>6. CASE Insert("pull") \/ InsertRefused("pull")
      <4>1. i.pc = "insert"
        BY <3>6 DEF Insert, InsertRefused
      <4>2. i.sum = inbox[p]
        BY <1>1, <2>1, <4>1 DEF Arrived
      <4>3. i.sum \in Rows'
        <5>1. CASE Insert("pull")
          <6>1. i \in Ingest /\ i.sum \in Contents /\ Made("pull") \in Resource
            BY <1>0, <4>1, SumThere, MadeFact
          <6>2. resource'[i.sum] = Made("pull")
            BY <1>0, <5>1, <6>1 DEF Insert, TypeOK
          <6>3. QED
            BY <6>1, <6>2 DEF Rows, InboxAssumption
        <5>2. CASE InsertRefused("pull")
          BY <5>2, TableGrows DEF InsertRefused
        <5>3. QED
          BY <3>6, <5>1, <5>2
      <4>4. QED
        BY <4>2, <4>3
    <3>7. CASE Attach("pull") \/ AttachFails("pull")
      BY <3>1, <3>7 DEF Attach, AttachFails
    <3>8. CASE i' = i
      BY <3>1, <3>8
    <3>9. QED
      BY <1>0, <2>3, <3>3, <3>4, <3>5, <3>6, <3>7, <3>8, IngestMoves DEF IngestStep
  <2>8. QED
    BY <1>2, <2>1, <2>2, <2>5, <2>6, <2>7
<1>3. CASE Look
  <2>1. pull.pc = "scan" /\ UNCHANGED ingest /\ pull'.pc \in {"scan", "copy"}
    BY <1>0, <1>3, LookFact DEF Passed, Admitted, PullIs
  <2>2. QED
    BY <2>1 DEF InStep
<1>4. CASE Copy
  <2>1. pull.pc = "copy" /\ UNCHANGED <<ingest, inbox>> /\ pull'.cur = p /\ p \in Slots
    BY <1>0, <1>4, CopyFact DEF Copy, drive, PullIs, InStep, Fetching, Listed, Slots
  <2>2. stage'[p] = inbox[p]
    BY <1>0, <1>4, <2>1 DEF Copy, StageDir, TypeOK
  <2>3. QED
    BY <2>1, <2>2 DEF InStep
<1>5. CASE Take
  <2>1. /\ pull.pc = "copied" /\ UNCHANGED <<stage, inbox>> /\ pull'.cur = p
        /\ i'.pc = "check" /\ pull'.pc = "ingest"
    BY <1>0, <1>5, TakeFact DEF Take, drive, disk, PullIs, IngestIs
  <2>2. stage[p] \in {inbox[p], None}
    BY <1>1, <2>1 DEF Arrived, Fetching
  <2>3. QED
    BY <2>1, <2>2
<1>6. PollBegin \/ Resumed(pull.cur) => pull'.pc = "scan"
  BY <1>0, BeginFact DEF Resumed, PullIs
<1>7. QED
  BY <1>1, <1>2, <1>3, <1>4, <1>5, <1>6, PullMoves DEF Fetching

LEMMA AccountedStep ==
    ASSUME InboxAssumption, Typed, InStep, Arrived, Accounted, [Next]_vars
    PROVE  Accounted'
<1>1. ASSUME ~Reuse, NEW p \in Paths, processed'[p] # None
      PROVE  processed'[p] \in Rows' \/ p \in unresolved'
  <2>1. CASE processed'[p] = processed[p]
    BY <1>1, <2>1, TableGrows DEF Accounted
  <2>2. CASE MoveTo /\ p = pull.cur /\ processed'[p] = inbox[p]
    <3>1. inbox[p] \in Rows \/ p \in unresolved
      BY <1>1, <2>2 DEF MoveTo, Arrived, Fetching
    <3>2. QED
      BY <2>2, <3>1, TableGrows
  <2>3. QED
    BY <2>1, <2>2, DriveMoves
<1>2. QED
  BY <1>1 DEF Accounted

-----------------------------------------------------------------------------
(* Sidecars.                                                               *)

(* A recording that was found by a sidecar's name is found again.          *)
LEMMA FoundAgain ==
    ASSUME InboxAssumption, Typed, InStep, [Next]_vars, NEW p, NEW c \in FindParent(p)
    PROVE  /\ c \in Recordings /\ c \in Rows /\ c \in Rows'
           /\ resource'[c].inboxPath \in Matches[p]
<1>1. c \in Rows /\ c \in Recordings /\ resource[c].inboxPath \in Matches[p]
  BY DEF FindParent
<1>2. c \in Rows' /\ resource'[c].inboxPath = resource[c].inboxPath
  BY <1>1, TableGrows
<1>3. QED
  BY <1>1, <1>2

(* What the pull fetches, and with which parent.                           *)
LEMMA FetchedMoves ==
    ASSUME InboxAssumption, Typed, InStep, [Next]_vars, pull'.pc \in Fetching
    PROVE  \/ pull.pc \in Fetching /\ pull'.cur = pull.cur /\ pull'.parent = pull.parent
           \/ \E p \in Listed : \E c \in IF p \in Sidecars THEN FindParent(p) ELSE {None} :
                  pull'.cur = p /\ pull'.parent = c
<1>0. TypeOK
  BY DEF Typed
<1>1. CASE UNCHANGED pull
  BY <1>1
<1>2. CASE Look
  <2>1. PICK p \in Listed :
            \/ Passed(p)
            \/ \E c \in IF p \in Sidecars THEN FindParent(p) ELSE {None} : Admitted(p, c)
    BY <1>0, <1>2, LookFact
  <2>2. QED
    BY <2>1 DEF Passed, Admitted, PullIs, Fetching
<1>3. CASE Copy
  BY <1>0, <1>3, CopyFact DEF Copy, PullIs, Fetching
<1>4. CASE Take
  BY <1>0, <1>4, TakeFact DEF Take, PullIs, Fetching
<1>5. PollBegin \/ Resumed(pull.cur) => pull'.pc = "scan"
  BY <1>0, BeginFact DEF Resumed, PullIs
<1>6. QED
  BY <1>1, <1>2, <1>3, <1>4, <1>5, PullMoves DEF Fetching

(* A sidecar is filed with its parent, or after it.                        *)
LEMMA FiledWith ==
    ASSUME InboxAssumption, Typed, InStep, Hangs, [Next]_vars,
           NEW c \in Rows \cap Companions, Unfiled(c), resource'[c].status = "filed"
    PROVE  resource'[resource[c].parent].status = "filed"
<1> USE DEF drive, table, disk, bounds, history
<1>0. TypeOK /\ c \in Contents /\ c \notin Recordings /\ resource'[c] # resource[c]
  BY DEF Typed, Rows, InboxAssumption, Unfiled
<1>1. ASSUME NEW t \in Threads, IngestStep(t)
      PROVE  t = "pull" /\ ingest[t].pc = "attach" /\ resource[c].parent = ingest[t].parent
  <2>1. CASE Insert(t)
    BY <1>0, <2>1, InsertMoves DEF Born
  <2>2. CASE Attach(t)
    <3>1. ingest[t].pc = "attach" /\ t = "pull"
      BY <1>0, <2>2, SlotFact DEF Attach, Threads
    <3>2. QED
      BY <1>0, <2>2, <3>1, AttachMoves
  <2>3. CASE ~ (Insert(t) \/ Attach(t))
    BY <1>0, <1>1, <2>3 DEF IngestStep, ChecksumFails, Duplicate, Checksum, InsertRefused, AttachFails
  <2>4. QED
    BY <2>1, <2>2, <2>3
<1>2. ASSUME NEW t \in Threads, IngestStep(t)
      PROVE  resource'[resource[c].parent].status = "filed"
  <2>1. t = "pull" /\ ingest["pull"].pc = "attach" /\ resource[c].parent = pull.parent
    BY <1>1, <1>2 DEF InStep
  <2>2. /\ pull.parent \in Rows /\ resource[pull.parent].status = "filed"
    BY <2>1 DEF Hangs, InStep, Fetching
  <2>3. QED
    BY <2>1, <2>2, TableGrows
<1>3. ASSUME NEW d \in Recordings, FileAway(d)
      PROVE  resource'[resource[c].parent].status = "filed"
  <2>1. GotFiled(c)
    <3>1. resource'[c] = resource[c] \/ GotFiled(c) \/ GotFailed(c)
      BY <1>0, <1>3, FileAwayMoves
    <3>2. QED
      BY <1>0, <3>1 DEF GotFailed
  <2>2. GotFiled(d) /\ resource[c].parent = d
    BY <1>0, <1>3, <2>1, FileAwayMoves DEF Unfiled
  <2>3. QED
    BY <2>2 DEF GotFiled
<1>4. Look => UNCHANGED resource
  BY <1>0, LookFact
<1>5. QED
  BY <1>0, <1>2, <1>3, <1>4
     DEF Next, PullStep, UploadStep, Threads, Drop, Age, PollBegin, Copy, CopyFails, Take, MoveTo,
         MoveToFails, PollEnd, UploadSave, KillPull, KillUpload, vars

LEMMA HangsStep ==
    ASSUME InboxAssumption, Typed, InStep, OfKind, Hangs, [Next]_vars
    PROVE  Hangs'
<1>0. TypeOK /\ "pull" \in Threads
  BY DEF Typed, Threads
<1> DEFINE Found(p, c) == c \in Recordings /\ c \in Rows' /\ resource'[c].inboxPath \in Matches[p]
           pa == pull.parent
           i == ingest["pull"]
<1>1. ASSUME pull'.pc \in Fetching
      PROVE  /\ pa' # None => pa' \in Rows'
             /\ pull'.cur \in Sidecars => Found(pull'.cur, pa')
  <2>1. CASE pull.pc \in Fetching /\ pull'.cur = pull.cur /\ pa' = pa
    <3>1. pa # None => pa \in Rows'
      BY <2>1, TableGrows DEF Hangs
    <3>2. pull.cur \in Sidecars => Found(pull.cur, pa)
      BY <2>1, FoundAgain DEF Hangs
    <3>3. QED
      BY <2>1, <3>1, <3>2
  <2>2. ASSUME NEW p \in Listed, NEW c \in IF p \in Sidecars THEN FindParent(p) ELSE {None},
               pull'.cur = p, pa' = c
        PROVE  /\ pa' # None => pa' \in Rows'
               /\ pull'.cur \in Sidecars => Found(pull'.cur, pa')
    <3>1. CASE p \in Sidecars
      BY <2>2, <3>1, FoundAgain
    <3>2. CASE p \notin Sidecars
      BY <2>2, <3>2
    <3>3. QED
      BY <3>1, <3>2
  <2>3. QED
    BY <1>1, <2>1, <2>2, FetchedMoves
<1>2. ASSUME i'.pc = "attach"
      PROVE  pa' # None /\ resource'[pa'].status = "filed"
  <2>1. pa' = i'.parent /\ (i.pc # "none" => i.parent = pa)
    <3>1. InStep'
      BY InStepStep
    <3>2. i'.pc # "none" => i'.parent = pa'
      BY <3>1 DEF InStep
    <3>3. QED
      BY <1>2, <3>2 DEF InStep
  <2>2. CASE i' = i
    <3>1. pa # None /\ resource[pa].status = "filed" /\ pa \in Rows
      BY <1>2, <2>2 DEF Hangs, InStep, Fetching
    <3>2. QED
      BY <1>2, <2>1, <2>2, <3>1, TableGrows
  <2>3. CASE Insert("pull")
    <3>1. i.pc = "insert" /\ Goes("pull", "attach") /\ i.parent # None
          /\ resource[i.parent].status = "filed"
      BY <1>0, <1>2, <2>3, EndsFact DEF Insert, Ended
    <3>2. i'.parent = pa /\ i.parent = pa /\ pa \in Rows
      BY <1>0, <2>1, <3>1, GoesFact DEF IngestIs, Hangs, InStep, Fetching
    <3>3. QED
      BY <2>1, <3>1, <3>2, TableGrows
  <2>4. CASE Attach("pull") \/ AttachFails("pull") \/ ChecksumFails("pull") \/ Duplicate("pull")
             \/ InsertRefused("pull")
    <3>1. Ended("pull")
      BY <1>0, <2>4, EndsFact
         DEF Attach, AttachFails, ChecksumFails, Duplicate, InsertRefused, Unexpected
    <3>2. QED
      BY <1>2, <3>1 DEF Ended
  <2>5. CASE Checksum("pull") \/ Take
    BY <1>0, <1>2, <2>5, ChecksumFact, TakeFact DEF IngestIs
  <2>6. QED
    BY <1>0, <1>2, <2>2, <2>3, <2>4, <2>5, IngestMoves DEF IngestStep
<1>3. ASSUME NEW c \in Companions, c \in Rows'
      PROVE  /\ resource'[c].inboxPath \in Sidecars
             /\ Found(resource'[c].inboxPath, resource'[c].parent)
             /\ resource'[c].status = "filed" => resource'[resource'[c].parent].status = "filed"
  <2>0. c \in Contents /\ c \notin Recordings /\ c \notin Corrupt
    BY DEF Contents, InboxAssumption
  <2>1. CASE c \in Rows
    <3>1. resource'[c].parent = resource[c].parent /\ resource'[c].inboxPath = resource[c].inboxPath
      BY <2>1, TableGrows
    <3>2. resource[c].inboxPath \in Sidecars /\ resource[c].parent \in FindParent(resource[c].inboxPath)
      BY <1>3, <2>1 DEF Hangs
    <3>3. Found(resource[c].inboxPath, resource[c].parent) /\ resource[c].parent \in Rows
      BY <3>2, FoundAgain
    <3>4. ASSUME resource'[c].status = "filed"
          PROVE  resource'[resource[c].parent].status = "filed"
      <4>1. CASE resource[c].status = "filed"
        <5>1. resource[resource[c].parent].status = "filed"
          BY <1>3, <2>1, <4>1 DEF Hangs
        <5>2. QED
          BY <3>3, <5>1, TableGrows
      <4>2. CASE resource[c].status # "filed"
        <5>1. Unfiled(c) /\ c \in Rows \cap Companions
          BY <2>1, <4>2, <1>3 DEF Unfiled
        <5>2. QED
          BY <3>4, <5>1, FiledWith
      <4>3. QED
        BY <4>1, <4>2
    <3>5. QED
      BY <3>1, <3>2, <3>3, <3>4
  <2>2. CASE c \notin Rows
    <3>1. PICK t \in Threads : Born(c, t)
      <4>1. resource[c] = None /\ resource'[c] # None
        BY <1>3, <2>0, <2>2 DEF Rows
      <4>2. QED
        BY <2>0, <2>2, <4>1, RowMoves DEF GotFiled, GotFailed, Unfiled
    <3>2. ingest[t].pc = "insert" /\ ingest[t].sum = c /\ resource'[c] = Made(t)
      BY <3>1 DEF Born, Insert
    <3>3. ingest[t].slot \in Sidecars /\ ingest[t].slot \in Paths
      BY <2>0, <3>2, SumThere DEF Kind, Paths
    <3>4. /\ t = "pull" /\ ingest[t].slot = pull.cur /\ ingest[t].parent = pull.parent
          /\ pull.pc = "ingest"
      BY <1>0, <3>2, <3>3, SlotFact DEF Threads
    <3>5. /\ resource'[c].inboxPath = pull.cur /\ resource'[c].parent = pull.parent
          /\ resource'[c].status # "filed"
      BY <1>0, <2>0, <3>2, <3>3, <3>4, MadeFact
    <3>6. pull.parent \in FindParent(pull.cur)
      BY <3>3, <3>4 DEF Hangs, Fetching
    <3>7. Found(pull.cur, pull.parent)
      BY <3>6, FoundAgain
    <3>8. QED
      BY <3>3, <3>4, <3>5, <3>7
  <2>3. QED
    BY <2>1, <2>2
<1>4. QED
  BY <1>1, <1>2, <1>3 DEF Hangs, FindParent

-----------------------------------------------------------------------------
(* The budget.                                                             *)

(* Of the files that came through the Inbox, if these are the loads of the *)
(* staging places and this is in quarantine.                               *)
FromInbox(q) == q \cap (Contents \X Paths)

BytesOf(load, q) == SumFunctionOnSet(load, Paths) + SumFunctionOnSet(Weight, FromInbox(q))

Loads == [Slots -> Nat]

Piles == {q \in SUBSET (Contents \X Slots) : IsFiniteSet(q)}

LEMMA PartsFact ==
    ASSUME InboxAssumption, NEW load \in Loads, NEW q \in Piles
    PROVE  /\ IsFiniteSet(Paths) /\ Paths \subseteq Slots /\ \A s \in Slots : load[s] \in Nat
           /\ FromInbox(q) \subseteq q /\ IsFiniteSet(FromInbox(q))
           /\ \A d \in FromInbox(q) : d \in Contents \X Slots /\ Weight[d] \in Nat
           /\ SumFunctionOnSet(load, Paths) \in Nat
           /\ SumFunctionOnSet(Weight, FromInbox(q)) \in Nat
           /\ BytesOf(load, q) \in Nat
<1>1. IsFiniteSet(Paths) /\ Paths \subseteq Slots
  <2>1. IsFiniteSet(Slots) /\ Paths \subseteq Slots
    BY DEF InboxAssumption, Slots
  <2>2. QED
    BY <2>1, FS_Subset
<1>2. \A s \in Slots : load[s] \in Nat
  BY DEF Loads
<1>3. FromInbox(q) \subseteq q /\ IsFiniteSet(q) /\ q \subseteq Contents \X Slots
  BY DEF FromInbox, Piles
<1>4. IsFiniteSet(FromInbox(q))
  BY <1>3, FS_Subset
<1>5. \A d \in FromInbox(q) : d \in Contents \X Slots /\ Weight[d] \in Nat
  BY <1>3 DEF Weight, InboxAssumption
<1>6. SumFunctionOnSet(load, Paths) \in Nat
  <2>1. \A s \in Paths : load[s] \in Nat
    BY <1>1, <1>2
  <2>2. QED
    BY <1>1, <2>1, SumIsNat
<1>7. SumFunctionOnSet(Weight, FromInbox(q)) \in Nat
  BY <1>4, <1>5, SumIsNat
<1>8. QED
  BY <1>1, <1>2, <1>3, <1>4, <1>5, <1>6, <1>7 DEF BytesOf

LEMMA BytesNoMore ==
    ASSUME InboxAssumption, NEW v \in Loads, NEW w \in Loads, NEW q \in Piles, NEW r \in Piles,
           \A s \in Paths : v[s] <= w[s], FromInbox(q) = FromInbox(r)
    PROVE  BytesOf(v, q) <= BytesOf(w, r)
<1>1. SumFunctionOnSet(v, Paths) <= SumFunctionOnSet(w, Paths)
  BY PartsFact, SumNoMore
<1>2. QED
  BY <1>1, PartsFact DEF BytesOf

(* One staging place against all others.                                   *)
LEMMA BytesSplit ==
    ASSUME InboxAssumption, NEW v \in Loads, NEW w \in Loads, NEW p \in Paths,
           \A s \in Paths \ {p} : v[s] = w[s]
    PROVE  SumFunctionOnSet(v, Paths) <= v[p] + (SumFunctionOnSet(w, Paths) - w[p])
<1> DEFINE R == Paths \ {p}
<1>1. IsFiniteSet(Paths) /\ \A s \in Paths : v[s] \in Nat /\ w[s] \in Nat
  <2>1. {} \in Piles
    BY FS_EmptySet DEF Piles
  <2>2. QED
    BY <2>1, PartsFact
<1>2. /\ SumFunctionOnSet(v, Paths) = v[p] + SumFunctionOnSet(v, R)
      /\ SumFunctionOnSet(w, Paths) = w[p] + SumFunctionOnSet(w, R)
  BY <1>1, SumWithout
<1>3. IsFiniteSet(R) /\ \A s \in R : v[s] \in Nat /\ w[s] \in Nat /\ v[s] <= w[s]
  BY <1>1, FS_Subset
<1> HIDE DEF R
<1>4. SumFunctionOnSet(v, R) <= SumFunctionOnSet(w, R)
  BY <1>3, SumNoMore
<1>5. SumFunctionOnSet(v, R) \in Nat /\ SumFunctionOnSet(w, R) \in Nat
  BY <1>3, SumIsNat
<1>6. v[p] \in Nat /\ w[p] \in Nat
  BY <1>1
<1>7. QED
  BY <1>2, <1>4, <1>5, <1>6

LEMMA BytesAdded ==
    ASSUME InboxAssumption, NEW v \in Loads, NEW w \in Loads, NEW q \in Piles, NEW p \in Paths,
           \A s \in Paths \ {p} : v[s] = w[s]
    PROVE  BytesOf(v, q) <= BytesOf(w, q) + v[p]
<1>1. SumFunctionOnSet(v, Paths) <= v[p] + (SumFunctionOnSet(w, Paths) - w[p])
  BY BytesSplit
<1>2. /\ SumFunctionOnSet(v, Paths) \in Nat /\ SumFunctionOnSet(w, Paths) \in Nat
      /\ SumFunctionOnSet(Weight, FromInbox(q)) \in Nat /\ v[p] \in Nat /\ w[p] \in Nat
  BY PartsFact
<1>3. QED
  BY <1>1, <1>2 DEF BytesOf

LEMMA OneMore ==
    ASSUME NEW S, NEW T, NEW x, T = S \cup {x}
    PROVE  x \in T /\ (x \in S => T = S) /\ (x \notin S => S = T \ {x})
  OBVIOUS

LEMMA NotLess ==
    ASSUME NEW m \in Nat, NEW n \in Nat, NEW k \in Nat, m = n \/ m = k + n
    PROVE  m <= n + k
  OBVIOUS

(* A duplicate goes from its staging place to quarantine.                  *)
LEMMA BytesMoved ==
    ASSUME InboxAssumption, NEW v \in Loads, NEW w \in Loads, NEW q \in Piles, NEW r \in Piles,
           NEW p \in Paths, NEW c \in Contents,
           \A s \in Paths \ {p} : v[s] = w[s],
           v[p] = 0, w[p] = Size[c], q = r \cup {<<c, p>>}
    PROVE  BytesOf(v, q) <= BytesOf(w, r)
<1> DEFINE d == <<c, p>>
<1>1. SumFunctionOnSet(v, Paths) <= v[p] + (SumFunctionOnSet(w, Paths) - w[p])
  BY BytesSplit
<1>2. /\ SumFunctionOnSet(v, Paths) \in Nat /\ SumFunctionOnSet(w, Paths) \in Nat
      /\ SumFunctionOnSet(Weight, FromInbox(q)) \in Nat
      /\ SumFunctionOnSet(Weight, FromInbox(r)) \in Nat /\ w[p] \in Nat
  BY PartsFact
<1>3. d \in Contents \X Paths /\ d[1] = c /\ q = r \cup {d}
  OBVIOUS
<1>4. d \in Contents \X Slots
  BY DEF Slots
<1> HIDE DEF d
<1>5. Weight[d] = Size[c]
  BY <1>3, <1>4 DEF Weight
<1>6. FromInbox(q) = FromInbox(r) \cup {d}
  BY <1>3 DEF FromInbox
<1>7. SumFunctionOnSet(Weight, FromInbox(q)) <= SumFunctionOnSet(Weight, FromInbox(r)) + w[p]
  <2> DEFINE Q == FromInbox(q)
             R == FromInbox(r)
  <2>1. IsFiniteSet(Q) /\ \A x \in Q : Weight[x] \in Nat
    BY PartsFact
  <2>2. /\ SumFunctionOnSet(Weight, Q) \in Nat /\ SumFunctionOnSet(Weight, R) \in Nat
        /\ w[p] \in Nat /\ w[p] = Weight[d]
    BY <1>2, <1>5
  <2>3. Q = R \cup {d}
    BY <1>6
  <2> HIDE DEF Q, R
  <2>4. d \in Q /\ (d \in R => Q = R) /\ (d \notin R => R = Q \ {d})
    BY <2>3, OneMore
  <2>5. SumFunctionOnSet(Weight, Q) = Weight[d] + SumFunctionOnSet(Weight, Q \ {d})
    BY <2>1, <2>4, SumWithout
  <2>6. \/ SumFunctionOnSet(Weight, Q) = SumFunctionOnSet(Weight, R)
        \/ SumFunctionOnSet(Weight, Q) = w[p] + SumFunctionOnSet(Weight, R)
    BY <2>2, <2>4, <2>5, Zenon
  <2>7. SumFunctionOnSet(Weight, Q) <= SumFunctionOnSet(Weight, R) + w[p]
    BY <2>2, <2>6, NotLess, Zenon
  <2>8. QED
    BY <2>7 DEF Q, R
<1>8. QED
  BY <1>1, <1>2, <1>7 DEF BytesOf

LEMMA InboxBytesAre ==
    ASSUME InboxAssumption, Typed, Typed'
    PROVE  /\ Load \in Loads /\ Load' \in Loads
           /\ quarantine \in Piles /\ quarantine' \in Piles
           /\ InboxBytes = BytesOf(Load, quarantine) /\ InboxBytes' = BytesOf(Load', quarantine')
           /\ InboxBytes \in Nat /\ InboxBytes' \in Nat
           /\ \A s \in Slots : /\ Load[s] = IF stage[s] = None THEN 0 ELSE Size[stage[s]]
                               /\ Load'[s] = IF stage'[s] = None THEN 0 ELSE Size[stage'[s]]
           /\ \A s \in Slots : Load[s] \in Nat /\ Load'[s] \in Nat
<1>1. Load \in Loads /\ Load' \in Loads
  BY DEF Typed, TypeOK, File, Load, Loads, InboxAssumption
<1>2. quarantine \in Piles /\ quarantine' \in Piles
  BY DEF Typed, TypeOK, Piles
<1>3. InboxBytes = BytesOf(Load, quarantine) /\ InboxBytes' = BytesOf(Load', quarantine')
  BY DEF InboxBytes, BytesOf, FromInbox
<1>4. BytesOf(Load, quarantine) \in Nat
  BY <1>1, <1>2, PartsFact
<1>5. BytesOf(Load', quarantine') \in Nat
  <2> DEFINE v == Load'
             q == quarantine'
  <2>1. v \in Loads /\ q \in Piles
    BY <1>1, <1>2
  <2> HIDE DEF v, q
  <2>2. BytesOf(v, q) \in Nat
    BY <2>1, PartsFact
  <2>3. QED
    BY <2>2 DEF v, q
<1>6. \A s \in Slots : /\ Load[s] = IF stage[s] = None THEN 0 ELSE Size[stage[s]]
                      /\ Load'[s] = IF stage'[s] = None THEN 0 ELSE Size[stage'[s]]
  BY DEF Load
<1>7. \A s \in Slots : Load[s] \in Nat /\ Load'[s] \in Nat
  BY <1>1 DEF Loads
<1>8. QED
  BY <1>1, <1>2, <1>3, <1>4, <1>5, <1>6, <1>7

LEMMA QuarantineMoves ==
    ASSUME InboxAssumption, Typed, InStep, [Next]_vars
    PROVE  UNCHANGED quarantine \/ \E t \in Threads : Duplicate(t)
<1> USE DEF drive, table, disk, bounds, history
<1>1. ASSUME NEW t \in Threads, IngestStep(t)
      PROVE  UNCHANGED quarantine \/ Duplicate(t)
  BY <1>1 DEF IngestStep, ChecksumFails, Checksum, Insert, InsertRefused, Attach, AttachFails
<1>2. Look => UNCHANGED quarantine
  BY LookFact DEF Typed
<1>3. QED
  BY <1>1, <1>2 DEF Next, PullStep, UploadStep, Threads, Drop, Age, PollBegin, Copy, CopyFails,
     Take, MoveTo, MoveToFails, PollEnd, UploadSave, FileAway, KillPull, KillUpload, vars

(* Only a copy adds to what the Inbox's files take.                        *)
LEMMA OnlyCopyAdds ==
    ASSUME InboxAssumption, Typed, InStep, [Next]_vars, Typed', ~Copy
    PROVE  InboxBytes' <= InboxBytes
<1> DEFINE v == Load'
           q == quarantine'
<1>0. TypeOK /\ \A p \in Paths : p \in Slots /\ p \notin Names
  BY DEF Typed, Slots, InboxAssumption
<1>1. /\ Load \in Loads /\ v \in Loads /\ quarantine \in Piles /\ q \in Piles
      /\ InboxBytes = BytesOf(Load, quarantine) /\ InboxBytes' = BytesOf(v, q)
      /\ \A s \in Slots : Load[s] \in Nat /\ v[s] \in Nat
  BY InboxBytesAre
<1>2. ASSUME NEW p \in Paths
      PROVE  /\ stage'[p] = stage[p] => v[p] = Load[p]
             /\ stage'[p] = None => v[p] = 0
             /\ stage[p] \in Contents => Load[p] = Size[stage[p]]
  BY <1>0, InboxBytesAre DEF InboxAssumption
<1>3. ASSUME NEW p \in Paths, ~ \E t \in Threads : Duplicate(t) /\ p = ingest[t].slot
      PROVE  v[p] <= Load[p]
  <2>1. stage'[p] = stage[p] \/ stage'[p] = None
    BY <1>0, <1>3, StageMoves DEF Left
  <2>2. QED
    BY <1>0, <1>1, <1>2, <2>1
<1> HIDE DEF v, q
<1>4. CASE \A t \in Threads : Duplicate(t) => ingest[t].slot \notin Paths
  <2>1. \A p \in Paths : v[p] <= Load[p]
    BY <1>3, <1>4
  <2>2. FromInbox(q) = FromInbox(quarantine)
    <3>1. CASE UNCHANGED quarantine
      BY <3>1 DEF q
    <3>2. ASSUME NEW t \in Threads, Duplicate(t)
          PROVE  FromInbox(q) = FromInbox(quarantine)
      <4>1. q = quarantine \cup {<<stage[ingest[t].slot], ingest[t].slot>>}
        BY <3>2 DEF Duplicate, q
      <4>2. ingest[t].slot \notin Paths
        BY <1>4, <3>2
      <4>3. QED
        BY <4>1, <4>2 DEF FromInbox
    <3>3. QED
      BY <3>1, <3>2, QuarantineMoves
  <2>3. QED
    BY <1>1, <2>1, <2>2, BytesNoMore
<1>5. ASSUME NEW t \in Threads, Duplicate(t), ingest[t].slot \in Paths
      PROVE  InboxBytes' <= InboxBytes
  <2> DEFINE p == ingest[t].slot
             c == stage[p]
  <2>1. /\ p \in Paths /\ c \in Contents /\ q = quarantine \cup {<<c, p>>}
        /\ stage' = [stage EXCEPT ![p] = None]
    BY <1>5 DEF Duplicate, Rows, q
  <2>2. stage'[p] = None /\ \A s \in Paths \ {p} : stage'[s] = stage[s]
    BY <1>0, <2>1 DEF TypeOK
  <2>3. v[p] = 0 /\ Load[p] = Size[c] /\ \A s \in Paths \ {p} : v[s] = Load[s]
    BY <1>2, <2>1, <2>2
  <2> HIDE DEF p, c
  <2>4. BytesOf(v, q) <= BytesOf(Load, quarantine)
    BY <1>1, <2>1, <2>3, BytesMoved
  <2>5. QED
    BY <1>1, <2>4
<1>6. QED
  BY <1>4, <1>5

LEMMA CopyAdds ==
    ASSUME InboxAssumption, Typed, InStep, Copy, Typed'
    PROVE  InboxBytes' <= InboxBytes + Size[inbox[pull.cur]]
<1> DEFINE v == Load'
           p == pull.cur
<1>0. TypeOK /\ p \in Paths /\ p \in Slots /\ inbox[p] # None /\ Paths \subseteq Slots
  BY DEF Typed, Copy, InStep, Fetching, Listed, Slots
<1>1. /\ Load \in Loads /\ v \in Loads /\ quarantine \in Piles
      /\ InboxBytes = BytesOf(Load, quarantine) /\ InboxBytes' = BytesOf(v, quarantine)
  <2>1. quarantine' = quarantine
    BY DEF Copy
  <2>2. QED
    BY <2>1, InboxBytesAre
<1>2. stage'[p] = inbox[p] /\ \A s \in Paths \ {p} : stage'[s] = stage[s]
  BY <1>0 DEF Copy, StageDir, TypeOK
<1>3. v[p] = Size[inbox[p]] /\ \A s \in Paths \ {p} : v[s] = Load[s]
  BY <1>0, <1>2, InboxBytesAre
<1> HIDE DEF v, p
<1>4. BytesOf(v, quarantine) <= BytesOf(Load, quarantine) + v[p]
  BY <1>0, <1>1, <1>3, BytesAdded
<1>5. QED
  BY <1>1, <1>3, <1>4 DEF p

LEMMA BudgetedStep ==
    ASSUME InboxAssumption, Typed, InStep, Budgeted, Typed', [Next]_vars
    PROVE  Budgeted'
<1> DEFINE p == pull.cur
           list == pull.list
           staged == pull.staged
           next == staged + Size[list[p]]
<1>0. TypeOK
  BY DEF Typed
<1>1. SUFFICES ASSUME ~Reuse
               PROVE  InboxBytes' <= Budget /\ Counted'
  BY DEF Budgeted
<1>2. InboxBytes <= Budget /\ Counted
  BY <1>1 DEF Budgeted
<1>3. /\ InboxBytes \in Nat /\ InboxBytes' \in Nat /\ Budget \in Nat /\ staged \in Nat
      /\ list \in [Paths -> File] /\ inbox \in [Paths -> File]
  BY <1>0, InboxBytesAre DEF InboxAssumption, TypeOK, Pull
<1>4. pull.pc \in Fetching => p \in Listed /\ p \in Paths /\ Size[list[p]] \in Nat /\ next \in Nat
  BY <1>3 DEF InStep, Listed, File, InboxAssumption
<1>5. ~Copy => InboxBytes' <= InboxBytes
  BY OnlyCopyAdds
<1>6. CASE Copy
  <2>1. /\ pull.pc = "copy" /\ PullIs("copied", p, pull.parent, list, staged, pull.n)
        /\ UNCHANGED inbox
    BY <1>0, <1>6, CopyFact DEF Copy, drive
  <2>2. InboxBytes <= staged /\ next <= Budget /\ inbox[p] = list[p] /\ Size[list[p]] \in Nat
    BY <1>2, <1>4, <2>1 DEF Counted, Fetching
  <2>3. InboxBytes' <= InboxBytes + Size[list[p]]
    BY <1>6, <2>2, CopyAdds
  <2>4. InboxBytes' <= next /\ InboxBytes' <= Budget
    BY <1>3, <2>2, <2>3
  <2>5. \A q \in Listed : inbox[q] = list[q]
    BY <1>2, <2>1 DEF Counted
  <2>6. QED
    BY <2>1, <2>2, <2>4, <2>5 DEF Counted, PullIs, Listed
<1>7. CASE ~Copy
  <2>1. InboxBytes' <= Budget
    BY <1>2, <1>3, <1>5, <1>7
  <2>2. CASE UNCHANGED pull
    <3>1. pull.pc # "idle" => \A q \in Listed : inbox'[q] = list[q]
      BY <1>1, <1>2, <2>2, StaysInInbox DEF Counted, Listed
    <3>2. pull.pc \in {"scan", "copy", "ingest"} => InboxBytes' <= staged
      BY <1>2, <1>3, <1>5, <1>7 DEF Counted
    <3>3. pull.pc = "copied" => InboxBytes' <= next
      BY <1>2, <1>3, <1>4, <1>5, <1>7 DEF Counted, Fetching
    <3>4. pull.pc \in {"copy", "copied"} => next <= Budget
      BY <1>2 DEF Counted
    <3>5. QED
      BY <2>1, <2>2, <3>1, <3>2, <3>3, <3>4 DEF Counted, Listed
  <2>3. CASE PollBegin
    <3>1. PullIs("scan", None, None, inbox, StagedBytes, 0) /\ UNCHANGED inbox
      BY <1>0, <2>3, BeginFact DEF PollBegin, drive
    <3>2. InboxBytes <= StagedBytes /\ StagedBytes \in Nat
      BY BytesFact
    <3>3. InboxBytes' <= StagedBytes
      BY <1>3, <1>5, <1>7, <3>2
    <3>4. QED
      BY <2>1, <3>1, <3>3 DEF Counted, PullIs, Listed
  <2>4. CASE Look
    <3>1. pull.pc = "scan" /\ UNCHANGED inbox
      BY <1>0, <2>4, LookFact DEF drive
    <3>2. InboxBytes' <= staged /\ \A q \in Listed : inbox[q] = list[q]
      BY <1>2, <1>3, <1>5, <1>7, <3>1 DEF Counted
    <3>3. ASSUME NEW q \in Listed, Passed(q)
          PROVE  Counted'
      BY <1>3, <3>1, <3>2, <3>3 DEF Counted, Passed, PullIs, Listed
    <3>4. ASSUME NEW q \in Listed, NEW c, Admitted(q, c)
          PROVE  Counted'
      BY <3>1, <3>2, <3>4 DEF Counted, Admitted, PullIs, Listed
    <3>5. QED
      BY <1>0, <2>1, <2>4, <3>3, <3>4, LookFact
  <2>5. CASE Take
    <3>1. /\ pull.pc = "copied" /\ UNCHANGED inbox
          /\ PullIs("ingest", p, pull.parent, list, next, pull.n + 1)
      BY <1>0, <2>5, TakeFact DEF Take, drive
    <3>2. InboxBytes' <= next /\ \A q \in Listed : inbox[q] = list[q]
      BY <1>2, <1>3, <1>4, <1>5, <1>7, <3>1 DEF Counted, Fetching
    <3>3. QED
      BY <2>1, <3>1, <3>2 DEF Counted, PullIs, Listed
  <2>6. CASE (CopyFails \/ MoveTo \/ MoveToFails) /\ Resumed(p)
    <3>1. pull.pc \in {"copy", "ingest"} /\ pull.pc \in Fetching
      BY <2>6 DEF CopyFails, MoveTo, MoveToFails, Fetching
    <3>2. InboxBytes' <= staged /\ \A q \in Listed : inbox[q] = list[q]
      BY <1>2, <1>3, <1>5, <1>7, <3>1 DEF Counted
    <3>3. \A q \in Listed \ {p} : inbox'[q] = list[q]
      <4>1. \A q \in Paths : \A c : ~ Drop(q, c)
        BY <2>6, <3>1 DEF Drop, Resumed, PullIs, Fetching
      <4>2. QED
        BY <3>2, <4>1, DriveMoves DEF Listed
    <3>4. PullIs("scan", None, None, [list EXCEPT ![p] = None], staged, pull.n)
      BY <2>6 DEF Resumed
    <3>5. \A q \in Listed' : q \in Listed \ {p} /\ pull'.list[q] = list[q]
      BY <1>3, <3>4 DEF PullIs, Listed
    <3>6. QED
      BY <2>1, <3>2, <3>3, <3>4, <3>5 DEF Counted, PullIs
  <2>7. CASE pull'.pc = "idle"
    BY <2>1, <2>7 DEF Counted
  <2>8. QED
    BY <1>7, <2>2, <2>3, <2>4, <2>5, <2>6, <2>7, PullMoves
<1>8. QED
  BY <1>6, <1>7

-----------------------------------------------------------------------------
LEMMA InitIInv ==
    ASSUME InboxAssumption, Init
    PROVE  IInv
<1>1. TypeOK /\ IsFiniteSet(quarantine) /\ quarantine = {}
  <2>1. /\ 0 \in 0 .. MaxDrops /\ 0 \in 0 .. MaxFaults
        /\ Empty \in [Paths -> File] /\ NoPull \in Pull /\ NoIngest \in Ingest
    BY EmptyFacts DEF InboxAssumption
  <2>2. QED
    BY <2>1, FS_EmptySet DEF Init, TypeOK, File, Empty
<1>2. pull.pc = "idle" /\ \A t \in Threads : ingest[t].pc = "none"
  BY EmptyFacts DEF Init
<1>3. "pull" \in Threads /\ "upload" \in Threads
  BY DEF Threads
<1>4. Rows = {}
  BY DEF Init, Rows
<1>5. InStep
  BY <1>2, <1>3 DEF InStep, Fetching
<1>6. OfKind
  BY <1>2 DEF OfKind, Init, Empty, Paths
<1>7. Named /\ Fresh /\ Kept /\ Arrived /\ Hangs
  BY <1>2, <1>3, <1>4 DEF Named, Unfiled, Fresh, Kept, Arrived, Hangs, Fetching
<1>8. Accounted
  BY DEF Accounted, Init, Empty
<1>9. InboxBytes <= Budget
  <2>1. InboxBytes = 0
    <3> DEFINE load == Load
    <3>1. \A s \in Paths : load[s] = 0
      BY DEF Load, Init, Slots
    <3>2. SumFunctionOnSet(load, Paths) = 0
      <4>1. IsFiniteSet(Paths)
        BY <1>1, BytesFact DEF Typed
      <4> HIDE DEF load
      <4>2. QED
        BY <3>1, <4>1, SumOfZeroes
    <3>3. quarantine \cap (Contents \X Paths) = {}
      BY <1>1
    <3>4. SumFunctionOnSet(Weight, quarantine \cap (Contents \X Paths)) = 0
      BY <3>3, SumOfNone
    <3>5. QED
      BY <3>2, <3>4 DEF InboxBytes
  <2>2. QED
    BY <2>1 DEF InboxAssumption
<1>10. QED
  BY <1>1, <1>2, <1>5, <1>6, <1>7, <1>8, <1>9 DEF IInv, Typed, Budgeted, Counted

LEMMA NextIInv ==
    ASSUME InboxAssumption, IInv, [Next]_vars
    PROVE  IInv'
<1>1. Typed /\ InStep /\ OfKind /\ Named /\ Fresh /\ Kept /\ Arrived /\ Accounted /\ Hangs /\ Budgeted
  BY DEF IInv
<1>2. Typed'
  BY <1>1, TypedStep
<1>3. InStep' /\ OfKind' /\ Named' /\ Fresh'
  BY <1>1, InStepStep, OfKindStep, NamedStep, FreshStep
<1>4. Kept' /\ Arrived' /\ Accounted'
  BY <1>1, KeptStep, ArrivedStep, AccountedStep
<1>5. Hangs' /\ Budgeted'
  BY <1>1, <1>2, HangsStep, BudgetedStep
<1>6. QED
  BY <1>2, <1>3, <1>4, <1>5 DEF IInv

LEMMA Invariant ==
    ASSUME InboxAssumption
    PROVE  Spec => []IInv
<1>1. Init => IInv
  BY InitIInv
<1>2. IInv /\ [Next]_vars => IInv'
  BY NextIInv
<1>3. QED
  BY <1>1, <1>2, PTL DEF Spec

(* Every variable keeps its type: the fields of the pull, its counters,    *)
(* both ingests and the rows.                                              *)
THEOREM InboxTypeCorrect ==
    ASSUME InboxAssumption
    PROVE  Spec => []TypeOK
<1>1. IInv => TypeOK
  BY DEF IInv, Typed
<1>2. QED
  BY <1>1, Invariant, PTL

(* A file that a row names in staging is there, byte for byte, unless its  *)
(* path was pulled or its name used again: no copy, no duplicate, no web   *)
(* upload and no filing of another row takes it away.                      *)
THEOREM StagedFilesKept ==
    ASSUME InboxAssumption
    PROVE  Spec => []Kept
<1>1. IInv => Kept
  BY DEF IInv
<1>2. QED
  BY <1>1, Invariant, PTL

(* What the pull moved to _processed has a row, or its place is named by a *)
(* failed one, whatever was killed and whichever call failed.              *)
THEOREM ArrivalsAccounted ==
    ASSUME InboxAssumption
    PROVE  Spec => []Accounted
<1>1. IInv => Accounted
  BY DEF IInv
<1>2. QED
  BY <1>1, Invariant, PTL

(* A sidecar hangs on a recording its name matches, and is not filed       *)
(* before it.                                                              *)
THEOREM SidecarsFollow ==
    ASSUME InboxAssumption
    PROVE  Spec => []SidecarFollows
<1>1. IInv => SidecarFollows
  BY DEF IInv, Hangs, SidecarFollows, FindParent
<1>2. QED
  BY <1>1, Invariant, PTL

(* Over any number of runs, kills and failed moves, the Inbox's files in   *)
(* staging and quarantine take no more than the budget.                    *)
THEOREM InboxWithinBudget ==
    ASSUME InboxAssumption
    PROVE  Spec => []WithinBudget
<1>1. IInv => WithinBudget
  BY DEF IInv, Budgeted, WithinBudget
<1>2. QED
  BY <1>1, Invariant, PTL
=============================================================================
