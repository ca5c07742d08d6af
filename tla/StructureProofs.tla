--------------------------- MODULE StructureProofs ---------------------------
(***************************************************************************)
(* Safety of Structure, for any files, sessions, projects, categories and  *)
(* names, and any number of requests at once: the types, that files agree  *)
(* with their sessions, that originals form no loop, that no two sessions  *)
(* share a folder, and that a category merged away stays empty.            *)
(***************************************************************************)
EXTENDS Structure, TLAPS

FileWrites ==
    [session : Sessions \cup {None}] \cup [project : Projects \cup {None}]
        \cup [session : Sessions \cup {None}, project : Projects \cup {None}]
        \cup [parent : Resources \cup {None}] \cup [category : Categories \cup {None}]

SessionWrites ==
    [name : Names] \cup [home : Projects \cup {None}]
        \cup [name : Names, home : Projects \cup {None}]

(* What a PATCH of a file makes of what it is asked.                       *)
Resolved(r, d) == IF DOMAIN d \cap {"session", "project"} # {} THEN Placed(r, d) ELSE d

(* What request h is on, and what it writes.                               *)
ShapeOf(h) ==
    /\ h.kind = "idle" => h = Idle
    /\ h.kind = "file" => h.on \in Resources /\ h.set \in FileWrites
    /\ h.kind = "create" => h.on \in Sessions /\ h.set \in [name : Names, home : Projects \cup {None}]
    /\ h.kind = "session" => h.on \in Sessions /\ h.set \in SessionWrites
    /\ h.kind = "delete" => h.on \in Sessions
    /\ h.kind \in {"archive", "reopen", "merge", "remerge"} => h.on \in Categories
    /\ h.kind \in {"merge", "remerge"} => h.set \in [into : Categories]

Shape == \A t \in Threads : ShapeOf(thread[t])

(* Unless another has committed since, what request h has read is there    *)
(* still, and so its checks would pass again.                              *)
Sees(h) ==
    /\ h.kind = "file" =>
           \E d \in Patches : Allowed(h.on, d) /\ h.set = Changed(Resolved(h.on, d), row[h.on])
    /\ h.kind = "create" => h.on \notin Existing /\ Free(h.set.name, h.set.home, {})
    /\ h.kind = "session" =>
           \E n \in Names, p \in Projects \cup {None} :
               /\ Free(n, p, {h.on})
               /\ h.set = Changed([name |-> n, home |-> p],
                                  [name |-> name[h.on], home |-> home[h.on]])
    /\ h.kind \in {"merge", "remerge"} => h.set.into \notin archived \cup {h.on}

Current == \A t \in Threads : ~thread[t].late => Sees(thread[t])

MergedAreArchived == emptied \subseteq archived

IInv ==
    /\ TypeOK /\ Shape /\ Current
    /\ Agreement /\ NoDangling /\ NoLoops /\ FoldersDistinct
    /\ MergedAreArchived /\ MergedStaysEmpty

-----------------------------------------------------------------------------
(* Columns: what differs, and what is written.                             *)
LEMMA ConstantsFact ==
    ASSUME StructureAssumption
    PROVE  /\ \A x : x \in Resources => x \notin Sessions /\ x # None
           /\ \A x : x \in Sessions => x \notin Resources /\ x # None
           /\ None \notin Categories /\ None \notin Names
  BY DEF StructureAssumption

LEMMA IdleFact ==
    /\ Idle \in Thread /\ Idle.kind = "idle" /\ ShapeOf(Idle) /\ Sees(Idle)
  BY DEF Idle, Thread, Writes, ShapeOf, Sees

(* The columns of a file are written each for itself.                      *)
LEMMA WrittenFact ==
    ASSUME NEW w \in FileWrites, NEW old \in Row
    PROVE  /\ Written(w, old) \in Row
           /\ Written(w, old).session =
                  IF "session" \in DOMAIN w THEN w.session ELSE old.session
           /\ Written(w, old).project =
                  IF "project" \in DOMAIN w THEN w.project ELSE old.project
           /\ Written(w, old).parent =
                  IF "parent" \in DOMAIN w THEN w.parent ELSE old.parent
           /\ Written(w, old).category =
                  IF "category" \in DOMAIN w THEN w.category ELSE old.category
<1>1. DOMAIN old = {"session", "project", "parent", "category"}
    BY DEF Row
<1>2. CASE w \in [session : Sessions \cup {None}]
    BY <1>1, <1>2 DEF Written, Row
<1>3. CASE w \in [project : Projects \cup {None}]
    BY <1>1, <1>3 DEF Written, Row
<1>4. CASE w \in [session : Sessions \cup {None}, project : Projects \cup {None}]
    BY <1>1, <1>4 DEF Written, Row
<1>5. CASE w \in [parent : Resources \cup {None}]
    BY <1>1, <1>5 DEF Written, Row
<1>6. CASE w \in [category : Categories \cup {None}]
    BY <1>1, <1>6 DEF Written, Row
<1> QED BY <1>2, <1>3, <1>4, <1>5, <1>6 DEF FileWrites

(* To write what differs is to write everything.                           *)
LEMMA ChangedFact ==
    ASSUME NEW w \in FileWrites, NEW old \in Row, DOMAIN Changed(w, old) # {}
    PROVE  /\ Changed(w, old) \in FileWrites
           /\ \A c \in DOMAIN Changed(w, old) :
                  c \in DOMAIN w /\ Changed(w, old)[c] = w[c] /\ w[c] # old[c]
           /\ \A c \in DOMAIN w \ DOMAIN Changed(w, old) : w[c] = old[c]
<1> DEFINE k == Changed(w, old)
<1>1. /\ \A c \in DOMAIN k : c \in DOMAIN w /\ k[c] = w[c] /\ w[c] # old[c]
      /\ \A c \in DOMAIN w \ DOMAIN k : w[c] = old[c]
      /\ k = [c \in DOMAIN k |-> w[c]]
    BY DEF Changed
<1>2. DOMAIN k # {} /\ DOMAIN k \subseteq DOMAIN w
    BY <1>1
<1> HIDE DEF k
<1>3. CASE w \in [session : Sessions \cup {None}]
    <2>1. DOMAIN k = {"session"}
        BY <1>2, <1>3
    <2>2. k = [session |-> w.session]
        BY <1>1, <2>1
    <2> QED BY <1>1, <1>3, <2>2 DEF k, FileWrites
<1>4. CASE w \in [project : Projects \cup {None}]
    <2>1. DOMAIN k = {"project"}
        BY <1>2, <1>4
    <2>2. k = [project |-> w.project]
        BY <1>1, <2>1
    <2> QED BY <1>1, <1>4, <2>2 DEF k, FileWrites
<1>5. CASE w \in [parent : Resources \cup {None}]
    <2>1. DOMAIN k = {"parent"}
        BY <1>2, <1>5
    <2>2. k = [parent |-> w.parent]
        BY <1>1, <2>1
    <2> QED BY <1>1, <1>5, <2>2 DEF k, FileWrites
<1>6. CASE w \in [category : Categories \cup {None}]
    <2>1. DOMAIN k = {"category"}
        BY <1>2, <1>6
    <2>2. k = [category |-> w.category]
        BY <1>1, <2>1
    <2> QED BY <1>1, <1>6, <2>2 DEF k, FileWrites
<1>7. CASE w \in [session : Sessions \cup {None}, project : Projects \cup {None}]
    <2>1. DOMAIN k \in {{"session"}, {"project"}, {"session", "project"}}
        BY <1>2, <1>7
    <2>2. CASE DOMAIN k = {"session"}
        <3>1. k = [session |-> w.session]
            BY <1>1, <2>2
        <3> QED BY <1>1, <1>7, <3>1 DEF k, FileWrites
    <2>3. CASE DOMAIN k = {"project"}
        <3>1. k = [project |-> w.project]
            BY <1>1, <2>3
        <3> QED BY <1>1, <1>7, <3>1 DEF k, FileWrites
    <2>4. CASE DOMAIN k = {"session", "project"}
        <3>1. k = [session |-> w.session, project |-> w.project]
            BY <1>1, <2>4
        <3> QED BY <1>1, <1>7, <3>1 DEF k, FileWrites
    <2> QED BY <2>1, <2>2, <2>3, <2>4
<1> QED BY <1>3, <1>4, <1>5, <1>6, <1>7 DEF FileWrites

(* The same of a session.                                                  *)
LEMMA WrittenSessionFact ==
    ASSUME NEW w \in SessionWrites, NEW n, NEW p
    PROVE  LET new == Written(w, [name |-> n, home |-> p])
           IN  /\ new.name = IF "name" \in DOMAIN w THEN w.name ELSE n
               /\ new.home = IF "home" \in DOMAIN w THEN w.home ELSE p
               /\ "name" \in DOMAIN w => w.name \in Names
               /\ "home" \in DOMAIN w => w.home \in Projects \cup {None}
<1>1. CASE w \in [name : Names]
    BY <1>1 DEF Written
<1>2. CASE w \in [home : Projects \cup {None}]
    BY <1>2 DEF Written
<1>3. CASE w \in [name : Names, home : Projects \cup {None}]
    BY <1>3 DEF Written
<1> QED BY <1>1, <1>2, <1>3 DEF SessionWrites

LEMMA ChangedSessionFact ==
    ASSUME NEW n \in Names, NEW p \in Projects \cup {None}, NEW m, NEW q,
           DOMAIN Changed([name |-> n, home |-> p], [name |-> m, home |-> q]) # {}
    PROVE  LET k == Changed([name |-> n, home |-> p], [name |-> m, home |-> q])
           IN  /\ k \in SessionWrites
               /\ Written(k, [name |-> m, home |-> q]) = [name |-> n, home |-> p]
<1> DEFINE k == Changed([name |-> n, home |-> p], [name |-> m, home |-> q])
<1>1. /\ DOMAIN k \in {{"name"}, {"home"}, {"name", "home"}}
      /\ \A c \in DOMAIN k : k[c] = [name |-> n, home |-> p][c]
      /\ k = [c \in DOMAIN k |-> k[c]]
      /\ "name" \notin DOMAIN k => n = m
      /\ "home" \notin DOMAIN k => p = q
    BY DEF Changed
<1> HIDE DEF k
<1>2. CASE DOMAIN k = {"name"}
    <2>1. k = [name |-> n]
        BY <1>1, <1>2
    <2> QED BY <1>1, <1>2, <2>1 DEF k, SessionWrites, Written
<1>3. CASE DOMAIN k = {"home"}
    <2>1. k = [home |-> p]
        BY <1>1, <1>3
    <2> QED BY <1>1, <1>3, <2>1 DEF k, SessionWrites, Written
<1>4. CASE DOMAIN k = {"name", "home"}
    <2>1. k = [name |-> n, home |-> p]
        BY <1>1, <1>4
    <2> QED BY <1>1, <1>4, <2>1 DEF k, SessionWrites, Written
<1> QED BY <1>1, <1>2, <1>3, <1>4

LEMMA PlacedFact ==
    ASSUME TypeOK, NEW r \in Resources, NEW d \in Patches,
           DOMAIN d \cap {"session", "project"} # {}
    PROVE  /\ Placed(r, d) \in [session : Sessions \cup {None}, project : Projects \cup {None}]
           /\ Placed(r, d).session # None => Placed(r, d).project = home[Placed(r, d).session]
<1>1. row[r] \in Row /\ home \in [Sessions -> Projects \cup {None}]
    BY DEF TypeOK
<1>2. CASE d \in [session : Sessions \cup {None}]
    BY <1>1, <1>2 DEF Placed, Row
<1>3. CASE d \in [project : Projects \cup {None}]
    BY <1>1, <1>3 DEF Placed, Row
<1>4. CASE d \in [session : Sessions, project : Projects \cup {None}]
    BY <1>1, <1>4 DEF Placed, Row
<1>5. CASE d \in [parent : Resources \cup {None}] \cup [category : Categories \cup {None}]
    BY <1>5
<1> QED BY <1>2, <1>3, <1>4, <1>5 DEF Patches

LEMMA ResolvedFact ==
    ASSUME TypeOK, NEW r \in Resources, NEW d \in Patches
    PROVE  /\ Resolved(r, d) \in FileWrites
           /\ "session" \in DOMAIN Resolved(r, d) \/ "project" \in DOMAIN Resolved(r, d) =>
                  Resolved(r, d) = Placed(r, d) /\ DOMAIN d \cap {"session", "project"} # {}
           /\ "parent" \in DOMAIN Resolved(r, d) => Resolved(r, d) = d /\ DOMAIN d = {"parent"}
           /\ "category" \in DOMAIN Resolved(r, d) => Resolved(r, d) = d /\ DOMAIN d = {"category"}
<1>1. CASE DOMAIN d \cap {"session", "project"} # {}
    <2>1. Resolved(r, d) = Placed(r, d)
        BY <1>1 DEF Resolved
    <2>2. DOMAIN Placed(r, d) = {"session", "project"} /\ Placed(r, d) \in FileWrites
        BY <1>1, PlacedFact DEF FileWrites
    <2> QED BY <1>1, <2>1, <2>2
<1>2. CASE DOMAIN d \cap {"session", "project"} = {}
    <2>1. d \in [parent : Resources \cup {None}] \cup [category : Categories \cup {None}]
        <3>1. d \notin [session : Sessions \cup {None}] /\ d \notin [project : Projects \cup {None}]
            BY <1>2
        <3>2. d \notin [session : Sessions, project : Projects \cup {None}]
            BY <1>2
        <3> QED BY <3>1, <3>2 DEF Patches
    <2>2. Resolved(r, d) = d
        BY <1>2 DEF Resolved
    <2> QED BY <1>2, <2>1, <2>2 DEF FileWrites
<1> QED BY <1>1, <1>2

-----------------------------------------------------------------------------
(* What each commit comes to, for each row and each mark in raced.         *)
SameMarks(t, q, a, wrote) ==
    <<q, a>> \in raced' <=> IF wrote THEN thread[t].late ELSE <<q, a>> \in raced

Quiet == UNCHANGED <<row, name, home, archived, emptied, raced>>

FileWritten(t) ==
    LET r == thread[t].on
        w == thread[t].set
    IN  /\ thread[t].kind = "file" /\ UNCHANGED <<name, home, archived, emptied>>
        /\ "session" \in DOMAIN w => w.session \in Existing \cup {None}
        /\ row' \in [Resources -> Row]
        /\ \A q \in Resources \ {r} : row'[q] = row[q]
        /\ row'[r].session = IF "session" \in DOMAIN w THEN w.session ELSE row[r].session
        /\ row'[r].project = IF "project" \in DOMAIN w THEN w.project ELSE row[r].project
        /\ row'[r].parent = IF "parent" \in DOMAIN w THEN w.parent ELSE row[r].parent
        /\ row'[r].category = IF "category" \in DOMAIN w THEN w.category ELSE row[r].category
        /\ \A q \in (Resources \cup Sessions) \ {r}, a \in {"place", "parent", "category"} :
               <<q, a>> \in raced' <=> <<q, a>> \in raced
        /\ SameMarks(t, r, "place", "session" \in DOMAIN w \/ "project" \in DOMAIN w)
        /\ SameMarks(t, r, "parent", "parent" \in DOMAIN w)
        /\ SameMarks(t, r, "category", "category" \in DOMAIN w)

(* Session s gets name n and project p, and its files with it.             *)
SessionWritten(t) ==
    LET s == thread[t].on
        w == Written(thread[t].set, [name |-> name[s], home |-> home[s]])
    IN  /\ thread[t].kind \in {"create", "session"} /\ UNCHANGED <<archived, emptied>>
        /\ w.name \in Names /\ w.home \in Projects \cup {None}
        /\ thread[t].kind = "create" <=> s \notin Existing
        /\ name' = [name EXCEPT ![s] = w.name] /\ home' = [home EXCEPT ![s] = w.home]
        /\ row' \in [Resources -> Row]
        /\ \A q \in Resources :
               /\ row'[q].session = row[q].session
               /\ \/ row'[q].project = row[q].project
                  \/ row[q].session = s /\ row'[q].project = w.home
               /\ row[q].session = s /\ w.home # home[s] => row'[q].project = w.home
               /\ row'[q].parent = row[q].parent /\ row'[q].category = row[q].category
        /\ SameMarks(t, s, "place", TRUE)
        /\ \A q \in (Resources \cup Sessions), a \in {"place", "parent", "category"} :
               q # s \/ a # "place" => (<<q, a>> \in raced' <=> <<q, a>> \in raced)

SessionRemoved(t) ==
    LET s == thread[t].on
    IN  /\ thread[t].kind = "delete" /\ UNCHANGED <<archived, emptied>>
        /\ name' = [name EXCEPT ![s] = None] /\ home' = [home EXCEPT ![s] = None]
        /\ row' \in [Resources -> Row]
        /\ \A q \in Resources :
               /\ row'[q].session = IF row[q].session = s THEN None ELSE row[q].session
               /\ row'[q].project = row[q].project
               /\ row'[q].parent = row[q].parent /\ row'[q].category = row[q].category
        /\ SameMarks(t, s, "place", TRUE)
        /\ \A q \in (Resources \cup Sessions), a \in {"place", "parent", "category"} :
               q # s \/ a # "place" => (<<q, a>> \in raced' <=> <<q, a>> \in raced)

CategoryWritten(t) ==
    /\ thread[t].kind \in {"archive", "reopen"} /\ UNCHANGED <<row, name, home, raced>>
    /\ archived' \subseteq Categories /\ emptied' = emptied \cap archived'

(* The files of category c are given another, and c is archived, or was    *)
(* when the request read it.                                               *)
Merged(t) ==
    LET c == thread[t].on
        into == thread[t].set.into
    IN  /\ thread[t].kind \in {"merge", "remerge"} /\ UNCHANGED <<name, home>>
        /\ into \in Categories
        /\ archived' \in {archived, archived \cup {c}}
        /\ emptied' = (emptied \cup {c}) \cap archived'
        /\ row' \in [Resources -> Row]
        /\ \A q \in Resources :
               /\ row'[q].category = IF row[q].category = c THEN into ELSE row[q].category
               /\ row'[q].session = row[q].session /\ row'[q].project = row[q].project
               /\ row'[q].parent = row[q].parent
               /\ SameMarks(t, q, "category", row[q].category = c)
        /\ \A q \in (Resources \cup Sessions), a \in {"place", "parent"} :
               <<q, a>> \in raced' <=> <<q, a>> \in raced

LEMMA FileWrittenFact ==
    ASSUME StructureAssumption, TypeOK, Shape, NEW t \in Threads, WriteFile(t), ~Fail(t)
    PROVE  FileWritten(t)
<1> DEFINE r == thread[t].on
           w == thread[t].set
           W == {r} \X {Aspect(c) : c \in DOMAIN w}
<1>1. /\ row' = [row EXCEPT ![r] = Written(w, @)] /\ Commit(t, W)
      /\ "session" \in DOMAIN w => w.session \in Existing \cup {None}
      /\ UNCHANGED <<name, home, archived, emptied>>
    BY DEF WriteFile
<1>2. thread[t].kind = "file" /\ r \in Resources /\ w \in FileWrites
    BY DEF WriteFile, Shape, ShapeOf
<1>3. row \in [Resources -> Row]
    BY DEF TypeOK
<1>4. row' \in [Resources -> Row] /\ row'[r] = Written(w, row[r])
      /\ \A q \in Resources \ {r} : row'[q] = row[q]
    BY <1>1, <1>2, <1>3, WrittenFact
<1>5. raced' = (raced \ W) \cup (IF thread[t].late THEN W ELSE {})
    BY <1>1 DEF Commit
<1>6. \A q, a : <<q, a>> \in W <=> q = r /\ \E c \in DOMAIN w : a = Aspect(c)
    OBVIOUS
<1>7. DOMAIN w \in {{"session"}, {"project"}, {"session", "project"}, {"parent"}, {"category"}}
    BY <1>2 DEF FileWrites
<1>8. /\ (\E c \in DOMAIN w : "place" = Aspect(c)) <=> "session" \in DOMAIN w \/ "project" \in DOMAIN w
      /\ (\E c \in DOMAIN w : "parent" = Aspect(c)) <=> "parent" \in DOMAIN w
      /\ (\E c \in DOMAIN w : "category" = Aspect(c)) <=> "category" \in DOMAIN w
    BY <1>7 DEF Aspect
<1>9. \A q \in (Resources \cup Sessions) \ {r}, a \in {"place", "parent", "category"} :
          <<q, a>> \in raced' <=> <<q, a>> \in raced
    BY <1>5, <1>6
<1>10. /\ SameMarks(t, r, "place", "session" \in DOMAIN w \/ "project" \in DOMAIN w)
       /\ SameMarks(t, r, "parent", "parent" \in DOMAIN w)
       /\ SameMarks(t, r, "category", "category" \in DOMAIN w)
    <2>1. \A a : <<r, a>> \in raced' <=> IF <<r, a>> \in W THEN thread[t].late ELSE <<r, a>> \in raced
        BY <1>5
    <2>2. \A a : <<r, a>> \in W <=> \E c \in DOMAIN w : a = Aspect(c)
        BY <1>6
    <2> HIDE DEF W
    <2> QED BY <1>8, <2>1, <2>2 DEF SameMarks
<1> QED BY <1>1, <1>2, <1>3, <1>4, <1>9, <1>10, WrittenFact DEF FileWritten

LEMMA SessionWrittenFact ==
    ASSUME StructureAssumption, TypeOK, Shape, NEW t \in Threads, WriteSession(t), ~Fail(t)
    PROVE  SessionWritten(t)
<1> DEFINE s == thread[t].on
           w == Written(thread[t].set, [name |-> name[s], home |-> home[s]])
           moved == {r \in Resources : "home" \in DOMAIN thread[t].set /\ row[r].session = s}
<1>1. /\ thread[t].kind \in {"create", "session"}
      /\ ~(thread[t].kind = "create" <=> s \in Existing)
      /\ name' = [name EXCEPT ![s] = w.name] /\ home' = [home EXCEPT ![s] = w.home]
      /\ row' = [r \in Resources |->
                    IF r \in moved THEN [row[r] EXCEPT !.project = w.home] ELSE row[r]]
      /\ Commit(t, {<<s, "place">>}) /\ UNCHANGED <<archived, emptied>>
    BY DEF WriteSession
<1>2. s \in Sessions /\ thread[t].set \in SessionWrites
    BY <1>1 DEF Shape, ShapeOf, SessionWrites
<1>3. name[s] \in Names \cup {None} /\ home[s] \in Projects \cup {None}
    BY <1>2 DEF TypeOK
<1>4. /\ w.name = IF "name" \in DOMAIN thread[t].set THEN thread[t].set.name ELSE name[s]
      /\ w.home = IF "home" \in DOMAIN thread[t].set THEN thread[t].set.home ELSE home[s]
      /\ "name" \in DOMAIN thread[t].set => thread[t].set.name \in Names
      /\ "home" \in DOMAIN thread[t].set => thread[t].set.home \in Projects \cup {None}
    BY <1>2, WrittenSessionFact
<1>5. thread[t].kind = "create" => "name" \in DOMAIN thread[t].set
    BY DEF Shape, ShapeOf
<1>6. s \in Existing <=> name[s] # None
    BY <1>2 DEF Existing
<1>7. w.name \in Names /\ w.home \in Projects \cup {None}
    BY <1>1, <1>3, <1>4, <1>5, <1>6
<1> HIDE DEF w
<1>8. \A q \in Resources : row[q] \in Row
    BY DEF TypeOK
<1>9. \A q \in Resources :
          /\ row'[q] \in Row /\ row'[q].session = row[q].session
          /\ row'[q].project = IF q \in moved THEN w.home ELSE row[q].project
          /\ row'[q].parent = row[q].parent /\ row'[q].category = row[q].category
    BY <1>1, <1>7, <1>8 DEF Row
<1>10. \A q \in Resources :
           q \in moved <=> "home" \in DOMAIN thread[t].set /\ row[q].session = s
    OBVIOUS
<1> HIDE DEF moved
<1>11. row' \in [Resources -> Row]
    BY <1>1, <1>9
<1>12. raced' = (raced \ {<<s, "place">>}) \cup (IF thread[t].late THEN {<<s, "place">>} ELSE {})
    BY <1>1 DEF Commit
<1>13. /\ SameMarks(t, s, "place", TRUE)
       /\ \A q \in (Resources \cup Sessions), a \in {"place", "parent", "category"} :
              q # s \/ a # "place" => (<<q, a>> \in raced' <=> <<q, a>> \in raced)
    BY <1>12 DEF SameMarks
<1>14. thread[t].kind = "create" <=> s \notin Existing
    BY <1>1
<1>15. \A q \in Resources :
           /\ \/ row'[q].project = row[q].project
              \/ row[q].session = s /\ row'[q].project = w.home
           /\ row[q].session = s /\ w.home # home[s] => row'[q].project = w.home
    BY <1>4, <1>9, <1>10
<1> QED BY <1>1, <1>7, <1>9, <1>11, <1>13, <1>14, <1>15 DEF SessionWritten, w

LEMMA SessionRemovedFact ==
    ASSUME StructureAssumption, TypeOK, Shape, NEW t \in Threads, RemoveSession(t)
    PROVE  SessionRemoved(t)
<1> DEFINE s == thread[t].on
<1>1. /\ thread[t].kind = "delete"
      /\ name' = [name EXCEPT ![s] = None] /\ home' = [home EXCEPT ![s] = None]
      /\ row' = [r \in Resources |->
                    IF row[r].session = s THEN [row[r] EXCEPT !.session = None] ELSE row[r]]
      /\ Commit(t, {<<s, "place">>}) /\ UNCHANGED <<archived, emptied>>
    BY DEF RemoveSession
<1>2. \A q \in Resources : row[q] \in Row
    BY DEF TypeOK
<1>3. \A q \in Resources :
          /\ row'[q] \in Row
          /\ row'[q].session = IF row[q].session = s THEN None ELSE row[q].session
          /\ row'[q].project = row[q].project
          /\ row'[q].parent = row[q].parent /\ row'[q].category = row[q].category
    BY <1>1, <1>2 DEF Row
<1>4. row' \in [Resources -> Row]
    BY <1>1, <1>3
<1>5. raced' = (raced \ {<<s, "place">>}) \cup (IF thread[t].late THEN {<<s, "place">>} ELSE {})
    BY <1>1 DEF Commit
<1>6. /\ SameMarks(t, s, "place", TRUE)
      /\ \A q \in (Resources \cup Sessions), a \in {"place", "parent", "category"} :
             q # s \/ a # "place" => (<<q, a>> \in raced' <=> <<q, a>> \in raced)
    BY <1>5 DEF SameMarks
<1> QED BY <1>1, <1>3, <1>4, <1>6 DEF SessionRemoved

LEMMA CategoryWrittenFact ==
    ASSUME TypeOK, Shape, NEW t \in Threads, WriteCategory(t)
    PROVE  CategoryWritten(t)
<1>1. thread[t].kind \in {"archive", "reopen"} /\ Commit(t, {}) /\ UNCHANGED <<row, name, home>>
    BY DEF WriteCategory
<1>2. raced' = raced
    BY <1>1 DEF Commit
<1>3. thread[t].on \in Categories
    BY <1>1 DEF Shape, ShapeOf
<1> QED BY <1>1, <1>2, <1>3 DEF WriteCategory, CategoryWritten, TypeOK

LEMMA MergedFact ==
    ASSUME StructureAssumption, TypeOK, Shape, NEW t \in Threads, WriteMerge(t)
    PROVE  Merged(t)
<1> DEFINE c == thread[t].on
           into == thread[t].set.into
           moved == {r \in Resources : row[r].category = c}
           W == moved \X {"category"}
<1>1. /\ thread[t].kind \in {"merge", "remerge"} /\ UNCHANGED <<name, home>>
      /\ row' = [r \in Resources |->
                    IF r \in moved THEN [row[r] EXCEPT !.category = into] ELSE row[r]]
      /\ archived' \in {archived, archived \cup {c}}
      /\ emptied' = (emptied \cup {c}) \cap archived' /\ Commit(t, W)
    BY DEF WriteMerge
<1>2. into \in Categories
    BY <1>1 DEF Shape, ShapeOf
<1>3. \A q \in Resources : row[q] \in Row
    BY DEF TypeOK
<1>4. \A q \in Resources :
          /\ row'[q] \in Row
          /\ row'[q].category = IF row[q].category = c THEN into ELSE row[q].category
          /\ row'[q].session = row[q].session /\ row'[q].project = row[q].project
          /\ row'[q].parent = row[q].parent
    BY <1>1, <1>2, <1>3 DEF Row
<1>5. row' \in [Resources -> Row]
    BY <1>1, <1>4
<1>6. raced' = (raced \ W) \cup (IF thread[t].late THEN W ELSE {})
    BY <1>1 DEF Commit
<1>7. \A q, a : <<q, a>> \in W <=> q \in Resources /\ row[q].category = c /\ a = "category"
    OBVIOUS
<1> HIDE DEF W
<1>8. \A q \in (Resources \cup Sessions), a \in {"place", "parent"} :
          <<q, a>> \in raced' <=> <<q, a>> \in raced
    BY <1>6, <1>7
<1>9. \A q \in Resources : SameMarks(t, q, "category", row[q].category = c)
    BY <1>6, <1>7 DEF SameMarks
<1> QED BY <1>1, <1>2, <1>4, <1>5, <1>8, <1>9 DEF Merged

-----------------------------------------------------------------------------
(* The requests under way.                                                 *)

(* Where nothing is written, whoever looks again sees the same.            *)
LEMMA SameSight ==
    ASSUME Quiet
    PROVE  \A h : Sees(h)' <=> Sees(h)
<1>1. \A x : Chain(x)' = Chain(x)
    BY DEF Quiet, Chain
<1>2. Existing' = Existing
    BY DEF Quiet, Existing
<1>3. \A r, d : Allowed(r, d)' <=> Allowed(r, d)
    BY <1>1, <1>2 DEF Quiet, Allowed
<1>4. \A r, d : Resolved(r, d)' = Resolved(r, d)
    BY DEF Quiet, Resolved, Placed
<1>5. \A n, p, S : Free(n, p, S)' <=> Free(n, p, S)
    BY <1>2 DEF Quiet, Free
<1> QED BY <1>2, <1>3, <1>4, <1>5 DEF Sees, Quiet

(* A request begins: what it is to write is what it has just seen.         *)
LEMMA BeginFact ==
    ASSUME TypeOK, Shape, Current, StructureAssumption,
           NEW t \in Threads, NEW kind, NEW x, NEW w, Begin(t, kind, x, w),
           [kind |-> kind, on |-> x, late |-> FALSE, set |-> w] \in Thread,
           ShapeOf([kind |-> kind, on |-> x, late |-> FALSE, set |-> w]),
           Sees([kind |-> kind, on |-> x, late |-> FALSE, set |-> w])
    PROVE  Quiet /\ TypeOK' /\ Shape' /\ Current'
<1> DEFINE h == [kind |-> kind, on |-> x, late |-> FALSE, set |-> w]
<1>1. Quiet /\ thread' = [thread EXCEPT ![t] = h] /\ requests' = requests + 1 /\ requests < MaxRequests
    BY DEF Begin, Quiet
<1>2. h \in Thread /\ ShapeOf(h) /\ Sees(h)
    OBVIOUS
<1> HIDE DEF h
<1>3. /\ thread' \in [Threads -> Thread] /\ thread'[t] = h
      /\ \A u \in Threads \ {t} : thread'[u] = thread[u]
    BY <1>1, <1>2 DEF TypeOK
<1>4. Shape'
    BY <1>2, <1>3 DEF Shape
<1>5. \A u \in Threads : ~thread'[u].late => Sees(thread'[u])
    BY <1>2, <1>3 DEF Current
<1>6. Current'
    BY <1>1, <1>5, SameSight DEF Current
<1>7. requests' \in 0 .. MaxRequests
    BY <1>1 DEF TypeOK, StructureAssumption
<1> QED BY <1>1, <1>3, <1>4, <1>6, <1>7 DEF TypeOK, Quiet

LEMMA FailFact ==
    ASSUME TypeOK, Shape, Current, NEW t \in Threads, Fail(t)
    PROVE  Quiet /\ TypeOK' /\ Shape' /\ Current'
<1>1. Quiet /\ thread' = [thread EXCEPT ![t] = Idle] /\ requests' = requests
    BY DEF Fail, Quiet
<1>2. /\ thread' \in [Threads -> Thread] /\ thread'[t] = Idle
      /\ \A u \in Threads \ {t} : thread'[u] = thread[u]
    BY <1>1, IdleFact DEF TypeOK
<1>3. Shape'
    BY <1>2, IdleFact DEF Shape
<1>4. \A u \in Threads : ~thread'[u].late => Sees(thread'[u])
    BY <1>2, IdleFact DEF Current
<1>5. Current'
    BY <1>1, <1>4, SameSight DEF Current
<1> QED BY <1>1, <1>2, <1>3, <1>5 DEF TypeOK, Quiet

(* After a commit every request under way is late.                         *)
LEMMA CommitFact ==
    ASSUME TypeOK, Shape, NEW t \in Threads, NEW W, Commit(t, W)
    PROVE  /\ thread' \in [Threads -> Thread] /\ requests' \in 0 .. MaxRequests
           /\ Shape' /\ Current'
<1>1. thread' = [u \in Threads |->
           IF u = t THEN Idle
           ELSE [thread[u] EXCEPT !.late = thread[u].kind # "idle"]]
    BY DEF Commit
<1>2. thread'[t] = Idle
    BY <1>1
<1>3. ASSUME NEW u \in Threads \ {t}
      PROVE  /\ thread'[u] \in Thread
             /\ thread'[u].kind = thread[u].kind /\ thread'[u].on = thread[u].on
             /\ thread'[u].set = thread[u].set /\ thread'[u].late = (thread[u].kind # "idle")
    BY <1>1 DEF TypeOK, Thread
<1>4. ASSUME NEW u \in Threads \ {t}
      PROVE  ShapeOf(thread'[u])
    <2>1. ShapeOf(thread[u])
        BY DEF Shape
    <2>2. thread[u].kind = "idle" => thread'[u] = Idle
        <3> SUFFICES ASSUME thread[u].kind = "idle" PROVE thread'[u] = Idle
            OBVIOUS
        <3>1. thread[u] = Idle
            BY <2>1 DEF ShapeOf
        <3>2. thread'[u] = [Idle EXCEPT !.late = FALSE]
            BY <1>1, <3>1 DEF Idle
        <3> QED BY <3>2 DEF Idle
    <2> QED BY <1>3, <2>1, <2>2 DEF ShapeOf
<1>5. Shape'
    BY <1>2, <1>4, IdleFact DEF Shape
<1>6. \A u \in Threads : ~thread'[u].late => thread'[u].kind = "idle"
    BY <1>2, <1>3, IdleFact
<1>7. Current'
    BY <1>6 DEF Current, Sees
<1>8. thread' \in [Threads -> Thread]
    BY <1>1, <1>2, <1>3, IdleFact
<1> QED BY <1>5, <1>7, <1>8 DEF Commit, TypeOK

LEMMA RequestFact ==
    ASSUME StructureAssumption, TypeOK, Shape, Current, NEW t \in Threads, Request(t)
    PROVE  Quiet /\ TypeOK' /\ Shape' /\ Current'
<1> DEFINE h(kind, x, w) == [kind |-> kind, on |-> x, late |-> FALSE, set |-> w]
<1>1. ASSUME NEW r \in Resources, NEW d \in Patches, PatchFile(t, r, d)
      PROVE  Quiet /\ TypeOK' /\ Shape' /\ Current'
    <2> DEFINE w == Resolved(r, d)
               k == Changed(w, row[r])
    <2>1. Allowed(r, d) /\ DOMAIN k # {} /\ Begin(t, "file", r, k)
        BY <1>1 DEF PatchFile, Resolved
    <2>2. k \in FileWrites
        BY <2>1, ResolvedFact, ChangedFact DEF TypeOK
    <2>3. k \in Writes
        BY <2>2 DEF FileWrites, Writes
    <2>4. Sees(h("file", r, k))
        BY <2>1 DEF Sees
    <2> HIDE DEF k
    <2>5. h("file", r, k) \in Thread /\ ShapeOf(h("file", r, k))
        BY <2>2, <2>3 DEF Thread, ShapeOf
    <2> QED BY <2>1, <2>4, <2>5, BeginFact
<1>2. ASSUME NEW s \in Sessions, NEW n \in Names, NEW p \in Projects \cup {None},
             CreateSession(t, s, n, p)
      PROVE  Quiet /\ TypeOK' /\ Shape' /\ Current'
    <2> DEFINE k == [name |-> n, home |-> p]
    <2>1. s \notin Existing /\ Free(n, p, {}) /\ Begin(t, "create", s, k)
        BY <1>2 DEF CreateSession
    <2>2. h("create", s, k) \in Thread /\ ShapeOf(h("create", s, k)) /\ Sees(h("create", s, k))
        BY <2>1 DEF Thread, Writes, ShapeOf, Sees
    <2> QED BY <2>1, <2>2, BeginFact
<1>3. ASSUME NEW s \in Sessions, NEW n \in Names, NEW p \in Projects \cup {None},
             PatchSession(t, s, n, p)
      PROVE  Quiet /\ TypeOK' /\ Shape' /\ Current'
    <2> DEFINE k == Changed([name |-> n, home |-> p], [name |-> name[s], home |-> home[s]])
    <2>1. s \in Existing /\ Free(n, p, {s}) /\ DOMAIN k # {} /\ Begin(t, "session", s, k)
        BY <1>3 DEF PatchSession
    <2>2. k \in SessionWrites
        BY <2>1, ChangedSessionFact
    <2>3. k \in Writes
        BY <2>2 DEF SessionWrites, Writes
    <2>4. Sees(h("session", s, k))
        BY <2>1 DEF Sees
    <2> HIDE DEF k
    <2>5. h("session", s, k) \in Thread /\ ShapeOf(h("session", s, k))
        BY <2>2, <2>3 DEF Thread, ShapeOf
    <2> QED BY <2>1, <2>4, <2>5, BeginFact
<1>4. ASSUME NEW s \in Sessions, DeleteSession(t, s)
      PROVE  Quiet /\ TypeOK' /\ Shape' /\ Current'
    <2>1. Begin(t, "delete", s, Nothing)
        BY <1>4 DEF DeleteSession
    <2>2. /\ h("delete", s, Nothing) \in Thread
          /\ ShapeOf(h("delete", s, Nothing)) /\ Sees(h("delete", s, Nothing))
        BY DEF Thread, Writes, ShapeOf, Sees
    <2> QED BY <2>1, <2>2, BeginFact
<1>5. ASSUME NEW c \in Categories, ArchiveCategory(t, c)
      PROVE  Quiet /\ TypeOK' /\ Shape' /\ Current'
    <2>1. PICK kind \in {"archive", "reopen"} : Begin(t, kind, c, Nothing)
        BY <1>5 DEF ArchiveCategory
    <2>2. /\ h(kind, c, Nothing) \in Thread
          /\ ShapeOf(h(kind, c, Nothing)) /\ Sees(h(kind, c, Nothing))
        BY DEF Thread, Writes, ShapeOf, Sees
    <2> QED BY <2>1, <2>2, BeginFact
<1>6. ASSUME NEW c \in Categories, NEW into \in Categories, MergeCategory(t, c, into)
      PROVE  Quiet /\ TypeOK' /\ Shape' /\ Current'
    <2> DEFINE k == [into |-> into]
    <2>1. PICK kind \in {"merge", "remerge"} :
              into \notin archived \cup {c} /\ Begin(t, kind, c, k)
        BY <1>6 DEF MergeCategory
    <2>2. h(kind, c, k) \in Thread /\ ShapeOf(h(kind, c, k)) /\ Sees(h(kind, c, k))
        BY <2>1 DEF Thread, Writes, ShapeOf, Sees
    <2> QED BY <2>1, <2>2, BeginFact
<1> QED BY <1>1, <1>2, <1>3, <1>4, <1>5, <1>6 DEF Request

CommitKinds(t) ==
    FileWritten(t) \/ SessionWritten(t) \/ SessionRemoved(t) \/ CategoryWritten(t) \/ Merged(t)

LEMMA WriteFact ==
    ASSUME StructureAssumption, TypeOK, Shape, Current, NEW t \in Threads, Write(t)
    PROVE  (Quiet \/ CommitKinds(t)) /\ TypeOK' /\ Shape' /\ Current'
<1>1. CASE Fail(t)
    BY <1>1, FailFact
<1>2. ASSUME ~Fail(t)
      PROVE  CommitKinds(t) /\ \E W : /\ Commit(t, W)
                                      /\ W \subseteq (Resources \cup Sessions)
                                                         \X {"place", "parent", "category"}
    <2>1. CASE WriteFile(t)
        <3> DEFINE W == {thread[t].on} \X {Aspect(c) : c \in DOMAIN thread[t].set}
        <3>1. thread[t].on \in Resources /\ thread[t].set \in FileWrites
            BY <2>1 DEF WriteFile, Shape, ShapeOf
        <3>2. \A c \in DOMAIN thread[t].set : Aspect(c) \in {"place", "parent", "category"}
            <4>1. DOMAIN thread[t].set \subseteq {"session", "project", "parent", "category"}
                BY <3>1 DEF FileWrites
            <4> QED BY <4>1 DEF Aspect
        <3>3. Commit(t, W)
            BY <1>2, <2>1 DEF WriteFile
        <3> QED BY <1>2, <2>1, <3>1, <3>2, <3>3, FileWrittenFact DEF CommitKinds
    <2>2. CASE WriteSession(t)
        <3>1. thread[t].on \in Sessions /\ Commit(t, {<<thread[t].on, "place">>})
            BY <1>2, <2>2 DEF WriteSession, Shape, ShapeOf
        <3> QED BY <1>2, <2>2, <3>1, SessionWrittenFact DEF CommitKinds
    <2>3. CASE RemoveSession(t)
        <3>1. thread[t].on \in Sessions /\ Commit(t, {<<thread[t].on, "place">>})
            BY <2>3 DEF RemoveSession, Shape, ShapeOf
        <3> QED BY <2>3, <3>1, SessionRemovedFact DEF CommitKinds
    <2>4. CASE WriteCategory(t)
        <3>1. Commit(t, {})
            BY <2>4 DEF WriteCategory
        <3> QED BY <2>4, <3>1, CategoryWrittenFact DEF CommitKinds
    <2>5. CASE WriteMerge(t)
        <3> DEFINE W == {r \in Resources : row[r].category = thread[t].on} \X {"category"}
        <3>1. Commit(t, W)
            BY <2>5 DEF WriteMerge
        <3>2. W \subseteq (Resources \cup Sessions) \X {"place", "parent", "category"}
            OBVIOUS
        <3> QED BY <2>5, <3>1, <3>2, MergedFact DEF CommitKinds
    <2> QED BY <2>1, <2>2, <2>3, <2>4, <2>5 DEF Write
<1>3. ASSUME ~Fail(t)
      PROVE  TypeOK' /\ Shape' /\ Current'
    <2>1. PICK W : /\ Commit(t, W)
                   /\ W \subseteq (Resources \cup Sessions) \X {"place", "parent", "category"}
        BY <1>2, <1>3
    <2>2. raced' \subseteq (Resources \cup Sessions) \X {"place", "parent", "category"}
        BY <2>1 DEF Commit, TypeOK
    <2>3. CommitKinds(t)
        BY <1>2, <1>3
    <2>4. /\ row' \in [Resources -> Row]
          /\ name' \in [Sessions -> Names \cup {None}]
          /\ home' \in [Sessions -> Projects \cup {None}]
          /\ archived' \subseteq Categories /\ emptied' \subseteq Categories
        <3>1. CASE FileWritten(t)
            BY <3>1 DEF FileWritten, TypeOK
        <3>2. CASE SessionWritten(t)
            BY <3>2 DEF SessionWritten, TypeOK
        <3>3. CASE SessionRemoved(t)
            BY <3>3 DEF SessionRemoved, TypeOK
        <3>4. CASE CategoryWritten(t)
            BY <3>4 DEF CategoryWritten, TypeOK
        <3>5. CASE Merged(t)
            BY <3>5 DEF Merged, TypeOK, Shape, ShapeOf
        <3> QED BY <2>3, <3>1, <3>2, <3>3, <3>4, <3>5 DEF CommitKinds
    <2> QED BY <2>1, <2>2, <2>4, CommitFact DEF TypeOK
<1> QED BY <1>1, <1>2, <1>3

LEMMA StepKinds ==
    ASSUME StructureAssumption, TypeOK, Shape, Current, [Next]_vars
    PROVE  /\ Quiet \/ \E t \in Threads : CommitKinds(t)
           /\ TypeOK' /\ Shape' /\ Current'
<1>1. CASE UNCHANGED vars
    <2>1. Quiet /\ thread' = thread /\ requests' = requests
        BY <1>1 DEF vars, Quiet
    <2>2. Current'
        BY <2>1, SameSight DEF Current
    <2> QED BY <2>1, <2>2 DEF Quiet, TypeOK, Shape
<1>2. ASSUME NEW t \in Threads, Request(t) \/ Write(t)
      PROVE  (Quiet \/ CommitKinds(t)) /\ TypeOK' /\ Shape' /\ Current'
    BY <1>2, RequestFact, WriteFact
<1> QED BY <1>1, <1>2 DEF Next

-----------------------------------------------------------------------------
(* What a request that nobody has overtaken writes in a file.              *)
LEMMA FreshFile ==
    ASSUME StructureAssumption, TypeOK, Shape, Current, NEW t \in Threads, FileWritten(t), ~thread[t].late
    PROVE  LET r == thread[t].on
               w == thread[t].set
           IN  /\ "session" \in DOMAIN w \/ "project" \in DOMAIN w =>
                      (row'[r].session # None => row'[r].project = home[row'[r].session])
               /\ "parent" \in DOMAIN w /\ w.parent # None => r \notin Chain(w.parent)
               /\ "category" \in DOMAIN w => w.category \notin archived
<1> DEFINE r == thread[t].on
           w == thread[t].set
<1>1. r \in Resources /\ w \in FileWrites /\ thread[t].kind = "file"
    BY DEF FileWritten, Shape, ShapeOf
<1>2. PICK d \in Patches : Allowed(r, d) /\ w = Changed(Resolved(r, d), row[r])
    BY <1>1 DEF Current, Sees
<1> DEFINE all == Resolved(r, d)
<1>3. all \in FileWrites /\ row[r] \in Row
    BY <1>1, ResolvedFact DEF TypeOK
<1>4. DOMAIN w # {}
    BY <1>1 DEF FileWrites
<1>5. /\ \A c \in DOMAIN w : c \in DOMAIN all /\ w[c] = all[c] /\ all[c] # row[r][c]
      /\ \A c \in DOMAIN all \ DOMAIN w : all[c] = row[r][c]
    BY <1>2, <1>3, <1>4, ChangedFact
<1>6. ASSUME "session" \in DOMAIN w \/ "project" \in DOMAIN w
      PROVE  row'[r].session # None => row'[r].project = home[row'[r].session]
    <2>1. "session" \in DOMAIN all \/ "project" \in DOMAIN all
        BY <1>5, <1>6
    <2>2. all = Placed(r, d) /\ DOMAIN d \cap {"session", "project"} # {}
        BY <1>1, <2>1, ResolvedFact
    <2>3. /\ all \in [session : Sessions \cup {None}, project : Projects \cup {None}]
          /\ all.session # None => all.project = home[all.session]
        BY <1>1, <2>2, PlacedFact
    <2>4. row'[r].session = all.session /\ row'[r].project = all.project
        BY <1>5, <2>3 DEF FileWritten
    <2> QED BY <2>3, <2>4
<1>7. ASSUME "parent" \in DOMAIN w, w.parent # None
      PROVE  r \notin Chain(w.parent)
    <2>1. "parent" \in DOMAIN all /\ w.parent = all.parent
        BY <1>5, <1>7
    <2>2. all = d /\ "parent" \in DOMAIN d
        BY <1>1, <2>1, ResolvedFact
    <2> QED BY <1>2, <1>7, <2>1, <2>2 DEF Allowed
<1>8. ASSUME "category" \in DOMAIN w
      PROVE  w.category \notin archived
    <2>1. "category" \in DOMAIN all /\ w.category = all.category /\ all.category # row[r].category
        BY <1>5, <1>8
    <2>2. all = d /\ "category" \in DOMAIN d
        BY <1>1, <2>1, ResolvedFact
    <2>3. d.category \notin {None, row[r].category} => d.category \notin archived
        BY <1>2, <2>2 DEF Allowed
    <2> QED BY <2>1, <2>2, <2>3, ConstantsFact DEF TypeOK
<1> QED BY <1>6, <1>7, <1>8

LEMMA AgreementStep ==
    ASSUME StructureAssumption, IInv, [Next]_vars
    PROVE  NoDangling' /\ Agreement'
<1> USE DEF IInv
<1>1. CASE Quiet
    BY <1>1 DEF Quiet, NoDangling, Agreement, Existing
<1>2. ASSUME NEW t \in Threads, FileWritten(t)
      PROVE  NoDangling' /\ Agreement'
    <2> DEFINE r == thread[t].on
               w == thread[t].set
    <2>1. r \in Resources /\ Existing' = Existing /\ home' = home
        BY <1>2 DEF FileWritten, Shape, ShapeOf, Existing
    <2>2. ASSUME NEW q \in Resources, row'[q].session # None
          PROVE  row'[q].session \in Existing
        BY <1>2, <2>2 DEF FileWritten, NoDangling
    <2>3. ASSUME NEW q \in Resources, <<q, "place">> \notin raced', row'[q].session # None
          PROVE  row'[q].project = home[row'[q].session]
        <3>1. CASE q # r \/ ("session" \notin DOMAIN w /\ "project" \notin DOMAIN w)
            <4>1. row'[q].session = row[q].session /\ row'[q].project = row[q].project
                BY <1>2, <3>1 DEF FileWritten
            <4>2. <<q, "place">> \notin raced
                BY <1>2, <2>1, <2>3, <3>1 DEF FileWritten, SameMarks
            <4> QED BY <2>3, <4>1, <4>2 DEF Agreement
        <3>2. CASE q = r /\ ("session" \in DOMAIN w \/ "project" \in DOMAIN w)
            <4>1. ~thread[t].late
                BY <1>2, <2>3, <3>2 DEF FileWritten, SameMarks
            <4> QED BY <1>2, <2>3, <3>2, <4>1, FreshFile
        <3> QED BY <3>1, <3>2
    <2> QED BY <2>1, <2>2, <2>3 DEF NoDangling, Agreement
<1>3. ASSUME NEW t \in Threads, SessionWritten(t)
      PROVE  NoDangling' /\ Agreement'
    <2> DEFINE s == thread[t].on
               w == Written(thread[t].set, [name |-> name[s], home |-> home[s]])
    <2>1. s \in Sessions /\ s \notin Resources
        BY <1>3, ConstantsFact DEF SessionWritten, Shape, ShapeOf
    <2>2. w.name \in Names /\ w.name # None
        BY <1>3, ConstantsFact DEF SessionWritten
    <2>3. name' = [name EXCEPT ![s] = w.name] /\ home' = [home EXCEPT ![s] = w.home]
        BY <1>3 DEF SessionWritten
    <2>4. \A q \in Resources :
              /\ row'[q].session = row[q].session
              /\ \/ row'[q].project = row[q].project
                 \/ row[q].session = s /\ row'[q].project = w.home
              /\ row[q].session = s /\ w.home # home[s] => row'[q].project = w.home
              /\ <<q, "place">> \in raced' <=> <<q, "place">> \in raced
        BY <1>3, <2>1 DEF SessionWritten
    <2> HIDE DEF w
    <2>5. Existing' = Existing \cup {s}
        BY <2>1, <2>2, <2>3 DEF Existing, TypeOK
    <2>6. \A u \in Sessions : home'[u] = IF u = s THEN w.home ELSE home[u]
        BY <2>1, <2>3 DEF TypeOK
    <2>7. NoDangling'
        BY <2>4, <2>5 DEF NoDangling
    <2>8. ASSUME NEW q \in Resources, <<q, "place">> \notin raced', row'[q].session # None
          PROVE  row'[q].project = home'[row'[q].session]
        <3>1. row[q].session \in Sessions
            BY <2>4, <2>8 DEF TypeOK, Row
        <3>2. row[q].project = home[row[q].session]
            BY <2>4, <2>8 DEF Agreement
        <3> QED BY <2>4, <2>6, <2>8, <3>1, <3>2
    <2> QED BY <2>7, <2>8 DEF Agreement
<1>4. ASSUME NEW t \in Threads, SessionRemoved(t)
      PROVE  NoDangling' /\ Agreement'
    <2> DEFINE s == thread[t].on
    <2>1. s \in Sessions /\ s \notin Resources
        BY <1>4, ConstantsFact DEF SessionRemoved, Shape, ShapeOf
    <2>2. name' = [name EXCEPT ![s] = None] /\ home' = [home EXCEPT ![s] = None]
        BY <1>4 DEF SessionRemoved
    <2>3. \A q \in Resources :
              /\ row'[q].session = IF row[q].session = s THEN None ELSE row[q].session
              /\ row'[q].project = row[q].project
              /\ <<q, "place">> \in raced' <=> <<q, "place">> \in raced
        BY <1>4, <2>1 DEF SessionRemoved
    <2>4. Existing' = Existing \ {s}
        BY <2>1, <2>2 DEF Existing, TypeOK
    <2>5. \A u \in Sessions \ {s} : home'[u] = home[u]
        BY <2>2 DEF TypeOK
    <2>6. \A q \in Resources : row'[q].session # None =>
              row'[q].session = row[q].session /\ row[q].session \in Sessions \ {s}
        BY <2>3 DEF TypeOK, Row
    <2>7. NoDangling'
        BY <2>4, <2>6 DEF NoDangling
    <2>8. Agreement'
        BY <2>3, <2>5, <2>6 DEF Agreement
    <2> QED BY <2>7, <2>8
<1>5. ASSUME NEW t \in Threads, CategoryWritten(t)
      PROVE  NoDangling' /\ Agreement'
    BY <1>5 DEF CategoryWritten, NoDangling, Agreement, Existing
<1>6. ASSUME NEW t \in Threads, Merged(t)
      PROVE  NoDangling' /\ Agreement'
    <2>1. \A q \in Resources :
              /\ row'[q].session = row[q].session /\ row'[q].project = row[q].project
              /\ <<q, "place">> \in raced' <=> <<q, "place">> \in raced
        BY <1>6 DEF Merged
    <2>2. home' = home /\ Existing' = Existing
        BY <1>6 DEF Merged, Existing
    <2> QED BY <2>1, <2>2 DEF NoDangling, Agreement
<1> QED BY <1>1, <1>2, <1>3, <1>4, <1>5, <1>6, StepKinds DEF CommitKinds

LEMMA MergedStep ==
    ASSUME StructureAssumption, IInv, [Next]_vars
    PROVE  MergedAreArchived' /\ MergedStaysEmpty'
<1> USE DEF IInv, MergedAreArchived
<1>1. CASE Quiet
    BY <1>1 DEF Quiet, MergedStaysEmpty
<1>2. ASSUME NEW t \in Threads, FileWritten(t)
      PROVE  MergedAreArchived' /\ MergedStaysEmpty'
    <2> DEFINE r == thread[t].on
               w == thread[t].set
    <2>1. r \in Resources /\ emptied' = emptied /\ archived' = archived
        BY <1>2 DEF FileWritten, Shape, ShapeOf
    <2>2. ASSUME NEW q \in Resources, row'[q].category \in emptied
          PROVE  <<q, "category">> \in raced'
        <3>1. CASE q # r \/ "category" \notin DOMAIN w
            <4>1. row'[q].category = row[q].category
                BY <1>2, <3>1 DEF FileWritten
            <4> QED BY <1>2, <2>2, <3>1, <4>1 DEF FileWritten, SameMarks, MergedStaysEmpty
        <3>2. CASE q = r /\ "category" \in DOMAIN w
            <4>1. row'[q].category = w.category
                BY <1>2, <3>2 DEF FileWritten
            <4>2. thread[t].late
                BY <1>2, <2>2, <3>2, <4>1, FreshFile
            <4> QED BY <1>2, <3>2, <4>2 DEF FileWritten, SameMarks
        <3> QED BY <3>1, <3>2
    <2> QED BY <2>1, <2>2 DEF MergedStaysEmpty
<1>3. ASSUME NEW t \in Threads, SessionWritten(t) \/ SessionRemoved(t)
      PROVE  MergedAreArchived' /\ MergedStaysEmpty'
    <2>1. /\ emptied' = emptied /\ archived' = archived
          /\ \A q \in Resources :
                 /\ row'[q].category = row[q].category
                 /\ <<q, "category">> \in raced' <=> <<q, "category">> \in raced
        BY <1>3 DEF SessionWritten, SessionRemoved
    <2> QED BY <2>1 DEF MergedStaysEmpty
<1>4. ASSUME NEW t \in Threads, CategoryWritten(t)
      PROVE  MergedAreArchived' /\ MergedStaysEmpty'
    BY <1>4 DEF CategoryWritten, MergedStaysEmpty
<1>5. ASSUME NEW t \in Threads, Merged(t)
      PROVE  MergedAreArchived' /\ MergedStaysEmpty'
    <2> DEFINE c == thread[t].on
               into == thread[t].set.into
    <2>1. /\ archived' \in {archived, archived \cup {c}}
          /\ emptied' = (emptied \cup {c}) \cap archived'
          /\ \A q \in Resources :
                 /\ row'[q].category = IF row[q].category = c THEN into ELSE row[q].category
                 /\ <<q, "category">> \in raced' <=>
                        IF row[q].category = c THEN thread[t].late ELSE <<q, "category">> \in raced
        BY <1>5 DEF Merged, SameMarks
    <2>2. ~thread[t].late => into \notin archived \cup {c}
        BY <1>5 DEF Current, Sees, Merged
    <2>3. ASSUME NEW q \in Resources, row'[q].category \in emptied'
          PROVE  <<q, "category">> \in raced'
        <3>1. CASE row[q].category = c
            <4>1. into \in emptied \cup {c}
                BY <2>1, <2>3, <3>1
            <4>2. thread[t].late
                BY <2>2, <4>1
            <4> QED BY <2>1, <3>1, <4>2
        <3>2. CASE row[q].category # c
            <4>1. row[q].category \in emptied
                BY <2>1, <2>3, <3>2
            <4> QED BY <2>1, <3>2, <4>1 DEF MergedStaysEmpty
        <3> QED BY <3>1, <3>2
    <2> QED BY <2>1, <2>3 DEF MergedStaysEmpty
<1> QED BY <1>1, <1>2, <1>3, <1>4, <1>5, StepKinds DEF CommitKinds

(* A session that nobody has overtaken gets a folder of its own.           *)
LEMMA FreshSession ==
    ASSUME TypeOK, Shape, Current, NEW t \in Threads, SessionWritten(t), ~thread[t].late
    PROVE  LET s == thread[t].on
               w == Written(thread[t].set, [name |-> name[s], home |-> home[s]])
           IN  \A u \in Existing \ {s} : home[u] = w.home => FolderOf[name[u]] # FolderOf[w.name]
<1> DEFINE s == thread[t].on
           w == Written(thread[t].set, [name |-> name[s], home |-> home[s]])
<1>1. CASE thread[t].kind = "create"
    <2>1. s \notin Existing /\ Free(thread[t].set.name, thread[t].set.home, {})
        BY <1>1 DEF Current, Sees
    <2>2. w.name = thread[t].set.name /\ w.home = thread[t].set.home
        BY <1>1 DEF Shape, ShapeOf, Written
    <2> QED BY <2>1, <2>2 DEF Free
<1>2. CASE thread[t].kind = "session"
    <2>1. PICK n \in Names, p \in Projects \cup {None} :
              /\ Free(n, p, {s})
              /\ thread[t].set = Changed([name |-> n, home |-> p], [name |-> name[s], home |-> home[s]])
        BY <1>2 DEF Current, Sees
    <2>2. DOMAIN thread[t].set # {}
        BY <1>2 DEF Shape, ShapeOf, SessionWrites
    <2>3. w = [name |-> n, home |-> p]
        BY <2>1, <2>2, ChangedSessionFact
    <2> QED BY <2>1, <2>3 DEF Free
<1> QED BY <1>1, <1>2 DEF SessionWritten

LEMMA FoldersStep ==
    ASSUME StructureAssumption, IInv, [Next]_vars
    PROVE  FoldersDistinct'
<1> USE DEF IInv
<1>1. CASE Quiet
    BY <1>1 DEF Quiet, FoldersDistinct, Existing
<1>2. ASSUME NEW t \in Threads, FileWritten(t) \/ CategoryWritten(t) \/ Merged(t)
      PROVE  FoldersDistinct'
    <2>1. name' = name /\ home' = home /\ Existing' = Existing
        BY <1>2 DEF FileWritten, CategoryWritten, Merged, Existing
    <2>2. \A s \in Sessions : <<s, "place">> \in raced' <=> <<s, "place">> \in raced
        BY <1>2, ConstantsFact DEF FileWritten, CategoryWritten, Merged, Shape, ShapeOf
    <2> QED BY <2>1, <2>2 DEF FoldersDistinct, Existing
<1>3. ASSUME NEW t \in Threads, SessionWritten(t)
      PROVE  FoldersDistinct'
    <2> DEFINE s == thread[t].on
               w == Written(thread[t].set, [name |-> name[s], home |-> home[s]])
    <2>1. s \in Sessions
        BY <1>3 DEF SessionWritten, Shape, ShapeOf
    <2>2. /\ <<s, "place">> \in raced' <=> thread[t].late
          /\ \A u \in Sessions \ {s} : <<u, "place">> \in raced' <=> <<u, "place">> \in raced
        BY <1>3, <2>1 DEF SessionWritten, SameMarks
    <2>3. ~thread[t].late =>
              \A u \in Existing \ {s} : home[u] = w.home => FolderOf[name[u]] # FolderOf[w.name]
        BY <1>3, FreshSession
    <2>4. name' = [name EXCEPT ![s] = w.name] /\ home' = [home EXCEPT ![s] = w.home]
        BY <1>3 DEF SessionWritten
    <2> HIDE DEF w
    <2>5. /\ \A u \in Sessions \ {s} : name'[u] = name[u] /\ home'[u] = home[u]
          /\ name'[s] = w.name /\ home'[s] = w.home
        BY <2>1, <2>4 DEF TypeOK
    <2>6. Existing' \subseteq Existing \cup {s}
        BY <2>5 DEF Existing
    <2>7. ASSUME NEW a \in Existing', NEW b \in Existing', a # b,
                 <<a, "place">> \notin raced', <<b, "place">> \notin raced'
          PROVE  home'[a] # home'[b] \/ FolderOf[name'[a]] # FolderOf[name'[b]]
        <3>1. CASE a # s /\ b # s
            BY <2>2, <2>5, <2>6, <2>7, <3>1 DEF FoldersDistinct, Existing
        <3>2. CASE a = s \/ b = s
            BY <2>2, <2>3, <2>5, <2>6, <2>7, <3>2 DEF Existing
        <3> QED BY <3>1, <3>2
    <2> QED BY <2>7 DEF FoldersDistinct
<1>4. ASSUME NEW t \in Threads, SessionRemoved(t)
      PROVE  FoldersDistinct'
    <2> DEFINE s == thread[t].on
    <2>1. s \in Sessions
        BY <1>4 DEF SessionRemoved, Shape, ShapeOf
    <2>2. \A u \in Sessions \ {s} : <<u, "place">> \in raced' <=> <<u, "place">> \in raced
        BY <1>4 DEF SessionRemoved
    <2>3. name' = [name EXCEPT ![s] = None] /\ home' = [home EXCEPT ![s] = None]
        BY <1>4 DEF SessionRemoved
    <2>4. /\ \A u \in Sessions \ {s} : name'[u] = name[u] /\ home'[u] = home[u]
          /\ name'[s] = None
        BY <2>1, <2>3 DEF TypeOK
    <2>5. Existing' \subseteq Existing \ {s}
        BY <2>4 DEF Existing
    <2> QED BY <2>2, <2>4, <2>5 DEF FoldersDistinct, Existing
<1> QED BY <1>1, <1>2, <1>3, <1>4, StepKinds DEF CommitKinds

-----------------------------------------------------------------------------
(* Chains of originals.  Up(par, x) is the chain of x where par gives each *)
(* file's original.                                                        *)
Closed(par, S) == \A z \in S : par[z] \in S \cup {None}

Up(par, x) == {y \in Resources : \A S \in SUBSET Resources : x \in S /\ Closed(par, S) => y \in S}

Parents == [r \in Resources |-> row[r].parent]

Graphs == [Resources -> Resources \cup {None}]

LEMMA ChainIsUp ==
    \A x : Chain(x) = Up(Parents, x)
<1> SUFFICES ASSUME NEW x PROVE Chain(x) = Up(Parents, x)
    OBVIOUS
<1>1. ASSUME NEW S \in SUBSET Resources
      PROVE  Closed(Parents, S) <=> \A z \in S : row[z].parent \in S \cup {None}
    BY DEF Closed, Parents
<1> QED BY <1>1 DEF Chain, Up

LEMMA UpFact ==
    ASSUME NEW par \in Graphs, NEW x \in Resources
    PROVE  /\ x \in Up(par, x) /\ Up(par, x) \subseteq Resources
           /\ Closed(par, Up(par, x))
           /\ \A S \in SUBSET Resources : x \in S /\ Closed(par, S) => Up(par, x) \subseteq S
<1>1. ASSUME NEW z \in Up(par, x), par[z] # None
      PROVE  par[z] \in Up(par, x)
    <2>1. z \in Resources /\ par[z] \in Resources
        BY <1>1 DEF Up, Graphs
    <2>2. ASSUME NEW S \in SUBSET Resources, x \in S, Closed(par, S)
          PROVE  par[z] \in S
        BY <1>1, <2>2 DEF Up, Closed
    <2> QED BY <2>1, <2>2 DEF Up
<1>2. Closed(par, Up(par, x))
    BY <1>1 DEF Closed
<1> QED BY <1>2 DEF Up

LEMMA UpOneMore ==
    ASSUME NEW par \in Graphs, NEW x \in Resources, NEW y \in Up(par, x), y # x
    PROVE  par[x] # None /\ y \in Up(par, par[x])
<1>1. CASE par[x] = None
    <2>1. Closed(par, {x})
        BY <1>1 DEF Closed
    <2> QED BY <2>1, UpFact
<1>2. CASE par[x] # None
    <2> DEFINE T == Up(par, par[x]) \cup {x}
    <2>1. par[x] \in Resources
        BY <1>2 DEF Graphs
    <2>2. /\ par[x] \in Up(par, par[x]) /\ Up(par, par[x]) \subseteq Resources
          /\ Closed(par, Up(par, par[x]))
        BY <2>1, UpFact
    <2>3. Closed(par, T) /\ x \in T /\ T \subseteq Resources
        BY <2>2 DEF Closed
    <2>4. y \in T
        BY <2>3, UpFact
    <2> QED BY <1>2, <2>4
<1> QED BY <1>1, <1>2

(* Who changes nothing on a chain leaves the chain as it is.               *)
LEMMA UpSame ==
    ASSUME NEW par \in Graphs, NEW new \in Graphs, NEW x \in Resources,
           \A y \in Up(par, x) : new[y] = par[y]
    PROVE  Up(new, x) = Up(par, x)
<1>1. Closed(new, Up(par, x))
    BY UpFact DEF Closed
<1>2. Up(new, x) \subseteq Up(par, x)
    BY <1>1, UpFact
<1>3. Closed(par, Up(new, x))
    BY <1>2, UpFact DEF Closed
<1>4. Up(par, x) \subseteq Up(new, x)
    BY <1>3, UpFact
<1> QED BY <1>2, <1>4

(* All the chain of a file on a loop is on the loop.                       *)
LEMMA OnLoop ==
    ASSUME NEW par \in Graphs, NEW z \in Resources,
           par[z] # None, z \in Up(par, par[z]), NEW r \in Up(par, z)
    PROVE  par[r] # None /\ r \in Up(par, par[r])
<1> DEFINE T == {y \in Up(par, z) : z \in Up(par, y)}
<1>1. Up(par, z) \subseteq Resources /\ z \in Up(par, z) /\ Closed(par, Up(par, z))
    BY UpFact
<1>2. ASSUME NEW y \in T, par[y] # None
      PROVE  par[y] \in T
    <2>1. y \in Resources /\ par[y] \in Up(par, z) /\ z \in Up(par, y)
        BY <1>1, <1>2 DEF Closed
    <2>2. CASE y = z
        BY <2>1, <2>2
    <2>3. CASE y # z
        BY <2>1, <2>3, UpOneMore
    <2> QED BY <2>2, <2>3
<1>3. Closed(par, T) /\ z \in T /\ T \subseteq Resources
    BY <1>1, <1>2 DEF Closed
<1>4. r \in T
    BY <1>3, UpFact
<1>5. CASE r = z
    BY <1>5
<1>6. CASE r # z
    <2>1. par[r] # None /\ z \in Up(par, par[r]) /\ r \in Resources
        BY <1>1, <1>4, <1>6, UpOneMore
    <2>2. par[r] \in Resources
        BY <2>1 DEF Graphs
    <2>3. Closed(par, Up(par, par[r])) /\ Up(par, par[r]) \subseteq Resources
        BY <2>2, UpFact
    <2>4. Up(par, z) \subseteq Up(par, par[r])
        BY <2>1, <2>3, UpFact
    <2> QED BY <2>1, <2>4
<1> QED BY <1>5, <1>6

(* To give r a parent that r is not above closes no loop through r.        *)
LEMMA NoNewLoop ==
    ASSUME NEW par \in Graphs, NEW r \in Resources, NEW q \in Resources \cup {None},
           q # None => r \notin Up(par, q),
           NEW z \in Resources, NEW new, new = [par EXCEPT ![r] = q],
           new[z] # None, z \in Up(new, new[z])
    PROVE  r \notin Up(new, z)
<1> SUFFICES ASSUME r \in Up(new, z) PROVE FALSE
    OBVIOUS
<1>1. new \in Graphs /\ new[r] = q /\ \A y \in Resources \ {r} : new[y] = par[y]
    BY DEF Graphs
<1>2. q # None /\ r \in Up(new, q)
    <2>1. new[r] # None /\ r \in Up(new, new[r])
        BY <1>1, OnLoop
    <2> QED BY <1>1, <2>1
<1>3. \A y \in Up(par, q) : new[y] = par[y]
    BY <1>1, <1>2, UpFact
<1>4. Up(new, q) = Up(par, q)
    BY <1>1, <1>2, <1>3, UpSame
<1> QED BY <1>2, <1>4

LEMMA LoopsStep ==
    ASSUME StructureAssumption, IInv, [Next]_vars
    PROVE  NoLoops'
<1> USE DEF IInv
<1> DEFINE new == [r \in Resources |-> row'[r].parent]
           Loops(par, marks) == \A z \in Resources :
               par[z] # None /\ z \in Up(par, par[z]) =>
                   \E y \in Up(par, z) : <<y, "parent">> \in marks
<1>1. Parents \in Graphs /\ Loops(Parents, raced)
    <2>1. Parents \in Graphs
        BY DEF Parents, Graphs, TypeOK, Row
    <2>2. \A z \in Resources : Parents[z] = row[z].parent
        BY DEF Parents
    <2> QED BY <2>1, <2>2, ChainIsUp DEF NoLoops
<1>2. new \in Graphs
    BY StepKinds DEF TypeOK, Row, Graphs
<1>3. Loops(new, raced') => NoLoops'
    <2>1. \A z \in Resources : new[z] = row'[z].parent
        OBVIOUS
    <2>2. Parents' = new
        BY DEF Parents
    <2>3. \A x : Chain(x)' = Up(new, x)
        <3>1. \A x : Chain(x)' = Up(Parents', x)
            <4>1. (\A x : Chain(x) = Up(Parents, x))'
                BY ChainIsUp, PTL
            <4> QED BY <4>1 DEF Up, Closed
        <3> QED BY <2>2, <3>1
    <2> HIDE DEF new
    <2> QED BY <2>1, <2>3 DEF NoLoops
<1> HIDE DEF new
<1>4. CASE new = Parents /\ \A y \in Resources : <<y, "parent">> \in raced' <=> <<y, "parent">> \in raced
    <2>1. \A z \in Resources : Up(Parents, z) \subseteq Resources
        BY <1>1, UpFact
    <2> QED BY <1>1, <1>3, <1>4, <2>1
<1>5. ASSUME NEW t \in Threads, FileWritten(t), "parent" \in DOMAIN thread[t].set
      PROVE  Loops(new, raced')
    <2> DEFINE r == thread[t].on
               q == thread[t].set.parent
    <2>1. r \in Resources /\ thread[t].set \in FileWrites
        BY <1>5 DEF FileWritten, Shape, ShapeOf
    <2>2. q \in Resources \cup {None}
        BY <1>5, <2>1 DEF FileWrites
    <2>3. new = [Parents EXCEPT ![r] = q]
        BY <1>5, <2>1 DEF FileWritten, new, Parents
    <2>4. /\ <<r, "parent">> \in raced' <=> thread[t].late
          /\ \A y \in Resources \ {r} : <<y, "parent">> \in raced' <=> <<y, "parent">> \in raced
        BY <1>5, <2>1 DEF FileWritten, SameMarks
    <2>5. ~thread[t].late /\ q # None => r \notin Up(Parents, q)
        BY <1>5, ChainIsUp, FreshFile
    <2> HIDE DEF r, q
    <2>6. ASSUME NEW z \in Resources, new[z] # None, z \in Up(new, new[z])
          PROVE  \E y \in Up(new, z) : <<y, "parent">> \in raced'
        <3>1. CASE r \in Up(new, z)
            <4>1. thread[t].late
                BY <1>1, <2>1, <2>2, <2>3, <2>5, <2>6, <3>1, NoNewLoop
            <4> QED BY <2>4, <3>1, <4>1
        <3>2. CASE r \notin Up(new, z)
            <4>1. z \in Up(new, z) /\ Up(new, z) \subseteq Resources /\ Closed(new, Up(new, z))
                BY <1>2, UpFact
            <4>2. \A y \in Up(new, z) : Parents[y] = new[y]
                BY <1>1, <2>3, <3>2, <4>1 DEF Graphs
            <4>3. Up(Parents, z) = Up(new, z)
                BY <1>1, <1>2, <4>2, UpSame
            <4>4. new[z] \in Up(new, z) /\ new[z] \in Resources
                BY <2>6, <4>1 DEF Closed
            <4>5. Up(new, new[z]) \subseteq Up(new, z)
                BY <1>2, <4>1, <4>4, UpFact
            <4>6. Up(Parents, new[z]) = Up(new, new[z])
                BY <1>1, <1>2, <4>2, <4>4, <4>5, UpSame
            <4>7. Parents[z] # None /\ z \in Up(Parents, Parents[z])
                BY <2>6, <4>1, <4>2, <4>6
            <4>8. PICK y \in Up(Parents, z) : <<y, "parent">> \in raced
                BY <1>1, <4>7
            <4> QED BY <2>4, <3>2, <4>1, <4>3, <4>8
        <3> QED BY <3>1, <3>2
    <2> QED BY <2>6
<1>6. ASSUME NEW t \in Threads, CommitKinds(t),
             ~(FileWritten(t) /\ "parent" \in DOMAIN thread[t].set)
      PROVE  new = Parents /\ \A y \in Resources : <<y, "parent">> \in raced' <=> <<y, "parent">> \in raced
    <2>1. \A y \in Resources : row'[y].parent = row[y].parent
        <3>1. CASE FileWritten(t)
            BY <1>6, <3>1 DEF FileWritten
        <3>2. CASE SessionWritten(t)
            BY <3>2 DEF SessionWritten
        <3>3. CASE SessionRemoved(t)
            BY <3>3 DEF SessionRemoved
        <3>4. CASE CategoryWritten(t)
            BY <3>4 DEF CategoryWritten
        <3>5. CASE Merged(t)
            BY <3>5 DEF Merged
        <3> QED BY <1>6, <3>1, <3>2, <3>3, <3>4, <3>5 DEF CommitKinds
    <2>2. \A y \in Resources : <<y, "parent">> \in raced' <=> <<y, "parent">> \in raced
        BY <1>6 DEF CommitKinds, FileWritten, SessionWritten, SessionRemoved,
                    CategoryWritten, Merged, SameMarks
    <2> QED BY <2>1, <2>2 DEF new, Parents
<1>7. Quiet => new = Parents /\ raced' = raced
    BY DEF Quiet, new, Parents
<1> QED BY <1>3, <1>4, <1>5, <1>6, <1>7, StepKinds

-----------------------------------------------------------------------------
LEMMA Start ==
    ASSUME StructureAssumption, Init
    PROVE  IInv
<1>1. /\ row = [r \in Resources |->
              [session |-> None, project |-> None, parent |-> None, category |-> None]]
      /\ name \in [Sessions -> Names \cup {None}]
      /\ home \in [Sessions -> Projects \cup {None}]
      /\ archived = {} /\ emptied = {} /\ raced = {} /\ requests = 0
      /\ thread = [t \in Threads |-> Idle]
    BY DEF Init, StructureAssumption
<1>2. \A r \in Resources :
          row[r] \in Row /\ row[r].session = None /\ row[r].parent = None /\ row[r].category = None
    BY <1>1 DEF Row
<1>3. \A t \in Threads : thread[t] = Idle /\ ~thread[t].late
    BY <1>1 DEF Idle
<1>4. TypeOK
    <2>1. thread \in [Threads -> Thread]
        BY <1>1, IdleFact
    <2>2. row \in [Resources -> Row]
        BY <1>1, <1>2
    <2> QED BY <1>1, <2>1, <2>2 DEF TypeOK, StructureAssumption
<1>5. Shape /\ Current
    BY <1>3, IdleFact DEF Shape, Current
<1>6. Agreement /\ NoDangling /\ NoLoops /\ MergedAreArchived /\ MergedStaysEmpty
    BY <1>1, <1>2 DEF Agreement, NoDangling, NoLoops, MergedAreArchived, MergedStaysEmpty
<1>7. FoldersDistinct
    <2>1. \A s \in Existing : s = First
        BY DEF Init, Existing
    <2> QED BY <2>1 DEF FoldersDistinct
<1> QED BY <1>4, <1>5, <1>6, <1>7 DEF IInv

LEMMA Invariance ==
    ASSUME StructureAssumption
    PROVE  Spec => []IInv
<1>1. Init => IInv
    BY Start
<1>2. IInv /\ [Next]_vars => IInv'
    <2> SUFFICES ASSUME IInv, [Next]_vars PROVE IInv'
        OBVIOUS
    <2>1. TypeOK' /\ Shape' /\ Current'
        BY StepKinds DEF IInv
    <2>2. Agreement' /\ NoDangling'
        BY AgreementStep
    <2>3. MergedAreArchived' /\ MergedStaysEmpty'
        BY MergedStep
    <2>4. FoldersDistinct'
        BY FoldersStep
    <2>5. NoLoops'
        BY LoopsStep
    <2> QED BY <2>1, <2>2, <2>3, <2>4, <2>5 DEF IInv
<1> QED BY <1>1, <1>2, PTL DEF Spec

-----------------------------------------------------------------------------
(* The rows, the sessions, the categories and the requests under way are   *)
(* always of their types: what a request writes are columns of what it is  *)
(* on (update_resource, update_session, update_category, app/api.py).      *)
THEOREM StructureTypeCorrect ==
    ASSUME StructureAssumption
    PROVE  Spec => []TypeOK
<1>1. IInv => TypeOK
    BY DEF IInv
<1> QED BY <1>1, Invariance, PTL

(* No file is ever in a session that is gone, and unless its row was       *)
(* written by a request that another overtook, a file has the project of   *)
(* its session (_resolve_structure, update_session, delete_session).       *)
THEOREM FilesAgreeWithSessions ==
    ASSUME StructureAssumption
    PROVE  Spec => [](Agreement /\ NoDangling)
<1>1. IInv => Agreement /\ NoDangling
    BY DEF IInv
<1> QED BY <1>1, Invariance, PTL

(* Unless a request was overtaken by another, originals form no loop, no   *)
(* two sessions of a project share a folder, and a category merged away    *)
(* holds no file (update_resource, _session_folder_taken, merge_category). *)
THEOREM LibraryOrganised ==
    ASSUME StructureAssumption
    PROVE  Spec => []Organised
<1>1. IInv => Organised
    BY DEF IInv, Organised
<1> QED BY <1>1, Invariance, PTL

=============================================================================
