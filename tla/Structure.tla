----------------------------- MODULE Structure -----------------------------
(***************************************************************************)
(* How the library is organised: the project, session, category and        *)
(* original of every file, and the requests that change them.              *)
(*                                                                         *)
(*   PATCH /resources/<id>, POST /resources/batch            app/api.py    *)
(*   /sessions, /categories: create, change, delete, merge   app/api.py    *)
(*                                                                         *)
(* The web server runs each request in a thread of its own, and the        *)
(* database isolates them at READ COMMITTED: a request reads and checks,   *)
(* then writes the columns that differ from what it has read, and other    *)
(* requests may commit in between.  A refused request is not a step.  The  *)
(* database enforces foreign keys and the unique name in a project.        *)
(***************************************************************************)
EXTENDS Integers

CONSTANTS
    Resources, Sessions, Projects, Categories,
    Names,          \* of sessions
    First,          \* the session there is at the start, or None
    FolderOf,       \* the folder of a name: safe_component, in lower case
    Threads,        \* of the web server
    MaxRequests,    \* bound: requests that change anything
    None

StructureAssumption ==
    /\ Resources \cap Sessions = {}
    /\ First \in Sessions \cup {None} /\ Names # {}
    /\ MaxRequests \in Nat
    /\ None \notin Resources \cup Sessions \cup Projects \cup Categories \cup Names

VARIABLES
    row,            \* of each file: session, project, parent, category
    name, home,     \* of each session: name, None if there is none; project_id
    archived,       \* categories no longer given to files
    thread,         \* the request each thread is in
    requests,       \* so far
    emptied,        \* history: categories merged into another and not reopened
    raced           \* history: what was written by a request after another had
                    \* committed since it had read, until it is written again

vars == <<row, name, home, archived, thread, requests, emptied, raced>>

-----------------------------------------------------------------------------
Row == [session : Sessions \cup {None}, project : Projects \cup {None},
        parent : Resources \cup {None}, category : Categories \cup {None}]

Nothing == [c \in {} |-> None]

(* What may be written of a file, of a session, and by a merge.            *)
Writes ==
    [session : Sessions \cup {None}] \cup [project : Projects \cup {None}]
        \cup [session : Sessions \cup {None}, project : Projects \cup {None}]
        \cup [parent : Resources \cup {None}] \cup [category : Categories \cup {None}]
        \cup [name : Names] \cup [home : Projects \cup {None}]
        \cup [name : Names, home : Projects \cup {None}]
        \cup [into : Categories] \cup {Nothing}

(* set: the columns to be written, and what is written there.              *)
Thread == [kind : {"idle", "file", "create", "session", "delete", "archive", "reopen", "merge", "remerge"},
           on : Resources \cup Sessions \cup Categories \cup {None},
           late : BOOLEAN, set : Writes]

TypeOK ==
    /\ row \in [Resources -> Row]
    /\ name \in [Sessions -> Names \cup {None}]
    /\ home \in [Sessions -> Projects \cup {None}]
    /\ archived \subseteq Categories /\ emptied \subseteq Categories
    /\ thread \in [Threads -> Thread]
    /\ requests \in 0 .. MaxRequests
    /\ raced \subseteq (Resources \cup Sessions) \X {"place", "parent", "category"}

Existing == {s \in Sessions : name[s] # None}

(* What is written of a file's row, or a session's, in columns that differ. *)
Aspect(c) == IF c \in {"session", "project"} THEN "place" ELSE c

Changed(w, old) == [c \in {c \in DOMAIN w : w[c] # old[c]} |-> w[c]]

Written(w, old) == [c \in DOMAIN old |-> IF c \in DOMAIN w THEN w[c] ELSE old[c]]

-----------------------------------------------------------------------------
(* What a request reads                                                    *)

(* What a PATCH may ask for; session_id and project_id also together.      *)
Patches ==
    [session : Sessions \cup {None}] \cup [project : Projects \cup {None}]
        \cup [session : Sessions, project : Projects \cup {None}]
        \cup [parent : Resources \cup {None}] \cup [category : Categories \cup {None}]

(* _resolve_structure: a session brings its project with it; a file that   *)
(* changes project leaves the session it was in.                           *)
Placed(r, d) ==
    LET s == IF "session" \in DOMAIN d THEN d.session ELSE row[r].session
        p == IF "project" \in DOMAIN d THEN d.project ELSE row[r].project
    IN  IF "session" \in DOMAIN d /\ d.session # None
        THEN [session |-> s, project |-> home[s]]
        ELSE [session |-> IF s # None /\ "project" \in DOMAIN d /\ home[s] # p THEN None ELSE s,
              project |-> p]

(* A file and all it is derived from: the least set with the file in it    *)
(* and, of each of its members, the original.                              *)
Chain(x) ==
    {y \in Resources : \A S \in SUBSET Resources :
        x \in S /\ (\A z \in S : row[z].parent \in S \cup {None}) => y \in S}

(* Mutant: only the file itself is refused as its own original.            *)
AllowedNoWalk(r, d) ==
    /\ "session" \in DOMAIN d /\ d.session # None =>
           d.session \in Existing /\ ("project" \in DOMAIN d => d.project = home[d.session])
    /\ "parent" \in DOMAIN d => d.parent # r
    /\ "category" \in DOMAIN d /\ d.category \notin {None, row[r].category} =>
           d.category \notin archived

Allowed(r, d) ==
    /\ "session" \in DOMAIN d /\ d.session # None =>
           d.session \in Existing /\ ("project" \in DOMAIN d => d.project = home[d.session])
    /\ "parent" \in DOMAIN d /\ d.parent # None =>
           r \notin Chain(d.parent) /\ \E y \in Chain(d.parent) : row[y].parent = None
    /\ "category" \in DOMAIN d /\ d.category \notin {None, row[r].category} =>
           d.category \notin archived

(* Mutant: a session may be given the folder of another that is alone in   *)
(* its project.                                                            *)
FreeByName(n, p, except) ==
    \A s \in Existing \ except : home[s] = p => name[s] # n

(* ~_session_folder_taken                                                  *)
Free(n, p, except) ==
    \A s \in Existing \ except : home[s] = p => FolderOf[name[s]] # FolderOf[n]

Idle == [kind |-> "idle", on |-> None, late |-> FALSE, set |-> Nothing]

(* A request that has passed its checks and is about to write.             *)
Begin(t, kind, x, w) ==
    /\ thread[t] = Idle
    /\ requests < MaxRequests /\ requests' = requests + 1
    /\ thread' = [thread EXCEPT ![t] = [kind |-> kind, on |-> x, late |-> FALSE, set |-> w]]
    /\ UNCHANGED <<row, name, home, archived, emptied, raced>>

(* update_resource; the batch is one of these for each file                *)
PatchFile(t, r, d) ==
    LET w == IF DOMAIN d \cap {"session", "project"} # {} THEN Placed(r, d) ELSE d
    IN  /\ Allowed(r, d)
        /\ DOMAIN Changed(w, row[r]) # {}
        /\ Begin(t, "file", r, Changed(w, row[r]))

CreateSession(t, s, n, p) ==
    /\ s \notin Existing /\ Free(n, p, {})
    /\ Begin(t, "create", s, [name |-> n, home |-> p])

(* update_session                                                          *)
PatchSession(t, s, n, p) ==
    LET w == Changed([name |-> n, home |-> p], [name |-> name[s], home |-> home[s]])
    IN  /\ s \in Existing /\ Free(n, p, {s}) /\ DOMAIN w # {}
        /\ Begin(t, "session", s, w)

DeleteSession(t, s) ==
    /\ s \in Existing /\ \A r \in Resources : row[r].session # s
    /\ Begin(t, "delete", s, Nothing)

(* update_category: archived or active again                               *)
ArchiveCategory(t, c) ==
    Begin(t, IF c \in archived THEN "reopen" ELSE "archive", c, Nothing)

(* merge_category: of a category that is archived already that column is   *)
(* not written.                                                            *)
MergeCategory(t, c, into) ==
    /\ into \notin archived \cup {c}
    /\ Begin(t, IF c \in archived THEN "remerge" ELSE "merge", c, [into |-> into])

-----------------------------------------------------------------------------
(* What it writes                                                          *)

(* Every other request under way now rests on what it has read before.     *)
Commit(t, written) ==
    /\ thread' = [u \in Threads |->
           IF u = t THEN Idle
           ELSE [thread[u] EXCEPT !.late = thread[u].kind # "idle"]]
    /\ raced' = (raced \ written) \cup (IF thread[t].late THEN written ELSE {})
    /\ UNCHANGED requests

(* A foreign key, a unique name or a row that is gone: nothing is changed. *)
Fail(t) ==
    /\ thread' = [thread EXCEPT ![t] = Idle]
    /\ UNCHANGED <<row, name, home, archived, requests, emptied, raced>>

WriteFile(t) ==
    LET r == thread[t].on
        w == thread[t].set
    IN  /\ thread[t].kind = "file"
        /\ IF "session" \in DOMAIN w /\ w.session \notin Existing \cup {None}
           THEN Fail(t)
           ELSE /\ row' = [row EXCEPT ![r] = Written(w, @)]
                /\ Commit(t, {r} \X {Aspect(c) : c \in DOMAIN w})
                /\ UNCHANGED <<name, home, archived, emptied>>

(* Mutant: the session goes to another project and its files stay.         *)
WriteSessionAlone(t) ==
    LET s == thread[t].on
        w == Written(thread[t].set, [name |-> name[s], home |-> home[s]])
    IN  /\ thread[t].kind \in {"create", "session"}
        /\ name' = [name EXCEPT ![s] = w.name] /\ home' = [home EXCEPT ![s] = w.home]
        /\ Commit(t, {<<s, "place">>})
        /\ UNCHANGED <<row, archived, emptied>>

(* The files of a session go with it to another project.                   *)
WriteSession(t) ==
    LET s == thread[t].on
        w == Written(thread[t].set, [name |-> name[s], home |-> home[s]])
        moved == {r \in Resources : "home" \in DOMAIN thread[t].set /\ row[r].session = s}
    IN  /\ thread[t].kind \in {"create", "session"}
        /\ IF \/ thread[t].kind = "create" <=> s \in Existing
              \/ w.home # None
                 /\ \E u \in Existing \ {s} : name[u] = w.name /\ home[u] = w.home
           THEN Fail(t)
           ELSE /\ name' = [name EXCEPT ![s] = w.name] /\ home' = [home EXCEPT ![s] = w.home]
                /\ row' = [r \in Resources |->
                       IF r \in moved THEN [row[r] EXCEPT !.project = w.home] ELSE row[r]]
                /\ Commit(t, {<<s, "place">>})
                /\ UNCHANGED <<archived, emptied>>

(* Mutant: the files of the session are not looked at again.               *)
RemoveSessionBlindly(t) ==
    LET s == thread[t].on
    IN  /\ thread[t].kind = "delete"
        /\ name' = [name EXCEPT ![s] = None] /\ home' = [home EXCEPT ![s] = None]
        /\ Commit(t, {<<s, "place">>})
        /\ UNCHANGED <<row, archived, emptied>>

(* The ORM takes the session from the files that have come since.          *)
RemoveSession(t) ==
    LET s == thread[t].on
    IN  /\ thread[t].kind = "delete"
        /\ name' = [name EXCEPT ![s] = None] /\ home' = [home EXCEPT ![s] = None]
        /\ row' = [r \in Resources |->
               IF row[r].session = s THEN [row[r] EXCEPT !.session = None] ELSE row[r]]
        /\ Commit(t, {<<s, "place">>})
        /\ UNCHANGED <<archived, emptied>>

WriteCategory(t) ==
    LET c == thread[t].on
    IN  /\ thread[t].kind \in {"archive", "reopen"}
        /\ archived' = IF thread[t].kind = "archive" THEN archived \cup {c} ELSE archived \ {c}
        /\ emptied' = emptied \cap archived'
        /\ Commit(t, {}) /\ UNCHANGED <<row, name, home>>

(* Mutant: the category is merged and stays open to new files.             *)
WriteMergeOpen(t) ==
    LET c == thread[t].on
        moved == {r \in Resources : row[r].category = c}
    IN  /\ thread[t].kind \in {"merge", "remerge"}
        /\ row' = [r \in Resources |->
               IF r \in moved THEN [row[r] EXCEPT !.category = thread[t].set.into] ELSE row[r]]
        /\ emptied' = emptied \cup {c}
        /\ Commit(t, moved \X {"category"}) /\ UNCHANGED <<name, home, archived>>

WriteMerge(t) ==
    LET c == thread[t].on
        moved == {r \in Resources : row[r].category = c}
    IN  /\ thread[t].kind \in {"merge", "remerge"}
        /\ row' = [r \in Resources |->
               IF r \in moved THEN [row[r] EXCEPT !.category = thread[t].set.into] ELSE row[r]]
        /\ archived' = IF thread[t].kind = "merge" THEN archived \cup {c} ELSE archived
        /\ emptied' = (emptied \cup {c}) \cap archived'
        /\ Commit(t, moved \X {"category"}) /\ UNCHANGED <<name, home>>

-----------------------------------------------------------------------------
Init ==
    /\ row = [r \in Resources |->
           [session |-> None, project |-> None, parent |-> None, category |-> None]]
    /\ name = [s \in Sessions |-> IF s = First THEN CHOOSE n \in Names : TRUE ELSE None]
    /\ \E p \in Projects \cup {None} : home = [s \in Sessions |-> IF s = First THEN p ELSE None]
    /\ archived = {} /\ thread = [t \in Threads |-> Idle]
    /\ requests = 0 /\ emptied = {} /\ raced = {}

Request(t) ==
    \/ \E r \in Resources, d \in Patches : PatchFile(t, r, d)
    \/ \E s \in Sessions :
           \/ DeleteSession(t, s)
           \/ \E n \in Names, p \in Projects \cup {None} :
                  CreateSession(t, s, n, p) \/ PatchSession(t, s, n, p)
    \/ \E c \in Categories :
           \/ ArchiveCategory(t, c)
           \/ \E into \in Categories : MergeCategory(t, c, into)

Write(t) ==
    WriteFile(t) \/ WriteSession(t) \/ RemoveSession(t) \/ WriteCategory(t) \/ WriteMerge(t)

Next == \E t \in Threads : Request(t) \/ Write(t)

Spec == Init /\ [][Next]_vars

-----------------------------------------------------------------------------
(* A file's project is always its session's project, unless the file was   *)
(* written by a request that another overtook.                             *)
Agreement ==
    \A r \in Resources : <<r, "place">> \notin raced =>
        (row[r].session # None => row[r].project = home[row[r].session])

(* No file is in a session that was deleted, however requests overlap.     *)
NoDangling ==
    \A r \in Resources : row[r].session # None => row[r].session \in Existing

(* Edits never form a loop, except through a file whose original was set   *)
(* by a request that another overtook.                                     *)
NoLoops ==
    \A r \in Resources :
        row[r].parent # None /\ r \in Chain(row[r].parent) =>
            \E y \in Chain(r) : <<y, "parent">> \in raced

(* Two sessions of one project never share a folder, unless one of them    *)
(* was written by a request that another overtook.                         *)
FoldersDistinct ==
    \A s, u \in Existing :
        s # u /\ {<<s, "place">>, <<u, "place">>} \cap raced = {} =>
            home[s] # home[u] \/ FolderOf[name[s]] # FolderOf[name[u]]

(* A category merged into another holds no file, unless one was given it   *)
(* by a request that the merge overtook.                                   *)
MergedStaysEmpty ==
    \A r \in Resources : row[r].category \in emptied => <<r, "category">> \in raced

(* What the requests keep in order beside that.                            *)
Organised == NoLoops /\ FoldersDistinct /\ MergedStaysEmpty

=============================================================================
