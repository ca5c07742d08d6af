---------------------------- MODULE MCArrangement ---------------------------
(***************************************************************************)
(* How the recordings of a library belong together, for TLC: small         *)
(* instances of Grouping and Structure.                                    *)
(*                                                                         *)
(* These parts write columns and files of their own and never wait for     *)
(* each other, so one run checks them side by side: a behaviour is one of  *)
(* one part, chosen at the start.  The variables of the other stand still; *)
(* v1, v2, ... are those of Structure.                                     *)
(***************************************************************************)
EXTENDS Grouping, Sequences, TLC

VARIABLES part, v1, v2, v3, v4, v5, v6, v7, v8

others == <<v1, v2, v3, v4, v5, v6, v7, v8>>

all == <<part, vars, others>>

-----------------------------------------------------------------------------
(* Grouping, in two parts.  Joins: three parts of one recording, of which  *)
(* the last comes late and may be in a format that cannot be joined, and   *)
(* too little room for all in staging.  Detection: three parts, three      *)
(* tracks, or two parts and a track out of ten recordings.                 *)
Part(s, l, fm) ==
    [start |-> s, exact |-> TRUE, len |-> l, profile |-> "mic", stem |-> "rec", label |-> s,
     folder |-> "memo", arrived |-> 0, format |-> fm]

Track(n, e, l) ==
    [start |-> IF e THEN 50 + n ELSE None, exact |-> e, len |-> l, profile |-> None,
     stem |-> "desk", label |-> n, folder |-> "desk", arrived |-> n, format |-> "wav"]

Splits == [mic |-> 10]

Few == {"f1" :> Part(0, 10, "wav") @@ "f2" :> Part(11, 10, "wav") @@ "f3" :> Part(21, 4, fm) :
            fm \in {"wav", "aac"}}

Options == <<Part(-20, 4, "wav"), Part(0, 10, "wav"), Part(11, 10, "wav"), Part(11, 4, "wav"),
             Part(16, 4, "wav"), Track(1, TRUE, 7), Track(2, TRUE, 7), Track(3, TRUE, 30),
             Track(1, FALSE, 7), Track(2, FALSE, 7)>>

Triples == {x \in (1 .. 5) \X (1 .. 5) \X (1 .. 10) :
                x[1] < x[2] /\ x[2] < x[3] /\ (x[3] > 5 => x[1] = 2 /\ x[2] = 4)}
           \cup {x \in (6 .. 10) \X (6 .. 10) \X (6 .. 10) : x[1] < x[2] /\ x[2] < x[3]}

Many == {"f1" :> Options[x[1]] @@ "f2" :> Options[x[2]] @@ "f3" :> Options[x[3]] : x \in Triples}

Known == Few \cup Many

Alphabetical == {<<"f1", "f2">>, <<"f1", "f3">>, <<"f2", "f3">>}

Later == {{}, {"f3"}}

-----------------------------------------------------------------------------
(* Structure: two files, two sessions whose names give the same folder.    *)
Struct == INSTANCE Structure WITH
    Resources <- {"f1", "f2"}, Sessions <- {"s1", "s2"}, Projects <- {"p1"},
    Categories <- {"music", "speech"}, Names <- {"night 1", "Night 1"}, First <- "s1",
    FolderOf <- [n \in {"night 1", "Night 1"} |-> "night 1"], Threads <- {"t1", "t2"},
    MaxRequests <- 3, row <- v1, name <- v2, home <- v3, archived <- v4, thread <- v5,
    requests <- v6, emptied <- v7, raced <- v8

ASSUME GroupingAssumption /\ Struct!StructureAssumption

-----------------------------------------------------------------------------
Unused ==
    /\ v1 = None /\ v2 = None /\ v3 = None /\ v4 = None
    /\ v5 = None /\ v6 = None /\ v7 = None /\ v8 = None

AllThere == \A f \in Files : at[f] = "staging"

Begin ==
    /\ Init
    /\ \/ part = "joins" /\ meta \in Few /\ ~AllThere /\ Unused
       \/ part = "detection" /\ meta \in Many /\ AllThere /\ Unused
       \/ part = "structure" /\ meta \in Few /\ meta["f3"].format = "wav" /\ AllThere /\ Struct!Init

InJoins(A) == part = "joins" /\ A /\ UNCHANGED <<part, others>>

(* One request and no fault are enough to see what becomes of a suggestion. *)
InDetection(A) ==
    /\ part = "detection" /\ A
    /\ requests' <= 1 /\ faults' = 0 /\ UNCHANGED <<part, others>>

InStructure(A) == part = "structure" /\ A /\ UNCHANGED <<part, vars>>

Step == InJoins(Next) \/ InDetection(Next) \/ InStructure(Struct!Next)

(* What each part is fair to; a behaviour has only one of them.            *)
Fair1 == InJoins(SuggestStep) \/ InDetection(SuggestStep)

Fair2 == InJoins(JoinStep) \/ InDetection(JoinStep)

Fair3 == InJoins(Mount)

Parts ==
    /\ Begin /\ [][Step]_all
    /\ WF_all(Fair1) /\ WF_all(Fair2) /\ WF_all(Fair3)

-----------------------------------------------------------------------------
(* The types of the variables of each part.                                *)
TypesOK == TypeOK /\ (part = "structure" => Struct!TypeOK)

(* Grouping: no suggestion is missed, and a confirmed group does not stay  *)
(* `joining`, unless staging has no room for it for ever.                  *)
GroupsSettle == (part # "structure" => SuggestsAll) /\ JoinEnds

(* Structure: a file's project is its session's, and the session exists;   *)
(* unless the request that said so was overtaken by another.               *)
Agreement == part = "structure" => Struct!NoDangling /\ Struct!Agreement

(* Structure: no loop of originals, no two sessions in one folder, no file *)
(* in a category merged away; unless a request was overtaken.              *)
Organised == part = "structure" => Struct!Organised

=============================================================================
