------------------------------ MODULE MCUpkeep ------------------------------
(***************************************************************************)
(* What the timers do for a recording once it is in the library, for TLC:  *)
(* small instances of Enrichment, Previews and Exports.                    *)
(*                                                                         *)
(* These parts write columns and files of their own and never wait for     *)
(* each other, so one run checks them side by side: a behaviour is one of  *)
(* one part, chosen at the start.  The variables of the others stand       *)
(* still; v1, v2, ... are those of Previews or of Exports.                 *)
(***************************************************************************)
EXTENDS Enrichment, TLC

CONSTANTS Whole, Partial

VARIABLES part, v1, v2, v3, v4, v5, v6, v7, v8, v9, v10, v11, v12, v13, v14

others == <<v1, v2, v3, v4, v5, v6, v7, v8, v9, v10, v11, v12, v13, v14>>

all == <<part, vars, others>>

-----------------------------------------------------------------------------
(* Enrichment: one recording, two dates, and four places: a row of three,  *)
(* in which neighbours are near each other, and one far from them all.     *)
Steps == {<<"home", "garden">>, <<"garden", "gate">>}

Nearby == {<<p, p>> : p \in Positions} \cup Steps \cup {<<s[2], s[1]>> : s \in Steps}

Pins == "d1" :> "home" @@ "d2" :> "far"

-----------------------------------------------------------------------------
(* Previews: two recordings, of which the older is on the NAS.             *)
Preview == INSTANCE Previews WITH
    Resources <- {"r1", "r2"}, Age <- ("r1" :> 1 @@ "r2" :> 2), Filed <- {"r1"},
    MaxRequests <- 2, MaxFaults <- 1, marked <- v1, error <- v2, cache <- v3, row <- v4,
    disk <- v5, mounted <- v6, job <- v7, regen <- v8, heal <- v9, requests <- v10,
    faults <- v11, crossed <- v12

-----------------------------------------------------------------------------
(* Exports: two recordings with the same name and one clip of the first.   *)
(* The first two exports write the same file, and so do the last two if    *)
(* the clip is deleted before the second one runs.                         *)
Orders == <<[of |-> "r1", clip |-> "c1", format |-> "original"],
            [of |-> "r1", clip |-> "c1", format |-> "wav"],
            [of |-> "r2", clip |-> None, format |-> "wav"]>>

Export == INSTANCE Exports WITH
    Resources <- {"r1", "r2"}, Base <- [r \in {"r1", "r2"} |-> "take"],
    Ext <- [r \in {"r1", "r2"} |-> "wav"], Clips <- {"c1"}, ClipOf <- [c1 |-> "r1"],
    Windows <- {"a", "b"}, Jobs <- 1 .. 3, Asked <- Orders,
    MaxEdits <- 2, MaxFaults <- 1, window <- v1, clip <- v2, status <- v3, path <- v4,
    files <- v5, nas <- v6, mounted <- v7, job <- v8, edits <- v9, faults <- v10,
    cut <- v11, orphaned <- v12, had <- v13, spoilt <- v14

ASSUME EnrichmentAssumption /\ Preview!PreviewsAssumption /\ Export!ExportsAssumption

-----------------------------------------------------------------------------
Unused ==
    /\ v1 = None /\ v2 = None /\ v3 = None /\ v4 = None /\ v5 = None /\ v6 = None /\ v7 = None
    /\ v8 = None /\ v9 = None /\ v10 = None /\ v11 = None /\ v12 = None /\ v13 = None /\ v14 = None

Undated == date = [r \in Resources |-> None]

Start ==
    /\ Init
    /\ \/ part = "enrichment" /\ Unused
       \/ part = "previews" /\ Undated /\ Preview!Init /\ v13 = None /\ v14 = None
       \/ part = "exports" /\ Undated /\ Export!Init

InEnrichment(A) == part = "enrichment" /\ A /\ UNCHANGED <<part, others>>

InPreviews(A) == part = "previews" /\ A /\ UNCHANGED <<part, vars, v13, v14>>

InExports(A) == part = "exports" /\ A /\ UNCHANGED <<part, vars>>

Step == InEnrichment(Next) \/ InPreviews(Preview!Next) \/ InExports(Export!Next)

(* What each part is fair to; a behaviour has only one of them.            *)
Fair1 ==
    InEnrichment(JobStep("location")) \/ InPreviews(Preview!JobStep) \/ InExports(Export!JobStep)

Fair2 == InEnrichment(JobStep("photos")) \/ InPreviews(Preview!Mount)

Fair3 == InEnrichment(JobStep("place")) \/ InPreviews(Preview!RegenCommit)

Fair4 == InEnrichment(RefreshAnswer) \/ InPreviews(Preview!GetCommit)

Parts ==
    /\ Start /\ [][Step]_all
    /\ WF_all(Fair1) /\ WF_all(Fair2) /\ WF_all(Fair3) /\ WF_all(Fair4)

-----------------------------------------------------------------------------
(* The types of the variables of each part.                                *)
TypesOK ==
    /\ TypeOK
    /\ part = "previews" => Preview!TypeOK
    /\ part = "exports" => Export!TypeOK

(* Previews: what is marked as made is there, unless it was thrown away    *)
(* while a run was making it.                                              *)
MarkedHasFile == part = "previews" => Preview!MarkedHasFile

(* Previews: a failure is not tried again until someone asks.              *)
NotRetried == [][part = "previews" => Preview!LeavesErrors]_all

(* Previews: every recording gets both files, or an error that says why,   *)
(* though runs are cut short and the newest always come first.             *)
AllMade == []<>(part = "previews" => Preview!Complete)

(* Exports: what can be downloaded is what was asked for, unless its clip  *)
(* was deleted before it ran or a later export has written over it.        *)
DownloadFits == part = "exports" => Export!DownloadFits

(* Exports: every export ends, unless a kill or the NAS cut it off while   *)
(* it ran.                                                                 *)
ExportsEnd == []<>(part = "exports" => Export!Ended)

=============================================================================
