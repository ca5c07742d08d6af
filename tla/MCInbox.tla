------------------------------ MODULE MCInbox -------------------------------
(* Instances of Inbox for TLC. *)
EXTENDS Inbox, TLC

CONSTANTS a1, a2, s1, n1, c1, bad, big, k1

Fits == s1 :> {a1}

RankOf == a1 :> 1 @@ a2 :> 2 @@ s1 :> 3

SentTo == a1 :> {c1, bad} @@ a2 :> {c1, big} @@ s1 :> {k1} @@ n1 :> {c1}

Bulk == c1 :> 1 @@ bad :> 2 @@ big :> 3 @@ k1 :> 0

=============================================================================
