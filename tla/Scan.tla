-------------------------------- MODULE Scan --------------------------------
(***************************************************************************)
(* What a paged listing promises: it goes through what is stored in some   *)
(* order, each page takes what comes next and leaves a place to go on      *)
(* from, and the server keeps nothing between two pages.  What is stored   *)
(* changes as it likes meanwhile.  The listings of internal/ssm            *)
(* (SsmListing) and of internal/route53 (Route53Listing) implement it.     *)
(***************************************************************************)
EXTENDS Integers

CONSTANTS Entry,
          Order, Rank,   \* the orders of listings: the place of each item
          Topic,         \* what a listing may be about
          Place,         \* where a page may begin
          Scanner

(* What the constants are.                                                 *)
ScanConstants == /\ Rank \in [Order -> [Entry -> Nat]]
                 /\ Topic \subseteq SUBSET Entry
                 /\ Place \subseteq Nat

VARIABLES stored,   \* the items that are there
          scan      \* how far each listing is

vars == <<stored, scan>>

Idle == [pc |-> "idle"]
(* Of the items it is about, a listing has seen those in seen and goes on  *)
(* at place at.  Those in steady have been there since it began, at or     *)
(* after the place it began at.                                            *)
Open(order, about, at, seen, steady) ==
  [pc |-> "open", order |-> order, about |-> about, at |-> at, seen |-> seen,
   steady |-> steady]
Done(seen, steady) == [pc |-> "done", seen |-> seen, steady |-> steady]

TypeOK ==
  /\ stored \in SUBSET Entry
  /\ scan \in [Scanner ->
       {Idle}
         \cup [pc : {"open"}, order : Order, about : Topic, at : Place,
               seen : SUBSET Entry, steady : SUBSET Entry]
         \cup [pc : {"done"}, seen : SUBSET Entry, steady : SUBSET Entry]]

Init == stored \in SUBSET Entry /\ scan = [s \in Scanner |-> Idle]

After(order, items, at) == {k \in items : Rank[order][k] >= at}

Begin(s) ==
  /\ scan[s] = Idle
  /\ \E order \in Order, about \in Topic, at \in Place :
       scan' = [scan EXCEPT ![s] =
         Open(order, about, at, {}, After(order, stored \cap about, at))]
  /\ UNCHANGED stored

Rest(s) == After(scan[s].order, stored \cap scan[s].about, scan[s].at)

(* A page takes what comes before place q and leaves the rest.             *)
NextPage(s, q) ==
  /\ scan[s].pc = "open"
  /\ q >= scan[s].at
  /\ scan' = [scan EXCEPT
       ![s].at = q,
       ![s].seen = @ \cup {k \in Rest(s) : Rank[scan[s].order][k] < q}]
  /\ UNCHANGED stored

LastPage(s) ==
  /\ scan[s].pc = "open"
  /\ scan' = [scan EXCEPT ![s] = Done(scan[s].seen \cup Rest(s), scan[s].steady)]
  /\ UNCHANGED stored

(* Its client is gone, or the process is.                                  *)
Close(S) ==
  /\ scan' = [s \in Scanner |-> IF s \in S THEN Idle ELSE scan[s]]
  /\ UNCHANGED stored

Change ==
  /\ stored' \in SUBSET Entry
  /\ scan' = [s \in Scanner |->
       IF scan[s].pc = "open" THEN [scan[s] EXCEPT !.steady = @ \cap stored']
                              ELSE scan[s]]

Next ==
  \/ \E s \in Scanner :
       \/ Begin(s)
       \/ \E q \in Place : NextPage(s, q)
       \/ LastPage(s)
  \/ \E S \in SUBSET Scanner : Close(S)
  \/ Change

Spec == Init /\ [][Next]_vars

-----------------------------------------------------------------------------
(* A complete listing has seen whatever was there all along, at or after   *)
(* the place where it began.                                               *)
SteadyAreSeen ==
  \A s \in Scanner : scan[s].pc = "done" => scan[s].steady \subseteq scan[s].seen
=============================================================================
